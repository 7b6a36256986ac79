------------------------------- MODULE Collab -------------------------------
(***************************************************************************)
(* Collaborative editing: the browsers (section 21 of renderer.js), the    *)
(* Collaborate handlers of one server process, one per stream, and what    *)
(* they use of Redis: an operation log per project and a pub/sub channel   *)
(* per project.                                                            *)
(*                                                                         *)
(* The bridge between WebSocket and gRPC is not part of the repository; it *)
(* is taken to forward each message once and in order.  A stream is the    *)
(* k-th connection of a client.  Between a client and its handler there    *)
(* are two FIFOs, inbox and out; out is the handler's queue `pending`, the *)
(* writer thread and the wire together (module Stream looks inside).       *)
(***************************************************************************)
EXTENDS Canvas

CONSTANTS
  Client,     \* browsers, each with one session token
  Project,    \* projects they may open
  Layer,      \* names of layers
  LayersOf,   \* the layers each client's canvas starts with
  Kinds,      \* types of operation the users perform
  MaxSend,    \* bound: operations each client performs
  MaxConn,    \* bound: connections per client
  EmitZero,   \* does the bridge write `revision` into the JSON when it is 0?
  Events      \* which of the things that may go wrong do

Event == {"disconnect", "session", "subscribe", "refused", "redis", "crash"}

\* In the code a layer's name is drawn at random by the browser that makes it
\* (createLayer), so the sets LayersOf[c] are disjoint: a client's operations
\* name layers no other client has.  That is not assumed, so that it can be told
\* what holds because of it and what in spite of it.
ASSUME CollabAssumption ==
  /\ LayersOf \in [Client -> SUBSET Layer]
  /\ Kinds \subseteq UpdateType \ {"NOOP"}
  /\ MaxSend \in [Client -> Nat]
  /\ MaxConn \in Nat \ {0}
  /\ EmitZero \in BOOLEAN
  /\ Events \subseteq Event

Stream == Client \X (1..MaxConn)

\* A client authenticates with its token and sends it as session_id in every
\* message; the server knows the session by another name, its id.
Token(c) == <<"token", c>>
SessionId(c) == <<"id", c>>

NoLayer == "none"
NoProject == "none"
NoOp == [type |-> "NOOP"]

VARIABLES
  log,            \* Redis: project -> the operations as they arrived
  redisOk,        \* the server's command connection to Redis works
  hpc,            \* where each handler is
  project,        \* the project of each stream
  cur,            \* the handler's `transformed`
  inbox,          \* client to handler
  subscribed,     \* the handler's RedisSubscriber is connected
  channel,        \* messages published and not yet taken by that subscriber
  out,            \* handler to client
  open,           \* the client end of the stream is open
  conns,          \* connections the client has made; the last one is its `ws`
  localRevision, pendingOps,   \* the client's variables
  sent,           \* operations the client has sent
  canvas          \* the client's document

redisVars == <<log, redisOk>>
handlerVars == <<hpc, project, cur, subscribed>>
queueVars == <<inbox, channel, out>>
clientVars == <<conns, localRevision, pendingOps, sent, canvas>>
vars == <<redisVars, handlerVars, queueVars, open, clientVars>>

Init ==
  /\ log = [p \in Project |-> <<>>]
  /\ redisOk = TRUE
  /\ hpc = [s \in Stream |-> "none"]
  /\ project = [s \in Stream |-> NoProject]
  /\ cur = [s \in Stream |-> NoOp]
  /\ inbox = [s \in Stream |-> <<>>]
  /\ subscribed = [s \in Stream |-> FALSE]
  /\ channel = [s \in Stream |-> <<>>]
  /\ out = [s \in Stream |-> <<>>]
  /\ open = [s \in Stream |-> FALSE]
  /\ conns = [c \in Client |-> 0]
  /\ localRevision = [c \in Client |-> 0]
  /\ pendingOps = [c \in Client |-> <<>>]
  /\ sent = [c \in Client |-> 0]
  /\ canvas = [c \in Client |-> [l \in LayersOf[c] |-> <<>>]]
----------------------------------------------------------------------------
(* The client. *)

ws(c) == <<c, conns[c]>>
Connected(c) == conns[c] > 0 /\ open[ws(c)]

Message(c, type, layer, n, base) ==
  [type |-> type, layer |-> layer, order |-> 0, session |-> Token(c), n |-> n,
   base |-> base, rev |-> 0]

\* Mutant: what is still pending is sent again after the handshake.
connectResends(c, p) ==
  /\ conns[c] < MaxConn
  /\ LET s == <<c, conns[c] + 1>> IN
     /\ conns' = [conns EXCEPT ![c] = @ + 1]
     /\ open' = [open EXCEPT ![s] = TRUE]
     /\ hpc' = [hpc EXCEPT ![s] = "accept"]
     /\ project' = [project EXCEPT ![s] = p]
     /\ inbox' = [inbox EXCEPT ![s] =
                    <<Message(c, "STROKE_BEGIN", NoLayer, 0, 0)>> \o pendingOps[c]]
  /\ UNCHANGED <<redisVars, cur, subscribed, channel, out, localRevision, pendingOps,
                 sent, canvas>>

\* connect() and the socket's onopen in one: in between send() returns at once,
\* and a socket that never opens leaves the client as it was.  The variables
\* localRevision and pendingOps keep what they held, and a socket still open
\* stays open, its messages going to the same onMessage.
connect(c, p) ==
  /\ conns[c] < MaxConn
  /\ LET s == <<c, conns[c] + 1>> IN
     /\ conns' = [conns EXCEPT ![c] = @ + 1]
     /\ open' = [open EXCEPT ![s] = TRUE]
     /\ hpc' = [hpc EXCEPT ![s] = "accept"]
     /\ project' = [project EXCEPT ![s] = p]
     /\ inbox' = [inbox EXCEPT ![s] = <<Message(c, "STROKE_BEGIN", NoLayer, 0, 0)>>]
  /\ UNCHANGED <<redisVars, cur, subscribed, channel, out, localRevision, pendingOps,
                 sent, canvas>>

\* disconnect(): what the server sends from now on is not delivered.
disconnect(c) ==
  /\ "disconnect" \in Events
  /\ Connected(c)
  /\ open' = [open EXCEPT ![ws(c)] = FALSE]
  /\ out' = [out EXCEPT ![ws(c)] = <<>>]
  /\ UNCHANGED <<redisVars, handlerVars, inbox, channel, clientVars>>

\* The user performs an operation on the canvas and the client sends it.
\* Every type goes through the same send(), which also queues it as pending.
send(c) ==
  /\ Connected(c)
  /\ sent[c] < MaxSend[c]
  /\ \E type \in Kinds, layer \in DOMAIN canvas[c] \union {NoLayer} :
       /\ needs_ot(type) <=> layer # NoLayer
       /\ LET msg == Message(c, type, layer, sent[c] + 1, localRevision[c]) IN
          /\ canvas' = [canvas EXCEPT ![c] = applyRemoteOp(@, msg)]
          /\ pendingOps' = [pendingOps EXCEPT ![c] = Append(@, msg)]
          /\ inbox' = [inbox EXCEPT ![ws(c)] = Append(@, msg)]
          /\ sent' = [sent EXCEPT ![c] = @ + 1]
  /\ UNCHANGED <<redisVars, handlerVars, channel, out, open, conns, localRevision>>

\* op.revision != null
HasRevision(op) == op.rev # 0 \/ EmitZero

IsAck(c, op) == op.session = Token(c) /\ HasRevision(op)

Tail0(q) == IF q = <<>> THEN q ELSE Tail(q)     \* Array.shift

Larger(a, b) == IF a < b THEN b ELSE a          \* Math.max

onAck(c, op) ==
  /\ pendingOps' = [pendingOps EXCEPT ![c] = Tail0(@)]
  /\ localRevision' = [localRevision EXCEPT ![c] = op.rev]
  /\ UNCHANGED canvas

onRemoteOp(c, op) ==
  /\ localRevision' = [localRevision EXCEPT
                         ![c] = IF HasRevision(op) THEN Larger(@, op.rev) ELSE @]
  /\ canvas' = [canvas EXCEPT ![c] = applyRemoteOp(@, TransformPending(op, pendingOps[c]))]
  /\ UNCHANGED pendingOps

onMessage(s) ==
  /\ open[s]
  /\ out[s] # <<>>
  /\ out' = [out EXCEPT ![s] = Tail(@)]
  /\ IF IsAck(s[1], Head(out[s])) THEN onAck(s[1], Head(out[s]))
                                  ELSE onRemoteOp(s[1], Head(out[s]))
  /\ UNCHANGED <<redisVars, handlerVars, inbox, channel, open, conns, sent>>
----------------------------------------------------------------------------
(* The handler: Collaborate, for the stream s. *)

\* PUBLISH: every connected subscriber of the project gets the message, in one
\* order for all; nobody does when the command connection is broken.
Publish(p, op) ==
  channel' = [s \in Stream |->
                IF redisOk /\ subscribed[s] /\ project[s] = p
                THEN Append(channel[s], op) ELSE channel[s]]

\* Mutant: the queue is filled from the front.
EnqueueFirst(s, op) == out' = IF open[s] THEN [out EXCEPT ![s] = <<op>> \o @] ELSE out

\* enqueue: to a client that is gone the queue leads nowhere.
Enqueue(s, op) == out' = IF open[s] THEN [out EXCEPT ![s] = Append(@, op)] ELSE out

\* The first message is read, its token validated, the room entered and its
\* channel subscribed to.  A failed subscription is logged and nothing else.
Join(s) ==
  /\ hpc[s] = "accept"
  /\ redisOk
  /\ \E ok \in {TRUE} \union (IF "subscribe" \in Events THEN {FALSE} ELSE {}) :
       subscribed' = [subscribed EXCEPT ![s] = ok]
  /\ hpc' = [hpc EXCEPT ![s] = "greet"]
  /\ UNCHANGED <<redisVars, project, cur, queueVars, open, clientVars>>

\* The token is unknown or expired, or Redis cannot be asked: the RPC ends.
Reject(s) ==
  /\ hpc[s] = "accept"
  /\ "session" \in Events \/ ~redisOk
  /\ hpc' = [hpc EXCEPT ![s] = "done"]
  /\ open' = [open EXCEPT ![s] = FALSE]
  /\ inbox' = [inbox EXCEPT ![s] = <<>>]
  /\ UNCHANGED <<redisVars, project, cur, subscribed, channel, out, clientVars>>

\* The first message is broadcast as it came, to the sender too.
Greet(s) ==
  /\ hpc[s] = "greet"
  /\ Publish(project[s], Head(inbox[s]))
  /\ inbox' = [inbox EXCEPT ![s] = Tail(@)]
  /\ hpc' = [hpc EXCEPT ![s] = "read"]
  /\ UNCHANGED <<redisVars, project, cur, subscribed, out, open, clientVars>>

\* Mutant: the handler waits until two messages are there.
ReadingPairs(s) == hpc[s] = "read" /\ Len(inbox[s]) > 1

Reading(s) == hpc[s] = "read" /\ inbox[s] # <<>>

\* An ephemeral operation is published as it came.
Forward(s) ==
  /\ Reading(s)
  /\ ~needs_ot(Head(inbox[s]).type)
  /\ Publish(project[s], Head(inbox[s]))
  /\ inbox' = [inbox EXCEPT ![s] = Tail(@)]
  /\ UNCHANGED <<redisVars, handlerVars, out, open, clientVars>>

\* `transformed` is ready: op against the operations concurrent to it, stamped.
Transformed(s, op, concurrent, rev) ==
  /\ cur' = [cur EXCEPT ![s] = [TransformAll(op, concurrent) EXCEPT !.rev = rev]]
  /\ inbox' = [inbox EXCEPT ![s] = Tail(@)]
  /\ hpc' = [hpc EXCEPT ![s] = "ack"]
  /\ UNCHANGED <<project, subscribed, channel, out, open, clientVars>>

\* The Lua script: read the log from base_revision on, append the operation as
\* it arrived, return both the part read and the new length.
RPush(s, op) == log' = [log EXCEPT ![project[s]] = Append(@, op)]

\* Mutant: an operation the transform cancels is not logged.
CommitUnlessCancelled(s) ==
  /\ Reading(s)
  /\ redisOk
  /\ LET op == Head(inbox[s])
         lg == log[project[s]] IN
     /\ needs_ot(op.type)
     /\ IF TransformAll(op, Concurrent(lg, op.base)).type = "NOOP" THEN UNCHANGED log ELSE RPush(s, op)
     /\ Transformed(s, op, Concurrent(lg, op.base), Len(lg) + 1)
  /\ UNCHANGED redisOk

Commit(s) ==
  /\ Reading(s)
  /\ redisOk
  /\ LET op == Head(inbox[s])
         lg == log[project[s]] IN
     /\ needs_ot(op.type)
     /\ RPush(s, op)
     /\ Transformed(s, op, Concurrent(lg, op.base), Len(lg) + 1)
  /\ UNCHANGED redisOk

\* ot_commit gets an error reply, or none because the connection is broken: it
\* returns no concurrent operations and revision 0, and the handler goes on.
CommitFails(s) ==
  /\ Reading(s)
  /\ "refused" \in Events \/ ~redisOk
  /\ needs_ot(Head(inbox[s]).type)
  /\ Transformed(s, Head(inbox[s]), <<>>, 0)
  /\ UNCHANGED redisVars

\* The script ran, and the connection broke before its reply was read.
ReplyLost(s) ==
  /\ Reading(s)
  /\ "redis" \in Events
  /\ redisOk
  /\ needs_ot(Head(inbox[s]).type)
  /\ RPush(s, Head(inbox[s]))
  /\ redisOk' = FALSE
  /\ Transformed(s, Head(inbox[s]), <<>>, 0)

\* Mutant: the operation is moved into the queue, and then broadcast.
AckMoves(s) ==
  /\ hpc[s] = "ack"
  /\ Enqueue(s, cur[s])
  /\ cur' = [cur EXCEPT ![s] = NoOp]
  /\ hpc' = [hpc EXCEPT ![s] = "broadcast"]
  /\ UNCHANGED <<redisVars, project, subscribed, inbox, channel, open, clientVars>>

\* The transformed operation is queued for the sender.
Ack(s) ==
  /\ hpc[s] = "ack"
  /\ Enqueue(s, cur[s])
  /\ hpc' = [hpc EXCEPT ![s] = "broadcast"]
  /\ UNCHANGED <<redisVars, project, cur, subscribed, inbox, channel, open, clientVars>>

\* Mutant: only the newest revision is worth publishing.
BroadcastNewest(s) ==
  /\ hpc[s] = "broadcast"
  /\ IF cur[s].type # "NOOP" /\ cur[s].rev = Len(log[project[s]])
     THEN Publish(project[s], cur[s]) ELSE UNCHANGED channel
  /\ cur' = [cur EXCEPT ![s] = NoOp]
  /\ hpc' = [hpc EXCEPT ![s] = "read"]
  /\ UNCHANGED <<redisVars, project, subscribed, inbox, out, open, clientVars>>

\* ... and published, unless the transform cancelled it.
Broadcast(s) ==
  /\ hpc[s] = "broadcast"
  /\ IF cur[s].type # "NOOP" THEN Publish(project[s], cur[s]) ELSE UNCHANGED channel
  /\ cur' = [cur EXCEPT ![s] = NoOp]
  /\ hpc' = [hpc EXCEPT ![s] = "read"]
  /\ UNCHANGED <<redisVars, project, subscribed, inbox, out, open, clientVars>>

\* The subscriber thread passes one message on, skipping those whose
\* session_id is the session's id.
Deliver(s) ==
  /\ channel[s] # <<>>
  /\ channel' = [channel EXCEPT ![s] = Tail(@)]
  /\ IF Head(channel[s]).session = SessionId(s[1]) THEN UNCHANGED out
                                                   ELSE Enqueue(s, Head(channel[s]))
  /\ UNCHANGED <<redisVars, handlerVars, inbox, open, clientVars>>

\* The client is gone: Read fails or the call is cancelled, the latter possibly
\* before all that was sent is read.
Leave(s) ==
  /\ ~open[s]
  /\ hpc[s] \in {"accept", "read"}
  /\ hpc' = [hpc EXCEPT ![s] = "done"]
  /\ subscribed' = [subscribed EXCEPT ![s] = FALSE]
  /\ inbox' = [inbox EXCEPT ![s] = <<>>]
  /\ channel' = [channel EXCEPT ![s] = <<>>]
  /\ UNCHANGED <<redisVars, project, cur, out, open, clientVars>>
----------------------------------------------------------------------------
(* The environment. *)

\* The command connection breaks; it is not reopened.
LoseRedis ==
  /\ "redis" \in Events
  /\ redisOk
  /\ redisOk' = FALSE
  /\ UNCHANGED <<log, handlerVars, queueVars, open, clientVars>>

\* A subscriber's connection breaks; its thread ends and nobody is told.
LoseSubscriber(s) ==
  /\ "subscribe" \in Events
  /\ subscribed[s]
  /\ subscribed' = [subscribed EXCEPT ![s] = FALSE]
  /\ channel' = [channel EXCEPT ![s] = <<>>]
  /\ UNCHANGED <<redisVars, hpc, project, cur, inbox, out, open, clientVars>>

\* The server process dies and starts again: every stream ends, Redis stays.
Crash ==
  /\ "crash" \in Events
  /\ \E s \in Stream : hpc[s] \notin {"none", "done"}
  /\ redisOk' = TRUE
  /\ hpc' = [s \in Stream |-> IF hpc[s] = "none" THEN "none" ELSE "done"]
  /\ cur' = [s \in Stream |-> NoOp]
  /\ subscribed' = [s \in Stream |-> FALSE]
  /\ inbox' = [s \in Stream |-> <<>>]
  /\ channel' = [s \in Stream |-> <<>>]
  /\ out' = [s \in Stream |-> <<>>]
  /\ open' = [s \in Stream |-> FALSE]
  /\ UNCHANGED <<log, project, clientVars>>

User(c) == \/ \E p \in Project : connect(c, p)
           \/ disconnect(c)
           \/ send(c)

Handler(s) ==
  \/ Join(s) \/ Reject(s) \/ Greet(s) \/ Forward(s)
  \/ Commit(s) \/ CommitFails(s) \/ ReplyLost(s)
  \/ Ack(s) \/ Broadcast(s) \/ Leave(s)

Next ==
  \/ \E c \in Client : User(c)
  \/ \E s \in Stream : onMessage(s) \/ Handler(s) \/ Deliver(s) \/ LoseSubscriber(s)
  \/ LoseRedis
  \/ Crash

\* Users act when they like.  Handler and subscriber threads and the browser's
\* event loop keep running.
Fairness == \A s \in Stream : /\ WF_vars(onMessage(s))
                              /\ WF_vars(Handler(s))
                              /\ WF_vars(Deliver(s))

Spec == Init /\ [][Next]_vars
FairSpec == Spec /\ Fairness
----------------------------------------------------------------------------
Op == [type : UpdateType, layer : Layer \union {NoLayer}, order : Nat,
       session : {Token(c) : c \in Client}, n : Nat, base : Nat, rev : Nat]

Strokes == Seq({Token(c) : c \in Client} \X Nat)

\* What each variable may hold.
TypeOK ==
  /\ log \in [Project -> Seq(Op)]
  /\ redisOk \in BOOLEAN
  /\ hpc \in [Stream -> {"none", "accept", "greet", "read", "ack", "broadcast", "done"}]
  /\ project \in [Stream -> Project \union {NoProject}]
  /\ \A s \in Stream : hpc[s] # "none" => project[s] \in Project
  /\ cur \in [Stream -> Op \union {NoOp}]
  /\ \A s \in Stream : hpc[s] \in {"ack", "broadcast"} => cur[s] \in Op
  /\ inbox \in [Stream -> Seq(Op)]
  /\ subscribed \in [Stream -> BOOLEAN]
  /\ channel \in [Stream -> Seq(Op)]
  /\ out \in [Stream -> Seq(Op)]
  /\ open \in [Stream -> BOOLEAN]
  /\ conns \in [Client -> 0..MaxConn]
  /\ localRevision \in [Client -> Nat]
  /\ pendingOps \in [Client -> Seq(Op)]
  /\ sent \in [Client -> Nat]
  /\ DOMAIN canvas = Client
  /\ \A c \in Client : /\ DOMAIN canvas[c] \subseteq Layer
                       /\ canvas[c] \in [DOMAIN canvas[c] -> Strokes]

\* The meaning of revision r: the operation logged r-th, transformed against
\* those between its base revision and itself.
CommittedOp(lg, r) == [TransformAll(lg[r], SubSeq(lg, lg[r].base + 1, r - 1)) EXCEPT !.rev = r]

Stamped(lg, op) == op.rev # 0 => op.rev \in 1..Len(lg) /\ op = CommittedOp(lg, op.rev)

\* A revision number means one thing to everyone, for ever: whichever handler
\* produced it and whatever was committed since, an acknowledgement or broadcast
\* with revision r is the transform of the r-th operation of the log as it
\* stands now (ot_commit returns window and revision from one script).
StampedFromLog ==
  \A s \in Stream :
    /\ hpc[s] \in {"ack", "broadcast"} => Stamped(log[project[s]], cur[s])
    /\ \A i \in 1..Len(channel[s]) : Stamped(log[project[s]], channel[s][i])
    /\ \A i \in 1..Len(out[s]) : Stamped(log[project[s]], out[s][i])

\* No operation enters the logs twice, reconnections and crashes included: a
\* connection's messages are read by its own handler and nothing is resent.
LoggedOnce ==
  \A p, q \in Project : \A i \in DOMAIN log[p], j \in DOMAIN log[q] :
    StrokeId(log[p][i]) = StrokeId(log[q][j]) => p = q /\ i = j

\* Wherever browsers have a layer in common, everyone sees one author's strokes in
\* the order they were drawn, although acknowledgements and broadcasts overtake one
\* another.
PaintedInOrder ==
  \A c \in Client : \A l \in DOMAIN canvas[c] : \A i, j \in DOMAIN canvas[c][l] :
    LET a == canvas[c][l][i]
        b == canvas[c][l][j]
    IN  i < j /\ a[1] = b[1] => a[2] < b[2]

\* Nothing is under way.
Resting == \A s \in Stream : /\ inbox[s] = <<>> /\ channel[s] = <<>> /\ out[s] = <<>>
                             /\ hpc[s] \notin {"ack", "broadcast"}
=============================================================================
