---------------------------- MODULE CollabProofs ----------------------------
(* For any clients, projects, layers, bounds and faults: the variables keep *)
(* their types, every revision means one operation, none is logged twice,   *)
(* and the whole is a sequencer.  Under hypotheses of their own: strokes    *)
(* keep their order, and no message is missing at rest.                     *)
EXTENDS CollabHistory, FiniteSetTheorems, TLAPS

\* Its lemmas on the loops over windows, whatever the constants and variables.
Loops == INSTANCE OTProofs WITH Order <- Int, MaxWindow <- 0, op <- NoOp, window <- <<>>

\* The operators of the instance are those of the protocol.
LEMMA SameTransform == ASSUME NEW x, NEW y PROVE Loops!ot_transform(x, y) = ot_transform(x, y)
BY Zenon DEF Loops!ot_transform, ot_transform, Loops!Erases, Erases

LEMMA SameAll == ASSUME NEW x, NEW c PROVE Loops!TransformAll(x, c) = TransformAll(x, c)
BY Zenon DEF Loops!TransformAll, TransformAll, Loops!ot_transform, ot_transform, Loops!Erases, Erases

LEMMA SamePending == ASSUME NEW x, NEW c PROVE Loops!TransformPending(x, c) = TransformPending(x, c)
BY Zenon DEF Loops!TransformPending, TransformPending, Loops!transformOp, transformOp

LEMMA LoopsAssumption == Loops!OTLawsAssumption
BY DEF Loops!OTLawsAssumption

\* Hence what it says of them holds of these.
LEMMA TransformAllType ==
  ASSUME NEW D, NEW op \in D, NEW c, Len(c) \in Nat,
         \A x \in D, i \in 1..Len(c) : ot_transform(x, c[i]) \in D
  PROVE  TransformAll(op, c) \in D
<1>1. \A x \in D, i \in 1..Len(c) : Loops!ot_transform(x, c[i]) \in D
  BY SameTransform
<1>2. Loops!TransformAll(op, c) \in D
  BY <1>1, LoopsAssumption, Loops!TransformAllType
<1> QED BY <1>2, SameAll

LEMMA PendingIsAll ==
  ASSUME NEW op, NEW c
  PROVE  TransformPending(op, c) = TransformAll(op, c)
BY LoopsAssumption, Loops!PendingIsAll, SameAll, SamePending

\* A handler that has yet to broadcast its first message has it.
Greeting == \A s \in Stream : hpc[s] \in {"accept", "greet"} => inbox[s] # <<>>

Canvases == UNION {[D -> Strokes] : D \in SUBSET Layer}

\* TypeOK, inductive.
IType == TypeOK /\ Greeting /\ canvas \in [Client -> Canvases]

LEMMA TransformType ==
  ASSUME NEW x \in Op, NEW y \in Op
  PROVE  ot_transform(x, y) \in Op
BY DEF ot_transform, Op, UpdateType, Mutating, Ephemeral, Erases

LEMMA TransformAllIsOp ==
  ASSUME NEW x \in Op, NEW c \in Seq(Op)
  PROVE  TransformAll(x, c) \in Op
<1>1. Len(c) \in Nat
  OBVIOUS
<1>2. \A y \in Op, i \in 1..Len(c) : ot_transform(y, c[i]) \in Op
  BY TransformType
<1> QED BY <1>1, <1>2, TransformAllType

LEMMA ApplyType ==
  ASSUME NEW cv \in Canvases, NEW x \in Op
  PROVE  applyRemoteOp(cv, x) \in Canvases
<1>1. PICK D \in SUBSET Layer : cv \in [D -> Strokes]
  BY DEF Canvases
<1>2. StrokeId(x) \in {Token(c) : c \in Client} \X Nat
  BY DEF StrokeId, Op
<1>3. x.layer \in D => Paint(cv, x) \in [D -> Strokes]
  BY <1>1, <1>2 DEF Paint, Strokes
<1>4. x.layer \in D => Wipe(cv, x) \in [D -> Strokes]
  BY <1>1 DEF Wipe, Strokes
<1>5. deleteLayer(cv, x.layer) \in [D -> Strokes] \union [D \ {x.layer} -> Strokes]
  BY <1>1 DEF deleteLayer
<1>6. D \ {x.layer} \in SUBSET Layer
  OBVIOUS
<1>7. applyRemoteOp(cv, x) \in [D -> Strokes] \union [D \ {x.layer} -> Strokes]
  BY <1>1, <1>3, <1>4, <1>5 DEF applyRemoteOp
<1> QED BY <1>6, <1>7 DEF Canvases

LEMMA MessageType ==
  ASSUME NEW c \in Client, NEW t \in UpdateType, NEW l \in Layer \union {NoLayer},
         NEW n \in Nat, NEW b \in Nat
  PROVE  Message(c, t, l, n, b) \in Op
BY DEF Message, Op

LEMMA PublishType ==
  ASSUME TypeOK, NEW q \in Project, NEW x \in Op, Publish(q, x)
  PROVE  channel' \in [Stream -> Seq(Op)]
<1>1. ASSUME NEW s \in Stream PROVE Append(channel[s], x) \in Seq(Op) /\ channel[s] \in Seq(Op)
  BY DEF TypeOK
<1> QED BY <1>1 DEF Publish

LEMMA EnqueueType ==
  ASSUME TypeOK, NEW s \in Stream, NEW x \in Op, Enqueue(s, x)
  PROVE  out' \in [Stream -> Seq(Op)]
BY DEF TypeOK, Enqueue

LEMMA HeadType ==
  ASSUME NEW T, NEW q \in Seq(T), q # <<>>
  PROVE  Head(q) \in T /\ Tail(q) \in Seq(T)
OBVIOUS

LEMMA AppendNonEmpty ==
  ASSUME NEW T, NEW q \in Seq(T), NEW x \in T
  PROVE  Append(q, x) # <<>>
<1>1. Len(Append(q, x)) = Len(q) + 1 /\ Len(q) \in Nat
  OBVIOUS
<1> QED BY <1>1

LEMMA InitType == Init => IType
<1> SUFFICES ASSUME Init PROVE IType
  OBVIOUS
<1> USE CollabAssumption DEF Init
<1>1. TypeOK
  BY DEF TypeOK, Strokes
<1>2. Greeting
  BY DEF Greeting
<1>3. canvas \in [Client -> Canvases]
  <2>1. \A c \in Client : LayersOf[c] \subseteq Layer
    OBVIOUS
  <2>2. \A S \in SUBSET Layer : [l \in S |-> <<>>] \in Canvases
    <3>1. \A S \in SUBSET Layer : [l \in S |-> <<>>] \in [S -> Strokes]
      BY DEF Strokes
    <3> QED BY <3>1 DEF Canvases
  <2> QED BY <2>1, <2>2
<1> QED BY <1>1, <1>2, <1>3 DEF IType

\* The steps of a client.
LEMMA UserType ==
  ASSUME IType, NEW c \in Client, User(c)
  PROVE  IType'
<1> USE CollabAssumption DEF IType
<1>1. ASSUME NEW p \in Project, connect(c, p) PROVE IType'
  <2> DEFINE s == <<c, conns[c] + 1>>
             m == Message(c, "STROKE_BEGIN", NoLayer, 0, 0)
  <2>1. s \in Stream
    BY <1>1 DEF connect, Stream, TypeOK
  <2>2. m \in Op
    BY MessageType DEF UpdateType, Ephemeral
  <2>3. <<m>> \in Seq(Op) /\ <<m>> # <<>>
    BY <2>2
  <2> HIDE DEF m
  <2>4. inbox' = [inbox EXCEPT ![s] = <<m>>]
    BY <1>1 DEF connect, m
  <2>5. conns' \in [Client -> 0..MaxConn]
    BY <1>1 DEF connect, TypeOK
  <2> HIDE DEF s
  <2>6. /\ hpc' = [hpc EXCEPT ![s] = "accept"] /\ project' = [project EXCEPT ![s] = p]
        /\ open' = [open EXCEPT ![s] = TRUE]
        /\ UNCHANGED <<redisVars, cur, subscribed, channel, out, localRevision, pendingOps,
                       sent, canvas>>
    BY <1>1 DEF connect, s
  <2>7. TypeOK'
    BY <2>1, <2>3, <2>4, <2>5, <2>6 DEF TypeOK, redisVars
  <2>8. Greeting'
    BY <2>1, <2>3, <2>4, <2>6 DEF TypeOK, Greeting
  <2> QED BY <2>6, <2>7, <2>8
<1>2. ASSUME disconnect(c) PROVE IType'
  <2>1. ws(c) \in Stream
    BY <1>2 DEF disconnect, Connected, ws, Stream, TypeOK
  <2>2. TypeOK'
    BY <1>2, <2>1 DEF disconnect, TypeOK, redisVars, handlerVars, clientVars
  <2>3. Greeting'
    BY <1>2 DEF disconnect, Greeting, handlerVars
  <2> QED BY <1>2, <2>2, <2>3 DEF disconnect, clientVars
<1>3. ASSUME send(c) PROVE IType'
  <2>1. ws(c) \in Stream
    BY <1>3 DEF send, Connected, ws, Stream, TypeOK
  <2>2. PICK t \in Kinds, l \in DOMAIN canvas[c] \union {NoLayer} :
          LET m == Message(c, t, l, sent[c] + 1, localRevision[c]) IN
          /\ canvas' = [canvas EXCEPT ![c] = applyRemoteOp(@, m)]
          /\ pendingOps' = [pendingOps EXCEPT ![c] = Append(@, m)]
          /\ inbox' = [inbox EXCEPT ![ws(c)] = Append(@, m)]
          /\ sent' = [sent EXCEPT ![c] = @ + 1]
    BY <1>3 DEF send
  <2> DEFINE m == Message(c, t, l, sent[c] + 1, localRevision[c])
  <2>3. m \in Op
    <3>1. t \in UpdateType /\ l \in Layer \union {NoLayer}
      BY DEF TypeOK
    <3>2. sent[c] + 1 \in Nat /\ localRevision[c] \in Nat
      BY DEF TypeOK
    <3> QED BY <3>1, <3>2, MessageType
  <2> HIDE DEF m
  <2>4. canvas' \in [Client -> Canvases]
    <3>1. applyRemoteOp(canvas[c], m) \in Canvases
      BY <2>3, ApplyType
    <3> QED BY <2>2, <3>1 DEF m
  <2>5. /\ DOMAIN canvas' = Client
        /\ \A d \in Client : /\ DOMAIN canvas'[d] \subseteq Layer
                             /\ canvas'[d] \in [DOMAIN canvas'[d] -> Strokes]
    BY <2>4 DEF Canvases
  <2>6. /\ pendingOps' \in [Client -> Seq(Op)] /\ inbox' \in [Stream -> Seq(Op)]
        /\ sent' \in [Client -> Nat]
    BY <2>1, <2>2, <2>3 DEF TypeOK, m
  <2>7. UNCHANGED <<redisVars, handlerVars, channel, out, open, conns, localRevision>>
    BY <1>3 DEF send
  <2>8. TypeOK'
    BY <2>5, <2>6, <2>7 DEF TypeOK, redisVars, handlerVars
  <2>9. Greeting'
    <3>1. \A s \in Stream : inbox[s] # <<>> => inbox'[s] # <<>>
      <4>1. Append(inbox[ws(c)], m) # <<>>
        <5>1. inbox[ws(c)] \in Seq(Op)
          BY <2>1 DEF TypeOK
        <5> QED BY <2>3, <5>1, AppendNonEmpty
      <4> QED BY <2>1, <2>2, <4>1 DEF TypeOK, m
    <3> QED BY <2>7, <3>1 DEF Greeting, handlerVars
  <2> QED BY <2>4, <2>8, <2>9
<1> QED BY <1>1, <1>2, <1>3 DEF User

\* A message reaches the browser.
LEMMA onMessageType ==
  ASSUME IType, NEW s \in Stream, onMessage(s)
  PROVE  IType'
<1> USE DEF IType
<1> DEFINE x == Head(out[s])
           c == s[1]
<1>1. c \in Client
  BY DEF Stream
<1>2. x \in Op /\ Tail(out[s]) \in Seq(Op)
  <2>1. out[s] \in Seq(Op) /\ out[s] # <<>>
    BY DEF onMessage, TypeOK
  <2> QED BY <2>1, HeadType
<1>3. out' \in [Stream -> Seq(Op)]
  BY <1>2 DEF onMessage, TypeOK
<1> HIDE DEF c, x
<1>4. onAck(c, x) \/ onRemoteOp(c, x)
  BY DEF onMessage, c, x
<1>5. x.rev \in Nat
  BY <1>2 DEF Op
<1>6. pendingOps' \in [Client -> Seq(Op)]
  <2>1. pendingOps[c] \in Seq(Op)
    BY <1>1 DEF TypeOK
  <2>2. Tail0(pendingOps[c]) \in Seq(Op)
    BY <2>1 DEF Tail0
  <2> QED BY <1>1, <1>4, <2>2 DEF onAck, onRemoteOp, TypeOK
<1>7. localRevision' \in [Client -> Nat]
  <2>1. localRevision[c] \in Nat
    BY <1>1 DEF TypeOK
  <2>2. Larger(localRevision[c], x.rev) \in Nat
    BY <1>5, <2>1 DEF Larger
  <2> QED BY <1>1, <1>4, <1>5, <2>2 DEF onAck, onRemoteOp, TypeOK
<1>8. canvas' \in [Client -> Canvases]
  <2>1. TransformPending(x, pendingOps[c]) \in Op
    <3>1. pendingOps[c] \in Seq(Op)
      BY <1>1 DEF TypeOK
    <3> QED BY <1>2, <3>1, TransformAllIsOp, PendingIsAll
  <2>2. applyRemoteOp(canvas[c], TransformPending(x, pendingOps[c])) \in Canvases
    BY <1>1, <2>1, ApplyType
  <2> QED BY <1>1, <1>4, <2>2 DEF onAck, onRemoteOp
<1>9. /\ DOMAIN canvas' = Client
      /\ \A d \in Client : /\ DOMAIN canvas'[d] \subseteq Layer
                           /\ canvas'[d] \in [DOMAIN canvas'[d] -> Strokes]
  BY <1>8 DEF Canvases
<1>10. UNCHANGED <<redisVars, handlerVars, inbox, channel, open, conns, sent>>
  BY DEF onMessage
<1>11. TypeOK'
  BY <1>3, <1>6, <1>7, <1>9, <1>10 DEF TypeOK, redisVars, handlerVars
<1>12. Greeting'
  BY <1>10 DEF Greeting, handlerVars
<1> QED BY <1>8, <1>11, <1>12

\* The steps of a handler and of its subscriber.
LEMMA HandlerType ==
  ASSUME IType, NEW s \in Stream, Handler(s) \/ Deliver(s) \/ LoseSubscriber(s)
  PROVE  IType'
<1> USE DEF IType
<1>1. inbox[s] \in Seq(Op) /\ channel[s] \in Seq(Op) /\ out[s] \in Seq(Op)
  BY DEF TypeOK
<1>2. hpc[s] # "none" => project[s] \in Project
  BY DEF TypeOK
<1>3. CASE Join(s)
  <2>1. UNCHANGED <<redisVars, project, cur, queueVars, open, clientVars>>
    BY <1>3 DEF Join
  <2>2. subscribed' \in [Stream -> BOOLEAN]
    BY <1>3 DEF Join, TypeOK
  <2>3. hpc[s] = "accept" /\ hpc' = [hpc EXCEPT ![s] = "greet"]
    BY <1>3 DEF Join
  <2>4. TypeOK'
    BY <1>2, <2>1, <2>2, <2>3 DEF TypeOK, redisVars, queueVars, clientVars
  <2>5. Greeting'
    BY <2>1, <2>3 DEF Greeting, queueVars, TypeOK
  <2> QED BY <2>1, <2>4, <2>5 DEF clientVars
<1>4. CASE Reject(s)
  <2>1. TypeOK'
    BY <1>4 DEF Reject, TypeOK, redisVars, clientVars
  <2>2. Greeting'
    BY <1>4 DEF Reject, Greeting, TypeOK
  <2> QED BY <1>4, <2>1, <2>2 DEF Reject, clientVars
<1>5. CASE Greet(s)
  <2>1. Head(inbox[s]) \in Op /\ Tail(inbox[s]) \in Seq(Op)
    BY <1>1, <1>5, HeadType DEF Greet, Greeting
  <2>2. channel' \in [Stream -> Seq(Op)]
    BY <1>2, <1>5, <2>1, PublishType DEF Greet
  <2>3. TypeOK'
    BY <1>2, <1>5, <2>1, <2>2 DEF Greet, TypeOK, redisVars, clientVars
  <2>4. Greeting'
    BY <1>5 DEF Greet, Greeting, TypeOK
  <2> QED BY <1>5, <2>3, <2>4 DEF Greet, clientVars
<1>6. CASE Forward(s)
  <2>1. Head(inbox[s]) \in Op /\ Tail(inbox[s]) \in Seq(Op)
    BY <1>1, <1>6, HeadType DEF Forward, Reading
  <2>2. channel' \in [Stream -> Seq(Op)]
    BY <1>2, <1>6, <2>1, PublishType DEF Forward, Reading
  <2>3. TypeOK'
    BY <1>6, <2>1, <2>2 DEF Forward, TypeOK, redisVars, handlerVars, clientVars
  <2>4. Greeting'
    BY <1>6 DEF Forward, Reading, Greeting, TypeOK, handlerVars
  <2> QED BY <1>6, <2>3, <2>4 DEF Forward, clientVars
<1>7. CASE Commit(s) \/ CommitFails(s) \/ ReplyLost(s)
  <2>1. Reading(s)
    BY <1>7 DEF Commit, CommitFails, ReplyLost
  <2>2. Head(inbox[s]) \in Op /\ Tail(inbox[s]) \in Seq(Op)
    BY <1>1, <2>1, HeadType DEF Reading
  <2>3. project[s] \in Project /\ log[project[s]] \in Seq(Op)
    BY <1>2, <2>1 DEF Reading, TypeOK
  <2>4. log' \in [Project -> Seq(Op)] /\ redisOk' \in BOOLEAN
    <3>1. Append(log[project[s]], Head(inbox[s])) \in Seq(Op)
      BY <2>2, <2>3
    <3>2. RPush(s, Head(inbox[s])) => log' \in [Project -> Seq(Op)]
      BY <3>1 DEF RPush, TypeOK
    <3>3. RPush(s, Head(inbox[s])) \/ UNCHANGED log
      BY <1>7 DEF Commit, CommitFails, ReplyLost, redisVars
    <3>4. redisOk' = redisOk \/ redisOk' = FALSE
      BY <1>7 DEF Commit, CommitFails, ReplyLost, redisVars
    <3> QED BY <3>2, <3>3, <3>4 DEF TypeOK
  <2>5. PICK c, r : c \in Seq(Op) /\ r \in Nat /\ Transformed(s, Head(inbox[s]), c, r)
    <3>1. <<>> \in Seq(Op) /\ Len(log[project[s]]) + 1 \in Nat
      BY <2>3
    <3>2. Concurrent(log[project[s]], Head(inbox[s]).base) \in Seq(Op)
      <4>1. Head(inbox[s]).base \in Nat
        BY <2>2 DEF Op
      <4> QED BY <2>3, <4>1 DEF Concurrent
    <3> QED BY <1>7, <3>1, <3>2 DEF Commit, CommitFails, ReplyLost
  <2>6. [TransformAll(Head(inbox[s]), c) EXCEPT !.rev = r] \in Op
    <3>1. TransformAll(Head(inbox[s]), c) \in Op
      BY <2>2, <2>5, TransformAllIsOp
    <3> QED BY <2>5, <3>1 DEF Op
  <2>7. TypeOK'
    BY <2>2, <2>3, <2>4, <2>5, <2>6 DEF Transformed, TypeOK, clientVars
  <2>8. Greeting'
    BY <2>5 DEF Transformed, Greeting, TypeOK
  <2> QED BY <2>5, <2>7, <2>8 DEF Transformed, clientVars
<1>8. CASE Ack(s)
  <2>1. cur[s] \in Op /\ project[s] \in Project
    BY <1>2, <1>8 DEF Ack, TypeOK
  <2>2. out' \in [Stream -> Seq(Op)]
    BY <1>8, <2>1, EnqueueType DEF Ack
  <2>3. TypeOK'
    BY <1>8, <2>1, <2>2 DEF Ack, TypeOK, redisVars, clientVars
  <2>4. Greeting'
    BY <1>8 DEF Ack, Greeting, TypeOK
  <2> QED BY <1>8, <2>3, <2>4 DEF Ack, clientVars
<1>9. CASE Broadcast(s)
  <2>1. cur[s] \in Op /\ project[s] \in Project
    BY <1>2, <1>9 DEF Broadcast, TypeOK
  <2>2. channel' \in [Stream -> Seq(Op)]
    BY <1>9, <2>1, PublishType DEF Broadcast, TypeOK
  <2>3. TypeOK'
    BY <1>9, <2>1, <2>2 DEF Broadcast, TypeOK, redisVars, clientVars
  <2>4. Greeting'
    BY <1>9 DEF Broadcast, Greeting, TypeOK
  <2> QED BY <1>9, <2>3, <2>4 DEF Broadcast, clientVars
<1>10. CASE Leave(s)
  <2>1. TypeOK'
    BY <1>10 DEF Leave, TypeOK, redisVars, clientVars
  <2>2. Greeting'
    BY <1>10 DEF Leave, Greeting, TypeOK
  <2> QED BY <1>10, <2>1, <2>2 DEF Leave, clientVars
<1>11. CASE Deliver(s)
  <2>1. Head(channel[s]) \in Op /\ Tail(channel[s]) \in Seq(Op)
    BY <1>1, <1>11, HeadType DEF Deliver
  <2>2. out' \in [Stream -> Seq(Op)]
    BY <1>11, <2>1, EnqueueType DEF Deliver, TypeOK
  <2>3. TypeOK'
    BY <1>11, <2>1, <2>2 DEF Deliver, TypeOK, redisVars, handlerVars, clientVars
  <2>4. Greeting'
    BY <1>11 DEF Deliver, Greeting, handlerVars
  <2> QED BY <1>11, <2>3, <2>4 DEF Deliver, clientVars
<1>12. CASE LoseSubscriber(s)
  <2>1. TypeOK'
    BY <1>12 DEF LoseSubscriber, TypeOK, redisVars, clientVars
  <2>2. Greeting'
    BY <1>12 DEF LoseSubscriber, Greeting
  <2> QED BY <1>12, <2>1, <2>2 DEF LoseSubscriber, clientVars
<1> QED
  BY <1>3, <1>4, <1>5, <1>6, <1>7, <1>8, <1>9, <1>10, <1>11, <1>12 DEF Handler

\* The steps of the environment.
LEMMA FaultType ==
  ASSUME IType, LoseRedis \/ Crash
  PROVE  IType'
<1> USE DEF IType
<1>1. CASE LoseRedis
  <2>1. TypeOK'
    BY <1>1 DEF LoseRedis, TypeOK, handlerVars, queueVars, clientVars
  <2> QED BY <1>1, <2>1 DEF LoseRedis, Greeting, handlerVars, queueVars, clientVars
<1>2. CASE Crash
  <2>1. TypeOK'
    BY <1>2 DEF Crash, TypeOK, clientVars
  <2>2. Greeting'
    BY <1>2 DEF Crash, Greeting
  <2> QED BY <1>2, <2>1, <2>2 DEF Crash, clientVars
<1> QED BY <1>1, <1>2

LEMMA StutterType == ASSUME IType, UNCHANGED vars PROVE IType'
BY DEF IType, TypeOK, Greeting, vars, redisVars, handlerVars, queueVars, clientVars

LEMMA NextType == IType /\ [Next]_vars => IType'
<1> SUFFICES ASSUME IType, [Next]_vars PROVE IType'
  OBVIOUS
<1>1. CASE \E c \in Client : User(c)
  BY <1>1, UserType
<1>2. CASE \E s \in Stream : onMessage(s) \/ Handler(s) \/ Deliver(s) \/ LoseSubscriber(s)
  BY <1>2, onMessageType, HandlerType
<1>3. CASE LoseRedis \/ Crash
  BY <1>3, FaultType
<1>4. CASE UNCHANGED vars
  BY <1>4, StutterType
<1> QED BY <1>1, <1>2, <1>3, <1>4 DEF Next

\* No step puts a value of the wrong type into a variable: what the transform
\* makes of an operation is an operation, a handler that acknowledges has one in
\* hand, and messages name layers of the document.
THEOREM TypesOfCollab == Spec => []TypeOK
<1>1. Spec => []IType
  BY InitType, NextType, PTL DEF Spec
<1>2. IType => TypeOK
  BY DEF IType
<1> QED BY <1>1, <1>2, PTL
----------------------------------------------------------------------------
(* Revisions.  What the inductive invariant adds: clients send no revision, *)
(* and a stream that is not connected yet has nothing on its way.           *)

Unstamped == \A s \in Stream : \A i \in 1..Len(inbox[s]) : inbox[s][i].rev = 0

Fresh ==
  \A s \in Stream :
    /\ s[2] > conns[s[1]] => hpc[s] = "none"
    /\ hpc[s] = "none" => channel[s] = <<>> /\ out[s] = <<>> /\ ~subscribed[s]

AllStamped(lg, q) == \A i \in 1..Len(q) : Stamped(lg, q[i])

\* StampedFromLog, inductive.
IStamped == IType /\ Unstamped /\ Fresh /\ StampedFromLog

LEMMA SubSeqOfAppend ==
  ASSUME NEW T, NEW q \in Seq(T), NEW x \in T, NEW i \in Nat, i >= 1, NEW j \in Nat, j <= Len(q)
  PROVE  SubSeq(Append(q, x), i, j) = SubSeq(q, i, j)
OBVIOUS

\* A revision keeps its meaning when the log grows.
LEMMA StampedPersists ==
  ASSUME NEW lg \in Seq(Op), NEW x \in Op, NEW op \in Op, Stamped(lg, op)
  PROVE  Stamped(Append(lg, x), op)
<1> SUFFICES ASSUME op.rev # 0
             PROVE  /\ op.rev \in 1..Len(Append(lg, x))
                    /\ op = CommittedOp(Append(lg, x), op.rev)
  BY DEF Stamped
<1> DEFINE r == op.rev
<1>1. r \in 1..Len(lg) /\ op = CommittedOp(lg, r)
  BY DEF Stamped
<1>2. Append(lg, x)[r] = lg[r] /\ r \in 1..Len(Append(lg, x))
  BY <1>1
<1>3. lg[r].base \in Nat
  <2>1. lg[r] \in Op
    BY <1>1
  <2> QED BY <2>1 DEF Op
<1>4. SubSeq(Append(lg, x), lg[r].base + 1, r - 1) = SubSeq(lg, lg[r].base + 1, r - 1)
  <2>1. lg[r].base + 1 \in Nat /\ lg[r].base + 1 >= 1 /\ r - 1 \in Nat /\ r - 1 <= Len(lg)
    BY <1>1, <1>3
  <2> QED BY <2>1, SubSeqOfAppend
<1> HIDE DEF r
<1> QED BY <1>1, <1>2, <1>4 DEF CommittedOp, r

LEMMA AllStampedPersists ==
  ASSUME NEW lg \in Seq(Op), NEW x \in Op, NEW q \in Seq(Op), AllStamped(lg, q)
  PROVE  AllStamped(Append(lg, x), q)
BY StampedPersists DEF AllStamped

\* What the handler makes of script's answer has the revision it is stamped with.
LEMMA CommitIsStamped ==
  ASSUME NEW lg \in Seq(Op), NEW x \in Op
  PROVE  Stamped(Append(lg, x),
                 [TransformAll(x, Concurrent(lg, x.base)) EXCEPT !.rev = Len(lg) + 1])
<1> DEFINE n == Len(lg) + 1
           t == TransformAll(x, Concurrent(lg, x.base))
<1>1. x.base \in Nat
  BY DEF Op
<1>2. t \in Op
  <2>1. Concurrent(lg, x.base) \in Seq(Op)
    BY <1>1 DEF Concurrent
  <2> QED BY <2>1, TransformAllIsOp
<1>3. Append(lg, x)[n] = x /\ n \in 1..Len(Append(lg, x)) /\ n - 1 = Len(lg)
  OBVIOUS
<1>4. SubSeq(Append(lg, x), x.base + 1, n - 1) = Concurrent(lg, x.base)
  <2>1. x.base + 1 \in Nat /\ x.base + 1 >= 1 /\ Len(lg) \in Nat /\ Len(lg) <= Len(lg)
    BY <1>1
  <2>2. SubSeq(Append(lg, x), x.base + 1, Len(lg)) = SubSeq(lg, x.base + 1, Len(lg))
    BY <2>1, SubSeqOfAppend
  <2> HIDE DEF n
  <2> QED BY <1>3, <2>2 DEF Concurrent
<1>5. CommittedOp(Append(lg, x), n) = [t EXCEPT !.rev = n]
  BY <1>3, <1>4 DEF CommittedOp
<1>6. [t EXCEPT !.rev = n].rev = n
  BY <1>2 DEF Op
<1> HIDE DEF n, t
<1>7. Stamped(Append(lg, x), [t EXCEPT !.rev = n])
  BY <1>3, <1>5, <1>6 DEF Stamped
<1> QED BY <1>7 DEF n, t

LEMMA AllStampedAppend ==
  ASSUME NEW lg, NEW q \in Seq(Op), NEW x \in Op, AllStamped(lg, q), Stamped(lg, x)
  PROVE  AllStamped(lg, Append(q, x))
BY DEF AllStamped

LEMMA AllStampedTail ==
  ASSUME NEW lg, NEW q \in Seq(Op), q # <<>>, AllStamped(lg, q)
  PROVE  AllStamped(lg, Tail(q)) /\ Stamped(lg, Head(q))
BY DEF AllStamped

LEMMA AllStampedEmpty == ASSUME NEW lg PROVE AllStamped(lg, <<>>)
BY DEF AllStamped

\* StampedFromLog in these terms.
LEMMA StampedRestated ==
  StampedFromLog <=>
    \A s \in Stream :
      /\ hpc[s] \in {"ack", "broadcast"} => Stamped(log[project[s]], cur[s])
      /\ AllStamped(log[project[s]], channel[s])
      /\ AllStamped(log[project[s]], out[s])
BY DEF StampedFromLog, AllStamped

\* At most one log grows in a step, and by one operation.
LogStep ==
  \/ UNCHANGED log
  \/ \E p \in Project, x \in Op : log' = [log EXCEPT ![p] = Append(@, x)]

LEMMA LogStepPersists ==
  ASSUME TypeOK, LogStep, NEW p \in Project
  PROVE  /\ \A op \in Op : Stamped(log[p], op) => Stamped(log'[p], op)
         /\ \A q \in Seq(Op) : AllStamped(log[p], q) => AllStamped(log'[p], q)
<1>1. log[p] \in Seq(Op)
  BY DEF TypeOK
<1>2. log'[p] = log[p] \/ \E x \in Op : log'[p] = Append(log[p], x)
  BY DEF LogStep, TypeOK
<1> QED BY <1>1, <1>2, StampedPersists, AllStampedPersists

\* Publishing a stamped operation.
LEMMA PublishStamped ==
  ASSUME TypeOK, NEW q \in Project, NEW x \in Op, Publish(q, x), Stamped(log[q], x),
         NEW s \in Stream, AllStamped(log[project[s]], channel[s])
  PROVE  AllStamped(log[project[s]], channel'[s])
<1>1. channel[s] \in Seq(Op)
  BY DEF TypeOK
<1>2. channel'[s] = channel[s] \/ (project[s] = q /\ channel'[s] = Append(channel[s], x))
  BY DEF Publish
<1> QED BY <1>1, <1>2, AllStampedAppend

LEMMA EnqueueStamped ==
  ASSUME TypeOK, NEW t \in Stream, NEW x \in Op, Enqueue(t, x), Stamped(log[project[t]], x),
         NEW s \in Stream, AllStamped(log[project[s]], out[s])
  PROVE  AllStamped(log[project[s]], out'[s])
<1>1. out[s] \in Seq(Op)
  BY DEF TypeOK
<1>2. out'[s] = out[s] \/ (s = t /\ out'[s] = Append(out[s], x))
  BY DEF Enqueue, TypeOK
<1> QED BY <1>1, <1>2, AllStampedAppend

LEMMA InitStamped == Init => IStamped
<1> SUFFICES ASSUME Init PROVE IStamped
  OBVIOUS
<1>1. Unstamped /\ Fresh
  BY DEF Init, Unstamped, Fresh
<1>2. StampedFromLog
  BY DEF Init, StampedFromLog
<1> QED BY <1>1, <1>2, InitType DEF IStamped

LEMMA UserStamped ==
  ASSUME IStamped, NEW c \in Client, User(c)
  PROVE  Unstamped' /\ Fresh' /\ StampedFromLog'
<1> USE CollabAssumption DEF IStamped, IType
<1>1. ASSUME NEW p \in Project, connect(c, p) PROVE Unstamped' /\ Fresh' /\ StampedFromLog'
  <2> DEFINE t == <<c, conns[c] + 1>>
             m == Message(c, "STROKE_BEGIN", NoLayer, 0, 0)
  <2>1. t \in Stream /\ t[1] = c /\ t[2] > conns[c] /\ conns[c] \in Nat
    BY <1>1 DEF connect, Stream, TypeOK
  <2>2. m.rev = 0
    BY DEF Message
  <2>3. /\ inbox' = [inbox EXCEPT ![t] = <<m>>]
        /\ hpc' = [hpc EXCEPT ![t] = "accept"]
        /\ project' = [project EXCEPT ![t] = p]
        /\ conns' = [conns EXCEPT ![c] = conns[c] + 1]
        /\ UNCHANGED <<log, cur, subscribed, channel, out>>
    BY <1>1 DEF connect, redisVars
  <2>4. \A s \in Stream : s # t /\ s[2] > conns'[s[1]] => s[2] > conns[s[1]]
    BY <2>1, <2>3 DEF Stream, TypeOK
  <2>5. ~(t[2] > conns'[t[1]])
    BY <2>1, <2>3 DEF TypeOK
  <2> HIDE DEF t, m
  <2>6. Unstamped'
    BY <2>1, <2>2, <2>3 DEF Unstamped, TypeOK
  <2>7. hpc[t] = "none" /\ channel[t] = <<>> /\ out[t] = <<>>
    BY <2>1 DEF Fresh
  <2>8. Fresh'
    BY <2>1, <2>3, <2>4, <2>5 DEF Fresh, TypeOK
  <2>9. ASSUME NEW s \in Stream
        PROVE  /\ hpc'[s] \in {"ack", "broadcast"} => Stamped(log'[project'[s]], cur'[s])
               /\ AllStamped(log'[project'[s]], channel'[s])
               /\ AllStamped(log'[project'[s]], out'[s])
    <3>1. CASE s = t
      BY <2>1, <2>3, <2>7, <3>1, AllStampedEmpty DEF TypeOK
    <3>2. CASE s # t
      BY <2>3, <3>2, StampedRestated DEF TypeOK
    <3> QED BY <3>1, <3>2
  <2>10. StampedFromLog'
    BY <2>9, StampedRestated DEF StampedFromLog, AllStamped
  <2> QED BY <2>6, <2>8, <2>10
<1>2. ASSUME disconnect(c) PROVE Unstamped' /\ Fresh' /\ StampedFromLog'
  <2>1. UNCHANGED <<log, hpc, project, cur, subscribed, inbox, channel, conns>>
    BY <1>2 DEF disconnect, redisVars, handlerVars, clientVars
  <2>2. \A s \in Stream : out'[s] = out[s] \/ out'[s] = <<>>
    BY <1>2 DEF disconnect, TypeOK
  <2>3. Unstamped' /\ Fresh'
    BY <2>1, <2>2 DEF Unstamped, Fresh
  <2>4. StampedFromLog'
    BY <2>1, <2>2 DEF StampedFromLog
  <2> QED BY <2>3, <2>4
<1>3. ASSUME send(c) PROVE Unstamped' /\ Fresh' /\ StampedFromLog'
  <2>1. UNCHANGED <<log, hpc, project, cur, subscribed, channel, out, conns>>
    BY <1>3 DEF send, redisVars, handlerVars
  <2>2. PICK t \in Kinds, l \in DOMAIN canvas[c] \union {NoLayer} :
          inbox' = [inbox EXCEPT ![ws(c)] =
                      Append(@, Message(c, t, l, sent[c] + 1, localRevision[c]))]
    BY <1>3 DEF send
  <2> DEFINE m == Message(c, t, l, sent[c] + 1, localRevision[c])
  <2>3. m \in Op /\ m.rev = 0
    <3>1. t \in UpdateType /\ l \in Layer \union {NoLayer}
      BY DEF TypeOK
    <3>2. sent[c] + 1 \in Nat /\ localRevision[c] \in Nat
      BY DEF TypeOK
    <3>3. m.rev = 0
      BY DEF Message
    <3> HIDE DEF m
    <3> QED BY <3>1, <3>2, <3>3, MessageType DEF m
  <2> HIDE DEF m
  <2>4. \A s \in Stream : inbox'[s] = inbox[s] \/ inbox'[s] = Append(inbox[s], m)
    BY <2>2 DEF TypeOK, m
  <2>5. ASSUME NEW s \in Stream, NEW i \in 1..Len(inbox'[s]) PROVE inbox'[s][i].rev = 0
    <3>1. inbox[s] \in Seq(Op) /\ \A j \in 1..Len(inbox[s]) : inbox[s][j].rev = 0
      BY DEF TypeOK, Unstamped
    <3>2. CASE inbox'[s] = inbox[s]
      BY <3>1, <3>2
    <3>3. CASE inbox'[s] = Append(inbox[s], m)
      <4>1. inbox'[s][i] = IF i = Len(inbox[s]) + 1 THEN m ELSE inbox[s][i]
        BY <2>3, <3>1, <3>3
      <4>2. i \in 1..Len(inbox[s]) \/ i = Len(inbox[s]) + 1
        BY <2>3, <3>1, <3>3
      <4> QED BY <2>3, <3>1, <4>1, <4>2
    <3> QED BY <2>4, <3>2, <3>3
  <2>6. Unstamped'
    BY <2>5 DEF Unstamped
  <2>7. Fresh' /\ StampedFromLog'
    BY <2>1 DEF Fresh, StampedFromLog
  <2> QED BY <2>6, <2>7
<1> QED BY <1>1, <1>2, <1>3 DEF User

\* What is stamped stays so whatever is logged meanwhile.
LEMMA OthersPersist ==
  ASSUME IStamped, LogStep, NEW s \in Stream
  PROVE  /\ hpc[s] \in {"ack", "broadcast"} => Stamped(log'[project[s]], cur[s])
         /\ AllStamped(log'[project[s]], channel[s])
         /\ AllStamped(log'[project[s]], out[s])
<1>1. TypeOK /\ Fresh
  BY DEF IStamped, IType
<1>2. channel[s] \in Seq(Op) /\ out[s] \in Seq(Op)
  BY <1>1 DEF TypeOK
<1>3. /\ hpc[s] \in {"ack", "broadcast"} => Stamped(log[project[s]], cur[s])
      /\ AllStamped(log[project[s]], channel[s])
      /\ AllStamped(log[project[s]], out[s])
  BY StampedRestated DEF IStamped
<1>4. CASE hpc[s] = "none"
  BY <1>1, <1>4, AllStampedEmpty DEF Fresh
<1>5. CASE hpc[s] # "none"
  <2>1. project[s] \in Project
    BY <1>1, <1>5 DEF TypeOK
  <2>2. hpc[s] \in {"ack", "broadcast"} => cur[s] \in Op
    BY <1>1 DEF TypeOK
  <2> QED BY <1>1, <1>2, <1>3, <2>1, <2>2, LogStepPersists
<1> QED BY <1>4, <1>5

\* A message taken from an inbox has no revision.
LEMMA TakeUnstamped ==
  ASSUME IStamped, NEW s \in Stream, inbox[s] # <<>>
  PROVE  /\ Head(inbox[s]) \in Op /\ Head(inbox[s]).rev = 0
         /\ inbox' = [inbox EXCEPT ![s] = Tail(@)] => Unstamped'
<1>1. inbox[s] \in Seq(Op) /\ inbox \in [Stream -> Seq(Op)] /\ Unstamped
  BY DEF IStamped, IType, TypeOK
<1>2. Head(inbox[s]) = inbox[s][1] /\ 1 \in 1..Len(inbox[s]) /\ Head(inbox[s]) \in Op
  BY <1>1
<1>3. Len(Tail(inbox[s])) = Len(inbox[s]) - 1 /\ Len(inbox[s]) \in Nat
  BY <1>1
<1>4. \A i \in 1..Len(Tail(inbox[s])) : Tail(inbox[s])[i].rev = 0
  BY <1>1, <1>3 DEF Unstamped
<1>5. inbox' = [inbox EXCEPT ![s] = Tail(@)] => Unstamped'
  BY <1>1, <1>4 DEF Unstamped
<1> QED BY <1>1, <1>2, <1>5 DEF Unstamped

LEMMA FreshStep ==
  ASSUME Fresh, UNCHANGED conns,
         \A s \in Stream : hpc[s] = "none" <=> hpc'[s] = "none",
         \A s \in Stream : hpc[s] = "none" =>
           /\ channel'[s] = channel[s] /\ out'[s] = out[s] /\ subscribed'[s] = subscribed[s]
  PROVE  Fresh'
BY DEF Fresh

\* The browser takes a message.
LEMMA onMessageStamped ==
  ASSUME IStamped, NEW s \in Stream, onMessage(s)
  PROVE  Unstamped' /\ Fresh' /\ StampedFromLog'
<1>1. UNCHANGED <<log, hpc, project, cur, subscribed, inbox, channel, conns>>
  BY DEF onMessage, redisVars, handlerVars
<1>2. TypeOK /\ Unstamped /\ Fresh
  BY DEF IStamped, IType
<1>3. out[s] \in Seq(Op) /\ out[s] # <<>> /\ out' = [out EXCEPT ![s] = Tail(@)]
  BY <1>2 DEF onMessage, TypeOK
<1>4. Unstamped'
  BY <1>1, <1>2 DEF Unstamped
<1>5. hpc[s] # "none"
  BY <1>2, <1>3 DEF Fresh
<1>6. Fresh'
  BY <1>1, <1>2, <1>3, <1>5, FreshStep DEF TypeOK
<1>7. ASSUME NEW t \in Stream PROVE AllStamped(log'[project'[t]], out'[t])
  <2>1. AllStamped(log[project[t]], out[t])
    BY StampedRestated DEF IStamped
  <2> QED BY <1>1, <1>2, <1>3, <2>1, AllStampedTail DEF TypeOK
<1>8. StampedFromLog'
  BY <1>1, <1>7, StampedRestated DEF StampedFromLog, AllStamped, IStamped
<1> QED BY <1>4, <1>6, <1>8

\* The handler's three ways to take an operation that is logged.
LEMMA TransformedStamped ==
  ASSUME IStamped, LogStep, NEW s \in Stream, Reading(s),
         NEW con, NEW r, Transformed(s, Head(inbox[s]), con, r),
         Stamped(log'[project[s]], [TransformAll(Head(inbox[s]), con) EXCEPT !.rev = r])
  PROVE  Unstamped' /\ Fresh' /\ StampedFromLog'
<1> DEFINE x == [TransformAll(Head(inbox[s]), con) EXCEPT !.rev = r]
<1>1. /\ cur' = [cur EXCEPT ![s] = x]
      /\ inbox' = [inbox EXCEPT ![s] = Tail(@)]
      /\ hpc' = [hpc EXCEPT ![s] = "ack"]
      /\ UNCHANGED <<project, subscribed, channel, out, conns>>
  BY DEF Transformed, clientVars
<1>2. Stamped(log'[project[s]], x)
  OBVIOUS
<1> HIDE DEF x
<1>3. TypeOK /\ Fresh /\ hpc[s] = "read" /\ inbox[s] # <<>>
  BY DEF IStamped, IType, Reading
<1>4. Unstamped'
  BY <1>1, <1>3, TakeUnstamped
<1>5. Fresh'
  BY <1>1, <1>3, FreshStep DEF TypeOK
<1>6. ASSUME NEW t \in Stream
      PROVE  /\ hpc'[t] \in {"ack", "broadcast"} => Stamped(log'[project'[t]], cur'[t])
             /\ AllStamped(log'[project'[t]], channel'[t])
             /\ AllStamped(log'[project'[t]], out'[t])
  BY <1>1, <1>2, <1>3, OthersPersist DEF TypeOK
<1> QED BY <1>4, <1>5, <1>6 DEF StampedFromLog, AllStamped

\* The steps that change what is on its way to no client, or to fewer.
LEMMA QuietStamped ==
  ASSUME IStamped, UNCHANGED <<log, project, conns>>,
         \A s \in Stream :
           /\ hpc[s] = "none" <=> hpc'[s] = "none"
           /\ hpc'[s] \in {"ack", "broadcast"} => hpc'[s] = hpc[s] /\ cur'[s] = cur[s]
           /\ hpc[s] = "none" => subscribed'[s] = subscribed[s]
           /\ inbox'[s] = inbox[s] \/ inbox'[s] = <<>>
           /\ channel'[s] = channel[s] \/ channel'[s] = <<>>
           /\ out'[s] = out[s] \/ out'[s] = <<>>
  PROVE  Unstamped' /\ Fresh' /\ StampedFromLog'
<1>1. Unstamped /\ Fresh /\ StampedFromLog
  BY DEF IStamped
<1>2. Unstamped'
  BY <1>1 DEF Unstamped
<1>3. Fresh'
  BY <1>1 DEF Fresh
<1>4. ASSUME NEW t \in Stream
      PROVE  /\ hpc'[t] \in {"ack", "broadcast"} => Stamped(log'[project'[t]], cur'[t])
             /\ AllStamped(log'[project'[t]], channel'[t])
             /\ AllStamped(log'[project'[t]], out'[t])
  BY <1>1, StampedRestated, AllStampedEmpty
<1> QED BY <1>2, <1>3, <1>4 DEF StampedFromLog, AllStamped

\* The steps that publish a stamped operation or forward one that is not.
LEMMA PublishingStamped ==
  ASSUME IStamped, NEW s \in Stream, hpc[s] # "none", NEW x \in Op,
         Publish(project[s], x), Stamped(log[project[s]], x),
         UNCHANGED <<log, project, subscribed, out, conns>>,
         \A t \in Stream : hpc[t] = "none" <=> hpc'[t] = "none",
         \A t \in Stream :
           hpc'[t] \in {"ack", "broadcast"} => hpc'[t] = hpc[t] /\ cur'[t] = cur[t]
  PROVE  Fresh' /\ StampedFromLog'
<1>1. TypeOK /\ Fresh /\ StampedFromLog
  BY DEF IStamped, IType
<1>2. project[s] \in Project
  BY <1>1 DEF TypeOK
<1>3. \A t \in Stream : hpc[t] = "none" => channel'[t] = channel[t]
  BY <1>1 DEF Fresh, Publish
<1>4. Fresh'
  BY <1>1, <1>3, FreshStep
<1>5. ASSUME NEW t \in Stream
      PROVE  /\ hpc'[t] \in {"ack", "broadcast"} => Stamped(log'[project'[t]], cur'[t])
             /\ AllStamped(log'[project'[t]], channel'[t])
             /\ AllStamped(log'[project'[t]], out'[t])
  <2>1. AllStamped(log[project[t]], channel[t]) /\ AllStamped(log[project[t]], out[t])
    BY <1>1, StampedRestated
  <2>2. AllStamped(log[project[t]], channel'[t])
    BY <1>1, <1>2, <2>1, PublishStamped
  <2>3. hpc'[t] \in {"ack", "broadcast"} => Stamped(log[project[t]], cur'[t])
    BY <1>1 DEF StampedFromLog
  <2> QED BY <2>1, <2>2, <2>3
<1> QED BY <1>4, <1>5 DEF StampedFromLog, AllStamped

\* The steps that put a stamped operation into a stream's queue.
LEMMA EnqueueingStamped ==
  ASSUME IStamped, NEW s \in Stream, hpc[s] # "none", NEW x \in Op,
         Enqueue(s, x), Stamped(log[project[s]], x),
         UNCHANGED <<log, project, cur, subscribed, conns>>,
         \A t \in Stream : channel'[t] = channel[t] \/ (t = s /\ channel'[t] = Tail(channel[t])
                                                          /\ channel[t] # <<>>),
         \A t \in Stream : hpc[t] = "none" <=> hpc'[t] = "none",
         \A t \in Stream : hpc'[t] \in {"ack", "broadcast"} => hpc[t] \in {"ack", "broadcast"}
  PROVE  Fresh' /\ StampedFromLog'
<1>1. TypeOK /\ Fresh /\ StampedFromLog
  BY DEF IStamped, IType
<1>2. \A t \in Stream : hpc[t] = "none" => out'[t] = out[t]
  BY <1>1 DEF TypeOK, Enqueue
<1>3. Fresh'
  BY <1>1, <1>2, FreshStep
<1>4. ASSUME NEW t \in Stream
      PROVE  /\ hpc'[t] \in {"ack", "broadcast"} => Stamped(log'[project'[t]], cur'[t])
             /\ AllStamped(log'[project'[t]], channel'[t])
             /\ AllStamped(log'[project'[t]], out'[t])
  <2>1. AllStamped(log[project[t]], channel[t]) /\ AllStamped(log[project[t]], out[t])
    BY <1>1, StampedRestated
  <2>2. AllStamped(log[project[t]], out'[t])
    BY <1>1, <2>1, EnqueueStamped
  <2>3. channel[t] \in Seq(Op)
    BY <1>1 DEF TypeOK
  <2>4. AllStamped(log[project[t]], channel'[t])
    BY <2>1, <2>3, AllStampedTail
  <2>5. hpc'[t] \in {"ack", "broadcast"} => Stamped(log[project[t]], cur'[t])
    BY <1>1 DEF StampedFromLog
  <2> QED BY <2>2, <2>4, <2>5
<1> QED BY <1>3, <1>4 DEF StampedFromLog, AllStamped

LEMMA ZeroStamped == ASSUME NEW lg, NEW x, x.rev = 0 PROVE Stamped(lg, x)
BY DEF Stamped

\* ... and with revision 0 when there is no answer to stamp it from.
LEMMA UnansweredStamped ==
  ASSUME IStamped, NEW s \in Stream, Reading(s)
  PROVE  \A lg : Stamped(lg, [TransformAll(Head(inbox[s]), <<>>) EXCEPT !.rev = 0])
<1>1. TransformAll(Head(inbox[s]), <<>>) \in Op
  <2>1. Head(inbox[s]) \in Op
    BY TakeUnstamped DEF Reading
  <2>2. <<>> \in Seq(Op)
    OBVIOUS
  <2> QED BY <2>1, <2>2, TransformAllIsOp
<1>2. [TransformAll(Head(inbox[s]), <<>>) EXCEPT !.rev = 0].rev = 0
  BY <1>1 DEF Op
<1> QED BY <1>2, ZeroStamped

LEMMA HandlerStamped ==
  ASSUME IStamped, NEW s \in Stream, Handler(s) \/ Deliver(s) \/ LoseSubscriber(s)
  PROVE  Unstamped' /\ Fresh' /\ StampedFromLog'
<1>1. TypeOK /\ Greeting /\ Unstamped /\ Fresh /\ StampedFromLog
  BY DEF IStamped, IType
<1>2. CASE Join(s)
  BY <1>1, <1>2, QuietStamped DEF Join, TypeOK, redisVars, queueVars, clientVars
<1>3. CASE Reject(s)
  BY <1>1, <1>3, QuietStamped DEF Reject, TypeOK, redisVars, clientVars
<1>4. CASE Greet(s)
  <2>1. hpc[s] = "greet" /\ inbox[s] # <<>>
    BY <1>1, <1>4 DEF Greet, Greeting
  <2>2. Head(inbox[s]) \in Op /\ Stamped(log[project[s]], Head(inbox[s])) /\ Unstamped'
    BY <1>4, <2>1, TakeUnstamped, ZeroStamped DEF Greet
  <2>3. UNCHANGED <<log, project, cur, subscribed, out, conns>>
    BY <1>4 DEF Greet, redisVars, clientVars
  <2>4. Publish(project[s], Head(inbox[s])) /\ hpc' = [hpc EXCEPT ![s] = "read"]
    BY <1>4 DEF Greet
  <2> QED BY <1>1, <2>1, <2>2, <2>3, <2>4, PublishingStamped DEF TypeOK
<1>5. CASE Forward(s)
  <2>1. hpc[s] = "read" /\ inbox[s] # <<>>
    BY <1>5 DEF Forward, Reading
  <2>2. Head(inbox[s]) \in Op /\ Stamped(log[project[s]], Head(inbox[s])) /\ Unstamped'
    BY <1>5, <2>1, TakeUnstamped, ZeroStamped DEF Forward
  <2>3. UNCHANGED <<log, hpc, project, cur, subscribed, out, conns>>
    BY <1>5 DEF Forward, redisVars, handlerVars, clientVars
  <2>4. Publish(project[s], Head(inbox[s]))
    BY <1>5 DEF Forward
  <2> QED BY <2>1, <2>2, <2>3, <2>4, PublishingStamped
<1>6. CASE Commit(s)
  <2> DEFINE x == Head(inbox[s])
             lg == log[project[s]]
  <2>1. Reading(s) /\ x \in Op /\ project[s] \in Project /\ lg \in Seq(Op)
    BY <1>1, <1>6, TakeUnstamped DEF Commit, Reading, TypeOK
  <2>2. log' = [log EXCEPT ![project[s]] = Append(@, x)]
    BY <1>6 DEF Commit, RPush
  <2>3. Transformed(s, x, Concurrent(lg, x.base), Len(lg) + 1)
    BY <1>6 DEF Commit
  <2>4. LogStep /\ log'[project[s]] = Append(lg, x)
    BY <1>1, <2>1, <2>2 DEF LogStep, TypeOK
  <2>5. Stamped(log'[project[s]],
                [TransformAll(x, Concurrent(lg, x.base)) EXCEPT !.rev = Len(lg) + 1])
    BY <2>1, <2>4, CommitIsStamped
  <2> QED BY <2>1, <2>3, <2>4, <2>5, TransformedStamped
<1>7. CASE CommitFails(s)
  <2>1. Reading(s) /\ Transformed(s, Head(inbox[s]), <<>>, 0) /\ LogStep
    BY <1>7 DEF CommitFails, LogStep, redisVars
  <2> QED BY <2>1, UnansweredStamped, TransformedStamped
<1>8. CASE ReplyLost(s)
  <2>1. Reading(s) /\ Transformed(s, Head(inbox[s]), <<>>, 0) /\ RPush(s, Head(inbox[s]))
    BY <1>8 DEF ReplyLost
  <2>2. Head(inbox[s]) \in Op /\ project[s] \in Project
    BY <1>1, <2>1, TakeUnstamped DEF Reading, TypeOK
  <2>3. LogStep
    BY <2>1, <2>2 DEF LogStep, RPush
  <2> QED BY <2>1, <2>3, UnansweredStamped, TransformedStamped
<1>9. CASE Ack(s)
  <2>1. hpc[s] = "ack" /\ cur[s] \in Op /\ Stamped(log[project[s]], cur[s])
    BY <1>1, <1>9 DEF Ack, TypeOK, StampedFromLog
  <2>2. UNCHANGED <<log, project, cur, subscribed, inbox, channel, conns>>
    BY <1>9 DEF Ack, redisVars, clientVars
  <2>3. Enqueue(s, cur[s]) /\ hpc' = [hpc EXCEPT ![s] = "broadcast"]
    BY <1>9 DEF Ack
  <2>4. Unstamped'
    BY <1>1, <2>2 DEF Unstamped
  <2> QED BY <1>1, <2>1, <2>2, <2>3, <2>4, EnqueueingStamped DEF TypeOK
<1>10. CASE Broadcast(s)
  <2>1. hpc[s] = "broadcast" /\ cur[s] \in Op /\ Stamped(log[project[s]], cur[s])
    BY <1>1, <1>10 DEF Broadcast, TypeOK, StampedFromLog
  <2>2. UNCHANGED <<log, project, subscribed, inbox, out, conns>>
    BY <1>10 DEF Broadcast, redisVars, clientVars
  <2>3. hpc' = [hpc EXCEPT ![s] = "read"] /\ cur' = [cur EXCEPT ![s] = NoOp]
    BY <1>10 DEF Broadcast
  <2>4. CASE Publish(project[s], cur[s])
    <3>1. Unstamped'
      BY <1>1, <2>2 DEF Unstamped
    <3> QED BY <1>1, <2>1, <2>2, <2>3, <2>4, <3>1, PublishingStamped DEF TypeOK
  <2>5. CASE UNCHANGED channel
    BY <1>1, <2>1, <2>2, <2>3, <2>5, QuietStamped DEF TypeOK
  <2> QED BY <1>10, <2>4, <2>5 DEF Broadcast
<1>11. CASE Leave(s)
  BY <1>1, <1>11, QuietStamped DEF Leave, TypeOK, redisVars, clientVars
<1>12. CASE Deliver(s)
  <2> DEFINE x == Head(channel[s])
  <2>1. channel[s] \in Seq(Op) /\ channel[s] # <<>> /\ hpc[s] # "none"
    BY <1>1, <1>12 DEF Deliver, TypeOK, Fresh
  <2>2. x \in Op /\ Stamped(log[project[s]], x)
    BY <1>1, <2>1, AllStampedTail, HeadType, StampedRestated
  <2>3. UNCHANGED <<log, hpc, project, cur, subscribed, inbox, conns>>
    BY <1>12 DEF Deliver, redisVars, handlerVars, clientVars
  <2>4. channel' = [channel EXCEPT ![s] = Tail(@)]
    BY <1>12 DEF Deliver
  <2>5. \A t \in Stream : channel'[t] = channel[t] \/ (t = s /\ channel'[t] = Tail(channel[t])
                                                       /\ channel[t] # <<>>)
    BY <1>1, <2>1, <2>4 DEF TypeOK
  <2>6. Unstamped'
    BY <1>1, <2>3 DEF Unstamped
  <2>7. CASE Enqueue(s, x)
    BY <1>1, <2>1, <2>2, <2>3, <2>5, <2>6, <2>7, EnqueueingStamped
  <2>8. CASE UNCHANGED out
    <3>1. ASSUME NEW t \in Stream PROVE AllStamped(log[project[t]], channel'[t])
      <4>1. AllStamped(log[project[t]], channel[t]) /\ channel[t] \in Seq(Op)
        BY <1>1, StampedRestated DEF TypeOK
      <4> QED BY <2>5, <4>1, AllStampedTail
    <3>2. StampedFromLog'
      BY <1>1, <2>3, <2>8, <3>1 DEF StampedFromLog, AllStamped
    <3>3. Fresh'
      BY <1>1, <2>1, <2>3, <2>5, <2>8, FreshStep
    <3> QED BY <2>6, <3>2, <3>3
  <2> QED BY <1>12, <2>7, <2>8 DEF Deliver
<1>13. CASE LoseSubscriber(s)
  <2>1. hpc[s] # "none"
    BY <1>1, <1>13 DEF LoseSubscriber, Fresh
  <2> QED BY <1>1, <1>13, <2>1, QuietStamped DEF LoseSubscriber, TypeOK, redisVars, clientVars
<1> QED
  BY <1>2, <1>3, <1>4, <1>5, <1>6, <1>7, <1>8, <1>9, <1>10, <1>11, <1>12, <1>13 DEF Handler

LEMMA FaultStamped ==
  ASSUME IStamped, LoseRedis \/ Crash
  PROVE  Unstamped' /\ Fresh' /\ StampedFromLog'
<1>1. TypeOK /\ Fresh
  BY DEF IStamped, IType
<1>2. CASE LoseRedis
  BY <1>1, <1>2, QuietStamped DEF LoseRedis, handlerVars, queueVars, clientVars
<1>3. CASE Crash
  <2>1. UNCHANGED <<log, project, conns>>
    BY <1>3 DEF Crash, clientVars
  <2>2. \A s \in Stream : /\ hpc'[s] = IF hpc[s] = "none" THEN "none" ELSE "done"
                          /\ subscribed'[s] = FALSE
                          /\ inbox'[s] = <<>> /\ channel'[s] = <<>> /\ out'[s] = <<>>
    BY <1>3 DEF Crash
  <2>3. \A s \in Stream : hpc[s] = "none" => subscribed'[s] = subscribed[s]
    <3> TAKE s \in Stream
    <3>1. subscribed[s] \in BOOLEAN
      BY <1>1 DEF TypeOK
    <3>2. hpc[s] = "none" => subscribed[s] = FALSE
      BY <1>1, <3>1 DEF Fresh
    <3> QED BY <2>2, <3>2
  <2>4. \A s \in Stream : hpc[s] = "none" <=> hpc'[s] = "none"
    BY <2>2
  <2>5. \A s \in Stream : hpc'[s] \notin {"ack", "broadcast"}
    BY <2>2
  <2> QED BY <2>1, <2>2, <2>3, <2>4, <2>5, QuietStamped
<1> QED BY <1>2, <1>3

LEMMA NextStamped == IStamped /\ [Next]_vars => IStamped'
<1> SUFFICES ASSUME IStamped, [Next]_vars PROVE Unstamped' /\ Fresh' /\ StampedFromLog'
  BY NextType DEF IStamped
<1>1. CASE \E c \in Client : User(c)
  BY <1>1, UserStamped
<1>2. CASE \E s \in Stream : onMessage(s) \/ Handler(s) \/ Deliver(s) \/ LoseSubscriber(s)
  BY <1>2, onMessageStamped, HandlerStamped
<1>3. CASE LoseRedis \/ Crash
  BY <1>3, FaultStamped
<1>4. CASE UNCHANGED vars
  <2>1. UNCHANGED <<log, hpc, project, cur, subscribed, inbox, channel, out, conns>>
    BY <1>4 DEF vars, redisVars, handlerVars, queueVars, clientVars
  <2>2. Unstamped /\ Fresh /\ StampedFromLog
    BY DEF IStamped
  <2>3. Unstamped'
    BY <2>1, <2>2 DEF Unstamped
  <2>4. Fresh'
    BY <2>1, <2>2 DEF Fresh
  <2>5. StampedFromLog'
    BY <2>1, <2>2 DEF StampedFromLog
  <2> QED BY <2>3, <2>4, <2>5
<1> QED BY <1>1, <1>2, <1>3, <1>4 DEF Next

\* A revision number means one operation to everyone for ever, for any number of
\* clients, projects and reconnections and any faults: whatever a handler
\* acknowledges or broadcasts with revision r is what the log's r-th operation
\* comes to, and the log growing does not change that.
THEOREM RevisionsOfCollab == Spec => []StampedFromLog
<1>1. Spec => []IStamped
  BY InitStamped, NextStamped, PTL DEF Spec
<1>2. IStamped => StampedFromLog
  BY DEF IStamped
<1> QED BY <1>1, <1>2, PTL
----------------------------------------------------------------------------
(* Operations.  A client numbers what it sends, over all its connections, and *)
(* each number moves from one inbox into one log, or is dropped.              *)

Same(x, y) == x.session = y.session /\ x.n = y.n

\* What is in an inbox was sent by its client ...
Signed ==
  \A s \in Stream : \A i \in 1..Len(inbox[s]) :
    inbox[s][i].session = Token(s[1]) /\ inbox[s][i].n <= sent[s[1]]

\* ... what is logged by some client, ...
LogSigned ==
  \A p \in Project : \A k \in 1..Len(log[p]) :
    \E c \in Client : log[p][k].session = Token(c) /\ log[p][k].n <= sent[c]

\* ... and no operation that goes into a log is in two places.
UnreadOnce ==
  \A s, r \in Stream : \A i \in 1..Len(inbox[s]), j \in 1..Len(inbox[r]) :
    /\ needs_ot(inbox[s][i].type) /\ needs_ot(inbox[r][j].type)
    /\ Same(inbox[s][i], inbox[r][j])
    => s = r /\ i = j

UnreadUnlogged ==
  \A s \in Stream : \A i \in 1..Len(inbox[s]) : needs_ot(inbox[s][i].type) =>
    \A p \in Project : \A k \in 1..Len(log[p]) : ~Same(log[p][k], inbox[s][i])

LoggedApart ==
  \A p, q \in Project : \A i \in 1..Len(log[p]), j \in 1..Len(log[q]) :
    Same(log[p][i], log[q][j]) => p = q /\ i = j

IOnce == Signed /\ LogSigned /\ UnreadOnce /\ UnreadUnlogged /\ LoggedApart

LEMMA TokenFacts == ASSUME NEW c, NEW d, Token(c) = Token(d) PROVE c = d
BY DEF Token

LEMMA ApartIsOnce == ASSUME TypeOK, LoggedApart PROVE LoggedOnce
<1>1. \A p \in Project : DOMAIN log[p] = 1..Len(log[p])
  BY DEF TypeOK
<1>2. \A x, y : StrokeId(x) = StrokeId(y) => Same(x, y)
  BY DEF StrokeId, Same
<1> QED BY <1>1, <1>2 DEF LoggedOnce, LoggedApart

LEMMA TailShifts ==
  ASSUME NEW q \in Seq(Op), q # <<>>
  PROVE  /\ Tail(q) \in Seq(Op) /\ Len(Tail(q)) = Len(q) - 1
         /\ \A i \in 1..Len(Tail(q)) : i + 1 \in 1..Len(q) /\ Tail(q)[i] = q[i + 1]
OBVIOUS

\* Inboxes lose their first messages.
Shift(d) ==
  \A s \in Stream : \A i \in 1..Len(inbox'[s]) :
    i + d[s] \in 1..Len(inbox[s]) /\ inbox'[s][i] = inbox[s][i + d[s]]

LEMMA ShiftUnread ==
  ASSUME UnreadOnce, NEW d \in [Stream -> Nat], Shift(d)
  PROVE  UnreadOnce'
<1> SUFFICES ASSUME NEW s \in Stream, NEW r \in Stream,
                    NEW i \in 1..Len(inbox'[s]), NEW j \in 1..Len(inbox'[r]),
                    needs_ot(inbox'[s][i].type), needs_ot(inbox'[r][j].type),
                    Same(inbox'[s][i], inbox'[r][j])
             PROVE  s = r /\ i = j
  BY DEF UnreadOnce
<1>1. s = r /\ i + d[s] = j + d[r]
  BY DEF UnreadOnce, Shift
<1>2. d[s] \in Nat /\ i \in Int /\ j \in Int
  OBVIOUS
<1> QED BY <1>1, <1>2

LEMMA ShiftKeeps ==
  ASSUME TypeOK, IOnce, TypeOK', NEW d \in [Stream -> Nat], Shift(d), UNCHANGED <<log, sent>>
  PROVE  IOnce'
<1>1. Signed' /\ LogSigned' /\ LoggedApart'
  BY DEF IOnce, Signed, LogSigned, LoggedApart, Shift
<1>2. UnreadUnlogged'
  BY DEF IOnce, UnreadUnlogged, Shift
<1>3. UnreadOnce'
  BY ShiftUnread DEF IOnce
<1> QED BY <1>1, <1>2, <1>3 DEF IOnce

\* The first message is logged.
LEMMA PushKeeps ==
  ASSUME TypeOK, IOnce, TypeOK', NEW s \in Stream, project[s] \in Project, inbox[s] # <<>>,
         needs_ot(Head(inbox[s]).type), RPush(s, Head(inbox[s])),
         inbox' = [inbox EXCEPT ![s] = Tail(@)], sent' = sent
  PROVE  IOnce'
<1> DEFINE x == inbox[s][1]
<1>1. inbox[s] \in Seq(Op) /\ Len(inbox[s]) >= 1 /\ Head(inbox[s]) = x
  BY DEF TypeOK
<1>2. /\ inbox'[s] = Tail(inbox[s]) /\ \A r \in Stream : r # s => inbox'[r] = inbox[r]
  BY DEF TypeOK
<1>3. /\ Len(inbox'[s]) = Len(inbox[s]) - 1
      /\ \A i \in 1..Len(inbox'[s]) : i + 1 \in 1..Len(inbox[s]) /\ inbox'[s][i] = inbox[s][i + 1]
  BY <1>1, <1>2, TailShifts
<1> DEFINE p == project[s]
           n == Len(log[p]) + 1
<1>4. log[p] \in Seq(Op) /\ x \in Op /\ n \in Nat
  BY <1>1 DEF TypeOK
<1>5. log' = [log EXCEPT ![p] = Append(@, x)]
  BY <1>1 DEF RPush
<1>6. /\ Len(log'[p]) = n /\ log'[p][n] = x
      /\ \A k \in 1..n : k # n => k \in 1..Len(log[p]) /\ log'[p][k] = log[p][k]
      /\ \A q \in Project : q # p => log'[q] = log[q]
  BY <1>4, <1>5 DEF TypeOK
<1>7. \A r \in Stream : \A i \in 1..Len(inbox'[r]) :
        \E k \in 1..Len(inbox[r]) : inbox'[r][i] = inbox[r][k] /\ (r = s => k = i + 1)
                                   /\ (r # s => k = i)
  BY <1>2, <1>3
<1>8. 1 \in 1..Len(inbox[s]) /\ needs_ot(x.type)
  BY <1>1
<1> HIDE DEF x, n
<1>9. \A q \in Project : \A k \in 1..Len(log'[q]) :
        \/ q = p /\ k = n /\ log'[q][k] = x
        \/ k \in 1..Len(log[q]) /\ log'[q][k] = log[q][k]
  BY <1>6
<1> HIDE DEF p
<1>10. Signed'
  BY <1>7 DEF IOnce, Signed
<1>11. LogSigned'
  <2>1. x.session = Token(s[1]) /\ x.n <= sent[s[1]] /\ s[1] \in Client
    BY <1>8 DEF IOnce, Signed, x, Stream
  <2> QED BY <1>9, <2>1 DEF IOnce, LogSigned
<1>12. UnreadOnce'
  <2> DEFINE d == [r \in Stream |-> IF r = s THEN 1 ELSE 0]
  <2>1. d \in [Stream -> Nat] /\ d[s] = 1 /\ \A r \in Stream : r # s => d[r] = 0
    OBVIOUS
  <2> HIDE DEF d
  <2>2. Shift(d)
    BY <1>2, <1>3, <2>1 DEF Shift
  <2> QED BY <2>1, <2>2, ShiftUnread DEF IOnce
<1>13. UnreadUnlogged'
  <2> SUFFICES ASSUME NEW r \in Stream, NEW i \in 1..Len(inbox'[r]), needs_ot(inbox'[r][i].type),
                      NEW q \in Project, NEW k \in 1..Len(log'[q]), Same(log'[q][k], inbox'[r][i])
               PROVE  FALSE
    BY DEF UnreadUnlogged
  <2>1. PICK l \in 1..Len(inbox[r]) : inbox'[r][i] = inbox[r][l] /\ (r = s => l = i + 1)
    BY <1>7
  <2>2. CASE log'[q][k] = x
    <3>1. s = r /\ l = 1
      BY <1>8, <2>1, <2>2 DEF IOnce, UnreadOnce, x
    <3> QED BY <2>1, <3>1
  <2>3. CASE k \in 1..Len(log[q]) /\ log'[q][k] = log[q][k]
    BY <2>1, <2>3 DEF IOnce, UnreadUnlogged
  <2> QED BY <1>9, <2>2, <2>3
<1>14. LoggedApart'
  <2>1. \A q \in Project : \A k \in 1..Len(log[q]) : ~Same(log[q][k], x)
    BY <1>8 DEF IOnce, UnreadUnlogged, x
  <2>2. \A q \in Project : \A k \in 1..Len(log[q]) : ~Same(x, log[q][k])
    BY <2>1 DEF Same
  <2> QED BY <1>9, <2>1, <2>2 DEF IOnce, LoggedApart
<1> QED BY <1>10, <1>11, <1>12, <1>13, <1>14 DEF IOnce

LEMMA DropKeeps ==
  ASSUME TypeOK, IOnce, TypeOK', UNCHANGED <<log, sent>>,
         \A r \in Stream : inbox'[r] = inbox[r] \/ inbox'[r] = <<>>
  PROVE  IOnce'
<1> DEFINE d == [r \in Stream |-> 0]
<1>1. d \in [Stream -> Nat] /\ \A r \in Stream : d[r] = 0
  OBVIOUS
<1> HIDE DEF d
<1>2. Shift(d)
  BY <1>1 DEF Shift
<1> QED BY <1>1, <1>2, ShiftKeeps

\* The first message is read and not logged.
LEMMA TailKeeps ==
  ASSUME TypeOK, IOnce, TypeOK', UNCHANGED <<log, sent>>, NEW s \in Stream, inbox[s] # <<>>,
         inbox' = [inbox EXCEPT ![s] = Tail(@)]
  PROVE  IOnce'
<1> DEFINE d == [r \in Stream |-> IF r = s THEN 1 ELSE 0]
<1>1. d \in [Stream -> Nat] /\ d[s] = 1 /\ \A r \in Stream : r # s => d[r] = 0
  OBVIOUS
<1> HIDE DEF d
<1>2. inbox[s] \in Seq(Op) /\ inbox'[s] = Tail(inbox[s])
      /\ \A r \in Stream : r # s => inbox'[r] = inbox[r]
  BY DEF TypeOK
<1>3. \A i \in 1..Len(inbox'[s]) : i + 1 \in 1..Len(inbox[s]) /\ inbox'[s][i] = inbox[s][i + 1]
  BY <1>2, TailShifts
<1>4. Shift(d)
  BY <1>1, <1>2, <1>3 DEF Shift
<1> QED BY <1>1, <1>4, ShiftKeeps

\* The client t[1] puts m, as the last message, into the inbox of t.
Puts(t, m) ==
  \A r \in Stream : \A i \in 1..Len(inbox'[r]) :
    \/ r = t /\ i = Len(inbox'[t]) /\ inbox'[r][i] = m
    \/ i \in 1..Len(inbox[r]) /\ inbox'[r][i] = inbox[r][i]

LEMMA PutKeeps ==
  ASSUME TypeOK, IOnce, TypeOK', log' = log, NEW c \in Client, NEW t \in Stream, t[1] = c,
         \A b \in Client : sent[b] <= sent'[b],
         NEW m \in Op, Puts(t, m), m.session = Token(c), m.n <= sent'[c],
         needs_ot(m.type) => m.n > sent[c]
  PROVE  IOnce'
<1>1. \A b \in Client : sent[b] \in Nat /\ sent'[b] \in Nat
  BY DEF TypeOK
<1>2. \A r \in Stream : r[1] \in Client
  BY DEF Stream
<1> DEFINE N(x) == x.n \in Nat
<1>5. \A x \in Op : N(x)
  BY DEF Op
<1> HIDE DEF N
<1>3. \A r \in Stream : \A i \in 1..Len(inbox[r]) : N(inbox[r][i])
  <2>1. \A r \in Stream : inbox[r] \in Seq(Op)
    BY DEF TypeOK
  <2> QED BY <1>5, <2>1
<1>4. \A p \in Project : \A k \in 1..Len(log[p]) : N(log[p][k])
  BY <1>5 DEF TypeOK
<1>6. Signed'
  <2> SUFFICES ASSUME NEW r \in Stream, NEW i \in 1..Len(inbox'[r])
               PROVE  inbox'[r][i].session = Token(r[1]) /\ inbox'[r][i].n <= sent'[r[1]]
    BY DEF Signed
  <2>1. CASE r = t /\ inbox'[r][i] = m
    BY <2>1
  <2>2. CASE i \in 1..Len(inbox[r]) /\ inbox'[r][i] = inbox[r][i]
    <3>1. inbox[r][i].session = Token(r[1]) /\ inbox[r][i].n <= sent[r[1]]
      BY <2>2 DEF IOnce, Signed
    <3>2. inbox[r][i].n \in Nat /\ sent[r[1]] \in Nat /\ sent'[r[1]] \in Nat
          /\ sent[r[1]] <= sent'[r[1]]
      BY <1>1, <1>2, <1>3, <2>2 DEF N
    <3> QED BY <2>2, <3>1, <3>2
  <2> QED BY <2>1, <2>2 DEF Puts
<1>7. LogSigned'
  <2> SUFFICES ASSUME NEW p \in Project, NEW k \in 1..Len(log[p])
               PROVE  \E b \in Client : log[p][k].session = Token(b) /\ log[p][k].n <= sent'[b]
    BY DEF LogSigned
  <2>1. PICK b \in Client : log[p][k].session = Token(b) /\ log[p][k].n <= sent[b]
    BY DEF IOnce, LogSigned
  <2>2. log[p][k].n <= sent'[b]
    BY <1>1, <1>4, <2>1 DEF N
  <2> QED BY <2>1, <2>2
<1>8. ASSUME needs_ot(m.type), NEW x, N(x), NEW b \in Client,
             x.session = Token(b), x.n <= sent[b]
      PROVE  ~Same(x, m) /\ ~Same(m, x)
  <2>1. x.n \in Nat /\ m.n \in Nat
    BY <1>5, <1>8 DEF N
  <2>2. x.session = m.session => b = c
    BY <1>8, TokenFacts
  <2> QED BY <1>1, <1>8, <2>1, <2>2 DEF Same
<1>9. UnreadOnce'
  <2>1. ASSUME NEW r \in Stream, NEW i \in 1..Len(inbox[r]), needs_ot(m.type)
        PROVE  ~Same(inbox[r][i], m) /\ ~Same(m, inbox[r][i])
    BY <1>2, <1>3, <1>8, <2>1 DEF IOnce, Signed
  <2> SUFFICES ASSUME NEW q \in Stream, NEW r \in Stream,
                      NEW i \in 1..Len(inbox'[q]), NEW j \in 1..Len(inbox'[r]),
                      needs_ot(inbox'[q][i].type), needs_ot(inbox'[r][j].type),
                      Same(inbox'[q][i], inbox'[r][j])
               PROVE  q = r /\ i = j
    BY DEF UnreadOnce
  <2>2. CASE i \in 1..Len(inbox[q]) /\ inbox'[q][i] = inbox[q][i]
    <3>1. CASE j \in 1..Len(inbox[r]) /\ inbox'[r][j] = inbox[r][j]
      BY <2>2, <3>1 DEF IOnce, UnreadOnce
    <3>2. CASE inbox'[r][j] = m
      BY <2>1, <2>2, <3>2
    <3> QED BY <3>1, <3>2 DEF Puts
  <2>3. CASE q = t /\ i = Len(inbox'[t]) /\ inbox'[q][i] = m
    <3>1. CASE j \in 1..Len(inbox[r]) /\ inbox'[r][j] = inbox[r][j]
      BY <2>1, <2>3, <3>1
    <3>2. CASE r = t /\ j = Len(inbox'[t])
      BY <2>3, <3>2
    <3> QED BY <3>1, <3>2 DEF Puts
  <2> QED BY <2>2, <2>3 DEF Puts
<1>10. UnreadUnlogged'
  <2>1. ASSUME NEW p \in Project, NEW k \in 1..Len(log[p]), needs_ot(m.type)
        PROVE  ~Same(log[p][k], m)
    BY <1>4, <1>8, <2>1 DEF IOnce, LogSigned
  <2> SUFFICES ASSUME NEW r \in Stream, NEW i \in 1..Len(inbox'[r]), needs_ot(inbox'[r][i].type),
                      NEW p \in Project, NEW k \in 1..Len(log[p])
               PROVE  ~Same(log[p][k], inbox'[r][i])
    BY DEF UnreadUnlogged
  <2> QED BY <2>1 DEF Puts, IOnce, UnreadUnlogged
<1>11. LoggedApart'
  BY DEF IOnce, LoggedApart
<1> QED BY <1>6, <1>7, <1>9, <1>10, <1>11 DEF IOnce

LEMMA UserOnce ==
  ASSUME TypeOK, IOnce, TypeOK', NEW c \in Client, User(c)
  PROVE  IOnce'
<1>1. ASSUME NEW p \in Project, connect(c, p) PROVE IOnce'
  <2> DEFINE t == <<c, conns[c] + 1>>
             m == Message(c, "STROKE_BEGIN", NoLayer, 0, 0)
  <2>1. t \in Stream /\ t[1] = c
    BY <1>1, CollabAssumption DEF connect, Stream, TypeOK
  <2>2. m \in Op /\ m.session = Token(c) /\ m.n = 0 /\ ~needs_ot(m.type)
    <3>1. m \in Op
      BY MessageType DEF UpdateType, Ephemeral
    <3>2. ~needs_ot("STROKE_BEGIN")
      BY DEF needs_ot, Mutating
    <3> QED BY <3>1, <3>2 DEF Message
  <2>3. inbox' = [inbox EXCEPT ![t] = <<m>>] /\ UNCHANGED <<log, sent>>
    BY <1>1 DEF connect, redisVars
  <2> HIDE DEF t, m
  <2>4. inbox'[t] = <<m>> /\ \A r \in Stream : r # t => inbox'[r] = inbox[r]
    BY <2>1, <2>3 DEF TypeOK
  <2>5. Puts(t, m)
    BY <2>4 DEF Puts
  <2>6. \A b \in Client : sent[b] \in Nat /\ sent'[b] = sent[b]
    BY <2>3 DEF TypeOK
  <2> QED BY <2>1, <2>2, <2>3, <2>5, <2>6, PutKeeps
<1>2. CASE disconnect(c)
  BY <1>2, DropKeeps DEF disconnect, redisVars, clientVars
<1>3. CASE send(c)
  <2>1. PICK type \in Kinds, layer \in DOMAIN canvas[c] \union {NoLayer} :
          LET msg == Message(c, type, layer, sent[c] + 1, localRevision[c]) IN
            /\ inbox' = [inbox EXCEPT ![ws(c)] = Append(@, msg)]
            /\ sent' = [sent EXCEPT ![c] = @ + 1]
    BY <1>3 DEF send
  <2> DEFINE t == ws(c)
             m == Message(c, type, layer, sent[c] + 1, localRevision[c])
  <2>2. t \in Stream /\ t[1] = c
    BY <1>3 DEF send, Connected, ws, Stream, TypeOK
  <2>3. sent[c] \in Nat /\ localRevision[c] \in Nat /\ layer \in Layer \union {NoLayer}
    BY DEF TypeOK
  <2>4. m \in Op /\ m.session = Token(c) /\ m.n = sent[c] + 1
    <3>1. type \in UpdateType /\ sent[c] + 1 \in Nat
      BY <2>3, CollabAssumption
    <3>2. m \in Op
      BY <2>3, <3>1, MessageType
    <3> QED BY <3>2 DEF Message
  <2>5. inbox' = [inbox EXCEPT ![t] = Append(@, m)] /\ sent' = [sent EXCEPT ![c] = @ + 1]
    BY <2>1
  <2>6. log' = log
    BY <1>3 DEF send, redisVars
  <2> HIDE DEF t, m
  <2>7. inbox[t] \in Seq(Op) /\ inbox'[t] = Append(inbox[t], m)
        /\ \A r \in Stream : r # t => inbox'[r] = inbox[r]
    BY <2>2, <2>5 DEF TypeOK
  <2>8. Puts(t, m)
    BY <2>4, <2>7 DEF Puts
  <2>9. /\ \A b \in Client : sent[b] \in Nat /\ sent[b] <= sent'[b]
        /\ sent'[c] = sent[c] + 1
    <3>1. sent \in [Client -> Nat]
      BY DEF TypeOK
    <3>2. sent'[c] = sent[c] + 1 /\ \A b \in Client : b # c => sent'[b] = sent[b]
      BY <2>5, <3>1
    <3> QED BY <3>1, <3>2
  <2> QED BY <2>2, <2>3, <2>4, <2>6, <2>8, <2>9, PutKeeps
<1> QED BY <1>1, <1>2, <1>3 DEF User

LEMMA HandlerOnce ==
  ASSUME TypeOK, Greeting, IOnce, TypeOK', NEW s \in Stream, Handler(s)
  PROVE  IOnce'
<1>1. CASE Join(s) \/ Ack(s) \/ Broadcast(s)
  <2>1. UNCHANGED <<log, sent, inbox>>
    BY <1>1 DEF Join, Ack, Broadcast, redisVars, queueVars, clientVars
  <2> QED BY <2>1, DropKeeps
<1>2. CASE Reject(s) \/ Leave(s)
  <2>1. UNCHANGED <<log, sent>> /\ inbox' = [inbox EXCEPT ![s] = <<>>]
    BY <1>2 DEF Reject, Leave, redisVars, clientVars
  <2>2. \A r \in Stream : inbox'[r] = inbox[r] \/ inbox'[r] = <<>>
    BY <2>1 DEF TypeOK
  <2> QED BY <2>1, <2>2, DropKeeps
<1>3. CASE Greet(s)
  <2>1. UNCHANGED <<log, sent>> /\ inbox' = [inbox EXCEPT ![s] = Tail(@)]
    BY <1>3 DEF Greet, redisVars, clientVars
  <2>2. inbox[s] # <<>>
    BY <1>3 DEF Greet, Greeting
  <2> QED BY <2>1, <2>2, TailKeeps
<1>4. CASE Forward(s) \/ CommitFails(s)
  <2>1. /\ UNCHANGED <<log, sent>> /\ inbox[s] # <<>>
        /\ inbox' = [inbox EXCEPT ![s] = Tail(@)]
    BY <1>4 DEF Forward, CommitFails, Transformed, Reading, redisVars, clientVars
  <2> QED BY <2>1, TailKeeps
<1>5. CASE Commit(s) \/ ReplyLost(s)
  <2>1. /\ hpc[s] = "read" /\ inbox[s] # <<>> /\ needs_ot(Head(inbox[s]).type)
        /\ RPush(s, Head(inbox[s])) /\ inbox' = [inbox EXCEPT ![s] = Tail(@)] /\ sent' = sent
    BY <1>5 DEF Commit, ReplyLost, Transformed, Reading, clientVars
  <2>2. project[s] \in Project
    BY <2>1 DEF TypeOK
  <2> QED BY <2>1, <2>2, PushKeeps
<1> QED BY <1>1, <1>2, <1>3, <1>4, <1>5 DEF Handler

LEMMA NextOnce == ASSUME IType, IOnce, IType', [Next]_vars PROVE IOnce'
<1> USE DEF IType
<1>1. CASE \E c \in Client : User(c)
  BY <1>1, UserOnce
<1>2. CASE \E s \in Stream : Handler(s)
  BY <1>2, HandlerOnce
<1>3. CASE \/ \E s \in Stream : onMessage(s) \/ Deliver(s) \/ LoseSubscriber(s)
           \/ LoseRedis \/ UNCHANGED vars
  <2>1. UNCHANGED <<log, sent, inbox>>
    BY <1>3 DEF onMessage, Deliver, LoseSubscriber, LoseRedis, vars, redisVars, queueVars, clientVars
  <2> QED BY <2>1, DropKeeps
<1>4. CASE Crash
  <2>1. UNCHANGED <<log, sent>> /\ \A s \in Stream : inbox'[s] = <<>>
    BY <1>4 DEF Crash, clientVars
  <2> QED BY <2>1, DropKeeps
<1> QED BY <1>1, <1>2, <1>3, <1>4 DEF Next

LEMMA InitOnce == Init => IOnce
BY DEF Init, IOnce, Signed, LogSigned, UnreadOnce, UnreadUnlogged, LoggedApart

\* An operation enters the logs at most once, for any number of clients,
\* projects and reconnections, whatever is lost, refused or restarted.
THEOREM OperationsLoggedOnce == Spec => []LoggedOnce
<1>1. IType /\ LoggedApart => LoggedOnce
  BY ApartIsOnce DEF IType
<1>2. IOnce => LoggedApart
  BY DEF IOnce
<1>3. Spec => []IType
  BY InitType, NextType, PTL DEF Spec
<1>4. IType /\ IOnce /\ IType' /\ [Next]_vars => IOnce'
  BY NextOnce
<1> QED BY InitOnce, <1>1, <1>2, <1>3, <1>4, PTL DEF Spec
----------------------------------------------------------------------------
(* Refinement.  Logs grow by appending, and what a client takes from its      *)
(* queue with a revision is what StampedFromLog says.                         *)

LEMMA HistoryStep == [NextH]_varsH => [Next]_vars
BY DEF NextH, varsH, Next, Handler

LEMMA LogGrows ==
  ASSUME TypeOK, [Next]_vars, log' # log
  PROVE  \E p \in Project : \E x \in Op : log' = [log EXCEPT ![p] = Append(@, x)]
<1>1. ASSUME NEW c \in Client, User(c) PROVE log' = log
  BY <1>1 DEF User, connect, disconnect, send, redisVars
<1>2. ASSUME NEW s \in Stream, onMessage(s) \/ Deliver(s) \/ LoseSubscriber(s) PROVE log' = log
  BY <1>2 DEF onMessage, Deliver, LoseSubscriber, redisVars
<1>3. LoseRedis \/ Crash \/ UNCHANGED vars => log' = log
  BY DEF LoseRedis, Crash, vars, redisVars
<1>4. ASSUME NEW s \in Stream, Handler(s), ~Commit(s), ~ReplyLost(s) PROVE log' = log
  BY <1>4 DEF Handler, Join, Reject, Greet, Forward, CommitFails, Ack, Broadcast, Leave, redisVars
<1>5. PICK s \in Stream : Commit(s) \/ ReplyLost(s)
  BY <1>1, <1>2, <1>3, <1>4 DEF Next
<1>6. hpc[s] = "read" /\ inbox[s] # <<>> /\ RPush(s, Head(inbox[s]))
  BY <1>5 DEF Commit, ReplyLost, Reading
<1>7. project[s] \in Project /\ Head(inbox[s]) \in Op
  <2>1. inbox[s] \in Seq(Op)
    BY DEF TypeOK
  <2> QED BY <1>6, <2>1 DEF TypeOK
<1> QED BY <1>6, <1>7 DEF RPush

LEMMA GrowthSubmits ==
  ASSUME TypeOK, NEW p \in Project, NEW x \in Op, log' = [log EXCEPT ![p] = Append(@, x)],
         learned' = learned
  PROVE  Service!Next
<1>1. log[p] \in Seq(Op) /\ log'[p] = Append(log[p], x)
  BY DEF TypeOK
<1>2. log' = [log EXCEPT ![p] = log'[p]]
  BY <1>1
<1>3. Service!Extends(log'[p], log[p])
  <2>1. Len(log[p]) \in Nat /\ Len(Append(log[p], x)) = Len(log[p]) + 1
    BY <1>1
  <2>2. SubSeq(Append(log[p], x), 1, Len(log[p])) = log[p]
    BY <1>1
  <2> QED BY <1>1, <2>1, <2>2 DEF Service!Extends
<1>4. Service!Submit(p)
  BY <1>2, <1>3 DEF Service!Submit
<1> QED BY <1>4 DEF Service!Next

\* The sequencer's transform is the handlers'.
LEMMA MeaningIsCommitted == ASSUME NEW lg, NEW r PROVE Service!Meaning(lg, r) = CommittedOp(lg, r)
<1>1. \A x, w : Service!TransformAll(x, w) = TransformAll(x, w)
  BY DEF TransformAll, Service!TransformAll, ot_transform, Service!ot_transform,
         Erases, Service!Erases
<1> QED BY <1>1 DEF CommittedOp, Service!Meaning

LEMMA MessageTeaches ==
  ASSUME IStamped, NEW s \in Stream, onMessage(s), NoteMessage(s), learned' # learned
  PROVE  Service!Next
<1> DEFINE op == Head(out[s])
           p == project[s]
<1>1. log' = log /\ out[s] # <<>> /\ out[s] \in Seq(Op)
  BY DEF onMessage, redisVars, IStamped, IType, TypeOK
<1>2. op = out[s][1] /\ 1 \in 1..Len(out[s])
  BY <1>1
<1>3. p \in Project
  BY <1>1 DEF IStamped, IType, TypeOK, Fresh
<1>4. op.rev # 0 /\ learned' = [learned EXCEPT ![s[1]] = @ \union {<<p, op>>}]
  BY DEF NoteMessage
<1>5. Stamped(log[p], op)
  BY <1>2 DEF IStamped, StampedFromLog
<1>6. op.rev \in 1..Len(log[p]) /\ op = Service!Meaning(log[p], op.rev)
  BY <1>4, <1>5, MeaningIsCommitted DEF Stamped
<1>7. s[1] \in Client
  BY DEF Stream
<1> HIDE DEF op, p
<1>8. Service!Learn(s[1], p)
  BY <1>1, <1>4, <1>6 DEF Service!Learn
<1> QED BY <1>3, <1>7, <1>8 DEF Service!Next

LEMMA StepRefines == IStamped /\ [NextH]_varsH => [Service!Next]_Service!vars
<1> SUFFICES ASSUME IStamped, [NextH]_varsH, ~UNCHANGED <<log, learned>>
             PROVE  Service!Next
  BY DEF Service!vars
<1>1. [Next]_vars
  BY HistoryStep
<1>2. CASE learned' = learned
  BY <1>1, <1>2, LogGrows, GrowthSubmits DEF IStamped, IType
<1>3. CASE learned' # learned
  <2>1. PICK s \in Stream : onMessage(s) /\ NoteMessage(s)
    BY <1>3 DEF NextH, varsH
  <2> QED BY <1>3, <2>1, MessageTeaches
<1> QED BY <1>2, <1>3

\* Browsers, handlers, the Redis script and the channels together are a
\* sequencer: one growing sequence of operations per project, of which clients
\* learn the r-th as revision r or not at all, whatever fails or reconnects.
THEOREM CollabIsSequencer == SpecH => ImplementsSequencer
<1>1. InitH => Init
  BY DEF InitH
<1>2. [NextH]_varsH => [Next]_vars
  BY HistoryStep
<1>3. InitH => Service!Init
  BY DEF InitH, Init, Service!Init
<1>4. Init => IStamped
  BY InitStamped
<1>5. IStamped /\ [Next]_vars => IStamped'
  BY NextStamped
<1>6. IStamped /\ [NextH]_varsH => [Service!Next]_Service!vars
  BY StepRefines
<1> QED BY <1>1, <1>2, <1>3, <1>4, <1>5, <1>6, PTL DEF SpecH, ImplementsSequencer, Service!Spec
----------------------------------------------------------------------------
(* Order.  A stroke of author a goes from a's inbox through the hand of a's    *)
(* handler, the channel of another stream and its queue to that stream's       *)
(* canvas.  The author's numbers rise along each of these, and from each to    *)
(* the one before it.                                                          *)

\* The numbers of a's strokes on a canvas, and in a queue.
On(cv, a) == {n \in Nat : \E l \in DOMAIN cv : \E i \in 1..Len(cv[l]) : cv[l][i] = <<a, n>>}

By(op, a) == op.type = "STROKE_END" /\ op.session = a
Nums(q, a) == {n \in Nat : \E i \in 1..Len(q) : By(q[i], a) /\ n = q[i].n}

Drawn(cv, a) ==
  \A l \in DOMAIN cv : \A i, j \in 1..Len(cv[l]) :
    i < j /\ cv[l][i][1] = a /\ cv[l][j][1] = a => cv[l][i][2] < cv[l][j][2]

Rising(q, a) == \A i, j \in 1..Len(q) : i < j /\ By(q[i], a) /\ By(q[j], a) => q[i].n < q[j].n

Below(A, B) == \A x \in A, y \in B : x < y

\* Five stages, the oldest numbers first, none above N.
Levels(P, O, C, H, I, N) ==
  /\ P \subseteq Nat /\ O \subseteq Nat /\ C \subseteq Nat /\ H \subseteq Nat /\ I \subseteq Nat
  /\ N \in Nat
  /\ Below(P, O) /\ Below(P, C) /\ Below(P, H) /\ Below(P, I)
  /\ Below(O, C) /\ Below(O, H) /\ Below(O, I)
  /\ Below(C, H) /\ Below(C, I)
  /\ Below(H, I)
  /\ \A x \in P \union O \union C \union H \union I : x <= N

LEMMA LevelsShrink ==
  ASSUME NEW P, NEW O, NEW C, NEW H, NEW I, NEW N, Levels(P, O, C, H, I, N),
         NEW Q \in SUBSET P, NEW U \in SUBSET O, NEW D \in SUBSET C, NEW G \in SUBSET H,
         NEW J \in SUBSET I
  PROVE  Levels(Q, U, D, G, J, N)
BY DEF Levels, Below

LEMMA LevelsPaint ==
  ASSUME NEW P, NEW O, NEW C, NEW H, NEW I, NEW N, Levels(P, O, C, H, I, N),
         NEW n \in O, NEW Q \in SUBSET (P \union {n}), NEW U \in SUBSET O, Below({n}, U)
  PROVE  Levels(Q, U, C, H, I, N)
BY DEF Levels, Below

LEMMA LevelsDeliver ==
  ASSUME NEW P, NEW O, NEW C, NEW H, NEW I, NEW N, Levels(P, O, C, H, I, N),
         NEW n \in C, NEW U \in SUBSET (O \union {n}), NEW D \in SUBSET C, Below({n}, D)
  PROVE  Levels(P, U, D, H, I, N)
BY DEF Levels, Below

LEMMA LevelsPublish ==
  ASSUME NEW P, NEW O, NEW C, NEW H, NEW I, NEW N, Levels(P, O, C, H, I, N),
         NEW D \in SUBSET (C \union H)
  PROVE  Levels(P, O, D, {}, I, N)
BY DEF Levels, Below

LEMMA LevelsTake ==
  ASSUME NEW P, NEW O, NEW C, NEW I, NEW N, Levels(P, O, C, {}, I, N),
         NEW n \in I, NEW J \in SUBSET I, Below({n}, J)
  PROVE  Levels(P, O, C, {n}, J, N)
BY DEF Levels, Below

LEMMA LevelsSend ==
  ASSUME NEW P, NEW O, NEW C, NEW H, NEW I, NEW N, Levels(P, O, C, H, I, N),
         NEW J \in SUBSET (I \union {N + 1})
  PROVE  Levels(P, O, C, H, J, N + 1)
<1>1. \A x \in P \union O \union C \union H \union I : x \in Nat /\ x < N + 1 /\ x <= N + 1
  BY DEF Levels
<1> QED BY <1>1 DEF Levels, Below

\* What a queue's numbers become.
LEMMA NumsAppend ==
  ASSUME NEW q \in Seq(Op), NEW x \in Op, NEW a
  PROVE  Nums(Append(q, x), a) \subseteq Nums(q, a) \union {n \in Nat : By(x, a) /\ n = x.n}
<1>1. \A i \in 1..Len(Append(q, x)) :
        \/ i \in 1..Len(q) /\ Append(q, x)[i] = q[i]
        \/ Append(q, x)[i] = x
  OBVIOUS
<1> QED BY <1>1 DEF Nums

LEMMA RisingAppend ==
  ASSUME NEW q \in Seq(Op), NEW x \in Op, NEW a, Rising(q, a),
         By(x, a) => Below(Nums(q, a), {x.n})
  PROVE  Rising(Append(q, x), a)
<1> DEFINE r == Append(q, x)
<1>1. \A i \in 1..Len(r) : \/ i \in 1..Len(q) /\ r[i] = q[i]
                           \/ i = Len(q) + 1 /\ r[i] = x
  OBVIOUS
<1>2. \A i \in 1..Len(q) : By(q[i], a) => q[i].n \in Nums(q, a)
  <2>1. \A i \in 1..Len(q) : q[i] \in Op
    OBVIOUS
  <2>2. \A i \in 1..Len(q) : q[i].n \in Nat
    BY <2>1 DEF Op
  <2> QED BY <2>2 DEF Nums
<1> HIDE DEF r
<1>3. Rising(r, a)
  <2> SUFFICES ASSUME NEW i \in 1..Len(r), NEW j \in 1..Len(r), i < j, By(r[i], a), By(r[j], a)
               PROVE  r[i].n < r[j].n
    BY DEF Rising
  <2>1. CASE j \in 1..Len(q) /\ r[j] = q[j]
    <3>1. i \in 1..Len(q) /\ r[i] = q[i]
      BY <1>1, <2>1
    <3> QED BY <2>1, <3>1 DEF Rising
  <2>2. CASE j = Len(q) + 1 /\ r[j] = x
    <3>1. i \in 1..Len(q) /\ r[i] = q[i]
      BY <1>1, <2>2
    <3> QED BY <1>2, <2>2, <3>1 DEF Below
  <2> QED BY <1>1, <2>1, <2>2
<1> QED BY <1>3 DEF r

LEMMA TailFalls ==
  ASSUME NEW q \in Seq(Op), q # <<>>, NEW a
  PROVE  /\ Nums(Tail(q), a) \subseteq Nums(q, a)
         /\ Rising(q, a) => Rising(Tail(q), a)
         /\ By(Head(q), a) => Head(q).n \in Nums(q, a)
         /\ Rising(q, a) /\ By(Head(q), a) => Below({Head(q).n}, Nums(Tail(q), a))
<1> DEFINE r == Tail(q)
<1>1. \A i \in 1..Len(r) : i + 1 \in 1..Len(q) /\ r[i] = q[i + 1]
  BY TailShifts
<1>2. Head(q) = q[1] /\ 1 \in 1..Len(q) /\ Head(q) \in Op
  OBVIOUS
<1>3. \A i \in 1..Len(r) : 1 < i + 1
  OBVIOUS
<1>4. \A i, j \in 1..Len(r) : i < j => i + 1 < j + 1
  OBVIOUS
<1> HIDE DEF r
<1>5. Nums(r, a) \subseteq Nums(q, a)
  BY <1>1 DEF Nums
<1>6. Rising(q, a) => Rising(r, a)
  BY <1>1, <1>4 DEF Rising
<1>7. By(Head(q), a) => Head(q).n \in Nums(q, a)
  BY <1>2 DEF Nums, Op
<1>8. Rising(q, a) /\ By(Head(q), a) => Below({Head(q).n}, Nums(r, a))
  BY <1>1, <1>2, <1>3 DEF Rising, Below, Nums
<1> QED BY <1>5, <1>6, <1>7, <1>8 DEF r

LEMMA NothingRises == ASSUME NEW a PROVE Nums(<<>>, a) = {} /\ Rising(<<>>, a)
BY DEF Nums, Rising

\* What a canvas becomes: each layer stays, is wiped, or gets a stroke.
LEMMA Applied ==
  ASSUME NEW cv \in Canvases, NEW x \in Op
  PROVE  \A l \in DOMAIN applyRemoteOp(cv, x) :
           /\ l \in DOMAIN cv /\ cv[l] \in Strokes
           /\ \/ applyRemoteOp(cv, x)[l] = cv[l]
              \/ applyRemoteOp(cv, x)[l] = <<>>
              \/ x.type = "STROKE_END" /\ applyRemoteOp(cv, x)[l] = Append(cv[l], StrokeId(x))
<1>1. PICK D \in SUBSET Layer : cv \in [D -> Strokes]
  BY DEF Canvases
<1> QED BY <1>1 DEF applyRemoteOp, Paint, Wipe, deleteLayer

LEMMA AppliedOn ==
  ASSUME NEW cv \in Canvases, NEW x \in Op, NEW a
  PROVE  /\ On(applyRemoteOp(cv, x), a) \subseteq
              On(cv, a) \union {n \in Nat : By(x, a) /\ n = x.n}
         /\ (/\ Drawn(cv, a)
             /\ By(x, a) => Below(On(cv, a), {x.n}))
            => Drawn(applyRemoteOp(cv, x), a)
<1> DEFINE new == applyRemoteOp(cv, x)
<1>1. \A l \in DOMAIN new :
        /\ l \in DOMAIN cv /\ cv[l] \in Strokes
        /\ \/ new[l] = cv[l]
           \/ new[l] = <<>>
           \/ x.type = "STROKE_END" /\ new[l] = Append(cv[l], StrokeId(x))
  BY Applied
<1> HIDE DEF new
<1>2. \A l \in DOMAIN new : \A i \in 1..Len(new[l]) :
        /\ l \in DOMAIN cv
        /\ \/ i \in 1..Len(cv[l]) /\ new[l][i] = cv[l][i]
           \/ /\ x.type = "STROKE_END" /\ i = Len(cv[l]) + 1
              /\ new[l][i] = <<x.session, x.n>> /\ Len(cv[l]) \in Nat
  <2> TAKE l \in DOMAIN new
  <2>1. cv[l] \in Seq({Token(c) : c \in Client} \X Nat)
    BY <1>1 DEF Strokes
  <2>2. StrokeId(x) = <<x.session, x.n>>
    BY DEF StrokeId
  <2>3. CASE new[l] = Append(cv[l], StrokeId(x)) /\ x.type = "STROKE_END"
    <3> DEFINE k == StrokeId(x)
    <3>1. Len(cv[l]) \in Nat
      BY <2>1
    <3>2. \A i \in 1..Len(Append(cv[l], k)) :
            \/ i \in 1..Len(cv[l]) /\ Append(cv[l], k)[i] = cv[l][i]
            \/ i = Len(cv[l]) + 1 /\ Append(cv[l], k)[i] = k
      BY <2>1
    <3> HIDE DEF k
    <3> QED BY <1>1, <2>2, <2>3, <3>1, <3>2 DEF k
  <2>4. CASE new[l] = cv[l] \/ new[l] = <<>>
    BY <1>1, <2>4
  <2> QED BY <1>1, <2>3, <2>4
<1>3. On(new, a) \subseteq
        On(cv, a) \union {n \in Nat : By(x, a) /\ n = x.n}
  BY <1>2 DEF On, By
<1>4. ASSUME Drawn(cv, a), By(x, a) => Below(On(cv, a), {x.n})
      PROVE  Drawn(new, a)
  <2> SUFFICES ASSUME NEW l \in DOMAIN new, NEW i \in 1..Len(new[l]), NEW j \in 1..Len(new[l]),
                      i < j, new[l][i][1] = a, new[l][j][1] = a
               PROVE  new[l][i][2] < new[l][j][2]
    BY DEF Drawn
  <2>1. CASE j \in 1..Len(cv[l]) /\ new[l][j] = cv[l][j]
    <3>1. i \in 1..Len(cv[l]) /\ new[l][i] = cv[l][i] /\ l \in DOMAIN cv
      <4>1. Len(cv[l]) \in Nat
        BY <1>1 DEF Strokes
      <4> QED BY <1>2, <2>1, <4>1
    <3> QED BY <1>4, <2>1, <3>1 DEF Drawn
  <2>2. CASE /\ x.type = "STROKE_END" /\ j = Len(cv[l]) + 1
             /\ new[l][j] = <<x.session, x.n>> /\ Len(cv[l]) \in Nat
    <3>1. i \in 1..Len(cv[l]) /\ new[l][i] = cv[l][i] /\ l \in DOMAIN cv
      BY <1>2, <2>2
    <3>2. cv[l][i] \in {Token(c) : c \in Client} \X Nat
      <4>1. cv[l] \in Seq({Token(c) : c \in Client} \X Nat)
        BY <1>1 DEF Strokes
      <4> QED BY <3>1, <4>1
    <3>3. cv[l][i] = <<a, cv[l][i][2]>> /\ cv[l][i][2] \in Nat
      BY <3>1, <3>2
    <3>4. cv[l][i][2] \in On(cv, a)
      BY <3>1, <3>3 DEF On
    <3>5. x.session = a /\ new[l][j][2] = x.n
      BY <2>2
    <3> QED BY <1>4, <2>2, <3>1, <3>4, <3>5 DEF Below, By
  <2> QED BY <1>2, <2>1, <2>2
<1> QED BY <1>3, <1>4 DEF new

\* The stages between the canvas cv of one client and the inbox i of author a.
Chain(cv, o, c, H, i, a, N) ==
  /\ cv \in Canvases /\ o \in Seq(Op) /\ c \in Seq(Op) /\ i \in Seq(Op)
  /\ Drawn(cv, a) /\ Rising(o, a) /\ Rising(c, a) /\ Rising(i, a)
  /\ Levels(On(cv, a), Nums(o, a), Nums(c, a), H, Nums(i, a), N)

LEMMA ChainStays ==
  ASSUME NEW cv, NEW o, NEW c, NEW H, NEW i, NEW a, NEW N, Chain(cv, o, c, H, i, a, N),
         NEW p \in {o, <<>>}, NEW d \in {c, <<>>}, NEW G \in SUBSET H, NEW j \in {i, <<>>}
  PROVE  Chain(cv, p, d, G, j, a, N)
<1>1. /\ Nums(p, a) \subseteq Nums(o, a) /\ Nums(d, a) \subseteq Nums(c, a)
      /\ Nums(j, a) \subseteq Nums(i, a)
      /\ Rising(p, a) /\ Rising(d, a) /\ Rising(j, a)
  BY NothingRises DEF Chain
<1>2. Levels(On(cv, a), Nums(p, a), Nums(d, a), G, Nums(j, a), N)
  BY <1>1, LevelsShrink DEF Chain
<1>3. p \in Seq(Op) /\ d \in Seq(Op) /\ j \in Seq(Op)
  <2>1. o \in Seq(Op) /\ c \in Seq(Op) /\ i \in Seq(Op) /\ <<>> \in Seq(Op)
    BY DEF Chain
  <2> QED BY <2>1
<1> QED BY <1>1, <1>2, <1>3 DEF Chain

\* The browser takes the first of its queue, and may paint what came of it.
LEMMA ChainPaint ==
  ASSUME NEW cv, NEW o, NEW c, NEW H, NEW i, NEW a, NEW N, Chain(cv, o, c, H, i, a, N),
         o # <<>>, NEW y \in Op, By(y, a) => By(Head(o), a) /\ y.n = Head(o).n
  PROVE  /\ Chain(cv, Tail(o), c, H, i, a, N)
         /\ Chain(applyRemoteOp(cv, y), Tail(o), c, H, i, a, N)
<1>1. /\ Tail(o) \in Seq(Op) /\ Rising(Tail(o), a) /\ Nums(Tail(o), a) \subseteq Nums(o, a)
  <2>1. o \in Seq(Op) /\ Rising(o, a)
    BY DEF Chain
  <2> QED BY <2>1, HeadType, TailFalls
<1>2. Chain(cv, Tail(o), c, H, i, a, N)
  <2>1. Levels(On(cv, a), Nums(Tail(o), a), Nums(c, a), H, Nums(i, a), N)
    BY <1>1, LevelsShrink DEF Chain
  <2> QED BY <1>1, <2>1 DEF Chain
<1> DEFINE new == applyRemoteOp(cv, y)
<1>3. new \in Canvases
  BY ApplyType DEF Chain
<1>4. On(new, a) \subseteq On(cv, a) \union {n \in Nat : By(y, a) /\ n = y.n}
  BY AppliedOn DEF Chain
<1>5. Drawn(cv, a) /\ (By(y, a) => Below(On(cv, a), {y.n})) => Drawn(new, a)
  BY AppliedOn DEF Chain
<1> HIDE DEF new
<1>6. CASE By(y, a)
  <2>1. y.n \in Nums(o, a) /\ Below({y.n}, Nums(Tail(o), a))
    BY <1>6, TailFalls DEF Chain
  <2>2. Drawn(new, a)
    <3>1. Below(On(cv, a), {y.n})
      BY <2>1 DEF Chain, Levels, Below
    <3> QED BY <1>5, <3>1 DEF Chain
  <2>3. On(new, a) \in SUBSET (On(cv, a) \union {y.n})
    BY <1>4
  <2>4. Levels(On(new, a), Nums(Tail(o), a), Nums(c, a), H, Nums(i, a), N)
    BY <1>1, <2>1, <2>3, LevelsPaint DEF Chain
  <2> QED BY <1>1, <1>2, <1>3, <2>2, <2>4 DEF Chain, new
<1>7. CASE ~By(y, a)
  <2>1. Drawn(new, a) /\ On(new, a) \subseteq On(cv, a)
    BY <1>4, <1>5, <1>7 DEF Chain
  <2>2. Levels(On(new, a), Nums(Tail(o), a), Nums(c, a), H, Nums(i, a), N)
    BY <1>1, <2>1, LevelsShrink DEF Chain
  <2> QED BY <1>1, <1>2, <1>3, <2>1, <2>2 DEF Chain, new
<1> QED BY <1>6, <1>7

\* The subscriber takes the first of the channel, and may queue it.
LEMMA ChainDeliver ==
  ASSUME NEW cv, NEW o, NEW c, NEW H, NEW i, NEW a, NEW N, Chain(cv, o, c, H, i, a, N),
         c # <<>>
  PROVE  /\ Chain(cv, o, Tail(c), H, i, a, N)
         /\ Chain(cv, Append(o, Head(c)), Tail(c), H, i, a, N)
<1> DEFINE x == Head(c)
<1>1. /\ Tail(c) \in Seq(Op) /\ x \in Op
      /\ Rising(Tail(c), a) /\ Nums(Tail(c), a) \subseteq Nums(c, a)
      /\ By(x, a) => x.n \in Nums(c, a) /\ Below({x.n}, Nums(Tail(c), a))
  <2>1. c \in Seq(Op) /\ Rising(c, a)
    BY DEF Chain
  <2> QED BY <2>1, HeadType, TailFalls
<1>2. Chain(cv, o, Tail(c), H, i, a, N)
  <2>1. Levels(On(cv, a), Nums(o, a), Nums(Tail(c), a), H, Nums(i, a), N)
    BY <1>1, LevelsShrink DEF Chain
  <2> QED BY <1>1, <2>1 DEF Chain
<1> HIDE DEF x
<1> DEFINE p == Append(o, x)
<1>3. p \in Seq(Op) /\ Nums(p, a) \subseteq Nums(o, a) \union {n \in Nat : By(x, a) /\ n = x.n}
  BY <1>1, NumsAppend DEF Chain
<1>4. Rising(p, a)
  <2>1. By(x, a) => Below(Nums(o, a), {x.n})
    BY <1>1 DEF Chain, Levels, Below
  <2> QED BY <1>1, <2>1, RisingAppend DEF Chain
<1> HIDE DEF p
<1>5. Levels(On(cv, a), Nums(p, a), Nums(Tail(c), a), H, Nums(i, a), N)
  <2>1. CASE By(x, a)
    <3>1. Nums(p, a) \in SUBSET (Nums(o, a) \union {x.n})
      BY <1>3
    <3> QED BY <1>1, <2>1, <3>1, LevelsDeliver DEF Chain
  <2>2. CASE ~By(x, a)
    BY <1>1, <1>3, <2>2, LevelsShrink DEF Chain
  <2> QED BY <2>1, <2>2
<1> QED BY <1>1, <1>2, <1>3, <1>4, <1>5 DEF Chain, x, p

\* The author's handler publishes what it has in hand.
LEMMA ChainPublish ==
  ASSUME NEW cv, NEW o, NEW c, NEW H, NEW i, NEW a, NEW N, Chain(cv, o, c, H, i, a, N),
         NEW x \in Op, By(x, a) => x.n \in H
  PROVE  Chain(cv, o, Append(c, x), {}, i, a, N)
<1> DEFINE d == Append(c, x)
<1>1. d \in Seq(Op) /\ Nums(d, a) \subseteq Nums(c, a) \union {n \in Nat : By(x, a) /\ n = x.n}
  BY NumsAppend DEF Chain
<1>2. Rising(d, a)
  <2>1. By(x, a) => Below(Nums(c, a), {x.n})
    BY DEF Chain, Levels, Below
  <2> QED BY <2>1, RisingAppend DEF Chain
<1>3. Nums(d, a) \subseteq Nums(c, a) \union H
  BY <1>1
<1> HIDE DEF d
<1>4. Levels(On(cv, a), Nums(o, a), Nums(d, a), {}, Nums(i, a), N)
  BY <1>3, LevelsPublish DEF Chain
<1> QED BY <1>1, <1>2, <1>4 DEF Chain, d

\* The author's handler takes the first message in hand.
LEMMA ChainTake ==
  ASSUME NEW cv, NEW o, NEW c, NEW i, NEW a, NEW N, Chain(cv, o, c, {}, i, a, N),
         i # <<>>, NEW G \in SUBSET {n \in Nat : By(Head(i), a) /\ n = Head(i).n}
  PROVE  Chain(cv, o, c, G, Tail(i), a, N)
<1> DEFINE x == Head(i)
<1>1. /\ Tail(i) \in Seq(Op) /\ x \in Op
      /\ Rising(Tail(i), a) /\ Nums(Tail(i), a) \subseteq Nums(i, a)
      /\ By(x, a) => x.n \in Nums(i, a) /\ Below({x.n}, Nums(Tail(i), a))
  <2>1. i \in Seq(Op) /\ Rising(i, a)
    BY DEF Chain
  <2> QED BY <2>1, HeadType, TailFalls
<1> HIDE DEF x
<1>2. Levels(On(cv, a), Nums(o, a), Nums(c, a), G, Nums(Tail(i), a), N)
  <2>1. CASE G = {}
    BY <1>1, <2>1, LevelsShrink DEF Chain
  <2>2. CASE G # {}
    <3>1. By(x, a) /\ G = {x.n}
      BY <2>2 DEF x
    <3> QED BY <1>1, <3>1, LevelsTake DEF Chain
  <2> QED BY <2>1, <2>2
<1> QED BY <1>1, <1>2 DEF Chain

\* The author sends one more.
LEMMA ChainSend ==
  ASSUME NEW cv, NEW o, NEW c, NEW H, NEW i, NEW a, NEW N, Chain(cv, o, c, H, i, a, N),
         NEW m \in Op, m.n = N + 1
  PROVE  Chain(cv, o, c, H, Append(i, m), a, N + 1)
<1> DEFINE j == Append(i, m)
<1>1. j \in Seq(Op) /\ Nums(j, a) \subseteq Nums(i, a) \union {n \in Nat : By(m, a) /\ n = m.n}
  BY NumsAppend DEF Chain
<1>2. Rising(j, a)
  <2>1. Below(Nums(i, a), {m.n})
    BY DEF Chain, Levels, Below
  <2> QED BY <2>1, RisingAppend DEF Chain
<1>3. Nums(j, a) \in SUBSET (Nums(i, a) \union {N + 1})
  BY <1>1
<1> HIDE DEF j
<1>4. Levels(On(cv, a), Nums(o, a), Nums(c, a), H, Nums(j, a), N + 1)
  BY <1>3, LevelsSend DEF Chain
<1> QED BY <1>1, <1>2, <1>4 DEF Chain, j

\* An operation that is no stroke of a's changes nothing wherever it goes.
LEMMA ChainForeign ==
  ASSUME NEW cv, NEW o, NEW c, NEW H, NEW i, NEW a, NEW N, Chain(cv, o, c, H, i, a, N),
         NEW x \in Op, ~By(x, a)
  PROVE  /\ Chain(applyRemoteOp(cv, x), o, c, H, i, a, N)
         /\ Chain(cv, Append(o, x), c, H, i, a, N)
         /\ Chain(cv, o, Append(c, x), H, i, a, N)
         /\ Chain(cv, o, c, H, Append(i, x), a, N)
<1>1. ASSUME NEW q \in Seq(Op), Rising(q, a)
      PROVE  /\ Append(q, x) \in Seq(Op) /\ Rising(Append(q, x), a)
             /\ Nums(Append(q, x), a) \subseteq Nums(q, a)
  <2>1. Append(q, x) \in Seq(Op)
    OBVIOUS
  <2>2. Rising(Append(q, x), a)
    BY <1>1, RisingAppend
  <2> QED BY <2>1, <2>2, NumsAppend
<1>2. /\ applyRemoteOp(cv, x) \in Canvases /\ Drawn(applyRemoteOp(cv, x), a)
      /\ On(applyRemoteOp(cv, x), a) \subseteq On(cv, a)
  BY ApplyType, AppliedOn DEF Chain
<1>3. Chain(applyRemoteOp(cv, x), o, c, H, i, a, N)
  <2>1. Levels(On(applyRemoteOp(cv, x), a), Nums(o, a), Nums(c, a), H, Nums(i, a), N)
    BY <1>2, LevelsShrink DEF Chain
  <2> QED BY <1>2, <2>1 DEF Chain
<1>4. Chain(cv, Append(o, x), c, H, i, a, N)
  <2>1. Levels(On(cv, a), Nums(Append(o, x), a), Nums(c, a), H, Nums(i, a), N)
    BY <1>1, LevelsShrink DEF Chain
  <2> QED BY <1>1, <2>1 DEF Chain
<1>5. Chain(cv, o, Append(c, x), H, i, a, N)
  <2>1. Levels(On(cv, a), Nums(o, a), Nums(Append(c, x), a), H, Nums(i, a), N)
    BY <1>1, LevelsShrink DEF Chain
  <2> QED BY <1>1, <2>1 DEF Chain
<1>6. Chain(cv, o, c, H, Append(i, x), a, N)
  <2>1. Levels(On(cv, a), Nums(o, a), Nums(c, a), H, Nums(Append(i, x), a), N)
    BY <1>1, LevelsShrink DEF Chain
  <2> QED BY <1>1, <2>1 DEF Chain
<1> QED BY <1>3, <1>4, <1>5, <1>6
\* The transform changes neither author nor number, and makes no strokes.
Kept(x) ==
  {z \in Op : z.session = x.session /\ z.n = x.n /\ (z.type = "STROKE_END" => x.type = "STROKE_END")}

LEMMA TransformKeeps ==
  ASSUME NEW x \in Op, NEW c \in Seq(Op)
  PROVE  TransformAll(x, c) \in Kept(x)
<1>1. x \in Kept(x) /\ Len(c) \in Nat
  BY DEF Kept
<1>2. \A z \in Kept(x), i \in 1..Len(c) : ot_transform(z, c[i]) \in Kept(x)
  <2> TAKE z \in Kept(x), i \in 1..Len(c)
  <2>1. ot_transform(z, c[i]) \in Op
    BY TransformType DEF Kept
  <2>2. /\ ot_transform(z, c[i]).session = z.session /\ ot_transform(z, c[i]).n = z.n
        /\ ot_transform(z, c[i]).type = "STROKE_END" => z.type = "STROKE_END"
    BY DEF ot_transform, Kept, Op
  <2> QED BY <2>1, <2>2 DEF Kept
<1> QED BY <1>1, <1>2, TransformAllType

\* The stroke the handler of t has in hand, if any.
Hand(t) ==
  {n \in Nat : hpc[t] \in {"ack", "broadcast"} /\ By(cur[t], Token(t[1])) /\ n = cur[t].n}

Ordered(s, t) ==
  Chain(canvas[s[1]], out[s], channel[s], Hand(t), inbox[t], Token(t[1]), sent[t[1]])

OthersOrdered == \A s, t \in Stream : s[1] # t[1] => Ordered(s, t)

OwnOrdered ==
  \A c \in Client : /\ Drawn(canvas[c], Token(c))
                    /\ \A n \in On(canvas[c], Token(c)) : n <= sent[c]

HandSigned == \A t \in Stream : hpc[t] \in {"ack", "broadcast"} => cur[t].session = Token(t[1])

\* The browser recognises a stroke of its own when it comes back by its revision.
\* The bridge writes one that is 0, or there is none: Redis answers.
AlwaysRevised == EmitZero \/ ("refused" \notin Events /\ "redis" \notin Events)

Answered(op) == op.type = "STROKE_END" => HasRevision(op)

AllAnswered ==
  /\ EmitZero \/ redisOk
  /\ \A s \in Stream :
       /\ hpc[s] \in {"ack", "broadcast"} => Answered(cur[s])
       /\ \A i \in 1..Len(channel[s]) : Answered(channel[s][i])
       /\ \A i \in 1..Len(out[s]) : Answered(out[s][i])

\* A handler that has yet to broadcast its first message has the one connecting sent.
Begins ==
  \A s \in Stream : hpc[s] \in {"accept", "greet"} =>
    inbox[s] # <<>> /\ Head(inbox[s]).type = "STROKE_BEGIN"

\* PaintedInOrder, inductive.
IOrder == OthersOrdered /\ OwnOrdered /\ HandSigned /\ AllAnswered /\ Begins

LEMMA OneStream ==
  ASSUME MaxConn = 1, NEW s \in Stream, NEW t \in Stream, s[1] = t[1]
  PROVE  s = t
<1>1. s[2] = 1 /\ t[2] = 1
  BY DEF Stream
<1> QED BY <1>1 DEF Stream

LEMMA InitOrdered == Init => IOrder
<1> SUFFICES ASSUME Init PROVE IOrder
  OBVIOUS
<1>1. IType
  BY InitType
<1>2. ASSUME NEW s \in Stream, NEW t \in Stream PROVE Ordered(s, t)
  <2> DEFINE a == Token(t[1])
             cv == canvas[s[1]]
  <2>1. s[1] \in Client /\ t[1] \in Client
    BY DEF Stream
  <2>2. cv \in Canvases /\ \A l \in DOMAIN cv : cv[l] = <<>>
    BY <1>1, <2>1 DEF IType, Init
  <2>3. Drawn(cv, a) /\ On(cv, a) = {}
    BY <2>2 DEF Drawn, On
  <2>4. out[s] = <<>> /\ channel[s] = <<>> /\ inbox[t] = <<>> /\ sent[t[1]] = 0 /\ Hand(t) = {}
    BY <2>1 DEF Init, Hand
  <2> HIDE DEF cv, a
  <2>5. Levels({}, {}, {}, {}, {}, 0)
    BY DEF Levels, Below
  <2>6. Chain(cv, <<>>, <<>>, {}, <<>>, a, 0)
    <3>1. <<>> \in Seq(Op) /\ Rising(<<>>, a) /\ Nums(<<>>, a) = {}
      BY NothingRises
    <3>2. Levels(On(cv, a), Nums(<<>>, a), Nums(<<>>, a), {}, Nums(<<>>, a), 0)
      BY <2>3, <2>5, <3>1
    <3> QED BY <2>2, <2>3, <3>1, <3>2 DEF Chain
  <2> QED BY <2>4, <2>6 DEF Ordered, cv, a
<1>3. OwnOrdered
  BY DEF Init, OwnOrdered, Drawn, On
<1>4. HandSigned /\ AllAnswered /\ Begins
  BY DEF Init, HandSigned, AllAnswered, Begins
<1> QED BY <1>2, <1>3, <1>4 DEF IOrder, OthersOrdered

\* The hand changes only when the handler takes a message or publishes.
LEMMA HandStays ==
  ASSUME TypeOK, NEW t \in Stream,
         hpc'[t] \in {"ack", "broadcast"} => hpc[t] \in {"ack", "broadcast"} /\ cur'[t] = cur[t]
  PROVE  Hand(t)' \subseteq Hand(t)
BY DEF Hand

LEMMA SteadyOrdered ==
  ASSUME NEW s \in Stream, NEW t \in Stream, Ordered(s, t),
         canvas'[s[1]] = canvas[s[1]], sent'[t[1]] = sent[t[1]],
         out'[s] \in {out[s], <<>>}, channel'[s] \in {channel[s], <<>>},
         inbox'[t] \in {inbox[t], <<>>}, Hand(t)' \subseteq Hand(t)
  PROVE  Ordered(s, t)'
<1>1. Hand(t)' \in SUBSET Hand(t)
  OBVIOUS
<1> QED BY <1>1, ChainStays DEF Ordered

\* The steps that take no message, paint nothing and put nothing in a queue.
LEMMA QuietOrdered ==
  ASSUME TypeOK, OthersOrdered, UNCHANGED <<canvas, sent>>,
         \A s \in Stream :
           /\ hpc'[s] \in {"ack", "broadcast"} => hpc[s] \in {"ack", "broadcast"} /\ cur'[s] = cur[s]
           /\ out'[s] \in {out[s], <<>>} /\ channel'[s] \in {channel[s], <<>>}
           /\ inbox'[s] \in {inbox[s], <<>>}
  PROVE  OthersOrdered'
<1> SUFFICES ASSUME NEW s \in Stream, NEW t \in Stream, s[1] # t[1] PROVE Ordered(s, t)'
  BY DEF OthersOrdered
<1> QED BY HandStays, SteadyOrdered DEF OthersOrdered

LEMMA onMessageOrdered ==
  ASSUME MaxConn = 1, IType, OthersOrdered, NEW u \in Stream, onMessage(u)
  PROVE  OthersOrdered'
<1> SUFFICES ASSUME NEW s \in Stream, NEW t \in Stream, s[1] # t[1] PROVE Ordered(s, t)'
  BY DEF OthersOrdered
<1>1. /\ UNCHANGED <<hpc, cur, inbox, channel, sent>> /\ out[u] # <<>>
      /\ out' = [out EXCEPT ![u] = Tail(@)]
  BY DEF onMessage, handlerVars
<1>2. Hand(t)' = Hand(t) /\ u[1] \in Client
  BY <1>1 DEF Hand, Stream
<1>3. TypeOK /\ canvas \in [Client -> Canvases]
  BY DEF IType
<1> DEFINE c == u[1]
           x == Head(out[u])
           y == TransformPending(x, pendingOps[c])
<1>4. canvas' = canvas \/ canvas' = [canvas EXCEPT ![c] = applyRemoteOp(@, y)]
  BY DEF onMessage, onAck, onRemoteOp
<1>5. x \in Op /\ y \in Kept(x)
  <2>1. x \in Op
    BY <1>1, <1>3, HeadType DEF TypeOK
  <2>2. pendingOps[c] \in Seq(Op)
    BY <1>2, <1>3 DEF TypeOK
  <2> QED BY <2>1, <2>2, TransformKeeps, PendingIsAll
<1> HIDE DEF y
<1>6. CASE s = u
  <2>1. Ordered(s, t) /\ out'[s] = Tail(out[s])
    BY <1>1, <1>3, <1>6 DEF OthersOrdered, TypeOK
  <2>2. y \in Op /\ (By(y, Token(t[1])) => By(Head(out[s]), Token(t[1])) /\ y.n = Head(out[s]).n)
    BY <1>5, <1>6 DEF Kept, By
  <2>3. canvas'[s[1]] \in {canvas[s[1]], applyRemoteOp(canvas[s[1]], y)}
    BY <1>2, <1>3, <1>4, <1>6
  <2>4. /\ Chain(canvas[s[1]], Tail(out[s]), channel[s], Hand(t), inbox[t], Token(t[1]), sent[t[1]])
        /\ Chain(applyRemoteOp(canvas[s[1]], y), Tail(out[s]), channel[s], Hand(t), inbox[t],
                 Token(t[1]), sent[t[1]])
    BY <1>1, <1>6, <2>1, <2>2, ChainPaint DEF Ordered
  <2> QED BY <1>1, <1>2, <2>1, <2>3, <2>4 DEF Ordered
<1>7. CASE s # u
  <2>1. s[1] # u[1]
    BY <1>7, OneStream
  <2>2. canvas'[s[1]] = canvas[s[1]] /\ out'[s] = out[s]
    <3>1. s[1] \in Client
      BY DEF Stream
    <3>2. canvas'[s[1]] = canvas[s[1]]
      BY <1>2, <1>3, <1>4, <2>1, <3>1
    <3> QED BY <1>1, <1>3, <1>7, <3>2 DEF TypeOK
  <2> QED BY <1>1, <1>2, <2>2, SteadyOrdered DEF OthersOrdered
<1> QED BY <1>6, <1>7

\* A handler takes a message in hand.
LEMMA TakingOrdered ==
  ASSUME TypeOK, OthersOrdered, NEW u \in Stream, hpc[u] = "read", inbox[u] # <<>>,
         NEW con \in Seq(Op), NEW r \in Nat, Transformed(u, Head(inbox[u]), con, r)
  PROVE  OthersOrdered'
<1> SUFFICES ASSUME NEW s \in Stream, NEW t \in Stream, s[1] # t[1] PROVE Ordered(s, t)'
  BY DEF OthersOrdered
<1> DEFINE x == Head(inbox[u])
           y == TransformAll(x, con)
<1>1. /\ UNCHANGED <<canvas, sent, out, channel>>
      /\ inbox' = [inbox EXCEPT ![u] = Tail(@)] /\ hpc' = [hpc EXCEPT ![u] = "ack"]
      /\ cur' = [cur EXCEPT ![u] = [y EXCEPT !.rev = r]]
  BY DEF Transformed, clientVars
<1>2. x \in Op /\ y \in Kept(x)
  BY HeadType, TransformKeeps DEF TypeOK
<1> HIDE DEF y
<1>3. /\ [y EXCEPT !.rev = r].type = y.type /\ [y EXCEPT !.rev = r].session = y.session
      /\ [y EXCEPT !.rev = r].n = y.n
  BY <1>2 DEF Kept, Op
<1>4. Ordered(s, t)
  BY DEF OthersOrdered
<1>5. CASE t = u
  <2>1. inbox'[t] = Tail(inbox[t]) /\ cur'[t] = [y EXCEPT !.rev = r]
    BY <1>1, <1>5 DEF TypeOK
  <2>2. Hand(t) = {}
    BY <1>5 DEF Hand
  <2>3. Hand(t)' \in SUBSET {n \in Nat : By(Head(inbox[t]), Token(t[1])) /\ n = Head(inbox[t]).n}
    BY <1>2, <1>3, <1>5, <2>1 DEF Hand, Kept, By
  <2> QED BY <1>1, <1>4, <1>5, <2>1, <2>2, <2>3, ChainTake DEF Ordered
<1>6. CASE t # u
  <2>1. inbox'[t] = inbox[t] /\ hpc'[t] = hpc[t] /\ cur'[t] = cur[t]
    BY <1>1, <1>6 DEF TypeOK
  <2>2. Hand(t)' \subseteq Hand(t)
    BY <2>1 DEF Hand
  <2> QED BY <1>1, <1>4, <2>1, <2>2, SteadyOrdered
<1> QED BY <1>5, <1>6

\* A handler publishes what it has in hand, ...
LEMMA BroadcastOrdered ==
  ASSUME MaxConn = 1, TypeOK, OthersOrdered, HandSigned, NEW u \in Stream, Broadcast(u)
  PROVE  OthersOrdered'
<1> SUFFICES ASSUME NEW s \in Stream, NEW t \in Stream, s[1] # t[1] PROVE Ordered(s, t)'
  BY DEF OthersOrdered
<1> DEFINE x == cur[u]
<1>1. /\ UNCHANGED <<canvas, sent, out, inbox>> /\ hpc' = [hpc EXCEPT ![u] = "read"]
      /\ cur' = [cur EXCEPT ![u] = NoOp] /\ hpc[u] = "broadcast"
  BY DEF Broadcast, clientVars
<1>2. x \in Op /\ x.session = Token(u[1])
  BY <1>1 DEF TypeOK, HandSigned
<1>3. channel'[s] = channel[s] \/ channel'[s] = Append(channel[s], x)
  BY DEF Broadcast, Publish
<1>4. Ordered(s, t)
  BY DEF OthersOrdered
<1>5. CASE t = u
  <2>1. Hand(t)' = {} /\ inbox'[t] = inbox[t]
    BY <1>1, <1>5 DEF Hand, TypeOK
  <2>2. By(x, Token(t[1])) => x.n \in Hand(t)
    BY <1>1, <1>2, <1>5 DEF Hand, Op
  <2>3. CASE channel'[s] = channel[s]
    BY <1>1, <1>4, <2>1, <2>3, SteadyOrdered
  <2>4. CASE channel'[s] = Append(channel[s], x)
    BY <1>1, <1>2, <1>4, <2>1, <2>2, <2>4, ChainPublish DEF Ordered
  <2> QED BY <1>3, <2>3, <2>4
<1>6. CASE t # u
  <2>1. inbox'[t] = inbox[t] /\ Hand(t)' = Hand(t)
    BY <1>1, <1>6 DEF Hand, TypeOK
  <2>2. ~By(x, Token(t[1]))
    BY <1>2, <1>6, OneStream, TokenFacts DEF By
  <2>3. CASE channel'[s] = channel[s]
    BY <1>1, <1>4, <2>1, <2>3, SteadyOrdered
  <2>4. CASE channel'[s] = Append(channel[s], x)
    BY <1>1, <1>2, <1>4, <2>1, <2>2, <2>4, ChainForeign DEF Ordered
  <2> QED BY <1>3, <2>3, <2>4
<1> QED BY <1>5, <1>6

\* ... or a message it has just read.
LEMMA PassingOrdered ==
  ASSUME MaxConn = 1, TypeOK, Signed, OthersOrdered, NEW u \in Stream, inbox[u] # <<>>,
         hpc[u] \in {"greet", "read"}, hpc'[u] = "read",
         \A t \in Stream : t # u => hpc'[t] = hpc[t],
         Publish(project[u], Head(inbox[u])), inbox' = [inbox EXCEPT ![u] = Tail(@)],
         UNCHANGED <<canvas, sent, out, cur>>
  PROVE  OthersOrdered'
<1> SUFFICES ASSUME NEW s \in Stream, NEW t \in Stream, s[1] # t[1] PROVE Ordered(s, t)'
  BY DEF OthersOrdered
<1> DEFINE x == Head(inbox[u])
<1>1. x \in Op /\ x.session = Token(u[1])
  <2>1. inbox[u] \in Seq(Op)
    BY DEF TypeOK
  <2>2. x = inbox[u][1] /\ 1 \in 1..Len(inbox[u]) /\ x \in Op
    BY <2>1
  <2> QED BY <2>2 DEF Signed
<1>2. channel'[s] = channel[s] \/ channel'[s] = Append(channel[s], x)
  BY DEF Publish
<1>3. Ordered(s, t)
  BY DEF OthersOrdered
<1>4. CASE t = u
  <2>1. Hand(t) = {} /\ Hand(t)' = {} /\ inbox'[t] = Tail(inbox[t])
    BY <1>4 DEF Hand, TypeOK
  <2> DEFINE G == {n \in Nat : By(x, Token(t[1])) /\ n = x.n}
  <2>2. G \in SUBSET {n \in Nat : By(Head(inbox[t]), Token(t[1])) /\ n = Head(inbox[t]).n}
    BY <1>4
  <2>3. By(x, Token(t[1])) => x.n \in G
    BY <1>1 DEF Op
  <2> HIDE DEF G, x
  <2>4. Chain(canvas[s[1]], out[s], channel[s], {}, inbox[t], Token(t[1]), sent[t[1]])
    BY <1>3, <2>1 DEF Ordered
  <2>5. Chain(canvas[s[1]], out[s], channel[s], G, Tail(inbox[t]), Token(t[1]), sent[t[1]])
    BY <1>4, <2>2, <2>4, ChainTake
  <2>6. CASE channel'[s] = channel[s]
    <3>1. Chain(canvas[s[1]], out[s], channel[s], {}, Tail(inbox[t]), Token(t[1]), sent[t[1]])
      BY <2>5, ChainStays
    <3> QED BY <2>1, <2>6, <3>1 DEF Ordered
  <2>7. CASE channel'[s] = Append(channel[s], x)
    <3>1. Chain(canvas[s[1]], out[s], Append(channel[s], x), {}, Tail(inbox[t]), Token(t[1]),
                sent[t[1]])
      BY <1>1, <2>3, <2>5, ChainPublish
    <3> QED BY <2>1, <2>7, <3>1 DEF Ordered
  <2> QED BY <1>2, <2>6, <2>7
<1>5. CASE t # u
  <2>1. inbox'[t] = inbox[t] /\ Hand(t)' = Hand(t)
    BY <1>5 DEF Hand, TypeOK
  <2>2. ~By(x, Token(t[1]))
    BY <1>1, <1>5, OneStream, TokenFacts DEF By
  <2>3. CASE channel'[s] = channel[s]
    BY <1>3, <2>1, <2>3, SteadyOrdered
  <2>4. CASE channel'[s] = Append(channel[s], x)
    BY <1>1, <1>3, <2>1, <2>2, <2>4, ChainForeign DEF Ordered
  <2> QED BY <1>2, <2>3, <2>4
<1> QED BY <1>4, <1>5

\* The sender alone is acknowledged.
LEMMA AckOrdered ==
  ASSUME MaxConn = 1, TypeOK, OthersOrdered, HandSigned, NEW u \in Stream, Ack(u)
  PROVE  OthersOrdered'
<1> SUFFICES ASSUME NEW s \in Stream, NEW t \in Stream, s[1] # t[1] PROVE Ordered(s, t)'
  BY DEF OthersOrdered
<1>1. /\ UNCHANGED <<canvas, sent, channel, inbox, cur>> /\ hpc' = [hpc EXCEPT ![u] = "broadcast"]
      /\ hpc[u] = "ack"
  BY DEF Ack, clientVars
<1>2. cur[u] \in Op /\ cur[u].session = Token(u[1])
  BY <1>1 DEF TypeOK, HandSigned
<1>3. \/ out'[s] = out[s]
      \/ s = u /\ out'[s] = Append(out[s], cur[u])
  BY DEF Ack, Enqueue, TypeOK
<1>4. Ordered(s, t)
  BY DEF OthersOrdered
<1>5. Hand(t)' = Hand(t)
  BY <1>1 DEF Hand, TypeOK
<1>6. CASE out'[s] = out[s]
  BY <1>1, <1>4, <1>5, <1>6, SteadyOrdered
<1>7. CASE s = u /\ out'[s] = Append(out[s], cur[u])
  <2>1. ~By(cur[u], Token(t[1]))
    BY <1>2, <1>7, TokenFacts DEF By
  <2> QED BY <1>1, <1>2, <1>4, <1>5, <1>7, <2>1, ChainForeign DEF Ordered
<1> QED BY <1>3, <1>6, <1>7

LEMMA DeliverOrdered ==
  ASSUME TypeOK, OthersOrdered, NEW u \in Stream, Deliver(u)
  PROVE  OthersOrdered'
<1> SUFFICES ASSUME NEW s \in Stream, NEW t \in Stream, s[1] # t[1] PROVE Ordered(s, t)'
  BY DEF OthersOrdered
<1>1. UNCHANGED <<canvas, sent, inbox, cur, hpc>> /\ channel[u] # <<>>
      /\ channel' = [channel EXCEPT ![u] = Tail(@)]
  BY DEF Deliver, clientVars, handlerVars
<1>2. \/ out'[s] = out[s]
      \/ s = u /\ out'[s] = Append(out[s], Head(channel[s]))
  BY DEF Deliver, Enqueue, TypeOK
<1>3. Ordered(s, t) /\ Hand(t)' = Hand(t)
  BY <1>1 DEF OthersOrdered, Hand
<1>4. CASE s = u
  <2>1. channel'[s] = Tail(channel[s]) /\ channel[s] # <<>>
    BY <1>1, <1>4 DEF TypeOK
  <2> QED BY <1>1, <1>2, <1>3, <2>1, ChainDeliver DEF Ordered
<1>5. CASE s # u
  BY <1>1, <1>2, <1>3, <1>5, SteadyOrdered DEF TypeOK
<1> QED BY <1>4, <1>5
LEMMA UserOrdered ==
  ASSUME MaxConn = 1, IType, Fresh, OthersOrdered, NEW c \in Client, User(c)
  PROVE  OthersOrdered'
<1> USE DEF IType
<1>1. ASSUME NEW p \in Project, connect(c, p) PROVE OthersOrdered'
  <2> SUFFICES ASSUME NEW s \in Stream, NEW t \in Stream, s[1] # t[1] PROVE Ordered(s, t)'
    BY DEF OthersOrdered
  <2> DEFINE u == <<c, conns[c] + 1>>
             m == Message(c, "STROKE_BEGIN", NoLayer, 0, 0)
  <2>1. /\ inbox' = [inbox EXCEPT ![u] = <<m>>] /\ hpc' = [hpc EXCEPT ![u] = "accept"]
        /\ UNCHANGED <<canvas, sent, out, channel, cur>>
    BY <1>1 DEF connect, clientVars
  <2>2. u \in Stream
    <3>1. conns[c] < MaxConn
      BY <1>1 DEF connect
    <3>2. conns[c] \in 0..MaxConn /\ MaxConn \in Nat
      BY CollabAssumption DEF TypeOK
    <3>3. conns[c] + 1 \in 1..MaxConn
      BY <3>1, <3>2
    <3> QED BY <3>3 DEF Stream
  <2>3. m \in Op /\ ~By(m, Token(t[1]))
    <3>1. m \in Op
      BY MessageType DEF UpdateType, Ephemeral
    <3> QED BY <3>1 DEF Message, By
  <2> HIDE DEF u, m
  <2>4. Ordered(s, t)
    BY DEF OthersOrdered
  <2>5. Hand(t)' \subseteq Hand(t)
    BY <2>1, <2>2 DEF Hand, TypeOK
  <2>6. CASE t # u
    BY <2>1, <2>4, <2>5, <2>6, SteadyOrdered DEF TypeOK
  <2>7. CASE t = u
    <3>1. inbox'[t] = <<m>>
      BY <2>1, <2>2, <2>7 DEF TypeOK
    <3>2. Chain(canvas[s[1]], out[s], channel[s], Hand(t)', <<>>, Token(t[1]), sent[t[1]])
      BY <2>4, <2>5, ChainStays DEF Ordered
    <3>3. Append(<<>>, m) = <<m>>
      OBVIOUS
    <3>4. Chain(canvas[s[1]], out[s], channel[s], Hand(t)', <<m>>, Token(t[1]), sent[t[1]])
      BY <2>3, <3>2, <3>3, ChainForeign
    <3> QED BY <2>1, <3>1, <3>4 DEF Ordered
  <2> QED BY <2>6, <2>7
<1>2. CASE disconnect(c)
  <2>1. /\ UNCHANGED <<canvas, sent, hpc, cur, inbox, channel>>
        /\ out' = [out EXCEPT ![ws(c)] = <<>>]
    BY <1>2 DEF disconnect, handlerVars, clientVars
  <2>2. \A s \in Stream : out'[s] \in {out[s], <<>>}
    BY <2>1 DEF TypeOK
  <2> QED BY <2>1, <2>2, QuietOrdered
<1>3. CASE send(c)
  <2> SUFFICES ASSUME NEW s \in Stream, NEW t \in Stream, s[1] # t[1] PROVE Ordered(s, t)'
    BY DEF OthersOrdered
  <2>1. PICK type \in Kinds, layer \in DOMAIN canvas[c] \union {NoLayer} :
          LET m == Message(c, type, layer, sent[c] + 1, localRevision[c]) IN
            /\ canvas' = [canvas EXCEPT ![c] = applyRemoteOp(@, m)]
            /\ inbox' = [inbox EXCEPT ![ws(c)] = Append(@, m)]
            /\ sent' = [sent EXCEPT ![c] = @ + 1]
    BY <1>3 DEF send
  <2> DEFINE u == ws(c)
             m == Message(c, type, layer, sent[c] + 1, localRevision[c])
  <2>2. u \in Stream /\ u[1] = c
    BY <1>3 DEF send, Connected, ws, Stream, TypeOK
  <2>3. m \in Op /\ m.session = Token(c) /\ m.n = sent[c] + 1
    <3>1. /\ sent[c] + 1 \in Nat /\ localRevision[c] \in Nat /\ layer \in Layer \union {NoLayer}
          /\ type \in UpdateType
      BY CollabAssumption DEF TypeOK
    <3>2. m \in Op
      BY <3>1, MessageType
    <3> QED BY <3>2 DEF Message
  <2>4. /\ canvas' = [canvas EXCEPT ![c] = applyRemoteOp(@, m)]
        /\ inbox' = [inbox EXCEPT ![u] = Append(@, m)]
        /\ sent' = [sent EXCEPT ![c] = @ + 1]
        /\ UNCHANGED <<hpc, cur, channel, out>>
    BY <1>3, <2>1 DEF send, handlerVars
  <2> HIDE DEF u, m
  <2>5. Ordered(s, t) /\ Hand(t)' = Hand(t) /\ s[1] \in Client /\ t[1] \in Client
    BY <2>4 DEF OthersOrdered, Hand, Stream
  <2>6. CASE t[1] = c
    <3>1. t = u
      BY <2>2, <2>6, OneStream
    <3>2. canvas'[s[1]] = canvas[s[1]] /\ inbox'[t] = Append(inbox[t], m)
          /\ sent'[t[1]] = sent[t[1]] + 1 /\ m.n = sent[t[1]] + 1
      BY <2>2, <2>3, <2>4, <2>5, <2>6, <3>1 DEF TypeOK
    <3> QED BY <2>3, <2>4, <2>5, <3>2, ChainSend DEF Ordered
  <2>7. CASE t[1] # c
    <3>1. inbox'[t] = inbox[t] /\ sent'[t[1]] = sent[t[1]]
      BY <2>2, <2>4, <2>5, <2>7 DEF TypeOK
    <3>2. canvas'[s[1]] \in {canvas[s[1]], applyRemoteOp(canvas[s[1]], m)}
      BY <2>4, <2>5
    <3>3. ~By(m, Token(t[1]))
      BY <2>3, <2>7, TokenFacts DEF By
    <3>4. Chain(applyRemoteOp(canvas[s[1]], m), out[s], channel[s], Hand(t), inbox[t],
                Token(t[1]), sent[t[1]])
      BY <2>3, <2>5, <3>3, ChainForeign DEF Ordered
    <3> QED BY <2>4, <2>5, <3>1, <3>2, <3>4 DEF Ordered
  <2> QED BY <2>6, <2>7
<1> QED BY <1>1, <1>2, <1>3 DEF User

LEMMA HandlerOrdered ==
  ASSUME MaxConn = 1, IType, Signed, HandSigned, OthersOrdered,
         NEW s \in Stream, Handler(s) \/ LoseSubscriber(s)
  PROVE  OthersOrdered'
<1> USE DEF IType
<1>1. CASE Join(s) \/ LoseSubscriber(s)
  <2>1. /\ UNCHANGED <<canvas, sent, cur, inbox, out>>
        /\ channel' = channel \/ channel' = [channel EXCEPT ![s] = <<>>]
        /\ hpc' = hpc \/ hpc' = [hpc EXCEPT ![s] = "greet"]
    BY <1>1 DEF Join, LoseSubscriber, queueVars, clientVars
  <2>2. \A t \in Stream : hpc'[t] \in {"ack", "broadcast"} => hpc[t] \in {"ack", "broadcast"}
    BY <2>1 DEF TypeOK
  <2>3. \A t \in Stream : channel'[t] \in {channel[t], <<>>}
    BY <2>1 DEF TypeOK
  <2> QED BY <2>1, <2>2, <2>3, QuietOrdered
<1>2. CASE Reject(s) \/ Leave(s)
  <2>1. /\ UNCHANGED <<canvas, sent, cur, out>>
        /\ channel' = channel \/ channel' = [channel EXCEPT ![s] = <<>>]
        /\ inbox' = [inbox EXCEPT ![s] = <<>>]
        /\ hpc' = [hpc EXCEPT ![s] = "done"]
    BY <1>2 DEF Reject, Leave, clientVars
  <2>2. \A t \in Stream : hpc'[t] \in {"ack", "broadcast"} => hpc[t] \in {"ack", "broadcast"}
    BY <2>1 DEF TypeOK
  <2>3. \A t \in Stream : channel'[t] \in {channel[t], <<>>} /\ inbox'[t] \in {inbox[t], <<>>}
    BY <2>1 DEF TypeOK
  <2> QED BY <2>1, <2>2, <2>3, QuietOrdered
<1>3. CASE Greet(s)
  <2>1. inbox[s] # <<>> /\ hpc[s] = "greet" /\ hpc'[s] = "read"
        /\ \A t \in Stream : t # s => hpc'[t] = hpc[t]
    BY <1>3 DEF Greet, Greeting, TypeOK
  <2>2. UNCHANGED <<canvas, sent, out, cur>>
    BY <1>3 DEF Greet, clientVars
  <2>3. Publish(project[s], Head(inbox[s])) /\ inbox' = [inbox EXCEPT ![s] = Tail(@)]
    BY <1>3 DEF Greet
  <2> QED BY <2>1, <2>2, <2>3, PassingOrdered
<1>4. CASE Forward(s)
  <2>1. inbox[s] # <<>> /\ hpc[s] = "read" /\ hpc'[s] = "read"
        /\ \A t \in Stream : t # s => hpc'[t] = hpc[t]
    BY <1>4 DEF Forward, Reading, handlerVars
  <2>2. UNCHANGED <<canvas, sent, out, cur>>
    BY <1>4 DEF Forward, handlerVars, clientVars
  <2>3. Publish(project[s], Head(inbox[s])) /\ inbox' = [inbox EXCEPT ![s] = Tail(@)]
    BY <1>4 DEF Forward
  <2> QED BY <2>1, <2>2, <2>3, PassingOrdered
<1>5. CASE Commit(s) \/ CommitFails(s) \/ ReplyLost(s)
  <2>1. Reading(s)
    BY <1>5 DEF Commit, CommitFails, ReplyLost
  <2>2. log[project[s]] \in Seq(Op) /\ Head(inbox[s]).base \in Nat
    <3>1. Head(inbox[s]) \in Op
      BY <2>1, HeadType DEF Reading, TypeOK
    <3> QED BY <2>1, <3>1 DEF Reading, TypeOK, Op
  <2>3. Concurrent(log[project[s]], Head(inbox[s]).base) \in Seq(Op)
        /\ Len(log[project[s]]) + 1 \in Nat /\ <<>> \in Seq(Op)
    BY <2>2 DEF Concurrent
  <2>4. \E con \in Seq(Op), r \in Nat : Transformed(s, Head(inbox[s]), con, r)
    BY <1>5, <2>3 DEF Commit, CommitFails, ReplyLost
  <2> QED BY <2>1, <2>4, TakingOrdered DEF Reading
<1>6. CASE Ack(s)
  BY <1>6, AckOrdered
<1>7. CASE Broadcast(s)
  BY <1>7, BroadcastOrdered
<1> QED BY <1>1, <1>2, <1>3, <1>4, <1>5, <1>6, <1>7 DEF Handler

\* One's own strokes: painted when drawn, and recognised when they come back.
LEMMA NextOwn ==
  ASSUME MaxConn = 1, AlwaysRevised, IType, AllAnswered, OwnOrdered, [Next]_vars
  PROVE  OwnOrdered'
<1> USE DEF IType
<1>1. ASSUME UNCHANGED <<canvas, sent>> PROVE OwnOrdered'
  BY <1>1 DEF OwnOrdered
<1>2. ASSUME NEW c \in Client, send(c) PROVE OwnOrdered'
  <2>1. PICK type \in Kinds, layer \in DOMAIN canvas[c] \union {NoLayer} :
          LET m == Message(c, type, layer, sent[c] + 1, localRevision[c]) IN
            /\ canvas' = [canvas EXCEPT ![c] = applyRemoteOp(@, m)]
            /\ sent' = [sent EXCEPT ![c] = @ + 1]
    BY <1>2 DEF send
  <2> DEFINE m == Message(c, type, layer, sent[c] + 1, localRevision[c])
             a == Token(c)
  <2>2. m \in Op /\ m.n = sent[c] + 1
    <3>1. /\ sent[c] + 1 \in Nat /\ localRevision[c] \in Nat /\ layer \in Layer \union {NoLayer}
          /\ type \in UpdateType
      BY CollabAssumption DEF TypeOK
    <3>2. m \in Op
      BY <3>1, MessageType
    <3> QED BY <3>2 DEF Message
  <2>3. /\ canvas'[c] = applyRemoteOp(canvas[c], m) /\ sent'[c] = sent[c] + 1
        /\ \A d \in Client : d # c => canvas'[d] = canvas[d] /\ sent'[d] = sent[d]
    BY <2>1 DEF TypeOK
  <2> HIDE DEF m, a
  <2>4. Drawn(canvas[c], a) /\ \A n \in On(canvas[c], a) : n \in Nat /\ n <= sent[c]
    BY DEF OwnOrdered, a, On
  <2>5. sent[c] \in Nat /\ canvas[c] \in Canvases
    BY DEF TypeOK
  <2>6. On(canvas'[c], a) \subseteq On(canvas[c], a) \union {n \in Nat : By(m, a) /\ n = m.n}
    BY <2>2, <2>3, <2>5, AppliedOn
  <2>7. Drawn(canvas'[c], a)
    <3>1. Below(On(canvas[c], a), {m.n})
      BY <2>2, <2>4, <2>5 DEF Below
    <3> QED BY <2>2, <2>3, <2>4, <2>5, <3>1, AppliedOn
  <2>8. \A n \in On(canvas'[c], a) : n <= sent'[c]
    <3> TAKE n \in On(canvas'[c], a)
    <3>1. n \in On(canvas[c], a) \/ n = m.n
      BY <2>6
    <3> QED BY <2>2, <2>3, <2>4, <2>5, <3>1
  <2> QED BY <2>3, <2>7, <2>8 DEF OwnOrdered, a
<1>3. ASSUME NEW s \in Stream, onMessage(s) PROVE OwnOrdered'
  <2> DEFINE c == s[1]
             x == Head(out[s])
             y == TransformPending(x, pendingOps[c])
             a == Token(c)
  <2>1. c \in Client /\ sent' = sent /\ out[s] # <<>>
    BY <1>3 DEF onMessage, Stream
  <2>2. /\ x \in Op /\ Answered(x)
    <3>1. out[s] \in Seq(Op)
      BY DEF TypeOK
    <3>2. x = out[s][1] /\ 1 \in 1..Len(out[s]) /\ x \in Op
      BY <2>1, <3>1
    <3> QED BY <3>2 DEF AllAnswered
  <2>3. y \in Kept(x)
    <3>1. pendingOps[c] \in Seq(Op)
      BY <2>1 DEF TypeOK
    <3> QED BY <2>2, <3>1, TransformKeeps, PendingIsAll
  <2>4. \/ canvas' = canvas
        \/ ~IsAck(c, x) /\ canvas' = [canvas EXCEPT ![c] = applyRemoteOp(@, y)]
    BY <1>3 DEF onMessage, onAck, onRemoteOp
  <2> HIDE DEF c, x, y
  <2>5. CASE canvas' = canvas
    BY <1>1, <2>1, <2>5
  <2>6. CASE ~IsAck(c, x) /\ canvas' = [canvas EXCEPT ![c] = applyRemoteOp(@, y)]
    <3>1. ~By(y, a)
      BY <2>2, <2>3, <2>6 DEF Kept, By, IsAck, Answered
    <3>2. y \in Op
      BY <2>3 DEF Kept
    <3>3. canvas'[c] = applyRemoteOp(canvas[c], y)
          /\ \A d \in Client : d # c => canvas'[d] = canvas[d]
      BY <2>1, <2>6
    <3>4. Drawn(canvas[c], a) /\ \A n \in On(canvas[c], a) : n <= sent[c]
      BY <2>1 DEF OwnOrdered
    <3> HIDE DEF a
    <3>5. Drawn(canvas'[c], a) /\ On(canvas'[c], a) \subseteq On(canvas[c], a)
      BY <2>1, <3>1, <3>2, <3>3, <3>4, AppliedOn
    <3> QED BY <2>1, <3>3, <3>4, <3>5 DEF OwnOrdered, a
  <2> QED BY <2>4, <2>5, <2>6
<1>4. ASSUME NEW c \in Client, NEW p \in Project, connect(c, p) \/ disconnect(c)
      PROVE  UNCHANGED <<canvas, sent>>
  BY <1>4 DEF connect, disconnect, clientVars
<1>5. ASSUME NEW c \in Client, disconnect(c) PROVE UNCHANGED <<canvas, sent>>
  BY <1>5 DEF disconnect, clientVars
<1>6. ASSUME NEW s \in Stream, Handler(s) \/ Deliver(s) \/ LoseSubscriber(s)
      PROVE  UNCHANGED <<canvas, sent>>
  BY <1>6 DEF Handler, Join, Reject, Greet, Forward, Commit, CommitFails, ReplyLost, Transformed,
              Ack, Broadcast, Leave, Deliver, LoseSubscriber, clientVars
<1>7. LoseRedis \/ Crash \/ UNCHANGED vars => UNCHANGED <<canvas, sent>>
  BY DEF LoseRedis, Crash, vars, clientVars
<1> QED BY <1>1, <1>2, <1>3, <1>4, <1>5, <1>6, <1>7 DEF Next, User
LEMMA NextHand ==
  ASSUME IType, Signed, HandSigned, [Next]_vars
  PROVE  HandSigned'
<1> USE DEF IType
<1>1. ASSUME \A t \in Stream : hpc'[t] \in {"ack", "broadcast"} =>
                hpc[t] \in {"ack", "broadcast"} /\ cur'[t] = cur[t]
      PROVE  HandSigned'
  BY <1>1 DEF HandSigned
<1>2. ASSUME NEW c \in Client, User(c) PROVE HandSigned'
  <2>1. cur' = cur /\ (hpc' = hpc \/ \E s \in Stream : hpc' = [hpc EXCEPT ![s] = "accept"])
    <3>1. ASSUME NEW p \in Project, connect(c, p)
          PROVE  cur' = cur /\ \E s \in Stream : hpc' = [hpc EXCEPT ![s] = "accept"]
      <4>1. <<c, conns[c] + 1>> \in Stream
        BY <3>1, CollabAssumption DEF connect, Stream, TypeOK
      <4> QED BY <3>1, <4>1 DEF connect
    <3> QED BY <1>2, <3>1 DEF User, disconnect, send, handlerVars
  <2> QED BY <1>1, <2>1 DEF TypeOK
<1>3. ASSUME NEW s \in Stream, Commit(s) \/ CommitFails(s) \/ ReplyLost(s) PROVE HandSigned'
  <2> DEFINE x == Head(inbox[s])
  <2>1. Reading(s) /\ \E con, r : Transformed(s, x, con, r) /\ con \in Seq(Op) /\ r \in Nat
    <3>1. Reading(s)
      BY <1>3 DEF Commit, CommitFails, ReplyLost
    <3>2. log[project[s]] \in Seq(Op) /\ x.base \in Nat
      <4>1. x \in Op
        BY <3>1, HeadType DEF Reading, TypeOK
      <4> QED BY <3>1, <4>1 DEF Reading, TypeOK, Op
    <3>3. Concurrent(log[project[s]], x.base) \in Seq(Op)
          /\ Len(log[project[s]]) + 1 \in Nat /\ <<>> \in Seq(Op)
      BY <3>2 DEF Concurrent
    <3> QED BY <1>3, <3>1, <3>3 DEF Commit, CommitFails, ReplyLost
  <2>2. PICK con, r : Transformed(s, x, con, r) /\ con \in Seq(Op) /\ r \in Nat
    BY <2>1
  <2>3. x \in Op /\ x.session = Token(s[1])
    <3>1. inbox[s] \in Seq(Op) /\ inbox[s] # <<>>
      BY <2>1 DEF Reading, TypeOK
    <3>2. x = inbox[s][1] /\ 1 \in 1..Len(inbox[s]) /\ x \in Op
      BY <3>1
    <3> QED BY <3>2 DEF Signed
  <2>4. TransformAll(x, con) \in Kept(x)
    BY <2>2, <2>3, TransformKeeps
  <2>5. [TransformAll(x, con) EXCEPT !.rev = r].session = x.session
    BY <2>4 DEF Kept, Op
  <2>6. cur'[s] = [TransformAll(x, con) EXCEPT !.rev = r]
        /\ \A t \in Stream : t # s => cur'[t] = cur[t] /\ hpc'[t] = hpc[t]
    BY <2>2 DEF Transformed, TypeOK
  <2> QED BY <2>3, <2>5, <2>6 DEF HandSigned
<1>4. ASSUME NEW s \in Stream, Ack(s) PROVE HandSigned'
  <2>1. cur' = cur /\ hpc[s] = "ack" /\ hpc' = [hpc EXCEPT ![s] = "broadcast"]
    BY <1>4 DEF Ack
  <2> QED BY <1>1, <2>1 DEF TypeOK
<1>5. ASSUME NEW s \in Stream, Broadcast(s) PROVE HandSigned'
  <2>1. cur' = [cur EXCEPT ![s] = NoOp] /\ hpc' = [hpc EXCEPT ![s] = "read"]
    BY <1>5 DEF Broadcast
  <2> QED BY <1>1, <2>1 DEF TypeOK
<1>6. ASSUME NEW s \in Stream, Join(s) \/ Reject(s) \/ Greet(s) \/ Forward(s) \/ Leave(s)
      PROVE  HandSigned'
  <2>1. cur' = cur /\ (hpc' = hpc \/ \E h \in {"greet", "done", "read"} :
                                         hpc' = [hpc EXCEPT ![s] = h])
    BY <1>6 DEF Join, Reject, Greet, Forward, Leave, handlerVars
  <2> QED BY <1>1, <2>1 DEF TypeOK
<1>7. CASE Crash
  BY <1>1, <1>7 DEF Crash
<1>8. CASE \/ \E s \in Stream : onMessage(s) \/ Deliver(s) \/ LoseSubscriber(s)
           \/ LoseRedis \/ UNCHANGED vars
  <2>1. UNCHANGED <<hpc, cur>>
    BY <1>8 DEF onMessage, Deliver, LoseSubscriber, LoseRedis, vars, handlerVars
  <2> QED BY <1>1, <2>1
<1> QED BY <1>2, <1>3, <1>4, <1>5, <1>6, <1>7, <1>8 DEF Next, Handler

AllIn(q) == \A i \in 1..Len(q) : Answered(q[i])

LEMMA AllInFacts ==
  ASSUME NEW q \in Seq(Op), AllIn(q)
  PROVE  /\ \A x \in Op : Answered(x) => AllIn(Append(q, x))
         /\ q # <<>> => AllIn(Tail(q)) /\ Answered(Head(q))
         /\ AllIn(<<>>)
<1>1. ASSUME NEW x \in Op, Answered(x) PROVE AllIn(Append(q, x))
  BY <1>1 DEF AllIn
<1>2. ASSUME q # <<>> PROVE AllIn(Tail(q)) /\ Answered(Head(q))
  <2>1. \A i \in 1..Len(Tail(q)) : i + 1 \in 1..Len(q) /\ Tail(q)[i] = q[i + 1]
    BY <1>2, TailShifts
  <2>2. Head(q) = q[1] /\ 1 \in 1..Len(q)
    BY <1>2
  <2> QED BY <2>1, <2>2 DEF AllIn
<1> QED BY <1>1, <1>2 DEF AllIn

\* With a bridge that writes every revision there is nothing to show.
LEMMA NextAnswered ==
  ASSUME AlwaysRevised, IType, Begins, AllAnswered, [Next]_vars
  PROVE  AllAnswered'
<1> USE DEF IType
<1>1. CASE EmitZero
  BY <1>1 DEF AllAnswered, Answered, HasRevision
<1> SUFFICES ASSUME ~EmitZero PROVE AllAnswered'
  BY <1>1
<1>2. redisOk /\ "refused" \notin Events /\ "redis" \notin Events
  BY DEF AllAnswered, AlwaysRevised
<1>3. /\ \A s \in Stream : hpc[s] \in {"ack", "broadcast"} => Answered(cur[s]) /\ cur[s] \in Op
      /\ \A s \in Stream : channel[s] \in Seq(Op) /\ AllIn(channel[s])
      /\ \A s \in Stream : out[s] \in Seq(Op) /\ AllIn(out[s])
  BY DEF AllAnswered, TypeOK, AllIn
<1>4. redisOk'
  BY <1>2 DEF Next, User, connect, disconnect, send, onMessage, Handler, Join, Reject, Greet,
         Forward, Commit, CommitFails, ReplyLost, Ack, Broadcast, Leave, Deliver, LoseSubscriber,
         LoseRedis, Crash, vars, redisVars
<1>5. SUFFICES ASSUME NEW s \in Stream
               PROVE  /\ hpc'[s] \in {"ack", "broadcast"} => Answered(cur'[s])
                      /\ AllIn(channel'[s]) /\ AllIn(out'[s])
  BY <1>4 DEF AllAnswered, AllIn, Answered, HasRevision
<1> DEFINE Goal == /\ hpc'[s] \in {"ack", "broadcast"} => Answered(cur'[s])
                   /\ AllIn(channel'[s]) /\ AllIn(out'[s])
<1>6. ASSUME hpc'[s] \in {"ack", "broadcast"} => hpc[s] \in {"ack", "broadcast"} /\ cur'[s] = cur[s],
             \/ channel'[s] \in {channel[s], <<>>}
             \/ channel[s] # <<>> /\ channel'[s] = Tail(channel[s])
             \/ \E x \in Op : Answered(x) /\ channel'[s] = Append(channel[s], x),
             \/ out'[s] \in {out[s], <<>>}
             \/ out[s] # <<>> /\ out'[s] = Tail(out[s])
             \/ \E x \in Op : Answered(x) /\ out'[s] = Append(out[s], x)
      PROVE  Goal
  <2>1. AllIn(channel'[s])
    BY <1>3, <1>6, AllInFacts
  <2>2. AllIn(out'[s])
    BY <1>3, <1>6, AllInFacts
  <2> QED BY <1>3, <1>6, <2>1, <2>2
<1> HIDE DEF Goal
<1>7. ASSUME NEW c \in Client, User(c) PROVE Goal
  <2>1. /\ UNCHANGED <<cur, channel>>
        /\ out' = out \/ out' = [out EXCEPT ![ws(c)] = <<>>]
        /\ hpc' = hpc \/ \E u \in Stream : hpc' = [hpc EXCEPT ![u] = "accept"]
    <3>1. ASSUME NEW p \in Project, connect(c, p)
          PROVE  UNCHANGED <<cur, channel, out>> /\ \E u \in Stream : hpc' = [hpc EXCEPT ![u] = "accept"]
      <4>1. <<c, conns[c] + 1>> \in Stream
        BY <3>1, CollabAssumption DEF connect, Stream, TypeOK
      <4> QED BY <3>1, <4>1 DEF connect
    <3> QED BY <1>7, <3>1 DEF User, disconnect, send, handlerVars
  <2>2. out'[s] \in {out[s], <<>>}
    BY <2>1 DEF TypeOK
  <2>3. hpc'[s] \in {"ack", "broadcast"} => hpc[s] \in {"ack", "broadcast"}
    BY <2>1 DEF TypeOK
  <2> QED BY <1>6, <2>1, <2>2, <2>3
<1>8. ASSUME NEW u \in Stream, onMessage(u) PROVE Goal
  <2>1. /\ UNCHANGED <<hpc, cur, channel>> /\ out[u] # <<>>
        /\ out' = [out EXCEPT ![u] = Tail(@)]
    BY <1>8 DEF onMessage, handlerVars
  <2>2. out'[s] = out[s] \/ (out[s] # <<>> /\ out'[s] = Tail(out[s]))
    BY <2>1 DEF TypeOK
  <2> QED BY <1>6, <2>1, <2>2
<1>9. ASSUME NEW u \in Stream, Commit(u) PROVE Goal
  <2> DEFINE x == Head(inbox[u])
             lg == log[project[u]]
             y == TransformAll(x, Concurrent(lg, x.base))
             r == Len(lg) + 1
  <2>1. hpc[u] = "read" /\ inbox[u] # <<>> /\ Transformed(u, x, Concurrent(lg, x.base), r)
    BY <1>9 DEF Commit, Reading
  <2>2. lg \in Seq(Op) /\ x \in Op /\ x.base \in Nat
    <3>1. x \in Op
      BY <2>1, HeadType DEF TypeOK
    <3> QED BY <2>1, <3>1 DEF TypeOK, Op
  <2>3. y \in Op /\ r # 0
    <3>1. Concurrent(lg, x.base) \in Seq(Op)
      BY <2>2 DEF Concurrent
    <3> QED BY <2>2, <3>1, TransformKeeps DEF Kept
  <2>4. /\ cur' = [cur EXCEPT ![u] = [y EXCEPT !.rev = r]] /\ hpc' = [hpc EXCEPT ![u] = "ack"]
        /\ UNCHANGED <<channel, out>>
    BY <2>1 DEF Transformed
  <2> HIDE DEF y, r, x, lg
  <2>5. [y EXCEPT !.rev = r].rev # 0
    BY <2>3 DEF Op
  <2>6. hpc'[s] \in {"ack", "broadcast"} => Answered(cur'[s])
    BY <1>3, <2>4, <2>5 DEF TypeOK, Answered, HasRevision
  <2> QED BY <1>3, <2>4, <2>6 DEF Goal
<1>10. ASSUME NEW u \in Stream, CommitFails(u) \/ ReplyLost(u) PROVE FALSE
  BY <1>2, <1>10 DEF CommitFails, ReplyLost
<1>11. ASSUME NEW u \in Stream, Greet(u) \/ Forward(u) PROVE Goal
  <2> DEFINE x == Head(inbox[u])
  <2>1. inbox[u] # <<>>
    BY <1>11 DEF Greet, Forward, Reading, Greeting
  <2>2. UNCHANGED <<cur, out>> /\ Publish(project[u], x)
        /\ (hpc' = hpc \/ hpc' = [hpc EXCEPT ![u] = "read"])
    BY <1>11 DEF Greet, Forward, handlerVars
  <2>3. x \in Op
    BY <2>1, HeadType DEF TypeOK
  <2>4. Answered(x)
    <3>1. CASE Forward(u)
      BY <3>1 DEF Forward, Answered, needs_ot, Mutating
    <3>2. CASE Greet(u)
      BY <3>2 DEF Greet, Begins, Answered
    <3> QED BY <1>11, <3>1, <3>2
  <2>5. channel'[s] = channel[s] \/ channel'[s] = Append(channel[s], x)
    BY <2>2 DEF Publish
  <2>6. hpc'[s] \in {"ack", "broadcast"} => hpc[s] \in {"ack", "broadcast"}
    BY <2>2 DEF TypeOK
  <2> QED BY <1>6, <2>2, <2>3, <2>4, <2>5, <2>6
<1>12. ASSUME NEW u \in Stream, Ack(u) PROVE Goal
  <2>1. /\ hpc[u] = "ack" /\ UNCHANGED <<cur, channel>> /\ Enqueue(u, cur[u])
        /\ hpc' = [hpc EXCEPT ![u] = "broadcast"]
    BY <1>12 DEF Ack
  <2>2. out'[s] = out[s] \/ out'[s] = Append(out[s], cur[u])
    BY <2>1 DEF Enqueue, TypeOK
  <2>3. hpc'[s] \in {"ack", "broadcast"} => hpc[s] \in {"ack", "broadcast"}
    BY <2>1 DEF TypeOK
  <2>4. cur[u] \in Op /\ Answered(cur[u])
    BY <1>3, <2>1
  <2> QED BY <1>6, <2>1, <2>2, <2>3, <2>4
<1>13. ASSUME NEW u \in Stream, Broadcast(u) PROVE Goal
  <2>1. /\ hpc[u] = "broadcast" /\ cur' = [cur EXCEPT ![u] = NoOp] /\ out' = out
        /\ hpc' = [hpc EXCEPT ![u] = "read"]
        /\ Publish(project[u], cur[u]) \/ UNCHANGED channel
    BY <1>13 DEF Broadcast
  <2>2. channel'[s] = channel[s] \/ channel'[s] = Append(channel[s], cur[u])
    BY <2>1 DEF Publish
  <2>3. hpc'[s] \in {"ack", "broadcast"} => hpc[s] \in {"ack", "broadcast"} /\ cur'[s] = cur[s]
    BY <2>1 DEF TypeOK
  <2>4. cur[u] \in Op /\ Answered(cur[u])
    BY <1>3, <2>1
  <2> QED BY <1>6, <2>1, <2>2, <2>3, <2>4
<1>14. ASSUME NEW u \in Stream, Deliver(u) PROVE Goal
  <2>1. /\ UNCHANGED <<hpc, cur>> /\ channel[u] # <<>>
        /\ channel' = [channel EXCEPT ![u] = Tail(@)]
        /\ out' = out \/ Enqueue(u, Head(channel[u]))
    BY <1>14 DEF Deliver, handlerVars
  <2>2. channel'[s] = channel[s] \/ (channel[s] # <<>> /\ channel'[s] = Tail(channel[s]))
    BY <2>1 DEF TypeOK
  <2>3. Head(channel[u]) \in Op /\ Answered(Head(channel[u]))
    BY <1>3, <2>1, AllInFacts, HeadType
  <2>4. out'[s] = out[s] \/ out'[s] = Append(out[s], Head(channel[u]))
    BY <2>1 DEF Enqueue, TypeOK
  <2> QED BY <1>6, <2>1, <2>2, <2>3, <2>4
<1>15. ASSUME NEW u \in Stream, Join(u) \/ Reject(u) \/ Leave(u) \/ LoseSubscriber(u) PROVE Goal
  <2>1. /\ UNCHANGED <<cur, out>>
        /\ channel' = channel \/ channel' = [channel EXCEPT ![u] = <<>>]
        /\ hpc' = hpc \/ \E h \in {"greet", "done"} : hpc' = [hpc EXCEPT ![u] = h]
    BY <1>15 DEF Join, Reject, Leave, LoseSubscriber, queueVars
  <2>2. channel'[s] \in {channel[s], <<>>}
    BY <2>1 DEF TypeOK
  <2>3. hpc'[s] \in {"ack", "broadcast"} => hpc[s] \in {"ack", "broadcast"}
    BY <2>1 DEF TypeOK
  <2> QED BY <1>6, <2>1, <2>2, <2>3
<1>16. ASSUME Crash PROVE Goal
  <2>1. hpc'[s] \notin {"ack", "broadcast"} /\ channel'[s] = <<>> /\ out'[s] = <<>>
    BY <1>16 DEF Crash
  <2> QED BY <1>6, <2>1
<1>17. ASSUME LoseRedis \/ UNCHANGED vars PROVE Goal
  <2>1. UNCHANGED <<hpc, cur, channel, out>>
    BY <1>17 DEF LoseRedis, vars, handlerVars, queueVars
  <2> QED BY <1>6, <2>1
<1>18. Goal
  BY <1>7, <1>8, <1>9, <1>10, <1>11, <1>12, <1>13, <1>14, <1>15, <1>16, <1>17 DEF Next, Handler
<1> QED BY <1>18 DEF Goal
LEMMA NextBegins ==
  ASSUME IType, Begins, [Next]_vars
  PROVE  Begins'
<1> USE DEF IType
<1>1. ASSUME \A s \in Stream :
               \/ hpc'[s] \notin {"accept", "greet"}
               \/ hpc[s] \in {"accept", "greet"} /\ inbox'[s] = inbox[s]
      PROVE  Begins'
  BY <1>1 DEF Begins
<1>2. ASSUME NEW c \in Client, User(c) PROVE Begins'
  <2>1. ASSUME NEW p \in Project, connect(c, p) PROVE Begins'
    <3> DEFINE u == <<c, conns[c] + 1>>
               m == Message(c, "STROKE_BEGIN", NoLayer, 0, 0)
    <3>1. /\ inbox' = [inbox EXCEPT ![u] = <<m>>]
          /\ hpc' = [hpc EXCEPT ![u] = "accept"]
      BY <2>1 DEF connect
    <3>2. <<m>> # <<>> /\ Head(<<m>>) = m /\ m.type = "STROKE_BEGIN"
      BY DEF Message
    <3> HIDE DEF u, m
    <3> QED BY <3>1, <3>2 DEF Begins, TypeOK
  <2>2. CASE disconnect(c)
    BY <1>1, <2>2 DEF disconnect, handlerVars
  <2>3. CASE send(c)
    <3>1. PICK m \in Op : inbox' = [inbox EXCEPT ![ws(c)] = Append(@, m)]
      <4>1. PICK type \in Kinds, layer \in DOMAIN canvas[c] \union {NoLayer} :
              inbox' = [inbox EXCEPT ![ws(c)] =
                          Append(@, Message(c, type, layer, sent[c] + 1, localRevision[c]))]
        BY <2>3 DEF send
      <4>2. /\ sent[c] + 1 \in Nat /\ localRevision[c] \in Nat /\ layer \in Layer \union {NoLayer}
            /\ type \in UpdateType
        BY CollabAssumption DEF TypeOK
      <4> QED BY <4>1, <4>2, MessageType
    <3>2. hpc' = hpc
      BY <2>3 DEF send, handlerVars
    <3>3. \A q \in Seq(Op) : q # <<>> => Append(q, m) # <<>> /\ Head(Append(q, m)) = Head(q)
      <4> TAKE q \in Seq(Op)
      <4>1. q # <<>> => Len(Append(q, m)) >= 1 /\ Append(q, m)[1] = q[1]
        OBVIOUS
      <4> QED BY <4>1
    <3>4. \A s \in Stream : inbox'[s] = inbox[s] \/ inbox'[s] = Append(inbox[s], m)
      BY <3>1 DEF TypeOK
    <3> QED BY <3>2, <3>3, <3>4 DEF Begins, TypeOK
  <2> QED BY <1>2, <2>1, <2>2, <2>3 DEF User
<1>3. ASSUME NEW u \in Stream, Join(u) PROVE Begins'
  <2>1. hpc[u] = "accept" /\ hpc' = [hpc EXCEPT ![u] = "greet"] /\ inbox' = inbox
    BY <1>3 DEF Join, queueVars
  <2> QED BY <1>1, <2>1 DEF TypeOK
<1>4. ASSUME NEW u \in Stream,
             \/ Reject(u) \/ Greet(u) \/ Forward(u) \/ Commit(u) \/ CommitFails(u)
             \/ ReplyLost(u) \/ Ack(u) \/ Broadcast(u) \/ Leave(u)
      PROVE  Begins'
  <2>1. /\ \A s \in Stream : s # u => hpc'[s] = hpc[s] /\ inbox'[s] = inbox[s]
        /\ hpc'[u] \notin {"accept", "greet"}
    BY <1>4 DEF Reject, Greet, Forward, Commit, CommitFails, ReplyLost, Transformed, Ack,
                Broadcast, Leave, Reading, handlerVars, TypeOK
  <2> QED BY <1>1, <2>1
<1>5. ASSUME NEW u \in Stream, onMessage(u) \/ Deliver(u) \/ LoseSubscriber(u) PROVE Begins'
  BY <1>1, <1>5 DEF onMessage, Deliver, LoseSubscriber, handlerVars
<1>6. CASE Crash
  <2>1. \A s \in Stream : hpc'[s] \notin {"accept", "greet"}
    BY <1>6 DEF Crash
  <2> QED BY <1>1, <2>1
<1>7. CASE LoseRedis \/ UNCHANGED vars
  BY <1>1, <1>7 DEF LoseRedis, vars, handlerVars, queueVars
<1> QED BY <1>2, <1>3, <1>4, <1>5, <1>6, <1>7 DEF Next, Handler

LEMMA NextOrdered ==
  ASSUME MaxConn = 1, AlwaysRevised, IStamped, Signed, IOrder, [Next]_vars
  PROVE  IOrder'
<1>1. IType /\ TypeOK /\ Fresh
  BY DEF IStamped, IType
<1>2. HandSigned' /\ AllAnswered' /\ Begins' /\ OwnOrdered'
  BY <1>1, NextHand, NextAnswered, NextBegins, NextOwn DEF IOrder
<1>3. OthersOrdered'
  <2>1. CASE \E c \in Client : User(c)
    BY <1>1, <2>1, UserOrdered DEF IOrder
  <2>2. CASE \E s \in Stream : onMessage(s) \/ Deliver(s)
    BY <1>1, <2>2, onMessageOrdered, DeliverOrdered DEF IOrder
  <2>3. CASE \E s \in Stream : Handler(s) \/ LoseSubscriber(s)
    BY <1>1, <2>3, HandlerOrdered DEF IOrder
  <2>4. CASE Crash
    <3>1. UNCHANGED <<canvas, sent>>
      BY <2>4 DEF Crash, clientVars
    <3>2. \A s \in Stream : /\ hpc'[s] \notin {"ack", "broadcast"}
                            /\ out'[s] = <<>> /\ channel'[s] = <<>> /\ inbox'[s] = <<>>
      BY <2>4 DEF Crash
    <3> QED BY <1>1, <3>1, <3>2, QuietOrdered DEF IOrder
  <2>5. CASE LoseRedis \/ UNCHANGED vars
    <3>1. UNCHANGED <<canvas, sent, hpc, cur, out, channel, inbox>>
      BY <2>5 DEF LoseRedis, vars, handlerVars, queueVars, clientVars
    <3> QED BY <1>1, <3>1, QuietOrdered DEF IOrder
  <2> QED BY <2>1, <2>2, <2>3, <2>4, <2>5 DEF Next
<1> QED BY <1>2, <1>3 DEF IOrder

LEMMA OrderedIsPainted ==
  ASSUME IType, IOrder
  PROVE  PaintedInOrder
<1>1. ASSUME NEW c \in Client, NEW d \in Client PROVE Drawn(canvas[c], Token(d))
  <2>1. CASE d = c
    BY <2>1 DEF IOrder, OwnOrdered
  <2>2. CASE d # c
    <3>1. <<c, 1>> \in Stream /\ <<d, 1>> \in Stream
      BY CollabAssumption DEF Stream
    <3>2. Ordered(<<c, 1>>, <<d, 1>>)
      BY <2>2, <3>1 DEF IOrder, OthersOrdered
    <3> QED BY <3>2 DEF Ordered, Chain
  <2> QED BY <2>1, <2>2
<1> SUFFICES ASSUME NEW c \in Client, NEW l \in DOMAIN canvas[c],
                    NEW i \in DOMAIN canvas[c][l], NEW j \in DOMAIN canvas[c][l],
                    i < j, canvas[c][l][i][1] = canvas[c][l][j][1]
             PROVE  canvas[c][l][i][2] < canvas[c][l][j][2]
  BY DEF PaintedInOrder
<1>2. canvas[c][l] \in Seq({Token(d) : d \in Client} \X Nat)
  BY DEF IType, TypeOK, Strokes
<1>3. i \in 1..Len(canvas[c][l]) /\ j \in 1..Len(canvas[c][l])
  BY <1>2
<1>4. PICK d \in Client : canvas[c][l][i][1] = Token(d)
  BY <1>2, <1>3
<1> QED BY <1>1, <1>3, <1>4 DEF Drawn

\* As long as clients connect once and every stroke comes back to its author with
\* a revision, everyone sees each author's strokes in the order they were drawn:
\* for any number of clients, operations and projects, whoever disconnects, and
\* whether or not subscribers are lost or the server dies.
THEOREM StrokesKeepTheirOrder ==
  ASSUME MaxConn = 1, AlwaysRevised PROVE Spec => []PaintedInOrder
<1>1. Spec => []IStamped
  BY InitStamped, NextStamped, PTL DEF Spec
<1>2. IStamped => IType
  BY DEF IStamped
<1>3. IType /\ IOnce /\ IType' /\ [Next]_vars => IOnce'
  BY NextOnce
<1>4. IOnce => Signed
  BY DEF IOnce
<1>5. IStamped /\ Signed /\ IOrder /\ [Next]_vars => IOrder'
  BY NextOrdered
<1>6. IType /\ IOrder => PaintedInOrder
  BY OrderedIsPainted
<1> QED BY InitOnce, InitOrdered, <1>1, <1>2, <1>3, <1>4, <1>5, <1>6, PTL DEF Spec
----------------------------------------------------------------------------
(* Delivery.  Whoever has an operation in a log has a stream in that project, *)
(* and whatever is logged from then on and survives its transform reaches it: *)
(* it is in a handler's hand, in the channel, in the queue or with the client. *)
(* This is so as long as streams last.                                        *)

StreamsLast == Events \subseteq {"refused", "session"}

InHand(t) == hpc[t] \in {"ack", "broadcast"}
Live(t) == hpc[t] \in {"read", "ack", "broadcast"}

\* No stream that was accepted is closed, and each is subscribed.
Lasting ==
  /\ redisOk
  /\ \A s \in Stream : hpc[s] \notin {"none", "done"} => open[s]
  /\ \A s \in Stream : hpc[s] \in {"greet", "read", "ack", "broadcast"} => subscribed[s]

OwnLogged ==
  \A p \in Project : \A i \in 1..Len(log[p]) :
    \E t \in Stream : log[p][i].session = Token(t[1]) /\ Live(t) /\ project[t] = p

Carries(q, j) == \E k \in 1..Len(q) : q[k].rev = j

\* The j-th operation of p is on its way to the client, or there.
Reached(c, p, j) ==
  \/ <<p, CommittedOp(log[p], j)>> \in learned[c]
  \/ \E s \in Stream : s[1] = c /\ project[s] = p /\ Live(s) /\ Carries(out[s], j)
  \/ \E s \in Stream : s[1] = c /\ project[s] = p /\ Live(s) /\ Carries(channel[s], j)
  \/ \E t \in Stream : InHand(t) /\ project[t] = p /\ cur[t].rev = j

LaterReached ==
  \A p \in Project : \A c \in Client : \A i, j \in 1..Len(log[p]) :
    /\ i <= j /\ log[p][i].session = Token(c)
    /\ CommittedOp(log[p], j).type # "NOOP"
    => Reached(c, p, j)

\* NothingMissed, inductive.
IDelivery == learned \in [Client -> SUBSET (Project \X Op)] /\ Lasting /\ OwnLogged /\ LaterReached

LEMMA InitDelivery == InitH => IDelivery
BY DEF InitH, Init, IDelivery, Lasting, OwnLogged, LaterReached

\* What holds before every step below.
Before == StreamsLast /\ IStamped /\ Signed /\ IDelivery

\* Which steps there are.
LEMMA LastingStep ==
  ASSUME Before, [Next]_vars
  PROVE  \/ \E c \in Client, p \in Project : connect(c, p)
         \/ \E c \in Client : send(c)
         \/ \E s \in Stream : \/ onMessage(s) \/ Join(s) \/ Reject(s) \/ Greet(s) \/ Forward(s)
                              \/ Commit(s) \/ CommitFails(s) \/ Ack(s) \/ Broadcast(s)
                              \/ Deliver(s)
         \/ UNCHANGED vars
<1>1. "disconnect" \notin Events /\ "redis" \notin Events /\ "subscribe" \notin Events
      /\ "crash" \notin Events
  BY DEF Before, StreamsLast
<1>2. \A s \in Stream : ~Leave(s)
  BY DEF Leave, Before, IDelivery, Lasting
<1> QED BY <1>1, <1>2 DEF Next, User, Handler, disconnect, ReplyLost, LoseSubscriber, LoseRedis, Crash

\* An operation keeps its meaning when the log grows.
LEMMA CommittedPersists ==
  ASSUME NEW lg \in Seq(Op), NEW x \in Op, NEW r \in 1..Len(lg)
  PROVE  CommittedOp(Append(lg, x), r) = CommittedOp(lg, r)
<1>1. Append(lg, x)[r] = lg[r]
  OBVIOUS
<1>2. lg[r].base \in Nat
  <2>1. lg[r] \in Op
    OBVIOUS
  <2> QED BY <2>1 DEF Op
<1>3. SubSeq(Append(lg, x), lg[r].base + 1, r - 1) = SubSeq(lg, lg[r].base + 1, r - 1)
  <2>1. lg[r].base + 1 \in Nat /\ lg[r].base + 1 >= 1 /\ r - 1 \in Nat /\ r - 1 <= Len(lg)
    BY <1>2
  <2> QED BY <2>1, SubSeqOfAppend
<1> QED BY <1>1, <1>3 DEF CommittedOp

\* How a log grows.
LEMMA LogSteps ==
  ASSUME Before, [Next]_vars
  PROVE  \/ log' = log
         \/ \E s \in Stream : /\ Commit(s) /\ project[s] \in Project /\ Head(inbox[s]) \in Op
                              /\ inbox[s] # <<>>
                              /\ log' = [log EXCEPT ![project[s]] = Append(@, Head(inbox[s]))]
<1>1. ASSUME NEW s \in Stream, Commit(s)
      PROVE  /\ project[s] \in Project /\ Head(inbox[s]) \in Op /\ inbox[s] # <<>>
             /\ log' = [log EXCEPT ![project[s]] = Append(@, Head(inbox[s]))]
  <2>1. hpc[s] = "read" /\ inbox[s] # <<>> /\ RPush(s, Head(inbox[s]))
    BY <1>1 DEF Commit, Reading
  <2>2. inbox[s] \in Seq(Op) /\ project[s] \in Project
    BY <2>1 DEF Before, IStamped, IType, TypeOK
  <2> QED BY <2>1, <2>2, HeadType DEF RPush
<1>2. ASSUME \/ \E c \in Client, p \in Project : connect(c, p)
             \/ \E c \in Client : send(c)
             \/ \E s \in Stream : \/ onMessage(s) \/ Join(s) \/ Reject(s) \/ Greet(s) \/ Forward(s)
                                  \/ CommitFails(s) \/ Ack(s) \/ Broadcast(s) \/ Deliver(s)
             \/ UNCHANGED vars
      PROVE  log' = log
  BY <1>2 DEF connect, send, onMessage, Join, Reject, Greet, Forward, CommitFails, Ack, Broadcast,
              Deliver, redisVars, vars
<1> QED BY <1>1, <1>2, LastingStep

LEMMA MeaningStays ==
  ASSUME Before, [Next]_vars, NEW p \in Project, NEW j \in 1..Len(log[p])
  PROVE  j \in 1..Len(log'[p]) /\ log'[p][j] = log[p][j]
         /\ CommittedOp(log'[p], j) = CommittedOp(log[p], j)
<1>1. log[p] \in Seq(Op)
  BY DEF Before, IStamped, IType, TypeOK
<1>2. log'[p] = log[p] \/ \E x \in Op : log'[p] = Append(log[p], x)
  <2>1. log \in [Project -> Seq(Op)]
    BY DEF Before, IStamped, IType, TypeOK
  <2> QED BY <2>1, LogSteps
<1>3. CASE log'[p] = log[p]
  BY <1>3
<1>4. ASSUME NEW x \in Op, log'[p] = Append(log[p], x)
      PROVE  /\ j \in 1..Len(log'[p]) /\ log'[p][j] = log[p][j]
             /\ CommittedOp(log'[p], j) = CommittedOp(log[p], j)
  <2>1. j \in 1..Len(log'[p]) /\ log'[p][j] = log[p][j]
    BY <1>1, <1>4
  <2> QED BY <1>1, <1>4, <2>1, CommittedPersists
<1> QED BY <1>2, <1>3, <1>4

\* Handlers go forward, in the project they are in.
LEMMA LiveStays ==
  ASSUME Before, [Next]_vars
  PROVE  \A t \in Stream : Live(t) => Live(t)' /\ project'[t] = project[t]
<1> USE DEF Before, IStamped, IType, Live
<1>1. ASSUME NEW c \in Client, NEW p \in Project, connect(c, p)
      PROVE  \A t \in Stream : Live(t) => Live(t)' /\ project'[t] = project[t]
  <2> DEFINE u == <<c, conns[c] + 1>>
  <2>1. /\ hpc' = [hpc EXCEPT ![u] = "accept"]
        /\ project' = [project EXCEPT ![u] = p]
        /\ conns[c] \in Nat /\ u[1] = c /\ u[2] = conns[c] + 1
    BY <1>1 DEF connect, TypeOK
  <2>2. u \in Stream => hpc[u] = "none"
    <3>1. u \in Stream => u[2] > conns[u[1]]
      BY <2>1
    <3> QED BY <3>1 DEF Fresh
  <2> HIDE DEF u
  <2> QED BY <2>1, <2>2 DEF TypeOK
<1>2. ASSUME NEW u \in Stream,
             \/ Join(u) \/ Reject(u) \/ Greet(u) \/ Forward(u) \/ Commit(u) \/ CommitFails(u)
             \/ Ack(u) \/ Broadcast(u)
      PROVE  \A t \in Stream : Live(t) => Live(t)' /\ project'[t] = project[t]
  BY <1>2 DEF Join, Reject, Greet, Forward, Commit, CommitFails, Transformed, Ack, Broadcast, Reading,
              handlerVars, TypeOK
<1>3. ASSUME \/ \E c \in Client : send(c)
             \/ \E s \in Stream : onMessage(s) \/ Deliver(s)
             \/ UNCHANGED vars
      PROVE  UNCHANGED <<hpc, project>>
  BY <1>3 DEF send, onMessage, Deliver, handlerVars, vars
<1> QED BY <1>1, <1>2, <1>3, LastingStep

\* No stream is closed once it is accepted, nor loses its subscription.
LEMMA NextLasting ==
  ASSUME Before, [Next]_vars
  PROVE  Lasting'
<1> USE DEF Before, IStamped, IType, IDelivery
<1>1. ASSUME NEW c \in Client, NEW p \in Project, connect(c, p)
      PROVE  Lasting'
  <2> DEFINE u == <<c, conns[c] + 1>>
  <2>1. /\ hpc' = [hpc EXCEPT ![u] = "accept"]
        /\ open' = [open EXCEPT ![u] = TRUE]
        /\ UNCHANGED <<redisOk, subscribed>>
    BY <1>1 DEF connect, redisVars
  <2> HIDE DEF u
  <2> QED BY <2>1 DEF TypeOK, Lasting
<1>2. ASSUME NEW u \in Stream, Join(u) PROVE Lasting'
  <2>1. /\ hpc[u] = "accept" /\ hpc' = [hpc EXCEPT ![u] = "greet"]
        /\ subscribed' = [subscribed EXCEPT ![u] = TRUE]
        /\ UNCHANGED <<redisOk, open>>
    BY <1>2 DEF Join, redisVars, StreamsLast
  <2> QED BY <2>1 DEF TypeOK, Lasting
<1>3. ASSUME NEW u \in Stream, Reject(u) PROVE Lasting'
  <2>1. /\ hpc' = [hpc EXCEPT ![u] = "done"]
        /\ open' = [open EXCEPT ![u] = FALSE]
        /\ UNCHANGED <<redisOk, subscribed>>
    BY <1>3 DEF Reject, redisVars
  <2> QED BY <2>1 DEF TypeOK, Lasting
<1>4. ASSUME NEW u \in Stream,
             \/ Greet(u) \/ Forward(u) \/ Commit(u) \/ CommitFails(u) \/ Ack(u) \/ Broadcast(u)
      PROVE  Lasting'
  <2>1. /\ hpc[u] \in {"greet", "read", "ack", "broadcast"}
        /\ \A t \in Stream : t # u => hpc'[t] = hpc[t]
        /\ hpc'[u] \in {"read", "ack", "broadcast"}
        /\ UNCHANGED <<redisOk, open, subscribed>>
    BY <1>4 DEF Greet, Forward, Commit, CommitFails, Transformed, Ack, Broadcast, Reading,
                handlerVars, redisVars, TypeOK
  <2> QED BY <2>1 DEF Lasting
<1>5. ASSUME \/ \E c \in Client : send(c)
             \/ \E s \in Stream : onMessage(s) \/ Deliver(s)
             \/ UNCHANGED vars
      PROVE  Lasting'
  <2>1. UNCHANGED <<hpc, redisOk, open, subscribed>>
    BY <1>5 DEF send, onMessage, Deliver, handlerVars, redisVars, vars
  <2> QED BY <2>1 DEF Lasting
<1> QED BY <1>1, <1>2, <1>3, <1>4, <1>5, LastingStep

\* What becomes of the queue to the client: what is taken from it is learned.
LEMMA OutSteps ==
  ASSUME Before, [NextH]_varsH, NEW s \in Stream
  PROVE  \/ out'[s] = out[s]
         \/ \E x \in Op : out'[s] = Append(out[s], x)
         \/ /\ out[s] # <<>> /\ out'[s] = Tail(out[s])
            /\ Head(out[s]).rev # 0 => <<project[s], Head(out[s])>> \in learned'[s[1]]
<1> USE DEF Before, IStamped, IType
<1> DEFINE Appended == \E x \in Op : out'[s] = Append(out[s], x)
           Taken == /\ out[s] # <<>> /\ out'[s] = Tail(out[s])
                    /\ Head(out[s]).rev # 0 => <<project[s], Head(out[s])>> \in learned'[s[1]]
<1> SUFFICES out'[s] = out[s] \/ Appended \/ Taken
  OBVIOUS
<1>1. out \in [Stream -> Seq(Op)] /\ s[1] \in Client
  BY DEF TypeOK, Stream
<1>2. ASSUME NEW u \in Stream, NEW x \in Op, Enqueue(u, x)
      PROVE  out'[s] = out[s] \/ Appended
  BY <1>1, <1>2 DEF Enqueue
<1>3. ASSUME NEW u \in Stream, onMessage(u), NoteMessage(u)
      PROVE  out'[s] = out[s] \/ Taken
  <2>1. out[u] # <<>> /\ out' = [out EXCEPT ![u] = Tail(@)]
    BY <1>3 DEF onMessage
  <2>2. CASE u # s
    BY <1>1, <2>1, <2>2
  <2>3. CASE u = s
    <3>1. Head(out[s]).rev # 0 => learned' = [learned EXCEPT ![s[1]] = @ \union {<<project[s], Head(out[s])>>}]
      BY <1>3, <2>3 DEF NoteMessage
    <3>2. learned \in [Client -> SUBSET (Project \X Op)]
      BY DEF IDelivery
    <3>3. Head(out[s]).rev # 0 => <<project[s], Head(out[s])>> \in learned'[s[1]]
      BY <1>1, <3>1, <3>2
    <3> QED BY <1>1, <2>1, <2>3, <3>3
  <2> QED BY <2>2, <2>3
<1>4. ASSUME NEW u \in Stream, Ack(u) PROVE out'[s] = out[s] \/ Appended
  <2>1. cur[u] \in Op /\ Enqueue(u, cur[u])
    BY <1>4 DEF Ack, TypeOK
  <2> QED BY <1>2, <2>1
<1>5. ASSUME NEW u \in Stream, Deliver(u) PROVE out'[s] = out[s] \/ Appended
  <2>1. Head(channel[u]) \in Op
    BY <1>5, HeadType DEF Deliver, TypeOK
  <2> QED BY <1>2, <1>5, <2>1 DEF Deliver
<1>6. ASSUME \/ \E c \in Client, p \in Project : connect(c, p)
             \/ \E c \in Client : send(c)
             \/ \E u \in Stream : \/ Join(u) \/ Reject(u) \/ Greet(u) \/ Forward(u)
                                  \/ Commit(u) \/ CommitFails(u) \/ Broadcast(u)
             \/ UNCHANGED vars
      PROVE  out' = out
  BY <1>6 DEF connect, send, Join, Reject, Greet, Forward, Commit, CommitFails, Transformed, Broadcast,
              queueVars, vars
<1>7. [Next]_vars
  BY HistoryStep
<1>8. CASE \E u \in Stream : onMessage(u) /\ NoteMessage(u)
  BY <1>3, <1>8
<1>9. CASE \E u \in Stream : Commit(u)
  BY <1>6, <1>9
<1>10. CASE UNCHANGED varsH
  BY <1>6, <1>10 DEF varsH
<1>11. CASE \/ \E c \in Client : User(c)
            \/ \E u \in Stream :
                 \/ Join(u) \/ Reject(u) \/ Greet(u) \/ Forward(u) \/ CommitFails(u)
                 \/ ReplyLost(u) \/ Ack(u) \/ Broadcast(u) \/ Leave(u)
                 \/ Deliver(u) \/ LoseSubscriber(u)
            \/ LoseRedis
            \/ Crash
  <2>1. "disconnect" \notin Events /\ "redis" \notin Events /\ "subscribe" \notin Events
        /\ "crash" \notin Events
    BY DEF StreamsLast
  <2>2. \A u \in Stream : ~Leave(u)
    BY DEF Leave, IDelivery, Lasting
  <2>3. \/ \E c \in Client, p \in Project : connect(c, p)
        \/ \E c \in Client : send(c)
        \/ \E u \in Stream : \/ Join(u) \/ Reject(u) \/ Greet(u) \/ Forward(u)
                             \/ CommitFails(u) \/ Ack(u) \/ Broadcast(u) \/ Deliver(u)
    BY <1>11, <2>1, <2>2 DEF User, disconnect, ReplyLost, LoseSubscriber, LoseRedis, Crash
  <2> QED BY <1>4, <1>5, <1>6, <2>3
<1> HIDE DEF Appended, Taken
<1> QED
  <2>1. NextH => \/ \E u \in Stream : onMessage(u) /\ NoteMessage(u)
                 \/ \E u \in Stream : Commit(u)
                 \/ \E c \in Client : User(c)
                 \/ \E u \in Stream :
                      \/ Join(u) \/ Reject(u) \/ Greet(u) \/ Forward(u) \/ CommitFails(u)
                      \/ ReplyLost(u) \/ Ack(u) \/ Broadcast(u) \/ Leave(u)
                      \/ Deliver(u) \/ LoseSubscriber(u)
                 \/ LoseRedis
                 \/ Crash
    BY DEF NextH
  <2>2. NextH \/ UNCHANGED varsH
    OBVIOUS
  <2> HIDE DEF varsH
  <2>3. CASE UNCHANGED varsH
    BY <1>10, <2>3
  <2>4. CASE NextH
    BY <1>8, <1>9, <1>11, <2>1, <2>4
  <2> QED BY <2>2, <2>3, <2>4

\* What a client knows it keeps.
LEMMA LearnedStays ==
  ASSUME Before, [NextH]_varsH
  PROVE  /\ learned' \in [Client -> SUBSET (Project \X Op)]
         /\ \A c \in Client : learned[c] \subseteq learned'[c]
<1>1. learned \in [Client -> SUBSET (Project \X Op)]
  BY DEF Before, IDelivery
<1>2. CASE learned' = learned
  BY <1>1, <1>2
<1>3. ASSUME NEW s \in Stream, onMessage(s), NoteMessage(s), learned' # learned
      PROVE  /\ learned' \in [Client -> SUBSET (Project \X Op)]
             /\ \A c \in Client : learned[c] \subseteq learned'[c]
  <2> DEFINE m == <<project[s], Head(out[s])>>
  <2>1. learned' = [learned EXCEPT ![s[1]] = @ \union {m}]
    BY <1>3 DEF NoteMessage
  <2>2. s[1] \in Client
    BY DEF Stream
  <2>3. out[s] # <<>> /\ out[s] \in Seq(Op) /\ hpc[s] # "none" /\ project[s] \in Project
    BY <1>3 DEF onMessage, Before, IStamped, IType, TypeOK, Fresh
  <2>4. m \in Project \X Op
    BY <2>3, HeadType
  <2> HIDE DEF m
  <2> QED BY <1>1, <2>1, <2>2, <2>4
<1> QED BY <1>2, <1>3 DEF NextH, varsH

\* What becomes of the channel: what is taken from it goes into the queue.
LEMMA ChannelSteps ==
  ASSUME Before, [Next]_vars, NEW s \in Stream, open[s]
  PROVE  \/ channel'[s] = channel[s]
         \/ \E x \in Op : channel'[s] = Append(channel[s], x)
         \/ /\ channel[s] # <<>> /\ channel'[s] = Tail(channel[s])
            /\ out'[s] = Append(out[s], Head(channel[s]))
<1> USE DEF Before, IStamped, IType
<1> DEFINE Appended == \E x \in Op : channel'[s] = Append(channel[s], x)
           Passed == /\ channel[s] # <<>> /\ channel'[s] = Tail(channel[s])
                     /\ out'[s] = Append(out[s], Head(channel[s]))
<1>1. channel \in [Stream -> Seq(Op)] /\ out \in [Stream -> Seq(Op)]
  BY DEF TypeOK
<1>2. ASSUME NEW p, NEW x \in Op, Publish(p, x) PROVE channel'[s] = channel[s] \/ Appended
  BY <1>2 DEF Publish
<1>3. ASSUME NEW u \in Stream, Deliver(u) PROVE channel'[s] = channel[s] \/ Passed
  <2>1. channel[u] # <<>> /\ channel' = [channel EXCEPT ![u] = Tail(@)]
    BY <1>3 DEF Deliver
  <2>2. CASE u # s
    BY <1>1, <2>1, <2>2
  <2>3. CASE u = s
    <3>1. Head(channel[s]) \in Op
      BY <1>1, <2>1, <2>3, HeadType
    <3>2. Head(channel[s]).session # SessionId(s[1])
      BY <3>1 DEF Op, Token, SessionId
    <3>3. Enqueue(s, Head(channel[s]))
      BY <1>3, <2>3, <3>2 DEF Deliver
    <3>4. out'[s] = Append(out[s], Head(channel[s]))
      BY <1>1, <3>3 DEF Enqueue
    <3> QED BY <1>1, <2>1, <2>3, <3>4
  <2> QED BY <2>2, <2>3
<1>4. ASSUME NEW u \in Stream, Greet(u) \/ Forward(u) PROVE channel'[s] = channel[s] \/ Appended
  <2>1. /\ Publish(project[u], Head(inbox[u])) /\ inbox[u] # <<>>
    BY <1>4 DEF Greet, Forward, Reading, Greeting
  <2>2. Head(inbox[u]) \in Op
    BY <2>1, HeadType DEF TypeOK
  <2> QED BY <1>2, <2>1, <2>2
<1>5. ASSUME NEW u \in Stream, Broadcast(u) PROVE channel'[s] = channel[s] \/ Appended
  <2>1. hpc[u] = "broadcast" /\ (Publish(project[u], cur[u]) \/ channel' = channel)
    BY <1>5 DEF Broadcast
  <2>2. cur[u] \in Op
    BY <2>1 DEF TypeOK
  <2> QED BY <1>2, <2>1, <2>2
<1>6. ASSUME \/ \E c \in Client, p \in Project : connect(c, p)
             \/ \E c \in Client : send(c)
             \/ \E u \in Stream : \/ onMessage(u) \/ Join(u) \/ Reject(u)
                                  \/ Commit(u) \/ CommitFails(u) \/ Ack(u)
             \/ UNCHANGED vars
      PROVE  channel' = channel
  BY <1>6 DEF connect, send, onMessage, Join, Reject, Commit, CommitFails, Transformed, Ack,
              queueVars, vars
<1> HIDE DEF Appended, Passed
<1>7. channel'[s] = channel[s] \/ Appended \/ Passed
  BY <1>3, <1>4, <1>5, <1>6, LastingStep
<1> QED BY <1>7 DEF Appended, Passed

\* What a handler has in hand stays the same until it is broadcast.
LEMMA HandSteps ==
  ASSUME Before, [Next]_vars, NEW t \in Stream, InHand(t)
  PROVE  (InHand(t)' /\ cur'[t] = cur[t]) \/ Broadcast(t)
<1> USE DEF Before, IStamped, IType, InHand
<1>1. ASSUME NEW c \in Client, NEW p \in Project, connect(c, p)
      PROVE  InHand(t)' /\ cur'[t] = cur[t]
  <2> DEFINE u == <<c, conns[c] + 1>>
  <2>1. /\ hpc' = [hpc EXCEPT ![u] = "accept"] /\ cur' = cur
        /\ conns[c] \in Nat /\ u[1] = c /\ u[2] = conns[c] + 1
    BY <1>1 DEF connect, TypeOK
  <2>2. u \in Stream => hpc[u] = "none"
    <3>1. u \in Stream => u[2] > conns[u[1]]
      BY <2>1
    <3> QED BY <3>1 DEF Fresh
  <2> HIDE DEF u
  <2> QED BY <2>1, <2>2 DEF TypeOK
<1>2. ASSUME NEW u \in Stream, Commit(u) \/ CommitFails(u) PROVE InHand(t)' /\ cur'[t] = cur[t]
  <2>1. /\ hpc[u] = "read" /\ hpc' = [hpc EXCEPT ![u] = "ack"]
        /\ \A s \in Stream : s # u => cur'[s] = cur[s]
    BY <1>2 DEF Commit, CommitFails, Reading, Transformed, TypeOK
  <2> QED BY <2>1 DEF TypeOK
<1>3. ASSUME NEW u \in Stream, Broadcast(u)
      PROVE  (InHand(t)' /\ cur'[t] = cur[t]) \/ Broadcast(t)
  BY <1>3 DEF Broadcast, TypeOK
<1>4. ASSUME NEW u \in Stream, Join(u) \/ Reject(u) \/ Greet(u) \/ Forward(u) \/ Ack(u)
      PROVE  InHand(t)' /\ cur'[t] = cur[t]
  BY <1>4 DEF Join, Reject, Greet, Forward, Ack, Reading, handlerVars, TypeOK
<1>5. ASSUME \/ \E c \in Client : send(c)
             \/ \E s \in Stream : onMessage(s) \/ Deliver(s)
             \/ UNCHANGED vars
      PROVE  InHand(t)' /\ cur'[t] = cur[t]
  BY <1>5 DEF send, onMessage, Deliver, handlerVars, vars
<1> QED BY <1>1, <1>2, <1>3, <1>4, <1>5, LastingStep

LEMMA CarriesFacts ==
  ASSUME NEW q \in Seq(Op), NEW x \in Op, NEW j
  PROVE  /\ Append(q, x) \in Seq(Op)
         /\ Carries(q, j) => Carries(Append(q, x), j)
         /\ Carries(Append(q, x), x.rev)
         /\ q # <<>> /\ Carries(q, j) => Carries(Tail(q), j) \/ (Head(q) = q[1] /\ q[1].rev = j)
<1> USE DEF Carries
<1>1. /\ Append(q, x) \in Seq(Op) /\ Len(Append(q, x)) = Len(q) + 1 /\ Len(q) \in Nat
      /\ Append(q, x)[Len(q) + 1] = x /\ \A i \in 1..Len(q) : Append(q, x)[i] = q[i]
  OBVIOUS
<1>2. Carries(q, j) => Carries(Append(q, x), j)
  BY <1>1
<1>3. Carries(Append(q, x), x.rev)
  <2>1. Len(q) + 1 \in 1..Len(Append(q, x))
    BY <1>1
  <2> QED BY <1>1, <2>1
<1>4. ASSUME q # <<>>, Carries(q, j)
      PROVE  Carries(Tail(q), j) \/ (Head(q) = q[1] /\ q[1].rev = j)
  <2>1. PICK i \in 1..Len(q) : q[i].rev = j
    BY <1>4
  <2>2. CASE i = 1
    BY <1>4, <2>1, <2>2
  <2>3. CASE i # 1
    <3>1. i - 1 \in 1..Len(Tail(q)) /\ Tail(q)[i - 1] = q[i]
      BY <1>4, <2>3
    <3> QED BY <2>1, <3>1
  <2> QED BY <2>2, <2>3
<1> QED BY <1>1, <1>2, <1>3, <1>4

LEMMA NextOwnLogged ==
  ASSUME Before, [Next]_vars
  PROVE  OwnLogged'
<1> SUFFICES ASSUME NEW p \in Project, NEW i \in 1..Len(log'[p])
             PROVE  \E t \in Stream : log'[p][i].session = Token(t[1]) /\ Live(t)' /\ project'[t] = p
  BY DEF OwnLogged
<1>1. log \in [Project -> Seq(Op)]
  BY DEF Before, IStamped, IType, TypeOK
<1>2. CASE i \in 1..Len(log[p]) /\ log'[p][i] = log[p][i]
  <2>1. PICK t \in Stream : log[p][i].session = Token(t[1]) /\ Live(t) /\ project[t] = p
    BY <1>2 DEF Before, IDelivery, OwnLogged
  <2> QED BY <1>2, <2>1, LiveStays
<1>3. ASSUME NEW s \in Stream, Commit(s), inbox[s] # <<>>, project[s] = p, log'[p][i] = Head(inbox[s])
      PROVE  \E t \in Stream : log'[p][i].session = Token(t[1]) /\ Live(t)' /\ project'[t] = p
  <2>1. Head(inbox[s]) = inbox[s][1] /\ 1 \in 1..Len(inbox[s])
    BY <1>3 DEF Before, IStamped, IType, TypeOK
  <2>2. Head(inbox[s]).session = Token(s[1])
    BY <2>1 DEF Before, Signed
  <2>3. Live(s)
    BY <1>3 DEF Commit, Reading, Live
  <2> QED BY <1>3, <2>2, <2>3, LiveStays
<1>4. \/ log' = log
      \/ \E s \in Stream : /\ Commit(s) /\ project[s] \in Project /\ Head(inbox[s]) \in Op
                           /\ inbox[s] # <<>>
                           /\ log' = [log EXCEPT ![project[s]] = Append(@, Head(inbox[s]))]
  BY LogSteps
<1>5. CASE log' = log
  BY <1>2, <1>5
<1>6. ASSUME NEW s \in Stream, Commit(s), Head(inbox[s]) \in Op, inbox[s] # <<>>,
             log' = [log EXCEPT ![project[s]] = Append(@, Head(inbox[s]))]
      PROVE  \E t \in Stream : log'[p][i].session = Token(t[1]) /\ Live(t)' /\ project'[t] = p
  <2>1. CASE project[s] # p
    <3>1. log'[p] = log[p]
      BY <1>1, <1>6, <2>1
    <3> QED BY <1>2, <3>1
  <2>2. CASE project[s] = p
    <3>1. log'[p] = Append(log[p], Head(inbox[s])) /\ log[p] \in Seq(Op)
      BY <1>1, <1>6, <2>2
    <3>2. \/ i \in 1..Len(log[p]) /\ log'[p][i] = log[p][i]
          \/ log'[p][i] = Head(inbox[s])
      BY <1>6, <3>1
    <3> QED BY <1>2, <1>3, <1>6, <2>2, <3>2
  <2> QED BY <2>1, <2>2
<1> QED BY <1>4, <1>5, <1>6

\* What is on its way to a client in the project arrives.
LEMMA ReachedStays ==
  ASSUME Before, [NextH]_varsH, NEW c \in Client, NEW p \in Project, NEW j \in 1..Len(log[p]),
         CommittedOp(log[p], j).type # "NOOP", Reached(c, p, j),
         NEW u \in Stream, u[1] = c, Live(u), project[u] = p
  PROVE  Reached(c, p, j)'
<1> DEFINE m == <<p, CommittedOp(log[p], j)>>
<1>1. [Next]_vars
  BY HistoryStep
<1>2. CommittedOp(log'[p], j) = CommittedOp(log[p], j)
  BY <1>1, MeaningStays
<1>3. ASSUME m \in learned'[c] PROVE Reached(c, p, j)'
  BY <1>2, <1>3 DEF Reached
<1>4. \A s \in Stream : out[s] \in Seq(Op) /\ channel[s] \in Seq(Op)
  BY DEF Before, IStamped, IType, TypeOK
<1>5. ASSUME NEW s \in Stream, s[1] = c, project[s] = p, Live(s),
             Carries(out'[s], j) \/ Carries(channel'[s], j)
      PROVE  Reached(c, p, j)'
  <2>1. Live(s)' /\ project'[s] = p
    BY <1>1, <1>5, LiveStays
  <2> QED BY <1>5, <2>1 DEF Reached
<1>6. CASE m \in learned[c]
  BY <1>3, <1>6, LearnedStays
<1>7. ASSUME NEW s \in Stream, s[1] = c, project[s] = p, Live(s), Carries(out[s], j)
      PROVE  Reached(c, p, j)'
  <2>1. ASSUME out'[s] = out[s] \/ \E x \in Op : out'[s] = Append(out[s], x)
        PROVE  Reached(c, p, j)'
    <3>1. out'[s] = out[s] => Carries(out'[s], j)
      BY <1>7
    <3>2. \A x \in Op : Carries(Append(out[s], x), j)
      BY <1>4, <1>7, CarriesFacts
    <3>3. Carries(out'[s], j)
      BY <2>1, <3>1, <3>2
    <3> QED BY <1>5, <1>7, <3>3
  <2>2. ASSUME out[s] # <<>>, out'[s] = Tail(out[s]),
               Head(out[s]).rev # 0 => <<project[s], Head(out[s])>> \in learned'[s[1]]
        PROVE  Reached(c, p, j)'
    <3>1. CASE Carries(Tail(out[s]), j)
      BY <1>5, <1>7, <2>2, <3>1
    <3>2. ASSUME Head(out[s]) = out[s][1], out[s][1].rev = j PROVE Reached(c, p, j)'
      <4>1. 1 \in 1..Len(out[s])
        BY <1>4, <2>2
      <4>2. Stamped(log[p], out[s][1])
        BY <1>7, <4>1 DEF Before, IStamped, StampedFromLog
      <4>3. j # 0
        OBVIOUS
      <4>4. out[s][1] = CommittedOp(log[p], j)
        BY <3>2, <4>2, <4>3 DEF Stamped
      <4>5. m \in learned'[c]
        BY <1>7, <2>2, <3>2, <4>3, <4>4
      <4> QED BY <1>3, <4>5
    <3>3. Op # {}
      BY <1>4, <2>2, HeadType
    <3>4. Carries(Tail(out[s]), j) \/ (Head(out[s]) = out[s][1] /\ out[s][1].rev = j)
      BY <1>4, <1>7, <2>2, <3>3, CarriesFacts
    <3> QED BY <3>1, <3>2, <3>4
  <2> QED BY <2>1, <2>2, OutSteps
<1>8. ASSUME NEW s \in Stream, s[1] = c, project[s] = p, Live(s), Carries(channel[s], j)
      PROVE  Reached(c, p, j)'
  <2>1. open[s]
    BY <1>8 DEF Before, IDelivery, Lasting, Live
  <2>2. ASSUME channel'[s] = channel[s] \/ \E x \in Op : channel'[s] = Append(channel[s], x)
        PROVE  Reached(c, p, j)'
    <3>1. channel'[s] = channel[s] => Carries(channel'[s], j)
      BY <1>8
    <3>2. \A x \in Op : Carries(Append(channel[s], x), j)
      BY <1>4, <1>8, CarriesFacts
    <3>3. Carries(channel'[s], j)
      BY <2>2, <3>1, <3>2
    <3> QED BY <1>5, <1>8, <3>3
  <2>3. ASSUME channel[s] # <<>>, channel'[s] = Tail(channel[s]),
               out'[s] = Append(out[s], Head(channel[s]))
        PROVE  Reached(c, p, j)'
    <3>1. Head(channel[s]) \in Op
      BY <1>4, <2>3, HeadType
    <3>2. Carries(Tail(channel[s]), j) \/ Head(channel[s]).rev = j
      BY <1>4, <1>8, <2>3, <3>1, CarriesFacts
    <3>3. Carries(out'[s], Head(channel[s]).rev)
      BY <1>4, <2>3, <3>1, CarriesFacts
    <3> QED BY <1>5, <1>8, <2>3, <3>2, <3>3
  <2> QED BY <1>1, <2>1, <2>2, <2>3, ChannelSteps
<1>9. ASSUME NEW t \in Stream, InHand(t), project[t] = p, cur[t].rev = j
      PROVE  Reached(c, p, j)'
  <2>1. CASE InHand(t)' /\ cur'[t] = cur[t]
    <3>1. project'[t] = p
      BY <1>1, <1>9, LiveStays DEF InHand, Live
    <3> QED BY <1>9, <2>1, <3>1 DEF Reached
  <2>2. CASE Broadcast(t)
    <3>1. Stamped(log[p], cur[t])
      BY <1>9 DEF Before, IStamped, StampedFromLog, InHand
    <3>2. cur[t] = CommittedOp(log[p], j)
      BY <1>9, <3>1 DEF Stamped
    <3>3. Publish(p, cur[t])
      BY <1>9, <2>2, <3>2 DEF Broadcast
    <3>4. redisOk /\ subscribed[u]
      BY DEF Before, IDelivery, Lasting, Live
    <3>5. channel'[u] = Append(channel[u], cur[t])
      BY <3>3, <3>4 DEF Publish
    <3>6. cur[t] \in Op
      BY <1>9 DEF Before, IStamped, IType, TypeOK, InHand
    <3>7. Carries(channel'[u], j)
      BY <1>4, <1>9, <3>5, <3>6, CarriesFacts
    <3> QED BY <1>5, <3>7
  <2> QED BY <1>1, <1>9, <2>1, <2>2, HandSteps
<1> QED BY <1>6, <1>7, <1>8, <1>9 DEF Reached

LEMMA NextLaterReached ==
  ASSUME Before, [NextH]_varsH
  PROVE  LaterReached'
<1> SUFFICES ASSUME NEW p \in Project, NEW c \in Client,
                    NEW i \in 1..Len(log'[p]), NEW j \in 1..Len(log'[p]),
                    i <= j, log'[p][i].session = Token(c),
                    CommittedOp(log'[p], j).type # "NOOP"
             PROVE  Reached(c, p, j)'
  BY DEF LaterReached
<1>1. [Next]_vars
  BY HistoryStep
<1>2. log \in [Project -> Seq(Op)] /\ Len(log[p]) \in Nat
  BY DEF Before, IStamped, IType, TypeOK
<1>3. ASSUME j \in 1..Len(log[p]) PROVE Reached(c, p, j)'
  <2>1. i \in 1..Len(log[p])
    BY <1>2, <1>3
  <2>2. log'[p][i] = log[p][i] /\ CommittedOp(log'[p], j) = CommittedOp(log[p], j)
    BY <1>1, <1>3, <2>1, MeaningStays
  <2>3. Reached(c, p, j)
    BY <1>3, <2>1, <2>2 DEF Before, IDelivery, LaterReached
  <2>4. PICK u \in Stream : log[p][i].session = Token(u[1]) /\ Live(u) /\ project[u] = p
    BY <2>1 DEF Before, IDelivery, OwnLogged
  <2>5. u[1] = c
    BY <2>2, <2>4, TokenFacts
  <2> QED BY <1>3, <2>2, <2>3, <2>4, <2>5, ReachedStays
<1>4. ASSUME NEW s \in Stream, Commit(s), project[s] \in Project, Head(inbox[s]) \in Op,
             log' = [log EXCEPT ![project[s]] = Append(@, Head(inbox[s]))],
             j \notin 1..Len(log[p])
      PROVE  Reached(c, p, j)'
  <2>1. project[s] = p
    BY <1>2, <1>4
  <2>2. log'[p] = Append(log[p], Head(inbox[s]))
    BY <1>2, <1>4, <2>1
  <2>3. j = Len(log[p]) + 1
    BY <1>2, <1>4, <2>2
  <2> DEFINE x == Head(inbox[s])
             y == TransformAll(x, Concurrent(log[p], x.base))
  <2>4. /\ cur' = [cur EXCEPT ![s] = [y EXCEPT !.rev = Len(log[p]) + 1]]
        /\ hpc' = [hpc EXCEPT ![s] = "ack"] /\ project' = project
    BY <1>4, <2>1 DEF Commit, Transformed
  <2>5. y \in Op
    <3>1. x.base \in Nat /\ log[p] \in Seq(Op)
      BY <1>2, <1>4 DEF Op
    <3> HIDE DEF x
    <3>2. Concurrent(log[p], x.base) \in Seq(Op)
      BY <3>1 DEF Concurrent
    <3> QED BY <1>4, <3>2, TransformAllIsOp DEF x
  <2> HIDE DEF x, y
  <2>6. cur'[s].rev = j
    <3>1. [y EXCEPT !.rev = Len(log[p]) + 1].rev = Len(log[p]) + 1
      BY <2>5 DEF Op
    <3>2. cur'[s] = [y EXCEPT !.rev = Len(log[p]) + 1]
      BY <2>4 DEF Before, IStamped, IType, TypeOK
    <3> QED BY <2>3, <3>1, <3>2
  <2>7. InHand(s)'
    BY <2>4 DEF InHand, Before, IStamped, IType, TypeOK
  <2> QED BY <2>1, <2>4, <2>6, <2>7 DEF Reached
<1>5. CASE log' = log
  BY <1>3, <1>5
<1> QED BY <1>1, <1>3, <1>4, <1>5, LogSteps

LEMMA DeliveredIsLearned ==
  ASSUME TypeOK, IDelivery
  PROVE  NothingMissed
<1> SUFFICES ASSUME Resting, NEW p \in Project, NEW c \in Client,
                    NEW i \in DOMAIN log[p], NEW j \in DOMAIN log[p],
                    log[p][i].session = Token(c), i <= j,
                    CommittedOp(log[p], j).type # "NOOP"
             PROVE  <<p, CommittedOp(log[p], j)>> \in learned[c]
  BY DEF NothingMissed
<1>1. DOMAIN log[p] = 1..Len(log[p])
  BY DEF TypeOK
<1>2. Reached(c, p, j)
  BY <1>1 DEF IDelivery, LaterReached
<1>3. ~Carries(<<>>, j)
  BY DEF Carries
<1> QED BY <1>2, <1>3 DEF Reached, Resting, InHand

\* As long as streams last, whoever has an operation in a project's log has been
\* told, once all is delivered, that one and everything logged since that survived
\* its transform: for any clients, connections, projects, layers and operations,
\* whichever commits Redis refuses and whichever sessions are rejected.
THEOREM NothingIsMissing ==
  ASSUME StreamsLast PROVE SpecH => []NothingMissed
<1>1. InitH => Init /\ IDelivery
  BY InitDelivery DEF InitH
<1>2. [NextH]_varsH => [Next]_vars
  BY HistoryStep
<1>3. IStamped /\ [Next]_vars => IStamped'
  BY NextStamped
<1>4. IStamped => IType /\ TypeOK
  BY DEF IStamped, IType
<1>5. IType /\ IOnce /\ IType' /\ [Next]_vars => IOnce'
  BY NextOnce
<1>6. IOnce => Signed
  BY DEF IOnce
<1>7. IStamped /\ Signed /\ IDelivery /\ [NextH]_varsH => IDelivery'
  <2> SUFFICES ASSUME Before, [NextH]_varsH PROVE IDelivery'
    BY DEF Before
  <2>1. [Next]_vars
    BY HistoryStep
  <2> QED BY <2>1, LearnedStays, NextLasting, NextOwnLogged, NextLaterReached DEF IDelivery
<1>8. TypeOK /\ IDelivery => NothingMissed
  BY DeliveredIsLearned
<1> QED BY InitStamped, InitOnce, <1>1, <1>2, <1>3, <1>4, <1>5, <1>6, <1>7, <1>8, PTL DEF SpecH
=============================================================================
