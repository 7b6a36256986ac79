--------------------------- MODULE CollabHistory ----------------------------
(***************************************************************************)
(* Collab with two history variables, so that what a client has been told  *)
(* can be spoken of: what it learned, and what it has to learn.            *)
(***************************************************************************)
EXTENDS Collab

VARIABLES learned,  \* client -> pairs <<project, message with a revision>> received
          due       \* stream -> operations committed while it was subscribed

varsH == <<vars, learned, due>>

InitH == Init /\ learned = [c \in Client |-> {}] /\ due = [s \in Stream |-> {}]

NoteMessage(s) ==
  LET op == Head(out[s]) IN
  learned' = IF op.rev = 0 THEN learned
             ELSE [learned EXCEPT ![s[1]] = @ \union {<<project[s], op>>}]

\* A cancelled operation is due to its sender alone.
NoteCommit(s) ==
  due' = [t \in Stream |->
            IF t = s \/ (subscribed[t] /\ project[t] = project[s] /\ cur'[s].type # "NOOP")
            THEN due[t] \union {StrokeId(cur'[s])} ELSE due[t]]

NextH ==
  \/ \E s \in Stream : onMessage(s) /\ NoteMessage(s) /\ UNCHANGED due
  \/ \E s \in Stream : Commit(s) /\ NoteCommit(s) /\ UNCHANGED learned
  \/ /\ \/ \E c \in Client : User(c)
        \/ \E s \in Stream :
             \/ Join(s) \/ Reject(s) \/ Greet(s) \/ Forward(s) \/ CommitFails(s)
             \/ ReplyLost(s) \/ Ack(s) \/ Broadcast(s) \/ Leave(s)
             \/ Deliver(s) \/ LoseSubscriber(s)
        \/ LoseRedis
        \/ Crash
     /\ UNCHANGED <<learned, due>>

SpecH == InitH /\ [][NextH]_varsH

\* The fairness of Collab: what one of its steps may note does not matter.
FairSpecH == SpecH /\ Fairness
----------------------------------------------------------------------------
Service == INSTANCE Sequencer WITH oplog <- log, known <- learned

\* The handlers, the Redis script and the channels together implement the
\* sequencer, whatever fails.
ImplementsSequencer == Service!Spec

\* When all is delivered, whoever has an operation in a project's log has been told
\* that one and all that were logged since and survived their transform: commits,
\* acknowledgements and broadcasts overtaking one another lose none of them.
NothingMissed ==
  Resting =>
    \A p \in Project : \A c \in Client : \A i, j \in DOMAIN log[p] :
      LET op == CommittedOp(log[p], j)
      IN  log[p][i].session = Token(c) /\ i <= j /\ op.type # "NOOP" => <<p, op>> \in learned[c]

\* Nothing committed is forgotten on the way: whoever was subscribed when an
\* operation was committed is eventually told it, if all keep running.
EveryoneLearns ==
  \A s \in Stream, c \in Client : \A n \in 1..MaxSend[c] :
    <<Token(c), n>> \in due[s] ~> \E m \in learned[s[1]] : StrokeId(m[2]) = <<Token(c), n>>

\* Every operation a client sends is eventually in the log.
EverySendIsLogged ==
  \A c \in Client : \A n \in 1..MaxSend[c] :
    sent[c] >= n ~> \E p \in Project : \E i \in DOMAIN log[p] : StrokeId(log[p][i]) = <<Token(c), n>>

\* "Every outgoing op carries base_revision (what revision the client was at
\* when the op was made)" (renderer.js): the sender has been told every operation
\* of the project up to that revision that survived its transform.
BaseIsKnown ==
  \A s \in Stream : \A i \in DOMAIN inbox[s] : \A r \in 1..inbox[s][i].base :
    LET m == <<project[s], CommittedOp(log[project[s]], r)>>
    IN  m[2].type = "NOOP" \/ m \in learned[s[1]]
=============================================================================
