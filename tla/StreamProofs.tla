---------------------------- MODULE StreamProofs ----------------------------
(* For any number of messages, with and without a close that wakes readers:  *)
(* what the threads of a stream never do to its queue and its stack.         *)
EXTENDS StreamThreads, SequenceTheorems, TLAPS

\* All that was queued, from the client's end on.
Line == written \o batch \o pending

Queues ==
  /\ queued \in Nat
  /\ pending \in Seq(Nat) /\ batch \in Seq(Nat) /\ written \in Seq(Nat)

\* The writer has taken something exactly while it writes; the threads that have
\* ended are those the handler has waited for.
Threads ==
  /\ batch = <<>> <=> writer # "write"
  /\ reader \in {"unsubscribe", "joinSubscriber", "returned"} => writer = "exited"
  /\ reader = "returned" => subscriber = "exited"

QInv == Queues /\ Threads /\ NothingLost
----------------------------------------------------------------------------
(* Sequences. *)

LEMMA AppendLast ==
  ASSUME NEW a \in Seq(Nat), NEW b \in Seq(Nat), NEW n \in Nat
  PROVE  a \o Append(b, n) = Append(a \o b, n)
<1>1. <<n>> \in Seq(Nat) /\ a \o b \in Seq(Nat)
  BY ConcatProperties
<1>2. Append(b, n) = b \o <<n>> /\ Append(a \o b, n) = (a \o b) \o <<n>>
  BY <1>1, AppendIsConcat
<1> QED BY <1>1, <1>2, ConcatAssociative

LEMMA MoveFirst ==
  ASSUME NEW a \in Seq(Nat), NEW b \in Seq(Nat), b # <<>>
  PROVE  /\ Append(a, Head(b)) \in Seq(Nat) /\ Tail(b) \in Seq(Nat)
         /\ Append(a, Head(b)) \o Tail(b) = a \o b
<1>1. /\ Head(b) \in Nat /\ Tail(b) \in Seq(Nat) /\ Len(Tail(b)) = Len(b) - 1
      /\ \A i \in 1..Len(Tail(b)) : Tail(b)[i] = b[i + 1]
      /\ Len(b) \in Nat \ {0} /\ Head(b) = b[1] /\ Len(a) \in Nat
  BY HeadTailProperties, EmptySeq
<1>2. /\ Append(a, Head(b)) \in Seq(Nat) /\ Len(Append(a, Head(b))) = Len(a) + 1
      /\ \A i \in 1..Len(a) : Append(a, Head(b))[i] = a[i]
      /\ Append(a, Head(b))[Len(a) + 1] = Head(b)
  BY <1>1, AppendProperties
<1> DEFINE l == Append(a, Head(b)) \o Tail(b)
           r == a \o b
<1>3. /\ l \in Seq(Nat) /\ Len(l) = Len(a) + Len(b)
      /\ \A i \in 1..Len(a) + Len(b) :
           l[i] = IF i <= Len(a) + 1 THEN Append(a, Head(b))[i] ELSE Tail(b)[i - (Len(a) + 1)]
  BY <1>1, <1>2, ConcatProperties
<1>4. /\ r \in Seq(Nat) /\ Len(r) = Len(a) + Len(b)
      /\ \A i \in 1..Len(a) + Len(b) : r[i] = IF i <= Len(a) THEN a[i] ELSE b[i - Len(a)]
  BY ConcatProperties
<1>5. ASSUME NEW i \in 1..Len(a) + Len(b) PROVE l[i] = r[i]
  <2>1. CASE i <= Len(a)
    BY <1>1, <1>2, <1>3, <1>4, <2>1
  <2>2. CASE i = Len(a) + 1
    BY <1>1, <1>2, <1>3, <1>4, <2>2
  <2>3. CASE i > Len(a) + 1
    <3>1. i - (Len(a) + 1) \in 1..Len(Tail(b)) /\ (i - (Len(a) + 1)) + 1 = i - Len(a)
      BY <1>1, <2>3
    <3>2. Tail(b)[i - (Len(a) + 1)] = b[i - Len(a)]
      BY <1>1, <3>1
    <3>3. l[i] = Tail(b)[i - (Len(a) + 1)] /\ r[i] = b[i - Len(a)]
      BY <1>1, <1>3, <1>4, <2>3
    <3> QED BY <3>2, <3>3
  <2> QED BY <1>1, <2>1, <2>2, <2>3
<1>6. l = r
  BY <1>3, <1>4, <1>5, SeqEqual
<1> QED BY <1>1, <1>2, <1>6

LEMMA OneMore == queued \in Nat => Append(InOrder, queued + 1) = [i \in 1..(queued + 1) |-> i]
<1> SUFFICES ASSUME queued \in Nat
             PROVE  Append(InOrder, queued + 1) = [i \in 1..(queued + 1) |-> i]
  OBVIOUS
<1> DEFINE more == [i \in 1..(queued + 1) |-> i]
<1>1. InOrder \in Seq(Nat) /\ Len(InOrder) = queued
  BY DEF InOrder
<1>2. /\ Append(InOrder, queued + 1) \in Seq(Nat)
      /\ Len(Append(InOrder, queued + 1)) = queued + 1
      /\ \A i \in 1..queued : Append(InOrder, queued + 1)[i] = InOrder[i]
      /\ Append(InOrder, queued + 1)[queued + 1] = queued + 1
  BY <1>1, AppendProperties
<1>3. more \in Seq(Nat) /\ Len(more) = queued + 1
  OBVIOUS
<1>4. \A i \in 1..queued + 1 : Append(InOrder, queued + 1)[i] = more[i]
  BY <1>2 DEF InOrder
<1> QED BY <1>2, <1>3, <1>4, SeqEqual
----------------------------------------------------------------------------
(* What may happen to the queue. *)

Kept == Line = InOrder => Line' = InOrder'

LEMMA PushKeeps == ASSUME Queues, push PROVE Queues' /\ Kept /\ batch' = batch
<1>1. /\ queued' = queued + 1 /\ pending' = Append(pending, queued + 1)
      /\ UNCHANGED <<batch, written>>
  BY DEF push
<1>2. queued + 1 \in Nat /\ pending' \in Seq(Nat)
  BY <1>1, AppendProperties DEF Queues
<1>3. written \o batch \in Seq(Nat)
  BY ConcatProperties DEF Queues
<1>4. Line' = Append(Line, queued + 1)
  BY <1>1, <1>2, <1>3, AppendLast DEF Line, Queues
<1>5. Append(InOrder, queued + 1) = InOrder'
  BY <1>1, OneMore DEF Queues, InOrder
<1> QED BY <1>1, <1>2, <1>4, <1>5 DEF Queues, Kept

LEMMA TakeKeeps ==
  ASSUME Queues, batch = <<>>, Take
  PROVE  Queues' /\ Kept /\ (batch' = <<>> <=> writer' # "write") /\ writer' \in {"loop", "write"}
<1>1. CASE pending = <<>>
  BY <1>1 DEF Take, queueVars, Queues, Kept, Line, InOrder
<1>2. CASE pending # <<>>
  <2>1. /\ batch' = pending /\ pending' = <<>> /\ writer' = "write"
        /\ UNCHANGED <<written, queued>>
    BY <1>2 DEF Take
  <2>2. <<>> \in Seq(Nat) /\ written \o pending \in Seq(Nat)
    BY ConcatProperties DEF Queues
  <2>3. Line = written \o pending /\ Line' = written \o pending
    BY <2>1, <2>2, ConcatEmptySeq DEF Line, Queues
  <2> QED BY <1>2, <2>1, <2>2, <2>3 DEF Queues, Kept, InOrder
<1> QED BY <1>1, <1>2

LEMMA WriteKeeps ==
  ASSUME Queues, Threads, Write
  PROVE  /\ Queues' /\ (Kept \/ cancelled)
         /\ (batch' = <<>> <=> writer' # "write") /\ writer' \in {"loop", "write"}
<1>1. batch # <<>> /\ UNCHANGED <<pending, queued>>
  BY DEF Threads, Write
<1>2. CASE /\ written' = Append(written, Head(batch)) /\ batch' = Tail(batch)
           /\ writer' = IF batch' = <<>> THEN "loop" ELSE "write"
  <2>1. /\ written' \in Seq(Nat) /\ batch' \in Seq(Nat)
        /\ written' \o batch' = written \o batch
    BY <1>1, <1>2, MoveFirst DEF Queues
  <2> QED BY <1>1, <1>2, <2>1 DEF Queues, Kept, Line, InOrder
<1>3. CASE cancelled /\ batch' = <<>> /\ writer' = "loop" /\ UNCHANGED written
  BY <1>1, <1>3 DEF Queues
<1> QED BY <1>2, <1>3 DEF Write
----------------------------------------------------------------------------
(* The three threads. *)

\* A step that leaves the writer where it is or wakes it.
Spared == writer' = writer \/ (writer = "waiting" /\ writer' = "woken")

LEMMA ReadKeeps == ASSUME QInv, Read PROVE QInv'
<1>1. push /\ Spared /\ UNCHANGED <<reader, subscriber, cancelled>>
  BY DEF Read, enqueue, push, notify, Spared, subVars, clientVars
<1>2. Queues' /\ Kept /\ batch' = batch
  BY <1>1, PushKeeps DEF QInv
<1>3. NothingLost'
  BY <1>1, <1>2 DEF QInv, NothingLost, Kept, Line
<1>4. Threads'
  BY <1>1, <1>2 DEF QInv, Threads, Spared
<1> QED BY <1>2, <1>3, <1>4 DEF QInv

LEMMA HandlerKeeps == ASSUME QInv, Handler PROVE QInv'
<1>1. UNCHANGED <<queueVars, subscriber, cancelled>> /\ Spared
  BY DEF Handler, ReadEnds, SetDone, NotifyAll, JoinWriter, Unsubscribe, JoinSubscriber,
         notify, Spared, subVars, clientVars
<1>2. Queues' /\ NothingLost'
  BY <1>1 DEF QInv, Queues, NothingLost, InOrder, queueVars
<1>3. Threads'
  BY <1>1 DEF QInv, Threads, Spared, queueVars, Handler, ReadEnds, SetDone, NotifyAll,
              JoinWriter, Unsubscribe, JoinSubscriber
<1> QED BY <1>2, <1>3 DEF QInv

LEMMA WriterKeeps == ASSUME QInv, Writer PROVE QInv'
<1>1. UNCHANGED <<reader, subscriber, cancelled>> /\ writer # "exited"
  BY DEF Writer, Test, WaitOrTake, Sleep, Timeout, Write, subVars, clientVars
<1>2. /\ Queues' /\ (Kept \/ cancelled)
      /\ (batch' = <<>> <=> writer' # "write")
  <2>1. CASE UNCHANGED queueVars /\ writer # "write" /\ writer' # "write"
    BY <2>1 DEF queueVars, QInv, Queues, Threads, Kept, Line, InOrder
  <2>2. CASE Take /\ writer # "write"
    BY <2>2, TakeKeeps DEF QInv, Threads
  <2>3. CASE Write
    BY <2>3, WriteKeeps DEF QInv
  <2> QED BY <2>1, <2>2, <2>3 DEF Writer, Test, WaitOrTake, Sleep, Timeout
<1>3. NothingLost'
  BY <1>1, <1>2 DEF QInv, NothingLost, Kept, Line
<1>4. Threads'
  BY <1>1, <1>2 DEF QInv, Threads
<1> QED BY <1>2, <1>3, <1>4 DEF QInv

\* The thread of the subscriber, and messages that reach it.
LEMMA SubscriberKeeps == ASSUME QInv, Subscriber \/ Arrive \/ ReadFails PROVE QInv'
<1>1. UNCHANGED <<reader, cancelled>> /\ subscriber # "exited" /\ Spared
  BY DEF Subscriber, Callback, NotifyOne, Loop, ReadFails, Arrive, enqueue, push, notify, Spared,
         clientVars
<1>2. UNCHANGED queueVars \/ push
  BY DEF Subscriber, Callback, NotifyOne, Loop, ReadFails, Arrive, enqueue
<1>3. UNCHANGED queueVars => Queues' /\ Kept /\ batch' = batch
  BY DEF queueVars, QInv, Queues, Kept, Line, InOrder
<1>4. Queues' /\ Kept /\ batch' = batch
  BY <1>2, <1>3, PushKeeps DEF QInv
<1>5. NothingLost'
  BY <1>1, <1>4 DEF QInv, NothingLost, Kept, Line
<1>6. Threads'
  BY <1>1, <1>4 DEF QInv, Threads, Spared
<1> QED BY <1>4, <1>5, <1>6 DEF QInv

LEMMA StreamInits == Init => QInv
<1> SUFFICES ASSUME Init PROVE QInv
  OBVIOUS
<1>1. Queues /\ Threads
  BY DEF Init, Queues, Threads
<1>2. Line = <<>> /\ InOrder = <<>>
  BY DEF Init, Line, InOrder
<1> QED BY <1>1, <1>2 DEF QInv, NothingLost, Line

LEMMA StreamSteps == QInv /\ [Next]_vars => QInv'
<1> SUFFICES ASSUME QInv, [Next]_vars PROVE QInv'
  OBVIOUS
<1>1. CASE HalfClose \/ Cancel \/ UNCHANGED vars
  <2>1. UNCHANGED <<queueVars, reader, writer, subscriber>> /\ (cancelled => cancelled')
    BY <1>1 DEF HalfClose, Cancel, vars, subVars, clientVars
  <2>2. Queues' /\ NothingLost'
    BY <2>1 DEF QInv, Queues, NothingLost, InOrder, queueVars
  <2>3. Threads'
    BY <2>1 DEF QInv, Threads, queueVars
  <2> QED BY <2>2, <2>3 DEF QInv
<1> QED BY <1>1, ReadKeeps, HandlerKeeps, WriterKeeps, SubscriberKeeps DEF Next

LEMMA StreamInvariant == Spec => []QInv
BY StreamInits, StreamSteps, PTL DEF Spec

\* Nothing is lost, doubled or overtaken between being queued and being written
\* while the client is there, whatever three threads do in between and however
\* long the stream lives.
THEOREM StreamLosesNothing == Spec => []NothingLost
<1>1. QInv => NothingLost
  BY DEF QInv
<1> QED BY <1>1, StreamInvariant, PTL

\* No thread is left on the handler's stack when it has returned.
THEOREM StackIsLeftLast == Spec => []StackOutlivesThreads
<1>1. QInv => StackOutlivesThreads
  BY DEF QInv, Threads, StackOutlivesThreads
<1> QED BY <1>1, StreamInvariant, PTL
=============================================================================
