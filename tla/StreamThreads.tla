--------------------------- MODULE StreamThreads ----------------------------
(***************************************************************************)
(* Inside one stream.  Collaborate: the handler's own thread reads, a      *)
(* writer thread sends what is queued in `pending`, and the thread of the  *)
(* RedisSubscriber queues what other clients published.  The queue lives   *)
(* on the handler's stack, guarded by write_mu and signalled by write_cv;  *)
(* `done` is a plain flag that no lock guards.  JoinRoom: nothing is read, *)
(* the handler's thread is itself the writer (the reader waits for it from *)
(* the start), and the callback notifies after it has given up the lock.   *)
(*                                                                         *)
(* A critical section of write_mu is one action, but for the writer's      *)
(* wait: what no lock guards can happen between its test and its sleep.    *)
(* Messages are numbered in the order in which they are queued.            *)
(***************************************************************************)
EXTENDS Integers, Sequences

CONSTANT MaxQueued    \* bound: messages queued in all

ASSUME StreamAssumption == MaxQueued \in Nat

VARIABLES
  call,         \* which handler it is
  pending,      \* the queue
  batch,        \* what the writer has taken and not written yet
  written,      \* what the client has been sent
  queued,       \* messages queued so far
  done,         \* the flag
  reader,       \* where the handler's thread is
  writer,       \* where the writer thread is
  subscriber,   \* where the subscriber thread is
  stop,         \* its stop_ flag
  socketOpen,   \* its connection
  halfClosed,   \* the client will send no more
  cancelled     \* the call is cancelled: the client is gone

queueVars == <<pending, batch, written, queued>>
subVars == <<subscriber, stop, socketOpen>>
clientVars == <<call, halfClosed, cancelled>>
vars == <<queueVars, done, reader, writer, subVars, clientVars>>

\* A stream that has just been joined.
Init ==
  /\ call \in {"Collaborate", "JoinRoom"}
  /\ pending = <<>> /\ batch = <<>> /\ written = <<>> /\ queued = 0
  /\ done = FALSE
  /\ reader = IF call = "Collaborate" THEN "read" ELSE "join"
  /\ writer = "loop" /\ subscriber = "blocked" /\ stop = FALSE /\ socketOpen = TRUE
  /\ halfClosed = FALSE /\ cancelled = FALSE

\* A push waits for the lock, which the writer keeps from the test of its
\* predicate until it sleeps.
push ==
  /\ queued < MaxQueued
  /\ writer # "sleeping"
  /\ queued' = queued + 1
  /\ pending' = Append(pending, queued')
  /\ UNCHANGED <<batch, written, done, clientVars>>

notify == writer' = IF writer = "waiting" THEN "woken" ELSE writer

\* Both under the lock.
enqueue == push /\ notify
----------------------------------------------------------------------------
(* The handler's thread. *)

\* An operation is read and its acknowledgement queued.
Read ==
  /\ reader = "read" /\ ~cancelled /\ ~halfClosed
  /\ enqueue
  /\ UNCHANGED <<reader, subVars>>

ReadEnds ==
  /\ reader = "read" /\ (cancelled \/ halfClosed)
  /\ reader' = "finish"
  /\ UNCHANGED <<queueVars, done, writer, subVars, clientVars>>

\* done = true; the writer may read it at any moment from now on.
SetDone ==
  /\ reader = "finish"
  /\ done' = TRUE
  /\ reader' = "notify"
  /\ UNCHANGED <<queueVars, writer, subVars, clientVars>>

NotifyAll ==
  /\ reader = "notify"
  /\ notify
  /\ reader' = "join"
  /\ UNCHANGED <<queueVars, done, subVars, clientVars>>

JoinWriter ==
  /\ reader = "join" /\ writer = "exited"
  /\ reader' = "unsubscribe"
  /\ UNCHANGED <<queueVars, done, writer, subVars, clientVars>>

\* ~RedisSubscriber: raise stop_ and close the connection ...
Unsubscribe ==
  /\ reader = "unsubscribe"
  /\ stop' = TRUE /\ socketOpen' = FALSE
  /\ reader' = "joinSubscriber"
  /\ UNCHANGED <<queueVars, done, writer, subscriber, clientVars>>

\* Mutant: ... and leave the thread to itself.
DetachSubscriber ==
  /\ reader = "joinSubscriber"
  /\ reader' = "returned"
  /\ UNCHANGED <<queueVars, done, writer, subVars, clientVars>>

\* ... then join the thread; the handler returns and its stack is gone.
JoinSubscriber ==
  /\ reader = "joinSubscriber" /\ subscriber = "exited"
  /\ reader' = "returned"
  /\ UNCHANGED <<queueVars, done, writer, subVars, clientVars>>

Handler == ReadEnds \/ SetDone \/ NotifyAll \/ JoinWriter \/ Unsubscribe \/ JoinSubscriber
----------------------------------------------------------------------------
(* The writer thread. *)

Test ==
  /\ writer = "loop"
  /\ writer' = IF done \/ cancelled THEN "exited" ELSE "enter"
  /\ UNCHANGED <<queueVars, done, reader, subVars, clientVars>>

\* Mutant: the queue is not emptied by taking it.
TakeCopy == IF pending = <<>> THEN writer' = "loop" /\ UNCHANGED queueVars
            ELSE batch' = pending /\ writer' = "write" /\ UNCHANGED <<pending, written, queued>>

\* After the wait: take all that is queued, or start over.
Take == IF pending = <<>>
        THEN writer' = "loop" /\ UNCHANGED queueVars
        ELSE /\ batch' = pending /\ pending' = <<>> /\ writer' = "write"
             /\ UNCHANGED <<written, queued>>

\* wait_for tests its predicate first, and again each time it is notified ...
WaitOrTake ==
  /\ writer \in {"enter", "woken"}
  /\ IF pending # <<>> \/ done THEN Take ELSE writer' = "sleeping" /\ UNCHANGED queueVars
  /\ UNCHANGED <<done, reader, subVars, clientVars>>

\* ... and gives up the lock when it sleeps; a notification before is lost.
Sleep ==
  /\ writer = "sleeping"
  /\ writer' = "waiting"
  /\ UNCHANGED <<queueVars, done, reader, subVars, clientVars>>

\* Mutant: there is no time limit, only a notification ends the wait.
NoTimeout == FALSE /\ UNCHANGED vars

\* 100 ms have passed.
Timeout ==
  /\ writer = "waiting"
  /\ Take
  /\ UNCHANGED <<done, reader, subVars, clientVars>>

\* Mutant: one message is written of what was taken.
WriteOne ==
  /\ writer = "write"
  /\ written' = Append(written, Head(batch))
  /\ batch' = <<>>
  /\ writer' = "loop"
  /\ UNCHANGED <<done, pending, queued, reader, subVars, clientVars>>

Write ==
  /\ writer = "write"
  /\ \/ /\ written' = Append(written, Head(batch))
        /\ batch' = Tail(batch)
        /\ writer' = IF batch' = <<>> THEN "loop" ELSE "write"
        /\ UNCHANGED done
     \/ /\ cancelled                      \* the write fails
        /\ done' = TRUE
        /\ batch' = <<>>
        /\ writer' = "loop"
        /\ UNCHANGED written
  /\ UNCHANGED <<pending, queued, reader, subVars, clientVars>>

Writer == Test \/ WaitOrTake \/ Sleep \/ Timeout \/ Write
----------------------------------------------------------------------------
(* The subscriber thread and the outside. *)

\* A message arrives for the blocking read.  One that was under way when the
\* connection was closed may still get it: the context is freed under it, and
\* what it does then is undefined (if the process dies, all of this ends).
Arrive ==
  /\ subscriber = "blocked"
  /\ subscriber' = "callback"
  /\ queued < MaxQueued
  /\ UNCHANGED <<queueVars, done, reader, writer, stop, socketOpen, clientVars>>

\* The callback queues it on the handler's stack ...
Callback ==
  /\ subscriber = "callback"
  /\ \/ queued = MaxQueued /\ UNCHANGED <<queueVars, done, writer, clientVars>>
     \/ call = "Collaborate" /\ enqueue
     \/ call = "JoinRoom" /\ push /\ UNCHANGED writer
  /\ subscriber' = IF call = "Collaborate" THEN "loop" ELSE "notify"
  /\ UNCHANGED <<reader, stop, socketOpen>>

\* ... and JoinRoom's notifies when it has given up the lock.
NotifyOne ==
  /\ subscriber = "notify"
  /\ notify
  /\ subscriber' = "loop"
  /\ UNCHANGED <<queueVars, done, reader, stop, socketOpen, clientVars>>

Loop ==
  /\ subscriber = "loop"
  /\ subscriber' = IF stop THEN "exited" ELSE "blocked"
  /\ UNCHANGED <<queueVars, done, reader, writer, stop, socketOpen, clientVars>>

\* A read that only begins when the connection is closed may fail, and so may one
\* that a message has woken.  Nothing says that one under way ever does: close()
\* does not wake a thread that sleeps in recv().
ReadFails ==
  /\ subscriber = "blocked" /\ ~socketOpen
  /\ subscriber' = "exited"
  /\ UNCHANGED <<queueVars, done, reader, writer, stop, socketOpen, clientVars>>

Subscriber == Callback \/ NotifyOne \/ Loop

HalfClose == /\ call = "Collaborate"
             /\ ~halfClosed /\ halfClosed' = TRUE
             /\ UNCHANGED <<queueVars, done, reader, writer, subVars, call, cancelled>>

Cancel == /\ ~cancelled /\ cancelled' = TRUE
          /\ UNCHANGED <<queueVars, done, reader, writer, subVars, call, halfClosed>>

Next == Read \/ Handler \/ Writer \/ Subscriber \/ Arrive \/ ReadFails \/ HalfClose \/ Cancel

\* Threads are scheduled and the timer of wait_for runs; what clients do and
\* what others publish is up to them, and whether a read ends, to the kernel.
Fairness == WF_vars(Handler) /\ WF_vars(Writer) /\ WF_vars(Subscriber)

Spec == Init /\ [][Next]_vars
FairSpec == Spec /\ Fairness
----------------------------------------------------------------------------
\* Three threads share the queue, and yet until the client goes away nothing is
\* lost, doubled or overtaken between being queued and being written.
InOrder == [i \in 1..queued |-> i]
NothingLost == ~cancelled => written \o batch \o pending = InOrder

\* The callback and the writer use the handler's stack: neither is inside when
\* the handler has returned, whatever was published in the meantime.
StackOutlivesThreads == reader = "returned" => subscriber = "exited" /\ writer = "exited"

\* The handler has closed the connection and joins a thread still reading from it.
Unwoken == reader = "joinSubscriber" /\ ~socketOpen /\ subscriber = "blocked"

\* Once its client stops sending or is gone the handler gets through to its end,
\* although nothing orders the flag, the notification and the writer's test of
\* them.  Only the last join may keep it, for ever, and only while the subscriber
\* is in its read.
Returns == (halfClosed \/ cancelled) ~> (reader = "returned" \/ []Unwoken)

\* redis_client.cpp, in the destructor: "Closing the context wakes the blocking
\* redisGetReply".
ClosingWakes == ~socketOpen ~> subscriber # "blocked"

\* What is queued is sent, so long as the client keeps the call open.
Sent == \A k \in 1..MaxQueued :
          queued >= k ~> Len(written) >= k \/ halfClosed \/ cancelled

\* service.cpp: "Writer thread flushes pending outbound messages to client": a
\* client that ends its side and waits gets all that was queued for it.
Flushed == reader = "returned" /\ ~cancelled => written = InOrder
=============================================================================
