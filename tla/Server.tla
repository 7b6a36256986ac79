------------------------------- MODULE Server -------------------------------
(***************************************************************************)
(* A server process from start to end: main, the housekeeping thread that  *)
(* the service's constructor detaches, the streams in their rooms, and     *)
(* signals, whose handler runs gRPC's Shutdown on whatever thread the      *)
(* kernel interrupts.  That thread goes on when the handler is done.       *)
(*                                                                         *)
(* gRPC: Shutdown takes the server's mutex, admits no more calls, cancels  *)
(* them after the deadline, waits until all have returned and lets Wait    *)
(* return; only then it gives up the mutex, which is not recursive.        *)
(***************************************************************************)
EXTENDS Rooms

CONSTANTS
  Takers,      \* threads that may be interrupted: main, housekeeping, streams
  MaxSignals   \* bound: signals sent

ASSUME ServerAssumption ==
  /\ Takers \subseteq {"main", "housekeeping"} \union Stream
  /\ MaxSignals \in Nat

VARIABLES
  main,      \* where main is
  shutdown,  \* what Shutdown has got to
  shutter,   \* the thread it runs on
  handlers,  \* threads inside signal_handler
  stuck,     \* the shutter waits for a mutex of its own
  signals    \* signals sent so far

mainVars == <<main, shutdown, shutter, handlers, stuck, signals>>
serverVars == <<vars, mainVars>>

ServerInit ==
  /\ Init
  /\ main = "start" /\ shutdown = "no" /\ shutter = Nobody
  /\ handlers = {} /\ stuck = FALSE /\ signals = 0

Running == main \notin {"over", "undefined"}
HasService == main \in {"built", "started", "serving", "failed", "stopped", "serverGone"}
Accepting == main \in {"started", "serving"} /\ shutdown = "no"
Inside(s) == pc[s] \notin {"new", "gone"}

\* main goes on, if it is not interrupted.
MainTo(from, to) ==
  /\ main = from /\ "main" \notin handlers
  /\ main' = to
  /\ UNCHANGED <<vars, shutdown, shutter, handlers, stuck, signals>>
----------------------------------------------------------------------------
(* main. *)

\* A number in the environment that does not parse ends the process.
load_config == \E to \in {"ready", "over"} : MainTo("start", to)

\* RendererServiceImpl: the housekeeping thread is started.
Construct == MainTo("ready", "built")

\* Calls are served from here on, or the port could not be had.
BuildAndStart == \E to \in {"started", "failed"} : MainTo("built", to)

SetServer == MainTo("started", "serving")

\* Mutant: Wait returns when the server is told to shut down.
WaitLess == shutdown # "no" /\ MainTo("serving", "stopped")

Wait == shutdown = "notified" /\ MainTo("serving", "stopped")

\* A handler may still wait for the mutex of the server that goes.
DestroyServer == MainTo("stopped", IF handlers = {} THEN "serverGone" ELSE "undefined")

\* The rooms go with the service, a sweep of them being under way or not.
DestroyService ==
  \E from \in {"serverGone", "failed"} : MainTo(from, IF sweeping THEN "undefined" ELSE "gone")

Exit == MainTo("gone", "over")

Main == \/ load_config \/ Construct \/ BuildAndStart \/ SetServer
        \/ Wait \/ DestroyServer \/ DestroyService \/ Exit
----------------------------------------------------------------------------
(* Signals. *)

\* Before main has set g_server a signal is swallowed; it never forgets g_server.
signal_handler(x) ==
  CASE main \in {"ready", "built", "started", "failed"} ->
         UNCHANGED <<main, shutdown, shutter, handlers, stuck>>
    [] main \in {"serverGone", "gone"} ->
         main' = "undefined" /\ UNCHANGED <<shutdown, shutter, handlers, stuck>>
    [] OTHER ->
         /\ shutdown' = IF shutdown = "no" THEN "draining" ELSE shutdown
         /\ shutter' = IF shutdown = "no" THEN x ELSE shutter
         /\ handlers' = handlers \union {x}
         /\ stuck' = (stuck \/ x = shutter)
         /\ UNCHANGED main

\* Until main has installed the handler a signal ends the process.
Signal(x) ==
  /\ Running /\ signals < MaxSignals
  /\ signals' = signals + 1
  /\ x = "housekeeping" => HasService \/ main = "gone"
  /\ x \in Stream => Inside(x)
  /\ IF main = "start" THEN main' = "over" /\ UNCHANGED <<shutdown, shutter, handlers, stuck>>
     ELSE signal_handler(x)
  /\ UNCHANGED vars

\* Mutant: there is no deadline.
NoDeadline == FALSE /\ UNCHANGED serverVars

\* Five seconds later: what is left of the calls is cancelled.
Deadline ==
  /\ Running /\ shutdown = "draining" /\ ~stuck
  /\ shutdown' = "cancelled"
  /\ UNCHANGED <<vars, main, shutter, handlers, stuck, signals>>

\* Shutdown is done when no call is left.
Notify ==
  /\ Running /\ shutdown \in {"draining", "cancelled"} /\ ~stuck
  /\ \A s \in Stream : ~Inside(s)
  /\ shutdown' = "notified" /\ shutter' = Nobody
  /\ handlers' = handlers \ {shutter}
  /\ UNCHANGED <<vars, main, stuck, signals>>

\* Mutant: the handler does not wait for the mutex.
ReturnsAtOnce(x) ==
  /\ Running /\ x \in handlers
  /\ handlers' = handlers \ {x}
  /\ UNCHANGED <<vars, main, shutdown, shutter, stuck, signals>>

\* The others that waited for its mutex find that it has been done.
HandlerReturns(x) ==
  /\ Running /\ x \in handlers /\ shutdown = "notified"
  /\ handlers' = handlers \ {x}
  /\ UNCHANGED <<vars, main, shutdown, shutter, stuck, signals>>

Shutdown == Deadline \/ Notify \/ \E x \in Takers : HandlerReturns(x)
----------------------------------------------------------------------------
(* Streams and housekeeping, so far as their threads are not interrupted. *)

\* The process is running, and x is not in the handler.
Runs(x) == Running /\ x \notin handlers /\ UNCHANGED mainVars

Enter(s) == Accepting /\ Runs(s) /\ Call(s)
Proceed(s) == Runs(s) /\ (get_or_create(s) \/ subscribe(s) \/ unsubscribe(s))
Connect(s) == Runs(s) /\ Subscribed(s)
End(s) == Runs(s) /\ Leave(s)
Disconnect(s) == Runs(s) /\ Unsubscribed(s)

\* The thread wakes up every ten minutes, the service being there or not.
Housekeeping ==
  \/ HasService /\ Runs("housekeeping") /\ Sweep
  \/ /\ main = "gone" /\ "housekeeping" \notin handlers
     /\ main' = "undefined"
     /\ UNCHANGED <<vars, shutdown, shutter, handlers, stuck, signals>>

ServerNext ==
  \/ Main \/ Shutdown \/ Housekeeping
  \/ \E x \in Takers : Signal(x)
  \/ \E s \in Stream : Enter(s) \/ Proceed(s) \/ Connect(s) \/ End(s) \/ Disconnect(s)

\* Threads are scheduled.  A mutex that is free again and again is had in the end
\* (between sweeps the registry's is free for ten minutes); connecting to Redis
\* returns.  A cancelled call leaves.  Joining a subscriber's thread need not
\* return (StreamThreads): Disconnect is not fair.
ServerFairness ==
  /\ WF_serverVars(Main) /\ WF_serverVars(Shutdown)
  /\ WF_serverVars(HasService /\ Housekeeping)
  /\ \A s \in Stream :
       /\ SF_serverVars(Proceed(s))
       /\ WF_serverVars(Connect(s))
       /\ WF_serverVars(shutdown = "cancelled" /\ End(s))

ServerSpec == ServerInit /\ [][ServerNext]_serverVars /\ ServerFairness
----------------------------------------------------------------------------
\* What each variable may hold: Shutdown runs on one thread, in the handler.
ServerTypeOK ==
  /\ TypeOK
  /\ main \in {"start", "ready", "built", "started", "serving", "failed", "stopped",
               "serverGone", "gone", "over", "undefined"}
  /\ shutdown \in {"no", "draining", "cancelled", "notified"}
  /\ shutter \in IF shutdown \in {"draining", "cancelled"} THEN handlers ELSE {Nobody}
  /\ handlers \subseteq Takers
  /\ stuck \in BOOLEAN /\ signals \in 0..MaxSignals

\* Threads that wait for each other for good: Shutdown for a stream it has itself
\* interrupted, for one that waits for the interrupted sweep, or for its own mutex.
Entangled ==
  \/ stuck
  \/ shutdown # "notified" /\ \E s \in Stream : s \in handlers
  \/ "housekeeping" \in handlers /\ sweeping /\ \E s \in Stream : pc[s] = "enter"

\* The service is destroyed under no call: main waits for Shutdown, and Shutdown
\* for streams that are anywhere between two mutexes when it begins.
NoCallOutlivesService ==
  main \in {"gone", "over", "undefined"} =>
    /\ \A s \in Stream : ~Inside(s)
    /\ \A r \in Room : subs[r] = {} /\ mu[r] = Nobody

\* A stream joins, for ever, a subscriber's thread that nothing wakes, and holds
\* its room's mutex.
Hangs == \E s \in Stream : [](pc[s] = "stopping")

\* A shutdown that begins ends the process, streams whose clients never leave and
\* a sweep notwithstanding, unless the signals have hit the wrong threads or a
\* stream hangs in its last join.
ShutsDown == shutdown # "no" ~> (~Running \/ Entangled \/ Hangs)

\* Streams get in, and out again, though each waits for mutexes that are held over
\* network calls, under a sweep and a shutdown: nobody who waits is waited for.
\* One stream that hangs in its join is the only other thing that keeps any.
GetsThrough ==
  /\ \A s \in Stream : pc[s] = "enter" ~> (pc[s] = "joined" \/ Entangled \/ Hangs)
  /\ \A s \in Stream : pc[s] = "unsubscribe" ~> (pc[s] = "gone" \/ Entangled \/ Hangs)

Abandoned(p) ==
  /\ rooms[p] # NoRoom
  /\ \A s \in Stream : room[s] # rooms[p]

\* A room that nobody is in any more does not stay while the process runs, unless
\* the sweep has to wait for another that a hanging stream has locked.
RoomsAreSwept ==
  \A p \in Project : Abandoned(p) ~> (~Abandoned(p) \/ ~Running \/ Entangled \/ Hangs)

\* server.cpp, "initiating graceful shutdown": every signal that is handled leads
\* to the end of the process.
SignalsEndIt == signals > 0 ~> ~Running

\* Nothing is used that main has destroyed.
NothingFreedIsUsed == main # "undefined"
=============================================================================
