---------------------------- MODULE ServerProofs ----------------------------
(* For any streams, projects and threads that signals may hit: what holds of *)
(* rooms whoever sweeps them, and of a service that is being shut down.      *)
EXTENDS Server, FiniteSetTheorems, TLAPS

\* Streams that have been given a room, now or before.
Through == {s \in Stream : pc[s] \notin {"new", "enter"}}

\* Who is between a room's two critical sections holds its mutex, and nobody else.
Locks ==
  \A r \in Room, s \in Stream :
    mu[r] = s <=> room[s] = r /\ pc[s] \in {"connecting", "stopping"}

\* Rooms are created for streams, so their numbers do not run out.
RInv == TypeOK /\ NoGhosts /\ Locks /\ created <= Cardinality(Through)

Held == {"subscribe", "connecting", "joined", "unsubscribe", "stopping"}

LEMMA ThroughFacts ==
  ASSUME NEW S \in SUBSET Stream
  PROVE  /\ IsFiniteSet(S) /\ Cardinality(S) \in Nat
         /\ Cardinality(S) <= Cardinality(Stream) /\ Cardinality(Stream) \in Nat
BY RoomsAssumption, FS_Subset, FS_CardinalityType

LEMMA RoomFacts == NoRoom \notin Room
BY FS_CardinalityType, RoomsAssumption DEF NoRoom, Room

LEMMA InitRooms == Init => RInv
<1> SUFFICES ASSUME Init PROVE RInv
  OBVIOUS
<1>1. TypeOK
  <2>1. 0 \in 0..Cardinality(Stream)
    BY ThroughFacts
  <2> QED BY <2>1 DEF Init, TypeOK
<1>2. NoGhosts /\ Locks
  BY RoomsAssumption DEF Init, NoGhosts, Locks
<1>3. Through \subseteq Stream
  BY DEF Through
<1>4. created <= Cardinality(Through)
  BY <1>3, ThroughFacts DEF Init
<1> QED BY <1>1, <1>2, <1>4 DEF RInv
----------------------------------------------------------------------------
(* What a stream's step does to the numbering of rooms. *)

LEMMA SameThrough ==
  ASSUME RInv, created' = created, Through' = Through
  PROVE  created' <= Cardinality(Through')
BY DEF RInv

LEMMA GetType ==
  ASSUME RInv, NEW s \in Stream, get_or_create(s)
  PROVE  /\ created' \in 0..Cardinality(Stream) /\ created' <= Cardinality(Through')
         /\ rooms' \in [Project -> Room \union {NoRoom}]
         /\ rooms'[project[s]] \in Room
<1>1. Through' = Through \union {s} /\ s \notin Through
  BY DEF get_or_create, Through, RInv, TypeOK
<1>2. Through \subseteq Stream /\ Through' \subseteq Stream
  BY DEF Through, RInv, TypeOK, get_or_create
<1>3. Cardinality(Through') = Cardinality(Through) + 1
  BY <1>1, <1>2, ThroughFacts, FS_AddElement
<1>4. /\ Cardinality(Through) \in Nat /\ Cardinality(Through') <= Cardinality(Stream)
      /\ Cardinality(Stream) \in Nat
  BY <1>2, ThroughFacts
<1>5. created \in Nat /\ created <= Cardinality(Through) /\ project[s] \in Project
      /\ rooms \in [Project -> Room \union {NoRoom}]
  BY <1>4 DEF RInv, TypeOK
<1>6. created' \in {created, created + 1}
  BY DEF get_or_create
<1>7. CASE rooms[project[s]] = NoRoom
  <2>1. created' = created + 1 /\ rooms' = [rooms EXCEPT ![project[s]] = created']
    BY <1>7 DEF get_or_create
  <2>2. created' \in Room
    BY <2>1, <1>3, <1>4, <1>5 DEF Room
  <2> QED BY <2>1, <2>2, <1>3, <1>4, <1>5
<1>8. CASE rooms[project[s]] # NoRoom
  <2>1. created' = created /\ rooms' = rooms
    BY <1>8 DEF get_or_create
  <2> QED BY <2>1, <1>3, <1>4, <1>5, <1>8
<1> QED BY <1>7, <1>8
----------------------------------------------------------------------------
(* Each step of Rooms. *)

LEMMA Calls == ASSUME RInv, NEW s \in Stream, Call(s) PROVE RInv'
<1>1. Through' = Through
  BY DEF Call, Through, RInv, TypeOK
<1>2. TypeOK'
  BY DEF RInv, TypeOK, Call, roomVars, sweepVars
<1>3. NoGhosts' /\ Locks'
  BY DEF RInv, TypeOK, NoGhosts, Locks, Call, roomVars
<1> QED BY <1>1, <1>2, <1>3, SameThrough DEF RInv, Call

LEMMA Gets == ASSUME RInv, NEW s \in Stream, get_or_create(s) PROVE RInv'
<1>1. /\ pc[s] = "enter" /\ pc' = [pc EXCEPT ![s] = "subscribe"]
      /\ room' = [room EXCEPT ![s] = rooms'[project[s]]]
      /\ UNCHANGED <<roomVars, project, sweepVars>>
  BY DEF get_or_create
<1>2. TypeOK'
  BY <1>1, GetType, RoomFacts DEF RInv, TypeOK, roomVars, sweepVars
<1>3. NoGhosts' /\ Locks'
  BY <1>1 DEF RInv, TypeOK, NoGhosts, Locks, roomVars
<1> QED BY <1>2, <1>3, GetType DEF RInv

LEMMA Subscribes ==
  ASSUME RInv, NEW s \in Stream, subscribe(s) \/ unsubscribe(s)
  PROVE  RInv'
<1>1. PICK next \in {"connecting", "stopping"} :
        /\ pc[s] \in {"subscribe", "unsubscribe"} /\ Lock(s, next)
        /\ next = IF pc[s] = "subscribe" THEN "connecting" ELSE "stopping"
  BY DEF subscribe, unsubscribe
<1>2. room[s] \in Room /\ mu[room[s]] = Nobody
  BY <1>1 DEF RInv, TypeOK, Lock
<1>3. Through' = Through
  BY <1>1 DEF Lock, Through, RInv, TypeOK
<1>4. TypeOK'
  BY <1>1, <1>2 DEF RInv, TypeOK, Lock, sweepVars
<1>5. NoGhosts'
  BY <1>1 DEF RInv, TypeOK, NoGhosts, Lock
<1>6. Locks'
  BY <1>1, <1>2, RoomsAssumption DEF RInv, TypeOK, Locks, Lock
<1> QED BY <1>1, <1>3, <1>4, <1>5, <1>6, SameThrough DEF RInv, Lock

LEMMA Subscribing == ASSUME RInv, NEW s \in Stream, Subscribed(s) PROVE RInv'
<1>1. room[s] \in Room /\ mu[room[s]] = s
  BY DEF RInv, TypeOK, Locks, Subscribed
<1>2. Through' = Through
  BY DEF Subscribed, Through, RInv, TypeOK
<1>3. TypeOK'
  BY <1>1 DEF RInv, TypeOK, Subscribed, sweepVars
<1>4. NoGhosts'
  BY <1>1 DEF RInv, TypeOK, NoGhosts, Subscribed
<1>5. Locks'
  BY <1>1, RoomsAssumption DEF RInv, TypeOK, Locks, Subscribed
<1> QED BY <1>2, <1>3, <1>4, <1>5, SameThrough DEF RInv, Subscribed

LEMMA Leaves == ASSUME RInv, NEW s \in Stream, Leave(s) PROVE RInv'
<1>1. Through' = Through
  BY DEF Leave, Through, RInv, TypeOK
<1>2. TypeOK'
  BY DEF RInv, TypeOK, Leave, roomVars, sweepVars
<1>3. NoGhosts' /\ Locks'
  BY DEF RInv, TypeOK, NoGhosts, Locks, Leave, roomVars
<1> QED BY <1>1, <1>2, <1>3, SameThrough DEF RInv, Leave

LEMMA Unsubscribing == ASSUME RInv, NEW s \in Stream, Unsubscribed(s) PROVE RInv'
<1>1. room[s] \in Room /\ mu[room[s]] = s
  BY DEF RInv, TypeOK, Locks, Unsubscribed
<1>2. Through' = Through
  BY DEF Unsubscribed, Through, RInv, TypeOK
<1>3. TypeOK'
  BY <1>1 DEF RInv, TypeOK, Unsubscribed, sweepVars
<1>4. NoGhosts'
  BY <1>1, RoomFacts DEF RInv, TypeOK, NoGhosts, Unsubscribed
<1>5. Locks'
  BY <1>1, RoomsAssumption, RoomFacts DEF RInv, TypeOK, Locks, Unsubscribed
<1> QED BY <1>2, <1>3, <1>4, <1>5, SameThrough DEF RInv, Unsubscribed

\* The sweep removes rooms from the registry under the streams that hold them:
\* what streams do to a room does not go by the registry.
LEMMA Sweeps == ASSUME RInv, Sweep PROVE RInv'
<1>1. UNCHANGED <<created, roomVars, streamVars>>
  BY DEF Sweep, StartSweep, EndSweep, Look, Erase
<1>2. Through' = Through
  BY <1>1 DEF Through, streamVars
<1>3. /\ rooms' \in [Project -> Room \union {NoRoom}] /\ sweeping' \in BOOLEAN
      /\ todo' \subseteq Project /\ empty' \subseteq Project
  BY DEF RInv, TypeOK, Sweep, StartSweep, EndSweep, Look, Erase
<1>4. TypeOK'
  BY <1>1, <1>3 DEF RInv, TypeOK, roomVars, streamVars
<1>5. NoGhosts' /\ Locks'
  BY <1>1 DEF RInv, NoGhosts, Locks, roomVars, streamVars
<1> QED BY <1>1, <1>2, <1>4, <1>5, SameThrough DEF RInv

LEMMA RoomsStep == RInv /\ [Next]_vars => RInv'
<1>1. RInv /\ UNCHANGED vars => RInv'
  BY DEF vars, roomVars, streamVars, sweepVars, RInv, TypeOK, NoGhosts, Locks, Through
<1> QED BY <1>1, Calls, Gets, Subscribes, Subscribing, Leaves, Unsubscribing, Sweeps DEF Next
----------------------------------------------------------------------------
(* The process.  Whatever happens in it is a step of the rooms or none. *)

\* Before main serves there are no calls, and after it has waited there are
\* none left: Shutdown has seen them go.
Guarded ==
  /\ main \in {"start", "ready", "built", "failed"} =>
       shutdown = "no" /\ \A s \in Stream : pc[s] = "new"
  /\ main \in {"stopped", "serverGone"} => shutdown = "notified"
  /\ shutdown = "notified" \/ main \in {"gone", "over", "undefined"} =>
       \A s \in Stream : ~Inside(s)

SInv == ServerTypeOK /\ RInv /\ Guarded

LEMMA ServerInits == ServerInit => SInv
<1> SUFFICES ASSUME ServerInit PROVE SInv
  OBVIOUS
<1>1. RInv /\ TypeOK
  BY InitRooms DEF ServerInit, RInv
<1>2. ServerTypeOK
  <2>1. shutter \in IF shutdown \in {"draining", "cancelled"} THEN handlers ELSE {Nobody}
    BY DEF ServerInit
  <2>2. signals \in 0..MaxSignals
    BY ServerAssumption DEF ServerInit
  <2>3. handlers \subseteq Takers /\ stuck \in BOOLEAN
    BY DEF ServerInit
  <2> QED BY <1>1, <2>1, <2>2, <2>3 DEF ServerInit, ServerTypeOK
<1>3. Guarded
  BY DEF ServerInit, Init, Guarded
<1> QED BY <1>1, <1>2, <1>3 DEF SInv

\* main waits for Shutdown, and passes what it finds.
LEMMA MainSteps ==
  ASSUME SInv, Main
  PROVE  (TypeOK' => ServerTypeOK') /\ Guarded'
<1>1. /\ UNCHANGED <<vars, shutdown, shutter, handlers, stuck, signals>>
      /\ main' \in {"ready", "over", "built", "started", "failed", "serving", "stopped",
                    "serverGone", "undefined", "gone"}
  BY DEF Main, MainTo, load_config, Construct, BuildAndStart, SetServer, Wait, DestroyServer,
         DestroyService, Exit
<1>2. TypeOK' => ServerTypeOK'
  BY <1>1 DEF SInv, ServerTypeOK
<1>3. \A s \in Stream : Inside(s)' <=> Inside(s)
  BY <1>1 DEF vars, streamVars, Inside
<1>4. pc' = pc
  BY <1>1 DEF vars, streamVars
<1>5. Guarded'
  BY <1>1, <1>3, <1>4
     DEF SInv, Guarded, Inside, Main, MainTo, load_config, Construct, BuildAndStart, SetServer,
         Wait, DestroyServer, DestroyService, Exit
<1> QED BY <1>2, <1>5

LEMMA SignalSteps ==
  ASSUME SInv, NEW x \in Takers, Signal(x)
  PROVE  (TypeOK' => ServerTypeOK') /\ Guarded'
<1>1. signals' \in 0..MaxSignals /\ UNCHANGED vars /\ Running
  BY ServerAssumption DEF Signal, SInv, ServerTypeOK
<1>2. pc' = pc /\ \A s \in Stream : Inside(s)' <=> Inside(s)
  BY <1>1 DEF vars, streamVars, Inside
<1>3. CASE UNCHANGED <<shutdown, shutter, handlers, stuck>>
           /\ \/ main' = main
              \/ main = "start" /\ main' = "over"
              \/ main \in {"serverGone", "gone"} /\ main' = "undefined"
  <2>1. TypeOK' => ServerTypeOK'
    BY <1>1, <1>3 DEF SInv, ServerTypeOK
  <2>2. Guarded'
    BY <1>2, <1>3 DEF SInv, Guarded, Inside
  <2> QED BY <2>1, <2>2
<1>4. CASE /\ main \in {"serving", "stopped"} /\ main' = main
           /\ shutdown' = IF shutdown = "no" THEN "draining" ELSE shutdown
           /\ shutter' = IF shutdown = "no" THEN x ELSE shutter
           /\ handlers' = handlers \union {x}
           /\ stuck' = (stuck \/ x = shutter)
  <2>1. TypeOK' => ServerTypeOK'
    <3>1. stuck' \in BOOLEAN
      BY <1>4
    <3>2. shutter' \in IF shutdown' \in {"draining", "cancelled"} THEN handlers' ELSE {Nobody}
      BY <1>4 DEF SInv, ServerTypeOK
    <3> QED BY <1>1, <1>4, <3>1, <3>2 DEF SInv, ServerTypeOK
  <2>2. Guarded'
    BY <1>2, <1>4 DEF SInv, Guarded, Inside
  <2> QED BY <2>1, <2>2
<1> QED BY <1>1, <1>3, <1>4 DEF Signal, signal_handler, Running, SInv, ServerTypeOK

LEMMA ShutdownSteps ==
  ASSUME SInv, Shutdown
  PROVE  (TypeOK' => ServerTypeOK') /\ Guarded'
<1>1. /\ UNCHANGED <<vars, main, stuck, signals>> /\ handlers' \subseteq handlers
      /\ \/ shutdown = "draining" /\ shutdown' = "cancelled" /\ UNCHANGED <<shutter, handlers>>
         \/ /\ shutdown \in {"draining", "cancelled"} /\ shutdown' = "notified"
            /\ shutter' = Nobody /\ \A s \in Stream : ~Inside(s)
         \/ shutdown = "notified" /\ UNCHANGED <<shutdown, shutter>>
  BY DEF Shutdown, Deadline, Notify, HandlerReturns
<1>2. pc' = pc /\ \A s \in Stream : Inside(s)' <=> Inside(s)
  BY <1>1 DEF vars, streamVars, Inside
<1>3. TypeOK' => ServerTypeOK'
  BY <1>1 DEF SInv, ServerTypeOK
<1>4. Guarded'
  BY <1>1, <1>2 DEF SInv, Guarded, Inside
<1> QED BY <1>3, <1>4

\* A stream that is outside only gets in while calls are accepted.
LEMMA StreamSteps ==
  ASSUME SInv, NEW s \in Stream,
         Enter(s) \/ Proceed(s) \/ Connect(s) \/ End(s) \/ Disconnect(s)
  PROVE  (TypeOK' => ServerTypeOK') /\ Guarded'
<1>1. UNCHANGED mainVars
  BY DEF Enter, Proceed, Connect, End, Disconnect, Runs
<1>2. TypeOK' => ServerTypeOK'
  BY <1>1 DEF mainVars, SInv, ServerTypeOK
<1>3. DOMAIN pc = Stream /\ Running
  BY DEF SInv, RInv, TypeOK, Enter, Proceed, Connect, End, Disconnect, Runs
<1>4. CASE Enter(s)
  BY <1>1, <1>2, <1>4 DEF Enter, Accepting, mainVars, SInv, Guarded
<1>5. CASE Proceed(s) \/ Connect(s) \/ End(s) \/ Disconnect(s)
  <2>1. /\ Inside(s) /\ pc[s] # "new"
        /\ \A t \in Stream : t # s => pc'[t] = pc[t]
    BY <1>3, <1>5
       DEF Proceed, Connect, End, Disconnect, get_or_create, subscribe, Subscribed, Leave,
           unsubscribe, Unsubscribed, Lock, Inside
  <2> QED BY <1>1, <1>2, <2>1 DEF mainVars, SInv, Guarded, Inside
<1> QED BY <1>2, <1>4, <1>5

LEMMA HousekeepingSteps ==
  ASSUME SInv, Housekeeping
  PROVE  (TypeOK' => ServerTypeOK') /\ Guarded'
<1>1. /\ UNCHANGED <<streamVars, shutdown, shutter, handlers, stuck, signals>>
      /\ main' = main \/ (main = "gone" /\ main' = "undefined")
  BY DEF Housekeeping, Runs, mainVars, vars, Sweep, StartSweep, EndSweep, Look, Erase
<1>2. TypeOK' => ServerTypeOK'
  BY <1>1 DEF SInv, ServerTypeOK
<1>3. Guarded'
  BY <1>1 DEF SInv, Guarded, Inside, streamVars
<1> QED BY <1>2, <1>3

LEMMA ServerSteps == SInv /\ [ServerNext]_serverVars => SInv'
<1> SUFFICES ASSUME SInv, [ServerNext]_serverVars PROVE SInv'
  OBVIOUS
<1>1. [Next]_vars
  BY DEF ServerNext, serverVars, Main, MainTo, load_config, Construct, BuildAndStart, SetServer,
         Wait, DestroyServer, DestroyService, Exit, Shutdown, Deadline, Notify, HandlerReturns,
         Housekeeping, Signal, Enter, Proceed, Connect, End, Disconnect, Runs, Next
<1>2. RInv' /\ TypeOK'
  BY <1>1, RoomsStep DEF SInv, RInv
<1>3. UNCHANGED serverVars => ServerTypeOK' /\ Guarded'
  BY <1>2 DEF serverVars, mainVars, vars, streamVars, SInv, ServerTypeOK, Guarded, Inside
<1>4. ServerTypeOK' /\ Guarded'
  BY <1>2, <1>3, MainSteps, SignalSteps, ShutdownSteps, StreamSteps, HousekeepingSteps
     DEF ServerNext
<1> QED BY <1>2, <1>4 DEF SInv

LEMMA ServerInvariant == ServerSpec => []SInv
BY ServerInits, ServerSteps, PTL DEF ServerSpec
----------------------------------------------------------------------------
\* What each variable may hold, for any streams, projects and signals.
THEOREM TypesOfServer == ServerSpec => []ServerTypeOK
<1>1. SInv => ServerTypeOK
  BY DEF SInv
<1> QED BY <1>1, ServerInvariant, PTL

\* A stream is subscribed in the room it holds and in no other, whatever is swept
\* away in the meantime, and in none when it has left.
THEOREM ServerHasNoGhosts == ServerSpec => []NoGhosts
<1>1. SInv => NoGhosts
  BY DEF SInv, RInv
<1> QED BY <1>1, ServerInvariant, PTL

\* The service is destroyed under no call, whichever threads the signals hit and
\* whether or not the streams' subscribers are ever woken.
THEOREM ServiceOutlivesCalls == ServerSpec => []NoCallOutlivesService
<1>1. SInv => NoCallOutlivesService
  <2> SUFFICES ASSUME SInv, main \in {"gone", "over", "undefined"}
               PROVE  /\ \A s \in Stream : ~Inside(s)
                      /\ \A r \in Room : subs[r] = {} /\ mu[r] = Nobody
    BY DEF NoCallOutlivesService
  <2>1. \A s \in Stream : ~Inside(s)
    BY DEF SInv, Guarded
  <2>2. \A r \in Room : subs[r] = {}
    BY <2>1 DEF SInv, RInv, NoGhosts, Inside
  <2>3. \A r \in Room : mu[r] = Nobody
    BY <2>1 DEF SInv, RInv, TypeOK, Locks, Inside
  <2> QED BY <2>1, <2>2, <2>3
<1> QED BY <1>1, ServerInvariant, PTL
=============================================================================
