-------------------------------- MODULE Rooms --------------------------------
(***************************************************************************)
(* The rooms of one server process: streams (Collaborate and JoinRoom)     *)
(* enter and leave the room of their project while the housekeeping thread *)
(* sweeps empty rooms away.  Two kinds of mutex are involved: the          *)
(* registry's, held for a whole sweep, and each room's, held while its     *)
(* subscriber connects to Redis and while its thread is joined.  The       *)
(* process they live in, and what must happen in it, is module Server.     *)
(***************************************************************************)
EXTENDS Integers, FiniteSets

CONSTANTS
  Stream,     \* calls of Collaborate and JoinRoom, each made once
  Project

NoRoom == 0
Nobody == "nobody"
Room == 1..Cardinality(Stream)   \* every call creates at most one

ASSUME RoomsAssumption == IsFiniteSet(Stream) /\ Nobody \notin Stream

VARIABLES
  rooms,      \* RoomRegistry: project -> room
  created,    \* rooms created so far
  subs,       \* room -> streams subscribed in it
  mu,         \* room -> holder of its mutex
  pc,         \* where each stream is
  project,    \* its project
  room,       \* the room it holds a shared_ptr to
  sweeping,   \* the housekeeping thread holds the registry's mutex
  todo,       \* projects it has still to look at
  empty       \* projects whose room it found empty and has still to erase

roomVars == <<subs, mu>>
streamVars == <<pc, project, room>>
sweepVars == <<sweeping, todo, empty>>
vars == <<rooms, created, roomVars, streamVars, sweepVars>>

Init ==
  /\ rooms = [p \in Project |-> NoRoom]
  /\ created = 0
  /\ subs = [r \in Room |-> {}]
  /\ mu = [r \in Room |-> Nobody]
  /\ pc = [s \in Stream |-> "new"]
  /\ project \in [Stream -> Project]
  /\ room = [s \in Stream |-> NoRoom]
  /\ sweeping = FALSE /\ todo = {} /\ empty = {}
----------------------------------------------------------------------------
(* A stream. *)

Call(s) ==
  /\ pc[s] = "new"
  /\ pc' = [pc EXCEPT ![s] = "enter"]
  /\ UNCHANGED <<rooms, created, roomVars, project, room, sweepVars>>

get_or_create(s) ==
  /\ pc[s] = "enter"
  /\ ~sweeping
  /\ IF rooms[project[s]] = NoRoom
     THEN /\ created' = created + 1
          /\ rooms' = [rooms EXCEPT ![project[s]] = created']
     ELSE UNCHANGED <<rooms, created>>
  /\ room' = [room EXCEPT ![s] = rooms'[project[s]]]
  /\ pc' = [pc EXCEPT ![s] = "subscribe"]
  /\ UNCHANGED <<roomVars, project, sweepVars>>

Lock(s, next) ==
  /\ mu[room[s]] = Nobody
  /\ mu' = [mu EXCEPT ![room[s]] = s]
  /\ pc' = [pc EXCEPT ![s] = next]
  /\ UNCHANGED <<rooms, created, subs, project, room, sweepVars>>

subscribe(s) == pc[s] = "subscribe" /\ Lock(s, "connecting")

\* The RedisSubscriber is made, connected or not.
Subscribed(s) ==
  /\ pc[s] = "connecting"
  /\ subs' = [subs EXCEPT ![room[s]] = @ \union {s}]
  /\ mu' = [mu EXCEPT ![room[s]] = Nobody]
  /\ pc' = [pc EXCEPT ![s] = "joined"]
  /\ UNCHANGED <<rooms, created, project, room, sweepVars>>

\* The client leaves, when it likes.
Leave(s) ==
  /\ pc[s] = "joined"
  /\ pc' = [pc EXCEPT ![s] = "unsubscribe"]
  /\ UNCHANGED <<rooms, created, roomVars, project, room, sweepVars>>

unsubscribe(s) == pc[s] = "unsubscribe" /\ Lock(s, "stopping")

\* Mutant: the room is looked up again.
UnsubscribedThere(s) ==
  /\ pc[s] = "stopping"
  /\ subs' = [r \in Room |-> IF r = rooms[project[s]] THEN subs[r] \ {s} ELSE subs[r]]
  /\ mu' = [mu EXCEPT ![room[s]] = Nobody]
  /\ pc' = [pc EXCEPT ![s] = "gone"]
  /\ room' = [room EXCEPT ![s] = NoRoom]
  /\ UNCHANGED <<rooms, created, project, sweepVars>>

\* The destructor has joined the subscriber's thread.
Unsubscribed(s) ==
  /\ pc[s] = "stopping"
  /\ subs' = [subs EXCEPT ![room[s]] = @ \ {s}]
  /\ mu' = [mu EXCEPT ![room[s]] = Nobody]
  /\ pc' = [pc EXCEPT ![s] = "gone"]
  /\ room' = [room EXCEPT ![s] = NoRoom]
  /\ UNCHANGED <<rooms, created, project, sweepVars>>
----------------------------------------------------------------------------
(* cleanup_empty, every ten minutes. *)

StartSweep ==
  /\ ~sweeping
  /\ sweeping' = TRUE
  /\ todo' = {p \in Project : rooms[p] # NoRoom}
  /\ UNCHANGED <<rooms, created, roomVars, streamVars, empty>>

\* Mutant: the iterator moves on only past rooms that are erased.
LookAgain(p) ==
  /\ p \in todo /\ empty = {}
  /\ mu[rooms[p]] = Nobody
  /\ todo' = IF subs[rooms[p]] = {} THEN todo \ {p} ELSE todo
  /\ empty' = IF subs[rooms[p]] = {} THEN {p} ELSE {}
  /\ UNCHANGED <<rooms, created, roomVars, streamVars, sweeping>>

\* subscriber_count, under the room's mutex ...
Look(p) ==
  /\ p \in todo /\ empty = {}
  /\ mu[rooms[p]] = Nobody
  /\ todo' = todo \ {p}
  /\ empty' = IF subs[rooms[p]] = {} THEN {p} ELSE {}
  /\ UNCHANGED <<rooms, created, roomVars, streamVars, sweeping>>

\* Mutant: what was found empty stays.
EraseNothing(p) ==
  /\ p \in empty
  /\ empty' = {}
  /\ UNCHANGED <<rooms, created, roomVars, streamVars, sweeping, todo>>

\* ... and the verdict is acted on without it.
Erase(p) ==
  /\ p \in empty
  /\ rooms' = [rooms EXCEPT ![p] = NoRoom]
  /\ empty' = {}
  /\ UNCHANGED <<created, roomVars, streamVars, sweeping, todo>>

EndSweep ==
  /\ sweeping /\ todo = {} /\ empty = {}
  /\ sweeping' = FALSE
  /\ UNCHANGED <<rooms, created, roomVars, streamVars, todo, empty>>

Sweep == StartSweep \/ EndSweep \/ \E p \in Project : Look(p) \/ Erase(p)

Next ==
  \/ \E s \in Stream :
       \/ Call(s) \/ get_or_create(s) \/ subscribe(s) \/ Subscribed(s)
       \/ Leave(s) \/ unsubscribe(s) \/ Unsubscribed(s)
  \/ Sweep

Spec == Init /\ [][Next]_vars
----------------------------------------------------------------------------
\* What each variable may hold.
TypeOK ==
  /\ rooms \in [Project -> Room \union {NoRoom}]
  /\ created \in 0..Cardinality(Stream)
  /\ subs \in [Room -> SUBSET Stream]
  /\ mu \in [Room -> Stream \union {Nobody}]
  /\ pc \in [Stream -> {"new", "enter", "subscribe", "connecting", "joined",
                        "unsubscribe", "stopping", "gone"}]
  /\ project \in [Stream -> Project]
  /\ room \in [Stream -> Room \union {NoRoom}]
  /\ sweeping \in BOOLEAN
  /\ todo \subseteq Project /\ empty \subseteq todo \union Project
  /\ \A s \in Stream : pc[s] \notin {"new", "enter", "gone"} => room[s] # NoRoom

\* Though rooms are swept away under streams that are entering them, a stream is
\* subscribed in the room it holds, in no other, and never after it has left.
NoGhosts ==
  \A r \in Room : subs[r] = {s \in Stream : room[s] = r
                                          /\ pc[s] \in {"joined", "unsubscribe", "stopping"}}

\* storage.h, "one CollabRoom per active project": two streams in rooms of one
\* project are in the same room.
OneRoomPerProject ==
  \A r \in Room, q \in Room : \A s \in subs[r], t \in subs[q] : project[s] = project[t] => r = q
=============================================================================
