------------------------------ MODULE Projects ------------------------------
(***************************************************************************)
(* The project store: two files per project, the document (.bin) and a     *)
(* sidecar that lists it (.meta), written one after the other under the    *)
(* store's mutex; and the RPC handlers that use it, one thread per call.   *)
(* A project is reduced to its owner, its name (standing for all it holds) *)
(* and updated_at.  Requests that the handlers reject without asking the   *)
(* store (no session, no name, no layer, wrong pixel sizes) do nothing.    *)
(***************************************************************************)
EXTENDS Integers, FiniteSets

CONSTANTS
  Thread,   \* threads that serve calls
  User,     \* user ids of sessions
  Id,       \* project ids
  Name,     \* what a document may hold
  MaxTime,  \* bound: milliseconds that pass
  Faults    \* sets of what may go wrong: the process die, a write fail, the clock be set back

NoUser == "no user"
Nobody == "nobody"
NoName == "no name"

ASSUME ProjectsAssumption ==
  /\ NoUser \notin User
  /\ Nobody \notin Thread
  /\ IsFiniteSet(Id)
  /\ MaxTime \in Nat
  /\ Faults \subseteq SUBSET {"crash", "write", "clock"}

VARIABLES
  bin, meta,   \* the files: id -> content
  mu,          \* who holds the mutex
  job,         \* what each thread has still to write
  reply,       \* what each thread last answered
  clock,       \* now_ms, when it was last read
  faults       \* what goes wrong in this behaviour; never changes

vars == <<bin, meta, mu, job, reply, clock, faults>>

\* What read_proto makes of a file.  An empty file parses, to a message of
\* defaults; one cut off between two fields lacks those that come last.
Whole(u, n, t) == [kind |-> "message", owner |-> u, name |-> n, updated |-> t]
Blank == Whole(NoUser, NoName, 0)
NoFile == [Blank EXCEPT !.kind = "none"]
Torn == [Blank EXCEPT !.kind = "torn"]

Reads(f) == f.kind = "message"

Idle == [op |-> "none", step |-> "idle", id |-> "none", bin |-> NoFile, meta |-> NoFile]

NoAnswer == [ok |-> TRUE, projects |-> {}, total |-> 0]

Init ==
  /\ bin = [id \in Id |-> NoFile] /\ meta = [id \in Id |-> NoFile]
  /\ mu = Nobody
  /\ job = [t \in Thread |-> Idle]
  /\ reply = [t \in Thread |-> NoAnswer]
  /\ clock = 0
  /\ faults \in Faults

Answer(t, ok, projects) ==
  reply' = [reply EXCEPT ![t] = [ok |-> ok, projects |-> projects, total |-> 0]]

\* Mutant: the mutex keeps nobody out.
lock_guard_none(t) == job[t] = Idle

\* A call that finds the mutex free.
lock_guard(t) == job[t] = Idle /\ mu = Nobody

\* The call keeps the mutex and goes on to write.
Write(t, op, step, id, newBin, newMeta) ==
  /\ mu' = t
  /\ job' = [job EXCEPT ![t] =
               [op |-> op, step |-> step, id |-> id, bin |-> newBin, meta |-> newMeta]]
  /\ UNCHANGED <<bin, meta, reply>>

\* now_ms is the system's clock, which may be set back.
Tick == clock' \in (IF "clock" \in faults THEN 0 ELSE clock)..MaxTime

save(t, u, id, n) ==
  /\ lock_guard(t)
  /\ Tick
  /\ Write(t, "save", "bin", id, Whole(u, n, clock'), Whole(u, n, clock'))

OwnedMeta(u, id) == Reads(meta[id]) /\ meta[id].owner = u

\* Mutant: the document is written from the sidecar.
renameFromMeta(t, u, id, n) ==
  /\ lock_guard(t)
  /\ OwnedMeta(u, id)
  /\ Tick
  /\ LET Renamed(f) == [f EXCEPT !.name = n, !.updated = clock'] IN
     Write(t, "rename", "bin", id, Renamed(meta[id]), Renamed(meta[id]))

\* Mutant: the document gets the new name and keeps its time.
renameKeepsTime(t, u, id, n) ==
  /\ lock_guard(t)
  /\ OwnedMeta(u, id)
  /\ Tick
  /\ Write(t, "rename", IF Reads(bin[id]) THEN "bin" ELSE "meta", id,
           [bin[id] EXCEPT !.name = n], [meta[id] EXCEPT !.name = n, !.updated = clock'])

\* The document keeps its own owner; one that cannot be read is left alone.
rename(t, u, id, n) ==
  /\ lock_guard(t)
  /\ OwnedMeta(u, id)
  /\ Tick
  /\ LET Renamed(f) == IF Reads(f) THEN [f EXCEPT !.name = n, !.updated = clock'] ELSE f IN
     Write(t, "rename", IF Reads(bin[id]) THEN "bin" ELSE "meta", id,
           Renamed(bin[id]), Renamed(meta[id]))

remove(t, u, id) ==
  /\ lock_guard(t)
  /\ OwnedMeta(u, id)
  /\ Write(t, "remove", "bin", id, NoFile, NoFile)
  /\ UNCHANGED clock

\* Rename and remove find no project of this user.
refuse(t, u, id) ==
  /\ lock_guard(t)
  /\ ~OwnedMeta(u, id)
  /\ Answer(t, FALSE, {})
  /\ UNCHANGED <<bin, meta, mu, job, clock>>

\* What can be in a file while it is written over.
Partial(f) == {Torn, Blank, [f EXCEPT !.owner = NoUser]}

\* Where writing f over old may end.  Nobody looks whether it went well, but
\* for rename's last write.
Written(f, old) ==
  {f} \union IF "write" \in faults /\ f # NoFile THEN Partial(f) \union {old} ELSE {}

WriteBin(t) ==
  /\ job[t].step = "bin"
  /\ \E f \in Written(job[t].bin, bin[job[t].id]) : bin' = [bin EXCEPT ![job[t].id] = f]
  /\ job' = [job EXCEPT ![t].step = "meta"]
  /\ UNCHANGED <<meta, mu, reply, clock>>

\* Mutant: a sidecar that is there is taken to be right.
WriteMetaOnce(t) ==
  /\ job[t].step = "meta"
  /\ meta' = [meta EXCEPT ![job[t].id] = IF Reads(@) /\ job[t].meta # NoFile THEN @ ELSE job[t].meta]
  /\ job' = [job EXCEPT ![t] = Idle]
  /\ mu' = Nobody
  /\ Answer(t, TRUE, {})
  /\ UNCHANGED <<bin, clock>>

\* The last write; the mutex is released and the call answered.
WriteMeta(t) ==
  /\ job[t].step = "meta"
  /\ \E f \in Written(job[t].meta, meta[job[t].id]) :
       /\ meta' = [meta EXCEPT ![job[t].id] = f]
       /\ \E ok \in IF job[t].op = "rename" /\ f # job[t].meta THEN BOOLEAN ELSE {TRUE} :
            Answer(t, ok, {})
  /\ job' = [job EXCEPT ![t] = Idle]
  /\ mu' = Nobody
  /\ UNCHANGED <<bin, clock>>

\* A file cannot be removed: the exception ends the call.
RemoveThrows(t) ==
  /\ "write" \in faults
  /\ job[t].op = "remove"
  /\ job' = [job EXCEPT ![t] = Idle]
  /\ mu' = Nobody
  /\ Answer(t, FALSE, {})
  /\ UNCHANGED <<bin, meta, clock>>

\* Mutant: reading needs no lock.
loadUnlocked(t, u, id) ==
  /\ job[t] = Idle
  /\ IF Reads(bin[id]) /\ bin[id].owner = u THEN Answer(t, TRUE, {<<id, bin[id]>>})
                                            ELSE Answer(t, FALSE, {})
  /\ UNCHANGED <<bin, meta, mu, job, clock>>

\* LoadProject, and ExportProject but for what it does with the pixels.  The
\* owner is the one in the document.
load(t, u, id) ==
  /\ lock_guard(t)
  /\ IF Reads(bin[id]) /\ bin[id].owner = u THEN Answer(t, TRUE, {<<id, bin[id]>>})
                                            ELSE Answer(t, FALSE, {})
  /\ UNCHANGED <<bin, meta, mu, job, clock>>

Mine(u) == {id \in Id : OwnedMeta(u, id)}

\* ListProjects asks the store twice: for the projects ...
list(t, u) ==
  /\ lock_guard(t)
  /\ Answer(t, TRUE, {<<id, meta[id]>> : id \in Mine(u)})
  /\ UNCHANGED <<bin, meta, mu, job, clock>>

\* ... and for how many there are.
count(t, u) ==
  /\ lock_guard(t)
  /\ reply' = [reply EXCEPT ![t].total = Cardinality(Mine(u))]
  /\ UNCHANGED <<bin, meta, mu, job, clock>>

\* The process dies; the file being written is left anyhow.
Crash ==
  /\ "crash" \in faults
  /\ mu \in Thread
  /\ LET j == job[mu]
         Left(f, old) == {old} \union (IF f = NoFile THEN {f} ELSE Partial(f)) IN
     \/ /\ j.step = "bin"
        /\ \E f \in Left(j.bin, bin[j.id]) : bin' = [bin EXCEPT ![j.id] = f]
        /\ UNCHANGED meta
     \/ /\ j.step = "meta"
        /\ \E f \in Left(j.meta, meta[j.id]) : meta' = [meta EXCEPT ![j.id] = f]
        /\ UNCHANGED bin
  /\ mu' = Nobody
  /\ job' = [t \in Thread |-> Idle]
  /\ reply' = [t \in Thread |-> NoAnswer]
  /\ UNCHANGED clock

Next ==
  /\ \/ \E t \in Thread :
          \/ \E u \in User :
               \/ \E id \in Id : \/ \E n \in Name : save(t, u, id, n) \/ rename(t, u, id, n)
                                 \/ remove(t, u, id) \/ refuse(t, u, id) \/ load(t, u, id)
               \/ list(t, u) \/ count(t, u)
          \/ WriteBin(t) \/ WriteMeta(t) \/ RemoveThrows(t)
     \/ Crash
  /\ UNCHANGED faults

Spec == Init /\ [][Next]_vars
----------------------------------------------------------------------------
Message == [kind : {"message"}, owner : User \union {NoUser}, name : Name \union {NoName},
            updated : Nat]
File == Message \union {NoFile, Torn}
Reply == [ok : BOOLEAN, projects : SUBSET (Id \X File), total : Nat]

\* What each variable may hold, and that a thread with something to write holds
\* the mutex.
TypeOK ==
  /\ bin \in [Id -> File] /\ meta \in [Id -> File]
  /\ mu \in Thread \union {Nobody}
  /\ \A t \in Thread :
       \/ job[t] = Idle /\ mu # t
       \/ /\ mu = t
          /\ job[t] \in [op : {"save", "rename", "remove"}, step : {"bin", "meta"}, id : Id,
                          bin : File, meta : File]
  /\ DOMAIN job = Thread
  /\ reply \in [Thread -> Reply]
  /\ clock \in Nat
  /\ faults \in Faults

\* Neither the process nor a write fails, whatever the clock does.
Sound == faults \subseteq {"clock"}

\* Writes succeed and the clock is never set back; the process may die.
Steady == faults \subseteq {"crash"}

\* However calls on one project interleave, document and sidecar tell the same
\* whenever the mutex is free, and so no call ever sees them differ, as long as
\* neither the process nor a write fails.
FilesAgree == Sound /\ mu = Nobody => \A id \in Id : bin[id] = meta[id]

Named(f) == Reads(f) /\ f.owner # NoUser

\* Wherever the process dies, and however often, what is listed is never newer
\* than the document behind it, for the sidecar is written last; as long as
\* writes succeed and nobody sets the clock back.
MetaFollowsBin ==
  Steady =>
    \A id \in Id : Named(bin[id]) /\ Named(meta[id]) => meta[id].updated <= bin[id].updated

\* Whatever crashes left of a project, saving it makes it whole again.
SaveRepairs ==
  [][\A t \in Thread : "write" \notin faults /\ WriteMeta(t) /\ job[t].op = "save"
       => bin'[job[t].id] = meta'[job[t].id] /\ Named(bin'[job[t].id])]_vars

\* Whatever crashes and failed writes left of the two files, and whosever they
\* are, only saving a document makes it someone else's.
OwnerBySave ==
  [][\A id \in Id : /\ Named(bin[id]) /\ Named(bin'[id])
                    /\ bin'[id].owner # bin[id].owner
       => \E t \in Thread : job[t].op = "save" /\ job[t].id = id]_vars

\* Behaviours in which something fails are left out: they stand still here.
Table == INSTANCE ProjectTable
           WITH table <- [id \in Id |-> IF Sound /\ Reads(meta[id]) THEN {meta[id]} ELSE {}],
                reply <- [t \in Thread |-> IF Sound THEN reply[t] ELSE NoAnswer]

\* The two files and the mutex implement a table whose calls are atomic: what
\* load takes from one file and list from the other fits one order of the calls,
\* as long as neither the process nor a write fails.
ImplementsTable == Table!Spec
=============================================================================
