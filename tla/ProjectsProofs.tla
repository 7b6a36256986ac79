--------------------------- MODULE ProjectsProofs ---------------------------
(* For any threads, users, projects, names and bound on time, and whatever   *)
(* fails: what holds of a project's two files between calls and across       *)
(* crashes.                                                                  *)
EXTENDS Projects, FiniteSetTheorems, TLAPS

Job == [op : {"save", "rename", "remove"}, step : {"bin", "meta"}, id : Id,
        bin : File, meta : File]

Busy(t) == job[t].step \in {"bin", "meta"}

LEMMA FileFacts ==
  /\ NoFile \in File /\ Torn \in File /\ Blank \in File
  /\ ~Named(NoFile) /\ ~Named(Torn) /\ ~Named(Blank)
  /\ \A f \in File : Named(f) => f \in Message
  /\ \A u \in User, n \in Name, t \in Nat :
       Whole(u, n, t) \in Message /\ Named(Whole(u, n, t))
  /\ \A f \in File : /\ Partial(f) \subseteq File
                     /\ \A g \in Partial(f) : ~Named(g)
BY ProjectsAssumption
   DEF File, Message, NoFile, Torn, Blank, Whole, Named, Reads, Partial

LEMMA WrittenFacts ==
  ASSUME NEW f \in File, NEW old \in File
  PROVE  /\ Written(f, old) \subseteq File
         /\ "write" \notin faults => Written(f, old) = {f}
         /\ \A g \in Written(f, old) : g \in {f, old} \/ ~Named(g)
         /\ f = NoFile => Written(f, old) = {f}
BY FileFacts DEF Written

LEMMA IdleFacts == Idle \notin Job /\ Idle.step = "idle" /\ Idle.op = "none"
BY DEF Idle, Job

\* Who holds the mutex has a job, and nobody else.
LEMMA JobFacts ==
  ASSUME TypeOK, NEW t \in Thread
  PROVE  /\ Busy(t) <=> mu = t
         /\ Busy(t) => job[t] \in Job
         /\ ~Busy(t) => job[t] = Idle
BY IdleFacts DEF TypeOK, Busy, Job
----------------------------------------------------------------------------
(* Types. *)

\* What all calls that write have in common.
Start(t) ==
  /\ lock_guard(t)
  /\ \E j \in Job : mu' = t /\ job' = [job EXCEPT ![t] = j]
  /\ UNCHANGED <<bin, meta, reply, faults>>
  /\ clock' \in Nat /\ ("clock" \notin faults => clock <= clock')

\* ... and those that do not.
Look == UNCHANGED <<bin, meta, mu, job, clock, faults>> /\ reply' \in [Thread -> Reply]

Renamed(f, n, t) == IF Reads(f) THEN [f EXCEPT !.name = n, !.updated = t] ELSE f

LEMMA RenamedFacts ==
  ASSUME NEW f \in File, NEW n \in Name, NEW t \in Nat
  PROVE  /\ Renamed(f, n, t) \in File
         /\ Named(Renamed(f, n, t)) => /\ Named(f) /\ Renamed(f, n, t).owner = f.owner
                                       /\ Renamed(f, n, t).updated = t
         /\ Reads(f) => Renamed(f, n, t).updated = t
BY DEF Renamed, File, Message, NoFile, Torn, Blank, Whole, Named, Reads

LEMMA MineFacts ==
  ASSUME NEW u \in User
  PROVE  IsFiniteSet(Mine(u)) /\ Cardinality(Mine(u)) \in Nat
<1>1. Mine(u) \subseteq Id
  BY DEF Mine
<1> QED BY <1>1, ProjectsAssumption, FS_Subset, FS_CardinalityType

LEMMA AnswerType ==
  ASSUME TypeOK, NEW t \in Thread, NEW ok \in BOOLEAN, NEW projects \in SUBSET (Id \X File),
         Answer(t, ok, projects)
  PROVE  reply' \in [Thread -> Reply]
BY DEF TypeOK, Answer, Reply

LEMMA NoAnswerType == NoAnswer \in Reply
BY DEF NoAnswer, Reply

LEMMA TickFacts ==
  ASSUME TypeOK, Tick PROVE clock' \in Nat /\ ("clock" \notin faults => clock <= clock')
BY ProjectsAssumption DEF TypeOK, Tick

LEMMA SaveStarts ==
  ASSUME TypeOK, NEW t \in Thread, NEW u \in User, NEW id \in Id, NEW n \in Name,
         save(t, u, id, n), UNCHANGED faults
  PROVE  /\ Start(t)
         /\ Whole(u, n, clock') \in Message /\ Named(Whole(u, n, clock'))
         /\ job'[t].op = "save" /\ job'[t].step = "bin" /\ job'[t].id = id
         /\ job'[t].bin = Whole(u, n, clock') /\ job'[t].meta = Whole(u, n, clock')
<1>1. clock' \in Nat /\ ("clock" \notin faults => clock <= clock')
  BY TickFacts DEF save
<1>2. Whole(u, n, clock') \in Message /\ Named(Whole(u, n, clock'))
  BY <1>1, FileFacts
<1>3. [op |-> "save", step |-> "bin", id |-> id,
       bin |-> Whole(u, n, clock'), meta |-> Whole(u, n, clock')] \in Job
  BY <1>2 DEF Job, File
<1>4. DOMAIN job = Thread
  BY DEF TypeOK
<1>5. Start(t)
  BY <1>1, <1>3 DEF save, Write, Start
<1>6. job'[t] = [op |-> "save", step |-> "bin", id |-> id,
                 bin |-> Whole(u, n, clock'), meta |-> Whole(u, n, clock')]
  BY <1>4 DEF save, Write
<1> QED BY <1>2, <1>5, <1>6

LEMMA RenameStarts ==
  ASSUME TypeOK, NEW t \in Thread, NEW u \in User, NEW id \in Id, NEW n \in Name,
         rename(t, u, id, n), UNCHANGED faults
  PROVE  /\ Start(t)
         /\ Reads(meta[id])
         /\ job'[t].op = "rename" /\ job'[t].id = id
         /\ job'[t].step = IF Reads(bin[id]) THEN "bin" ELSE "meta"
         /\ job'[t].bin = Renamed(bin[id], n, clock') /\ job'[t].meta = Renamed(meta[id], n, clock')
<1>1. clock' \in Nat /\ ("clock" \notin faults => clock <= clock')
  BY TickFacts DEF rename
<1>2. bin[id] \in File /\ meta[id] \in File /\ DOMAIN job = Thread
  BY DEF TypeOK
<1>3. Renamed(bin[id], n, clock') \in File /\ Renamed(meta[id], n, clock') \in File
  BY <1>1, <1>2, RenamedFacts
<1>4. [op |-> "rename", step |-> IF Reads(bin[id]) THEN "bin" ELSE "meta", id |-> id,
       bin |-> Renamed(bin[id], n, clock'), meta |-> Renamed(meta[id], n, clock')] \in Job
  BY <1>3 DEF Job
<1>5. job' = [job EXCEPT ![t] =
        [op |-> "rename", step |-> IF Reads(bin[id]) THEN "bin" ELSE "meta", id |-> id,
         bin |-> Renamed(bin[id], n, clock'), meta |-> Renamed(meta[id], n, clock')]]
  BY DEF rename, Write, Renamed
<1>6. mu' = t /\ UNCHANGED <<bin, meta, reply>> /\ lock_guard(t) /\ Reads(meta[id])
  BY DEF rename, Write, OwnedMeta
<1>7. Start(t)
  BY <1>1, <1>4, <1>5, <1>6 DEF Start
<1>8. job'[t] = [op |-> "rename", step |-> IF Reads(bin[id]) THEN "bin" ELSE "meta", id |-> id,
                 bin |-> Renamed(bin[id], n, clock'), meta |-> Renamed(meta[id], n, clock')]
  BY <1>2, <1>5
<1> QED BY <1>6, <1>7, <1>8

LEMMA RemoveStarts ==
  ASSUME TypeOK, NEW t \in Thread, NEW u \in User, NEW id \in Id,
         remove(t, u, id), UNCHANGED faults
  PROVE  /\ Start(t)
         /\ job'[t].op = "remove" /\ job'[t].step = "bin" /\ job'[t].id = id
         /\ job'[t].bin = NoFile /\ job'[t].meta = NoFile
<1>1. clock' \in Nat /\ clock <= clock'
  BY DEF remove, TypeOK
<1>2. [op |-> "remove", step |-> "bin", id |-> id, bin |-> NoFile, meta |-> NoFile] \in Job
  BY FileFacts DEF Job
<1>3. DOMAIN job = Thread
  BY DEF TypeOK
<1>4. Start(t)
  BY <1>1, <1>2 DEF remove, Write, Start
<1>5. job'[t] = [op |-> "remove", step |-> "bin", id |-> id, bin |-> NoFile, meta |-> NoFile]
  BY <1>3 DEF remove, Write
<1> QED BY <1>4, <1>5

\* Every step is one of six kinds.
LEMMA StepKinds ==
  ASSUME TypeOK, [Next]_vars
  PROVE  \/ \E t \in Thread : \E u \in User, id \in Id, n \in Name :
              save(t, u, id, n) /\ UNCHANGED faults
         \/ \E t \in Thread : \E u \in User, id \in Id, n \in Name :
              rename(t, u, id, n) /\ UNCHANGED faults
         \/ \E t \in Thread : \E u \in User, id \in Id : remove(t, u, id) /\ UNCHANGED faults
         \/ \E t \in Thread : (WriteBin(t) \/ WriteMeta(t) \/ RemoveThrows(t)) /\ UNCHANGED faults
         \/ Crash /\ UNCHANGED faults
         \/ Look
<1>1. CASE UNCHANGED vars
  BY <1>1 DEF vars, Look, TypeOK
<1>2. CASE Next
  <2>1. ASSUME NEW t \in Thread, NEW u \in User, list(t, u) \/ count(t, u), UNCHANGED faults
        PROVE  Look
    <3>1. list(t, u) => reply' \in [Thread -> Reply]
      <4>1. {<<id, meta[id]>> : id \in Mine(u)} \in SUBSET (Id \X File)
        BY DEF Mine, TypeOK
      <4> QED BY <4>1, AnswerType DEF list
    <3>2. count(t, u) => reply' \in [Thread -> Reply]
      BY MineFacts DEF count, TypeOK, Reply
    <3> QED BY <2>1, <3>1, <3>2 DEF list, count, Look
  <2>2. ASSUME NEW t \in Thread, NEW u \in User, NEW id \in Id,
               refuse(t, u, id) \/ load(t, u, id), UNCHANGED faults
        PROVE  Look
    <3>1. {<<id, bin[id]>>} \in SUBSET (Id \X File) /\ {} \in SUBSET (Id \X File)
      BY DEF TypeOK
    <3>2. reply' \in [Thread -> Reply]
      BY <2>2, <3>1, AnswerType DEF refuse, load
    <3> QED BY <2>2, <3>2 DEF refuse, load, Look
  <2> QED BY <1>2, <2>1, <2>2 DEF Next
<1> QED BY <1>1, <1>2

LEMMA StartType == ASSUME TypeOK, NEW t \in Thread, Start(t) PROVE TypeOK'
<1>1. PICK j \in Job : mu' = t /\ job' = [job EXCEPT ![t] = j]
  BY DEF Start
<1>2. ASSUME NEW s \in Thread, s # t PROVE job'[s] = Idle /\ mu' # s
  BY <1>1, <1>2, ProjectsAssumption DEF TypeOK, Start, lock_guard
<1>3. job'[t] \in Job /\ DOMAIN job' = Thread
  BY <1>1 DEF TypeOK
<1> QED BY <1>1, <1>2, <1>3 DEF TypeOK, Start, Job

\* A job that is done: the mutex is free, and all threads are idle.
LEMMA DoneType ==
  ASSUME TypeOK, NEW t \in Thread, Busy(t), mu' = Nobody, job' = [job EXCEPT ![t] = Idle]
  PROVE  /\ mu' \in Thread \union {Nobody} /\ DOMAIN job' = Thread
         /\ \A s \in Thread : job'[s] = Idle /\ mu' # s
<1>1. ASSUME NEW s \in Thread, s # t PROVE job[s] = Idle
  BY <1>1, JobFacts, mu = t DEF TypeOK
<1>2. \A s \in Thread : s # Nobody
  BY ProjectsAssumption
<1>3. mu = t
  BY JobFacts
<1> QED BY <1>1, <1>2 DEF TypeOK

LEMMA WriteBinType == ASSUME TypeOK, NEW t \in Thread, WriteBin(t), UNCHANGED faults PROVE TypeOK'
<1>1. Busy(t) /\ job[t] \in Job /\ mu = t
  BY JobFacts DEF WriteBin, Busy
<1>2. PICK f \in Written(job[t].bin, bin[job[t].id]) : bin' = [bin EXCEPT ![job[t].id] = f]
  BY DEF WriteBin
<1>3. f \in File
  BY <1>1, <1>2, WrittenFacts DEF Job, TypeOK
<1>4. bin' \in [Id -> File]
  BY <1>2, <1>3 DEF TypeOK
<1>5. job'[t] \in Job /\ DOMAIN job' = Thread /\ \A s \in Thread : s # t => job'[s] = job[s]
  BY <1>1 DEF WriteBin, Job, TypeOK
<1> QED BY <1>1, <1>4, <1>5 DEF TypeOK, WriteBin, Job

LEMMA WriteMetaType == ASSUME TypeOK, NEW t \in Thread, WriteMeta(t), UNCHANGED faults PROVE TypeOK'
<1>1. Busy(t) /\ job[t] \in Job
  BY JobFacts DEF WriteMeta, Busy
<1>2. PICK f \in Written(job[t].meta, meta[job[t].id]) : meta' = [meta EXCEPT ![job[t].id] = f]
  BY DEF WriteMeta
<1>3. f \in File
  BY <1>1, <1>2, WrittenFacts DEF Job, TypeOK
<1>4. meta' \in [Id -> File]
  BY <1>2, <1>3 DEF TypeOK
<1>5. /\ mu' \in Thread \union {Nobody} /\ DOMAIN job' = Thread
      /\ \A s \in Thread : job'[s] = Idle /\ mu' # s
  BY <1>1, DoneType DEF WriteMeta
<1>6. reply' \in [Thread -> Reply]
  BY AnswerType DEF WriteMeta
<1> QED BY <1>4, <1>5, <1>6 DEF TypeOK, WriteMeta

LEMMA RemoveThrowsType ==
  ASSUME TypeOK, NEW t \in Thread, RemoveThrows(t), UNCHANGED faults PROVE TypeOK'
<1>1. Busy(t)
  BY IdleFacts, JobFacts DEF RemoveThrows
<1>2. /\ mu' \in Thread \union {Nobody} /\ DOMAIN job' = Thread
      /\ \A s \in Thread : job'[s] = Idle /\ mu' # s
  BY <1>1, DoneType DEF RemoveThrows
<1>3. reply' \in [Thread -> Reply]
  BY AnswerType DEF RemoveThrows
<1> QED BY <1>2, <1>3 DEF TypeOK, RemoveThrows

\* What a crash leaves of a file that was to become f.
Left(f, old) == {old} \union (IF f = NoFile THEN {f} ELSE Partial(f))

LEMMA CrashEffect ==
  ASSUME TypeOK, Crash
  PROVE  \E t \in Thread :
           /\ Busy(t) /\ job[t] \in Job
           /\ \/ /\ job[t].step = "bin" /\ UNCHANGED meta
                 /\ \E f \in Left(job[t].bin, bin[job[t].id]) : bin' = [bin EXCEPT ![job[t].id] = f]
              \/ /\ job[t].step = "meta" /\ UNCHANGED bin
                 /\ \E f \in Left(job[t].meta, meta[job[t].id]) : meta' = [meta EXCEPT ![job[t].id] = f]
           /\ "crash" \in faults /\ mu' = Nobody /\ job' = [s \in Thread |-> Idle] /\ clock' = clock
<1>1. mu \in Thread
  BY DEF Crash
<1>2. Busy(mu) /\ job[mu] \in Job
  BY <1>1, JobFacts
<1>3. \/ /\ job[mu].step = "bin" /\ UNCHANGED meta
         /\ \E f \in Left(job[mu].bin, bin[job[mu].id]) : bin' = [bin EXCEPT ![job[mu].id] = f]
      \/ /\ job[mu].step = "meta" /\ UNCHANGED bin
         /\ \E f \in Left(job[mu].meta, meta[job[mu].id]) : meta' = [meta EXCEPT ![job[mu].id] = f]
  BY DEF Crash, Left
<1> QED BY <1>1, <1>2, <1>3 DEF Crash

LEMMA LeftFacts ==
  ASSUME NEW f \in File, NEW old \in File
  PROVE  Left(f, old) \subseteq File /\ \A g \in Left(f, old) : g = old \/ ~Named(g)
BY FileFacts DEF Left

LEMMA CrashType == ASSUME TypeOK, Crash, UNCHANGED faults PROVE TypeOK'
<1>1. \A s \in Thread : s # Nobody
  BY ProjectsAssumption
<1>2. bin' \in [Id -> File] /\ meta' \in [Id -> File]
  BY CrashEffect, LeftFacts DEF Job, TypeOK
<1>3. reply' \in [Thread -> Reply]
  BY NoAnswerType DEF Crash
<1> QED BY <1>1, <1>2, <1>3, CrashEffect DEF TypeOK

LEMMA InitType == Init => TypeOK
BY NoAnswerType, FileFacts, ProjectsAssumption DEF Init, TypeOK

LEMMA NextType == TypeOK /\ [Next]_vars => TypeOK'
<1> SUFFICES ASSUME TypeOK, [Next]_vars PROVE TypeOK'
  OBVIOUS
<1>1. Look => TypeOK'
  BY DEF Look, TypeOK
<1> QED BY <1>1, StepKinds, SaveStarts, RenameStarts, RemoveStarts, StartType, WriteBinType,
           WriteMetaType, RemoveThrowsType, CrashType

\* The types of the store's variables; in particular, a thread with something
\* to write holds the mutex, so that no two are in the middle of writing.
THEOREM TypesOfProjects == Spec => []TypeOK
BY InitType, NextType, PTL DEF Spec
----------------------------------------------------------------------------
(* One job at a time. *)

LEMMA OneBusy ==
  ASSUME TypeOK, NEW s \in Thread, NEW t \in Thread, Busy(s), Busy(t) PROVE s = t
BY JobFacts

LEMMA StartAlone ==
  ASSUME TypeOK, NEW t \in Thread, Start(t)
  PROVE  /\ \A s \in Thread : ~Busy(s) /\ (Busy(s)' <=> s = t)
         /\ UNCHANGED <<bin, meta, faults>> /\ ("clock" \notin faults => clock <= clock') /\ job'[t] \in Job
<1>1. \A s \in Thread : ~Busy(s)
  BY JobFacts, ProjectsAssumption DEF Start, lock_guard
<1>2. PICK j \in Job : mu' = t /\ job' = [job EXCEPT ![t] = j]
  BY DEF Start
<1>3. job'[t] = j /\ \A s \in Thread : s # t => job'[s] = job[s]
  BY <1>2 DEF TypeOK
<1>4. \A s \in Thread : Busy(s)' <=> s = t
  BY <1>1, <1>3 DEF Busy, Job
<1> QED BY <1>1, <1>3, <1>4 DEF Start

LEMMA BinEffect ==
  ASSUME TypeOK, NEW t \in Thread, WriteBin(t)
  PROVE  /\ Busy(t) /\ job[t] \in Job /\ job[t].step = "bin"
         /\ UNCHANGED <<meta, clock>>
         /\ job'[t] = [job[t] EXCEPT !.step = "meta"]
         /\ \A s \in Thread : Busy(s)' <=> s = t
         /\ \E f \in Written(job[t].bin, bin[job[t].id]) : bin' = [bin EXCEPT ![job[t].id] = f]
<1>1. Busy(t) /\ job[t] \in Job /\ job[t].step = "bin"
  BY JobFacts DEF WriteBin, Busy
<1>2. job'[t] = [job[t] EXCEPT !.step = "meta"] /\ \A s \in Thread : s # t => job'[s] = job[s]
  BY DEF WriteBin, TypeOK
<1>3. \A s \in Thread : s # t => ~Busy(s)
  BY <1>1, OneBusy
<1>4. \A s \in Thread : Busy(s)' <=> s = t
  BY <1>1, <1>2, <1>3 DEF Busy, Job
<1> QED BY <1>1, <1>2, <1>4 DEF WriteBin

LEMMA MetaEffect ==
  ASSUME TypeOK, NEW t \in Thread, WriteMeta(t)
  PROVE  /\ Busy(t) /\ job[t] \in Job /\ job[t].step = "meta"
         /\ UNCHANGED <<bin, clock>>
         /\ \A s \in Thread : ~Busy(s)'
         /\ \E f \in Written(job[t].meta, meta[job[t].id]) : meta' = [meta EXCEPT ![job[t].id] = f]
<1>1. Busy(t) /\ job[t] \in Job /\ job[t].step = "meta"
  BY JobFacts DEF WriteMeta, Busy
<1>2. \A s \in Thread : job'[s] = Idle
  BY <1>1, DoneType DEF WriteMeta
<1> QED BY <1>1, <1>2, IdleFacts DEF WriteMeta, Busy

LEMMA RemoveThrowsEffect ==
  ASSUME TypeOK, NEW t \in Thread, RemoveThrows(t)
  PROVE  "write" \in faults /\ UNCHANGED <<bin, meta, clock>> /\ \A s \in Thread : ~Busy(s)'
<1>1. Busy(t)
  BY IdleFacts, JobFacts DEF RemoveThrows
<1>2. \A s \in Thread : job'[s] = Idle
  BY <1>1, DoneType DEF RemoveThrows
<1> QED BY <1>2, IdleFacts DEF RemoveThrows, Busy

LEMMA CrashIdles == ASSUME TypeOK, Crash PROVE \A s \in Thread : ~Busy(s)'
BY CrashEffect, IdleFacts DEF Busy
----------------------------------------------------------------------------
(* Without failures: document and sidecar agree. *)

\* FilesAgree, inductive: a job writes the same to both files, and only the
\* project it is half done with may have two that differ.
Agree ==
  Sound =>
    /\ \A t \in Thread : Busy(t) =>
         /\ job[t].bin = job[t].meta
         /\ job[t].step = "meta" => bin[job[t].id] = job[t].meta
    /\ \A id \in Id : bin[id] # meta[id] =>
         \E t \in Thread : Busy(t) /\ job[t].step = "meta" /\ job[t].id = id

LEMMA StartAgrees ==
  ASSUME TypeOK, Agree, NEW t \in Thread, Start(t),
         Sound => job'[t].bin = job'[t].meta /\ job'[t].step = "bin"
  PROVE  Agree'
<1> SUFFICES ASSUME Sound' PROVE Agree'
  BY DEF Agree
<1>1. Sound
  BY StartAlone DEF Sound
<1>2. /\ \A s \in Thread : ~Busy(s) /\ (Busy(s)' <=> s = t)
      /\ bin' = bin /\ meta' = meta
  BY StartAlone
<1>3. \A id \in Id : bin[id] = meta[id]
  BY <1>1, <1>2 DEF Agree
<1>4. job'[t].bin = job'[t].meta /\ job'[t].step # "meta"
  BY <1>1
<1>5. \A s \in Thread : Busy(s)' => job'[s].bin = job'[s].meta /\ job'[s].step # "meta"
  BY <1>2, <1>4
<1>6. \A id \in Id : bin'[id] = meta'[id]
  BY <1>2, <1>3
<1> QED BY <1>5, <1>6 DEF Agree

LEMMA NextAgrees == TypeOK /\ Agree /\ [Next]_vars => Agree'
<1> SUFFICES ASSUME TypeOK, Agree, [Next]_vars PROVE Agree'
  OBVIOUS
<1>1. ASSUME NEW t \in Thread, NEW u \in User, NEW id \in Id, NEW n \in Name,
             save(t, u, id, n), UNCHANGED faults
      PROVE  Agree'
  <2>1. Start(t) /\ job'[t].bin = job'[t].meta /\ job'[t].step = "bin"
    BY <1>1, SaveStarts
  <2> QED BY <2>1, StartAgrees
<1>2. ASSUME NEW t \in Thread, NEW u \in User, NEW id \in Id, NEW n \in Name,
             rename(t, u, id, n), UNCHANGED faults
      PROVE  Agree'
  <2>1. Start(t) /\ \A s \in Thread : ~Busy(s)
    BY <1>2, RenameStarts, StartAlone
  <2>2. Sound => bin[id] = meta[id]
    BY <2>1 DEF Agree
  <2>3. Sound => job'[t].bin = job'[t].meta /\ job'[t].step = "bin"
    BY <1>2, <2>2, RenameStarts
  <2> QED BY <2>1, <2>3, StartAgrees
<1>3. ASSUME NEW t \in Thread, NEW u \in User, NEW id \in Id, remove(t, u, id), UNCHANGED faults
      PROVE  Agree'
  <2>1. Start(t) /\ job'[t].bin = job'[t].meta /\ job'[t].step = "bin"
    BY <1>3, RemoveStarts
  <2> QED BY <2>1, StartAgrees
<1>4. ASSUME NEW t \in Thread, WriteBin(t), UNCHANGED faults, Sound PROVE Agree'
  <2>1. bin' = [bin EXCEPT ![job[t].id] = job[t].bin]
    <3>1. job[t] \in Job
      BY <1>4, BinEffect
    <3>2. job[t].bin \in File /\ bin[job[t].id] \in File
      BY <3>1 DEF Job, TypeOK
    <3>3. Written(job[t].bin, bin[job[t].id]) = {job[t].bin}
      BY <1>4, <3>2, WrittenFacts DEF Sound
    <3> QED BY <1>4, <3>3, BinEffect
  <2>2. /\ Busy(t) /\ job[t].step = "bin" /\ job[t] \in Job /\ UNCHANGED meta
        /\ job'[t] = [job[t] EXCEPT !.step = "meta"]
        /\ \A s \in Thread : Busy(s)' <=> s = t
    BY <1>4, BinEffect
  <2>3. \A id \in Id : bin[id] = meta[id]
    BY <1>4, <2>2, OneBusy DEF Agree
  <2>4. /\ job[t].id \in Id /\ job'[t].id = job[t].id /\ job'[t].step = "meta"
        /\ job'[t].bin = job[t].bin /\ job'[t].meta = job[t].meta
    BY <2>2 DEF Job
  <2>5. bin'[job[t].id] = job[t].meta /\ job[t].bin = job[t].meta
    BY <1>4, <2>1, <2>2, <2>4 DEF Agree, TypeOK
  <2>6. \A id \in Id : bin'[id] # meta'[id] => id = job[t].id
    BY <2>1, <2>2, <2>3 DEF TypeOK
  <2>7. Busy(t)'
    BY <2>2
  <2>8. ASSUME NEW s \in Thread, Busy(s)'
        PROVE  job'[s].bin = job'[s].meta /\ bin'[job'[s].id] = job'[s].meta
    <3>1. s = t
      BY <2>2, <2>8
    <3> QED BY <2>4, <2>5, <3>1
  <2>9. ASSUME NEW id \in Id, bin'[id] # meta'[id]
        PROVE  Busy(t)' /\ job'[t].step = "meta" /\ job'[t].id = id
    BY <2>4, <2>6, <2>7, <2>9
  <2> HIDE DEF Busy
  <2> QED BY <2>8, <2>9 DEF Agree
<1>5. ASSUME NEW t \in Thread, WriteMeta(t), UNCHANGED faults, Sound PROVE Agree'
  <2>1. meta' = [meta EXCEPT ![job[t].id] = job[t].meta]
    <3>1. job[t] \in Job
      BY <1>5, MetaEffect
    <3>2. job[t].meta \in File /\ meta[job[t].id] \in File
      BY <3>1 DEF Job, TypeOK
    <3>3. Written(job[t].meta, meta[job[t].id]) = {job[t].meta}
      BY <1>5, <3>2, WrittenFacts DEF Sound
    <3> QED BY <1>5, <3>3, MetaEffect
  <2>2. Busy(t) /\ job[t].step = "meta" /\ job[t] \in Job /\ UNCHANGED bin /\ \A s \in Thread : ~Busy(s)'
    BY <1>5, MetaEffect
  <2>3. \A id \in Id : id # job[t].id => bin[id] = meta[id]
    BY <1>5, <2>2, OneBusy DEF Agree
  <2>4. bin[job[t].id] = job[t].meta
    BY <1>5, <2>2 DEF Agree
  <2>5. \A id \in Id : bin'[id] = meta'[id]
    BY <2>1, <2>2, <2>3, <2>4 DEF TypeOK
  <2> QED BY <2>2, <2>5 DEF Agree
<1>6. ASSUME ~Sound, UNCHANGED faults PROVE Agree'
  BY <1>6 DEF Agree, Sound
<1>7. Look => Agree'
  BY DEF Look, Agree, Busy, Sound
<1>8. ASSUME NEW t \in Thread, WriteBin(t) \/ WriteMeta(t) \/ RemoveThrows(t), UNCHANGED faults
      PROVE  Agree'
  BY <1>4, <1>5, <1>6, <1>8 DEF RemoveThrows, Sound
<1>9. Crash /\ UNCHANGED faults => Agree'
  BY <1>6 DEF Crash, Sound
<1> QED BY <1>1, <1>2, <1>3, <1>7, <1>8, <1>9, StepKinds

LEMMA InitAgrees == Init => Agree
BY IdleFacts DEF Init, Agree, Busy

LEMMA FreeAgree == TypeOK /\ Agree => FilesAgree
<1>1. ASSUME TypeOK, mu = Nobody, NEW t \in Thread PROVE ~Busy(t)
  BY <1>1, JobFacts, ProjectsAssumption
<1> QED BY <1>1 DEF Agree, FilesAgree

\* Whatever calls come from whichever threads, document and sidecar agree
\* whenever the mutex is free, unless the process or a write fails.
THEOREM FilesAlwaysAgree == Spec => []FilesAgree
BY FreeAgree, InitAgrees, InitType, NextType, NextAgrees, PTL DEF Spec
----------------------------------------------------------------------------
(* Whatever fails: owners. *)

\* A job that is not a save writes a document of the owner it found.
KeepsOwner ==
  \A t \in Thread :
    Busy(t) /\ job[t].step = "bin" /\ job[t].op # "save" /\ Named(job[t].bin) =>
      Named(bin[job[t].id]) /\ job[t].bin.owner = bin[job[t].id].owner

LEMMA StartKeepsOwner ==
  ASSUME TypeOK, NEW t \in Thread, Start(t),
         job'[t].step = "bin" /\ job'[t].op # "save" /\ Named(job'[t].bin) =>
           Named(bin[job'[t].id]) /\ job'[t].bin.owner = bin[job'[t].id].owner
  PROVE  KeepsOwner'
<1>1. bin' = bin /\ \A s \in Thread : Busy(s)' <=> s = t
  BY StartAlone
<1> QED BY <1>1 DEF KeepsOwner, Named, Reads

LEMMA NextKeepsOwner == TypeOK /\ KeepsOwner /\ [Next]_vars => KeepsOwner'
<1> SUFFICES ASSUME TypeOK, KeepsOwner, [Next]_vars PROVE KeepsOwner'
  OBVIOUS
<1>1. ASSUME NEW t \in Thread, NEW u \in User, NEW id \in Id, NEW n \in Name,
             save(t, u, id, n), UNCHANGED faults
      PROVE  KeepsOwner'
  <2>1. Start(t) /\ job'[t].op = "save"
    BY <1>1, SaveStarts
  <2> QED BY <2>1, StartKeepsOwner
<1>2. ASSUME NEW t \in Thread, NEW u \in User, NEW id \in Id, NEW n \in Name,
             rename(t, u, id, n), UNCHANGED faults
      PROVE  KeepsOwner'
  <2>1. /\ Start(t)
        /\ job'[t].bin = Renamed(bin[id], n, clock') /\ job'[t].id = id
    BY <1>2, RenameStarts
  <2>2. bin[id] \in File /\ clock' \in Nat
    BY <2>1 DEF TypeOK, Start
  <2>3. Named(job'[t].bin) => Named(bin[id]) /\ job'[t].bin.owner = bin[id].owner
    BY <2>1, <2>2, RenamedFacts
  <2> QED BY <2>1, <2>3, StartKeepsOwner
<1>3. ASSUME NEW t \in Thread, NEW u \in User, NEW id \in Id, remove(t, u, id), UNCHANGED faults
      PROVE  KeepsOwner'
  <2>1. Start(t) /\ job'[t].bin = NoFile
    BY <1>3, RemoveStarts
  <2>2. ~Named(job'[t].bin)
    BY <2>1, FileFacts
  <2> QED BY <2>1, <2>2, StartKeepsOwner
<1>4. ASSUME NEW t \in Thread, WriteBin(t) PROVE KeepsOwner'
  <2>1. job[t] \in Job /\ job'[t] = [job[t] EXCEPT !.step = "meta"] /\ \A s \in Thread : Busy(s)' <=> s = t
    BY <1>4, BinEffect
  <2>2. job'[t].step = "meta"
    BY <2>1 DEF Job
  <2> QED BY <2>1, <2>2 DEF KeepsOwner
<1>5. ASSUME \A s \in Thread : ~Busy(s)' PROVE KeepsOwner'
  BY <1>5 DEF KeepsOwner
<1>6. ASSUME NEW t \in Thread, WriteMeta(t) \/ RemoveThrows(t) PROVE KeepsOwner'
  BY <1>5, <1>6, MetaEffect, RemoveThrowsEffect
<1>7. Crash => KeepsOwner'
  BY <1>5, CrashIdles
<1>8. Look => KeepsOwner'
  BY DEF Look, KeepsOwner, Busy, Named, Reads
<1> QED BY <1>1, <1>2, <1>3, <1>4, <1>6, <1>7, <1>8, StepKinds

\* Whatever dies or fails to be written, in whatever order: a document that
\* belongs to someone becomes someone else's only while it is being saved.
THEOREM OnlySavingChangesOwners == Spec => OwnerBySave
<1> DEFINE Given(id) == /\ Named(bin[id]) /\ Named(bin'[id])
                        /\ bin'[id].owner # bin[id].owner
           Saved(id) == \E t \in Thread : job[t].op = "save" /\ job[t].id = id
<1>1. Init => KeepsOwner
  BY IdleFacts DEF Init, KeepsOwner, Busy
<1>2. TypeOK /\ KeepsOwner /\ [Next]_vars => \A id \in Id : Given(id) => Saved(id)
  <2> SUFFICES ASSUME TypeOK, KeepsOwner, [Next]_vars, NEW id \in Id, Given(id) PROVE Saved(id)
    OBVIOUS
  <2>1. bin' # bin
    OBVIOUS
  <2>2. ASSUME NEW t \in Thread, WriteBin(t) PROVE Saved(id)
    <3>1. PICK f \in Written(job[t].bin, bin[job[t].id]) : bin' = [bin EXCEPT ![job[t].id] = f]
      BY <2>2, BinEffect
    <3>2. Busy(t) /\ job[t] \in Job /\ job[t].step = "bin"
      BY <2>2, BinEffect
    <3>3. job[t].id = id /\ bin'[id] = f
      BY <3>1, <3>2 DEF TypeOK, Job
    <3>4. job[t].bin \in File /\ bin[id] \in File
      BY <3>2 DEF TypeOK, Job
    <3>5. f = job[t].bin
      BY <3>1, <3>3, <3>4, WrittenFacts
    <3>6. job[t].op = "save"
      BY <3>2, <3>3, <3>5 DEF KeepsOwner
    <3> QED BY <3>3, <3>6
  <2>3. Crash => Saved(id)
    <3> SUFFICES ASSUME Crash PROVE FALSE
      OBVIOUS
    <3>1. PICK t \in Thread :
            /\ job[t] \in Job
            /\ bin' = bin \/ \E f \in Left(job[t].bin, bin[job[t].id]) : bin' = [bin EXCEPT ![job[t].id] = f]
      BY CrashEffect
    <3>2. PICK f \in Left(job[t].bin, bin[job[t].id]) : bin' = [bin EXCEPT ![job[t].id] = f]
      BY <2>1, <3>1
    <3>3. job[t].id = id /\ bin'[id] = f
      BY <3>1, <3>2 DEF TypeOK, Job
    <3>4. job[t].bin \in File /\ bin[id] \in File
      BY <3>1 DEF TypeOK, Job
    <3> QED BY <3>2, <3>3, <3>4, LeftFacts
  <2>4. ASSUME NEW t \in Thread, Start(t) \/ WriteMeta(t) \/ RemoveThrows(t) PROVE bin' = bin
    BY <2>4 DEF Start, WriteMeta, RemoveThrows
  <2>5. Look => bin' = bin
    BY DEF Look
  <2> QED BY <2>1, <2>2, <2>3, <2>4, <2>5, StepKinds, SaveStarts, RenameStarts, RemoveStarts
<1> QED BY <1>1, <1>2, InitType, NextType, NextKeepsOwner, PTL DEF Spec, OwnerBySave
----------------------------------------------------------------------------
(* While writes succeed, the process dying or not: times, and saving. *)

NotNewer(g, f) == Named(f) /\ Named(g) => g.updated <= f.updated
Past(f) == Named(f) => f.updated <= clock

\* MetaFollowsBin, inductive: what is still to be written comes from the past,
\* and the document that goes first is at least as new as both sidecars.
Ordered ==
  Steady =>
    /\ \A id \in Id : Past(meta[id]) /\ NotNewer(meta[id], bin[id])
    /\ \A t \in Thread : Busy(t) =>
         /\ Past(job[t].meta)
         /\ job[t].step = "bin" => /\ NotNewer(meta[job[t].id], job[t].bin)
                                   /\ NotNewer(job[t].meta, job[t].bin)
         /\ job[t].step = "meta" => NotNewer(job[t].meta, bin[job[t].id])

LEMMA NamedTime == \A f \in File : Named(f) => f.updated \in Nat
BY FileFacts DEF Message

LEMMA Unnamed == \A f, g : ~Named(f) \/ ~Named(g) => NotNewer(g, f)
BY DEF NotNewer

LEMMA StartOrdered ==
  ASSUME TypeOK, Ordered, NEW t \in Thread, Start(t), Steady =>
           /\ Named(job'[t].meta) => job'[t].meta.updated <= clock'
           /\ job'[t].step = "bin" => /\ NotNewer(meta[job'[t].id], job'[t].bin)
                                      /\ NotNewer(job'[t].meta, job'[t].bin)
           /\ job'[t].step = "meta" => NotNewer(job'[t].meta, bin[job'[t].id])
  PROVE  Ordered'
<1>1. /\ bin' = bin /\ meta' = meta /\ faults' = faults /\ ("clock" \notin faults => clock <= clock') /\ clock' \in Nat
      /\ \A s \in Thread : Busy(s)' <=> s = t
  BY StartAlone DEF Start
<1> SUFFICES ASSUME Steady PROVE Ordered'
  BY <1>1 DEF Ordered, Steady
<1>2. ASSUME NEW id \in Id, Named(meta[id]) PROVE meta[id].updated <= clock'
  <2>1. meta[id].updated \in Nat /\ clock \in Nat
    BY <1>2, NamedTime DEF TypeOK
  <2>2. meta[id].updated <= clock
    BY <1>2 DEF Ordered, Past
  <2> QED BY <1>1, <2>1, <2>2 DEF Steady
<1>3. \A id \in Id : NotNewer(meta[id], bin[id])
  BY DEF Ordered
<1> QED BY <1>1, <1>2, <1>3 DEF Ordered, Past, NotNewer, Named, Reads

LEMMA StartTimes ==
  ASSUME TypeOK, Ordered, NEW t \in Thread, Start(t), NEW id \in Id, NEW f,
         Named(f) => f.updated = clock', Steady
  PROVE  NotNewer(meta[id], f)
<1>1. clock \in Nat /\ clock' \in Nat /\ clock <= clock'
  BY DEF TypeOK, Start, Steady
<1>2. Named(meta[id]) => meta[id].updated \in Nat /\ meta[id].updated <= clock
  BY NamedTime DEF TypeOK, Ordered, Past
<1> QED BY <1>1, <1>2 DEF NotNewer

LEMMA NextOrdered == TypeOK /\ Ordered /\ [Next]_vars => Ordered'
<1> SUFFICES ASSUME TypeOK, Ordered, [Next]_vars PROVE Ordered'
  OBVIOUS
<1>1. ASSUME NEW t \in Thread, NEW u \in User, NEW id \in Id, NEW n \in Name,
             save(t, u, id, n), UNCHANGED faults
      PROVE  Ordered'
  <2>1. /\ Start(t) /\ job'[t].step = "bin" /\ job'[t].id = id
        /\ job'[t].bin = Whole(u, n, clock') /\ job'[t].meta = Whole(u, n, clock')
    BY <1>1, SaveStarts
  <2>2. Whole(u, n, clock').updated = clock' /\ clock' \in Nat
    BY <2>1 DEF Whole, Start
  <2>3. Steady => NotNewer(meta[id], Whole(u, n, clock'))
    BY <2>1, <2>2, StartTimes
  <2>4. NotNewer(job'[t].meta, job'[t].bin) /\ job'[t].meta.updated <= clock'
    BY <2>1, <2>2 DEF NotNewer
  <2> QED BY <2>1, <2>3, <2>4, StartOrdered
<1>2. ASSUME NEW t \in Thread, NEW u \in User, NEW id \in Id, NEW n \in Name,
             rename(t, u, id, n), UNCHANGED faults
      PROVE  Ordered'
  <2>1. /\ Start(t) /\ job'[t].id = id
        /\ job'[t].step = IF Reads(bin[id]) THEN "bin" ELSE "meta"
        /\ job'[t].bin = Renamed(bin[id], n, clock') /\ job'[t].meta = Renamed(meta[id], n, clock')
    BY <1>2, RenameStarts
  <2>2. clock' \in Nat /\ bin[id] \in File /\ meta[id] \in File
    BY <2>1 DEF TypeOK, Start
  <2>3. /\ Named(job'[t].bin) => job'[t].bin.updated = clock'
        /\ Named(job'[t].meta) => job'[t].meta.updated = clock'
    BY <2>1, <2>2, RenamedFacts
  <2>4. Steady => NotNewer(meta[id], job'[t].bin)
    BY <2>1, <2>3, StartTimes
  <2>5. /\ NotNewer(job'[t].meta, job'[t].bin)
        /\ Named(job'[t].meta) => job'[t].meta.updated <= clock'
    BY <2>2, <2>3 DEF NotNewer
  <2>6. job'[t].step = "meta" => NotNewer(job'[t].meta, bin[id])
    BY <2>1, Unnamed DEF Named
  <2> QED BY <2>1, <2>4, <2>5, <2>6, StartOrdered
<1>3. ASSUME NEW t \in Thread, NEW u \in User, NEW id \in Id, remove(t, u, id), UNCHANGED faults
      PROVE  Ordered'
  <2>1. /\ Start(t) /\ job'[t].step = "bin" /\ job'[t].id = id
        /\ job'[t].bin = NoFile /\ job'[t].meta = NoFile
    BY <1>3, RemoveStarts
  <2>2. ~Named(job'[t].bin) /\ ~Named(job'[t].meta)
    BY <2>1, FileFacts
  <2> QED BY <2>1, <2>2, Unnamed, StartOrdered
<1>4. ASSUME NEW t \in Thread, WriteBin(t), UNCHANGED faults, Steady
      PROVE  Ordered'
  <2>1. /\ Busy(t) /\ job[t] \in Job /\ job[t].step = "bin" /\ meta' = meta /\ clock' = clock
        /\ job'[t] = [job[t] EXCEPT !.step = "meta"] /\ \A s \in Thread : Busy(s)' <=> s = t
    BY <1>4, BinEffect
  <2>2. /\ job[t].id \in Id /\ job[t].bin \in File /\ bin[job[t].id] \in File
        /\ job'[t].id = job[t].id /\ job'[t].meta = job[t].meta /\ job'[t].step = "meta"
    BY <2>1 DEF Job, TypeOK
  <2>3. Written(job[t].bin, bin[job[t].id]) = {job[t].bin}
    BY <1>4, <2>2, WrittenFacts DEF Steady
  <2>4. bin' = [bin EXCEPT ![job[t].id] = job[t].bin]
    BY <1>4, <2>3, BinEffect
  <2>5. bin'[job[t].id] = job[t].bin /\ \A id \in Id : id # job[t].id => bin'[id] = bin[id]
    BY <2>2, <2>4 DEF TypeOK
  <2>6. /\ Past(job[t].meta) /\ NotNewer(meta[job[t].id], job[t].bin)
        /\ NotNewer(job[t].meta, job[t].bin)
        /\ \A id \in Id : Past(meta[id]) /\ NotNewer(meta[id], bin[id])
    BY <1>4, <2>1 DEF Ordered
  <2>7. \A id \in Id : NotNewer(meta'[id], bin'[id])
    BY <2>1, <2>5, <2>6
  <2>8. NotNewer(job'[t].meta, bin'[job'[t].id])
    BY <2>2, <2>5, <2>6
  <2> QED BY <2>1, <2>2, <2>6, <2>7, <2>8 DEF Ordered, Past, NotNewer, Named, Reads
<1>5. ASSUME NEW t \in Thread, WriteMeta(t), UNCHANGED faults, Steady
      PROVE  Ordered'
  <2>1. /\ Busy(t) /\ job[t] \in Job /\ job[t].step = "meta" /\ bin' = bin /\ clock' = clock
        /\ \A s \in Thread : ~Busy(s)'
    BY <1>5, MetaEffect
  <2>2. job[t].id \in Id /\ job[t].meta \in File /\ meta[job[t].id] \in File
    BY <2>1 DEF Job, TypeOK
  <2>3. Written(job[t].meta, meta[job[t].id]) = {job[t].meta}
    BY <1>5, <2>2, WrittenFacts DEF Steady
  <2>4. meta' = [meta EXCEPT ![job[t].id] = job[t].meta]
    BY <1>5, <2>3, MetaEffect
  <2>5. meta'[job[t].id] = job[t].meta /\ \A id \in Id : id # job[t].id => meta'[id] = meta[id]
    BY <2>2, <2>4 DEF TypeOK
  <2>6. /\ Past(job[t].meta) /\ NotNewer(job[t].meta, bin[job[t].id])
        /\ \A id \in Id : Past(meta[id]) /\ NotNewer(meta[id], bin[id])
    BY <1>5, <2>1 DEF Ordered
  <2>7. \A id \in Id : Past(meta'[id]) /\ NotNewer(meta'[id], bin'[id])
    BY <2>1, <2>5, <2>6
  <2> QED BY <2>1, <2>7 DEF Ordered, Past, NotNewer, Named, Reads
<1>6. Crash /\ UNCHANGED faults => Ordered'
  <2> SUFFICES ASSUME Crash, UNCHANGED faults, Steady PROVE Ordered'
    BY DEF Ordered, Steady
  <2>1. PICK t \in Thread :
          /\ job[t] \in Job /\ clock' = clock
          /\ \/ /\ meta' = meta
                /\ \E f \in Left(job[t].bin, bin[job[t].id]) : bin' = [bin EXCEPT ![job[t].id] = f]
             \/ /\ bin' = bin
                /\ \E f \in Left(job[t].meta, meta[job[t].id]) : meta' = [meta EXCEPT ![job[t].id] = f]
    BY CrashEffect
  <2>2. /\ job[t].id \in Id /\ job[t].bin \in File /\ job[t].meta \in File
        /\ bin[job[t].id] \in File /\ meta[job[t].id] \in File
    BY <2>1 DEF Job, TypeOK
  <2>3. \A id \in Id : /\ bin'[id] = bin[id] \/ ~Named(bin'[id])
                       /\ meta'[id] = meta[id] \/ ~Named(meta'[id])
    BY <2>1, <2>2, LeftFacts DEF TypeOK
  <2>4. \A id \in Id : Past(meta[id]) /\ NotNewer(meta[id], bin[id])
    BY DEF Ordered
  <2>5. \A id \in Id : NotNewer(meta'[id], bin'[id])
    BY <2>3, <2>4, Unnamed
  <2>6. \A id \in Id : Named(meta'[id]) => meta'[id].updated <= clock'
    BY <2>1, <2>3, <2>4 DEF Past
  <2> QED BY <2>5, <2>6, CrashIdles DEF Ordered, Past, NotNewer, Named, Reads
<1>7. ASSUME NEW t \in Thread, WriteBin(t) \/ WriteMeta(t) \/ RemoveThrows(t), UNCHANGED faults
      PROVE  Ordered'
  <2>1. ~Steady => Ordered'
    BY <1>7 DEF Ordered, Steady
  <2> QED BY <1>4, <1>5, <1>7, <2>1, RemoveThrowsEffect DEF Steady
<1>8. Look => Ordered'
  BY DEF Look, Ordered, Past, NotNewer, Busy, Named, Reads, Steady
<1> QED BY <1>1, <1>2, <1>3, <1>6, <1>7, <1>8, StepKinds

\* Wherever the process dies, and however often, the list never names a time
\* later than the document's, as long as writes succeed and nobody sets the clock
\* back.
THEOREM ListNeverAhead == Spec => []MetaFollowsBin
<1>1. Init => Ordered
  BY IdleFacts, FileFacts DEF Init, Ordered, Busy, Past, NotNewer
<1>2. Ordered => MetaFollowsBin
  BY DEF Ordered, MetaFollowsBin, NotNewer
<1> QED BY <1>1, <1>2, InitType, NextType, NextOrdered, PTL DEF Spec

\* A save writes the same to both files, whatever it finds there.
Saving ==
  "write" \notin faults =>
    \A t \in Thread : Busy(t) /\ job[t].op = "save" =>
      /\ job[t].bin = job[t].meta /\ Named(job[t].meta)
      /\ job[t].step = "meta" => bin[job[t].id] = job[t].meta

LEMMA NextSaving == TypeOK /\ Saving /\ [Next]_vars => Saving'
<1> SUFFICES ASSUME TypeOK, Saving, [Next]_vars PROVE Saving'
  OBVIOUS
<1>1. ASSUME NEW t \in Thread, Start(t),
             job'[t].op = "save" => /\ job'[t].bin = job'[t].meta /\ Named(job'[t].meta)
                                    /\ job'[t].step = "bin"
      PROVE  Saving'
  <2>1. bin' = bin /\ \A s \in Thread : Busy(s)' <=> s = t
    BY <1>1, StartAlone
  <2> QED BY <1>1, <2>1 DEF Saving, Named, Reads
<1>2. ASSUME NEW t \in Thread, NEW u \in User, NEW id \in Id, NEW n \in Name,
             save(t, u, id, n), UNCHANGED faults
      PROVE  Saving'
  <2>1. /\ Start(t) /\ job'[t].step = "bin" /\ job'[t].bin = job'[t].meta
        /\ job'[t].meta = Whole(u, n, clock') /\ Named(Whole(u, n, clock'))
    BY <1>2, SaveStarts
  <2>2. Named(job'[t].meta)
    BY <2>1
  <2> QED BY <1>1, <2>1, <2>2
<1>3. ASSUME NEW t \in Thread, NEW u \in User, NEW id \in Id, UNCHANGED faults,
             remove(t, u, id) \/ \E n \in Name : rename(t, u, id, n)
      PROVE  Saving'
  <2>1. Start(t) /\ job'[t].op # "save"
    BY <1>3, RemoveStarts, RenameStarts
  <2> QED BY <1>1, <2>1
<1>4. ASSUME NEW t \in Thread, WriteBin(t), UNCHANGED faults, "write" \notin faults
      PROVE  Saving'
  <2>1. /\ Busy(t) /\ job[t] \in Job
        /\ job'[t] = [job[t] EXCEPT !.step = "meta"] /\ \A s \in Thread : Busy(s)' <=> s = t
    BY <1>4, BinEffect
  <2>2. /\ job[t].id \in Id /\ job[t].bin \in File /\ bin[job[t].id] \in File
        /\ job'[t].id = job[t].id /\ job'[t].op = job[t].op
        /\ job'[t].meta = job[t].meta /\ job'[t].bin = job[t].bin
    BY <2>1 DEF Job, TypeOK
  <2>3. Written(job[t].bin, bin[job[t].id]) = {job[t].bin}
    BY <1>4, <2>2, WrittenFacts
  <2>4. bin' = [bin EXCEPT ![job[t].id] = job[t].bin]
    BY <1>4, <2>3, BinEffect
  <2>5. bin'[job[t].id] = job[t].bin
    BY <2>2, <2>4 DEF TypeOK
  <2>6. job[t].op = "save" => job[t].bin = job[t].meta /\ Named(job[t].meta)
    BY <1>4, <2>1 DEF Saving
  <2> QED BY <2>1, <2>2, <2>5, <2>6 DEF Saving, Named, Reads
<1>5. ASSUME \A s \in Thread : ~Busy(s)' PROVE Saving'
  BY <1>5 DEF Saving
<1>6. ASSUME NEW t \in Thread, WriteBin(t) \/ WriteMeta(t) \/ RemoveThrows(t), UNCHANGED faults
      PROVE  Saving'
  <2>1. "write" \in faults => Saving'
    BY <1>6 DEF Saving
  <2>2. WriteMeta(t) \/ RemoveThrows(t) => Saving'
    BY <1>5, MetaEffect, RemoveThrowsEffect
  <2> QED BY <1>4, <1>6, <2>1, <2>2
<1>7. Crash => Saving'
  BY <1>5, CrashIdles
<1>8. Look => Saving'
  BY DEF Look, Saving, Busy, Named, Reads
<1> QED BY <1>2, <1>3, <1>6, <1>7, <1>8, StepKinds

\* Whatever crashes left of a project's files, once it is saved they are whole
\* and agree, as long as writes succeed, and whatever the clock does.
THEOREM SavesRepair == Spec => SaveRepairs
<1> DEFINE Repaired(t) ==
             "write" \notin faults /\ WriteMeta(t) /\ job[t].op = "save"
               => bin'[job[t].id] = meta'[job[t].id] /\ Named(bin'[job[t].id])
<1>1. Init => Saving
  BY IdleFacts DEF Init, Saving, Busy
<1>2. TypeOK /\ Saving => \A t \in Thread : Repaired(t)
  <2> SUFFICES ASSUME TypeOK, Saving, NEW t \in Thread, "write" \notin faults,
                      WriteMeta(t), job[t].op = "save"
               PROVE  bin'[job[t].id] = meta'[job[t].id] /\ Named(bin'[job[t].id])
    OBVIOUS
  <2>1. Busy(t) /\ job[t] \in Job /\ job[t].step = "meta" /\ bin' = bin
    BY MetaEffect
  <2>2. job[t].id \in Id /\ job[t].meta \in File /\ meta[job[t].id] \in File
    BY <2>1 DEF Job, TypeOK
  <2>3. Written(job[t].meta, meta[job[t].id]) = {job[t].meta}
    BY <2>2, WrittenFacts
  <2>4. meta'[job[t].id] = job[t].meta
    BY <2>2, <2>3, MetaEffect DEF TypeOK
  <2>5. bin[job[t].id] = job[t].meta /\ Named(job[t].meta)
    BY <2>1 DEF Saving
  <2> QED BY <2>1, <2>4, <2>5
<1> QED BY <1>1, <1>2, InitType, NextType, NextSaving, PTL DEF Spec, SaveRepairs

-----------------------------------------------------------------------------
(* The refinement: the two files and the mutex implement ProjectTable, as    *)
(* long as nothing fails, for any threads, users, projects and names.        *)

\* What ProjectTable's variables stand for.
table == [id \in Id |-> IF Sound /\ Reads(meta[id]) THEN {meta[id]} ELSE {}]
answers == [t \in Thread |-> IF Sound THEN reply[t] ELSE NoAnswer]

TableAnswer(t, ok, projects) ==
  answers' = [answers EXCEPT ![t] = [ok |-> ok, projects |-> projects, total |-> 0]]

TableOwns(u, id) == \E p \in table[id] : p.owner = u
TableOwned(u) == {x \in UNION {{id} \X table[id] : id \in Id} : x[2].owner = u}

\* The abstract calls, in these terms.
TableHolds(u, id, n) ==
  \E p \in table'[id] : p.owner = u /\ p.name = n /\ table' = [table EXCEPT ![id] = {p}]

LEMMA SaveCall ==
  ASSUME NEW t, NEW u, NEW id, NEW n, TableHolds(u, id, n), TableAnswer(t, TRUE, {})
  PROVE  Table!Save(t, u, id, n)
BY DEF Table!Save, Table!Answer, TableHolds, TableAnswer, table, answers

LEMMA RenameCall ==
  ASSUME NEW t, NEW u, NEW id, NEW n,
         TableOwns(u, id), TableHolds(u, id, n), TableAnswer(t, TRUE, {})
  PROVE  Table!Rename(t, u, id, n)
BY DEF Table!Rename, Table!Owns, Table!Answer, TableOwns, TableHolds, TableAnswer, table, answers

LEMMA RemoveCall ==
  ASSUME NEW t, NEW u, NEW id,
         TableOwns(u, id), table' = [table EXCEPT ![id] = {}], TableAnswer(t, TRUE, {})
  PROVE  Table!Remove(t, u, id)
BY DEF Table!Remove, Table!Owns, Table!Answer, TableOwns, TableAnswer, table, answers

LEMMA RefuseCall ==
  ASSUME NEW t, NEW u, NEW id,
         ~TableOwns(u, id), TableAnswer(t, FALSE, {}), table' = table
  PROVE  Table!Refuse(t, u, id)
BY DEF Table!Refuse, Table!Owns, Table!Answer, TableOwns, TableAnswer, table, answers

LEMMA LoadCall ==
  ASSUME NEW t, NEW u, NEW id,
         TableOwns(u, id), TableAnswer(t, TRUE, {id} \X table[id]), table' = table
  PROVE  Table!Load(t, u, id)
BY DEF Table!Load, Table!Owns, Table!Answer, TableOwns, TableAnswer, table, answers

LEMMA ListCall ==
  ASSUME NEW t, NEW u, TableAnswer(t, TRUE, TableOwned(u)), table' = table
  PROVE  Table!List(t, u)
BY DEF Table!List, Table!Owned, Table!Answer, TableOwned, TableAnswer, table, answers

LEMMA CountCall ==
  ASSUME NEW t, NEW u, table' = table,
         answers' = [answers EXCEPT ![t].total = Cardinality(TableOwned(u))]
  PROVE  Table!Count(t, u)
<1>1. Table!Owned(u) = TableOwned(u)
  BY DEF Table!Owned, TableOwned, table
<1>2. \A S : Table!Cardinality(S) = Cardinality(S)
  BY DEF Table!Cardinality, Cardinality
<1>3. Table!Cardinality(Table!Owned(u)) = Cardinality(TableOwned(u))
  BY <1>1, <1>2
<1> QED BY <1>3, Zenon DEF Table!Count, table, answers

LEMMA TableIs ==
  /\ \A id \in Id : table[id] = IF Sound /\ Reads(meta[id]) THEN {meta[id]} ELSE {}
  /\ \A t \in Thread : answers[t] = IF Sound THEN reply[t] ELSE NoAnswer
BY DEF table, answers

LEMMA AnswerMaps ==
  ASSUME TypeOK, Sound, UNCHANGED faults, NEW t \in Thread, NEW ok, NEW projects,
         Answer(t, ok, projects)
  PROVE  TableAnswer(t, ok, projects)
BY DEF TypeOK, Answer, TableAnswer, answers, Sound

LEMMA TableUnchanged ==
  UNCHANGED <<meta, faults>> => table' = table
BY DEF table, Reads, Sound

LEMMA AnswersUnchanged ==
  UNCHANGED <<reply, faults>> => answers' = answers
BY DEF answers, Sound

\* Writing a sidecar is a change of the table's entry.
LEMMA TableChanges ==
  ASSUME TypeOK, Sound, UNCHANGED faults, NEW id \in Id, NEW f,
         meta' = [meta EXCEPT ![id] = f]
  PROVE  /\ Reads(f) => f \in table'[id] /\ table' = [table EXCEPT ![id] = {f}]
         /\ ~Reads(f) => table' = [table EXCEPT ![id] = {}]
BY DEF TypeOK, table, Reads, Sound

LEMMA TableOwnsMeta ==
  ASSUME Sound, NEW u \in User, NEW id \in Id
  PROVE  TableOwns(u, id) <=> OwnedMeta(u, id)
BY TableIs DEF TableOwns, OwnedMeta

LEMMA TableOwnedIs ==
  ASSUME Sound, NEW u \in User
  PROVE  TableOwned(u) = {<<id, meta[id]>> : id \in Mine(u)}
<1>1. ASSUME NEW x \in TableOwned(u) PROVE x \in {<<id, meta[id]>> : id \in Mine(u)}
  <2>1. PICK id \in Id : x \in {id} \X table[id]
    BY <1>1 DEF TableOwned
  <2>2. Reads(meta[id]) /\ table[id] = {meta[id]}
    BY <2>1, TableIs
  <2>3. x = <<id, meta[id]>>
    BY <2>1, <2>2
  <2>4. meta[id].owner = u
    BY <1>1, <2>3 DEF TableOwned
  <2> QED BY <2>2, <2>3, <2>4 DEF Mine, OwnedMeta
<1>2. ASSUME NEW id \in Mine(u) PROVE <<id, meta[id]>> \in TableOwned(u)
  <2>1. id \in Id /\ Reads(meta[id]) /\ meta[id].owner = u
    BY <1>2 DEF Mine, OwnedMeta
  <2>2. <<id, meta[id]>> \in {id} \X table[id]
    BY <2>1, TableIs
  <2> QED BY <2>1, <2>2 DEF TableOwned
<1> QED BY <1>1, <1>2

LEMMA TotalIs ==
  ASSUME Sound, NEW u \in User
  PROVE  Cardinality(TableOwned(u)) = Cardinality(Mine(u))
<1> DEFINE f == [id \in Mine(u) |-> <<id, meta[id]>>]
<1>1. f \in Bijection(Mine(u), {<<id, meta[id]>> : id \in Mine(u)})
  BY DEF Bijection, Injection, Surjection, IsInjective
<1>2. ExistsBijection(Mine(u), {<<id, meta[id]>> : id \in Mine(u)})
  BY <1>1 DEF ExistsBijection
<1> QED BY <1>2, MineFacts, TableOwnedIs, FS_Bijection
----------------------------------------------------------------------------
\* What a job is going to write, and that it may.
Meaning ==
  Sound =>
    \A t \in Thread : Busy(t) =>
      /\ job[t].op = "save" =>
           Reads(job[t].meta) /\ job[t].meta.owner \in User /\ job[t].meta.name \in Name
      /\ job[t].op = "rename" =>
           /\ Reads(meta[job[t].id]) /\ meta[job[t].id].owner \in User
           /\ Reads(job[t].meta) /\ job[t].meta.name \in Name
           /\ job[t].meta.owner = meta[job[t].id].owner
      /\ job[t].op = "remove" =>
           /\ Reads(meta[job[t].id]) /\ meta[job[t].id].owner \in User
           /\ job[t].meta = NoFile

LEMMA RenamedReads ==
  ASSUME NEW f \in File, NEW n \in Name, NEW t \in Nat, Reads(f)
  PROVE  /\ Reads(Renamed(f, n, t)) /\ Renamed(f, n, t).name = n
         /\ Renamed(f, n, t).owner = f.owner
BY DEF Renamed, File, Message, NoFile, Torn, Blank, Whole, Reads

LEMMA NextMeaning == TypeOK /\ Meaning /\ [Next]_vars => Meaning'
<1> SUFFICES ASSUME TypeOK, Meaning, [Next]_vars PROVE Meaning'
  OBVIOUS
<1>1. ASSUME NEW t \in Thread, NEW u \in User, NEW id \in Id, NEW n \in Name,
             save(t, u, id, n), UNCHANGED faults
      PROVE  Meaning'
  <2>1. /\ Start(t) /\ job'[t].op = "save" /\ job'[t].meta = Whole(u, n, clock')
    BY <1>1, SaveStarts
  <2>2. Reads(job'[t].meta) /\ job'[t].meta.owner = u /\ job'[t].meta.name = n
    BY <2>1 DEF Whole, Reads
  <2>3. \A s \in Thread : Busy(s)' <=> s = t
    BY <2>1, StartAlone
  <2> QED BY <2>1, <2>2, <2>3 DEF Meaning, Reads
<1>2. ASSUME NEW t \in Thread, NEW u \in User, NEW id \in Id, NEW n \in Name,
             rename(t, u, id, n), UNCHANGED faults
      PROVE  Meaning'
  <2>1. /\ Start(t) /\ job'[t].op = "rename" /\ job'[t].id = id
        /\ job'[t].meta = Renamed(meta[id], n, clock')
    BY <1>2, RenameStarts
  <2>2. clock' \in Nat /\ meta[id] \in File /\ meta' = meta
    BY <2>1 DEF TypeOK, Start
  <2>3. Reads(meta[id]) /\ meta[id].owner = u
    BY <1>2 DEF rename, OwnedMeta
  <2>4. Reads(job'[t].meta) /\ job'[t].meta.owner = u /\ job'[t].meta.name = n
    BY <2>1, <2>2, <2>3, RenamedReads
  <2>5. \A s \in Thread : Busy(s)' <=> s = t
    BY <2>1, StartAlone
  <2> QED BY <2>1, <2>2, <2>3, <2>4, <2>5 DEF Meaning, Reads
<1>3. ASSUME NEW t \in Thread, NEW u \in User, NEW id \in Id, remove(t, u, id), UNCHANGED faults
      PROVE  Meaning'
  <2>1. Start(t) /\ job'[t].op = "remove" /\ job'[t].id = id /\ job'[t].meta = NoFile
    BY <1>3, RemoveStarts
  <2>2. Reads(meta[id]) /\ meta[id].owner = u /\ meta' = meta
    BY <1>3, <2>1 DEF remove, OwnedMeta, Start
  <2>3. \A s \in Thread : Busy(s)' <=> s = t
    BY <2>1, StartAlone
  <2> QED BY <2>1, <2>2, <2>3 DEF Meaning, Reads
<1>4. ASSUME NEW t \in Thread, WriteBin(t), UNCHANGED faults PROVE Meaning'
  <2>1. /\ Busy(t) /\ job[t] \in Job /\ meta' = meta
        /\ job'[t] = [job[t] EXCEPT !.step = "meta"] /\ \A s \in Thread : Busy(s)' <=> s = t
    BY <1>4, BinEffect
  <2>2. job'[t].id = job[t].id /\ job'[t].op = job[t].op /\ job'[t].meta = job[t].meta
    BY <2>1 DEF Job
  <2> SUFFICES ASSUME Sound PROVE Meaning'
    BY <1>4 DEF Meaning, Sound
  <2>3. /\ job'[t].op = "save" =>
             Reads(job'[t].meta) /\ job'[t].meta.owner \in User /\ job'[t].meta.name \in Name
        /\ job'[t].op = "rename" =>
             /\ Reads(meta'[job'[t].id]) /\ meta'[job'[t].id].owner \in User
             /\ Reads(job'[t].meta) /\ job'[t].meta.name \in Name
             /\ job'[t].meta.owner = meta'[job'[t].id].owner
        /\ job'[t].op = "remove" =>
             /\ Reads(meta'[job'[t].id]) /\ meta'[job'[t].id].owner \in User
             /\ job'[t].meta = NoFile
    BY <2>1, <2>2 DEF Meaning
  <2> QED BY <2>1, <2>3 DEF Meaning, Reads
<1>5. ASSUME \A s \in Thread : ~Busy(s)' PROVE Meaning'
  BY <1>5 DEF Meaning
<1>6. ASSUME NEW t \in Thread, WriteMeta(t) \/ RemoveThrows(t) PROVE Meaning'
  BY <1>5, <1>6, MetaEffect, RemoveThrowsEffect
<1>7. Crash => Meaning'
  BY <1>5, CrashIdles
<1>8. Look => Meaning'
  BY DEF Look, Meaning, Busy, Reads, Sound
<1> QED BY <1>1, <1>2, <1>3, <1>4, <1>6, <1>7, <1>8, StepKinds
----------------------------------------------------------------------------
(* Every step is a call taking effect, or none. *)

\* The last write of a call is the moment it takes effect.
LEMMA WriteMetaMaps ==
  ASSUME TypeOK, Meaning, Sound, UNCHANGED faults, NEW t \in Thread, WriteMeta(t)
  PROVE  \E u \in User, id \in Id :
           \/ \E n \in Name : Table!Save(t, u, id, n) \/ Table!Rename(t, u, id, n)
           \/ Table!Remove(t, u, id)
<1> DEFINE j == job[t]
<1>1. Busy(t) /\ j \in Job
  BY MetaEffect
<1>2. j.meta \in File /\ j.op \in {"save", "rename", "remove"}
  BY <1>1 DEF Job
<1>3. PICK id \in Id : id = j.id
  BY <1>1 DEF Job
<1>4. Written(j.meta, meta[id]) = {j.meta}
  BY <1>2, WrittenFacts DEF TypeOK, Sound
<1>5. meta' = [meta EXCEPT ![id] = j.meta] /\ Answer(t, TRUE, {})
  BY <1>3, <1>4 DEF WriteMeta
<1>6. TableAnswer(t, TRUE, {})
  BY <1>5, AnswerMaps
<1>7. /\ Reads(j.meta) => j.meta \in table'[id] /\ table' = [table EXCEPT ![id] = {j.meta}]
      /\ ~Reads(j.meta) => table' = [table EXCEPT ![id] = {}]
  BY <1>5, TableChanges
<1>8. CASE j.op = "save"
  <2>1. Reads(j.meta) /\ j.meta.owner \in User /\ j.meta.name \in Name
    BY <1>1, <1>8 DEF Meaning
  <2>2. PICK u \in User, n \in Name : u = j.meta.owner /\ n = j.meta.name
    BY <2>1
  <2>3. TableHolds(u, id, n)
    BY <1>7, <2>1, <2>2 DEF TableHolds
  <2>4. Table!Save(t, u, id, n)
    BY <1>6, <2>3, SaveCall
  <2> QED BY <2>4
<1>9. CASE j.op = "rename"
  <2>1. /\ Reads(meta[id]) /\ meta[id].owner \in User
        /\ Reads(j.meta) /\ j.meta.name \in Name /\ j.meta.owner = meta[id].owner
    BY <1>1, <1>3, <1>9 DEF Meaning
  <2>2. PICK u \in User, n \in Name : u = j.meta.owner /\ n = j.meta.name
    BY <2>1
  <2>3. TableHolds(u, id, n)
    BY <1>7, <2>1, <2>2 DEF TableHolds
  <2>4. TableOwns(u, id)
    BY <2>1, <2>2, TableOwnsMeta DEF OwnedMeta
  <2>5. Table!Rename(t, u, id, n)
    BY <1>6, <2>3, <2>4, RenameCall
  <2> QED BY <2>5
<1>10. CASE j.op = "remove"
  <2>1. Reads(meta[id]) /\ meta[id].owner \in User /\ j.meta = NoFile
    BY <1>1, <1>3, <1>10 DEF Meaning
  <2>2. ~Reads(j.meta)
    BY <2>1 DEF Reads, NoFile, Blank, Whole
  <2>3. PICK u \in User : u = meta[id].owner
    BY <2>1
  <2>4. TableOwns(u, id)
    BY <2>1, <2>3, TableOwnsMeta DEF OwnedMeta
  <2>5. Table!Remove(t, u, id)
    BY <1>6, <1>7, <2>2, <2>4, RemoveCall
  <2> QED BY <2>5
<1> QED BY <1>2, <1>8, <1>9, <1>10

\* A call that only looks finds the files alike, so either may stand for the
\* project.
LEMMA LoadMaps ==
  ASSUME TypeOK, Agree, Sound, UNCHANGED faults, NEW t \in Thread, NEW u \in User,
         NEW id \in Id, load(t, u, id)
  PROVE  Table!Load(t, u, id) \/ Table!Refuse(t, u, id)
<1>1. bin[id] = meta[id]
  BY FreeAgree DEF load, lock_guard, FilesAgree
<1>2. table' = table
  BY TableUnchanged DEF load
<1>3. CASE OwnedMeta(u, id)
  <2>1. Answer(t, TRUE, {<<id, meta[id]>>})
    BY <1>1, <1>3 DEF load, OwnedMeta
  <2>2. {<<id, meta[id]>>} = {id} \X table[id]
    <3>1. table[id] = {meta[id]}
      BY <1>3, TableIs DEF OwnedMeta
    <3>2. \A a, b : {<<a, b>>} = {a} \X {b}
      OBVIOUS
    <3> QED BY <3>1, <3>2
  <2>3. TableAnswer(t, TRUE, {<<id, meta[id]>>})
    BY <2>1, AnswerMaps
  <2>4. TableOwns(u, id) /\ TableAnswer(t, TRUE, {id} \X table[id])
    BY <1>3, <2>2, <2>3, TableOwnsMeta
  <2> QED BY <1>2, <2>4, LoadCall
<1>4. CASE ~OwnedMeta(u, id)
  <2>1. Answer(t, FALSE, {})
    BY <1>1, <1>4 DEF load, OwnedMeta
  <2>2. TableAnswer(t, FALSE, {}) /\ ~TableOwns(u, id)
    BY <1>4, <2>1, AnswerMaps, TableOwnsMeta
  <2> QED BY <1>2, <2>2, RefuseCall
<1> QED BY <1>3, <1>4

LEMMA RefuseMaps ==
  ASSUME TypeOK, Sound, UNCHANGED faults, NEW t \in Thread, NEW u \in User,
         NEW id \in Id, refuse(t, u, id)
  PROVE  Table!Refuse(t, u, id)
<1>1. table' = table
  BY TableUnchanged DEF refuse
<1>2. TableAnswer(t, FALSE, {}) /\ ~TableOwns(u, id)
  BY AnswerMaps, TableOwnsMeta DEF refuse
<1> QED BY <1>1, <1>2, RefuseCall

LEMMA ListMaps ==
  ASSUME TypeOK, Sound, UNCHANGED faults, NEW t \in Thread, NEW u \in User, list(t, u)
  PROVE  Table!List(t, u)
<1>1. table' = table
  BY TableUnchanged DEF list
<1>2. TableAnswer(t, TRUE, {<<id, meta[id]>> : id \in Mine(u)})
  BY AnswerMaps DEF list
<1>3. TableAnswer(t, TRUE, TableOwned(u))
  BY <1>2, TableOwnedIs
<1> QED BY <1>1, <1>3, ListCall

LEMMA CountMaps ==
  ASSUME TypeOK, Sound, UNCHANGED faults, NEW t \in Thread, NEW u \in User, count(t, u)
  PROVE  Table!Count(t, u)
<1>1. table' = table
  BY TableUnchanged DEF count
<1>2. reply' = [reply EXCEPT ![t].total = Cardinality(Mine(u))]
  BY DEF count
<1>3. answers' = [answers EXCEPT ![t].total = Cardinality(Mine(u))]
  BY <1>2 DEF TypeOK, answers, Sound
<1>4. answers' = [answers EXCEPT ![t].total = Cardinality(TableOwned(u))]
  BY <1>3, TotalIs
<1> QED BY <1>1, <1>4, CountCall

LEMMA Stutters ==
  ASSUME UNCHANGED <<meta, reply, faults>> PROVE UNCHANGED Table!vars
BY DEF Table!vars, Reads, Sound

\* Where something fails, the table and the answers stand still.
LEMMA FaultsStutter ==
  ASSUME ~Sound, UNCHANGED faults PROVE UNCHANGED Table!vars
BY DEF Table!vars, Sound

LEMMA StepMaps == TypeOK /\ Agree /\ Meaning /\ [Next]_vars => [Table!Next]_(Table!vars)
<1> SUFFICES ASSUME TypeOK, Agree, Meaning, [Next]_vars PROVE Table!Next \/ UNCHANGED Table!vars
  OBVIOUS
<1>1. CASE UNCHANGED vars
  BY <1>1, Stutters DEF vars
<1>2. CASE Next /\ ~Sound
  BY <1>2, FaultsStutter DEF Next
<1>3. CASE Next /\ Sound
  <2>1. UNCHANGED faults
    BY <1>3 DEF Next
  <2>2. ASSUME NEW t \in Thread, NEW u \in User, NEW id \in Id,
               remove(t, u, id) \/ \E n \in Name : save(t, u, id, n) \/ rename(t, u, id, n)
        PROVE  UNCHANGED Table!vars
    BY <2>1, <2>2, Stutters DEF save, rename, remove, Write
  <2>3. ASSUME NEW t \in Thread, NEW u \in User, NEW id \in Id, refuse(t, u, id) \/ load(t, u, id)
        PROVE  Table!Next
    <3>1. Table!Refuse(t, u, id) \/ Table!Load(t, u, id)
      BY <1>3, <2>1, <2>3, RefuseMaps, LoadMaps
    <3> QED BY <3>1 DEF Table!Next
  <2>4. ASSUME NEW t \in Thread, NEW u \in User, list(t, u) \/ count(t, u)
        PROVE  Table!Next
    <3>1. Table!List(t, u) \/ Table!Count(t, u)
      BY <1>3, <2>1, <2>4, ListMaps, CountMaps
    <3> QED BY <3>1 DEF Table!Next
  <2>5. ASSUME NEW t \in Thread, WriteBin(t) PROVE UNCHANGED Table!vars
    BY <2>1, <2>5, Stutters DEF WriteBin
  <2>6. ASSUME NEW t \in Thread, WriteMeta(t) PROVE Table!Next
    <3>1. PICK u \in User, id \in Id :
            \/ \E n \in Name : Table!Save(t, u, id, n) \/ Table!Rename(t, u, id, n)
            \/ Table!Remove(t, u, id)
      BY <1>3, <2>1, <2>6, WriteMetaMaps
    <3> QED BY <3>1 DEF Table!Next
  <2>7. ASSUME NEW t \in Thread, RemoveThrows(t) PROVE FALSE
    BY <1>3, <2>7 DEF RemoveThrows, Sound
  <2>8. Crash => FALSE
    BY <1>3 DEF Crash, Sound
  <2> QED BY <1>3, <2>2, <2>3, <2>4, <2>5, <2>6, <2>7, <2>8 DEF Next
<1> QED BY <1>1, <1>2, <1>3

LEMMA InitMaps == Init => Table!Init
BY DEF Init, Table!Init, NoAnswer, NoFile, Blank, Whole, Reads

\* Two files per project, written one after the other under one mutex, and read
\* one by load and the other by list, are a table whose calls are atomic: every
\* step of the store is one call of ProjectTable taking effect, or none, as long
\* as neither the process nor a write fails.
THEOREM StoreImplementsTable == Spec => ImplementsTable
<1>1. Init => Meaning
  BY IdleFacts DEF Init, Meaning, Busy
<1> QED BY <1>1, InitType, InitAgrees, NextType, NextAgrees, NextMeaning, InitMaps, StepMaps, PTL
        DEF Spec, ImplementsTable, Table!Spec
=============================================================================
