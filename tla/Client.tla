------------------------------- MODULE Client -------------------------------
(***************************************************************************)
(* The demo client from end to end: client.cpp walks through every call of *)
(* the service, with the handlers, the session store and the project store *)
(* behind them as SessionTable and ProjectTable promise them to be.  Its   *)
(* user id is new with its session, which may end at any moment; a call    *)
(* may fail before it is served or its answer be lost; and other users,    *)
(* of the same name or not, keep projects in the same store, where a save  *)
(* under an id makes whoever saves the owner of what is there.             *)
(***************************************************************************)
EXTENDS Export, FiniteSets

CONSTANTS
  Id,        \* project ids
  None,      \* no id
  Document   \* what is saved, in place of the demo's picture: layers, bottom first

Me == "alice"
Other == "other alice"

\* What save_project sends: two opaque layers, white and cornflower blue.
Opaque(c) == [visible |-> TRUE, fits |-> TRUE, colour |-> c, alpha |-> 255]
Demo == <<Opaque(255), Opaque(100)>>

ASSUME ClientAssumption ==
  IsFiniteSet(Id) /\ None \notin Id /\ Document \subseteq Seq(Layer) /\ Demo \in Document

VARIABLES
  step,    \* how far main has got
  code,    \* its exit code, once it has one
  call,    \* where the call of this step is
  answer,  \* the status and the response of the last call
  pid,     \* the project it has saved
  life,    \* its session
  table,   \* project id -> {} or {project}
  failed,  \* of saving and deleting, what did not return OK
  lost     \* the projects of its own that others have saved over

clientVars == <<step, code, pid, failed>>
vars == <<clientVars, call, answer, life, table, lost>>

Walk == <<"CreateSession", "ValidateSession", "SaveProject", "LoadProject", "ListProjects",
          "RenameProject", "ExportProject", "Collaborate", "DeleteProject", "ListProjects">>

Watched == {"SaveProject", "DeleteProject"}

\* A call that fails leaves its response as it was made: empty.
Refusal == [ok |-> FALSE, success |-> FALSE, id |-> None, total |-> 0, picture |-> Clear]
Accept(success) == [Refusal EXCEPT !.ok = TRUE, !.success = success]

Init ==
  /\ step = 1 /\ code = "running" /\ pid = None /\ failed = {}
  /\ call = "none" /\ answer = Refusal
  /\ life = "unborn"
  /\ table = [id \in Id |-> {}] /\ lost = {}

Owned(u) == {id \in Id : \E p \in table[id] : p.owner = u}
----------------------------------------------------------------------------
(* The calls: what a method of RendererClient asks for, and what is done about it. *)

Serving(method) == call = "served" /\ Walk[step] = method /\ UNCHANGED clientVars

Reply(a) == call' = "answered" /\ answer' = a

\* Mutant: every token will do.
auth_any ==
  /\ call = "sent" /\ call' = "served"
  /\ UNCHANGED <<clientVars, answer, life, table, lost>>

\* The calls that need a session look it up first, and only then.
auth ==
  /\ call = "sent"
  /\ IF life = "alive" \/ Walk[step] \in {"CreateSession", "ValidateSession"}
     THEN call' = "served" /\ UNCHANGED answer
     ELSE Reply(Refusal)
  /\ UNCHANGED <<clientVars, life, table, lost>>

\* The session may not have reached Redis.
CreateSession ==
  /\ Serving("CreateSession")
  /\ life' \in {"alive", "ended"}
  /\ Reply(Accept(TRUE))
  /\ UNCHANGED <<table, lost>>

ValidateSession ==
  /\ Serving("ValidateSession")
  /\ Reply(Accept(life = "alive"))
  /\ UNCHANGED <<life, table, lost>>

\* The client names no id: the store takes a new one.
SaveProject ==
  /\ Serving("SaveProject")
  /\ \E id \in Id, d \in Document :
       /\ table[id] = {}
       /\ table' = [table EXCEPT ![id] = {[owner |-> Me, name |-> "My Canvas", layers |-> d]}]
       /\ Reply([Accept(TRUE) EXCEPT !.id = id])
  /\ UNCHANGED <<life, lost>>

\* What is there and another's is denied; what is not there is only not found.
Denied == \E p \in table[pid] : p.owner # Me

LoadProject ==
  /\ Serving("LoadProject")
  /\ Reply(IF Denied THEN Refusal ELSE Accept(pid \in Owned(Me)))
  /\ UNCHANGED <<life, table, lost>>

ListProjects ==
  /\ Serving("ListProjects")
  /\ Reply([Accept(FALSE) EXCEPT !.total = Cardinality(Owned(Me))])
  /\ UNCHANGED <<life, table, lost>>

RenameProject ==
  /\ Serving("RenameProject")
  /\ Reply(Accept(pid \in Owned(Me)))
  /\ table' = [table EXCEPT ![pid] = {p \in @ : p.owner # Me} \union
                               {[p EXCEPT !.name = "My Canvas (renamed)"] : p \in {q \in @ : q.owner = Me}}]
  /\ UNCHANGED <<life, lost>>

ExportProject ==
  /\ Serving("ExportProject")
  /\ \/ Denied /\ Reply(Refusal)
     \/ table[pid] = {} /\ Reply(Accept(FALSE))
     \/ \E p \in table[pid] : /\ p.owner = Me
                             /\ \E px \in Composite(p.layers) : Reply([Accept(TRUE) EXCEPT !.picture = px])
  /\ UNCHANGED <<life, table, lost>>

\* The client sends one message and closes its side; the stream returns.
Collaborate ==
  /\ Serving("Collaborate")
  /\ Reply(Accept(TRUE))
  /\ UNCHANGED <<life, table, lost>>

DeleteProject ==
  /\ Serving("DeleteProject")
  /\ Reply(Accept(pid \in Owned(Me)))
  /\ table' = [table EXCEPT ![pid] = {p \in @ : p.owner # Me}]
  /\ UNCHANGED <<life, lost>>

Service == \/ auth \/ CreateSession \/ ValidateSession \/ SaveProject \/ LoadProject
           \/ ListProjects \/ RenameProject \/ ExportProject \/ Collaborate \/ DeleteProject
----------------------------------------------------------------------------
(* The client. *)

Send ==
  /\ call = "none" /\ code = "running"
  /\ call' = "sent" /\ answer' = Refusal
  /\ UNCHANGED <<clientVars, life, table, lost>>

\* Mutants: main looks at the first result only; or gives up when anything fails.
FirstOnly == {"CreateSession"}
Everything == {Walk[i] : i \in DOMAIN Walk}

\* main looks at two results only.
NeedsOk == {"CreateSession", "SaveProject"}

Return ==
  /\ call = "answered" /\ call' = "none"
  /\ IF ~answer.ok /\ Walk[step] \in NeedsOk THEN code' = "1" /\ UNCHANGED step
     ELSE IF step = Len(Walk) THEN code' = "0" /\ UNCHANGED step
     ELSE step' = step + 1 /\ UNCHANGED code
  /\ pid' = IF Walk[step] = "SaveProject" THEN answer.id ELSE pid
  /\ failed' = IF answer.ok THEN failed ELSE failed \union ({Walk[step]} \intersect Watched)
  /\ UNCHANGED <<answer, life, table, lost>>

\* The call fails on its way, or its answer on the way back.
Fail ==
  /\ call \in {"sent", "served"} \/ (call = "answered" /\ answer.ok)
  /\ Reply(Refusal)
  /\ UNCHANGED <<clientVars, life, table, lost>>

SessionEnds == /\ life = "alive" /\ life' = "ended"
               /\ UNCHANGED <<clientVars, call, answer, table, lost>>

\* Under any id, of a project of its own, of this client's or of nobody's: save asks
\* for no owner.  Bound: others leave one id.
OtherSaves ==
  /\ \E id \in Id :
       /\ Cardinality(Owned(Other)) < Cardinality(Id) - 1
       /\ lost' = lost \union (Owned(Me) \intersect {id})
       /\ table' = [table EXCEPT ![id] = {[owner |-> Other, name |-> "My Canvas", layers |-> Demo]}]
  /\ UNCHANGED <<clientVars, call, answer, life>>

OtherDeletes ==
  /\ \E id \in Owned(Other) : table' = [table EXCEPT ![id] = {}]
  /\ UNCHANGED <<clientVars, call, answer, life, lost>>

Next == Service \/ Send \/ Return \/ Fail \/ SessionEnds \/ OtherSaves \/ OtherDeletes

Spec == Init /\ [][Next]_vars
----------------------------------------------------------------------------
\* What each variable may hold.
TypeOK ==
  /\ step \in DOMAIN Walk /\ code \in {"running", "0", "1"} /\ pid \in Id \union {None}
  /\ call \in {"none", "sent", "served", "answered"}
  /\ answer \in [ok : BOOLEAN, success : BOOLEAN, id : Id \union {None}, total : Nat, picture : Pixel]
  /\ life \in {"unborn", "alive", "ended"}
  /\ \A id \in Id : Cardinality(table[id]) <= 1
  /\ failed \subseteq Watched /\ lost \subseteq Id
  /\ step > 3 => pid # None

Finished == code # "running"

\* A client that has finished leaves a project behind only if it was never told
\* of it, or was refused or not heard when it deleted it: whatever else fails on
\* the way, main comes to the deletion.
CleansUp ==
  Finished /\ Owned(Me) # {} => failed # {}

\* Once its session has ended, and the call it had admitted is over, what a user has
\* in the store is for ever what it has then, but for what others save over: no later
\* call of its own adds to it or gets rid of any of it, nor does anybody's deletion,
\* since the next session of the same name is another user's.
EndedIsInert ==
  \A kept \in SUBSET Id :
    [](life = "ended" /\ call # "served" /\ Owned(Me) = kept => [](Owned(Me) = kept \ lost))

\* client.cpp, "Confirm deletion": a total of 0, printed last, says that nothing is
\* left.
ZeroConfirms == code = "0" /\ answer.total = 0 => Owned(Me) = {}

Exported == Walk[step] = "ExportProject" /\ call = "answered" /\ answer.ok /\ answer.success

Mine == {p \in table[pid] : p.owner = Me}

\* What is exported lies, in colour, within what was drawn, however many layers the
\* rounding has gone through.
ExportInHull == Exported => \A p \in Mine : InHull(p.layers, answer.picture)

\* It covers all that any of its layers covers, and shows nothing, to the last bit,
\* of what an opaque layer hides.
ExportCovers ==
  Exported => \A p \in Mine : Covers(p.layers, answer.picture) /\ Hides(p.layers, answer.picture)
=============================================================================
