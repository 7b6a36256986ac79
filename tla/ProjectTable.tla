---------------------------- MODULE ProjectTable ----------------------------
(***************************************************************************)
(* What the project store promises: a table of projects, every call on it  *)
(* taking effect at one moment.                                            *)
(***************************************************************************)
EXTENDS Integers, FiniteSets

CONSTANTS Thread, User, Id, Name

VARIABLES table,    \* Id -> {} or {project}
          reply     \* what each thread last answered

vars == <<table, reply>>

Answer(t, ok, projects) ==
  reply' = [reply EXCEPT ![t] = [ok |-> ok, projects |-> projects, total |-> 0]]

Owned(u) == {x \in UNION {{id} \X table[id] : id \in Id} : x[2].owner = u}
Owns(u, id) == \E p \in table[id] : p.owner = u

Init == /\ table = [id \in Id |-> {}]
        /\ reply = [t \in Thread |-> [ok |-> TRUE, projects |-> {}, total |-> 0]]

Save(t, u, id, n) ==
  /\ \E p \in table'[id] : p.owner = u /\ p.name = n /\ table' = [table EXCEPT ![id] = {p}]
  /\ Answer(t, TRUE, {})

Rename(t, u, id, n) ==
  /\ Owns(u, id)
  /\ \E p \in table'[id] : p.owner = u /\ p.name = n /\ table' = [table EXCEPT ![id] = {p}]
  /\ Answer(t, TRUE, {})

Remove(t, u, id) ==
  Owns(u, id) /\ table' = [table EXCEPT ![id] = {}] /\ Answer(t, TRUE, {})

Refuse(t, u, id) == ~Owns(u, id) /\ Answer(t, FALSE, {}) /\ UNCHANGED table

Load(t, u, id) ==
  /\ Owns(u, id)
  /\ Answer(t, TRUE, {id} \X table[id])
  /\ UNCHANGED table

List(t, u) == Answer(t, TRUE, Owned(u)) /\ UNCHANGED table

\* The total is counted later, and may not fit the list.
Count(t, u) == reply' = [reply EXCEPT ![t].total = Cardinality(Owned(u))] /\ UNCHANGED table

Next ==
  \E t \in Thread, u \in User :
    \/ \E id \in Id : \/ \E n \in Name : Save(t, u, id, n) \/ Rename(t, u, id, n)
                      \/ Remove(t, u, id) \/ Refuse(t, u, id) \/ Load(t, u, id)
    \/ List(t, u) \/ Count(t, u)

Spec == Init /\ [][Next]_vars
=============================================================================
