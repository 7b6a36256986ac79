----------------------------- MODULE Sequencer ------------------------------
(***************************************************************************)
(* What the collaboration service promises its clients: per project there  *)
(* is one sequence of operations that only grows, by one operation at a    *)
(* time, and the revision r a client is told about is always the transform *)
(* of the r-th of them.  Clients may learn revisions late, out of order,   *)
(* more than once, or never.                                               *)
(***************************************************************************)
EXTENDS OT

CONSTANTS Client, Project

VARIABLES oplog,    \* project -> sequence of operations
          known     \* client -> the pairs <<project, stamped operation>> it was told

vars == <<oplog, known>>

\* The r-th operation of a log, as it is told to clients.
Meaning(lg, r) == [TransformAll(lg[r], SubSeq(lg, lg[r].base + 1, r - 1)) EXCEPT !.rev = r]

Extends(new, old) == Len(new) = Len(old) + 1 /\ SubSeq(new, 1, Len(old)) = old

Init == /\ oplog = [p \in Project |-> <<>>]
        /\ known = [c \in Client |-> {}]

Submit(p) == /\ Extends(oplog'[p], oplog[p])
             /\ oplog' = [oplog EXCEPT ![p] = oplog'[p]]
             /\ UNCHANGED known

Learn(c, p) == /\ \E r \in 1..Len(oplog[p]) :
                    known' = [known EXCEPT ![c] = @ \union {<<p, Meaning(oplog[p], r)>>}]
               /\ UNCHANGED oplog

Next == \E p \in Project : Submit(p) \/ \E c \in Client : Learn(c, p)

Spec == Init /\ [][Next]_vars
=============================================================================
