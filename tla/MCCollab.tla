------------------------------ MODULE MCCollab ------------------------------
(* Two clients; the instances differ in what each may do. *)
EXTENDS CollabClaims, TLC

CONSTANTS c1, c2

Clients == {c1, c2}
Alone == {c1}

OneEach == c1 :> 1 @@ c2 :> 1
TwoAndOne == c1 :> 2 @@ c2 :> 1
Two == c1 :> 2

\* Each browser draws the names of its layers itself, ...
Own == [c \in Client |-> {c}]
\* ... or all agree on them.
Common == [c \in Client |-> Layer]

ProjectsSymmetric == Permutations(Project)
=============================================================================
