--------------------------- MODULE MCCollabHistory --------------------------
EXTENDS CollabHistory, TLC

CONSTANTS c1, c2

Clients == {c1, c2}
OneEach == c1 :> 1 @@ c2 :> 1
TwoAndOne == c1 :> 2 @@ c2 :> 1

\* Each browser draws the names of its layers itself, ...
Own == [c \in Client |-> {c}]
\* ... or all agree on them.
Common == [c \in Client |-> Layer]

ClientsSymmetric == Permutations(Clients)
=============================================================================
