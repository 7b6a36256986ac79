----------------------------- MODULE MCProjects -----------------------------
EXTENDS Projects, TLC

\* What holds under some faults holds under fewer: the largest sets that the
\* properties' hypotheses allow, and all.
Combinations == {{"clock"}, {"crash"}, {"crash", "clock"}, {"crash", "write", "clock"}}

Symmetry == Permutations(Thread) \union Permutations(User) \union Permutations(Name)
=============================================================================
