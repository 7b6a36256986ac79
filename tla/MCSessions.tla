----------------------------- MODULE MCSessions -----------------------------
EXTENDS Sessions, TLC

CONSTANTS t1, t2, s1, s2

\* Two of each, so that two processes disagree about a session, and a third
\* step of time after the one in which a session ends.
Threads == {t1, t2}
Servers == {s1, s2}

Symmetry == Permutations(Threads) \union Permutations(Servers)
=============================================================================
