------------------------------ MODULE MCServer ------------------------------
EXTENDS Server

CONSTANTS s1, s2

\* Two streams: enough for one to leave a room the other is entering.
Streams == {s1, s2}

\* Any thread may be interrupted; of the streams, which are alike, one.
Threads == {"main", "housekeeping", s1}
=============================================================================
