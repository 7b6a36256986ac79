--------------------------- MODULE MCStreamThreads --------------------------
EXTENDS StreamThreads

\* Enough for a batch of two to be written while another message is queued.
Queued == 3
=============================================================================
