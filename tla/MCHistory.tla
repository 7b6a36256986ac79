------------------------------ MODULE MCHistory -----------------------------
EXTENDS History

\* One tool for each way a pointer event is handled.
Tools == {"pen", "rect", "fill", "text", "pan"}
=============================================================================
