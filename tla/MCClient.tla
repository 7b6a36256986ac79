------------------------------ MODULE MCClient ------------------------------
EXTENDS Client

\* Both ends of the range, and colours and alphas in between; and what is invisible
\* or of another size than the canvas.
Shown == [visible : {TRUE}, fits : {TRUE}, colour : {0, 100, 255}, alpha : {0, 1, 128, 255}]
Skipped == {[Opaque(100) EXCEPT !.visible = FALSE], [Opaque(100) EXCEPT !.fits = FALSE]}
Documents == {<<s, t>> : s \in Shown \union Skipped, t \in Shown \union Skipped}
=============================================================================
