--------------------------- MODULE HistoryClaims ----------------------------
(***************************************************************************)
(* What the repository says of undo, redo and snapshots, stated of History *)
(* with one history variable.  Claims that no run lists: see the README.   *)
(***************************************************************************)
EXTENDS History

VARIABLE undone     \* <<pixels>> the undo just performed took away, or <<>>

varsC == <<vars, undone>>

InitC == Init /\ undone = <<>>

NextC == /\ Next
         /\ undone' = IF undo THEN <<Active.pixels>> ELSE <<>>

SpecC == InitC /\ [][NextC]_varsC
----------------------------------------------------------------------------
\* index.html, "Undo (Ctrl+Z)": undo brings back the pixels that the operation it
\* takes back found, which is what its entry holds.
UndoRestores == [][undo => Active'.pixels = LastOf(Active.undoStack).pixels]_varsC

\* index.html, "Redo (Ctrl+Y)": redo right after undo brings back what was undone.
RedoRestores == [][redo /\ undone # <<>> => Active'.pixels = undone[1]]_varsC

\* renderer.js, "max undo steps per layer", MAX_UNDO = 40, at which, says
\* memory_optimization.txt, the stack is capped: up to that cap every gesture leaves
\* one more step to undo.
GestureLeavesStep ==
  [][(beginDraw \/ beginDrawThrows) /\ Len(Active.undoStack) < MaxUndo
       => Len(Active'.undoStack) = Len(Active.undoStack) + 1]_varsC
=============================================================================
