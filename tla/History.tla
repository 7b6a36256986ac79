------------------------------ MODULE History -------------------------------
(***************************************************************************)
(* The browser's layers, undo history and drawing gestures (sections 6 to  *)
(* 11, 15 and 16 of renderer.js).  One action per event handler.  An       *)
(* exception ends a handler where it is thrown, and what it assigned until *)
(* then stays.                                                             *)
(*                                                                         *)
(* The pixels of a layer are the marks made on it since it was last wiped; *)
(* mark 0 is the white the Background starts with.                         *)
(***************************************************************************)
EXTENDS Integers, Sequences

CONSTANTS
  Tool,       \* the tools in the toolbar
  MaxUndo,    \* MAX_UNDO
  MaxPoints,  \* points brushPointsF32 has room for
  MaxMarks,   \* bound: marks made, by the user and by remote clients
  MaxLayers   \* bound: layers ever created

Freehand == {"pen", "brush", "eraser"}
Shape == {"rect", "ellipse", "line", "arrow"}
ASSUME HistoryAssumption ==
  /\ "pen" \in Tool
  /\ Tool \subseteq Freehand \union Shape
                   \union {"fill", "eyedropper", "text", "select", "pan", "zoom"}
  /\ MaxUndo \in Nat \ {0}
  /\ MaxPoints \in Nat \ {0}
  /\ MaxMarks \in Nat
  /\ MaxLayers \in Nat

VARIABLES
  layers,           \* state.layers, bottom first
  activeLayer,      \* state.activeLayer (counted from 1)
  tool, drawing,    \* of state, too
  brushPointCount,  \* of state, too
  text,             \* the text box, something typed in it: on screen ("shown"), or
                    \* taken off it and yet to lose the focus ("hidden"); or none
  created,          \* layers created so far, the source of their ids
  marks             \* marks made so far

vars == <<layers, activeLayer, tool, drawing, brushPointCount, text, created, marks>>
gesture == <<tool, drawing, brushPointCount>>

createLayer(id, pixels) == [id |-> id, pixels |-> pixels, undoStack |-> <<>>, redoStack |-> <<>>]

Init ==
  /\ layers = <<createLayer(1, <<0>>), createLayer(2, <<>>)>>
  /\ activeLayer = 2
  /\ tool = "pen"
  /\ drawing = FALSE
  /\ brushPointCount = 0
  /\ text = "none"
  /\ created = 2
  /\ marks = 0

Active == layers[activeLayer]

LastOf(q) == q[Len(q)]
AllButLast(q) == SubSeq(q, 1, Len(q) - 1)
----------------------------------------------------------------------------
(* Layers. *)

addLayer ==
  /\ created < MaxLayers
  /\ created' = created + 1
  /\ layers' = Append(layers, createLayer(created', <<>>))
  /\ activeLayer' = Len(layers')
  /\ UNCHANGED <<gesture, text, marks>>

Without(q, i) == SubSeq(q, 1, i - 1) \o SubSeq(q, i + 1, Len(q))

\* Mutant: the active layer is not looked at.
deleteLayerOnly(i) ==
  /\ Len(layers) > 1
  /\ layers' = Without(layers, i)
  /\ UNCHANGED <<activeLayer, gesture, text, created, marks>>

\* By the button in the panel, or for another client.
deleteLayer(i) ==
  /\ Len(layers) > 1
  /\ layers' = Without(layers, i)
  /\ activeLayer' = IF activeLayer <= Len(layers') THEN activeLayer ELSE Len(layers')
  /\ UNCHANGED <<gesture, text, created, marks>>

selectLayer(i) == activeLayer' = i /\ UNCHANGED <<layers, gesture, text, created, marks>>
----------------------------------------------------------------------------
(* Snapshots.  An entry of a stack is a full image or a delta on the entry *)
(* before it; `pixels` is what resolveSnapshot makes of it.                *)

\* encodeDelta is handed the image inside a full entry, which has neither
\* `full` nor `base`: resolveSnapshot follows its missing base and throws.
SnapshotThrows(layer) ==
  layer.undoStack # <<>> /\ LastOf(layer.undoStack).kind = "full"

\* The entry to push: after a delta, whichever is smaller.
Entry(layer) ==
  [kind : IF layer.undoStack = <<>> THEN {"full"} ELSE {"full", "delta"}, pixels : {layer.pixels}]

\* What snapshotLayer makes of the layer when it does not throw.
Pushed(layer, entry) ==
  LET stack == Append(layer.undoStack, entry) IN
  [layer EXCEPT !.undoStack = IF Len(stack) > MaxUndo THEN Tail(stack) ELSE stack,
                !.redoStack = <<>>]

\* The last entry changes stacks, and the pixels become those of the one that is
\* the last one then.
Undone(layer) ==
  LET rest == AllButLast(layer.undoStack) IN
  [layer EXCEPT !.undoStack = rest,
                !.redoStack = Append(@, LastOf(layer.undoStack)),
                !.pixels = IF rest = <<>> THEN <<>> ELSE LastOf(rest).pixels]

undo ==
  /\ Active.undoStack # <<>>
  /\ layers' = [layers EXCEPT ![activeLayer] = Undone(@)]
  /\ UNCHANGED <<activeLayer, gesture, text, created, marks>>

\* The pixels become those of the entry that changes stacks.
Redone(layer) ==
  [layer EXCEPT !.redoStack = AllButLast(@),
                !.undoStack = Append(@, LastOf(layer.redoStack)),
                !.pixels = LastOf(layer.redoStack).pixels]

redo ==
  /\ Active.redoStack # <<>>
  /\ layers' = [layers EXCEPT ![activeLayer] = Redone(@)]
  /\ UNCHANGED <<activeLayer, gesture, text, created, marks>>

\* The clear button; when the snapshot throws nothing happens.
clear ==
  /\ ~SnapshotThrows(Active)
  /\ \E entry \in Entry(Active) :
       layers' = [layers EXCEPT ![activeLayer] = [Pushed(@, entry) EXCEPT !.pixels = <<>>]]
  /\ UNCHANGED <<activeLayer, gesture, text, created, marks>>
----------------------------------------------------------------------------
(* Gestures. *)

\* A tool button or its key, in the middle of a gesture too.
setTool(t) == tool' = t /\ UNCHANGED <<layers, activeLayer, drawing, brushPointCount, text, created, marks>>

Mark(layer, m) == [layer EXCEPT !.pixels = Append(@, m)]

\* beginDraw up to the snapshot that throws.
beginDrawThrows ==
  /\ tool \notin {"pan", "zoom"}
  /\ SnapshotThrows(Active)
  /\ drawing' = TRUE
  /\ brushPointCount' = 1
  /\ UNCHANGED <<layers, activeLayer, tool, text, created, marks>>

\* The fill tool paints at once, unless the colour is there already; it, the
\* eyedropper and the text tool end the gesture they began.
beginDraw ==
  /\ tool \notin {"pan", "zoom"}
  /\ ~SnapshotThrows(Active)
  /\ brushPointCount' = 1
  /\ drawing' = (tool \notin {"fill", "eyedropper", "text"})
  /\ text' = IF tool = "text" THEN "shown" ELSE text
  /\ \E filled \in IF tool = "fill" /\ marks < MaxMarks THEN BOOLEAN ELSE {FALSE},
        entry \in Entry(Active) :
       /\ marks' = IF filled THEN marks + 1 ELSE marks
       /\ layers' = [layers EXCEPT ![activeLayer] =
                      IF filled THEN Mark(Pushed(@, entry), marks') ELSE Pushed(@, entry)]
  /\ UNCHANGED <<activeLayer, tool, created>>

\* Mutant: the first point that does not fit is written, too.
continueDrawPast ==
  /\ drawing
  /\ tool \in Freehand
  /\ brushPointCount <= MaxPoints
  /\ brushPointCount' = brushPointCount + 1
  /\ UNCHANGED <<layers, activeLayer, tool, drawing, text, created, marks>>

\* Only the freehand tools record points, while there is room.
continueDraw ==
  /\ drawing
  /\ tool \in Freehand
  /\ brushPointCount < MaxPoints
  /\ brushPointCount' = brushPointCount + 1
  /\ UNCHANGED <<layers, activeLayer, tool, drawing, text, created, marks>>

\* The active layer, which need not be the one snapshot at the start, gets what
\* the tool of the moment draws.
endDraw ==
  /\ drawing
  /\ drawing' = FALSE
  /\ brushPointCount' = 0
  /\ IF tool \in Freehand \union Shape
     THEN /\ marks < MaxMarks
          /\ marks' = marks + 1
          /\ layers' = [layers EXCEPT ![activeLayer] = Mark(@, marks')]
     ELSE UNCHANGED <<layers, marks>>
  /\ UNCHANGED <<activeLayer, tool, text, created>>

\* Enter takes the box off the screen, where it may lose the focus once more
\* with what was typed still in it; losing the focus commits it, too.
AfterText == IF text = "shown" THEN {"hidden", "none"} ELSE {"none"}

commitText ==
  /\ text # "none"
  /\ marks < MaxMarks
  /\ text' \in AfterText
  /\ marks' = marks + 1
  /\ layers' = [layers EXCEPT ![activeLayer] = Mark(@, marks')]
  /\ UNCHANGED <<activeLayer, gesture, created>>

\* Escape; a commit with nothing typed; or the browser raises no blur event.
dismissText == text # "none" /\ text' \in AfterText
               /\ UNCHANGED <<layers, activeLayer, gesture, created, marks>>

\* applyRemoteOp paints on or wipes a layer and takes no snapshot.
remoteStroke(i) ==
  /\ marks < MaxMarks
  /\ marks' = marks + 1
  /\ layers' = [layers EXCEPT ![i] = Mark(@, marks')]
  /\ UNCHANGED <<activeLayer, gesture, text, created>>

remoteClear(i) ==
  /\ layers' = [layers EXCEPT ![i].pixels = <<>>]
  /\ UNCHANGED <<activeLayer, gesture, text, created, marks>>

Next ==
  \/ addLayer
  \/ \E i \in DOMAIN layers : deleteLayer(i) \/ selectLayer(i) \/ remoteStroke(i) \/ remoteClear(i)
  \/ undo \/ redo \/ clear
  \/ \E t \in Tool : setTool(t)
  \/ beginDraw \/ beginDrawThrows \/ continueDraw \/ endDraw
  \/ commitText \/ dismissText

Spec == Init /\ [][Next]_vars
----------------------------------------------------------------------------
Snapshot == [kind : {"full", "delta"}, pixels : Seq(Nat)]
LayerType == [id : Nat, pixels : Seq(Nat), undoStack : Seq(Snapshot), redoStack : Seq(Snapshot)]

\* What each variable may hold; the point buffer never overflows.
TypeOK ==
  /\ layers \in Seq(LayerType)
  /\ activeLayer \in Nat
  /\ tool \in Tool
  /\ drawing \in BOOLEAN
  /\ brushPointCount \in 0..MaxPoints
  /\ text \in {"none", "shown", "hidden"}
  /\ created \in Nat
  /\ marks \in Nat

\* Whatever is deleted while a gesture is under way, by the user or remotely, the
\* index every handler uses without looking names a layer.
ActiveExists == activeLayer \in DOMAIN layers
=============================================================================
