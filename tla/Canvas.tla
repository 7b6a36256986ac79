------------------------------- MODULE Canvas -------------------------------
(***************************************************************************)
(* The part of the browser's document that collaboration reads and writes: *)
(* a function from the layers that exist to the strokes painted on each    *)
(* since it was last wiped, oldest first.  A stroke stands for its pixels  *)
(* and is named by who drew it, so two canvases are equal exactly when     *)
(* opaque strokes of different colours would leave the same picture.       *)
(***************************************************************************)
EXTENDS OT, FiniteSets

\* The name of a stroke: its author's session and its number there.
StrokeId(op) == <<op.session, op.n>>

Paint(cv, op) == [cv EXCEPT ![op.layer] = Append(@, StrokeId(op))]

Wipe(cv, op) == [cv EXCEPT ![op.layer] = <<>>]

\* deleteLayer: the last layer is kept.
deleteLayer(cv, layer) ==
  IF Cardinality(DOMAIN cv) <= 1 THEN cv
  ELSE [l \in DOMAIN cv \ {layer} |-> cv[l]]

\* An operation on a layer that is gone, and every type not listed (LAYER_ADD
\* and LAYER_MOVE among them), changes nothing.
applyRemoteOp(cv, op) ==
  CASE op.type = "STROKE_END"   /\ op.layer \in DOMAIN cv -> Paint(cv, op)
    [] op.type = "LAYER_DELETE" /\ op.layer \in DOMAIN cv -> deleteLayer(cv, op.layer)
    [] op.type = "CANVAS_CLEAR" /\ op.layer \in DOMAIN cv -> Wipe(cv, op)
    [] OTHER -> cv
=============================================================================
