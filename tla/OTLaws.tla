------------------------------- MODULE OTLaws -------------------------------
(***************************************************************************)
(* The laws of the transform, over every operation and every window of     *)
(* operations committed before it.  A behaviour picks an operation and     *)
(* grows the window one commit at a time, as the log does; the invariants  *)
(* speak of the operation transformed against the window so far.           *)
(***************************************************************************)
EXTENDS Canvas

CONSTANTS Layer,      \* the layers of the document
          Order,      \* target positions of LAYER_MOVE
          MaxWindow   \* bound: how many operations may be concurrent

ASSUME OTLawsAssumption == Order \subseteq Int /\ MaxWindow \in Nat

VARIABLES op,         \* the incoming operation
          window      \* the operations committed since its base revision

vars == <<op, window>>

Op(session, n) ==
  [type : Mutating, layer : Layer, order : {0}, session : {session}, n : {n},
   base : {0}, rev : {0}]
  \union
  [type : {"LAYER_MOVE"}, layer : Layer, order : Order, session : {session}, n : {n},
   base : {0}, rev : {0}]

Init == op \in Op("a", 1) /\ window = <<>>

Commit == /\ Len(window) < MaxWindow
          /\ \E b \in Op("b", Len(window) + 1) : window' = Append(window, b)
          /\ UNCHANGED op

Next == Commit
Spec == Init /\ [][Next]_vars

Result == TransformAll(op, window)
----------------------------------------------------------------------------
\* Server and browser compute the same transform (renderer.js claims to mirror
\* ot_transform): one written as cases, the other as early returns.
ClientMirrorsServer == TransformPending(op, window) = Result

\* A stroke is dropped exactly when some concurrent operation erased its layer,
\* a delete exactly when its layer was already deleted; wherever in the window
\* that happened, nothing later revives the operation.
CancelledExactly ==
  Result.type = "NOOP" <=>
    \E i \in DOMAIN window :
      \/ op.type = "STROKE_END" /\ Erases(window[i], op)
      \/ op.type = "LAYER_DELETE" /\ window[i].type = "LAYER_DELETE"
                                  /\ window[i].layer = op.layer

\* A canvas on which every layer exists and carries one stroke.
Blank == [l \in Layer |-> << <<"0", 0>> >>]

ServerFirst(a, b) == applyRemoteOp(applyRemoteOp(Blank, b), ot_transform(a, b))

\* The two replicas of a concurrent pair agree whichever committed first, when
\* at least one of the two erases, and layers enough remain to delete.
ErasuresCommute ==
  Len(window) = 1 =>
    LET b == window[1] IN
    (op.type \in {"LAYER_DELETE", "CANVAS_CLEAR"} \/ b.type \in {"LAYER_DELETE", "CANVAS_CLEAR"})
      => ServerFirst(op, b) = ServerFirst(b, op)

\* What the comment in ot_transform says: every combination it does not
\* transform is commutative for a pixel canvas.
OthersCommute ==
  Len(window) = 1 =>
    LET b == window[1] IN
    (ot_transform(op, b) = op /\ ot_transform(b, op) = b)
      => ServerFirst(op, b) = ServerFirst(b, op)
=============================================================================
