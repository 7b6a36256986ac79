--------------------------------- MODULE OT ---------------------------------
(***************************************************************************)
(* The operational transform, without state: which operations go through   *)
(* it (needs_ot), the server's transform of one operation against another  *)
(* (ot_transform) and against a whole window of the log (TransformAll,     *)
(* the loop of Collaborate), and the browser's copy (transformOp).         *)
(*                                                                         *)
(* An operation is a record.  The fields the protocol reads are kept:      *)
(*   type     the UpdateType                                               *)
(*   layer    stroke.layer_id, layer_id or layer.id, whichever type uses   *)
(*   order    layer.order of a LAYER_MOVE, else 0                          *)
(*   session  the session_id the sender put in the message                 *)
(*   base     base_revision                                                *)
(*   rev      revision (0, the wire default, until the server stamps it)   *)
(*   n        the sender's how-manieth operation; no code reads it, it     *)
(*            only lets properties tell two equal strokes apart            *)
(***************************************************************************)
EXTENDS Integers, Sequences

\* The operations that change the document and are logged.
Mutating == {"STROKE_END", "LAYER_ADD", "LAYER_DELETE", "LAYER_MOVE", "CANVAS_CLEAR"}

\* The operations that are forwarded unlogged.
Ephemeral == {"STROKE_BEGIN", "STROKE_POINT", "CURSOR_MOVE"}

UpdateType == Mutating \union Ephemeral \union {"NOOP"}

needs_ot(t) == t \in Mutating

\* Mutant: a cleared layer is forgotten.
ErasesByDeleteOnly(op_b, op_a) == op_b.type = "LAYER_DELETE" /\ op_b.layer = op_a.layer

\* op_b deletes or wipes the layer op_a draws on.
Erases(op_b, op_a) ==
  op_b.type \in {"LAYER_DELETE", "CANVAS_CLEAR"} /\ op_b.layer = op_a.layer

\* The server's transform of op_a against op_b, which was committed first.
\* Every test reads the type op_a arrived with.
ot_transform(op_a, op_b) ==
  CASE op_a.type = "STROKE_END" /\ Erases(op_b, op_a)
         -> [op_a EXCEPT !.type = "NOOP"]
    [] op_a.type = "LAYER_DELETE" /\ op_b.type = "LAYER_DELETE" /\ op_a.layer = op_b.layer
         -> [op_a EXCEPT !.type = "NOOP"]
    [] op_a.type = "LAYER_MOVE" /\ op_b.type = "LAYER_MOVE" /\ op_b.order <= op_a.order
         -> [op_a EXCEPT !.order = op_a.order + 1]
    [] OTHER -> op_a

\* Mutant: the comparison of positions is strict.
transformOp_strict(op_a, op_b) ==
  IF op_a.type = "LAYER_MOVE" /\ op_b.type = "LAYER_MOVE" /\ ~(op_b.order < op_a.order)
  THEN op_a ELSE ot_transform(op_a, op_b)

\* The browser's transform: a chain of early returns.
transformOp(op_a, op_b) ==
  IF /\ op_a.type = "STROKE_END"
     /\ op_b.type = "LAYER_DELETE" \/ op_b.type = "CANVAS_CLEAR"
     /\ op_b.layer = op_a.layer
  THEN [op_a EXCEPT !.type = "NOOP"]
  ELSE IF op_a.type = "LAYER_DELETE" /\ op_b.type = "LAYER_DELETE" /\ op_a.layer = op_b.layer
  THEN [op_a EXCEPT !.type = "NOOP"]
  ELSE IF op_a.type = "LAYER_MOVE" /\ op_b.type = "LAYER_MOVE" /\ op_b.order <= op_a.order
  THEN [op_a EXCEPT !.order = @ + 1]
  ELSE op_a

\* Mutant: every iteration starts from the operation as it came.
TransformByLast(op, concurrent) ==
  IF concurrent = <<>> THEN op ELSE ot_transform(op, concurrent[Len(concurrent)])

\* Collaborate's loop: op against each concurrent operation, oldest first.
TransformAll(op, concurrent) ==
  LET after[i \in 0..Len(concurrent)] ==
        IF i = 0 THEN op ELSE ot_transform(after[i - 1], concurrent[i])
  IN  after[Len(concurrent)]

\* onMessage's loop: a remote op against the local pending ones, oldest first.
TransformPending(op, pending) ==
  LET after[i \in 0..Len(pending)] ==
        IF i = 0 THEN op ELSE transformOp(after[i - 1], pending[i])
  IN  after[Len(pending)]

\* Mutant: revisions taken for zero-based indices of the log.
ConcurrentOffByOne(log, base) == SubSeq(log, base + 2, Len(log))

\* What LRANGE log base -1 returns: the operations after the first base ones
\* (none when base is at or past the end).
Concurrent(log, base) == SubSeq(log, base + 1, Len(log))
=============================================================================
