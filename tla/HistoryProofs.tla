---------------------------- MODULE HistoryProofs ---------------------------
(* For any tools, stacks and numbers of layers and marks: variables keep     *)
(* their types, and the active layer exists.                                 *)
EXTENDS History, SequenceTheorems, TLAPS

\* What snapshots that throw make of a layer: no step of history, or one that is not
\* a delta.  It is no promise of the program (GestureLeavesStep of HistoryClaims says
\* what is, and fails); it is what makes the stacks easy to follow through a step.
OneStep(layer) ==
  /\ Len(layer.undoStack) + Len(layer.redoStack) <= 1
  /\ \A k \in DOMAIN layer.undoStack : layer.undoStack[k].kind = "full"
  /\ \A k \in DOMAIN layer.redoStack : layer.redoStack[k].kind = "full"

\* Layers like that.
Short == {x \in LayerType : OneStep(x)}

\* What every step keeps.
HInv == TypeOK /\ ActiveExists /\ layers \in Seq(Short)

(* Sequences. *)

LEMMA PutIsShort ==
  ASSUME NEW q \in Seq(Short), NEW i \in DOMAIN q, NEW x \in Short
  PROVE  [q EXCEPT ![i] = x] \in Seq(Short) /\ DOMAIN [q EXCEPT ![i] = x] = DOMAIN q
OBVIOUS

LEMMA WithoutIsShort ==
  ASSUME NEW q \in Seq(Short), NEW i \in DOMAIN q
  PROVE  Without(q, i) \in Seq(Short) /\ Len(Without(q, i)) = Len(q) - 1
<1>1. i \in 1..Len(q) /\ Len(q) \in Nat
  OBVIOUS
<1>2. SubSeq(q, 1, i - 1) \in Seq(Short) /\ Len(SubSeq(q, 1, i - 1)) = i - 1
  BY <1>1
<1>3. SubSeq(q, i + 1, Len(q)) \in Seq(Short) /\ Len(SubSeq(q, i + 1, Len(q))) = Len(q) - i
  BY <1>1
<1>4. (i - 1) + (Len(q) - i) = Len(q) - 1
  BY <1>1
<1> DEFINE a == SubSeq(q, 1, i - 1)
           b == SubSeq(q, i + 1, Len(q))
<1>5. a \o b \in Seq(Short) /\ Len(a \o b) = Len(a) + Len(b)
  <2> HIDE DEF a, b
  <2>1. a \in Seq(Short) /\ b \in Seq(Short)
    BY <1>2, <1>3 DEF a, b
  <2> QED BY <2>1, ConcatProperties
<1> QED BY <1>2, <1>3, <1>4, <1>5 DEF Without

(* Layers. *)

LEMMA CreatedIsShort == ASSUME NEW id \in Nat PROVE createLayer(id, <<>>) \in Short
BY DEF createLayer, Short, LayerType, OneStep

LEMMA ShortFields ==
  ASSUME NEW x \in Short
  PROVE  /\ x \in LayerType /\ OneStep(x)
         /\ x.id \in Nat /\ x.pixels \in Seq(Nat)
         /\ x.undoStack \in Seq(Snapshot) /\ x.redoStack \in Seq(Snapshot)
         /\ x = [id |-> x.id, pixels |-> x.pixels,
                 undoStack |-> x.undoStack, redoStack |-> x.redoStack]
BY DEF Short, LayerType

\* Of two stacks that hold one entry between them, one is empty.
LEMMA OneEntry ==
  ASSUME NEW p \in Seq(Snapshot), NEW q \in Seq(Snapshot), Len(p) + Len(q) <= 1, p # <<>>,
         \A k \in DOMAIN p : p[k].kind = "full"
  PROVE  /\ AllButLast(p) = <<>> /\ LastOf(p) \in Snapshot /\ LastOf(p).kind = "full"
         /\ Append(q, LastOf(p)) = <<LastOf(p)>>
<1>1. Len(p) \in Nat /\ Len(q) \in Nat /\ Len(p) # 0
  OBVIOUS
<1> DEFINE N == Len(p)
           M == Len(q)
<1>2. N = 1 /\ M = 0
  <2> HIDE DEF N, M
  <2>1. N \in Nat /\ M \in Nat /\ N # 0 /\ N + M <= 1
    BY <1>1 DEF N, M
  <2> QED BY <2>1
<1>4. q = <<>> /\ 1 \in DOMAIN p
  BY <1>2
<1>3. LastOf(p) = p[1] /\ AllButLast(p) = <<>>
  BY <1>2 DEF LastOf, AllButLast
<1> QED BY <1>3, <1>4

LEMMA ShortWith ==
  ASSUME NEW i \in Nat, NEW p \in Seq(Nat), NEW e \in Snapshot, e.kind = "full"
  PROVE  /\ [id |-> i, pixels |-> p, undoStack |-> <<e>>, redoStack |-> <<>>] \in Short
         /\ [id |-> i, pixels |-> p, undoStack |-> <<>>, redoStack |-> <<e>>] \in Short
<1>1. <<e>> \in Seq(Snapshot) /\ <<>> \in Seq(Snapshot)
  OBVIOUS
<1>2. /\ [id |-> i, pixels |-> p, undoStack |-> <<e>>, redoStack |-> <<>>] \in LayerType
      /\ [id |-> i, pixels |-> p, undoStack |-> <<>>, redoStack |-> <<e>>] \in LayerType
  BY <1>1 DEF LayerType
<1>3. ASSUME NEW u, NEW r, \/ u = <<e>> /\ r = <<>>
                           \/ u = <<>> /\ r = <<e>>
      PROVE  OneStep([id |-> i, pixels |-> p, undoStack |-> u, redoStack |-> r])
  <2>1. /\ \A k \in DOMAIN u : u[k].kind = "full"
        /\ \A k \in DOMAIN r : r[k].kind = "full"
    BY <1>3
  <2>2. Len(u) + Len(r) <= 1
    <3>1. CASE u = <<e>> /\ r = <<>>
      BY <3>1
    <3>2. CASE u = <<>> /\ r = <<e>>
      BY <3>2
    <3> QED BY <1>3, <3>1, <3>2
  <2> QED BY <2>1, <2>2 DEF OneStep
<1> QED BY <1>2, <1>3 DEF Short

\* Three fields are replaced one after another, in the order of undo and of redo.
With(x, u, r, p) == [x EXCEPT !.undoStack = u, !.redoStack = r, !.pixels = p]
Back(x, r, u, p) == [x EXCEPT !.redoStack = r, !.undoStack = u, !.pixels = p]

LEMMA Replaced ==
  ASSUME NEW i, NEW q, NEW v, NEW s, NEW u, NEW r, NEW p, NEW x,
         x = [id |-> i, pixels |-> q, undoStack |-> v, redoStack |-> s]
  PROVE  /\ With(x, u, r, p) = [id |-> i, pixels |-> p, undoStack |-> u, redoStack |-> r]
         /\ Back(x, r, u, p) = [id |-> i, pixels |-> p, undoStack |-> u, redoStack |-> r]
<1> DEFINE y1 == [x EXCEPT !.undoStack = u]
           y2 == [x EXCEPT !.redoStack = r]
<1>1. /\ y1 = [id |-> i, pixels |-> q, undoStack |-> u, redoStack |-> s]
      /\ y2 = [id |-> i, pixels |-> q, undoStack |-> v, redoStack |-> r]
  OBVIOUS
<1> HIDE DEF y1, y2
<1> DEFINE z1 == [y1 EXCEPT !.redoStack = r]
           z2 == [y2 EXCEPT !.undoStack = u]
           z == [id |-> i, pixels |-> q, undoStack |-> u, redoStack |-> r]
<1>2. z1 = z /\ z2 = z
  BY <1>1
<1> HIDE DEF z1, z2
<1> DEFINE w1 == [z1 EXCEPT !.pixels = p]
           w2 == [z2 EXCEPT !.pixels = p]
           w == [id |-> i, pixels |-> p, undoStack |-> u, redoStack |-> r]
<1>3. w1 = w /\ w2 = w
  BY <1>2
<1>4. With(x, u, r, p) = w1
  BY DEF w1, z1, y1, With
<1>5. Back(x, r, u, p) = w2
  BY DEF w2, z2, y2, Back
<1> HIDE DEF w1, w2
<1> QED BY <1>3, <1>4, <1>5

LEMMA ReplacedIsShort ==
  ASSUME NEW x \in Short, NEW p \in Seq(Nat), NEW e \in Snapshot, e.kind = "full"
  PROVE  With(x, <<>>, <<e>>, p) \in Short /\ Back(x, <<>>, <<e>>, p) \in Short
<1>1. PICK i, q, v, s : x = [id |-> i, pixels |-> q, undoStack |-> v, redoStack |-> s]
  BY ShortFields
<1>2. i \in Nat
  BY <1>1, ShortFields
<1>3. /\ With(x, <<>>, <<e>>, p) = [id |-> i, pixels |-> p, undoStack |-> <<>>, redoStack |-> <<e>>]
      /\ Back(x, <<>>, <<e>>, p) = [id |-> i, pixels |-> p, undoStack |-> <<e>>, redoStack |-> <<>>]
  <2> HIDE DEF With, Back
  <2> QED BY <1>1, Replaced
<1> HIDE DEF With, Back
<1> QED BY <1>2, <1>3, ShortWith

LEMMA PaintedIsShort ==
  ASSUME NEW x \in Short, NEW p \in Seq(Nat)
  PROVE  [x EXCEPT !.pixels = p] \in Short
<1>1. [x EXCEPT !.pixels = p] \in LayerType
  BY ShortFields DEF LayerType
<1>2. /\ [x EXCEPT !.pixels = p].undoStack = x.undoStack
      /\ [x EXCEPT !.pixels = p].redoStack = x.redoStack
  BY ShortFields
<1>3. OneStep([x EXCEPT !.pixels = p])
  BY <1>2, ShortFields DEF OneStep
<1> QED BY <1>1, <1>3 DEF Short

LEMMA MarkIsShort == ASSUME NEW x \in Short, NEW m \in Nat PROVE Mark(x, m) \in Short
<1>1. Append(x.pixels, m) \in Seq(Nat)
  BY ShortFields
<1> QED BY <1>1, PaintedIsShort DEF Mark

\* Where a snapshot does not throw there is no history yet, so the entry is full.
LEMMA PushedIsShort ==
  ASSUME NEW x \in Short, ~SnapshotThrows(x), NEW e \in Entry(x)
  PROVE  Pushed(x, e) \in Short
<1>1. x.undoStack = <<>>
  <2> SUFFICES ASSUME x.undoStack # <<>> PROVE FALSE
    OBVIOUS
  <2>1. Len(x.undoStack) \in DOMAIN x.undoStack
    BY ShortFields
  <2> QED BY <2>1, ShortFields DEF SnapshotThrows, OneStep, LastOf
<1>2. e \in Snapshot /\ e.kind = "full"
  BY <1>1, ShortFields DEF Entry, Snapshot
<1>3. Append(x.undoStack, e) = <<e>> /\ Len(<<e>>) = 1 /\ ~(1 > MaxUndo)
  BY <1>1, HistoryAssumption
<1>4. Pushed(x, e) = [x EXCEPT !.undoStack = <<e>>, !.redoStack = <<>>]
  BY <1>3 DEF Pushed
<1>5. PICK i, p, u, r : x = [id |-> i, pixels |-> p, undoStack |-> u, redoStack |-> r]
  BY ShortFields
<1>6. i \in Nat /\ p \in Seq(Nat)
  BY <1>5, ShortFields
<1>7. Pushed(x, e) = [id |-> i, pixels |-> p, undoStack |-> <<e>>, redoStack |-> <<>>]
  BY <1>4, <1>5
<1> QED BY <1>2, <1>6, <1>7, ShortWith

\* The only entry moves from one stack to the other.
LEMMA UndoneIsShort == ASSUME NEW x \in Short, x.undoStack # <<>> PROVE Undone(x) \in Short
<1> DEFINE e == LastOf(x.undoStack)
           u == AllButLast(x.undoStack)
           r == Append(x.redoStack, e)
           p == IF u = <<>> THEN <<>> ELSE LastOf(u).pixels
<1>1. /\ x.undoStack \in Seq(Snapshot) /\ x.redoStack \in Seq(Snapshot)
      /\ Len(x.undoStack) + Len(x.redoStack) <= 1
      /\ \A k \in DOMAIN x.undoStack : x.undoStack[k].kind = "full"
  BY ShortFields DEF OneStep
<1>2. u = <<>> /\ r = <<e>> /\ e \in Snapshot /\ e.kind = "full"
  BY <1>1, OneEntry
<1>3. p \in Seq(Nat)
  BY <1>2
<1>4. Undone(x) = With(x, u, r, p)
  BY DEF Undone, With
<1> HIDE DEF e, u, r, p
<1> QED BY <1>2, <1>3, <1>4, ReplacedIsShort

LEMMA RedoneIsShort == ASSUME NEW x \in Short, x.redoStack # <<>> PROVE Redone(x) \in Short
<1> DEFINE e == LastOf(x.redoStack)
           r == AllButLast(x.redoStack)
           u == Append(x.undoStack, e)
<1>1. /\ x.undoStack \in Seq(Snapshot) /\ x.redoStack \in Seq(Snapshot)
      /\ Len(x.undoStack) + Len(x.redoStack) <= 1
      /\ \A k \in DOMAIN x.redoStack : x.redoStack[k].kind = "full"
  BY ShortFields DEF OneStep
<1>2. Len(x.redoStack) + Len(x.undoStack) <= 1
  <2>1. Len(x.redoStack) \in Nat /\ Len(x.undoStack) \in Nat
    BY <1>1
  <2>2. \A a, b \in Nat : a + b = b + a
    OBVIOUS
  <2>3. Len(x.redoStack) + Len(x.undoStack) = Len(x.undoStack) + Len(x.redoStack)
    BY <2>1, <2>2
  <2> QED BY <1>1, <2>3
<1>3. r = <<>> /\ u = <<e>> /\ e \in Snapshot /\ e.kind = "full"
  BY <1>1, <1>2, OneEntry
<1>4. e.pixels \in Seq(Nat)
  BY <1>3 DEF Snapshot
<1>5. Redone(x) = Back(x, r, u, e.pixels)
  BY DEF Redone, Back
<1> HIDE DEF e, r, u
<1> QED BY <1>3, <1>4, <1>5, ReplacedIsShort

(* Steps. *)

\* TypeOK, but for the layers.
Others ==
  /\ tool \in Tool /\ drawing \in BOOLEAN /\ brushPointCount \in 0..MaxPoints
  /\ text \in {"none", "shown", "hidden"} /\ created \in Nat /\ marks \in Nat

LEMMA HInvParts == HInv <=> layers \in Seq(Short) /\ ActiveExists /\ Others
<1>1. Short \subseteq LayerType
  BY DEF Short
<1>2. layers \in Seq(Short) => layers \in Seq(LayerType)
  BY <1>1, SeqMonotonic
<1>3. layers \in Seq(Short) /\ ActiveExists => activeLayer \in Nat
  BY DEF ActiveExists
<1> QED BY <1>2, <1>3 DEF HInv, TypeOK, Others

LEMMA HInvHolds == ASSUME layers' \in Seq(Short), ActiveExists', Others' PROVE HInv'
<1>1. layers' \in Seq(LayerType)
  <2>1. Short \subseteq LayerType
    BY DEF Short
  <2> QED BY <2>1, SeqMonotonic
<1>2. activeLayer' \in Nat
  BY DEF ActiveExists
<1> QED BY <1>1, <1>2 DEF HInv, TypeOK, Others

LEMMA ActiveIsShort ==
  ASSUME HInv
  PROVE  /\ Active \in Short /\ activeLayer \in DOMAIN layers
         /\ \A i \in DOMAIN layers : layers[i] \in Short
BY HInvParts DEF Active, ActiveExists

\* One layer is replaced.
LEMMA PutKeeps ==
  ASSUME HInv, NEW i \in DOMAIN layers, NEW x \in Short, layers' = [layers EXCEPT ![i] = x],
         UNCHANGED activeLayer, Others'
  PROVE  HInv'
<1>1. layers' \in Seq(Short) /\ DOMAIN layers' = DOMAIN layers
  BY HInvParts, PutIsShort
<1>2. ActiveExists'
  BY <1>1, HInvParts DEF ActiveExists
<1> QED BY <1>1, <1>2, HInvHolds

\* No layer changes.
LEMMA RestKeeps ==
  ASSUME HInv, UNCHANGED layers, activeLayer' \in DOMAIN layers, Others'
  PROVE  HInv'
<1>1. ActiveExists'
  BY DEF ActiveExists
<1>2. layers' \in Seq(Short)
  BY HInvParts
<1> QED BY <1>1, <1>2, HInvHolds

LEMMA ListStep ==
  ASSUME HInv, addLayer \/ \E i \in DOMAIN layers : deleteLayer(i) \/ selectLayer(i)
  PROVE  HInv'
<1>1. layers \in Seq(Short) /\ ActiveExists /\ Others
  BY HInvParts
<1>2. CASE addLayer
  <2>1. created' \in Nat /\ Others'
    BY <1>1, <1>2 DEF addLayer, Others, gesture
  <2>2. layers' = Append(layers, createLayer(created', <<>>))
    BY <1>2 DEF addLayer
  <2>3. createLayer(created', <<>>) \in Short
    BY <2>1, CreatedIsShort
  <2>4. layers' \in Seq(Short) /\ Len(layers') = Len(layers) + 1
    BY <1>1, <2>2, <2>3
  <2>5. Len(layers') \in DOMAIN layers'
    BY <1>1, <2>4
  <2>6. ActiveExists'
    BY <1>2, <2>5 DEF addLayer, ActiveExists
  <2> QED BY <2>1, <2>4, <2>6, HInvHolds
<1>3. ASSUME NEW i \in DOMAIN layers, deleteLayer(i) PROVE HInv'
  <2>1. layers' \in Seq(Short) /\ Len(layers') = Len(layers) - 1
    BY <1>1, <1>3, WithoutIsShort DEF deleteLayer
  <2>2. Len(layers) > 1 /\ Len(layers) \in Nat /\ activeLayer \in 1..Len(layers)
    BY <1>1, <1>3 DEF deleteLayer, ActiveExists
  <2>3. activeLayer' \in 1..Len(layers')
    BY <1>3, <2>1, <2>2 DEF deleteLayer
  <2>4. ActiveExists'
    BY <2>1, <2>3 DEF ActiveExists
  <2>5. Others'
    BY <1>1, <1>3 DEF deleteLayer, Others, gesture
  <2> QED BY <2>1, <2>4, <2>5, HInvHolds
<1>4. ASSUME NEW i \in DOMAIN layers, selectLayer(i) PROVE HInv'
  <2>1. Others'
    BY <1>1, <1>4 DEF selectLayer, Others, gesture
  <2> QED BY <1>4, <2>1, RestKeeps DEF selectLayer
<1> QED BY <1>2, <1>3, <1>4

LEMMA PaintStep ==
  ASSUME HInv, \E i \in DOMAIN layers : remoteStroke(i) \/ remoteClear(i)
  PROVE  HInv'
<1>1. Others
  BY HInvParts
<1>2. PICK i \in DOMAIN layers : remoteStroke(i) \/ remoteClear(i)
  OBVIOUS
<1>3. layers[i] \in Short
  BY ActiveIsShort
<1>4. CASE remoteStroke(i)
  <2>1. marks' \in Nat /\ Others'
    BY <1>1, <1>4 DEF remoteStroke, Others, gesture
  <2>2. layers' = [layers EXCEPT ![i] = Mark(layers[i], marks')]
    BY <1>4 DEF remoteStroke
  <2> QED BY <1>3, <1>4, <2>1, <2>2, MarkIsShort, PutKeeps DEF remoteStroke
<1>5. CASE remoteClear(i)
  <2>1. Others'
    BY <1>1, <1>5 DEF remoteClear, Others, gesture
  <2>2. layers' = [layers EXCEPT ![i] = [layers[i] EXCEPT !.pixels = <<>>]]
    BY <1>5 DEF remoteClear
  <2>3. [layers[i] EXCEPT !.pixels = <<>>] \in Short
    <3>1. <<>> \in Seq(Nat)
      OBVIOUS
    <3> QED BY <1>3, <3>1, PaintedIsShort
  <2> QED BY <1>5, <2>1, <2>2, <2>3, PutKeeps DEF remoteClear
<1> QED BY <1>2, <1>4, <1>5

LEMMA HistoryStep == ASSUME HInv, undo \/ redo \/ clear PROVE HInv'
<1>1. Active \in Short /\ activeLayer \in DOMAIN layers
  BY ActiveIsShort
<1>2. UNCHANGED activeLayer /\ Others'
  BY HInvParts DEF undo, redo, clear, Others, gesture
<1> DEFINE x == Active
<1>3. CASE undo
  BY <1>1, <1>2, <1>3, UndoneIsShort, PutKeeps DEF undo, Active
<1>4. CASE redo
  BY <1>1, <1>2, <1>4, RedoneIsShort, PutKeeps DEF redo, Active
<1>5. CASE clear
  <2>1. PICK e \in Entry(x) :
          layers' = [layers EXCEPT ![activeLayer] = [Pushed(x, e) EXCEPT !.pixels = <<>>]]
    BY <1>5 DEF clear, Active
  <2>2. ~SnapshotThrows(x)
    BY <1>5 DEF clear
  <2> HIDE DEF x
  <2>3. [Pushed(x, e) EXCEPT !.pixels = <<>>] \in Short
    <3>1. <<>> \in Seq(Nat)
      OBVIOUS
    <3>2. Pushed(x, e) \in Short
      BY <1>1, <2>2, PushedIsShort DEF x
    <3> QED BY <3>1, <3>2, PaintedIsShort
  <2> QED BY <1>1, <1>2, <2>1, <2>3, PutKeeps
<1> QED BY <1>3, <1>4, <1>5

LEMMA GestureStep ==
  ASSUME HInv, (\E t \in Tool : setTool(t)) \/ beginDraw \/ beginDrawThrows \/ continueDraw \/ endDraw
  PROVE  HInv'
<1>1. Active \in Short /\ activeLayer \in DOMAIN layers /\ Others
  BY ActiveIsShort, HInvParts
<1>2. 0 \in 0..MaxPoints /\ 1 \in 0..MaxPoints
  BY HistoryAssumption
<1>3. CASE (\E t \in Tool : setTool(t)) \/ beginDrawThrows \/ continueDraw
  <2>1. UNCHANGED <<layers, activeLayer>>
    BY <1>3 DEF setTool, beginDrawThrows, continueDraw
  <2>2. (\E t \in Tool : setTool(t)) => Others'
    BY <1>1 DEF setTool, Others
  <2>3. beginDrawThrows => Others'
    BY <1>1, <1>2 DEF beginDrawThrows, Others
  <2>4. continueDraw => Others'
    <3> SUFFICES ASSUME continueDraw PROVE Others'
      OBVIOUS
    <3>1. brushPointCount' \in 0..MaxPoints
      BY <1>1, HistoryAssumption DEF continueDraw, Others
    <3> QED BY <1>1, <3>1 DEF continueDraw, Others
  <2>5. Others'
    BY <1>3, <2>2, <2>3, <2>4
  <2> QED BY <1>1, <2>1, <2>5, RestKeeps
<1>4. CASE beginDraw
  <2> DEFINE x == Active
  <2>1. PICK filled \in BOOLEAN, e \in Entry(x) :
          /\ marks' = IF filled THEN marks + 1 ELSE marks
          /\ layers' = [layers EXCEPT ![activeLayer] =
                          IF filled THEN Mark(Pushed(x, e), marks') ELSE Pushed(x, e)]
    BY <1>4 DEF beginDraw, Active
  <2>2. UNCHANGED activeLayer /\ Others' /\ marks' \in Nat
    <3>1. brushPointCount' \in 0..MaxPoints /\ drawing' \in BOOLEAN
      BY <1>2, <1>4 DEF beginDraw
    <3>2. text' \in {"none", "shown", "hidden"} /\ UNCHANGED <<activeLayer, tool, created>>
      BY <1>1, <1>4 DEF beginDraw, Others
    <3>3. marks' \in Nat
      BY <1>1, <2>1 DEF Others
    <3> QED BY <1>1, <3>1, <3>2, <3>3 DEF Others
  <2>3. Pushed(x, e) \in Short
    BY <1>1, <1>4, PushedIsShort DEF beginDraw
  <2> HIDE DEF x
  <2>4. (IF filled THEN Mark(Pushed(x, e), marks') ELSE Pushed(x, e)) \in Short
    BY <2>2, <2>3, MarkIsShort
  <2> QED BY <1>1, <2>1, <2>2, <2>4, PutKeeps
<1>5. CASE endDraw
  <2>1. UNCHANGED activeLayer /\ Others' /\ marks' \in Nat
    <3>1. marks' \in Nat
      BY <1>1, <1>5 DEF endDraw, Others
    <3>2. brushPointCount' \in 0..MaxPoints /\ drawing' \in BOOLEAN
      BY <1>2, <1>5 DEF endDraw
    <3> QED BY <1>1, <1>5, <3>1, <3>2 DEF endDraw, Others
  <2>2. CASE layers' = layers
    BY <1>1, <2>1, <2>2, RestKeeps
  <2>3. CASE layers' = [layers EXCEPT ![activeLayer] = Mark(Active, marks')]
    BY <1>1, <2>1, <2>3, MarkIsShort, PutKeeps
  <2> QED BY <1>5, <2>2, <2>3 DEF endDraw, Active
<1> QED BY <1>3, <1>4, <1>5

LEMMA TextStep == ASSUME HInv, commitText \/ dismissText PROVE HInv'
<1>1. Active \in Short /\ activeLayer \in DOMAIN layers /\ Others
  BY ActiveIsShort, HInvParts
<1>2. UNCHANGED activeLayer /\ Others' /\ marks' \in Nat
  BY <1>1 DEF commitText, dismissText, AfterText, Others, gesture
<1>3. CASE commitText
  <2>1. layers' = [layers EXCEPT ![activeLayer] = Mark(Active, marks')]
    BY <1>3 DEF commitText, Active
  <2> QED BY <1>1, <1>2, <2>1, MarkIsShort, PutKeeps
<1>4. CASE dismissText
  BY <1>1, <1>2, <1>4, RestKeeps DEF dismissText
<1> QED BY <1>3, <1>4

LEMMA HInvInit == Init => HInv
<1> SUFFICES ASSUME Init PROVE HInv
  OBVIOUS
<1>1. <<0>> \in Seq(Nat)
  OBVIOUS
<1>2. createLayer(1, <<0>>) \in Short /\ createLayer(2, <<>>) \in Short
  BY <1>1 DEF createLayer, Short, LayerType, OneStep
<1>3. layers \in Seq(Short) /\ activeLayer \in DOMAIN layers
  BY <1>2 DEF Init
<1>4. Others
  <2>1. tool \in Tool /\ brushPointCount \in 0..MaxPoints
    BY HistoryAssumption DEF Init
  <2> QED BY <2>1 DEF Init, Others
<1> QED BY <1>3, <1>4, HInvParts DEF ActiveExists

LEMMA HInvNext == HInv /\ [Next]_vars => HInv'
<1> SUFFICES ASSUME HInv, [Next]_vars PROVE HInv'
  OBVIOUS
<1>1. CASE UNCHANGED vars
  <2>1. UNCHANGED <<layers, activeLayer>> /\ Others'
    BY <1>1, HInvParts DEF vars, Others
  <2> QED BY <2>1, ActiveIsShort, RestKeeps
<1> QED BY <1>1, ListStep, PaintStep, HistoryStep, GestureStep, TextStep DEF Next

\* What the variables hold; the buffer of points is never written past its end,
\* whichever tool is taken up in the middle of a gesture.
THEOREM TypesOfHistory == Spec => []TypeOK
<1>1. HInv => TypeOK
  BY DEF HInv
<1> QED BY <1>1, HInvInit, HInvNext, PTL DEF Spec

\* However layers are added, deleted and selected, here or remotely and in the
\* middle of a gesture, the index the handlers use names a layer.
THEOREM ActiveAlwaysExists == Spec => []ActiveExists
<1>1. HInv => ActiveExists
  BY DEF HInv
<1> QED BY <1>1, HInvInit, HInvNext, PTL DEF Spec
=============================================================================
