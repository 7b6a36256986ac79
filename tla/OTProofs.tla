------------------------------ MODULE OTProofs ------------------------------
(* What the transform preserves, whatever the operations and however many, *)
(* and its laws, for any operation and any window of operations.  What it  *)
(* says about induction and about loops is used elsewhere too.             *)
EXTENDS OTLaws, TLAPS, WellFoundedInduction, FiniteSetTheorems

(* Induction on natural numbers with a set in place of the predicate, and    *)
(* functions defined by primitive recursion.                                 *)

\* A nonempty set of natural numbers has a least element.
LEMMA LeastElement ==
  ASSUME NEW T, T \subseteq Nat, T # {}
  PROVE  \E x \in T : \A y \in T : x <= y
<1> DEFINE R == {p \in Nat \X Nat : p[1] < p[2]}
<1>1. IsWellFoundedOn(R, Nat)
  BY NatLessThanWellFounded DEF OpToRel
<1> HIDE DEF R
<1>2. PICK x \in T : \A y \in T : ~(<<y, x>> \in R)
  BY <1>1, WFMin
<1>3. ASSUME NEW y \in T PROVE x <= y
  <2>1. y \in Nat /\ x \in Nat
    OBVIOUS
  <2>2. ~(<<y, x>> \in R)
    BY <1>2
  <2>3. ~(y < x)
    BY <2>1, <2>2 DEF R
  <2> QED BY <2>1, <2>3
<1> QED BY <1>3

\* A set that holds 0 and, with n, n + 1 holds every natural number.
LEMMA SetInduction ==
  ASSUME NEW S, 0 \in S, \A n \in Nat : n \in S => n + 1 \in S
  PROVE  Nat \subseteq S
<1>1. SUFFICES ASSUME Nat \ S # {} PROVE FALSE
  OBVIOUS
<1>2. PICK x \in Nat \ S : \A y \in Nat \ S : x <= y
  BY <1>1, LeastElement
<1>3. x - 1 \in Nat /\ x - 1 \notin S
  BY <1>2
<1> QED BY <1>2, <1>3

\* g starts from d0, and F[i] makes its i-th value of the one before.
Recurs(g, d0, N, F) == g[0] = d0 /\ \A i \in 1..N : g[i] = F[i][g[i - 1]]

\* Up to N, a function can be defined from its value at 0 and its value before.
LEMMA Recursion ==
  ASSUME NEW D, NEW d0 \in D, NEW N \in Nat, NEW F \in [1..N -> [D -> D]]
  PROVE  \E g \in [0..N -> D] : Recurs(g, d0, N, F)
<1> DEFINE Sol(g, n) == g[0] = d0 /\ \A i \in 1..n : g[i] = F[i][g[i - 1]]
           S == {n \in Nat : n <= N => \E g \in [0..n -> D] : Sol(g, n)}
<1>1. 0 \in S
  <2> DEFINE g == [i \in 0..0 |-> d0]
  <2>1. g \in [0..0 -> D] /\ Sol(g, 0)
    OBVIOUS
  <2> QED BY <2>1
<1>2. ASSUME NEW n \in Nat, n \in S PROVE n + 1 \in S
  <2>1. SUFFICES ASSUME n + 1 <= N PROVE \E g \in [0..n + 1 -> D] : Sol(g, n + 1)
    OBVIOUS
  <2>2. PICK g \in [0..n -> D] : Sol(g, n)
    BY <1>2, <2>1
  <2> DEFINE h == [i \in 0..n + 1 |-> IF i = n + 1 THEN F[n + 1][g[n]] ELSE g[i]]
  <2>3. h \in [0..n + 1 -> D]
    BY <2>1
  <2>4. Sol(h, n + 1)
    BY <2>2
  <2> QED BY <2>3, <2>4
<1> HIDE DEF S
<1>3. N \in S
  BY <1>1, <1>2, SetInduction
<1> QED BY <1>3 DEF S, Recurs

-----------------------------------------------------------------------------
(* The transform.                                                            *)

\* TransformAll unrolled: it is the last of Len(c) + 1 operations, the first of
\* which is x0 and each of which is the transform of the one before it.  D is any
\* set of operations the transform does not leave.
LEMMA TransformAllUnrolls ==
  ASSUME NEW D, NEW x0 \in D, NEW c, Len(c) \in Nat,
         \A x \in D, i \in 1..Len(c) : ot_transform(x, c[i]) \in D
  PROVE  \E a \in [0..Len(c) -> D] :
           /\ a[0] = x0
           /\ \A i \in 1..Len(c) : a[i] = ot_transform(a[i - 1], c[i])
           /\ TransformAll(x0, c) = a[Len(c)]
<1>1. PICK N \in Nat : N = Len(c)
  OBVIOUS
<1>2. PICK F \in [1..N -> [D -> D]] : \A i \in 1..N, x \in D : F[i][x] = ot_transform(x, c[i])
  <2>1. [i \in 1..N |-> [x \in D |-> ot_transform(x, c[i])]] \in [1..N -> [D -> D]]
    BY <1>1
  <2> QED BY <2>1
<1> DEFINE Eq(g) == g = [i \in 0..N |-> IF i = 0 THEN x0 ELSE ot_transform(g[i - 1], c[i])]
           a == CHOOSE g : Eq(g)
<1>3. PICK g \in [0..N -> D] : Recurs(g, x0, N, F)
  BY Recursion
<1>4. g[0] = x0 /\ \A i \in 1..N : g[i] = F[i][g[i - 1]]
  BY <1>3 DEF Recurs
<1>5. Eq(g)
  <2>1. \A i \in 0..N : i # 0 => i \in 1..N /\ g[i - 1] \in D
    BY <1>1
  <2>2. \A i \in 0..N : i # 0 => g[i] = ot_transform(g[i - 1], c[i])
    BY <1>2, <1>4, <2>1
  <2> QED BY <1>4, <2>2
<1>6. Eq(a)
  BY <1>5
<1>7. TransformAll(x0, c) = a[N]
  BY <1>1 DEF TransformAll
<1> HIDE DEF a
<1>8. a[0] = x0 /\ \A i \in 1..N : a[i] = ot_transform(a[i - 1], c[i])
  BY <1>1, <1>6
<1> DEFINE S == {n \in Nat : n <= N => a[n] \in D}
<1>9. 0 \in S /\ \A n \in Nat : n \in S => n + 1 \in S
  BY <1>1, <1>8
<1> HIDE DEF S
<1>10. \A n \in 0..N : a[n] \in D
  <2>1. Nat \subseteq S
    BY <1>9, SetInduction
  <2> QED BY <1>1, <2>1 DEF S
<1>11. a \in [0..N -> D]
  BY <1>6, <1>10
<1> QED BY <1>1, <1>7, <1>8, <1>11

\* The same, without the intermediate operations.
LEMMA TransformAllType ==
  ASSUME NEW D, NEW x0 \in D, NEW c, Len(c) \in Nat,
         \A x \in D, i \in 1..Len(c) : ot_transform(x, c[i]) \in D
  PROVE  TransformAll(x0, c) \in D
<1>1. PICK a \in [0..Len(c) -> D] : TransformAll(x0, c) = a[Len(c)]
  BY TransformAllUnrolls
<1> QED BY <1>1
\* The browser transforms one operation against another as the server does,
\* although one is written as a chain of early returns, the other as cases.
LEMMA TransformsAgree ==
  ASSUME NEW x, NEW y
  PROVE  transformOp(x, y) = ot_transform(x, y)
BY DEF transformOp, ot_transform, Erases

LEMMA PendingIsAll ==
  ASSUME NEW x0, NEW c
  PROVE  TransformPending(x0, c) = TransformAll(x0, c)
<1> DEFINE P(g) == g = [i \in 0..Len(c) |-> IF i = 0 THEN x0 ELSE transformOp(g[i - 1], c[i])]
           Q(g) == g = [i \in 0..Len(c) |-> IF i = 0 THEN x0 ELSE ot_transform(g[i - 1], c[i])]
<1>1. ASSUME NEW g PROVE P(g) <=> Q(g)
  BY TransformsAgree
<1>2. (CHOOSE g : P(g)) = (CHOOSE g : Q(g))
  <2> HIDE DEF P, Q
  <2> QED BY <1>1
<1> QED BY <1>2 DEF TransformPending, TransformAll

-----------------------------------------------------------------------------
(* The laws.                                                                 *)

\* renderer.js mirrors ot_transform: the browser transforms any operation against any
\* window as the server does.
THEOREM BrowserTransformsAlike == Spec => []ClientMirrorsServer
<1>1. ClientMirrorsServer
  BY PendingIsAll DEF ClientMirrorsServer, Result
<1> QED BY <1>1, PTL

\* y cancels x.
Cancels(x, y) == \/ x.type = "STROKE_END" /\ Erases(y, x)
                 \/ x.type = "LAYER_DELETE" /\ y.type = "LAYER_DELETE" /\ y.layer = x.layer

\* An operation the transform may make of x.
Become(x) == [type : {x.type, "NOOP"}, layer : {x.layer}, order : Int, session : {x.session},
              n : {x.n}, base : {x.base}, rev : {x.rev}]

LEMMA OneCancels ==
  ASSUME NEW x, NEW z \in Become(x), NEW y, x.type \in Mutating
  PROVE  /\ ot_transform(z, y) \in Become(x)
         /\ ot_transform(z, y).type = "NOOP" <=> z.type = "NOOP" \/ Cancels(x, y)
<1>1. /\ z.type \in {x.type, "NOOP"} /\ z.layer = x.layer /\ z.order \in Int
  BY DEF Become
<1>2. x.type # "NOOP"
  BY DEF Mutating
<1>3. CASE z.type = "NOOP"
  <2>1. ot_transform(z, y) = z
    BY <1>3 DEF ot_transform
  <2> QED BY <1>3, <2>1
<1>4. CASE z.type = x.type
  <2>1. CASE Cancels(x, y)
    <3>1. ot_transform(z, y) = [z EXCEPT !.type = "NOOP"]
      BY <1>1, <1>4, <2>1 DEF ot_transform, Cancels, Erases
    <3> QED BY <2>1, <3>1 DEF Become
  <2>2. CASE ~Cancels(x, y)
    <3>1. \/ ot_transform(z, y) = z
          \/ ot_transform(z, y) = [z EXCEPT !.order = z.order + 1]
      BY <1>1, <1>4, <2>2 DEF ot_transform, Cancels, Erases
    <3>2. z.order + 1 \in Int
      BY <1>1
    <3> QED BY <1>2, <1>4, <2>2, <3>1, <3>2 DEF Become
  <2> QED BY <2>1, <2>2
<1> QED BY <1>1, <1>3, <1>4

LEMMA AllCancel ==
  ASSUME NEW x, x \in Become(x), x.type \in Mutating, NEW c, Len(c) \in Nat
  PROVE  TransformAll(x, c).type = "NOOP" <=> \E i \in 1..Len(c) : Cancels(x, c[i])
<1>1. \A z \in Become(x), i \in 1..Len(c) : ot_transform(z, c[i]) \in Become(x)
  BY OneCancels
<1>2. PICK a \in [0..Len(c) -> Become(x)] :
        /\ a[0] = x
        /\ \A i \in 1..Len(c) : a[i] = ot_transform(a[i - 1], c[i])
        /\ TransformAll(x, c) = a[Len(c)]
  BY <1>1, TransformAllUnrolls
<1> DEFINE S == {n \in Nat : n <= Len(c) =>
                   (a[n].type = "NOOP" <=> \E i \in 1..n : Cancels(x, c[i]))}
<1>3. 0 \in S
  <2>1. a[0].type # "NOOP"
    BY <1>2 DEF Mutating
  <2> QED BY <2>1
<1>4. ASSUME NEW n \in Nat, n \in S PROVE n + 1 \in S
  <2> SUFFICES ASSUME n + 1 <= Len(c)
               PROVE  a[n + 1].type = "NOOP" <=> \E i \in 1..(n + 1) : Cancels(x, c[i])
    OBVIOUS
  <2>1. n + 1 \in 1..Len(c) /\ n \in 0..Len(c) /\ n = (n + 1) - 1
    OBVIOUS
  <2>2. a[n + 1] = ot_transform(a[n], c[n + 1]) /\ a[n] \in Become(x)
    BY <1>2, <2>1
  <2>3. a[n + 1].type = "NOOP" <=> a[n].type = "NOOP" \/ Cancels(x, c[n + 1])
    BY <2>2, OneCancels
  <2>4. a[n].type = "NOOP" <=> \E i \in 1..n : Cancels(x, c[i])
    BY <1>4, <2>1
  <2>5. \A i : i \in 1..(n + 1) <=> i \in 1..n \/ i = n + 1
    OBVIOUS
  <2> QED BY <2>3, <2>4, <2>5
<1> HIDE DEF S
<1>5. Len(c) \in S
  BY <1>3, <1>4, SetInduction
<1> QED BY <1>2, <1>5 DEF S

\* What is incoming, and what the log can hold after it, however long.
Windows == op \in Op("a", 1) /\ window \in Seq(UNION {Op("b", n) : n \in Nat})

\* Whatever is committed, and however many.
LEMMA WindowsGrow == Spec => []Windows
<1>1. Init => Windows
  BY DEF Init, Windows
<1>2. Windows /\ [Next]_vars => Windows'
  <2> SUFFICES ASSUME Windows, Next PROVE Windows'
    BY DEF vars, Windows
  <2> DEFINE B == UNION {Op("b", n) : n \in Nat}
  <2>1. PICK b \in Op("b", Len(window) + 1) : window' = Append(window, b) /\ op' = op
    BY DEF Next, Commit
  <2>2. window \in Seq(B) /\ Len(window) + 1 \in Nat
    BY DEF Windows
  <2>3. b \in B
    BY <2>1, <2>2
  <2> HIDE DEF B
  <2>4. window' \in Seq(B)
    BY <2>1, <2>2, <2>3
  <2> QED BY <2>1, <2>4 DEF Windows, B
<1> QED BY <1>1, <1>2, PTL DEF Spec

LEMMA LawOps ==
  ASSUME NEW a, NEW n, NEW x \in Op(a, n)
  PROVE  x \in Become(x) /\ x.type \in Mutating /\ x.layer \in Layer
<1>1. \/ x \in [type : Mutating, layer : Layer, order : {0}, session : {a}, n : {n}, base : {0}, rev : {0}]
      \/ x \in [type : {"LAYER_MOVE"}, layer : Layer, order : Order, session : {a}, n : {n},
                base : {0}, rev : {0}]
  BY DEF Op, Mutating
<1>2. x.order \in {0} \union Order /\ x.type \in Mutating \union {"LAYER_MOVE"} /\ x.layer \in Layer
  BY <1>1
<1>3. "LAYER_MOVE" \in Mutating /\ {0} \union Order \subseteq Int
  BY OTLawsAssumption DEF Mutating
<1>4. x.order \in Int /\ x.type \in Mutating
  BY <1>2, <1>3
<1>5. x \in Become(x)
  BY <1>1, <1>4 DEF Become
<1> QED BY <1>2, <1>4, <1>5

\* Whatever the window holds and however long it is, a stroke is dropped exactly when
\* one of the concurrent operations erased its layer, and a delete exactly when one of
\* them deleted it: nothing that comes later revives it.
THEOREM CancelledWhenErased == Spec => []CancelledExactly
<1>1. Windows => CancelledExactly
  <2> SUFFICES ASSUME Windows PROVE CancelledExactly
    OBVIOUS
  <2>1. op \in Become(op) /\ op.type \in Mutating
    BY LawOps DEF Windows
  <2>2. DOMAIN window = 1..Len(window) /\ Len(window) \in Nat
    BY DEF Windows
  <2>3. TransformAll(op, window).type = "NOOP" <=> \E i \in 1..Len(window) : Cancels(op, window[i])
    BY <2>1, <2>2, AllCancel
  <2> QED BY <2>2, <2>3 DEF CancelledExactly, Result, Cancels
<1> QED BY <1>1, WindowsGrow, PTL

\* Both orders of a pair, the second operation transformed against the first.
Both(cv, x, y) == applyRemoteOp(applyRemoteOp(cv, y), ot_transform(x, y))

\* A canvas on which more than two layers exist.
Roomy(cv) ==
  LET D == DOMAIN cv IN
  /\ cv = [l \in D |-> cv[l]]
  /\ ~(Cardinality(D) <= 1)
  /\ \A l \in D : ~(Cardinality(D \ {l}) <= 1)

\* What each operation does to a canvas it finds its layer on.
LEMMA ApplyFacts ==
  ASSUME NEW cv, NEW x
  PROVE  /\ x.layer \notin DOMAIN cv \/ x.type \in {"LAYER_ADD", "LAYER_MOVE", "NOOP"} =>
              applyRemoteOp(cv, x) = cv
         /\ x.type = "STROKE_END" /\ x.layer \in DOMAIN cv =>
              applyRemoteOp(cv, x) = [cv EXCEPT ![x.layer] = Append(@, StrokeId(x))]
         /\ x.type = "CANVAS_CLEAR" /\ x.layer \in DOMAIN cv =>
              applyRemoteOp(cv, x) = [cv EXCEPT ![x.layer] = <<>>]
         /\ x.type = "LAYER_DELETE" /\ x.layer \in DOMAIN cv /\ ~(Cardinality(DOMAIN cv) <= 1) =>
              applyRemoteOp(cv, x) = [l \in DOMAIN cv \ {x.layer} |-> cv[l]]
BY DEF applyRemoteOp, Paint, Wipe, deleteLayer

LEMMA CancelFacts ==
  ASSUME NEW x, NEW y, x.type \in {"LAYER_DELETE", "CANVAS_CLEAR"}, y.type \in Mutating
  PROVE  /\ ot_transform(x, y) = IF x.type = "LAYER_DELETE" /\ y.type = "LAYER_DELETE" /\ y.layer = x.layer
                                 THEN [x EXCEPT !.type = "NOOP"] ELSE x
         /\ ot_transform(y, x) = IF \/ y.type = "STROKE_END" /\ y.layer = x.layer
                                    \/ y.type = "LAYER_DELETE" /\ x.type = "LAYER_DELETE" /\ y.layer = x.layer
                                 THEN [y EXCEPT !.type = "NOOP"] ELSE y
BY DEF ot_transform, Erases

LEMMA ErasureCommutes ==
  ASSUME NEW cv, Roomy(cv),
         NEW x, x.layer \in DOMAIN cv, x.type \in {"LAYER_DELETE", "CANVAS_CLEAR"},
         x \in Become(x),
         NEW y, y.layer \in DOMAIN cv, y.type \in Mutating, y \in Become(y)
  PROVE  Both(cv, x, y) = Both(cv, y, x)
<1> DEFINE D == DOMAIN cv
           u == ot_transform(x, y)
           v == ot_transform(y, x)
           nx == [x EXCEPT !.type = "NOOP"]
           ny == [y EXCEPT !.type = "NOOP"]
<1>1. /\ cv = [l \in D |-> cv[l]] /\ ~(Cardinality(D) <= 1)
      /\ \A l \in D : ~(Cardinality(D \ {l}) <= 1)
  BY DEF Roomy
<1>2. /\ u = IF x.type = "LAYER_DELETE" /\ y.type = "LAYER_DELETE" /\ y.layer = x.layer THEN nx ELSE x
      /\ v = IF \/ y.type = "STROKE_END" /\ y.layer = x.layer
                \/ y.type = "LAYER_DELETE" /\ x.type = "LAYER_DELETE" /\ y.layer = x.layer
             THEN ny ELSE y
  BY CancelFacts
<1>3. nx.type = "NOOP" /\ ny.type = "NOOP"
  BY DEF Become
<1>4. y.type \in {"LAYER_ADD", "LAYER_MOVE", "STROKE_END", "LAYER_DELETE", "CANVAS_CLEAR"}
  BY DEF Mutating
<1> DEFINE p == applyRemoteOp(cv, x)
           q == applyRemoteOp(cv, y)
           Apply(w, z) ==
             /\ z.layer \notin DOMAIN w \/ z.type \in {"LAYER_ADD", "LAYER_MOVE", "NOOP"} =>
                  applyRemoteOp(w, z) = w
             /\ z.type = "STROKE_END" /\ z.layer \in DOMAIN w =>
                  applyRemoteOp(w, z) = [w EXCEPT ![z.layer] = Append(@, StrokeId(z))]
             /\ z.type = "CANVAS_CLEAR" /\ z.layer \in DOMAIN w =>
                  applyRemoteOp(w, z) = [w EXCEPT ![z.layer] = <<>>]
             /\ z.type = "LAYER_DELETE" /\ z.layer \in DOMAIN w /\ ~(Cardinality(DOMAIN w) <= 1) =>
                  applyRemoteOp(w, z) = [l \in DOMAIN w \ {z.layer} |-> w[l]]
<1>5. Apply(cv, x) /\ Apply(cv, y) /\ Apply(q, u) /\ Apply(p, v)
  <2>1. ASSUME NEW w, NEW z PROVE Apply(w, z)
    BY ApplyFacts
  <2> HIDE DEF Apply, p, q, u, v
  <2> QED BY <2>1
<1>6. SUFFICES applyRemoteOp(q, u) = applyRemoteOp(p, v)
  BY DEF Both
<1> HIDE DEF p, q, u, v, nx, ny, D
<1> DEFINE xl == x.layer
           yl == y.layer
<1>7. CASE y.type \in {"LAYER_ADD", "LAYER_MOVE"}
  <2>1. q = cv /\ u = x /\ v = y
    BY <1>2, <1>5, <1>7 DEF q
  <2> QED BY <1>5, <1>7, <2>1 DEF p
<1>8. CASE x.type = "LAYER_DELETE" /\ y.type = "STROKE_END"
  <2>1. p = [l \in D \ {xl} |-> cv[l]] /\ q = [cv EXCEPT ![yl] = Append(@, StrokeId(y))]
    BY <1>1, <1>5, <1>8 DEF p, q, D
  <2>2. DOMAIN q = D
    BY <2>1 DEF D
  <2>3. u = x /\ applyRemoteOp(q, u) = [l \in D \ {xl} |-> q[l]]
    BY <1>1, <1>2, <1>5, <1>8, <2>2 DEF D
  <2>4. CASE xl = yl
    <3>1. applyRemoteOp(p, v) = p
      BY <1>2, <1>3, <1>5, <1>8, <2>4
    <3> QED BY <2>1, <2>3, <2>4, <3>1 DEF D
  <2>5. CASE xl # yl
    <3>1. v = y /\ applyRemoteOp(p, v) = [p EXCEPT ![yl] = Append(@, StrokeId(y))]
      BY <1>2, <1>5, <1>8, <2>1, <2>5 DEF D
    <3> QED BY <2>1, <2>3, <2>5, <3>1 DEF D
  <2> QED BY <2>4, <2>5
<1>9. CASE x.type = "LAYER_DELETE" /\ y.type = "LAYER_DELETE"
  <2>1. p = [l \in D \ {xl} |-> cv[l]] /\ q = [l \in D \ {yl} |-> cv[l]]
    BY <1>1, <1>5, <1>9 DEF p, q, D
  <2>4. CASE xl = yl
    <3>1. applyRemoteOp(p, v) = p /\ applyRemoteOp(q, u) = q
      BY <1>2, <1>3, <1>5, <1>9, <2>4
    <3> QED BY <2>1, <2>4, <3>1
  <2>5. CASE xl # yl
    <3>1. /\ applyRemoteOp(p, v) = [l \in DOMAIN p \ {yl} |-> p[l]]
          /\ applyRemoteOp(q, u) = [l \in DOMAIN q \ {xl} |-> q[l]]
      BY <1>1, <1>2, <1>5, <1>9, <2>1, <2>5 DEF D
    <3> QED BY <2>1, <2>5, <3>1
  <2> QED BY <2>4, <2>5
<1>10. CASE x.type = "LAYER_DELETE" /\ y.type = "CANVAS_CLEAR"
  <2>1. p = [l \in D \ {xl} |-> cv[l]] /\ q = [cv EXCEPT ![yl] = <<>>]
    BY <1>1, <1>5, <1>10 DEF p, q, D
  <2>2. DOMAIN q = D
    BY <2>1 DEF D
  <2>3. u = x /\ v = y /\ applyRemoteOp(q, u) = [l \in D \ {xl} |-> q[l]]
    BY <1>1, <1>2, <1>5, <1>10, <2>2 DEF D
  <2>4. CASE xl = yl
    <3>1. applyRemoteOp(p, v) = p
      BY <1>5, <1>10, <2>1, <2>3, <2>4
    <3> QED BY <2>1, <2>3, <2>4, <3>1 DEF D
  <2>5. CASE xl # yl
    <3>1. applyRemoteOp(p, v) = [p EXCEPT ![yl] = <<>>]
      BY <1>5, <1>10, <2>1, <2>3, <2>5 DEF D
    <3> QED BY <2>1, <2>3, <2>5, <3>1 DEF D
  <2> QED BY <2>4, <2>5
<1>11. CASE x.type = "CANVAS_CLEAR" /\ y.type = "STROKE_END"
  <2>1. p = [cv EXCEPT ![xl] = <<>>] /\ q = [cv EXCEPT ![yl] = Append(@, StrokeId(y))]
    BY <1>5, <1>11 DEF p, q
  <2>3. u = x /\ applyRemoteOp(q, u) = [q EXCEPT ![xl] = <<>>]
    BY <1>2, <1>5, <1>11, <2>1
  <2>4. CASE xl = yl
    <3>1. applyRemoteOp(p, v) = p
      BY <1>2, <1>3, <1>5, <1>11, <2>4
    <3> QED BY <1>1, <2>1, <2>3, <2>4, <3>1
  <2>5. CASE xl # yl
    <3>1. v = y /\ applyRemoteOp(p, v) = [p EXCEPT ![yl] = Append(@, StrokeId(y))]
      BY <1>2, <1>5, <1>11, <2>1, <2>5
    <3> QED BY <1>1, <2>1, <2>3, <2>5, <3>1
  <2> QED BY <2>4, <2>5
<1>12. CASE x.type = "CANVAS_CLEAR" /\ y.type = "LAYER_DELETE"
  <2>1. p = [cv EXCEPT ![xl] = <<>>] /\ q = [l \in D \ {yl} |-> cv[l]]
    BY <1>1, <1>5, <1>12 DEF p, q, D
  <2>2. DOMAIN p = D
    BY <2>1 DEF D
  <2>3. u = x /\ v = y /\ applyRemoteOp(p, v) = [l \in D \ {yl} |-> p[l]]
    BY <1>1, <1>2, <1>5, <1>12, <2>2 DEF D
  <2>4. CASE xl = yl
    <3>1. applyRemoteOp(q, u) = q
      BY <1>5, <1>12, <2>1, <2>3, <2>4
    <3> QED BY <2>1, <2>3, <2>4, <3>1 DEF D
  <2>5. CASE xl # yl
    <3>1. applyRemoteOp(q, u) = [q EXCEPT ![xl] = <<>>]
      BY <1>5, <1>12, <2>1, <2>3, <2>5 DEF D
    <3> QED BY <2>1, <2>3, <2>5, <3>1 DEF D
  <2> QED BY <2>4, <2>5
<1>13. CASE x.type = "CANVAS_CLEAR" /\ y.type = "CANVAS_CLEAR"
  <2>1. p = [cv EXCEPT ![xl] = <<>>] /\ q = [cv EXCEPT ![yl] = <<>>]
    BY <1>5, <1>13 DEF p, q
  <2>2. u = x /\ v = y
    BY <1>2, <1>13
  <2>3. /\ applyRemoteOp(q, u) = [q EXCEPT ![xl] = <<>>]
        /\ applyRemoteOp(p, v) = [p EXCEPT ![yl] = <<>>]
    BY <1>5, <1>13, <2>1, <2>2
  <2> QED BY <1>1, <2>1, <2>3
<1> QED BY <1>4, <1>7, <1>8, <1>9, <1>10, <1>11, <1>12, <1>13

LEMMA BlankIsRoomy ==
  ASSUME IsFiniteSet(Layer), Cardinality(Layer) > 2
  PROVE  Roomy(Blank) /\ DOMAIN Blank = Layer
<1>1. Cardinality(Layer) \in Nat
  BY FS_CardinalityType
<1>2. ASSUME NEW l \in Layer PROVE ~(Cardinality(Layer \ {l}) <= 1)
  <2>1. Cardinality(Layer \ {l}) = Cardinality(Layer) - 1
    BY <1>1, FS_RemoveElement
  <2> QED BY <1>1, <2>1
<1> QED BY <1>1, <1>2 DEF Roomy, Blank

\* With more than two layers, an erasure and any other operation leave the same
\* canvas whichever is committed first.  (With two, which of them deleteLayer keeps
\* depends on the order.)
THEOREM ErasingCommutes ==
  ASSUME IsFiniteSet(Layer), Cardinality(Layer) > 2 PROVE Spec => []ErasuresCommute
<1>1. Windows => ErasuresCommute
  <2> DEFINE b == window[1]
  <2> SUFFICES ASSUME Windows, Len(window) = 1,
                      \/ op.type \in {"LAYER_DELETE", "CANVAS_CLEAR"}
                      \/ b.type \in {"LAYER_DELETE", "CANVAS_CLEAR"}
               PROVE  ServerFirst(op, b) = ServerFirst(b, op)
    BY DEF ErasuresCommute
  <2>1. PICK n \in Nat : b \in Op("b", n)
    BY DEF Windows
  <2>2. /\ op \in Become(op) /\ op.type \in Mutating /\ op.layer \in Layer
        /\ b \in Become(b) /\ b.type \in Mutating /\ b.layer \in Layer
    BY <2>1, LawOps DEF Windows
  <2> HIDE DEF b
  <2>3. Both(Blank, op, b) = Both(Blank, b, op)
    BY <2>2, BlankIsRoomy, ErasureCommutes
  <2> QED BY <2>3 DEF ServerFirst, Both
<1> QED BY <1>1, WindowsGrow, PTL
=============================================================================
