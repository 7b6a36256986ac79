---------------------------- MODULE ClientProofs ----------------------------
(***************************************************************************)
(* What exporting does to the pixels of any document, and what the demo    *)
(* client leaves behind, proved of every set of ids and of documents.      *)
(***************************************************************************)
EXTENDS Client, FiniteSetTheorems, TLAPS

\* Its lemmas on induction, whatever the constants and variables.
Induction == INSTANCE OTProofs WITH Order <- {}, MaxWindow <- 0, op <- 0, window <- <<>>

LEMMA InductionAssumption == Induction!OTLawsAssumption
BY DEF Induction!OTLawsAssumption

(* One pixel: the weighted mean, its roundings, and a layer drawn over it. *)

\* Division of natural numbers.
LEMMA DivFacts ==
  ASSUME NEW a \in Nat, NEW w \in Nat, w > 0
  PROVE  /\ a \div w \in Nat /\ a % w \in Nat /\ a % w < w
         /\ a = w * (a \div w) + (a % w)
OBVIOUS

\* Multiplying keeps the order.
LEMMA Scaled ==
  ASSUME NEW a \in Nat, NEW b \in Nat, NEW k \in Nat
  PROVE  /\ k * a \in Nat
         /\ a <= b => k * a <= k * b
         /\ a < b /\ k > 0 => k * a < k * b
OBVIOUS

\* Colours and alphas are natural numbers.
LEMMA ByteFacts ==
  /\ \A s \in Layer : s.colour \in Nat /\ s.alpha \in Nat
  /\ \A d \in Pixel : d.colour \in Nat /\ d.alpha \in Nat
<1>1. \A b \in Byte : b \in Nat
  BY DEF Byte
<1> QED BY <1>1 DEF Layer, Pixel

\* The weights of a mean, their sum, and what they are made of.
LEMMA WeightFacts ==
  ASSUME NEW s \in Layer, NEW d \in Pixel
  PROVE  /\ s.alpha \in Nat /\ d.alpha \in Nat /\ s.colour \in Nat /\ d.colour \in Nat
         /\ s.alpha <= 255 /\ d.alpha <= 255 /\ s.colour <= 255 /\ d.colour <= 255
         /\ Over(s) \in Nat /\ Under(s, d) \in Nat /\ Weight(s, d) \in Nat /\ Sum(s, d) \in Nat
         /\ Weight(s, d) <= 255 * 255
         /\ Weight(s, d) >= 255 * s.alpha /\ Weight(s, d) >= 255 * d.alpha
         /\ Over(s) > 0 => s.alpha > 0
         /\ Under(s, d) > 0 => d.alpha > 0
<1>1. s.alpha \in 0..255 /\ d.alpha \in 0..255 /\ s.colour \in 0..255 /\ d.colour \in 0..255
  BY DEF Layer, Pixel, Byte
<1> DEFINE a == s.alpha
           b == d.alpha
<1>2. Over(s) = 255 * a /\ Under(s, d) = (255 - a) * b /\ Weight(s, d) = 255 * a + (255 - a) * b
  BY DEF Over, Under, Weight
<1>3. a \in 0..255 /\ b \in 0..255
  BY <1>1
<1> HIDE DEF a, b
<1>4. PICK k \in Nat : k = 255 - a
  BY <1>3
<1>5. k * b \in Nat /\ k * b <= k * 255 /\ k <= 255 /\ b <= 255 /\ a = 255 - k
  <2>1. b \in Nat /\ b <= 255
    BY <1>3
  <2> QED BY <1>3, <1>4, <2>1, Scaled
<1>6. a * b \in Nat /\ a * b <= a * 255
  <2>1. a \in Nat /\ b \in Nat /\ b <= 255
    BY <1>3
  <2> QED BY <2>1, Scaled
<1>7. k * b = 255 * b - a * b
  BY <1>3, <1>4
<1>8. Weight(s, d) = 255 * a + k * b /\ Under(s, d) = k * b
  BY <1>2, <1>4
<1>9. b = 0 => k * b = 0
  BY <1>4
<1>15. /\ s.alpha \in Nat /\ d.alpha \in Nat /\ s.colour \in Nat /\ d.colour \in Nat
       /\ s.alpha <= 255 /\ d.alpha <= 255 /\ s.colour <= 255 /\ d.colour <= 255
  BY <1>1
<1>10. Over(s) * s.colour \in Nat /\ Under(s, d) * d.colour \in Nat
  <2>1. Over(s) \in Nat /\ Under(s, d) \in Nat /\ s.colour \in Nat /\ d.colour \in Nat
    BY <1>1, <1>2, <1>3, <1>5, <1>8
  <2> QED BY <2>1, Scaled
<1>11. Sum(s, d) \in Nat
  BY <1>10 DEF Sum
<1>12. Over(s) \in Nat /\ Under(s, d) \in Nat /\ Weight(s, d) \in Nat /\ Weight(s, d) <= 255 * 255
  BY <1>2, <1>3, <1>5, <1>8
<1>13. Weight(s, d) >= 255 * a /\ Weight(s, d) >= 255 * b
  BY <1>3, <1>5, <1>6, <1>7, <1>8
<1>14. (Over(s) > 0 => a > 0) /\ (Under(s, d) > 0 => b > 0)
  BY <1>2, <1>3, <1>8, <1>9
<1> QED BY <1>11, <1>12, <1>13, <1>14, <1>15 DEF a, b

\* A weighted mean, rounded the way the loop may round it, stays between what is
\* weighed, but for 1.
LEMMA MeanStays ==
  ASSUME NEW s \in Layer, NEW d \in Pixel, Weight(s, d) > 0, NEW c \in Colour(s, d),
         NEW lo \in Nat, NEW hi \in Nat,
         Over(s) > 0 => lo <= s.colour /\ s.colour <= hi,
         Under(s, d) > 0 => lo <= d.colour /\ d.colour <= hi
  PROVE  c \in Nat /\ c <= hi /\ c + 1 >= lo
<1> DEFINE o == Over(s)
           u == Under(s, d)
           x == s.colour
           y == d.colour
           w == Weight(s, d)
           sum == Sum(s, d)
           q == sum \div w
           r == sum % w
<1>1. o \in Nat /\ u \in Nat /\ x \in Nat /\ y \in Nat /\ sum \in Nat /\ w \in Nat
  BY WeightFacts
<1>2. w = o + u /\ sum = o * x + u * y /\ w > 0
  BY DEF Weight, Sum
<1>3. (o > 0 => lo <= x /\ x <= hi) /\ (u > 0 => lo <= y /\ y <= hi)
  OBVIOUS
<1>4. c = q \/ (q > 0 /\ c = q - 1) \/ (25000 * (w - r) < w /\ c = q + 1)
  BY DEF Colour
<1> HIDE DEF o, u, x, y, w, sum
<1>5. q \in Nat /\ r \in Nat /\ r < w /\ sum = w * q + r
  BY <1>1, <1>2, DivFacts
<1> HIDE DEF q, r
<1>6. o * lo <= o * x /\ o * x <= o * hi
  <2>1. CASE o = 0
    BY <1>1, <2>1
  <2>2. CASE o > 0
    BY <1>1, <1>3, <2>2, Scaled
  <2> QED BY <1>1, <2>1, <2>2
<1>7. u * lo <= u * y /\ u * y <= u * hi
  <2>1. CASE u = 0
    BY <1>1, <2>1
  <2>2. CASE u > 0
    BY <1>1, <1>3, <2>2, Scaled
  <2> QED BY <1>1, <2>1, <2>2
<1>8. w * lo = o * lo + u * lo /\ w * hi = o * hi + u * hi
  BY <1>1, <1>2
<1>9. w * lo <= sum /\ sum <= w * hi
  <2>1. /\ o * lo \in Nat /\ u * lo \in Nat /\ o * hi \in Nat /\ u * hi \in Nat
        /\ o * x \in Nat /\ u * y \in Nat
    BY <1>1, Scaled
  <2>2. ASSUME NEW a \in Nat, NEW b \in Nat, NEW e \in Nat, NEW f \in Nat, NEW g \in Nat, NEW h \in Nat,
               a <= e, b <= f, e <= g, f <= h
        PROVE  a + b <= e + f /\ e + f <= g + h
    BY <2>2
  <2>3. o * lo + u * lo <= o * x + u * y /\ o * x + u * y <= o * hi + u * hi
    BY <1>6, <1>7, <2>1, <2>2
  <2> QED BY <1>2, <1>8, <2>3
<1>10. q <= hi /\ (r > 0 => q < hi)
  <2>1. ASSUME q > hi PROVE FALSE
    <3>1. w * hi < w * q
      BY <1>1, <1>2, <1>5, <2>1, Scaled
    <3>2. w * hi \in Nat /\ w * q \in Nat
      BY <1>1, <1>5, Scaled
    <3> QED BY <1>5, <1>9, <3>1, <3>2
  <2>2. ASSUME r > 0, q = hi PROVE FALSE
    <3>1. w * q \in Nat
      BY <1>1, <1>5, Scaled
    <3> QED BY <1>5, <1>9, <2>2, <3>1
  <2> QED BY <1>5, <2>1, <2>2
<1>11. q >= lo
  <2>1. ASSUME q + 1 <= lo PROVE FALSE
    <3>1. w * (q + 1) <= w * lo
      BY <1>1, <1>5, <2>1, Scaled
    <3>2. w * (q + 1) = w * q + w
      BY <1>1, <1>5
    <3>3. w * q \in Nat /\ w * lo \in Nat
      BY <1>1, <1>5, Scaled
    <3> QED BY <1>1, <1>5, <1>9, <3>1, <3>2, <3>3
  <2> QED BY <1>5, <2>1
<1>12. 25000 * (w - r) < w => r > 0
  BY <1>1, <1>2, <1>5
<1> QED BY <1>4, <1>5, <1>10, <1>11, <1>12

\* One layer on one pixel.
LEMMA BlendFacts ==
  ASSUME NEW s \in Layer, NEW d \in Pixel, NEW e \in Blend(s, d)
  PROVE  /\ e \in Pixel
         /\ e.alpha >= s.alpha /\ e.alpha >= d.alpha
         /\ e.alpha > 0 => \/ s.alpha > 0 /\ e.colour <= s.colour
                           \/ d.alpha > 0 /\ e.colour <= d.colour
         /\ e.alpha > 0 => \/ s.alpha > 0 /\ e.colour + 1 >= s.colour
                           \/ d.alpha > 0 /\ e.colour + 1 >= d.colour
<1>1. CASE Weight(s, d) = 0
  <2>1. e = d
    BY <1>1 DEF Blend
  <2>2. s.alpha = 0 /\ d.alpha = 0
    BY <1>1, WeightFacts
  <2> QED BY <2>1, <2>2
<1>2. CASE Weight(s, d) # 0
  <2>1. PICK c \in Colour(s, d) : e = [colour |-> c, alpha |-> Alpha(s, d)]
    BY <1>2 DEF Blend
  <2>2. Weight(s, d) \in Nat /\ Weight(s, d) > 0
    BY <1>2, WeightFacts
  <2> DEFINE w == Weight(s, d)
             q == w \div 255
  <2>3. q \in 0..255 /\ q >= s.alpha /\ q >= d.alpha
    <3>1. w \in Nat /\ w <= 255 * 255 /\ w >= 255 * s.alpha /\ w >= 255 * d.alpha
          /\ s.alpha \in Nat /\ d.alpha \in Nat
      BY WeightFacts
    <3> HIDE DEF w
    <3> QED BY <3>1
  <2>4. e.alpha = q /\ e.colour = c
    BY <2>1 DEF Alpha
  <2> HIDE DEF w, q
  <2>5. s.colour \in Nat /\ d.colour \in Nat /\ s.colour <= 255 /\ d.colour <= 255 /\ Over(s) \in Nat /\ Under(s, d) \in Nat
        /\ (Over(s) > 0 => s.alpha > 0) /\ (Under(s, d) > 0 => d.alpha > 0)
    BY WeightFacts
  <2>6. c \in 0..255
    <3>1. c \in Nat /\ c <= 255
      <4>1. 255 \in Nat /\ 0 \in Nat /\ 0 <= s.colour /\ 0 <= d.colour
        BY <2>5
      <4> QED BY <2>1, <2>2, <2>5, <4>1, MeanStays
    <3> QED BY <3>1
  <2>7. e \in Pixel
    BY <2>1, <2>3, <2>4, <2>6 DEF Pixel, Byte
  <2>8. CASE Under(s, d) = 0
    <3>1. Over(s) > 0
      BY <2>2, <2>5, <2>8 DEF Weight
    <3>2. c <= s.colour /\ c + 1 >= s.colour
      BY <2>1, <2>2, <2>5, <2>8, MeanStays
    <3> QED BY <2>3, <2>4, <2>5, <2>7, <3>1, <3>2
  <2>9. CASE Over(s) = 0
    <3>1. Under(s, d) > 0
      BY <2>2, <2>5, <2>9 DEF Weight
    <3>2. c <= d.colour /\ c + 1 >= d.colour
      BY <2>1, <2>2, <2>5, <2>9, MeanStays
    <3> QED BY <2>3, <2>4, <2>5, <2>7, <3>1, <3>2
  <2>10. CASE Under(s, d) > 0 /\ Over(s) > 0
    <3>1. CASE s.colour <= d.colour
      <4>1. c <= d.colour /\ c + 1 >= s.colour
        BY <2>1, <2>2, <2>5, <3>1, MeanStays
      <4> QED BY <2>3, <2>4, <2>5, <2>7, <2>10, <4>1
    <3>2. CASE d.colour <= s.colour
      <4>1. c <= s.colour /\ c + 1 >= d.colour
        BY <2>1, <2>2, <2>5, <3>2, MeanStays
      <4> QED BY <2>3, <2>4, <2>5, <2>7, <2>10, <4>1
    <3> QED BY <2>5, <3>1, <3>2
  <2> QED BY <2>5, <2>8, <2>9, <2>10
<1> QED BY <1>1, <1>2

\* One layer on whatever the pixel may be.
LEMMA DrawFacts ==
  ASSUME NEW s \in Layer, NEW ds \in SUBSET Pixel, NEW es, ds \subseteq es
  PROVE  Draw(s, ds) \subseteq Pixel /\ Draw(s, ds) \subseteq Draw(s, es)
BY BlendFacts DEF Draw

\* Composite unrolled: what the pixel may be after each layer.
LEMMA CompositeUnrolls ==
  ASSUME NEW layers \in Seq(Layer)
  PROVE  \E a \in [0..Len(layers) -> SUBSET Pixel] :
           /\ a[0] = {Clear}
           /\ \A i \in 1..Len(layers) : a[i] = Draw(layers[i], a[i - 1])
           /\ Composite(layers) = a[Len(layers)]
<1> DEFINE D == SUBSET Pixel
           N == Len(layers)
<1>1. N \in Nat /\ \A i \in 1..N : layers[i] \in Layer
  OBVIOUS
<1>2. {Clear} \in D
  BY DEF Clear, Pixel, Byte
<1>3. \A i \in 1..N, x \in D : Draw(layers[i], x) \in D
  BY <1>1, DrawFacts
<1> DEFINE Eq(g) == g = [i \in 0..N |-> IF i = 0 THEN {Clear} ELSE Draw(layers[i], g[i - 1])]
           a == CHOOSE g : Eq(g)
<1>4. Composite(layers) = a[N]
  BY DEF Composite
<1> HIDE DEF D, N
<1>5. PICK F \in [1..N -> [D -> D]] : \A i \in 1..N, x \in D : F[i][x] = Draw(layers[i], x)
  <2>1. [i \in 1..N |-> [x \in D |-> Draw(layers[i], x)]] \in [1..N -> [D -> D]]
    BY <1>3
  <2> QED BY <2>1
<1>6. PICK g \in [0..N -> D] : Induction!Recurs(g, {Clear}, N, F)
  BY <1>1, <1>2, InductionAssumption, Induction!Recursion
<1>7. g[0] = {Clear} /\ \A i \in 1..N : g[i] = F[i][g[i - 1]]
  BY <1>6 DEF Induction!Recurs
<1>8. Eq(g)
  <2>1. \A i \in 0..N : i # 0 => i \in 1..N /\ g[i - 1] \in D
    BY <1>1
  <2>2. \A i \in 0..N : i # 0 => g[i] = Draw(layers[i], g[i - 1])
    BY <1>5, <1>7, <2>1
  <2> QED BY <1>7, <2>2
<1>9. Eq(a)
  BY <1>8
<1> HIDE DEF a
<1>10. a[0] = {Clear} /\ \A i \in 1..N : a[i] = Draw(layers[i], a[i - 1])
  <2>1. 0 \in 0..N /\ \A i \in 1..N : i \in 0..N /\ i # 0
    BY <1>1
  <2>2. a = [i \in 0..N |-> IF i = 0 THEN {Clear} ELSE Draw(layers[i], a[i - 1])]
    BY <1>9
  <2> HIDE DEF Eq
  <2> QED BY <2>1, <2>2
<1> DEFINE S == {n \in Nat : n <= N => a[n] \in D}
<1>11. 0 \in S /\ \A n \in Nat : n \in S => n + 1 \in S
  <2>1. 0 \in S
    BY <1>2, <1>10
  <2>2. ASSUME NEW n \in Nat, n \in S PROVE n + 1 \in S
    <3> SUFFICES ASSUME n + 1 <= N PROVE a[n + 1] \in D
      OBVIOUS
    <3>1. n + 1 \in 1..N /\ (n + 1) - 1 = n /\ a[n] \in D
      BY <1>1, <2>2
    <3>2. a[n + 1] = Draw(layers[n + 1], a[n])
      BY <1>10, <3>1
    <3> QED BY <1>3, <3>1, <3>2
  <2> QED BY <2>1, <2>2
<1> HIDE DEF S
<1>12. Nat \subseteq S
  BY <1>11, InductionAssumption, Induction!SetInduction
<1>13. \A n \in 0..N : a[n] \in D
  BY <1>1, <1>12 DEF S
<1>14. a \in [0..N -> D]
  BY <1>9, <1>13
<1> QED BY <1>4, <1>10, <1>14 DEF D, N

\* A layer that has something to show.
Showing(s) == Drawn(s) /\ s.alpha > 0

\* What is known of a pixel when i layers are drawn.
Sound(layers, i, px) ==
  /\ px \in Pixel
  /\ px.alpha > 0 => /\ \E j \in 1..i : Showing(layers[j]) /\ px.colour <= layers[j].colour
                     /\ \E j \in 1..i : Showing(layers[j]) /\ px.colour + i >= layers[j].colour
  /\ \A j \in 1..i : Showing(layers[j]) => px.alpha >= layers[j].alpha

\* One more layer keeps it.
LEMMA SoundStep ==
  ASSUME NEW layers \in Seq(Layer), NEW i \in Nat, i + 1 <= Len(layers),
         NEW ds, \A d \in ds : Sound(layers, i, d),
         NEW e \in Draw(layers[i + 1], ds)
  PROVE  Sound(layers, i + 1, e)
<1> DEFINE s == layers[i + 1]
<1>1. s \in Layer /\ \A j \in 1..(i + 1) : layers[j] \in Layer
  OBVIOUS
<1>2. \A j : j \in 1..(i + 1) <=> j \in 1..i \/ j = i + 1
  OBVIOUS
<1>3. \A j \in 1..(i + 1) : layers[j].colour \in Nat /\ layers[j].alpha \in Nat
  BY <1>1, ByteFacts
<1>4. CASE ~Drawn(s)
  <2>1. Sound(layers, i, e)
    BY <1>4 DEF Draw
  <2>2. e.colour \in Nat
    BY <2>1, ByteFacts DEF Sound
  <2>3. \A j \in 1..i : e.colour + i >= layers[j].colour => e.colour + (i + 1) >= layers[j].colour
    <3> SUFFICES ASSUME NEW j \in 1..i, e.colour + i >= layers[j].colour
                 PROVE  e.colour + (i + 1) >= layers[j].colour
      OBVIOUS
    <3>1. layers[j].colour \in Nat
      BY <1>2, <1>3
    <3> QED BY <2>2, <3>1
  <2> QED BY <1>2, <1>4, <2>1, <2>3 DEF Sound, Showing
<1>5. CASE Drawn(s)
  <2>1. PICK d \in ds : e \in Blend(s, d)
    BY <1>5 DEF Draw
  <2>2. Sound(layers, i, d) /\ d \in Pixel
    BY DEF Sound
  <2>3. /\ e \in Pixel
        /\ e.alpha >= s.alpha /\ e.alpha >= d.alpha
        /\ e.alpha > 0 => \/ s.alpha > 0 /\ e.colour <= s.colour
                          \/ d.alpha > 0 /\ e.colour <= d.colour
        /\ e.alpha > 0 => \/ s.alpha > 0 /\ e.colour + 1 >= s.colour
                          \/ d.alpha > 0 /\ e.colour + 1 >= d.colour
    BY <1>1, <2>1, <2>2, BlendFacts
  <2>4. e.colour \in Nat /\ e.alpha \in Nat /\ d.colour \in Nat /\ d.alpha \in Nat
        /\ s.colour \in Nat
    BY <1>1, <2>2, <2>3, ByteFacts
  <2> HIDE DEF s
  <2>5. \A j \in 1..(i + 1) : Showing(layers[j]) => e.alpha >= layers[j].alpha
    <3>1. \A j \in 1..i : Showing(layers[j]) => e.alpha >= layers[j].alpha
      <4> SUFFICES ASSUME NEW j \in 1..i, Showing(layers[j]) PROVE e.alpha >= layers[j].alpha
        OBVIOUS
      <4>1. layers[j].alpha \in Nat
        BY <1>2, <1>3
      <4>2. d.alpha >= layers[j].alpha
        BY <2>2 DEF Sound
      <4> QED BY <2>3, <2>4, <4>1, <4>2
    <3> QED BY <1>2, <2>3, <3>1 DEF s
  <2>6. ASSUME e.alpha > 0
        PROVE  \E j \in 1..(i + 1) : Showing(layers[j]) /\ e.colour <= layers[j].colour
    <3>1. CASE s.alpha > 0 /\ e.colour <= s.colour
      BY <1>2, <1>5, <3>1 DEF s, Showing
    <3>2. CASE d.alpha > 0 /\ e.colour <= d.colour
      <4>1. PICK j \in 1..i : Showing(layers[j]) /\ d.colour <= layers[j].colour
        BY <2>2, <3>2 DEF Sound
      <4>3. layers[j].colour \in Nat
        BY <1>2, <1>3
      <4>2. e.colour <= layers[j].colour
        BY <2>4, <3>2, <4>1, <4>3
      <4> QED BY <1>2, <4>1, <4>2
    <3> QED BY <2>3, <2>6, <3>1, <3>2
  <2>7. ASSUME e.alpha > 0
        PROVE  \E j \in 1..(i + 1) : Showing(layers[j]) /\ e.colour + (i + 1) >= layers[j].colour
    <3>1. CASE s.alpha > 0 /\ e.colour + 1 >= s.colour
      <4>1. e.colour + (i + 1) >= s.colour
        BY <2>4, <3>1
      <4> QED BY <1>2, <1>5, <3>1, <4>1 DEF s, Showing
    <3>2. CASE d.alpha > 0 /\ e.colour + 1 >= d.colour
      <4>1. PICK j \in 1..i : Showing(layers[j]) /\ d.colour + i >= layers[j].colour
        BY <2>2, <3>2 DEF Sound
      <4>2. layers[j].colour \in Nat
        BY <1>2, <1>3
      <4>3. e.colour + (i + 1) >= layers[j].colour
        <5> DEFINE p == e.colour
                   q == d.colour
                   r == layers[j].colour
        <5>1. p \in Nat /\ q \in Nat /\ r \in Nat /\ p + 1 >= q /\ q + i >= r
          BY <2>4, <3>2, <4>1, <4>2
        <5> HIDE DEF p, q, r
        <5>2. p + (i + 1) >= r
          BY <5>1
        <5> QED BY <5>2 DEF p, r
      <4> QED BY <1>2, <4>1, <4>3
    <3> QED BY <2>3, <2>7, <3>1, <3>2
  <2> QED BY <2>3, <2>5, <2>6, <2>7 DEF Sound
<1> QED BY <1>4, <1>5

\* However many layers: by induction on them.
LEMMA CompositeIsSound ==
  ASSUME NEW layers \in Seq(Layer), NEW px \in Composite(layers)
  PROVE  Sound(layers, Len(layers), px)
<1>1. PICK a \in [0..Len(layers) -> SUBSET Pixel] :
        /\ a[0] = {Clear}
        /\ \A i \in 1..Len(layers) : a[i] = Draw(layers[i], a[i - 1])
        /\ Composite(layers) = a[Len(layers)]
  BY CompositeUnrolls
<1> DEFINE S == {n \in Nat : n <= Len(layers) => \A d \in a[n] : Sound(layers, n, d)}
<1>2. 0 \in S
  <2>1. Sound(layers, 0, Clear)
    BY DEF Sound, Clear, Pixel, Byte
  <2> QED BY <1>1, <2>1
<1>3. ASSUME NEW n \in Nat, n \in S PROVE n + 1 \in S
  <2> SUFFICES ASSUME n + 1 <= Len(layers), NEW e \in a[n + 1] PROVE Sound(layers, n + 1, e)
    OBVIOUS
  <2>1. n + 1 \in 1..Len(layers) /\ (n + 1) - 1 = n /\ \A d \in a[n] : Sound(layers, n, d)
    BY <1>3
  <2>2. a[n + 1] = Draw(layers[n + 1], a[n])
    BY <1>1, <2>1
  <2> QED BY <2>1, <2>2, SoundStep
<1> HIDE DEF S
<1>4. Len(layers) \in S
  BY <1>2, <1>3, InductionAssumption, Induction!SetInduction
<1> QED BY <1>1, <1>4 DEF S

\* What an opaque layer leaves does not depend on what was there.
LEMMA OpaqueBlend ==
  ASSUME NEW s \in Layer, s.alpha = 255, NEW d \in Pixel
  PROVE  Blend(s, d) = Blend(s, Clear)
<1>1. d.alpha \in Nat /\ d.colour \in Nat /\ Clear.alpha = 0 /\ Clear.colour = 0
  BY DEF Pixel, Byte, Clear
<1>2. Under(s, d) = 0 /\ Under(s, Clear) = 0
  BY <1>1 DEF Under
<1>3. Over(s) \in Nat /\ Over(s) = 255 * 255 /\ s.colour \in Nat
  BY DEF Over, Layer, Byte
<1>4. Weight(s, d) = Weight(s, Clear) /\ Weight(s, d) = 255 * 255
  BY <1>2, <1>3 DEF Weight
<1>5. Sum(s, d) = Sum(s, Clear)
  BY <1>1, <1>2, <1>3 DEF Sum
<1> QED BY <1>4, <1>5 DEF Blend, Colour, Alpha

\* From an opaque layer on, the document without what is below it comes out the same.
LEMMA CompositeHides ==
  ASSUME NEW layers \in Seq(Layer), NEW px \in Composite(layers),
         NEW k \in 1..Len(layers), Drawn(layers[k]), layers[k].alpha = 255
  PROVE  px \in Composite(SubSeq(layers, k, Len(layers)))
<1> DEFINE N == Len(layers)
           t == SubSeq(layers, k, N)
<1>1. N \in Nat /\ k \in Nat /\ t \in Seq(Layer) /\ Len(t) = N - k + 1
      /\ \A i \in 1..(N - k + 1) : t[i] = layers[(k - 1) + i]
      /\ \A j \in 1..N : layers[j] \in Layer
  OBVIOUS
<1>0. N \in Nat /\ k \in Nat /\ k >= 1 /\ k <= N /\ Len(t) = N - k + 1
  BY <1>1
<1>2. PICK a \in [0..N -> SUBSET Pixel] :
        /\ a[0] = {Clear}
        /\ \A i \in 1..N : a[i] = Draw(layers[i], a[i - 1])
        /\ Composite(layers) = a[N]
  BY CompositeUnrolls DEF N
<1> HIDE DEF t, N
<1>3. PICK b \in [0..Len(t) -> SUBSET Pixel] :
        /\ b[0] = {Clear}
        /\ \A i \in 1..Len(t) : b[i] = Draw(t[i], b[i - 1])
        /\ Composite(t) = b[Len(t)]
  BY <1>1, CompositeUnrolls
<1> DEFINE S == {n \in Nat : k + n <= N => a[k + n] \subseteq b[1 + n]}
<1>4. 0 \in S
  <2>0. k - 1 \in 0..N /\ k \in 1..N
    BY <1>0
  <2>1. k - 1 \in 0..N /\ a[k - 1] \subseteq Pixel /\ a[k] = Draw(layers[k], a[k - 1])
    BY <1>2, <2>0
  <2>2. 1 \in 1..Len(t) /\ t[1] = layers[k] /\ b[1] = Draw(layers[k], {Clear})
    <3>1. 1 \in 1..Len(t) /\ (k - 1) + 1 = k /\ 1 \in 1..(N - k + 1)
      BY <1>0
    <3>2. t[1] = layers[k]
      BY <1>1, <3>1
    <3>3. b[1] = Draw(t[1], b[1 - 1])
      BY <1>3, <3>1
    <3>4. b[1 - 1] = {Clear}
      BY <1>3
    <3> QED BY <3>1, <3>2, <3>3, <3>4
  <2>3. \A d \in a[k - 1] : Blend(layers[k], d) = Blend(layers[k], Clear)
    BY <1>1, <2>1, OpaqueBlend
  <2>4. a[k] \subseteq b[1]
    BY <2>1, <2>2, <2>3 DEF Draw
  <2>5. k + 0 = k /\ 1 + 0 = 1
    BY <1>1
  <2> QED BY <2>4, <2>5
<1>5. ASSUME NEW n \in Nat, n \in S PROVE n + 1 \in S
  <2> SUFFICES ASSUME k + (n + 1) <= N PROVE a[k + (n + 1)] \subseteq b[1 + (n + 1)]
    OBVIOUS
  <2> DEFINE i == k + (n + 1)
             j == 1 + (n + 1)
  <2>1. /\ i \in 1..N /\ i - 1 = k + n /\ k + n \in 0..N
        /\ j \in 1..Len(t) /\ j \in 1..(N - k + 1) /\ j - 1 = 1 + n /\ (k - 1) + j = i
    BY <1>0
  <2>2. t[j] = layers[i] /\ layers[i] \in Layer
    BY <1>1, <2>1
  <2>3. a[k + n] \subseteq b[1 + n] /\ a[k + n] \in SUBSET Pixel
    BY <1>1, <1>5, <2>1
  <2>4. a[i] = Draw(layers[i], a[k + n]) /\ b[j] = Draw(layers[i], b[1 + n])
    BY <1>2, <1>3, <2>1, <2>2
  <2>5. Draw(layers[i], a[k + n]) \subseteq Draw(layers[i], b[1 + n])
    <3> DEFINE s == layers[i]
               ds == a[k + n]
               es == b[1 + n]
    <3>1. s \in Layer /\ ds \in SUBSET Pixel /\ ds \subseteq es
      BY <2>2, <2>3
    <3> HIDE DEF s, ds, es
    <3>2. Draw(s, ds) \subseteq Draw(s, es)
      BY <3>1, DrawFacts
    <3> QED BY <3>2 DEF s, ds, es
  <2> QED BY <2>4, <2>5
<1> HIDE DEF S
<1>6. N - k \in S
  <2>1. Nat \subseteq S
    BY <1>4, <1>5, InductionAssumption, Induction!SetInduction
  <2>2. N - k \in Nat
    BY <1>0
  <2> QED BY <2>1, <2>2
<1>7. k + (N - k) = N /\ 1 + (N - k) = Len(t)
  BY <1>0
<1>8. a[N] \subseteq b[Len(t)]
  BY <1>1, <1>6, <1>7 DEF S
<1> QED BY <1>2, <1>3, <1>8 DEF t, N

\* What is exported, of any document.
LEMMA ExportIsRight ==
  ASSUME NEW layers \in Seq(Layer), NEW px \in Composite(layers)
  PROVE  InHull(layers, px) /\ Covers(layers, px) /\ Hides(layers, px)
<1>1. Sound(layers, Len(layers), px)
  BY CompositeIsSound
<1>2. DOMAIN layers = 1..Len(layers)
  OBVIOUS
<1>3. Seen(layers) = {i \in 1..Len(layers) : Showing(layers[i])}
  BY <1>2 DEF Seen, Showing, Drawn
<1>4. InHull(layers, px) /\ Covers(layers, px)
  BY <1>1, <1>3 DEF InHull, Covers, Sound
<1>5. Hides(layers, px)
  BY <1>3, CompositeHides DEF Hides, Showing
<1> QED BY <1>4, <1>5
----------------------------------------------------------------------------
(* The client, the service and the store. *)

\* The calls of main, in order.
LEMMA WalkFacts ==
  /\ Len(Walk) = 10 /\ DOMAIN Walk = 1..10
  /\ Walk[1] = "CreateSession" /\ Walk[2] = "ValidateSession" /\ Walk[3] = "SaveProject"
  /\ Walk[4] = "LoadProject" /\ Walk[5] = "ListProjects" /\ Walk[6] = "RenameProject"
  /\ Walk[7] = "ExportProject" /\ Walk[8] = "Collaborate" /\ Walk[9] = "DeleteProject"
  /\ Walk[10] = "ListProjects"
BY DEF Walk

\* Which step each call belongs to.
LEMMA WalkSteps ==
  ASSUME step \in 1..10
  PROVE  /\ Walk[step] = "CreateSession" <=> step = 1
         /\ Walk[step] = "ValidateSession" <=> step = 2
         /\ Walk[step] = "SaveProject" <=> step = 3
         /\ Walk[step] = "LoadProject" <=> step = 4
         /\ Walk[step] = "ListProjects" <=> step \in {5, 10}
         /\ Walk[step] = "RenameProject" <=> step = 6
         /\ Walk[step] = "ExportProject" <=> step = 7
         /\ Walk[step] = "Collaborate" <=> step = 8
         /\ Walk[step] = "DeleteProject" <=> step = 9
<1>1. step \in {1, 2, 3, 4, 5, 6, 7, 8, 9, 10}
  OBVIOUS
<1> QED BY <1>1, WalkFacts

\* What a call may be answered with.
Answers == [ok : BOOLEAN, success : BOOLEAN, id : Id \union {None}, total : Nat, picture : Pixel]

\* Every answer is well formed, and what is set in it can be read back.
LEMMA AnswerFacts ==
  ASSUME NEW b \in BOOLEAN
  PROVE  /\ Refusal \in Answers /\ ~Refusal.ok /\ Refusal.id = None
         /\ Accept(b) \in Answers /\ Accept(b).ok /\ Accept(b).success = b
         /\ \A id \in Id : LET a == [Accept(b) EXCEPT !.id = id] IN a \in Answers /\ a.ok /\ a.id = id
         /\ \A n \in Nat : LET a == [Accept(b) EXCEPT !.total = n] IN a \in Answers /\ a.ok
         /\ \A px \in Pixel : LET a == [Accept(b) EXCEPT !.picture = px]
                              IN  a \in Answers /\ a.ok /\ a.picture = px
<1>1. Clear \in Pixel
  BY DEF Clear, Pixel, Byte
<1>2. Refusal \in Answers /\ ~Refusal.ok /\ Refusal.id = None
  BY <1>1 DEF Refusal, Answers
<1> DEFINE r == [Refusal EXCEPT !.ok = TRUE]
           a == Accept(b)
<1>3. r \in Answers /\ r.ok
  BY <1>2 DEF Answers
<1>4. a = [r EXCEPT !.success = b]
  BY Zenon DEF Accept
<1> HIDE DEF r, a
<1>5. a \in Answers /\ a.ok /\ a.success = b
  BY <1>3, <1>4 DEF Answers
<1>6. \A id \in Id : [a EXCEPT !.id = id] \in Answers /\ [a EXCEPT !.id = id].ok /\ [a EXCEPT !.id = id].id = id
  BY <1>5 DEF Answers
<1>7. \A n \in Nat : [a EXCEPT !.total = n] \in Answers /\ [a EXCEPT !.total = n].ok
  BY <1>5 DEF Answers
<1>8. \A px \in Pixel : [a EXCEPT !.picture = px] \in Answers /\ [a EXCEPT !.picture = px].ok
                        /\ [a EXCEPT !.picture = px].picture = px
  BY <1>5 DEF Answers
<1> QED BY <1>2, <1>5, <1>6, <1>7, <1>8 DEF a

\* What the store may hold.
Projects == [owner : {Me, Other}, name : {"My Canvas", "My Canvas (renamed)"}, layers : Document]

\* TypeOK, inductive.
Typed ==
  /\ step \in 1..10 /\ code \in {"running", "0", "1"} /\ pid \in Id \union {None}
  /\ call \in {"none", "sent", "served", "answered"}
  /\ answer \in Answers
  /\ life \in {"unborn", "alive", "ended"}
  /\ table \in [Id -> {{}} \union {{p} : p \in Projects}]
  /\ failed \subseteq Watched /\ lost \subseteq Id

\* Where main may be: it returns 0 at the end, 1 when one of two calls fails.
Ways ==
  /\ call # "none" => code = "running"
  /\ code = "0" => step = 10
  /\ code = "1" => step \in {1, 3}
  /\ step = 3 /\ code # "running" => failed # {}
  /\ step = 1 /\ code = "running" /\ call # "answered" => life = "unborn"

\* It owns no project but the one it saves, and none of those it lost.
Saved ==
  /\ step = 3 /\ call = "answered" /\ answer.ok =>
       /\ answer.id \in Id /\ Owned(Me) \subseteq {answer.id}
  /\ step > 3 => pid \in Id /\ Owned(Me) \subseteq {pid}
  /\ lost \intersect Owned(Me) = {}

\* Where it has none; and nothing to lose before it has saved one.
Bare ==
  /\ step < 3 => Owned(Me) = {} /\ lost = {}
  /\ step = 3 /\ code = "running" /\ call # "answered" => Owned(Me) = {} /\ lost = {}
  /\ step = 9 /\ call = "answered" /\ answer.ok => Owned(Me) = {}
  /\ step = 10 /\ failed = {} => Owned(Me) = {}

Pictured ==
  step = 7 /\ call = "answered" /\ answer.ok /\ answer.success =>
    \A p \in Mine : answer.picture \in Composite(p.layers)

IClient == Typed /\ Ways /\ Saved /\ Bare /\ Pictured

\* A project has one owner, and what a user owns can be counted.
LEMMA OwnedFacts ==
  ASSUME Typed
  PROVE  /\ \A u : Owned(u) \subseteq Id /\ Cardinality(Owned(u)) \in Nat
         /\ \A id \in Id : id \in Owned(Me) => \E p \in Projects : table[id] = {p} /\ p.owner = Me
         /\ \A id \in Id : id \in Owned(Other) => id \notin Owned(Me)
<1>1. \A u : Owned(u) \subseteq Id
  BY DEF Owned
<1>2. \A u : Cardinality(Owned(u)) \in Nat
  BY <1>1, ClientAssumption, FS_Subset, FS_CardinalityType
<1>3. \A id \in Id : table[id] = {} \/ \E p \in Projects : table[id] = {p}
  BY DEF Typed
<1>4. Me # Other
  BY DEF Me, Other
<1> QED BY <1>1, <1>2, <1>3, <1>4 DEF Owned

\* Before its first call the client has nothing.
LEMMA InitClient == Init => IClient
<1> SUFFICES ASSUME Init PROVE IClient
  OBVIOUS
<1>1. Refusal \in Answers
  BY AnswerFacts, TRUE \in BOOLEAN
<1>2. Typed
  BY <1>1 DEF Init, Typed
<1>3. Owned(Me) = {}
  BY DEF Init, Owned
<1> QED BY <1>2, <1>3 DEF Init, IClient, Ways, Saved, Bare, Pictured

\* Composing a document of the store makes a pixel.
LEMMA CompositeType ==
  ASSUME NEW layers \in Document
  PROVE  Composite(layers) \subseteq Pixel
<1>1. layers \in Seq(Layer)
  BY ClientAssumption
<1> QED BY <1>1, CompositeIsSound DEF Sound

\* What each step does to the projects of the store.
LEMMA TableSteps ==
  ASSUME Typed, Ways, Saved, [Next]_vars
  PROVE  /\ table' \in [Id -> {{}} \union {{p} : p \in Projects}]
         /\ \/ /\ Owned(Me)' = Owned(Me) /\ lost' = lost
               /\ \A id \in Owned(Me) : Walk[step] # "RenameProject" => table'[id] = table[id]
            \/ SaveProject /\ \E id \in Id : /\ Owned(Me)' = Owned(Me) \union {id}
                                             /\ answer' = [Accept(TRUE) EXCEPT !.id = id]
            \/ DeleteProject /\ Owned(Me)' = Owned(Me) \ {pid}
            \/ OtherSaves /\ \E id \in Id : /\ Owned(Me)' = Owned(Me) \ {id}
                                            /\ lost' = lost \union (Owned(Me) \intersect {id})
                                            /\ \A k \in Owned(Me)' : table'[k] = table[k]
<1> DEFINE T == {{}} \union {{p} : p \in Projects}
           Same == /\ Owned(Me)' = Owned(Me) /\ lost' = lost
                   /\ \A id \in Owned(Me) : Walk[step] # "RenameProject" => table'[id] = table[id]
<1>1. table \in [Id -> T]
  BY DEF Typed
<1>2. CASE table' = table /\ lost' = lost
  BY <1>1, <1>2 DEF Owned
<1>3. CASE SaveProject
  <2>1. PICK id \in Id, d \in Document :
          /\ table[id] = {}
          /\ table' = [table EXCEPT ![id] = {[owner |-> Me, name |-> "My Canvas", layers |-> d]}]
          /\ answer' = [Accept(TRUE) EXCEPT !.id = id]
    BY <1>3 DEF SaveProject, Reply
  <2> DEFINE p == [owner |-> Me, name |-> "My Canvas", layers |-> d]
  <2>2. p \in Projects /\ p.owner = Me
    BY DEF Projects
  <2> HIDE DEF p
  <2>3. table' = [table EXCEPT ![id] = {p}]
    BY <2>1 DEF p
  <2>4. table' \in [Id -> T] /\ Owned(Me)' = Owned(Me) \union {id}
    BY <1>1, <2>1, <2>2, <2>3 DEF Owned
  <2> QED BY <1>3, <2>1, <2>4
<1>4. CASE RenameProject
  <2>1. /\ table' = [table EXCEPT ![pid] = {p \in @ : p.owner # Me} \union
                               {[p EXCEPT !.name = "My Canvas (renamed)"] : p \in {q \in @ : q.owner = Me}}]
        /\ Walk[step] = "RenameProject" /\ lost' = lost
    BY <1>4 DEF RenameProject, Serving
  <2>2. pid \in Id
    <3>1. step \in 1..10
      BY DEF Typed
    <3>2. step = 6
      BY <2>1, <3>1, WalkSteps
    <3> QED BY <3>2 DEF Saved
  <2> DEFINE n == {p \in table[pid] : p.owner # Me} \union
                    {[p EXCEPT !.name = "My Canvas (renamed)"] : p \in {q \in table[pid] : q.owner = Me}}
  <2>3. n \in T /\ ((\E p \in n : p.owner = Me) <=> (\E p \in table[pid] : p.owner = Me))
    <3>1. CASE table[pid] = {}
      <4>1. n = {}
        BY <3>1
      <4> QED BY <3>1, <4>1
    <3>2. ASSUME NEW q \in Projects, table[pid] = {q}, q.owner # Me
          PROVE  n \in T /\ ((\E p \in n : p.owner = Me) <=> (\E p \in table[pid] : p.owner = Me))
      <4>1. n = {q}
        BY <3>2
      <4> QED BY <3>2, <4>1
    <3>3. ASSUME NEW q \in Projects, table[pid] = {q}, q.owner = Me
          PROVE  n \in T /\ ((\E p \in n : p.owner = Me) <=> (\E p \in table[pid] : p.owner = Me))
      <4>1. n = {[q EXCEPT !.name = "My Canvas (renamed)"]}
        BY <3>3
      <4>2. [q EXCEPT !.name = "My Canvas (renamed)"] \in Projects
            /\ [q EXCEPT !.name = "My Canvas (renamed)"].owner = q.owner
        BY DEF Projects
      <4> QED BY <3>3, <4>1, <4>2
    <3> QED BY <1>1, <2>2, <3>1, <3>2, <3>3
  <2>4. table' = [table EXCEPT ![pid] = n]
    BY <2>1
  <2> HIDE DEF n
  <2>5. table' \in [Id -> T] /\ Owned(Me)' = Owned(Me)
    BY <1>1, <2>2, <2>3, <2>4 DEF Owned
  <2> QED BY <2>1, <2>5
<1>5. CASE DeleteProject
  <2>1. table' = [table EXCEPT ![pid] = {p \in @ : p.owner # Me}] /\ Walk[step] = "DeleteProject"
    BY <1>5 DEF DeleteProject, Serving
  <2>2. pid \in Id
    <3>1. step \in 1..10
      BY DEF Typed
    <3>2. step = 9
      BY <2>1, <3>1, WalkSteps
    <3> QED BY <3>2 DEF Saved
  <2> DEFINE n == {p \in table[pid] : p.owner # Me}
  <2>3. n \in T /\ \A p \in n : p.owner # Me
    <3>1. n = {} \/ n = table[pid]
      BY <1>1, <2>2
    <3> QED BY <1>1, <2>2, <3>1
  <2>4. table' = [table EXCEPT ![pid] = n]
    BY <2>1
  <2> HIDE DEF n
  <2>5. table' \in [Id -> T] /\ Owned(Me)' = Owned(Me) \ {pid}
    BY <1>1, <2>2, <2>3, <2>4 DEF Owned
  <2> QED BY <1>5, <2>5
<1>6. CASE OtherSaves
  <2>1. PICK id \in Id :
          /\ lost' = lost \union (Owned(Me) \intersect {id})
          /\ table' = [table EXCEPT ![id] = {[owner |-> Other, name |-> "My Canvas", layers |-> Demo]}]
    BY <1>6 DEF OtherSaves
  <2> DEFINE p == [owner |-> Other, name |-> "My Canvas", layers |-> Demo]
  <2>2. p \in Projects /\ p.owner # Me
    BY ClientAssumption DEF Projects, Me, Other
  <2> HIDE DEF p
  <2>3. table' = [table EXCEPT ![id] = {p}]
    BY <2>1 DEF p
  <2>4. table' \in [Id -> T]
    BY <1>1, <2>2, <2>3
  <2>5. Owned(Me)' = Owned(Me) \ {id}
    BY <1>1, <2>2, <2>3 DEF Owned
  <2>6. \A k \in Owned(Me)' : table'[k] = table[k]
    BY <1>1, <2>3, <2>5 DEF Owned
  <2> QED BY <1>6, <2>1, <2>4, <2>5, <2>6
<1>7. CASE OtherDeletes
  <2>1. PICK id \in Owned(Other) : table' = [table EXCEPT ![id] = {}]
    BY <1>7 DEF OtherDeletes
  <2>2. id \in Id /\ id \notin Owned(Me) /\ lost' = lost
    BY <1>7, OwnedFacts DEF OtherDeletes
  <2> QED BY <1>1, <2>1, <2>2 DEF Owned
<1>8. \/ table' = table /\ lost' = lost
      \/ SaveProject \/ RenameProject \/ DeleteProject \/ OtherSaves \/ OtherDeletes
  BY DEF Next, Service, auth, CreateSession, ValidateSession, LoadProject, ListProjects, ExportProject,
         Collaborate, Send, Return, Fail, SessionEnds, vars
<1> HIDE DEF T
<1> QED BY <1>2, <1>3, <1>4, <1>5, <1>6, <1>7, <1>8 DEF T
----------------------------------------------------------------------------

\* Every step of the client, of the service and of other users keeps the invariant.
LEMMA NextClient == IClient /\ [Next]_vars => IClient'
<1> SUFFICES ASSUME IClient, [Next]_vars PROVE IClient'
  OBVIOUS
<1>1. Typed /\ Ways /\ Saved /\ Bare /\ Pictured
  BY DEF IClient
<1>2. step \in 1..10
  BY <1>1 DEF Typed
<1>3. table' \in [Id -> {{}} \union {{p} : p \in Projects}]
  BY <1>1, TableSteps
<1>4. Refusal \in Answers /\ ~Refusal.ok /\ Refusal.id = None
  BY AnswerFacts, TRUE \in BOOLEAN
<1>5. table' = table => Owned(Me)' = Owned(Me) /\ (pid' = pid => Mine' = Mine)
  BY DEF Owned, Mine
<1> DEFINE Steady == UNCHANGED clientVars /\ code = "running"
           Answered == Steady /\ lost' = lost /\ call' = "answered" /\ answer' \in Answers
           Typically == Typed' /\ Ways'
\* A method answers, and does nothing else.
<1>6. ASSUME NEW m, Serving(m) PROVE Steady /\ Walk[step] = m
  BY <1>1, <1>6 DEF Serving, Ways
<1>7. ASSUME Answered, life' \in {"unborn", "alive", "ended"} PROVE Typed' /\ Ways'
  <2>1. Typed'
    BY <1>1, <1>3, <1>7 DEF Typed, clientVars
  <2>2. Ways'
    BY <1>1, <1>7 DEF Ways, clientVars
  <2> QED BY <2>1, <2>2
<1>8. ASSUME Answered, Owned(Me)' = Owned(Me), step # 3, step # 7, step # 9
      PROVE  Saved' /\ Bare' /\ Pictured'
  <2>1. step' = step /\ pid' = pid /\ code' = code /\ failed' = failed
    BY <1>8 DEF clientVars
  <2> QED BY <1>1, <1>2, <1>8, <2>1 DEF Saved, Bare, Pictured
<1>9. ASSUME Answered, Owned(Me)' = Owned(Me), ~answer'.ok
      PROVE  Saved' /\ Bare' /\ Pictured'
  <2>1. step' = step /\ pid' = pid /\ code' = code /\ failed' = failed
    BY <1>9 DEF clientVars
  <2> QED BY <1>1, <1>2, <1>9, <2>1 DEF Saved, Bare, Pictured
<1>10. CASE auth
  <2>1. Steady /\ table' = table /\ life' = life /\ call = "sent" /\ lost' = lost
    BY <1>1, <1>10 DEF auth, Ways
  <2>2. CASE call' = "served" /\ answer' = answer
    <3>1. step' = step /\ pid' = pid /\ code' = code /\ failed' = failed
      BY <2>1 DEF clientVars
    <3>2. Typed' /\ Ways'
      BY <1>1, <1>2, <2>1, <2>2, <3>1 DEF Typed, Ways
    <3>3. Saved' /\ Bare' /\ Pictured'
      BY <1>1, <1>2, <1>5, <2>1, <2>2, <3>1 DEF Saved, Bare, Pictured
    <3> QED BY <3>2, <3>3 DEF IClient
  <2>3. CASE Reply(Refusal)
    <3>1. Answered /\ ~answer'.ok
      BY <1>4, <2>1, <2>3 DEF Reply
    <3>2. Typed' /\ Ways'
      BY <1>1, <1>7, <2>1, <3>1 DEF Typed
    <3>3. Saved' /\ Bare' /\ Pictured'
      BY <1>5, <1>9, <2>1, <3>1
    <3> QED BY <3>2, <3>3 DEF IClient
  <2> QED BY <1>10, <2>2, <2>3 DEF auth
<1>11. ASSUME NEW m \in {"CreateSession", "ValidateSession", "LoadProject", "ListProjects", "RenameProject", "Collaborate"},
              Serving(m), lost' = lost, answer' \in Answers, call' = "answered", Owned(Me)' = Owned(Me),
              life' \in {"unborn", "alive", "ended"}
       PROVE  IClient'
  <2>1. Steady /\ Walk[step] = m
    BY <1>6, <1>11
  <2>2. step # 3 /\ step # 7 /\ step # 9
    BY <1>2, <1>11, <2>1, WalkSteps
  <2>3. Answered
    BY <1>11, <2>1
  <2>4. Typed' /\ Ways'
    BY <1>7, <1>11, <2>3
  <2>5. Saved' /\ Bare' /\ Pictured'
    BY <1>8, <1>11, <2>2, <2>3
  <2> QED BY <2>4, <2>5 DEF IClient
<1>12. CASE CreateSession
  <2>1. answer' = Accept(TRUE) /\ call' = "answered" /\ table' = table /\ lost' = lost
        /\ life' \in {"alive", "ended"} /\ Serving("CreateSession")
    BY <1>12 DEF CreateSession, Reply
  <2>2. answer' \in Answers
    BY <2>1, AnswerFacts, TRUE \in BOOLEAN
  <2> QED BY <1>5, <1>11, <2>1, <2>2
<1>13. CASE ValidateSession
  <2>1. answer' = Accept(life = "alive") /\ call' = "answered" /\ table' = table /\ lost' = lost /\ life' = life
        /\ Serving("ValidateSession")
    BY <1>13 DEF ValidateSession, Reply
  <2>2. answer' \in Answers
    BY <2>1, AnswerFacts, (life = "alive") \in BOOLEAN
  <2> QED BY <1>1, <1>5, <1>11, <2>1, <2>2 DEF Typed
<1>14. CASE SaveProject
  <2>1. PICK id \in Id, d \in Document :
          /\ table[id] = {}
          /\ table' = [table EXCEPT ![id] = {[owner |-> Me, name |-> "My Canvas", layers |-> d]}]
          /\ answer' = [Accept(TRUE) EXCEPT !.id = id]
    BY <1>14 DEF SaveProject, Reply
  <2>2. answer' \in Answers /\ answer'.ok /\ answer'.id = id
    BY <2>1, AnswerFacts, TRUE \in BOOLEAN
  <2>3. Serving("SaveProject") /\ call' = "answered" /\ life' = life /\ lost' = lost
    BY <1>14 DEF SaveProject, Reply
  <2>4. step = 3 /\ Steady /\ call = "served"
    BY <1>2, <1>6, <2>3, WalkSteps DEF Serving
  <2>5. Owned(Me) = {} /\ lost = {}
    BY <1>1, <2>4 DEF Bare
  <2>6. Owned(Me)' = {id}
    BY <1>1, <2>1, <2>5 DEF Owned, Typed
  <2>7. Answered
    BY <2>2, <2>3, <2>4
  <2>8. Typed' /\ Ways'
    BY <1>1, <1>7, <2>3, <2>7 DEF Typed
  <2>9. step' = 3 /\ pid' = pid
    BY <2>4 DEF clientVars
  <2>10. Saved' /\ Bare' /\ Pictured'
    BY <2>2, <2>3, <2>5, <2>6, <2>9 DEF Saved, Bare, Pictured
  <2> QED BY <2>8, <2>10 DEF IClient
<1>15. CASE LoadProject
  <2>1. answer' \in {Refusal, Accept(pid \in Owned(Me))} /\ call' = "answered" /\ table' = table
        /\ lost' = lost /\ life' = life /\ Serving("LoadProject")
    BY <1>15 DEF LoadProject, Reply
  <2>2. answer' \in Answers
    BY <2>1, AnswerFacts, (pid \in Owned(Me)) \in BOOLEAN
  <2> QED BY <1>1, <1>5, <1>11, <2>1, <2>2 DEF Typed
<1>16. CASE ListProjects
  <2>1. answer' = [Accept(FALSE) EXCEPT !.total = Cardinality(Owned(Me))] /\ call' = "answered"
        /\ table' = table /\ lost' = lost /\ life' = life /\ Serving("ListProjects")
    BY <1>16 DEF ListProjects, Reply
  <2>2. Cardinality(Owned(Me)) \in Nat
    BY <1>1, OwnedFacts
  <2>3. answer' \in Answers
    BY <2>1, <2>2, AnswerFacts, FALSE \in BOOLEAN
  <2> QED BY <1>1, <1>5, <1>11, <2>1, <2>3 DEF Typed
<1>17. CASE RenameProject
  <2>1. answer' = Accept(pid \in Owned(Me)) /\ call' = "answered" /\ life' = life /\ lost' = lost
        /\ Serving("RenameProject")
    BY <1>17 DEF RenameProject, Reply
  <2>2. answer' \in Answers
    BY <2>1, AnswerFacts, (pid \in Owned(Me)) \in BOOLEAN
  <2>3. ~SaveProject /\ ~DeleteProject /\ ~OtherSaves
    BY <2>1 DEF SaveProject, DeleteProject, Serving, OtherSaves
  <2>4. Owned(Me)' = Owned(Me)
    BY <1>1, <2>3, TableSteps
  <2> QED BY <1>1, <1>11, <2>1, <2>2, <2>4 DEF Typed
<1>18. CASE ExportProject
  <2>1. Serving("ExportProject") /\ table' = table /\ lost' = lost /\ life' = life
    BY <1>18 DEF ExportProject
  <2>2. step = 7 /\ Steady /\ pid' = pid
    BY <1>2, <1>6, <2>1, WalkSteps DEF clientVars
  <2>3. pid \in Id
    BY <1>1, <2>2 DEF Saved
  <2>4. Mine' = Mine /\ Owned(Me)' = Owned(Me)
    BY <1>5, <2>1, <2>2
  <2>5. /\ answer' \in Answers /\ call' = "answered"
        /\ answer'.success => \A p \in Mine : answer'.picture \in Composite(p.layers)
    <3>1. CASE Reply(Refusal)
      BY <1>4, <3>1, Zenon DEF Reply, Refusal
    <3>2. CASE Reply(Accept(FALSE))
      BY <3>2, AnswerFacts, FALSE \in BOOLEAN DEF Reply
    <3>3. ASSUME NEW p \in table[pid], NEW px \in Composite(p.layers), p.owner = Me,
                 Reply([Accept(TRUE) EXCEPT !.picture = px])
          PROVE  /\ answer' \in Answers /\ call' = "answered"
                 /\ \A r \in Mine : answer'.picture \in Composite(r.layers)
      <4>1. p \in Projects /\ table[pid] = {p}
        BY <1>1, <2>3 DEF Typed
      <4>2. p.layers \in Document
        BY <4>1 DEF Projects
      <4>3. px \in Pixel
        BY <4>2, CompositeType
      <4>4. answer' \in Answers /\ answer'.picture = px /\ call' = "answered"
        BY <3>3, <4>3, AnswerFacts, TRUE \in BOOLEAN DEF Reply
      <4> QED BY <4>1, <4>4 DEF Mine
    <3> QED BY <1>18, <3>1, <3>2, <3>3 DEF ExportProject
  <2>6. Answered
    BY <2>1, <2>2, <2>5
  <2>7. Typed' /\ Ways'
    BY <1>1, <1>7, <2>1, <2>6 DEF Typed
  <2>8. step' = 7 /\ code' = code /\ failed' = failed
    BY <2>2 DEF clientVars
  <2>9. Saved' /\ Bare'
    BY <1>1, <2>1, <2>2, <2>4, <2>8 DEF Saved, Bare
  <2>10. Pictured'
    BY <2>4, <2>5 DEF Pictured
  <2> QED BY <2>7, <2>9, <2>10 DEF IClient
<1>19. CASE Collaborate
  <2>1. answer' = Accept(TRUE) /\ call' = "answered" /\ table' = table /\ lost' = lost /\ life' = life
        /\ Serving("Collaborate")
    BY <1>19 DEF Collaborate, Reply
  <2>2. answer' \in Answers
    BY <2>1, AnswerFacts, TRUE \in BOOLEAN
  <2> QED BY <1>1, <1>5, <1>11, <2>1, <2>2 DEF Typed
<1>20. CASE DeleteProject
  <2>1. answer' = Accept(pid \in Owned(Me)) /\ call' = "answered" /\ life' = life /\ lost' = lost
        /\ Serving("DeleteProject")
    BY <1>20 DEF DeleteProject, Reply
  <2>2. answer' \in Answers
    BY <2>1, AnswerFacts, (pid \in Owned(Me)) \in BOOLEAN
  <2>3. step = 9 /\ Steady
    BY <1>2, <1>6, <2>1, WalkSteps
  <2>4. Owned(Me)' = {}
    <3>1. Owned(Me) \subseteq {pid} /\ pid \in Id
      BY <1>1, <2>3 DEF Saved
    <3>2. table'[pid] = {p \in table[pid] : p.owner # Me} /\ \A k \in Id \ {pid} : table'[k] = table[k]
      BY <1>1, <1>20, <3>1 DEF DeleteProject, Typed
    <3> QED BY <3>1, <3>2 DEF Owned
  <2>5. Answered
    BY <2>1, <2>2, <2>3
  <2>6. Typed' /\ Ways'
    BY <1>1, <1>7, <2>1, <2>5 DEF Typed
  <2>7. step' = 9 /\ pid' = pid /\ pid \in Id
    BY <1>1, <2>3 DEF clientVars, Saved
  <2>8. Saved' /\ Bare' /\ Pictured'
    BY <2>1, <2>4, <2>7 DEF Saved, Bare, Pictured
  <2> QED BY <2>6, <2>8 DEF IClient
<1>21. CASE Send
  <2>1. step' = step /\ pid' = pid /\ code' = code /\ failed' = failed /\ code = "running" /\ life' = life
        /\ table' = table /\ lost' = lost /\ call' = "sent" /\ answer' = Refusal /\ call = "none"
    BY <1>21 DEF Send, clientVars
  <2>2. Typed' /\ Ways'
    BY <1>1, <1>2, <1>4, <2>1 DEF Typed, Ways
  <2>3. Saved' /\ Bare' /\ Pictured'
    BY <1>1, <1>2, <1>5, <2>1 DEF Saved, Bare, Pictured
  <2> QED BY <2>2, <2>3 DEF IClient
<1>22. CASE Return
  <2>1. call = "answered" /\ call' = "none" /\ answer' = answer /\ life' = life /\ table' = table /\ lost' = lost
        /\ code = "running" /\ Owned(Me)' = Owned(Me)
    BY <1>1, <1>5, <1>22 DEF Return, Ways
  <2>2. \/ ~answer.ok /\ step \in {1, 3} /\ code' = "1" /\ step' = step
        \/ (answer.ok \/ step \notin {1, 3}) /\ step = 10 /\ code' = "0" /\ step' = step
        \/ (answer.ok \/ step \notin {1, 3}) /\ step < 10 /\ step' = step + 1 /\ code' = code
    BY <1>2, <1>22, WalkFacts, WalkSteps DEF Return, NeedsOk
  <2>3. pid' = IF step = 3 THEN answer.id ELSE pid
    BY <1>2, <1>22, WalkSteps DEF Return
  <2>4. failed' = IF answer.ok \/ step \notin {3, 9} THEN failed ELSE failed \union {Walk[step]}
    BY <1>2, <1>22, WalkFacts, WalkSteps DEF Return, Watched
  <2>5. Walk[step] \in Watched <=> step \in {3, 9}
    BY <1>2, WalkSteps DEF Watched
  <2>6. Typed'
    <3>1. pid' \in Id \union {None}
      BY <1>1, <2>3 DEF Typed, Answers
    <3>2. failed' \subseteq Watched
      BY <1>1, <2>4, <2>5 DEF Typed
    <3> QED BY <1>1, <1>2, <1>3, <2>1, <2>2, <3>1, <3>2 DEF Typed
  <2>7. Ways'
    BY <1>1, <1>2, <2>1, <2>2, <2>4 DEF Ways
  <2>8. Saved'
    BY <1>1, <1>2, <2>1, <2>2, <2>3 DEF Saved
  <2>9. Bare' /\ Pictured'
    BY <1>1, <1>2, <2>1, <2>2, <2>4 DEF Bare, Pictured
  <2> QED BY <2>6, <2>7, <2>8, <2>9 DEF IClient
<1>23. CASE Fail
  <2>1. call # "none" /\ Reply(Refusal) /\ UNCHANGED clientVars /\ life' = life /\ table' = table /\ lost' = lost
    BY <1>23 DEF Fail
  <2>2. Answered /\ ~answer'.ok
    BY <1>1, <1>4, <2>1 DEF Reply, Ways
  <2>3. Typed' /\ Ways'
    BY <1>1, <1>7, <2>1, <2>2 DEF Typed
  <2>4. Saved' /\ Bare' /\ Pictured'
    BY <1>5, <1>9, <2>1, <2>2
  <2> QED BY <2>3, <2>4 DEF IClient
<1>24. CASE SessionEnds
  <2>1. step' = step /\ pid' = pid /\ code' = code /\ failed' = failed /\ call' = call /\ answer' = answer
        /\ table' = table /\ lost' = lost /\ life = "alive" /\ life' = "ended"
    BY <1>24 DEF SessionEnds, clientVars
  <2>2. Typed' /\ Ways'
    BY <1>1, <2>1 DEF Typed, Ways
  <2>3. Saved' /\ Bare' /\ Pictured'
    BY <1>1, <1>5, <2>1 DEF Saved, Bare, Pictured
  <2> QED BY <2>2, <2>3 DEF IClient
<1>25. CASE OtherSaves \/ OtherDeletes
  <2>1. step' = step /\ pid' = pid /\ code' = code /\ failed' = failed /\ call' = call /\ answer' = answer
        /\ life' = life
    BY <1>25 DEF OtherSaves, OtherDeletes, clientVars
  <2>2. ~SaveProject /\ ~DeleteProject
    <3>1. SaveProject \/ DeleteProject => call = "served" /\ call' = "answered"
      BY DEF SaveProject, DeleteProject, Serving, Reply
    <3> QED BY <2>1, <3>1
  <2>3. \E gone \in SUBSET Id :
          /\ Owned(Me)' = Owned(Me) \ gone /\ lost' = lost \union (Owned(Me) \intersect gone)
          /\ Walk[step] # "RenameProject" => \A k \in Owned(Me)' : table'[k] = table[k]
    <3>1. CASE OtherSaves /\ \E id \in Id : /\ Owned(Me)' = Owned(Me) \ {id}
                                            /\ lost' = lost \union (Owned(Me) \intersect {id})
                                            /\ \A k \in Owned(Me)' : table'[k] = table[k]
      BY <3>1
    <3>2. CASE /\ Owned(Me)' = Owned(Me) /\ lost' = lost
               /\ \A k \in Owned(Me) : Walk[step] # "RenameProject" => table'[k] = table[k]
      <4>1. {} \in SUBSET Id /\ Owned(Me)' = Owned(Me) \ {} /\ lost' = lost \union (Owned(Me) \intersect {})
        BY <3>2
      <4> QED BY <3>2, <4>1
    <3> QED BY <1>1, <2>2, <3>1, <3>2, TableSteps
  <2>4. step = 7 => Mine' = {} \/ Mine' = Mine
    <3> SUFFICES ASSUME step = 7, Mine' # {} PROVE Mine' = Mine
      OBVIOUS
    <3>1. pid \in Id /\ Walk[step] # "RenameProject"
      BY <1>1, WalkSteps, <1>2 DEF Saved
    <3>2. pid \in Owned(Me)'
      BY <2>1, <3>1 DEF Mine, Owned
    <3>3. table'[pid] = table[pid]
      BY <2>3, <3>1, <3>2
    <3> QED BY <2>1, <3>3 DEF Mine
  <2>5. Typed' /\ Ways'
    BY <1>1, <1>3, <2>1, <2>3 DEF Typed, Ways
  <2>6. Owned(Me)' \subseteq Owned(Me) /\ lost' \intersect Owned(Me)' = {} /\ (Owned(Me) = {} => lost' = lost)
    BY <1>1, <2>3 DEF Saved
  <2>7. Saved'
    BY <1>1, <2>1, <2>6 DEF Saved
  <2>8. Bare'
    BY <1>1, <2>1, <2>6 DEF Bare
  <2>9. Pictured'
    BY <1>1, <2>1, <2>4 DEF Pictured
  <2> QED BY <2>5, <2>7, <2>8, <2>9 DEF IClient
<1>26. CASE UNCHANGED vars
  <2>1. step' = step /\ pid' = pid /\ code' = code /\ failed' = failed /\ call' = call /\ answer' = answer
        /\ table' = table /\ lost' = lost /\ life' = life
    BY <1>26 DEF vars, clientVars
  <2>2. Typed' /\ Ways'
    BY <1>1, <2>1 DEF Typed, Ways
  <2>3. Saved' /\ Bare' /\ Pictured'
    BY <1>1, <1>5, <2>1 DEF Saved, Bare, Pictured
  <2> QED BY <2>2, <2>3 DEF IClient
<1> QED
  BY <1>10, <1>12, <1>13, <1>14, <1>15, <1>16, <1>17, <1>18, <1>19, <1>20, <1>21, <1>22, <1>23, <1>24,
     <1>25, <1>26 DEF Next, Service
----------------------------------------------------------------------------

\* What is true of every state the client, the service and the store come to.
LEMMA ClientInvariant == Spec => []IClient
<1>1. Init => IClient
  BY InitClient
<1>2. IClient /\ [Next]_vars => IClient'
  BY NextClient
<1> QED BY <1>1, <1>2, PTL DEF Spec

\* Whatever fails, is lost or ends on the way, main's variables, the answers it reads
\* and the projects in the store are what client.cpp and the service can make them.
THEOREM TypesOfClient == Spec => []TypeOK
<1>1. IClient => TypeOK
  <2> SUFFICES ASSUME IClient PROVE TypeOK
    OBVIOUS
  <2>1. Typed /\ Saved
    BY DEF IClient
  <2>2. \A id \in Id : Cardinality(table[id]) <= 1
    <3> SUFFICES ASSUME NEW id \in Id PROVE Cardinality(table[id]) <= 1
      OBVIOUS
    <3>1. table[id] = {} \/ \E p \in Projects : table[id] = {p}
      BY <2>1 DEF Typed
    <3>2. Cardinality({}) = 0 /\ \A p : Cardinality({p}) = 1
      BY FS_EmptySet, FS_Singleton
    <3> QED BY <3>1, <3>2
  <2>3. step > 3 => pid # None
    BY <2>1, ClientAssumption DEF Saved
  <2>4. step \in DOMAIN Walk
    BY <2>1, WalkFacts DEF Typed
  <2>5. answer \in [ok : BOOLEAN, success : BOOLEAN, id : Id \union {None}, total : Nat, picture : Pixel]
    BY <2>1 DEF Typed, Answers
  <2> QED BY <2>1, <2>2, <2>3, <2>4, <2>5 DEF Typed, TypeOK
<1> QED BY <1>1, ClientInvariant, PTL

\* The client (main of client.cpp) leaves a project of its own behind only if its
\* save or its deletion was refused or not heard: with any number of ids, of other
\* users' projects and of documents.
THEOREM ClientCleansUp == Spec => []CleansUp
<1>1. IClient => CleansUp
  <2> SUFFICES ASSUME IClient, Finished, failed = {} PROVE Owned(Me) = {}
    BY DEF CleansUp
  <2>1. step = 10 \/ step \in {1, 3}
    BY DEF IClient, Typed, Ways, Finished
  <2>2. step # 3
    BY DEF IClient, Ways, Finished
  <2> QED BY <2>1, <2>2 DEF IClient, Bare
<1> QED BY <1>1, ClientInvariant, PTL

\* The picture an export has answered with, against the document that is stored, while
\* it is still this client's.
LEMMA ExportedIsRight ==
  ASSUME IClient, Exported, NEW p \in Mine
  PROVE  /\ InHull(p.layers, answer.picture)
         /\ Covers(p.layers, answer.picture) /\ Hides(p.layers, answer.picture)
<1>1. step = 7
  <2>1. step \in 1..10
    BY DEF IClient, Typed
  <2> QED BY <2>1, WalkSteps DEF Exported
<1>2. answer.picture \in Composite(p.layers)
  BY <1>1 DEF IClient, Pictured, Exported
<1>3. pid \in Id
  BY <1>1 DEF IClient, Saved
<1>4. p \in Projects
  BY <1>3 DEF IClient, Typed, Mine
<1>5. p.layers \in Document
  BY <1>4 DEF Projects
<1>6. p.layers \in Seq(Layer)
  BY <1>5, ClientAssumption
<1> QED BY <1>2, <1>6, ExportIsRight

\* What ExportProject (service.cpp) answers lies, in colour, within what the visible
\* layers show, but for one step of rounding a layer: of any document, however many
\* layers it has, and whichever way each rounding goes.
THEOREM ExportStaysInHull == Spec => []ExportInHull
<1>1. IClient => ExportInHull
  BY ExportedIsRight DEF ExportInHull
<1> QED BY <1>1, ClientInvariant, PTL

\* What it answers covers all that any of its visible layers covers, and is what the
\* document would be without the layers below an opaque one.
THEOREM ExportHidesAndCovers == Spec => []ExportCovers
<1>1. IClient => ExportCovers
  BY ExportedIsRight DEF ExportCovers
<1> QED BY <1>1, ClientInvariant, PTL

\* Once a session has ended and the call it had admitted is over, no later step of
\* anybody takes away or adds a project of its user, but for a save of somebody else's
\* under the same id (SaveProject of service.cpp asks for no owner): auth lets through
\* only the two calls that need no session, and CreateSession comes first and once.
THEOREM EndedStaysInert == Spec => EndedIsInert
<1> SUFFICES ASSUME NEW kept \in SUBSET Id
             PROVE  Spec => [](life = "ended" /\ call # "served" /\ Owned(Me) = kept => [](Owned(Me) = kept \ lost))
  BY DEF EndedIsInert
<1> DEFINE Inert == life = "ended" /\ Owned(Me) = kept \ lost /\ (call = "served" => step = 2)
<1>1. IClient /\ Inert /\ [Next]_vars => Inert'
  <2> SUFFICES ASSUME IClient, Inert, [Next]_vars PROVE Inert'
    OBVIOUS
  <2>1. Typed /\ Ways /\ Saved /\ step \in 1..10
    BY DEF IClient, Typed
  <2>2. call = "sent" => step # 1
    BY <2>1 DEF Ways
  <2>3. ~SaveProject /\ ~DeleteProject /\ ~CreateSession
    <3>1. SaveProject \/ DeleteProject \/ CreateSession => call = "served" /\ step # 2
      BY <2>1, WalkSteps DEF SaveProject, DeleteProject, CreateSession, Serving
    <3> QED BY <3>1
  <2>4. Owned(Me)' = kept \ lost'
    <3>1. CASE \E id \in Id : /\ Owned(Me)' = Owned(Me) \ {id}
                              /\ lost' = lost \union (Owned(Me) \intersect {id})
      BY <3>1
    <3>2. CASE Owned(Me)' = Owned(Me) /\ lost' = lost
      BY <3>2
    <3> QED BY <2>1, <2>3, <3>1, <3>2, TableSteps
  <2>5. CASE auth
    BY <2>1, <2>2, <2>4, <2>5, WalkSteps DEF auth, clientVars, Reply
  <2>6. CASE ~auth /\ ~UNCHANGED vars /\ ~OtherSaves /\ ~OtherDeletes
    <3>1. life' = life /\ call' # "served"
      BY <2>3, <2>6 DEF Next, Service, ValidateSession, LoadProject, ListProjects, RenameProject, ExportProject,
                   Collaborate, Send, Return, Fail, SessionEnds, Reply
    <3> QED BY <2>4, <3>1
  <2>7. CASE UNCHANGED vars \/ OtherSaves \/ OtherDeletes
    BY <2>4, <2>7 DEF vars, clientVars, OtherSaves, OtherDeletes
  <2> QED BY <2>5, <2>6, <2>7
<1>2. IClient /\ life = "ended" /\ call # "served" /\ Owned(Me) = kept => Inert
  BY DEF IClient, Saved
<1>3. Inert => Owned(Me) = kept \ lost
  OBVIOUS
<1> QED BY <1>1, <1>2, <1>3, ClientInvariant, PTL DEF Spec
=============================================================================
