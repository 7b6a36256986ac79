------------------------------- MODULE Export -------------------------------
(***************************************************************************)
(* ExportProject: the layers of a document composed, in floats, into       *)
(* bytes.  Pixels do not touch each other and the three colours of one are *)
(* treated alike: a layer is reduced to one colour and the alpha of one    *)
(* pixel, whether it is visible, and whether its pixels fit the canvas.    *)
(*                                                                         *)
(* The floats stand for fractions of 255 * 255; converting them to a byte  *)
(* truncates.  Alphas come out exact.  A colour whose exact value is       *)
(* a whole number may come out one lower, and one that is within 4/100000  *)
(* of the next whole number may be rounded up to it: that is what the      *)
(* compiled loop does, over all 2^32 pairs of a colour and an alpha, and   *)
(* which of them it does is the compiler's business.                       *)
(***************************************************************************)
EXTENDS Integers, Sequences

Byte == 0..255

Layer == [visible : BOOLEAN, fits : BOOLEAN, colour : Byte, alpha : Byte]

Pixel == [colour : Byte, alpha : Byte]

Clear == [colour |-> 0, alpha |-> 0]

\* What source and destination weigh in a mean whose weights add up to Weight.
Over(s) == 255 * s.alpha

\* Mutant: the factor 1 - alpha_s is forgotten.
UnderWhole(s, d) == 255 * d.alpha

Under(s, d) == (255 - s.alpha) * d.alpha
Weight(s, d) == Over(s) + Under(s, d)

Sum(s, d) == Over(s) * s.colour + Under(s, d) * d.colour

Alpha(s, d) == Weight(s, d) \div 255

\* Mutant: the sum is not divided by alpha_o.
Premultiplied(s, d) == {Sum(s, d) \div (255 * 255)}

Colour(s, d) ==
  LET c == Sum(s, d) \div Weight(s, d)
      r == Sum(s, d) % Weight(s, d)
  IN {c} \union (IF r = 0 /\ c > 0 /\ s.alpha < 255 THEN {c - 1} ELSE {})
         \union (IF 25000 * (Weight(s, d) - r) < Weight(s, d) THEN {c + 1} ELSE {})

\* What layer s may leave of pixel d.
Blend(s, d) ==
  IF Weight(s, d) = 0 THEN {d} ELSE {[colour |-> c, alpha |-> Alpha(s, d)] : c \in Colour(s, d)}

\* Invisible layers, and those whose pixels do not fit the canvas, are skipped.
Drawn(s) == s.visible /\ s.fits

Draw(s, ds) == IF Drawn(s) THEN UNION {Blend(s, d) : d \in ds} ELSE ds

\* What the pixel may be in the end.
Composite(layers) ==
  LET after[i \in 0..Len(layers)] ==
        IF i = 0 THEN {Clear} ELSE Draw(layers[i], after[i - 1])
  IN  after[Len(layers)]
----------------------------------------------------------------------------
\* Layers that have something to show.
Seen(layers) == {i \in DOMAIN layers : layers[i].visible /\ layers[i].fits /\ layers[i].alpha > 0}

\* However the rounding goes, a colour stays between those of the layers that can
\* be seen, but for what truncation may lose at each of them.
InHull(layers, px) ==
  px.alpha > 0 => /\ \E i \in Seen(layers) : px.colour <= layers[i].colour
                  /\ \E i \in Seen(layers) : px.colour + Len(layers) >= layers[i].colour

\* What is drawn covers as much as any of its layers, and no less than it did.
Covers(layers, px) == \A i \in Seen(layers) : px.alpha >= layers[i].alpha

\* An opaque layer hides what is below it, to the last bit.
Hides(layers, px) ==
  \A i \in Seen(layers) :
    layers[i].alpha = 255 => px \in Composite(SubSeq(layers, i, Len(layers)))

\* A layer that is fully transparent changes nothing.
TransparentVanishes(layers, px) ==
  px \in Composite(SelectSeq(layers, LAMBDA s : s.alpha > 0))
=============================================================================
