-------------------------- MODULE ConversionsProofs --------------------------
(***************************************************************************)
(* Proofs about Conversions, for every even width and height, every        *)
(* geometry the driver may grant, and every frame.                         *)
(***************************************************************************)
EXTENDS Conversions, SequenceTheorems, TLAPS

USE ConvertAssumption, RgbAssumption

-----------------------------------------------------------------------------
(***************************************************************************)
(* The inductive invariant of convert().                                   *)
(***************************************************************************)

(* Before the first iteration, and as long as there is one. *)
Bounds ==
  /\ w \in Nat /\ h \in Nat /\ w % 2 = 0 /\ h % 2 = 0
  /\ i < h => w > 0 /\ j < 2 * w
  /\ i = h => j = 0

(* The lines that have given all their chroma, and the bytes of chroma     *)
(* that the current line has given.                                        *)
Rows  == (i + 1) \div 2
Given == IF i % 2 = 0 THEN j \div 2 ELSE 0

(* How far each plane is filled: a luma byte for every other byte, a U for *)
(* every other byte of chroma, then a V.  is_u is in step because a line   *)
(* gives an even number of them.                                           *)
Filled ==
  /\ Len(y) = i * w + (j + 1) \div 2
  /\ Len(u) = Rows * (w \div 2) + (Given + 1) \div 2
  /\ Len(v) = Rows * (w \div 2) + Given \div 2
  /\ is_u = (Given % 2 = 0)

Placed ==
  stride = 2 * w /\ w > 0 =>
    /\ \A n \in 1 .. Len(y) : y[n] = LumaAt(n)
    /\ \A n \in 1 .. Len(u) : u[n] = ChromaAt(n, 1)
    /\ \A n \in 1 .. Len(v) : v[n] = ChromaAt(n, 3)

ConvertIInv == ConvertTypeOK /\ Bounds /\ Filled /\ Placed

-----------------------------------------------------------------------------
(***************************************************************************)
(* The inductive invariant of yuv2rgb().                                   *)
(***************************************************************************)

(* At the second pixel of a pair its chroma is still there. *)
PairKept ==
  im_yuv # <<>> /\ pixel % 2 = 1 =>
    U = im_yuv[2 * (pixel - 1) + 1] /\ V = im_yuv[2 * (pixel - 1) + 3]

RgbIInv == RgbTypeOK /\ PairKept /\ ColoursRight /\ (im_yuv = <<>> => pixel = 0)

IInv == ConvertIInv /\ RgbIInv

-----------------------------------------------------------------------------
(***************************************************************************)
(* Arithmetic.                                                             *)
(***************************************************************************)

(* The row and the column of the element that has a full rows of m and b   *)
(* more before it.                                                         *)
LEMMA RowColumn ==
  ASSUME NEW a \in Nat, NEW m \in Nat \ {0}, NEW b \in 0 .. m - 1
  PROVE  (a * m + b) \div m = a /\ (a * m + b) % m = b
<1>1. (a * m + b) \div m = a
  OBVIOUS
<1>2. (a * m + b) % m = b
  OBVIOUS
<1>. QED  BY <1>1, <1>2

(* Multiplication as far as it is needed: the provers know little of it. *)
LEMMA Product ==
  ASSUME NEW a \in Nat, NEW b \in Nat, NEW m \in Nat
  PROVE  /\ a * m \in Nat /\ (a + 1) * m = a * m + m
         /\ a <= b => a * m <= b * m
<1>1. a * m \in Nat /\ (a + 1) * m = a * m + m
  OBVIOUS
<1>2. a <= b => a * m <= b * m
  OBVIOUS
<1>. QED  BY <1>1, <1>2

(* Every other number is even. *)
LEMMA Halves ==
  ASSUME NEW n \in Nat
  PROVE  /\ n \div 2 \in Nat
         /\ n % 2 = 0 => n = 2 * (n \div 2) /\ (n + 1) \div 2 = n \div 2
                         /\ (n + 2) \div 2 = n \div 2 + 1 /\ (n + 1) % 2 = 1
         /\ n % 2 # 0 => n % 2 = 1 /\ n = 2 * (n \div 2) + 1 /\ (n + 1) \div 2 = n \div 2 + 1
                         /\ (n + 2) \div 2 = n \div 2 + 1 /\ (n + 1) % 2 = 0
OBVIOUS

-----------------------------------------------------------------------------
(***************************************************************************)
(* The steps of convert().                                                 *)
(***************************************************************************)

(* What is known in an iteration. *)
Iterates ==
  /\ w \in Nat \ {0} /\ w % 2 = 0 /\ h \in Nat /\ h % 2 = 0
  /\ i \in Nat /\ i < h /\ j \in Nat /\ j < 2 * w
  /\ stride \in Nat /\ length \in Nat /\ is_u \in BOOLEAN
  /\ y \in Seq(Nat) /\ u \in Seq(Nat) /\ v \in Seq(Nat)
  /\ Len(y) \in Nat /\ Len(u) \in Nat /\ Len(v) \in Nat

(* While the loop of convert() runs it reads at a natural offset. *)
LEMMA Iteration ==
  ASSUME ConvertIInv, i < h
  PROVE  Iterates /\ Offset \in Nat
<1>1. w \in Nat /\ h \in Nat /\ w % 2 = 0 /\ h % 2 = 0 /\ w > 0 /\ j < 2 * w
  BY DEF ConvertIInv, Bounds
<1>2. i \in Nat /\ j \in Nat
  BY <1>1 DEF ConvertIInv, ConvertTypeOK
<1>3. stride \in Nat /\ length \in Nat /\ is_u \in BOOLEAN
  BY DEF ConvertIInv, ConvertTypeOK, ConvertAssumption
<1>4. y \in Seq(Nat) /\ u \in Seq(Nat) /\ v \in Seq(Nat)
  BY DEF ConvertIInv, ConvertTypeOK
<1>5. Len(y) \in Nat /\ Len(u) \in Nat /\ Len(v) \in Nat
  BY <1>4, LenProperties
<1>6. Iterates
  BY <1>1, <1>2, <1>3, <1>4, <1>5 DEF Iterates
<1>7. i * w * 2 \in Nat
  BY <1>1, <1>2
<1>. QED  BY <1>2, <1>6, <1>7 DEF Offset

(* Where the loop variables go, and that they stay in their bounds. *)
LEMMA AdvanceBounds ==
  ASSUME Iterates, Advance, UNCHANGED geometry
  PROVE  /\ i' \in 0 .. h' /\ j' \in {0} \cup 0 .. 2 * w' - 1
         /\ Bounds'
<1>1. UNCHANGED <<w, h>>
  BY DEF geometry
<1>2. /\ w \in Nat \ {0} /\ w % 2 = 0 /\ h \in Nat /\ h % 2 = 0
      /\ i \in Nat /\ i < h /\ j \in Nat /\ j < 2 * w
  BY DEF Iterates
<1>3. CASE j < 2 * w - 1
  BY <1>1, <1>2, <1>3 DEF Advance, Bounds
<1>4. CASE ~(j < 2 * w - 1)
  <2>1. i' = i + 1 /\ j' = 0
    BY <1>4 DEF Advance
  <2>. QED  BY <1>1, <1>2, <2>1 DEF Bounds
<1>. QED  BY <1>3, <1>4

(* The next element of a plane. *)
LEMMA Extends ==
  ASSUME NEW p \in Seq(Nat), NEW e \in Nat
  PROVE  /\ Append(p, e) \in Seq(Nat) /\ Len(Append(p, e)) = Len(p) + 1
         /\ \A n \in 1 .. Len(p) + 1 : Append(p, e)[n] = IF n = Len(p) + 1 THEN e ELSE p[n]
<1>1. /\ Append(p, e) \in Seq(Nat) /\ Len(Append(p, e)) = Len(p) + 1
      /\ \A n \in 1 .. Len(p) : Append(p, e)[n] = p[n]
      /\ Append(p, e)[Len(p) + 1] = e
  BY AppendProperties
<1>2. Len(p) \in Nat
  BY LenProperties
<1>. QED  BY <1>1, <1>2

(* An iteration of convert() preserves its invariant, for luma and for     *)
(* chroma.                                                                 *)
LEMMA LumaIInv ==
  ASSUME ConvertIInv, i < h, Luma, Advance, UNCHANGED geometry
  PROVE  ConvertIInv'
<1>0. Iterates /\ Offset \in Nat
  BY Iteration
<1>1. /\ j % 2 = 0 /\ y' = Append(y, Offset) /\ UNCHANGED <<w, h, stride, length, is_u, u, v>>
  BY DEF Luma, geometry
<1>. DEFINE k == j \div 2
<1>2. /\ j \in Nat /\ k \in Nat /\ j = 2 * k /\ (j + 1) \div 2 = k /\ (j + 2) \div 2 = k + 1
      /\ w \in Nat \ {0} /\ i \in Nat /\ k < w
  <2>1. j \in Nat /\ j < 2 * w /\ w \in Nat \ {0} /\ i \in Nat
    BY <1>0 DEF Iterates
  <2>2. k \in Nat /\ j = 2 * k /\ (j + 1) \div 2 = k /\ (j + 2) \div 2 = k + 1
    BY <1>1, <2>1, Halves
  <2>. HIDE DEF k
  <2>. QED  BY <2>1, <2>2
<1>3. i' = i /\ j' = j + 1
  <2>. HIDE DEF k
  <2>. QED  BY <1>2 DEF Advance
<1>4. /\ y' \in Seq(Nat) /\ Len(y') = Len(y) + 1 /\ Len(y) \in Nat
      /\ \A n \in 1 .. Len(y) + 1 : y'[n] = IF n = Len(y) + 1 THEN Offset ELSE y[n]
  BY <1>0, <1>1, Extends DEF Iterates
<1>5. Bounds' /\ i' \in 0 .. h' /\ j' \in {0} \cup 0 .. 2 * w' - 1
  BY <1>0, AdvanceBounds
<1>6. ConvertTypeOK'
  BY <1>1, <1>4, <1>5 DEF ConvertIInv, ConvertTypeOK
<1>7. UNCHANGED <<Rows, Given>>
  <2>1. j' \div 2 = j \div 2
    BY <1>2, <1>3
  <2>. QED  BY <1>3, <2>1 DEF Rows, Given
<1>8. i * w \in Nat /\ Len(y) = i * w + k
  <2>1. i * w \in Nat
    BY <1>2, Product
  <2>. QED  BY <1>2, <2>1 DEF ConvertIInv, Filled
<1>9. Filled'
  <2>1. (j' + 1) \div 2 = k + 1
    BY <1>2, <1>3
  <2>2. i' * w' = i * w
    BY <1>1, <1>3
  <2>3. Len(y') = i' * w' + (j' + 1) \div 2
    BY <1>2, <1>4, <1>8, <2>1, <2>2
  <2>. QED  BY <1>1, <1>7, <2>3 DEF ConvertIInv, Filled
<1>10. Placed'
  <2>. SUFFICES ASSUME stride = 2 * w, NEW n \in 1 .. Len(y) + 1
                PROVE  y'[n] = LumaAt(n)
    BY <1>1, <1>4 DEF ConvertIInv, Placed, LumaAt, ChromaAt
  <2>1. CASE n = Len(y) + 1
    <3>1. n - 1 = i * w + k
      BY <1>4, <1>8, <2>1
    <3>2. (n - 1) \div w = i /\ (n - 1) % w = k
      <4>1. i \in Nat /\ w \in Nat \ {0} /\ k \in 0 .. w - 1
        BY <1>2
      <4>. HIDE DEF k
      <4>2. (i * w + k) \div w = i /\ (i * w + k) % w = k
        BY <4>1, RowColumn
      <4>. QED  BY <3>1, <4>2
    <3>3. LumaAt(n) = i * (2 * w) + 2 * k
      BY <3>2 DEF LumaAt
    <3>4. i * (2 * w) = i * w * 2
      BY <1>2
    <3>. QED  BY <1>2, <1>4, <2>1, <3>3, <3>4 DEF Offset
  <2>2. CASE n # Len(y) + 1
    <3>1. w > 0 /\ n \in 1 .. Len(y)
      BY <1>2, <1>4, <2>2
    <3>. QED  BY <1>4, <2>2, <3>1 DEF ConvertIInv, Placed
  <2>. QED  BY <2>1, <2>2
<1>. QED  BY <1>5, <1>6, <1>9, <1>10 DEF ConvertIInv

(* A second byte of a pair: the luma that the lines and the pairs before   *)
(* it have given does not change, nor does the rest on an odd line.        *)
LEMMA SecondByte ==
  ASSUME ConvertIInv, i < h, j % 2 # 0, Advance, UNCHANGED geometry
  PROVE  /\ i' * w' + (j' + 1) \div 2 = i * w + (j + 1) \div 2
         /\ i % 2 # 0 => Rows' = Rows /\ Given' = 0 /\ Given = 0
<1>0. Iterates
  BY Iteration
<1>. DEFINE k == j \div 2
<1>1. /\ j \in Nat /\ w \in Nat \ {0} /\ i \in Nat /\ j < 2 * w /\ w' = w
      /\ j = 2 * k + 1 /\ k \in Nat
  <2>1. j \in Nat /\ w \in Nat \ {0} /\ i \in Nat /\ j < 2 * w /\ w' = w
    BY <1>0 DEF Iterates, geometry
  <2>2. k \in Nat /\ j = 2 * k + 1
    BY <2>1, Halves
  <2>. QED  BY <2>1, <2>2
<1>2. i * w \in Nat /\ (i + 1) * w = i * w + w
  BY <1>1, Product
<1>. HIDE DEF k
<1>3. CASE j < 2 * w - 1
  <2>1. i' = i /\ j' = j + 1
    BY <1>3 DEF Advance
  <2>2. (j' + 1) \div 2 = (j + 1) \div 2
    BY <1>1, <2>1
  <2>3. i' * w' = i * w
    BY <1>1, <2>1
  <2>4. i % 2 # 0 => Rows' = Rows /\ Given' = 0 /\ Given = 0
    BY <2>1 DEF Rows, Given
  <2>. QED  BY <2>2, <2>3, <2>4
<1>4. CASE ~(j < 2 * w - 1)
  <2>1. i' = i + 1 /\ j' = 0
    BY <1>4 DEF Advance
  <2>2. (j' + 1) \div 2 = 0 /\ (j + 1) \div 2 = w
    BY <1>1, <1>4, <2>1
  <2>3. i' * w' = i * w + w
    BY <1>1, <1>2, <2>1
  <2>4. i % 2 # 0 => Rows' = Rows /\ Given' = 0 /\ Given = 0
    BY <1>1, <2>1 DEF Rows, Given
  <2>. QED  BY <1>1, <1>2, <2>2, <2>3, <2>4
<1>. QED  BY <1>3, <1>4

(* On an even line it is a byte of chroma, and the counts agree with one   *)
(* more of it, even where the line ends.                                   *)
LEMMA ChromaByte ==
  ASSUME ConvertIInv, i < h, j % 2 # 0, i % 2 = 0, Advance, UNCHANGED geometry
  PROVE  /\ Given \in 0 .. w - 1 /\ j = 2 * Given + 1
         /\ Rows \in Nat /\ i = 2 * Rows
         /\ Rows' * (w' \div 2) + (Given' + 1) \div 2 = Rows * (w \div 2) + (Given + 2) \div 2
         /\ Rows' * (w' \div 2) + Given' \div 2 = Rows * (w \div 2) + (Given + 1) \div 2
         /\ Given' % 2 = 0 <=> (Given + 1) % 2 = 0
<1>0. Iterates
  BY Iteration
<1>. DEFINE W == w \div 2
<1>1. /\ j \in Nat /\ w \in Nat \ {0} /\ i \in Nat /\ j < 2 * w /\ w' = w
      /\ W \in Nat /\ w = 2 * W
  <2>1. j \in Nat /\ w \in Nat \ {0} /\ i \in Nat /\ j < 2 * w /\ w' = w /\ w % 2 = 0
    BY <1>0 DEF Iterates, geometry
  <2>2. W \in Nat /\ w = 2 * W
    BY <2>1, Halves
  <2>. QED  BY <2>1, <2>2
<1>2. w' \div 2 = W
  BY <1>1
<1>. HIDE DEF W
<1>3. Given \in Nat /\ j = 2 * Given + 1 /\ Rows \in Nat /\ i = 2 * Rows
  <2>1. Given = j \div 2 /\ Rows = (i + 1) \div 2
    BY DEF Given, Rows
  <2>. QED  BY <1>1, <2>1
<1>4. Given < w
  BY <1>1, <1>3
<1>5. Rows * W \in Nat /\ (Rows + 1) * W = Rows * W + W
  BY <1>1, <1>3, Product
<1>6. CASE j < 2 * w - 1
  <2>1. i' = i /\ j' = j + 1
    BY <1>6 DEF Advance
  <2>2. Rows' = Rows /\ Given' = Given + 1
    <3>1. Rows' = Rows
      BY <2>1 DEF Rows
    <3>2. Given' = (j + 1) \div 2
      BY <2>1 DEF Given
    <3>. QED  BY <1>3, <3>1, <3>2
  <2>. QED  BY <1>1, <1>2, <1>3, <1>4, <2>2 DEF W
<1>7. CASE ~(j < 2 * w - 1)
  <2>1. i' = i + 1 /\ j' = 0
    BY <1>7 DEF Advance
  <2>2. Rows' = Rows + 1 /\ Given' = 0 /\ Given + 1 = w
    <3>1. Rows' = Rows + 1
      BY <1>3, <2>1 DEF Rows
    <3>2. Given' = 0
      BY <2>1 DEF Given
    <3>. QED  BY <1>1, <1>3, <1>7, <3>1, <3>2
  <2>3. Rows' * W = Rows * W + W
    BY <1>5, <2>2
  <2>4. /\ (Given' + 1) \div 2 = 0 /\ Given' \div 2 = 0 /\ Given' % 2 = 0
        /\ (Given + 2) \div 2 = W /\ (Given + 1) \div 2 = W /\ (Given + 1) % 2 = 0
    BY <1>1, <1>3, <2>2
  <2>5. /\ Rows' * W + (Given' + 1) \div 2 = Rows * W + (Given + 2) \div 2
        /\ Rows' * W + Given' \div 2 = Rows * W + (Given + 1) \div 2
    BY <1>1, <1>5, <2>3, <2>4
  <2>. QED  BY <1>1, <1>2, <1>3, <1>4, <2>4, <2>5 DEF W
<1>. QED  BY <1>6, <1>7

LEMMA ChromaIInv ==
  ASSUME ConvertIInv, i < h, Chroma, Advance, UNCHANGED geometry
  PROVE  ConvertIInv'
<1>0. Iterates /\ Offset \in Nat
  BY Iteration
<1>1. j % 2 # 0 /\ UNCHANGED <<w, h, stride, length, y>>
  BY DEF Chroma, geometry
<1>2. Bounds' /\ i' \in 0 .. h' /\ j' \in {0} \cup 0 .. 2 * w' - 1
  BY <1>0, AdvanceBounds
<1>3. i' * w' + (j' + 1) \div 2 = i * w + (j + 1) \div 2
  BY <1>1, SecondByte
<1>4. Len(y') = i' * w' + (j' + 1) \div 2
  BY <1>1, <1>3 DEF ConvertIInv, Filled
<1>5. CASE i % 2 # 0
  <2>1. UNCHANGED <<is_u, u, v>>
    BY <1>5 DEF Chroma
  <2>2. UNCHANGED <<Rows, Given>>
    BY <1>1, <1>5, SecondByte
  <2>3. ConvertTypeOK'
    BY <1>1, <1>2, <2>1 DEF ConvertIInv, ConvertTypeOK
  <2>4. Filled'
    BY <1>1, <1>4, <2>1, <2>2 DEF ConvertIInv, Filled
  <2>5. Placed'
    BY <1>1, <2>1 DEF ConvertIInv, Placed, LumaAt, ChromaAt
  <2>. QED  BY <1>2, <2>3, <2>4, <2>5 DEF ConvertIInv
<1>6. CASE i % 2 = 0
  <2>. DEFINE W == w \div 2
  <2>1. /\ Given \in 0 .. w - 1 /\ j = 2 * Given + 1 /\ Rows \in Nat /\ i = 2 * Rows
        /\ Rows' * (w' \div 2) + (Given' + 1) \div 2 = Rows * W + (Given + 2) \div 2
        /\ Rows' * (w' \div 2) + Given' \div 2 = Rows * W + (Given + 1) \div 2
        /\ Given' % 2 = 0 <=> (Given + 1) % 2 = 0
    BY <1>1, <1>6, ChromaByte
  <2>2. /\ w \in Nat \ {0} /\ W \in Nat \ {0} /\ w = 2 * W /\ i \in Nat
        /\ Len(u) \in Nat /\ Len(v) \in Nat /\ is_u \in BOOLEAN
    <3>1. /\ w \in Nat \ {0} /\ w % 2 = 0 /\ i \in Nat
          /\ Len(u) \in Nat /\ Len(v) \in Nat /\ is_u \in BOOLEAN
      BY <1>0 DEF Iterates
    <3>. QED  BY <3>1
  <2>3. /\ Len(u) = Rows * W + (Given + 1) \div 2
        /\ Len(v) = Rows * W + Given \div 2
        /\ is_u <=> Given % 2 = 0
    BY DEF ConvertIInv, Filled
  <2>. HIDE DEF W
  <2>4. Rows * W \in Nat /\ Given \in Nat /\ Given < 2 * W
    BY <2>1, <2>2, Product
  <2>5. is_u' = ~is_u /\ (Given' % 2 = 0 <=> ~(Given % 2 = 0))
    <3>1. is_u' = ~is_u
      BY <1>6 DEF Chroma
    <3>. QED  BY <2>1, <2>4, <3>1
  <2>6. is_u' = (Given' % 2 = 0) /\ is_u' \in BOOLEAN
    BY <2>2, <2>3, <2>5
  <2>7. CASE is_u
    <3>1. u' = Append(u, Offset) /\ UNCHANGED v
      BY <1>6, <2>7 DEF Chroma
    <3>2. /\ u' \in Seq(Nat) /\ Len(u') = Len(u) + 1
          /\ \A n \in 1 .. Len(u) + 1 : u'[n] = IF n = Len(u) + 1 THEN Offset ELSE u[n]
      BY <1>0, <3>1, Extends DEF Iterates
    <3>3. ConvertTypeOK'
      BY <1>1, <1>2, <2>6, <3>1, <3>2 DEF ConvertIInv, ConvertTypeOK
    <3>4. /\ (Given + 2) \div 2 = (Given + 1) \div 2 + 1
          /\ (Given + 1) \div 2 = Given \div 2 /\ Given = 2 * (Given \div 2)
      BY <2>3, <2>4, <2>7, Halves
    <3>5. Filled'
      <4>1. Len(u') = Rows * W + (Given + 2) \div 2
        BY <2>3, <2>4, <3>2, <3>4
      <4>2. Len(v') = Rows * W + (Given + 1) \div 2
        BY <2>3, <3>1, <3>4
      <4>. QED  BY <1>4, <2>1, <2>6, <4>1, <4>2 DEF Filled, W
    <3>6. Placed'
      <4>. SUFFICES ASSUME stride = 2 * w, NEW n \in 1 .. Len(u) + 1
                    PROVE  u'[n] = ChromaAt(n, 1)
        BY <1>1, <3>1, <3>2 DEF ConvertIInv, Placed, LumaAt, ChromaAt
      <4>1. CASE n = Len(u) + 1
        <5>1. n - 1 \in Nat /\ n - 1 = Rows * W + Given \div 2
          BY <2>2, <2>3, <3>4, <4>1
        <5>2. (n - 1) \div W = Rows /\ (n - 1) % W = Given \div 2
          <6>. DEFINE q == Given \div 2
                      r == Rows
          <6>1. r \in Nat /\ W \in Nat \ {0} /\ q \in 0 .. W - 1
            BY <2>1, <2>2, <2>4
          <6>2. n - 1 = r * W + q
            BY <5>1
          <6>. HIDE DEF q, r
          <6>3. (r * W + q) \div W = r /\ (r * W + q) % W = q
            BY <6>1, RowColumn
          <6>4. (n - 1) \div W = r /\ (n - 1) % W = q
            BY <6>2, <6>3
          <6>. QED  BY <6>4 DEF q, r
        <5>3. ChromaAt(n, 1) = 2 * Rows * stride + 4 * (Given \div 2) + 1
          BY <5>2 DEF ChromaAt, W
        <5>4. Offset = i * w * 2 + (2 * Given + 1)
          BY <2>1 DEF Offset
        <5>5. i * w * 2 \in Nat /\ 2 * Rows * stride = i * w * 2
          BY <2>1, <2>2
        <5>6. Given \div 2 \in Nat
          BY <2>4, Halves
        <5>. QED  BY <2>4, <3>2, <3>4, <4>1, <5>3, <5>4, <5>5, <5>6
      <4>2. CASE n # Len(u) + 1
        <5>1. w > 0 /\ n \in 1 .. Len(u)
          BY <2>2, <4>2
        <5>. QED  BY <3>2, <4>2, <5>1 DEF ConvertIInv, Placed
      <4>. QED  BY <4>1, <4>2
    <3>. QED  BY <1>2, <3>3, <3>5, <3>6 DEF ConvertIInv
  <2>8. CASE ~is_u
    <3>1. v' = Append(v, Offset) /\ UNCHANGED u
      BY <1>6, <2>8 DEF Chroma
    <3>2. /\ v' \in Seq(Nat) /\ Len(v') = Len(v) + 1
          /\ \A n \in 1 .. Len(v) + 1 : v'[n] = IF n = Len(v) + 1 THEN Offset ELSE v[n]
      BY <1>0, <3>1, Extends DEF Iterates
    <3>3. ConvertTypeOK'
      BY <1>1, <1>2, <2>6, <3>1, <3>2 DEF ConvertIInv, ConvertTypeOK
    <3>4. /\ (Given + 2) \div 2 = (Given + 1) \div 2
          /\ (Given + 1) \div 2 = Given \div 2 + 1 /\ Given = 2 * (Given \div 2) + 1
      BY <2>3, <2>4, <2>8, Halves
    <3>5. Filled'
      <4>1. Len(v') = Rows * W + (Given + 1) \div 2
        <5>1. Given \div 2 \in Nat
          BY <2>4, Halves
        <5>. QED  BY <2>3, <2>4, <3>2, <3>4, <5>1
      <4>2. Len(u') = Rows * W + (Given + 2) \div 2
        BY <2>3, <3>1, <3>4
      <4>. QED  BY <1>4, <2>1, <2>6, <4>1, <4>2 DEF Filled, W
    <3>6. Placed'
      <4>. SUFFICES ASSUME stride = 2 * w, NEW n \in 1 .. Len(v) + 1
                    PROVE  v'[n] = ChromaAt(n, 3)
        BY <1>1, <3>1, <3>2 DEF ConvertIInv, Placed, LumaAt, ChromaAt
      <4>1. CASE n = Len(v) + 1
        <5>1. n - 1 \in Nat /\ n - 1 = Rows * W + Given \div 2
          BY <2>2, <2>3, <4>1
        <5>2. (n - 1) \div W = Rows /\ (n - 1) % W = Given \div 2
          <6>. DEFINE q == Given \div 2
                      r == Rows
          <6>1. r \in Nat /\ W \in Nat \ {0} /\ q \in 0 .. W - 1
            BY <2>1, <2>2, <2>4
          <6>2. n - 1 = r * W + q
            BY <5>1
          <6>. HIDE DEF q, r
          <6>3. (r * W + q) \div W = r /\ (r * W + q) % W = q
            BY <6>1, RowColumn
          <6>4. (n - 1) \div W = r /\ (n - 1) % W = q
            BY <6>2, <6>3
          <6>. QED  BY <6>4 DEF q, r
        <5>3. ChromaAt(n, 3) = 2 * Rows * stride + 4 * (Given \div 2) + 3
          BY <5>2 DEF ChromaAt, W
        <5>4. Offset = i * w * 2 + (2 * Given + 1)
          BY <2>1 DEF Offset
        <5>5. i * w * 2 \in Nat /\ 2 * Rows * stride = i * w * 2
          BY <2>1, <2>2
        <5>6. Given \div 2 \in Nat
          BY <2>4, Halves
        <5>. QED  BY <2>4, <3>2, <3>4, <4>1, <5>3, <5>4, <5>5, <5>6
      <4>2. CASE n # Len(v) + 1
        <5>1. w > 0 /\ n \in 1 .. Len(v)
          BY <2>2, <4>2
        <5>. QED  BY <3>2, <4>2, <5>1 DEF ConvertIInv, Placed
      <4>. QED  BY <4>1, <4>2
    <3>. QED  BY <1>2, <3>3, <3>5, <3>6 DEF ConvertIInv
  <2>. QED  BY <2>2, <2>7, <2>8
<1>. QED  BY <1>5, <1>6

-----------------------------------------------------------------------------
(***************************************************************************)
(* The steps of yuv2rgb().                                                 *)
(***************************************************************************)

(* What ColoursRight asks of one channel. *)
RightLevel(x, level) ==
  /\ x > -1000 => 1000 * level - Saturated(x) \in -1000 .. 1000
  /\ x < -1000 => level >= 30
  /\ x = -1000 => level \in {0, 255}

Level   == 0 .. 255
Deepest == -227000   \* no channel is that far below zero

(* The truncation is within one of the exact value, and has its sign. *)
LEMMA Truncated ==
  ASSUME NEW x \in Int, NEW n \in Truncations(x)
  PROVE  /\ n \in Int /\ 1000 * n - x \in -1000 .. 1000
         /\ x > -1000 => n >= 0
         /\ x < 0 => n <= 0 /\ 1000 * n >= x
<1>. DEFINE q == x \div 1000
            m == (-x) \div 1000
<1>1. q \in Int /\ x - 1000 * q \in 0 .. 999 /\ (x % 1000 = 0 <=> x = 1000 * q)
  OBVIOUS
<1>2. m \in Int /\ (-x) - 1000 * m \in 0 .. 999
  OBVIOUS
<1>3. CASE x % 1000 # 0
  <2>1. n = IF x >= 0 THEN q ELSE -m
    BY <1>3 DEF Truncations
  <2>2. x # 1000 * q
    BY <1>1, <1>3
  <2>. HIDE DEF q, m
  <2>. QED  BY <1>1, <1>2, <2>1, <2>2
<1>4. CASE x % 1000 = 0
  <2>1. n \in {q, IF q > 0 THEN q - 1 ELSE IF q < 0 THEN q + 1 ELSE 0}
    BY <1>4 DEF Truncations
  <2>2. x = 1000 * q
    BY <1>1, <1>4
  <2>. HIDE DEF q, m
  <2>. QED  BY <1>1, <2>1, <2>2
<1>. QED  BY <1>3, <1>4

(* What the byte of a channel shows, as far below zero as a channel can be. *)
LEMMA Levels ==
  ASSUME NEW x \in Int, x > Deepest, NEW n \in Truncations(x)
  PROVE  ToByte(n) \in Level /\ RightLevel(x, ToByte(n))
<1>1. /\ n \in Int /\ 1000 * n - x \in -1000 .. 1000
      /\ x > -1000 => n >= 0
      /\ x < 0 => n <= 0 /\ 1000 * n >= x
  BY Truncated
<1>2. n >= -226
  BY <1>1 DEF Deepest
<1>. DEFINE level == ToByte(n)
<1>3. level = IF n > 255 THEN 255 ELSE IF n >= 0 THEN n ELSE n + 256
  BY <1>1, <1>2 DEF ToByte
<1>. HIDE DEF level
<1>4. level \in 0 .. 255
  BY <1>1, <1>2, <1>3
<1>5. ASSUME x > -1000  PROVE 1000 * level - Saturated(x) \in -1000 .. 1000
  <2>1. n >= 0 /\ 1000 * n - x >= -1000 /\ 1000 * n - x <= 1000 /\ (x < 0 => n = 0)
    BY <1>1, <1>5
  <2>2. CASE n > 255
    <3>1. level = 255
      BY <1>3, <2>2
    <3>2. Saturated(x) = 255000 \/ (Saturated(x) = x /\ x <= 255000)
      BY <1>1, <2>1, <2>2 DEF Saturated
    <3>. QED  BY <1>1, <2>1, <2>2, <3>1, <3>2
  <2>3. CASE n <= 255
    <3>1. level = n
      BY <1>1, <1>3, <2>1, <2>3
    <3>2. CASE x < 0
      BY <2>1, <3>1, <3>2 DEF Saturated
    <3>3. CASE x >= 0 /\ x <= 255000
      BY <1>1, <3>1, <3>3 DEF Saturated
    <3>4. CASE x > 255000
      <4>1. Saturated(x) = 255000
        BY <3>4 DEF Saturated
      <4>. QED  BY <1>1, <2>1, <2>3, <3>1, <3>4, <4>1
    <3>. QED  BY <3>2, <3>3, <3>4
  <2>. QED  BY <1>1, <2>2, <2>3
<1>6. ASSUME x < -1000  PROVE level >= 30
  <2>1. n < 0
    BY <1>1, <1>6
  <2>. QED  BY <1>1, <1>2, <1>3, <2>1
<1>7. ASSUME x = -1000  PROVE level \in {0, 255}
  <2>1. n = 0 \/ n = -1
    BY <1>1, <1>7
  <2>. QED  BY <1>3, <2>1
<1>. QED  BY <1>4, <1>5, <1>6, <1>7 DEF RightLevel, level, Level

(* No channel is further below zero than blue without any blue. *)
LEMMA Lowest ==
  ASSUME NEW lum \in Level, NEW cu \in Level, NEW cv \in Level, NEW c \in 1 .. 3
  PROVE  Channels(lum, cu, cv)[c] \in Int /\ Channels(lum, cu, cv)[c] > Deepest
<1>1. CASE c = 1
  BY <1>1 DEF Channels, Level, Deepest
<1>2. CASE c = 2
  BY <1>2 DEF Channels, Level, Deepest
<1>3. CASE c = 3
  BY <1>3 DEF Channels, Level, Deepest
<1>. QED  BY <1>1, <1>2, <1>3

(* The bytes of one more pixel. *)
LEMMA NextPixel ==
  ASSUME NEW d \in Seq(Level), NEW b \in Level, NEW g \in Level, NEW r \in Level
  PROVE  /\ d \o <<b, g, r>> \in Seq(Level) /\ Len(d \o <<b, g, r>>) = Len(d) + 3
         /\ \A k \in 1 .. Len(d) : (d \o <<b, g, r>>)[k] = d[k]
         /\ \A c \in 1 .. 3 : (d \o <<b, g, r>>)[Len(d) + c] = <<b, g, r>>[c]
<1>1. <<b, g, r>> \in Seq(Level) /\ Len(<<b, g, r>>) = 3 /\ Len(d) \in Nat
  BY LenProperties
<1>. DEFINE e == <<b, g, r>>
<1>. HIDE DEF e
<1>2. /\ d \o e \in Seq(Level) /\ Len(d \o e) = Len(d) + Len(e)
      /\ \A k \in 1 .. Len(d) + Len(e) : (d \o e)[k] = IF k <= Len(d) THEN d[k] ELSE e[k - Len(d)]
  BY <1>1, ConcatProperties DEF e
<1>3. Len(e) = 3 /\ Len(d) \in Nat
  BY <1>1 DEF e
<1>4. \A k \in 1 .. Len(d) : (d \o e)[k] = d[k]
  BY <1>2, <1>3
<1>5. \A c \in 1 .. 3 : (d \o e)[Len(d) + c] = e[c]
  <2>. SUFFICES ASSUME NEW c \in 1 .. 3  PROVE (d \o e)[Len(d) + c] = e[c]
    OBVIOUS
  <2>1. /\ Len(d) + c \in 1 .. Len(d) + Len(e) /\ ~(Len(d) + c <= Len(d))
        /\ Len(d) + c - Len(d) = c
    BY <1>3
  <2>. QED  BY <1>2, <2>1
<1>. QED  BY <1>2, <1>3, <1>4, <1>5 DEF e

(* The chroma of a pixel is that of its pair: read with it, or kept. *)
LEMMA OwnChroma ==
  ASSUME RgbIInv, im_yuv # <<>>, pixel < Size
  PROVE  /\ im_yuv \in [0 .. 2 * Size - 1 -> Byte]
         /\ pixel \in Nat
         /\ 2 * pixel \in 0 .. 2 * Size - 1
         /\ PairChroma[1] \in Byte /\ PairChroma[2] \in Byte /\ im_yuv[2 * pixel] \in Byte
         /\ PairChroma[1] = im_yuv[2 * (pixel - (pixel % 2)) + 1]
         /\ PairChroma[2] = im_yuv[2 * (pixel - (pixel % 2)) + 3]
<1>1. im_yuv \in [0 .. 2 * Size - 1 -> Byte] /\ pixel \in Nat
  BY DEF RgbIInv, RgbTypeOK
<1>2. 2 * pixel \in 0 .. 2 * Size - 1 /\ im_yuv[2 * pixel] \in Byte
  BY <1>1
<1>3. CASE pixel % 2 = 0
  <2>1. 2 * pixel + 1 \in 0 .. 2 * Size - 1 /\ 2 * pixel + 3 \in 0 .. 2 * Size - 1
    BY <1>1, <1>3
  <2>2. im_yuv[2 * pixel + 1] \in Byte /\ im_yuv[2 * pixel + 3] \in Byte
    BY <1>1, <2>1
  <2>3. pixel - (pixel % 2) = pixel
    BY <1>1, <1>3
  <2>. QED  BY <1>1, <1>2, <1>3, <2>2, <2>3 DEF PairChroma
<1>4. CASE pixel % 2 # 0
  <2>1. pixel % 2 = 1 /\ pixel - (pixel % 2) = pixel - 1 /\ pixel - 1 \in Nat
    BY <1>1, <1>4
  <2>2. 2 * (pixel - 1) + 1 \in 0 .. 2 * Size - 1 /\ 2 * (pixel - 1) + 3 \in 0 .. 2 * Size - 1
    <3>1. pixel + 1 <= Size
      BY <1>1
    <3>. QED  BY <1>1, <2>1, <3>1
  <2>3. U = im_yuv[2 * (pixel - 1) + 1] /\ V = im_yuv[2 * (pixel - 1) + 3]
    BY <2>1 DEF RgbIInv, PairKept
  <2>4. U \in Byte /\ V \in Byte
    BY <1>1, <2>2, <2>3
  <2>. QED  BY <1>1, <1>2, <1>4, <2>1, <2>3, <2>4 DEF PairChroma
<1>. QED  BY <1>3, <1>4

(* So does one of yuv2rgb(). *)
LEMMA RgbStep ==
  ASSUME RgbIInv, RgbNext
  PROVE  RgbIInv'
<1>1. im_yuv # <<>> /\ pixel < Size /\ pixel' = pixel + 1 /\ im_yuv' = im_yuv
  BY DEF RgbNext
<1>2. /\ im_yuv \in [0 .. 2 * Size - 1 -> Byte] /\ pixel \in Nat
      /\ im_yuv[2 * pixel] \in Byte /\ U' \in Byte /\ V' \in Byte
      /\ U' = im_yuv[2 * (pixel - (pixel % 2)) + 1]
      /\ V' = im_yuv[2 * (pixel - (pixel % 2)) + 3]
  <2>1. U' = PairChroma[1] /\ V' = PairChroma[2]
    BY DEF RgbNext
  <2>. QED  BY <1>1, <2>1, OwnChroma
<1>. DEFINE exact == Channels(im_yuv[2 * pixel], U', V')
<1>4. exact = Exact(pixel)
  BY <1>2 DEF Exact
<1>5. \A c \in 1 .. 3 : exact[c] \in Int /\ exact[c] > Deepest
  <2>1. im_yuv[2 * pixel] \in Level /\ U' \in Level /\ V' \in Level
    BY <1>2 DEF Level
  <2>. QED  BY <2>1, Lowest, Zenon
<1>. HIDE DEF exact
<1>3. PICK B \in Truncations(exact[1]), G \in Truncations(exact[2]), R \in Truncations(exact[3]) :
        dst' = dst \o <<ToByte(B), ToByte(G), ToByte(R)>>
  BY DEF RgbNext, exact
<1>. DEFINE b == ToByte(B)
            g == ToByte(G)
            r == ToByte(R)
<1>6. /\ b \in Level /\ RightLevel(exact[1], b)
      /\ g \in Level /\ RightLevel(exact[2], g)
      /\ r \in Level /\ RightLevel(exact[3], r)
  <2>1. \A c \in {1, 2, 3} : exact[c] \in Int /\ exact[c] > Deepest
    BY <1>5
  <2>. QED  BY <1>3, <2>1, Levels, Zenon
<1>7. dst' = dst \o <<b, g, r>>
  BY <1>3
<1>. HIDE DEF b, g, r
<1>8. dst \in Seq(Level) /\ Len(dst) = 3 * pixel
  BY DEF RgbIInv, RgbTypeOK, Level
<1>9. /\ dst' \in Seq(Level) /\ Len(dst') = 3 * pixel + 3
      /\ \A k \in 1 .. 3 * pixel : dst'[k] = dst[k]
      /\ \A c \in 1 .. 3 : dst'[3 * pixel + c] = <<b, g, r>>[c]
  <2>1. /\ dst' \in Seq(Level) /\ Len(dst') = Len(dst) + 3
        /\ \A k \in 1 .. Len(dst) : dst'[k] = dst[k]
        /\ \A c \in 1 .. 3 : dst'[Len(dst) + c] = <<b, g, r>>[c]
    <3>1. /\ dst \o <<b, g, r>> \in Seq(Level) /\ Len(dst \o <<b, g, r>>) = Len(dst) + 3
          /\ \A k \in 1 .. Len(dst) : (dst \o <<b, g, r>>)[k] = dst[k]
          /\ \A c \in 1 .. 3 : (dst \o <<b, g, r>>)[Len(dst) + c] = <<b, g, r>>[c]
      BY <1>6, <1>8, NextPixel
    <3>. QED  BY <1>7, <3>1, Zenon
  <2>. QED  BY <1>8, <2>1
<1>10. RgbTypeOK'
  <2>1. im_yuv' \in [0 .. 2 * Size - 1 -> Byte] \cup {<<>>}
    BY <1>1, <1>2, Zenon
  <2>2. pixel' \in 0 .. Size
    BY <1>1, <1>2
  <2>3. U' \in Byte \cup {0} /\ V' \in Byte \cup {0}
    BY <1>2, Zenon
  <2>4. dst' \in Seq(0 .. 255)
    BY <1>9, Zenon DEF Level
  <2>5. Len(dst') = 3 * pixel'
    BY <1>1, <1>2, <1>9
  <2>. QED  BY <2>1, <2>2, <2>3, <2>4, <2>5, Zenon DEF RgbTypeOK
<1>11. PairKept'
  <2>. SUFFICES ASSUME (pixel + 1) % 2 = 1
                PROVE  U' = im_yuv[2 * pixel + 1] /\ V' = im_yuv[2 * pixel + 3]
    <3>1. pixel' - 1 = pixel /\ pixel' % 2 = (pixel + 1) % 2
      BY <1>1, <1>2
    <3>. QED  BY <1>1, <3>1 DEF PairKept
  <2>1. pixel - (pixel % 2) = pixel
    BY <1>2
  <2>. QED  BY <1>2, <2>1
<1>12. ColoursRight'
  <2>. SUFFICES ASSUME NEW p \in 0 .. pixel, NEW c \in 1 .. 3
                PROVE  RightLevel(Exact(p)[c], dst'[3 * p + c])
    <3>1. \A p \in 0 .. pixel' - 1, c \in 1 .. 3 : RightLevel((Exact(p)')[c], dst'[3 * p + c])
      <4>1. ASSUME NEW p  PROVE Exact(p)' = Exact(p)
        BY <1>1 DEF Exact
      <4>2. 0 .. pixel' - 1 = 0 .. pixel
        BY <1>1, <1>2
      <4>. QED  BY <4>1, <4>2
    <3>. QED  BY <3>1 DEF ColoursRight, RightLevel
  <2>1. CASE p = pixel
    <3>1. RightLevel(exact[c], <<b, g, r>>[c])
      <4>1. CASE c = 1
        BY <1>6, <4>1
      <4>2. CASE c = 2
        BY <1>6, <4>2
      <4>3. CASE c = 3
        BY <1>6, <4>3
      <4>. QED  BY <4>1, <4>2, <4>3
    <3>. QED  BY <1>4, <1>9, <2>1, <3>1
  <2>2. CASE p # pixel
    <3>1. p \in 0 .. pixel - 1 /\ 3 * p + c \in 1 .. 3 * pixel
      BY <1>2, <2>2
    <3>2. RightLevel(Exact(p)[c], dst[3 * p + c])
      <4>1. \A o \in 0 .. pixel - 1, k \in 1 .. 3 : RightLevel(Exact(o)[k], dst[3 * o + k])
        BY DEF RgbIInv, ColoursRight, RightLevel
      <4>. QED  BY <3>1, <4>1
    <3>. QED  BY <1>9, <3>1, <3>2
  <2>. QED  BY <2>1, <2>2
<1>. QED  BY <1>1, <1>10, <1>11, <1>12 DEF RgbIInv

-----------------------------------------------------------------------------
(***************************************************************************)
(* The invariant.                                                          *)
(***************************************************************************)

(* The planes are empty, and so is the photo. *)
LEMMA InitIInv ==
  ASSUME Init
  PROVE  IInv
<1>1. ASSUME ConvertLocals, w \in Nat, h \in Nat, w % 2 = 0, h % 2 = 0, h > 0 => w > 0,
             w \in Width \cup {0}, h \in Height \cup {0},
             stride \in Stride \cup {0}, length \in Nat
      PROVE  ConvertIInv
  <2>1. ConvertTypeOK
    BY <1>1, EmptySeq DEF ConvertTypeOK, ConvertLocals
  <2>2. Bounds
    BY <1>1 DEF Bounds, ConvertLocals
  <2>3. Filled
    <3>1. 0 * w = 0 /\ 0 * (w \div 2) = 0 /\ Rows = 0 /\ Given = 0
      BY <1>1 DEF ConvertLocals, Rows, Given
    <3>2. i * w + (j + 1) \div 2 = 0
      BY <1>1 DEF ConvertLocals
    <3>3. Rows * (w \div 2) + (Given + 1) \div 2 = 0 /\ Rows * (w \div 2) + Given \div 2 = 0
      BY <1>1, <3>1
    <3>4. is_u = (Given % 2 = 0)
      <4>1. is_u = TRUE /\ 0 % 2 = 0
        BY <1>1 DEF ConvertLocals
      <4>. QED  BY <3>1, <4>1, Zenon
    <3>. QED  BY <1>1, <3>2, <3>3, <3>4 DEF Filled, ConvertLocals
  <2>4. Placed
    BY <1>1 DEF Placed, ConvertLocals
  <2>. QED  BY <2>1, <2>2, <2>3, <2>4 DEF ConvertIInv
<1>2. ASSUME RgbLocals, im_yuv \in [0 .. 2 * Size - 1 -> Byte] \cup {<<>>}
      PROVE  RgbIInv
  <2>1. RgbTypeOK
    BY <1>2, EmptySeq DEF RgbTypeOK, RgbLocals
  <2>2. PairKept /\ ColoursRight
    BY <1>2 DEF PairKept, ColoursRight, RgbLocals
  <2>. QED  BY <1>2, <2>1, <2>2 DEF RgbIInv, RgbLocals
<1>3. CASE ConvertInit /\ NoFrame
  <2>1. /\ w \in Width /\ h \in Height /\ stride \in Stride /\ length \in Nat
        /\ w \in Nat \ {0} /\ h \in Nat \ {0} /\ w % 2 = 0 /\ h % 2 = 0
    BY <1>3 DEF ConvertInit
  <2>2. ConvertIInv
    BY <1>1, <1>3, <2>1 DEF ConvertInit
  <2>3. RgbIInv
    BY <1>2, <1>3 DEF NoFrame
  <2>. QED  BY <2>2, <2>3 DEF IInv
<1>4. CASE NoPicture /\ RgbInit
  <2>1. ConvertIInv
    BY <1>1, <1>4 DEF NoPicture
  <2>2. RgbIInv
    BY <1>2, <1>4 DEF RgbInit
  <2>. QED  BY <2>1, <2>2 DEF IInv
<1>. QED  BY <1>3, <1>4 DEF Init

LEMMA NextIInv ==
  ASSUME IInv, [Next]_vars
  PROVE  IInv'
<1>1. ASSUME UNCHANGED convertVars  PROVE ConvertIInv'
  BY <1>1 DEF IInv, ConvertIInv, ConvertTypeOK, Bounds, Filled, Rows, Given, Placed, LumaAt,
              ChromaAt, convertVars, geometry, planes
<1>2. ASSUME UNCHANGED rgbVars  PROVE RgbIInv'
  <2>1. RgbTypeOK' /\ PairKept' /\ (im_yuv' = <<>> => pixel' = 0)
    BY <1>2 DEF IInv, RgbIInv, RgbTypeOK, PairKept, rgbVars
  <2>2. ColoursRight'
    <3>1. ASSUME NEW p  PROVE Exact(p)' = Exact(p)
      BY <1>2 DEF Exact, rgbVars
    <3>2. \A p \in 0 .. pixel - 1, c \in 1 .. 3 : RightLevel(Exact(p)[c], dst[3 * p + c])
      BY DEF IInv, RgbIInv, ColoursRight, RightLevel
    <3>3. \A p \in 0 .. pixel' - 1, c \in 1 .. 3 : RightLevel((Exact(p)')[c], dst'[3 * p + c])
      BY <1>2, <3>1, <3>2, Zenon DEF rgbVars
    <3>. QED  BY <3>3 DEF ColoursRight, RightLevel
  <2>. QED  BY <2>1, <2>2 DEF RgbIInv
<1>3. CASE ConvertNext /\ UNCHANGED rgbVars
  <2>1. ConvertIInv'
    BY <1>3, LumaIInv, ChromaIInv DEF ConvertNext, IInv
  <2>. QED  BY <1>2, <1>3, <2>1 DEF IInv
<1>4. CASE RgbNext /\ UNCHANGED convertVars
  BY <1>1, <1>4, RgbStep DEF IInv
<1>5. CASE UNCHANGED vars
  BY <1>1, <1>2, <1>5 DEF IInv, vars
<1>. QED  BY <1>3, <1>4, <1>5 DEF Next

(* In every state both loops are where their invariants say. *)
THEOREM Invariance == Spec => []IInv
<1>1. Init => IInv
  BY InitIInv
<1>2. IInv /\ [Next]_vars => IInv'
  BY NextIInv
<1>. QED  BY <1>1, <1>2, PTL DEF Spec

-----------------------------------------------------------------------------
(***************************************************************************)
(* What follows from it.                                                   *)
(***************************************************************************)

(* The variables of both loops keep their types: the loop variables stay   *)
(* in their bounds, every value is a byte, three of them for each pixel.   *)
THEOREM TypeCorrect == Spec => []TypeOK
<1>1. IInv => TypeOK
  BY DEF IInv, ConvertIInv, RgbIInv, TypeOK
<1>. QED  BY <1>1, Invariance, PTL

(* A quarter of the pixels, and the rows of the chroma planes. *)
LEMMA Quarters ==
  ASSUME NEW W \in Nat, NEW H \in Nat
  PROVE  4 * (H * W) = (2 * W) * (2 * H) /\ H * W \in Nat
<1>1. H * W \in Nat
  OBVIOUS
<1>2. 4 * (H * W) = (2 * W) * (2 * H)
  OBVIOUS
<1>. QED  BY <1>1, <1>2

(* When convert() has done the last line, the planes are full. *)
LEMMA Finished ==
  ASSUME ConvertIInv, i = h
  PROVE  Len(y) = w * h /\ 4 * Len(u) = w * h /\ 4 * Len(v) = w * h
<1>. DEFINE W == w \div 2
            H == h \div 2
<1>1. w \in Nat /\ h \in Nat /\ w % 2 = 0 /\ h % 2 = 0 /\ i = h /\ j = 0
  BY DEF ConvertIInv, Bounds
<1>2. W \in Nat /\ H \in Nat /\ w = 2 * W /\ h = 2 * H
  BY <1>1, Halves
<1>3. Rows = H /\ Given = 0
  BY <1>1 DEF Rows, Given
<1>4. Len(y) = h * w + 0 /\ Len(u) = H * W + 0 /\ Len(v) = H * W + 0
  BY <1>1, <1>3 DEF ConvertIInv, Filled
<1>. HIDE DEF W, H
<1>5. h * w \in Nat /\ h * w = w * h
  BY <1>1
<1>6. 4 * (H * W) = w * h /\ H * W \in Nat
  BY <1>2, Quarters
<1>. QED  BY <1>4, <1>5, <1>6

(* convert() writes no plane beyond the bytes that x264_picture_alloc has  *)
(* given it, for any even width and height.                                *)
THEOREM Fit == Spec => []PlanesFit
<1>1. ASSUME ConvertIInv, i = h  PROVE PlanesFit
  <2>1. w * h \in Nat
    BY <1>1 DEF ConvertIInv, Bounds
  <2>. QED  BY <1>1, <2>1, Finished DEF PlanesFit
<1>2. ASSUME ConvertIInv, i < h  PROVE PlanesFit
  <2>. DEFINE W == w \div 2
              H == h \div 2
  <2>1. /\ w \in Nat \ {0} /\ w % 2 = 0 /\ h \in Nat /\ h % 2 = 0
        /\ i \in Nat /\ i < h /\ j \in Nat /\ j < 2 * w
    BY <1>2, Iteration DEF Iterates
  <2>2. W \in Nat /\ H \in Nat /\ w = 2 * W /\ h = 2 * H
    BY <2>1, Halves
  <2>3. /\ Len(y) = i * w + (j + 1) \div 2
        /\ Len(u) = Rows * W + (Given + 1) \div 2
        /\ Len(v) = Rows * W + Given \div 2
    BY <1>2 DEF ConvertIInv, Filled
  <2>. HIDE DEF W, H
  <2>4. Len(y) <= w * h
    <3>1. (j + 1) \div 2 <= w /\ (j + 1) \div 2 \in Nat
      BY <2>1
    <3>2. i * w \in Nat /\ (i + 1) * w = i * w + w
      BY <2>1, Product
    <3>3. (i + 1) * w <= h * w /\ h * w = w * h /\ h * w \in Nat
      BY <2>1, Product
    <3>. QED  BY <2>1, <2>3, <3>1, <3>2, <3>3
  <2>5. /\ Rows \in Nat /\ Given \in Nat
        /\ (Rows < H /\ Given < w) \/ (Rows <= H /\ Given = 0)
    <3>1. CASE i % 2 = 0
      <4>1. Given = j \div 2 /\ Rows = (i + 1) \div 2
        BY <3>1 DEF Rows, Given
      <4>2. Rows \in Nat /\ i = 2 * Rows
        BY <2>1, <3>1, <4>1
      <4>3. Given \in Nat /\ Given < w
        BY <2>1, <4>1
      <4>4. Rows < H
        <5>1. i < h /\ h = 2 * H /\ i = 2 * Rows /\ Rows \in Nat /\ H \in Nat
          BY <2>1, <2>2, <4>2
        <5>. QED  BY <5>1
      <4>. QED  BY <4>2, <4>3, <4>4
    <3>2. CASE i % 2 # 0
      <4>1. Given = 0 /\ Rows = (i + 1) \div 2
        BY <3>2 DEF Rows, Given
      <4>. QED  BY <2>1, <2>2, <3>2, <4>1
    <3>. QED  BY <3>1, <3>2
  <2>6. /\ (Given + 1) \div 2 \in Nat /\ Given \div 2 \in Nat
        /\ Given < w => (Given + 1) \div 2 <= W /\ Given \div 2 <= W
        /\ Given = 0 => (Given + 1) \div 2 = 0 /\ Given \div 2 = 0
    BY <2>2, <2>5
  <2>7. Rows * W \in Nat /\ (Rows + 1) * W = Rows * W + W
    BY <2>2, <2>5, Product
  <2>8. H * W \in Nat /\ 4 * (H * W) = w * h
    BY <2>2, Quarters
  <2>9. Len(u) <= H * W /\ Len(v) <= H * W
    <3>1. CASE Rows < H /\ Given < w
      <4>1. (Rows + 1) * W <= H * W
        <5>1. Rows + 1 \in Nat /\ Rows + 1 <= H
          BY <2>2, <2>5, <3>1
        <5>. QED  BY <2>2, <5>1, Product
      <4>. QED  BY <2>2, <2>3, <2>6, <2>7, <2>8, <3>1, <4>1
    <3>2. CASE Rows <= H /\ Given = 0
      <4>1. Rows * W <= H * W
        BY <2>2, <2>5, <3>2, Product
      <4>. QED  BY <2>3, <2>6, <2>7, <2>8, <3>2, <4>1
    <3>. QED  BY <2>5, <3>1, <3>2
  <2>10. Len(u) \in Nat /\ Len(v) \in Nat
    BY <2>3, <2>6, <2>7
  <2>. QED  BY <2>4, <2>8, <2>9, <2>10 DEF PlanesFit
<1>3. ConvertIInv => i < h \/ i = h
  BY DEF ConvertIInv, ConvertTypeOK, Bounds
<1>4. IInv => PlanesFit
  BY <1>1, <1>2, <1>3 DEF IInv
<1>. QED  BY <1>4, Invariance, PTL

(* convert() reads beyond the end of the frame only if the driver has      *)
(* granted less than the 2 * w * h bytes asked for.                        *)
THEOREM InsideFrame == Spec => []ReadsInside
<1>1. ASSUME ConvertIInv, i < h  PROVE Offset < 2 * w * h /\ Offset \in Nat
  <2>1. /\ w \in Nat /\ h \in Nat /\ i \in Nat /\ i < h /\ j \in Nat /\ j < 2 * w
    BY <1>1, Iteration DEF Iterates
  <2>2. i * w \in Nat /\ (i + 1) * w = i * w + w /\ (i + 1) * w <= h * w
    BY <2>1, Product
  <2>3. 2 * w * h = 2 * (h * w) /\ h * w \in Nat
    BY <2>1
  <2>4. i * w * 2 = 2 * (i * w)
    BY <2>1
  <2>. QED  BY <2>1, <2>2, <2>3, <2>4 DEF Offset
<1>2. ASSUME ConvertIInv, i < h, Offset >= length  PROVE length < 2 * w * h
  <2>1. Offset < 2 * w * h /\ Offset \in Nat
    BY <1>1, <1>2
  <2>2. length \in Nat
    BY <1>2 DEF ConvertIInv, ConvertTypeOK
  <2>3. 2 * w * h \in Nat
    BY <1>2 DEF ConvertIInv, Bounds
  <2>. HIDE DEF Offset
  <2>. QED  BY <1>2, <2>1, <2>2, <2>3
<1>3. IInv => ReadsInside
  BY <1>2 DEF IInv, ReadsInside
<1>. QED  BY <1>3, Invariance, PTL

(* If the driver pads no line, the planes are at each moment a beginning   *)
(* of the I420 picture of the frame, and all of it when convert() returns. *)
THEOREM I420 == Spec => []ConvertsI420
<1>1. ASSUME ConvertIInv, stride = 2 * w, w > 0
      PROVE  /\ y = [n \in 1 .. Len(y) |-> LumaAt(n)]
             /\ u = [n \in 1 .. Len(u) |-> ChromaAt(n, 1)]
             /\ v = [n \in 1 .. Len(v) |-> ChromaAt(n, 3)]
  <2>1. y \in [1 .. Len(y) -> Nat] /\ u \in [1 .. Len(u) -> Nat] /\ v \in [1 .. Len(v) -> Nat]
    BY <1>1, LenProperties DEF ConvertIInv, ConvertTypeOK
  <2>2. /\ \A n \in 1 .. Len(y) : y[n] = LumaAt(n)
        /\ \A n \in 1 .. Len(u) : u[n] = ChromaAt(n, 1)
        /\ \A n \in 1 .. Len(v) : v[n] = ChromaAt(n, 3)
    BY <1>1 DEF ConvertIInv, Placed
  <2>. QED  BY <2>1, <2>2
<1>2. IInv => ConvertsI420
  BY <1>1, Finished DEF IInv, ConvertsI420
<1>. QED  BY <1>2, Invariance, PTL

(* A photo has, in every channel of every pixel, the level of the chroma   *)
(* of the pixel's own pair, save where a channel of -1 or less wraps.      *)
THEOREM Colours == Spec => []ColoursRight
<1>1. IInv => ColoursRight
  BY DEF IInv, RgbIInv
<1>. QED  BY <1>1, Invariance, PTL

=============================================================================
