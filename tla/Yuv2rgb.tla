------------------------------- MODULE Yuv2rgb -------------------------------
(***************************************************************************)
(* yuv2rgb() of do_takephoto.c: the current frame becomes the pixels that  *)
(* the JPEG writer reads.                                                  *)
(*                                                                         *)
(* The arithmetic is that of doubles, truncated towards zero when it is    *)
(* assigned to an int and taken modulo 256 when that is assigned to a      *)
(* byte.  Here the numbers are integers, in thousandths.                   *)
(***************************************************************************)
EXTENDS Integers, Sequences

CONSTANTS
  Size,   \* pixels
  Byte    \* the bytes that occur in a frame

ASSUME RgbAssumption ==
  /\ Size \in Nat /\ Size % 2 = 0
  /\ Byte \subseteq 0 .. 255

VARIABLES
  im_yuv,   \* the frame, or <<>> for NULL
  pixel,    \* the loop variable i
  U, V,     \* the chroma of the current pair of pixels
  dst       \* the pixels written so far, three bytes each

rgbVars == <<im_yuv, pixel, U, V, dst>>

RgbTypeOK ==
  /\ im_yuv \in [0 .. 2 * Size - 1 -> Byte] \cup {<<>>}
  /\ pixel \in 0 .. Size
  /\ U \in Byte \cup {0} /\ V \in Byte \cup {0}
  /\ dst \in Seq(0 .. 255) /\ Len(dst) = 3 * pixel

RgbLocals == pixel = 0 /\ U = 0 /\ V = 0 /\ dst = <<>>

RgbInit == im_yuv \in [0 .. 2 * Size - 1 -> Byte] /\ RgbLocals

(* Called without a frame, process_frame returns at once. *)
NoFrame == im_yuv = <<>> /\ RgbLocals

(* Mutated: the chroma of a pair is read at each of its pixels. *)
PairChroma_each ==
  <<im_yuv[2 * pixel + 1], im_yuv[(2 * pixel + 3) % (2 * Size)]>>

PairChroma ==
  IF pixel % 2 = 0 THEN <<im_yuv[2 * pixel + 1], im_yuv[2 * pixel + 3]>> ELSE <<U, V>>

(* B, G and R of luma lum and chroma cu, cv, in thousandths. *)
Channels(lum, cu, cv) ==
  << 1000 * lum + 1773 * (cu - 128),
     1000 * lum - 344 * (cu - 128) - 714 * (cv - 128),
     1000 * lum + 1403 * (cv - 128) >>

(* What the int may be for the exact value x.  A value that is an integer  *)
(* need not be one in doubles: it may be truncated to the next one towards *)
(* zero.                                                                   *)
Truncations(x) ==
  IF x % 1000 # 0 THEN {IF x >= 0 THEN x \div 1000 ELSE -((-x) \div 1000)}
  ELSE LET n == x \div 1000
       IN  {n, IF n > 0 THEN n - 1 ELSE IF n < 0 THEN n + 1 ELSE 0}

ToByte_unclamped(n) == n % 256   \* mutated: the comparison with UCHAR_MAX is forgotten

(* Clamped at UCHAR_MAX, but not at zero, and assigned to a byte. *)
ToByte(n) == (IF n > 255 THEN 255 ELSE n) % 256

(* One iteration of the loop. *)
RgbNext ==
  /\ im_yuv # <<>> /\ pixel < Size
  /\ U' = PairChroma[1] /\ V' = PairChroma[2]
  /\ LET exact == Channels(im_yuv[2 * pixel], U', V')
     IN  \E B \in Truncations(exact[1]), G \in Truncations(exact[2]), R \in Truncations(exact[3]) :
           dst' = dst \o <<ToByte(B), ToByte(G), ToByte(R)>>
  /\ pixel' = pixel + 1
  /\ UNCHANGED im_yuv

-----------------------------------------------------------------------------
(* The colour of pixel p, with the chroma of its own pair. *)
Exact(p) ==
  LET even == p - (p % 2)
  IN  Channels(im_yuv[2 * p], im_yuv[2 * even + 1], im_yuv[2 * even + 3])

Saturated(x) == IF x < 0 THEN 0 ELSE IF x > 255000 THEN 255000 ELSE x

(* Every channel of every pixel is within one of its saturated value,      *)
(* unless that value is 1 or more below zero: then it wraps around, and    *)
(* what should be black shows as a level of 30 or more.  At exactly -1 the *)
(* double decides: it is truncated to 0, which is right, or to -1.         *)
ColoursRight ==
  \A p \in 0 .. pixel - 1, c \in 1 .. 3 :
    LET x == Exact(p)[c]
        level == dst[3 * p + c]
    IN  /\ x > -1000 => 1000 * level - Saturated(x) \in -1000 .. 1000
        /\ x < -1000 => level >= 30
        /\ x = -1000 => level \in {0, 255}

=============================================================================
