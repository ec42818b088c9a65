------------------------------- MODULE Convert -------------------------------
(***************************************************************************)
(* convert() of h264.c: a captured YUYV frame is unpacked into the three   *)
(* planes of the I420 picture that x264 encodes.                           *)
(*                                                                         *)
(* A byte of the frame is represented by its offset, so that a plane is    *)
(* the sequence of the offsets it was filled from.  The driver may grant   *)
(* another geometry than the one asked for: stride bytes per line and      *)
(* length bytes in all, which convert() never learns.                      *)
(***************************************************************************)
EXTENDS Integers, Sequences

CONSTANTS
  Width, Height,   \* what process_frame asks for: PIXEL_WIDTH, PIXEL_HEIGHT
  Stride, Lines    \* what the driver may grant

ASSUME ConvertAssumption ==
  /\ Width \cup Height \subseteq {n \in Nat \ {0} : n % 2 = 0}
  /\ Stride \cup Lines \subseteq Nat \ {0}

VARIABLES
  w, h,             \* the arguments
  stride, length,   \* the granted geometry
  i, j,             \* the loop variables
  is_u,             \* the next chroma byte is a U
  y, u, v           \* the planes; idx_y, idx_u and idx_v are their lengths

geometry == <<w, h, stride, length>>
planes   == <<y, u, v>>
convertVars == <<geometry, i, j, is_u, planes>>

ConvertTypeOK ==
  /\ w \in Width \cup {0} /\ h \in Height \cup {0}
  /\ stride \in Stride \cup {0} /\ length \in Nat
  /\ i \in 0 .. h /\ j \in {0} \cup 0 .. 2 * w - 1
  /\ is_u \in BOOLEAN
  /\ y \in Seq(Nat) /\ u \in Seq(Nat) /\ v \in Seq(Nat)

ConvertLocals ==
  /\ i = 0 /\ j = 0
  /\ is_u = TRUE
  /\ y = <<>> /\ u = <<>> /\ v = <<>>

ConvertInit ==
  /\ w \in Width /\ h \in Height
  /\ stride \in Stride
  /\ \E lines \in Lines : length = stride * lines
  /\ ConvertLocals

(* Called without a picture, convert() returns at once. *)
NoPicture == w = 0 /\ h = 0 /\ stride = 0 /\ length = 0 /\ ConvertLocals

Offset_next == i * w * 2 + j + 1   \* mutated: one too many

(* Where the byte of this iteration is read. *)
Offset == i * w * 2 + j

Luma ==
  /\ j % 2 = 0
  /\ y' = Append(y, Offset)
  /\ UNCHANGED <<is_u, u, v>>

(* Mutated: chroma is taken from every line. *)
Chroma_every_line ==
  /\ j % 2 # 0
  /\ IF is_u THEN u' = Append(u, Offset) /\ UNCHANGED v
             ELSE v' = Append(v, Offset) /\ UNCHANGED u
  /\ is_u' = ~is_u
  /\ UNCHANGED y

(* U and V alternate, without a look at j, and only every other line gives *)
(* its chroma.                                                             *)
Chroma ==
  /\ j % 2 # 0
  /\ IF i % 2 # 0 THEN UNCHANGED <<is_u, u, v>>
     ELSE /\ IF is_u THEN u' = Append(u, Offset) /\ UNCHANGED v
                     ELSE v' = Append(v, Offset) /\ UNCHANGED u
          /\ is_u' = ~is_u
  /\ UNCHANGED y

(* Mutated: a line ends one byte late. *)
Advance_late ==
  IF j < 2 * w THEN j' = j + 1 /\ UNCHANGED i ELSE j' = 0 /\ i' = i + 1

Advance ==
  IF j < 2 * w - 1 THEN j' = j + 1 /\ UNCHANGED i ELSE j' = 0 /\ i' = i + 1

(* One iteration of the inner loop. *)
ConvertNext ==
  /\ i < h
  /\ Luma \/ Chroma
  /\ Advance
  /\ UNCHANGED geometry

-----------------------------------------------------------------------------
(* No plane is written beyond the bytes x264_picture_alloc gives it.       *)
PlanesFit ==
  /\ Len(y) <= w * h
  /\ 4 * Len(u) <= w * h
  /\ 4 * Len(v) <= w * h

(* The frame is read beyond its end only if the driver has granted less    *)
(* than what was asked for: device_init does not look at what VIDIOC_S_FMT *)
(* has made of the format, and the length of the buffer is never compared. *)
ReadsInside == i < h /\ Offset >= length => length < 2 * w * h

(* YUYV against I420: the luma of a pixel, and the chroma of the pair of   *)
(* pixels on the even line that four pixels share.                         *)
LumaAt(n)        == ((n - 1) \div w) * stride + 2 * ((n - 1) % w)
ChromaAt(n, off) == 2 * ((n - 1) \div (w \div 2)) * stride + 4 * ((n - 1) % (w \div 2)) + off

(* The picture shows the frame, if the driver pads no line: at each moment *)
(* the planes are a beginning of the I420 picture, in the end all of it.   *)
(* is_u, which is never set at the start of a line, stays in step.         *)
ConvertsI420 ==
  stride = 2 * w /\ w > 0 =>
    /\ y = [n \in 1 .. Len(y) |-> LumaAt(n)]
    /\ u = [n \in 1 .. Len(u) |-> ChromaAt(n, 1)]
    /\ v = [n \in 1 .. Len(v) |-> ChromaAt(n, 3)]
    /\ i = h => Len(y) = w * h /\ 4 * Len(u) = w * h /\ 4 * Len(v) = w * h

=============================================================================
