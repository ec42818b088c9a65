-------------------------------- MODULE H264 --------------------------------
(***************************************************************************)
(* h264.c: the encoder behind the static g_h264, shared by every preview   *)
(* thread.  libx264 itself is external; what its functions need from their *)
(* caller is what x264.h says.  The pixels of convert() are not modelled   *)
(* here: only the buffers it reads and writes.                             *)
(***************************************************************************)
EXTENDS Process

VARIABLE g_h264   \* the handle x264_encoder_open returned, the picture, and
                  \* the list of NALs, named after the thread whose frame it is

h264TypeOK == g_h264 \in [x264: Thread \cup {NULL}, picture: Thread \cup {NULL},
                          nal: Thread \cup {NULL}]

Zeroed == [x264 |-> NULL, picture |-> NULL, nal |-> NULL]

h264Init == g_h264 = Zeroed

(* x264_encoder_open may fail: the handle is NULL and no picture is        *)
(* allocated.  The result of x264_picture_alloc is not looked at.          *)
h264_encode_begin(t, outcome) ==
  LET opened    == outcome # "open"
      allocated == outcome = "ok"
  IN  /\ g_h264' = [x264    |-> IF opened THEN t ELSE NULL,
                    picture |-> CASE allocated -> t
                                  [] opened /\ ~allocated -> NULL
                                  [] ~opened -> g_h264.picture,
                    nal     |-> g_h264.nal]
      /\ held' = held \cup If(opened, <<"encoder", t>>)
                      \cup If(allocated, <<"picture", t>>)

(* convert() reads the mapped buffer and writes the planes of the picture, *)
(* x264_encoder_encode reads them through the handle and leaves the list   *)
(* of the frame's NALs in g_h264, or NULL when no frame comes out.  The    *)
(* heap block for the frame, if malloc finds one, has the length of all    *)
(* the NALs.                                                               *)
h264_encode(t, sourceMapped, gotFrame) ==
  /\ Raise(If(NULL \in {g_h264.x264, g_h264.picture}, "null_deref")
           \cup If(\/ Dangling("picture", g_h264.picture)
                   \/ Dangling("encoder", g_h264.x264), "use_after_free")
           \cup If(~sourceMapped, "unmapped"))
  /\ held' = held \cup If(gotFrame, <<"pframe", t>>)
  /\ \E list \in (IF gotFrame THEN {t} ELSE {t, NULL}) : g_h264' = [g_h264 EXCEPT !.nal = list]

(* The NALs are copied through g_h264, whatever list it has by now, with   *)
(* the number of this frame's NALs but the lengths found there.            *)
copy_nals(t, longer) ==
  /\ Raise(If(g_h264.nal = NULL, "null_deref")
           \cup If(longer /\ g_h264.nal \notin {t, NULL}, "overflow"))
  /\ UNCHANGED <<held, g_h264>>

(* Mutated: the memset is forgotten. *)
h264_encode_end_without_memset ==
  /\ Raise(If(g_h264.picture = NULL, "clean_unallocated")
           \cup If(g_h264.x264 = NULL, "null_deref")
           \cup If(\/ Dangling("picture", g_h264.picture)
                   \/ Dangling("encoder", g_h264.x264), "double_free"))
  /\ held' = held \ {<<"picture", g_h264.picture>>, <<"encoder", g_h264.x264>>}
  /\ UNCHANGED g_h264

(* The memset at the end leaves no dangling pointer behind.  The guards    *)
(* x264.h asks of the caller are not there: a picture that was never       *)
(* allocated is cleaned, a handle that was never opened is closed.         *)
h264_encode_end ==
  /\ Raise(If(g_h264.picture = NULL, "clean_unallocated")
           \cup If(g_h264.x264 = NULL, "null_deref")
           \cup If(\/ Dangling("picture", g_h264.picture)
                   \/ Dangling("encoder", g_h264.x264), "double_free"))
  /\ held' = held \ {<<"picture", g_h264.picture>>, <<"encoder", g_h264.x264>>}
  /\ g_h264' = Zeroed

=============================================================================
