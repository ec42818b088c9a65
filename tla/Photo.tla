-------------------------------- MODULE Photo --------------------------------
(***************************************************************************)
(* TAKE_PHOTO while a preview runs: do_takephoto.c and jpeg.c, run by the  *)
(* main thread, over the copy of the current frame that the preview thread *)
(* writes anew for every frame it captures (device.c).                     *)
(*                                                                         *)
(* There is no lock: the conversion reads the copy line by line while the  *)
(* memcpy of a later frame writes it.  A line is whatever is copied and    *)
(* converted at once; its content is the number of the frame it is of, 0   *)
(* in the memory that malloc returned.                                     *)
(*                                                                         *)
(* The process may end at any time and be started again; its files stay.   *)
(* Nothing is said about a loss of power, which can undo what was written. *)
(***************************************************************************)
EXTENDS Integers, Sequences

CONSTANTS
  Height,      \* lines of a frame
  MaxFrames,   \* bound on the frames of a process
  MaxPhotos,   \* bound on the photos of a process
  MaxLives     \* bound on how often the process is started

ASSUME PhotoAssumption ==
  /\ Height \in Nat \ {0}
  /\ MaxFrames \in Nat /\ MaxPhotos \in Nat /\ MaxLives \in Nat \ {0}

Line == 1 .. Height

VARIABLES
  current_frame,   \* its lines
  latest,          \* number of the frame that was last dequeued
  uncopied,        \* the lines of it that memcpy has yet to copy
  pc,              \* where the main thread is
  picbuf,          \* the lines converted
  picid,           \* the static picid of do_takephoto.c
  name,            \* the name of the photo that is being written
  files,           \* the photos stored, by name
  since,           \* history: the frame that was complete at TAKE_PHOTO
  life             \* history: how often the process was started

copyVars == <<current_frame, latest, uncopied>>
vars == <<copyVars, pc, picbuf, picid, name, files, since, life>>

(* whole: jpeg_finish_compress has written the end of the file.            *)
File == [lines: Seq(0 .. MaxFrames), whole: BOOLEAN, since: 0 .. MaxFrames,
         life: 1 .. MaxLives]

TypeOK ==
  /\ current_frame \in [Line -> 0 .. MaxFrames]
  /\ latest \in 0 .. MaxFrames /\ uncopied \subseteq Line
  /\ pc \in {"idle", "convert", "scanlines", "exit"}
  /\ picbuf \in Seq(0 .. MaxFrames) /\ Len(picbuf) <= Height
  /\ picid \in 0 .. MaxPhotos /\ name \in 0 .. MaxPhotos
  /\ DOMAIN files \subseteq 0 .. MaxPhotos - 1
  /\ \A n \in DOMAIN files : files[n] \in File
  /\ since \in 0 .. MaxFrames /\ life \in 1 .. MaxLives

NeverWritten == [r \in Line |-> 0]

(* The preview has just allocated the copy. *)
Init ==
  /\ current_frame = NeverWritten /\ latest = 0 /\ uncopied = {}
  /\ pc = "idle" /\ picbuf = <<>>
  /\ picid = 0 /\ name = 0 /\ since = 0
  /\ files = [n \in {} |-> 0] /\ life = 1

-----------------------------------------------------------------------------
(***************************************************************************)
(* The preview thread.                                                     *)
(***************************************************************************)

Copied_but_last == Line \ {Height}   \* mutated: the last line is left out
Copied_one_more == 0 .. Height       \* mutated: more than the copy has room for

Copied == Line   \* current_frame.length is the length of a whole frame

(* The memcpy of read_frame: the lines in any order. *)
Dequeue ==
  /\ pc # "exit"
  /\ uncopied = {} /\ latest < MaxFrames
  /\ latest' = latest + 1
  /\ uncopied' = Copied
  /\ UNCHANGED <<current_frame, pc, picbuf, picid, name, files, since, life>>

CopyLine(r) ==
  /\ pc # "exit"
  /\ r \in uncopied
  /\ current_frame' = [current_frame EXCEPT ![r] = latest]
  /\ uncopied' = uncopied \ {r}
  /\ UNCHANGED <<latest, pc, picbuf, picid, name, files, since, life>>

-----------------------------------------------------------------------------
(***************************************************************************)
(* The main thread.                                                        *)
(***************************************************************************)

(* do_takephoto and the malloc of process_frame, without which nothing     *)
(* happens and the command succeeds all the same.                          *)
do_takephoto ==
  /\ pc = "idle" /\ picid < MaxPhotos
  /\ pc' \in {"convert", "idle"}
  /\ picbuf' = <<>>
  /\ since' = IF uncopied = {} THEN latest ELSE latest - 1
  /\ UNCHANGED <<copyVars, picid, name, files, life>>

ConvertLine ==
  /\ pc = "convert" /\ Len(picbuf) < Height
  /\ picbuf' = Append(picbuf, current_frame[Len(picbuf) + 1])
  /\ UNCHANGED <<copyVars, pc, picid, name, files, since, life>>

Store(n, file) == [k \in DOMAIN files \cup {n} |-> IF k = n THEN file ELSE files[k]]

Named_without_increment == name' = picid /\ UNCHANGED picid   \* mutated

Named == name' = picid /\ picid' = picid + 1

(* jpeg_create up to the first scanline.  fopen truncates a file of that   *)
(* name; when it fails the name is used up and jinfo is not destroyed.     *)
jpeg_create ==
  /\ pc = "convert" /\ Len(picbuf) = Height
  /\ Named
  /\ \/ /\ files' = Store(picid, [lines |-> <<>>, whole |-> FALSE,
                                  since |-> since, life |-> life])
        /\ pc' = "scanlines" /\ UNCHANGED picbuf
     \/ pc' = "idle" /\ picbuf' = <<>> /\ UNCHANGED files
  /\ UNCHANGED <<copyVars, since, life>>

(* The error handler of jpeg_std_error exits the process when a write      *)
(* fails, here or in jpeg_finish_compress.                                 *)
WriteFails ==
  /\ pc = "scanlines"
  /\ pc' = "exit"
  /\ UNCHANGED <<copyVars, picbuf, picid, name, files, since, life>>

jpeg_write_scanlines ==
  /\ pc = "scanlines"
  /\ LET next_scanline == Len(files[name].lines)
     IN  /\ next_scanline < Height
         /\ files' = [files EXCEPT ![name].lines = Append(@, picbuf[next_scanline + 1])]
  /\ UNCHANGED <<copyVars, pc, picbuf, picid, name, since, life>>

jpeg_finish_compress ==
  /\ pc = "scanlines" /\ Len(files[name].lines) = Height
  /\ files' = [files EXCEPT ![name].whole = TRUE]
  /\ pc' = "idle" /\ picbuf' = <<>>
  /\ UNCHANGED <<copyVars, picid, name, since, life>>

(* The process ends, wherever it is, and is started again. *)
Restart ==
  /\ life < MaxLives /\ life' = life + 1
  /\ current_frame' = NeverWritten /\ latest' = 0 /\ uncopied' = {}
  /\ pc' = "idle" /\ picbuf' = <<>>
  /\ picid' = 0 /\ name' = 0 /\ since' = 0
  /\ UNCHANGED files

Next ==
  \/ Dequeue \/ \E r \in Line : CopyLine(r)
  \/ do_takephoto \/ ConvertLine \/ jpeg_create
  \/ jpeg_write_scanlines \/ WriteFails \/ jpeg_finish_compress
  \/ Restart

Spec == Init /\ [][Next]_vars

-----------------------------------------------------------------------------
(***************************************************************************)
(* Properties.                                                             *)
(***************************************************************************)

(* A photo may mix frames, but within bounds: none of its lines is older   *)
(* than the frame that was complete when TAKE_PHOTO was executed, and a    *)
(* lower line, which is converted later, is at most one frame older than   *)
(* an upper one.  Only a photo taken before the first frame was complete   *)
(* can show memory that was never written.                                 *)
PhotoCoherent ==
  \A n \in DOMAIN files : files[n].whole =>
    LET lines == files[n].lines
    IN  /\ Len(lines) = Height
        /\ \A r \in Line : lines[r] >= files[n].since
        /\ \A upper, lower \in Line : upper < lower => lines[upper] <= lines[lower] + 1

(* A photo that was stored whole is not touched again as long as the       *)
(* process lives.  After a restart picid starts from 0, and the first      *)
(* photos of the new process take the place of the old ones.               *)
KeepsPhotos ==
  [][\A n \in DOMAIN files :
       files[n].whole /\ files[n].life = life => files'[n] = files[n]]_vars

=============================================================================
