------------------------------- MODULE Preview -------------------------------
(***************************************************************************)
(* do_preview.c, with the photo path of do_takephoto.c that reads what the *)
(* preview captures.                                                       *)
(*                                                                         *)
(* START_PREVIEW creates a thread that opens the device, sets up the       *)
(* encoder and captures frames in a loop.  STOP_PREVIEW cancels the thread *)
(* named by pid, which from then on runs cleanup() and is never joined.    *)
(* The loop may also end on its own; pthread_cleanup_pop(0) then drops the *)
(* handler without running it.  Neither command looks at what an earlier   *)
(* one left behind.                                                        *)
(*                                                                         *)
(* The variable breach records what the environment of the preview did     *)
(* that the code does not guard against; the properties say which of these *)
(* each kind of fault takes.  It has no counterpart in the code.           *)
(***************************************************************************)
EXTENDS Device, H264

CONSTANTS
  NoThread,   \* a pthread_t that names no thread: the initial -1
  Allowed     \* the obligations the environment may break

(* What the master may do at the wrong time, and where a call may fail.    *)
Misuse  == {"overlap", "early", "nothread", "photo"}
Failure == {"thread", "open", "buffers", "encoder", "capture"}
Breach  == Misuse \cup Failure

ASSUME PreviewAssumption == NoThread \notin Thread /\ Allowed \subseteq Breach

VARIABLES
  pc,         \* where each preview thread is
  cancelled,  \* threads pthread_cancel was called on
  req,        \* the req.count of a thread in init_mmap, else 0
  buf,        \* the buffer a thread in capture_start is about to queue, or in
              \* read_frame has dequeued: its index, and the buffers[] it is in
  pid,        \* the static pid of do_preview.c
  shot,       \* the frame the main thread is turning into a photo, or NULL
  breach      \* history: obligations of the environment broken so far

threadVars == <<pc, cancelled, req, buf>>
mainVars   == <<pid, shot>>
vars == <<processVars, deviceVars, g_h264, threadVars, mainVars, breach>>

SetUp    == {"device_open", "open_error", "device_init", "init_mmap", "reset_count",
             "map_buffers", "h264_begin", "capture_start"}
Loop     == {"select", "dequeue", "copy", "encode", "copy_nals", "send_header",
             "send_payload", "pace", "requeue"}
Cleanup  == {"capture_stop", "h264_end", "device_uninit", "device_close"}
Finished == {"cancelled", "returned"}

Label == {"new"} \cup SetUp \cup Loop \cup Cleanup \cup Finished

Alive(t) == pc[t] \in SetUp \cup Loop \cup Cleanup

NoBuffer == [index |-> 0, array |-> NULL]

TypeOK ==
  /\ ProcessTypeOK /\ DeviceTypeOK /\ h264TypeOK
  /\ pc \in [Thread -> Label]
  /\ cancelled \subseteq Thread
  /\ req \in [Thread -> Nat]
  /\ buf \in [Thread -> [index: Nat, array: Thread \cup {NULL}]]
  /\ pid \in Thread \cup {NoThread}
  /\ shot \in Thread \cup {NULL}
  /\ breach \subseteq Breach

Init ==
  /\ ProcessInit /\ DeviceInit /\ h264Init
  /\ pc = [t \in Thread |-> "new"]
  /\ cancelled = {}
  /\ req = [t \in Thread |-> 0]
  /\ buf = [t \in Thread |-> NoBuffer]
  /\ pid = NoThread
  /\ shot = NULL
  /\ breach = {}

-----------------------------------------------------------------------------
(***************************************************************************)
(* Commands, executed by the main thread one at a time.                    *)
(***************************************************************************)

MainIdle == running /\ shot = NULL

(* pthread_create stores the new id in pid, whatever pid named before.     *)
(* When it fails (EAGAIN: no thread was ever joined) pid is unspecified.   *)
do_preview_start ==
  /\ MainIdle
  /\ \/ \E t \in Thread :
          /\ pc[t] = "new"
          /\ pc' = [pc EXCEPT ![t] = "device_open"]
          /\ pid' = t
          /\ breach' = breach \cup If(\E u \in Thread : Alive(u), "overlap")
     \/ /\ pid' \in {pid, NoThread}
        /\ breach' = breach \cup {"thread"}
        /\ UNCHANGED pc
  /\ UNCHANGED <<processVars, deviceVars, g_h264, cancelled, req, buf, shot>>

(* Mutated: pid is reset before it is used. *)
do_preview_stop_reset ==
  /\ MainIdle
  /\ pid' = NoThread
  /\ UNCHANGED <<processVars, deviceVars, g_h264, threadVars, shot, breach>>

(* pthread_cancel: asynchronous, without a join.  A thread that finished   *)
(* but was never joined is a valid target and ignores the request.         *)
do_preview_stop ==
  /\ MainIdle
  /\ Raise(If(pid = NoThread, "bad_thread"))
  /\ breach' = breach \cup If(pid = NoThread, "nothread")
                     \cup If(\E t \in Thread : t = pid /\ pc[t] \in SetUp, "early")
  /\ cancelled' = cancelled \cup {t \in Thread : t = pid /\ Alive(t)}
  /\ UNCHANGED <<held, deviceVars, g_h264, pc, req, buf, mainVars>>

(* capture_once returns NULL while there is no frame, and do_takephoto     *)
(* reads pframe->frame through the result before it looks at it.           *)
do_takephoto ==
  /\ MainIdle
  /\ Raise(If(gdev.frame = NULL, "null_deref"))
  /\ shot' = gdev.frame
  /\ breach' = breach \cup If(~ \E t \in Thread : pc[t] \in Loop /\ t \notin cancelled,
                              "photo")
  /\ UNCHANGED <<held, deviceVars, g_h264, threadVars, pid>>

(* process_frame converts and stores the frame that shot points to. *)
process_photo ==
  /\ running /\ shot # NULL
  /\ Raise(If(Dangling("frame", shot), "use_after_free"))
  /\ shot' = NULL
  /\ UNCHANGED <<held, deviceVars, g_h264, threadVars, pid, breach>>

Main == do_preview_start \/ do_preview_stop \/ do_takephoto \/ process_photo

-----------------------------------------------------------------------------
(***************************************************************************)
(* The preview thread.                                                     *)
(***************************************************************************)

MustCancel_not_in_loop == {}   \* mutated: the loop has no such point

(* A pending cancellation is acted on in select and send, whatever they    *)
(* would return.  The open of device_open, output on stdout and the usleep *)
(* of process_frame are cancellation points only when they are reached.    *)
MustCancel == {"select", "send_header", "send_payload"}
MayCancel  == {"device_open", "open_error", "h264_begin", "dequeue", "pace"}

At(t, label) ==
  /\ running
  /\ pc[t] = label
  /\ label \in MustCancel => t \notin cancelled

Goto(t, label) == pc' = [pc EXCEPT ![t] = label]

(* A call succeeds, or fails.  The environment is to blame for a failure    *)
(* only when the call could have succeeded.                                *)
Failed(kind, failed) == breach' = breach \cup If(failed, kind)

Branch(t, kind, ok, able, thenLabel, elseLabel) ==
  /\ Goto(t, IF ok THEN thenLabel ELSE elseLabel)
  /\ Failed(kind, ~ok /\ able)

Cancel(t) ==
  /\ running
  /\ t \in cancelled
  /\ pc[t] \in MustCancel \cup MayCancel
  /\ Goto(t, "capture_stop")
  /\ buf' = [buf EXCEPT ![t] = NoBuffer]
  /\ UNCHANGED <<processVars, deviceVars, g_h264, cancelled, req, mainVars, breach>>

Sane == UNCHANGED faults

Open(t) ==
  /\ At(t, "device_open")
  /\ \/ t \notin cancelled
        /\ device_open(t) /\ Goto(t, "device_init") /\ UNCHANGED breach
     \/ \E found \in BOOLEAN :
          /\ found => t \notin cancelled
          /\ device_open_fails(found)
          /\ Goto(t, "open_error") /\ Failed("open", TRUE)
  /\ Sane /\ UNCHANGED <<g_h264, cancelled, req, buf, mainVars>>

(* Printing the error of device_open; preview() goes on with device_init. *)
OpenError(t) ==
  /\ At(t, "open_error")
  /\ Goto(t, "device_init")
  /\ UNCHANGED <<processVars, deviceVars, g_h264, cancelled, req, buf, mainVars, breach>>

Configure(t) ==
  /\ At(t, "device_init")
  /\ \E ok \in BOOLEAN :
       device_init(ok) /\ Branch(t, "buffers", ok, CanConfigure, "init_mmap", "h264_begin")
  /\ Sane /\ UNCHANGED <<g_h264, cancelled, req, buf, mainVars>>

RequestBuffers(t) ==
  /\ At(t, "init_mmap")
  /\ \E answer \in {"granted", "einval", "error"}, count \in Granted \cup {Asked},
        room \in BOOLEAN :
       LET goesOn == answer # "einval" /\ count >= 2 /\ room
           failed == (answer # "granted" /\ CanRequest) \/ count < 2 \/ ~room
       IN  /\ answer = "einval" => room
           /\ request_buffers(t, answer, count, room)
           /\ Goto(t, IF goesOn THEN "reset_count" ELSE "h264_begin")
           /\ req' = [req EXCEPT ![t] = IF goesOn THEN count ELSE 0]
           /\ Failed("buffers", failed)
  /\ Sane /\ UNCHANGED <<g_h264, cancelled, buf, mainVars>>

ResetCount(t) ==
  /\ At(t, "reset_count")
  /\ reset_count
  /\ Goto(t, "map_buffers")
  /\ Sane /\ UNCHANGED <<g_h264, cancelled, req, buf, mainVars, breach>>

MapBuffers(t) ==
  /\ At(t, "map_buffers")
  /\ \/ map_buffer(req[t]) /\ UNCHANGED <<pc, breach>>
     \/ /\ gdev.n_buffers < req[t]          \* VIDIOC_QUERYBUF or mmap fails
        /\ Goto(t, "h264_begin") /\ Failed("buffers", CanMap)
        /\ Sane /\ UNCHANGED <<deviceVars, held>>
     \/ \E ok \in BOOLEAN :
          /\ alloc_frame(t, req[t], ok)
          /\ Goto(t, "h264_begin") /\ Failed("buffers", ~ok)
          /\ Sane
  /\ req' = [req EXCEPT ![t] = IF pc'[t] = "map_buffers" THEN @ ELSE 0]
  /\ UNCHANGED <<g_h264, cancelled, buf, mainVars>>

BeginEncoding(t) ==
  /\ At(t, "h264_begin")
  /\ \E outcome \in {"ok", "open", "picture"} :
       /\ h264_encode_begin(t, outcome)
       /\ Goto(t, "capture_start") /\ Failed("encoder", outcome # "ok")
  /\ Sane /\ UNCHANGED <<deviceVars, cancelled, req, buf, mainVars>>

(* capture_start queues each mapped buffer, then turns the stream on.  It  *)
(* returns on the first failure, and preview() enters the loop all the     *)
(* same.                                                                   *)
StartCapture(t) ==
  /\ At(t, "capture_start")
  /\ LET i == buf[t].index
         queues == i < gdev.n_buffers
     IN  \/ /\ queues /\ enqueue(i)
            /\ buf' = [buf EXCEPT ![t].index = @ + 1]
            /\ UNCHANGED <<pc, breach>>
         \/ /\ \/ ~queues /\ stream_on /\ UNCHANGED breach
               \/ /\ Failed("capture", IF queues THEN CanEnqueue(i) ELSE Owns)
                  /\ UNCHANGED <<deviceVars, held>>
            /\ buf' = [buf EXCEPT ![t] = NoBuffer]
            /\ Goto(t, "select")
  /\ Sane /\ UNCHANGED <<g_h264, cancelled, req, mainVars>>

(* capture_loop: any error and the two seconds' timeout end the loop.      *)
(* FD_SET of the -1 that a failed open or another thread's device_close    *)
(* left writes outside of the fd_set.                                      *)
Select(t) ==
  /\ At(t, "select")
  /\ Raise(If(gdev.fd = NoFd, "bad_fd"))
  /\ \E ready \in BOOLEAN :
       /\ ready => gdev.fd # NoFd
       /\ Branch(t, "capture", ready, CanDequeue, "dequeue", "returned")
  /\ UNCHANGED <<held, deviceVars, g_h264, cancelled, req, buf, mainVars>>

(* Mutated: the loop keeps the descriptor it was started with. *)
Dequeue_own_fd(t) ==
  /\ At(t, "dequeue")
  /\ \/ \E i \in camera.queued :
          /\ Live("fd", t) /\ camera.owner = t /\ camera.streaming
          /\ camera' = [camera EXCEPT !.queued = @ \ {i}]
          /\ buf' = [buf EXCEPT ![t].index = i]
          /\ Goto(t, "copy") /\ UNCHANGED <<gdev, maps, held, breach>>
     \/ /\ Goto(t, "returned") /\ Failed("capture", CanDequeue)
        /\ UNCHANGED <<deviceVars, held, buf>>
  /\ Sane /\ UNCHANGED <<g_h264, cancelled, req, mainVars>>

Dequeue(t) ==
  /\ At(t, "dequeue")
  /\ \/ \E i \in camera.queued :
          /\ dequeue(i)
          /\ buf' = [buf EXCEPT ![t].index = i]
          /\ Goto(t, "copy") /\ UNCHANGED breach
     \/ /\ Goto(t, "returned") /\ Failed("capture", CanDequeue)
        /\ UNCHANGED <<deviceVars, held, buf>>
  /\ Sane /\ UNCHANGED <<g_h264, cancelled, req, mainVars>>

(* The mmap of an element of buffers[] that has one; the others are NULL. *)
Mapped(array, i) == array # NULL /\ i \in maps[array]

(* A fault apart, an element that is not mapped is one calloc left NULL:   *)
(* munmap and the free of the array come together in device_uninit.        *)
Copy(t) ==
  /\ At(t, "copy")
  /\ copy_frame(buf[t].index)
  /\ buf' = [buf EXCEPT ![t].array =
                IF Mapped(gdev.buffers, buf[t].index) THEN gdev.buffers ELSE NULL]
  /\ Goto(t, "encode")
  /\ UNCHANGED <<g_h264, cancelled, req, mainVars, breach>>

(* h264_encode returns at once when the buffer it is given is NULL.  The   *)
(* encoder may also keep the frame for later, or fail: nothing is sent.    *)
Encode(t) ==
  /\ At(t, "encode")
  /\ \/ /\ buf[t].array = NULL
        /\ Goto(t, "pace")
        /\ UNCHANGED <<processVars, g_h264>>
     \/ /\ buf[t].array # NULL
        /\ \E gotFrame \in BOOLEAN :
             /\ h264_encode(t, Mapped(buf[t].array, buf[t].index), gotFrame)
             /\ Goto(t, IF gotFrame THEN "copy_nals" ELSE "pace")
  /\ UNCHANGED <<deviceVars, cancelled, req, buf, mainVars, breach>>

CopyNals(t) ==
  /\ At(t, "copy_nals")
  /\ \E longer \in BOOLEAN : copy_nals(t, longer)
  /\ Goto(t, "send_header")
  /\ UNCHANGED <<deviceVars, cancelled, req, buf, mainVars, breach>>

(* msg_sendto on socket 0; a failed header leaves the payload unsent.      *)
(* Either way h264_encode frees the encoded frame.                         *)
SendHeader(t) ==
  /\ At(t, "send_header")
  /\ \/ Goto(t, "send_payload") /\ UNCHANGED held
     \/ Goto(t, "pace") /\ held' = held \ {<<"pframe", t>>}
  /\ Sane /\ UNCHANGED <<deviceVars, g_h264, cancelled, req, buf, mainVars, breach>>

SendPayload(t) ==
  /\ At(t, "send_payload")
  /\ Goto(t, "pace")
  /\ held' = held \ {<<"pframe", t>>}
  /\ Sane /\ UNCHANGED <<deviceVars, g_h264, cancelled, req, buf, mainVars, breach>>

(* process_frame sleeps up to 25 ms, unless encoding took as long. *)
Pace(t) ==
  /\ At(t, "pace")
  /\ Goto(t, "requeue")
  /\ UNCHANGED <<processVars, deviceVars, g_h264, cancelled, req, buf, mainVars, breach>>

Requeue(t) ==
  /\ At(t, "requeue")
  /\ \/ enqueue(buf[t].index) /\ Goto(t, "select") /\ UNCHANGED breach
     \/ /\ Goto(t, "returned") /\ Failed("capture", CanEnqueue(buf[t].index))
        /\ UNCHANGED <<deviceVars, held>>
  /\ buf' = [buf EXCEPT ![t] = NoBuffer]
  /\ Sane /\ UNCHANGED <<g_h264, cancelled, req, mainVars>>

-----------------------------------------------------------------------------
(***************************************************************************)
(* cleanup(), run by the cancelled thread.                                 *)
(***************************************************************************)

CleanupStep(t, from, to) ==
  /\ At(t, from)
  /\ Goto(t, to)
  /\ UNCHANGED <<cancelled, req, buf, mainVars, breach>>

StopCapture(t) ==
  CleanupStep(t, "capture_stop", "h264_end") /\ capture_stop /\ Sane /\ UNCHANGED g_h264

EndEncoding(t) ==
  CleanupStep(t, "h264_end", "device_uninit") /\ h264_encode_end /\ UNCHANGED deviceVars

Uninit(t) ==
  CleanupStep(t, "device_uninit", "device_close") /\ device_uninit /\ UNCHANGED g_h264

Close(t) ==
  CleanupStep(t, "device_close", "cancelled") /\ device_close /\ Sane /\ UNCHANGED g_h264

Step(t) ==
  /\ \/ Cancel(t)
     \/ Open(t) \/ OpenError(t) \/ Configure(t) \/ RequestBuffers(t) \/ ResetCount(t)
     \/ MapBuffers(t)
     \/ BeginEncoding(t) \/ StartCapture(t)
     \/ Select(t) \/ Dequeue(t) \/ Copy(t) \/ Encode(t) \/ CopyNals(t)
     \/ SendHeader(t) \/ SendPayload(t) \/ Pace(t) \/ Requeue(t)
     \/ StopCapture(t) \/ EndEncoding(t) \/ Uninit(t) \/ Close(t)
  /\ breach' \subseteq Allowed

Next == (Main /\ breach' \subseteq Allowed) \/ \E t \in Thread : Step(t)

Spec == Init /\ [][Next]_vars

(* The kernel runs every runnable thread; nobody has to send a command. *)
FairSpec == Spec /\ \A t \in Thread : WF_vars(Step(t))

-----------------------------------------------------------------------------
(***************************************************************************)
(* Properties.                                                             *)
(***************************************************************************)

(* What it takes to commit each kind of fault: all of one of these sets. A *)
(* STOP that comes before the encoder is up, for instance, breaks          *)
(* h264_encode_end but never the assertion on the buffer index; a capture  *)
(* loop that ends on its own breaks that assertion only if the device file *)
(* is gone, too, when the next preview starts.                             *)
Causes(f) ==
  CASE f = "assert"            -> {{"overlap"}, {"open", "capture"}}
    [] f = "null_deref"        -> {{"overlap"}, {"early"}, {"photo"}, {"open"},
                                   {"buffers"}, {"encoder"}}
    [] f = "unmapped"          -> {{"overlap"}}
    [] f = "overflow"          -> {{"overlap"}}
    [] f = "use_after_free"    -> {{"overlap"}, {"photo"}, {"open"}, {"buffers"},
                                   {"capture"}}
    [] f = "double_free"       -> {{"overlap"}, {"open"}, {"buffers"}, {"capture"}}
    [] f = "bad_fd"            -> {{"overlap"}, {"open"}}
    [] f = "bad_thread"        -> {{"nothread"}}
    [] f = "clean_unallocated" -> {{"overlap"}, {"early"}, {"encoder"}}

(* Every failed assertion and every bad use of memory is preceded by one   *)
(* of its causes: while START and STOP alternate, photos are taken of a    *)
(* running preview and no call fails, the shared gdev and g_h264 are used  *)
(* correctly by capture, encode, cleanup and TAKE_PHOTO in every order the *)
(* scheduler and the cancellation points allow.                            *)
FaultCause == \A f \in faults : \E cause \in Causes(f) : cause \subseteq breach

(* Neither two previews at a time nor a call on the device that fails. *)
Orderly == breach \cap {"overlap", "open", "buffers", "capture"} = {}

NobodyRuns == \A t \in Thread : ~Alive(t)

(* cleanup() undoes all that the set-up did, wherever in the loop STOP     *)
(* caught the thread: between previews no descriptor, mapping, buffer,     *)
(* encoder or picture is left, and the driver's queue is free for the next *)
(* START.  The one thing left is the encoded frame of a thread cancelled   *)
(* inside send, which skips the free(pframe) of h264_encode.               *)
StopReleasesAll ==
  Orderly /\ running /\ NobodyRuns =>
    /\ held \subseteq {"pframe"} \X cancelled
    /\ maps = [t \in Thread |-> {}]
    /\ camera = NoOwner

(* Every buffer the driver granted is in its queue or in the hands of the  *)
(* thread between DQBUF and QBUF, so that capture never starves.           *)
InHand(t) == IF pc[t] \in Loop \ {"select", "dequeue"} THEN {buf[t].index} ELSE {}

BuffersConserved ==
  Orderly /\ running => \A t \in Thread : pc[t] \in Loop =>
    /\ camera.queued \cap InHand(t) = {}
    /\ camera.queued \cup InHand(t) = Indices(camera.count)

(* A loop that ended on its own, pthread_cleanup_pop(0) having dropped the *)
(* handler, leaves its descriptor open and its buffers allocated, and no   *)
(* later START or STOP gives the camera back: device_open has overwritten  *)
(* the one descriptor that cleanup() could close.  Only a STOP that comes  *)
(* before the next device_open has done so would close it.                 *)
SelfEndKeepsCamera ==
  [][\A t \in Thread :
       /\ breach' \cap {"overlap", "open", "early"} = {}
       /\ pc[t] = "returned" /\ camera.owner = t
       => camera'.owner = t]_vars

(* u's descriptor holds the driver's queue and gdev no longer names it.    *)
Stranded(u) == camera.owner = u /\ Live("fd", u) /\ gdev.fd # u

(* Once the descriptor that holds the driver's queue is overwritten, by a  *)
(* START over a running preview for instance, capture is over for good:    *)
(* no preview, the older one no more than the newer one or any that        *)
(* follows, is handed a frame again, whatever STARTs and STOPs come and    *)
(* wherever the threads are just then.                                     *)
OverlapEndsCapture ==
  [][\A u \in Thread : Stranded(u) =>
       /\ Stranded(u)'
       /\ \A t \in Thread : pc[t] = "dequeue" => pc'[t] # "copy"]_vars

(* A preview that was told to stop does stop and gives the camera back:    *)
(* the capture loop cannot run round its cancellation points for ever.     *)
StopCompletes ==
  \A t \in Thread :
    t \in cancelled ~> ~running \/ (pc[t] \in Finished /\ camera.owner # t)

-----------------------------------------------------------------------------
(***************************************************************************)
(* The refinement: while no obligation is broken, START and STOP implement *)
(* the sessions of module Session.                                         *)
(***************************************************************************)

phaseBar ==
  CASE NobodyRuns                                           -> "off"
    [] \E t \in Thread : Alive(t) /\ t \in cancelled        -> "stopping"
    [] \E t \in Thread : pc[t] \in SetUp /\ t \notin cancelled -> "starting"
    [] OTHER                                                -> "on"

deviceBar == IF camera.streaming THEN "streaming"
             ELSE IF camera.owner = NULL THEN "free" ELSE "reserved"

Sessions == INSTANCE Session WITH phase <- phaseBar, device <- deviceBar

(* Sessions start, stream, stop and free the camera one after the other. *)
ImplementsSession == Sessions!Spec

(* No preview is started over another one or stopped before it captures,   *)
(* and the device works.                                                   *)
Undisturbed == Orderly /\ "early" \notin breach

(* That much is enough for the order of the steps: photos of no preview, a *)
(* STOP of none, a thread that is not created and an encoder that does not *)
(* start change nothing about the sessions, unless the slave stops there.  *)
SessionSteps == [][Undisturbed' => [Sessions!Next]_(Sessions!vars)]_vars

-----------------------------------------------------------------------------
(***************************************************************************)
(* What the repository says and the code does not do.                      *)
(***************************************************************************)

(* read_frame's assert (buf.index < pdev->n_buffers), device.c:44: the     *)
(* buffer the driver hands out is always one that init_mmap mapped.        *)
IndexAssertion == "assert" \notin faults

(* "x264_picture_clean: free associated resource for a x264_picture_t      *)
(* allocated with x264_picture_alloc ONLY" (libs/x264/x264.h:852-854).     *)
CleanAllocatedOnly == "clean_unallocated" \notin faults

=============================================================================
