--------------------------- MODULE PreviewProofs ---------------------------
(***************************************************************************)
(* Proofs about Preview, for every set of threads, every set of buffer     *)
(* counts the driver may grant and every set of allowed breaches.          *)
(***************************************************************************)
EXTENDS Preview, TLAPS

-----------------------------------------------------------------------------
(***************************************************************************)
(* Type correctness.                                                       *)
(***************************************************************************)

USE ThreadAssumption, DeviceAssumption, PreviewAssumption

LEMMA TypeInit == Init => TypeOK
  BY DEF Init, ProcessInit, DeviceInit, h264Init, TypeOK, ProcessTypeOK, DeviceTypeOK,
         h264TypeOK, Zeroed, NoOwner, Label, NoBuffer

(* The commands keep the types. *)
LEMMA MainType ==
  ASSUME TypeOK, Main
  PROVE  TypeOK'
<1>1. CASE do_preview_start
  <2>1. pc' \in [Thread -> Label]
    BY <1>1 DEF do_preview_start, TypeOK,  Label, SetUp
  <2>2. pid' \in Thread \cup {NoThread}
    BY <1>1 DEF do_preview_start, TypeOK
  <2>3. breach' \subseteq Breach
    BY <1>1 DEF do_preview_start, TypeOK, If, Breach, Misuse, Failure
  <2>4. UNCHANGED <<processVars, deviceVars, g_h264, cancelled, req, buf, shot>>
    BY <1>1 DEF do_preview_start
  <2>5. ProcessTypeOK' /\ DeviceTypeOK' /\ h264TypeOK'
    BY <2>4 DEF TypeOK, ProcessTypeOK, DeviceTypeOK, h264TypeOK, processVars, deviceVars
  <2>. QED  BY <2>1, <2>2, <2>3, <2>4, <2>5 DEF TypeOK
<1>2. CASE do_preview_stop
  BY <1>2 DEF do_preview_stop, TypeOK, ProcessTypeOK, DeviceTypeOK, h264TypeOK, If,
              Raise, FaultKind, deviceVars, mainVars, Breach, Misuse
<1>3. CASE do_takephoto
  BY <1>3 DEF do_takephoto, TypeOK, ProcessTypeOK, DeviceTypeOK, h264TypeOK, If,
              Raise, FaultKind, deviceVars, threadVars, Breach, Misuse
<1>4. CASE process_photo
  BY <1>4 DEF process_photo, TypeOK, ProcessTypeOK, DeviceTypeOK, h264TypeOK, If,
              Raise, FaultKind, deviceVars, threadVars
<1>. QED  BY <1>1, <1>2, <1>3, <1>4 DEF Main

(* The operations of device.c keep the device well typed, and so the       *)
(* resources that are held.                                                *)
WellTyped == DeviceTypeOK /\ held \subseteq Resource

Gdev   == [fd: Thread \cup {NoFd, Stdin}, n_buffers: Nat, buffers: Thread \cup {NULL},
           frame: Thread \cup {NULL}, length: {0, 1}]
Camera == [owner: Thread \cup {NULL}, count: Nat, queued: SUBSET Nat, streaming: BOOLEAN]

(* What the operations of the device change, in its parts. *)
LEMMA WellTypedParts ==
  /\ WellTyped <=> /\ gdev \in Gdev /\ camera \in Camera
                   /\ maps \in [Thread -> SUBSET Nat] /\ held \subseteq Resource
  /\ WellTyped' <=> /\ gdev' \in Gdev /\ camera' \in Camera
                    /\ maps' \in [Thread -> SUBSET Nat] /\ held' \subseteq Resource
  BY DEF WellTyped, DeviceTypeOK, Gdev, Camera

LEMMA SettleType ==
  ASSUME camera \in Camera, NEW resources, NEW mappings, Settle(resources, mappings)
  PROVE  camera' \in Camera
  BY DEF Settle, NoOwner, Camera

LEMMA DeviceOpsType ==
  ASSUME WellTyped, NEW t \in Thread, NEW ok \in BOOLEAN, NEW count \in Nat, NEW i \in Nat,
         NEW answer,
         \/ device_open(t) \/ device_open_fails(ok) \/ device_init(ok)
         \/ request_buffers(t, answer, count, ok) \/ map_buffer(count)
         \/ alloc_frame(t, count, ok) \/ reset_count \/ stream_on \/ capture_stop
         \/ dequeue(i) \/ enqueue(i) \/ device_uninit \/ device_close
  PROVE  WellTyped'
<1>0. /\ gdev \in Gdev /\ camera \in Camera
      /\ maps \in [Thread -> SUBSET Nat] /\ held \subseteq Resource
  BY WellTypedParts
<1>. SUFFICES /\ gdev' \in Gdev /\ camera' \in Camera
              /\ maps' \in [Thread -> SUBSET Nat] /\ held' \subseteq Resource
  BY WellTypedParts
<1>1. CASE device_open(t) \/ device_open_fails(ok) \/ device_init(ok)
  BY <1>0, <1>1 DEF device_open, device_open_fails, device_init, Gdev, Resource, Kind
<1>2. CASE request_buffers(t, answer, count, ok)
  <2>1. gdev' \in Gdev
    <3>1. \/ gdev' = gdev
          \/ gdev' = [gdev EXCEPT !.buffers = t]
          \/ gdev' = [gdev EXCEPT !.buffers = NULL]
      BY <1>0, <1>2 DEF request_buffers
    <3>2. [gdev EXCEPT !.buffers = t] \in Gdev
      BY <1>0 DEF Gdev
    <3>3. [gdev EXCEPT !.buffers = NULL] \in Gdev
      BY <1>0 DEF Gdev
    <3>. QED  BY <1>0, <3>1, <3>2, <3>3
  <2>2. camera' \in Camera
    BY <1>0, <1>2 DEF request_buffers, Camera, Gdev, NoOwner, CanRequest, CanConfigure, FdOpen,
                Owns
  <2>3. held' \subseteq Resource /\ UNCHANGED maps
    BY <1>0, <1>2 DEF request_buffers, Resource, Kind
  <2>. QED  BY <1>0, <2>1, <2>2, <2>3
<1>3. CASE map_buffer(count)
  <2>1. gdev' \in Gdev
    BY <1>0, <1>3 DEF map_buffer, Gdev
  <2>2. maps' \in [Thread -> SUBSET Nat]
    BY <1>0, <1>3 DEF map_buffer, Gdev
  <2>. QED  BY <1>0, <1>3, <2>1, <2>2 DEF map_buffer
<1>4. CASE alloc_frame(t, count, ok)
  <2>1. gdev' \in Gdev
    BY <1>0, <1>4 DEF alloc_frame, Gdev
  <2>2. held' \subseteq Resource
    BY <1>0, <1>4 DEF alloc_frame, Resource, Kind
  <2>. QED  BY <1>0, <1>4, <2>1, <2>2 DEF alloc_frame
<1>5. CASE reset_count \/ stream_on
  <2>1. [gdev EXCEPT !.n_buffers = 0] \in Gdev /\ [camera EXCEPT !.streaming = TRUE] \in Camera
    BY <1>0 DEF Gdev, Camera
  <2>. QED  BY <1>0, <1>5, <2>1 DEF reset_count, stream_on
<1>6. CASE capture_stop \/ dequeue(i) \/ enqueue(i)
  <2>1. \/ camera' = camera
        \/ camera' = [camera EXCEPT !.queued = {}, !.streaming = FALSE]
        \/ camera' = [camera EXCEPT !.queued = @ \ {i}]
        \/ camera' = [camera EXCEPT !.queued = @ \cup {i}]
    BY <1>0, <1>6 DEF capture_stop, dequeue, enqueue
  <2>2. camera' \in Camera
    <3>2. [camera EXCEPT !.queued = {}, !.streaming = FALSE] \in Camera
      BY <1>0 DEF Camera
    <3>3. camera.queued \ {i} \in SUBSET Nat /\ camera.queued \cup {i} \in SUBSET Nat
      BY <1>0 DEF Camera
    <3>4. [camera EXCEPT !.queued = @ \ {i}] \in Camera
      BY <1>0, <3>3 DEF Camera
    <3>5. [camera EXCEPT !.queued = @ \cup {i}] \in Camera
      BY <1>0, <3>3 DEF Camera
    <3>. QED  BY <1>0, <2>1, <3>2, <3>4, <3>5
  <2>. QED  BY <1>0, <1>6, <2>2 DEF capture_stop, dequeue, enqueue
<1>7. CASE device_uninit
  <2>1. gdev' \in Gdev /\ held' \subseteq Resource
    <3>1. [gdev EXCEPT !.length = 0] \in Gdev
      BY <1>0 DEF Gdev
    <3>. QED  BY <1>0, <1>7, <3>1 DEF device_uninit
  <2>2. camera' \in Camera
    BY <1>0, <1>7, SettleType DEF device_uninit
  <2>3. maps' \in [Thread -> SUBSET Nat]
    BY <1>0, <1>7 DEF device_uninit, munmap_buffers, Gdev
  <2>. QED  BY <1>0, <1>7, <2>1, <2>2, <2>3 DEF device_uninit
<1>8. CASE device_close
  BY <1>0, <1>8, SettleType DEF device_close, Gdev
<1>. QED  BY <1>1, <1>2, <1>3, <1>4, <1>5, <1>6, <1>7, <1>8

(* A step of a thread moves it to a label, and records breaches. *)
LEMMA StepControlType ==
  ASSUME TypeOK, NEW t \in Thread, Step(t)
  PROVE  /\ pc' \in [Thread -> Label]
         /\ breach' \subseteq Breach
         /\ UNCHANGED <<cancelled, pid, shot>>
<1>1. pc' = pc \/ \E label \in Label : Goto(t, label)
  <2>. USE DEF Branch, CleanupStep, Label, SetUp, Loop, Cleanup, Finished
  <2>1. CASE Cancel(t) \/ OpenError(t) \/ Select(t) \/ Pace(t)
    BY <2>1 DEF Cancel, OpenError, Select, Pace
  <2>2. CASE Open(t) \/ Configure(t) \/ RequestBuffers(t) \/ ResetCount(t)
                \/ MapBuffers(t)
    BY <2>2 DEF Open, Configure, RequestBuffers, ResetCount, MapBuffers
  <2>3. CASE BeginEncoding(t) \/ StartCapture(t) \/ Dequeue(t) \/ Copy(t) \/ Encode(t)
            \/ CopyNals(t)
    BY <2>3 DEF BeginEncoding, StartCapture, Dequeue, Copy, Encode, CopyNals
  <2>4. CASE SendHeader(t) \/ SendPayload(t) \/ Requeue(t)
    BY <2>4 DEF SendHeader, SendPayload, Requeue
  <2>5. CASE StopCapture(t) \/ EndEncoding(t) \/ Uninit(t) \/ Close(t)
    BY <2>5 DEF StopCapture, EndEncoding, Uninit, Close
  <2>. QED  BY <2>1, <2>2, <2>3, <2>4, <2>5 DEF Step
<1>2. breach' \subseteq Breach
  BY PreviewAssumption DEF Step
<1>3. UNCHANGED <<cancelled, pid, shot>>
  <2>1. CASE Cancel(t) \/ OpenError(t) \/ Select(t) \/ Pace(t)
    BY <2>1 DEF Cancel, OpenError, Select, Pace, mainVars
  <2>2. CASE Open(t) \/ Configure(t) \/ RequestBuffers(t) \/ ResetCount(t)
                \/ MapBuffers(t)
    BY <2>2 DEF Open, Configure, RequestBuffers, ResetCount, MapBuffers, mainVars
  <2>3. CASE BeginEncoding(t) \/ StartCapture(t) \/ Dequeue(t) \/ Copy(t) \/ Encode(t)
            \/ CopyNals(t)
    BY <2>3 DEF BeginEncoding, StartCapture, Dequeue, Copy, Encode, CopyNals, mainVars
  <2>4. CASE SendHeader(t) \/ SendPayload(t) \/ Requeue(t)
    BY <2>4 DEF SendHeader, SendPayload, Requeue, mainVars
  <2>5. CASE StopCapture(t) \/ EndEncoding(t) \/ Uninit(t) \/ Close(t)
    BY <2>5 DEF StopCapture, EndEncoding, Uninit, Close, CleanupStep, mainVars
  <2>. QED  BY <2>1, <2>2, <2>3, <2>4, <2>5 DEF Step
<1>. QED  BY <1>1, <1>2, <1>3 DEF TypeOK, Goto

(* The operations of h264.c keep the encoder well typed. *)
(* A step of a thread moves that thread alone, and leaves the buffers the  *)
(* others have at hand.                                                    *)
LEMMA StepGoes ==
  ASSUME TypeOK, NEW t \in Thread, Step(t)
  PROVE  /\ pc' = [pc EXCEPT ![t] = pc'[t]]
         /\ buf' = [buf EXCEPT ![t] = buf'[t]]
<1>. USE DEF TypeOK, Goto
<1>1. CASE Cancel(t) \/ OpenError(t) \/ Open(t) \/ Configure(t) \/ RequestBuffers(t)
          \/ ResetCount(t) \/ MapBuffers(t) \/ BeginEncoding(t) \/ StartCapture(t)
  BY <1>1 DEF Cancel, OpenError, Open, Configure, RequestBuffers, ResetCount, MapBuffers,
     BeginEncoding, StartCapture, Branch
<1>2. CASE Select(t) \/ Dequeue(t) \/ Copy(t) \/ Encode(t) \/ CopyNals(t)
          \/ SendHeader(t) \/ SendPayload(t) \/ Pace(t) \/ Requeue(t)
  BY <1>2 DEF Select, Dequeue, Copy, Encode, CopyNals, SendHeader, SendPayload, Pace, Requeue,
     Branch
<1>3. CASE StopCapture(t) \/ EndEncoding(t) \/ Uninit(t) \/ Close(t)
  BY <1>3 DEF StopCapture, EndEncoding, Uninit, Close, CleanupStep
<1>. QED  BY <1>1, <1>2, <1>3 DEF Step

LEMMA EncoderOpsType ==
  ASSUME h264TypeOK, held \subseteq Resource, NEW t \in Thread,
         NEW outcome, NEW mapped, NEW gotFrame, NEW longer,
         \/ h264_encode_begin(t, outcome) \/ h264_encode(t, mapped, gotFrame)
         \/ copy_nals(t, longer) \/ h264_encode_end
  PROVE  h264TypeOK' /\ held' \subseteq Resource
<1>. USE DEF h264TypeOK, Resource, Kind, If
<1>1. CASE h264_encode_begin(t, outcome)
  BY <1>1 DEF h264_encode_begin
<1>2. CASE h264_encode(t, mapped, gotFrame)
  BY <1>2 DEF h264_encode
<1>3. CASE h264_encode_end
  BY <1>3 DEF h264_encode_end, Zeroed
<1>4. CASE copy_nals(t, longer)
  BY <1>4 DEF copy_nals
<1>. QED  BY <1>1, <1>2, <1>3, <1>4

(* So a step of a preview keeps the types: of what is shared, and of the   *)
(* thread's own.                                                           *)
LEMMA StepDataType ==
  ASSUME TypeOK, NEW t \in Thread, Step(t)
  PROVE  WellTyped' /\ h264TypeOK'
<1>0. WellTyped /\ h264TypeOK /\ held \subseteq Resource
  BY DEF TypeOK, WellTyped, ProcessTypeOK
<1>1. ASSUME UNCHANGED <<deviceVars, held, g_h264>>
      PROVE  WellTyped' /\ h264TypeOK'
  BY <1>0, <1>1 DEF WellTyped, DeviceTypeOK, h264TypeOK, deviceVars
<1>2. CASE Cancel(t) \/ OpenError(t) \/ Select(t) \/ Pace(t) \/ Copy(t)
  BY <1>1, <1>2 DEF Cancel, OpenError, Select, Pace, Copy, copy_frame, processVars
<1>3. CASE Open(t) \/ ResetCount(t) \/ StopCapture(t) \/ Uninit(t) \/ Close(t)
  <2>1. /\ \/ device_open(t) \/ device_open_fails(TRUE) \/ device_open_fails(FALSE)
           \/ reset_count \/ capture_stop \/ device_uninit \/ device_close
        /\ UNCHANGED g_h264
    BY <1>3 DEF Open, ResetCount, StopCapture, Uninit, Close
  <2>2. WellTyped'
    BY <1>0, <2>1, DeviceOpsType
  <2>. QED  BY <1>0, <2>1, <2>2 DEF h264TypeOK
<1>4. CASE Configure(t)
  <2>1. PICK ok \in BOOLEAN : device_init(ok)
    BY <1>4 DEF Configure
  <2>2. WellTyped'
    BY <1>0, <2>1, DeviceOpsType
  <2>. QED  BY <1>0, <1>4, <2>2 DEF Configure, h264TypeOK
<1>5. CASE RequestBuffers(t)
  <2>1. PICK answer \in {"granted", "einval", "error"}, count \in Granted \cup {Asked},
             room \in BOOLEAN : request_buffers(t, answer, count, room)
    BY <1>5 DEF RequestBuffers
  <2>2. count \in Nat
    BY DeviceAssumption DEF Asked
  <2>3. WellTyped'
    BY <1>0, <2>1, <2>2, DeviceOpsType
  <2>. QED  BY <1>0, <1>5, <2>3 DEF RequestBuffers, h264TypeOK
<1>6. CASE MapBuffers(t)
  <2>1. req[t] \in Nat
    BY DEF TypeOK
  <2>2. \/ map_buffer(req[t])
        \/ UNCHANGED <<deviceVars, held>>
        \/ \E ok \in BOOLEAN : alloc_frame(t, req[t], ok)
    BY <1>6 DEF MapBuffers
  <2>3. UNCHANGED g_h264
    BY <1>6 DEF MapBuffers
  <2>4. ASSUME map_buffer(req[t]) PROVE WellTyped'
    BY <1>0, <2>1, <2>4, DeviceOpsType
  <2>5. ASSUME NEW ok \in BOOLEAN, alloc_frame(t, req[t], ok) PROVE WellTyped'
    BY <1>0, <2>1, <2>5, DeviceOpsType
  <2>. QED  BY <1>0, <1>1, <2>2, <2>3, <2>4, <2>5 DEF h264TypeOK
<1>7. CASE BeginEncoding(t) \/ Encode(t) \/ CopyNals(t) \/ EndEncoding(t)
  <2>1. UNCHANGED deviceVars
    BY <1>7 DEF BeginEncoding, Encode, CopyNals, EndEncoding
  <2>2. \/ UNCHANGED <<held, g_h264>>
        \/ \E outcome : h264_encode_begin(t, outcome)
        \/ \E mapped, gotFrame : h264_encode(t, mapped, gotFrame)
        \/ h264_encode_end
    <3>1. CASE BeginEncoding(t)
      BY <3>1 DEF BeginEncoding
    <3>2. CASE Encode(t)
      BY <3>2 DEF Encode, processVars
    <3>3. CASE EndEncoding(t)
      BY <3>3 DEF EndEncoding
    <3>4. CASE CopyNals(t)
      BY <3>4 DEF CopyNals, copy_nals
    <3>. QED  BY <1>7, <3>1, <3>2, <3>3, <3>4
  <2>3. h264TypeOK' /\ held' \subseteq Resource
    BY <1>0, <2>2, EncoderOpsType DEF h264TypeOK
  <2>. QED  BY <1>0, <2>1, <2>3 DEF WellTyped, DeviceTypeOK, deviceVars
<1>8. CASE StartCapture(t)
  <2>1. /\ UNCHANGED <<deviceVars, held>> \/ stream_on \/ enqueue(buf[t].index)
        /\ UNCHANGED g_h264
    BY <1>8 DEF StartCapture, enqueue, stream_on, deviceVars
  <2>2. buf[t].index \in Nat
    BY DEF TypeOK
  <2>3. stream_on \/ enqueue(buf[t].index) => WellTyped'
    BY <1>0, <2>2, DeviceOpsType
  <2>. QED  BY <1>0, <1>1, <2>1, <2>3 DEF h264TypeOK
<1>9. CASE Dequeue(t) \/ Requeue(t)
  <2>1. /\ UNCHANGED <<deviceVars, held>> \/ \E i \in Nat : dequeue(i) \/ enqueue(i)
        /\ UNCHANGED g_h264
    BY <1>9 DEF Dequeue, Requeue, TypeOK, DeviceTypeOK
  <2>2. ASSUME NEW i \in Nat, dequeue(i) \/ enqueue(i) PROVE WellTyped'
    BY <1>0, <2>2, DeviceOpsType
  <2>. QED  BY <1>0, <1>1, <2>1, <2>2 DEF h264TypeOK
<1>10. CASE SendHeader(t) \/ SendPayload(t)
  <2>1. UNCHANGED <<deviceVars, g_h264>> /\ held' \subseteq held
    BY <1>10 DEF SendHeader, SendPayload
  <2>. QED  BY <1>0, <2>1 DEF WellTyped, DeviceTypeOK, h264TypeOK, deviceVars
<1>. QED  BY <1>2, <1>3, <1>4, <1>5, <1>6, <1>7, <1>8, <1>9, <1>10 DEF Step

LEMMA StepLocalType ==
  ASSUME TypeOK, NEW t \in Thread, Step(t)
  PROVE  /\ faults' \subseteq FaultKind
         /\ req' \in [Thread -> Nat]
         /\ buf' \in [Thread -> [index: Nat, array: Thread \cup {NULL}]]
<1>0. /\ faults \subseteq FaultKind
      /\ req \in [Thread -> Nat]
      /\ buf \in [Thread -> [index: Nat, array: Thread \cup {NULL}]]
  BY DEF TypeOK, ProcessTypeOK
<1>1. CASE Cancel(t) \/ OpenError(t) \/ Pace(t) \/ Open(t) \/ Configure(t)
           \/ ResetCount(t)
  <2>1. UNCHANGED <<faults, req>>
    BY <1>1 DEF Cancel, OpenError, Pace, Open, Configure, ResetCount, Sane, processVars
  <2>2. buf' = buf \/ buf' = [buf EXCEPT ![t] = NoBuffer]
    BY <1>1 DEF Cancel, OpenError, Pace, Open, Configure, ResetCount
  <2>. QED  BY <1>0, <2>1, <2>2 DEF NoBuffer
<1>2. CASE RequestBuffers(t)
  <2>1. Granted \cup {Asked} \subseteq Nat
    BY DeviceAssumption DEF Asked
  <2>. QED  BY <1>0, <1>2, <2>1 DEF RequestBuffers, Sane
<1>3. CASE MapBuffers(t)
  <2>1. UNCHANGED buf
    BY <1>3 DEF MapBuffers
  <2>2. req' \in [Thread -> Nat]
    BY <1>0, <1>3 DEF MapBuffers
  <2>3. faults' \subseteq FaultKind
    BY <1>0, <1>3 DEF MapBuffers, map_buffer, Raise, If, FaultKind, Sane
  <2>. QED  BY <1>0, <2>1, <2>2, <2>3
<1>4. CASE BeginEncoding(t) \/ StartCapture(t) \/ Select(t) \/ SendHeader(t) \/ SendPayload(t)
  BY <1>0, <1>4 DEF BeginEncoding, StartCapture, Select, SendHeader, SendPayload, Sane, NoBuffer,
                    Raise, If, FaultKind
<1>5. CASE Dequeue(t)
  BY <1>0, <1>5 DEF Dequeue, Sane, TypeOK, DeviceTypeOK
<1>6. CASE Copy(t)
  <2>1. gdev.buffers \in Thread \cup {NULL}
    BY DEF TypeOK, DeviceTypeOK
  <2>. QED  BY <1>0, <1>6, <2>1 DEF Copy, copy_frame, Raise, If, FaultKind
<1>7. CASE Encode(t) \/ CopyNals(t)
  BY <1>0, <1>7 DEF Encode, CopyNals, h264_encode, copy_nals, Raise, If, FaultKind, processVars
<1>8. CASE Requeue(t)
  BY <1>0, <1>8 DEF Requeue, Sane, NoBuffer
<1>9. CASE StopCapture(t) \/ EndEncoding(t) \/ Uninit(t) \/ Close(t)
  BY <1>0, <1>9 DEF StopCapture, EndEncoding, Uninit, Close, CleanupStep, Sane, Raise, If,
                    h264_encode_end, device_uninit, FaultKind
<1>. QED  BY <1>1, <1>2, <1>3, <1>4, <1>5, <1>6, <1>7, <1>8, <1>9 DEF Step

LEMMA NextType == TypeOK /\ [Next]_vars => TypeOK'
<1>. SUFFICES ASSUME TypeOK, [Next]_vars PROVE TypeOK'
  OBVIOUS
<1>1. CASE Main
  BY <1>1, MainType
<1>2. ASSUME NEW t \in Thread, Step(t) PROVE TypeOK'
  <2>1. /\ pc' \in [Thread -> Label] /\ breach' \subseteq Breach
        /\ UNCHANGED <<cancelled, pid, shot>>
    BY <1>2, StepControlType
  <2>2. /\ faults' \subseteq FaultKind
        /\ req' \in [Thread -> Nat]
        /\ buf' \in [Thread -> [index: Nat, array: Thread \cup {NULL}]]
    BY <1>2, StepLocalType
  <2>3. WellTyped' /\ h264TypeOK'
    BY <1>2, StepDataType
  <2>. QED  BY <2>1, <2>2, <2>3 DEF TypeOK, WellTyped, ProcessTypeOK
<1>3. CASE UNCHANGED vars
  BY <1>3 DEF vars, processVars, deviceVars, threadVars, mainVars, TypeOK, ProcessTypeOK,
              DeviceTypeOK, h264TypeOK
<1>. QED  BY <1>1, <1>2, <1>3 DEF Next

(* Every variable keeps its type: in particular a pointer of gdev or       *)
(* g_h264 is NULL or names a thread's allocation, and pid names a thread   *)
(* or none, whatever the order of commands, threads and failures.          *)
THEOREM TypeCorrect == Spec => []TypeOK
<1>1. Init => TypeOK
  BY TypeInit
<1>2. TypeOK /\ [Next]_vars => TypeOK'
  BY NextType
<1>. QED  BY <1>1, <1>2, PTL DEF Spec

-----------------------------------------------------------------------------
(***************************************************************************)
(* The inductive invariant.                                                *)
(*                                                                         *)
(* While Orderly holds and no fault was committed, at most one preview is  *)
(* alive, and its pc determines what is held, what gdev and g_h264 point   *)
(* to and what the driver has, except in the cleanup after a STOP that     *)
(* came too early, where only "no encoder" is known: h264_encode_end is    *)
(* about to fail.  An encoder that did not start leaves the device as it   *)
(* should be.  While no preview is alive, nothing is held.                 *)
(***************************************************************************)

(* What is held, apart from encoded frames. *)
Assets == Kind \ {"pframe"}

Holds(kinds, t) == \A kind \in Assets, u \in Thread :
  Live(kind, u) <=> kind \in kinds /\ u = t

HoldsNothing == \A kind \in Assets, u \in Thread : ~Live(kind, u)

MappedBy(t, indices) == \A u \in Thread : maps[u] = IF u = t THEN indices ELSE {}

NoMaps    == \A u \in Thread : maps[u] = {}
NoEncoder == g_h264 = Zeroed
EncoderOf(t) == g_h264.x264 = t /\ g_h264.picture = t /\ g_h264.nal \in {t, NULL}

Closed == HoldsNothing /\ NoMaps /\ camera = NoOwner /\ NoEncoder

Opened(t) == Holds({"fd"}, t) /\ NoMaps /\ camera = NoOwner /\ NoEncoder /\ gdev.fd = t

Idle == ~camera.streaming /\ camera.queued = {}

Requested(t) == /\ gdev.fd = t /\ gdev.buffers = t /\ camera.owner = t
                /\ camera.count >= 2

Buffers(t) == Requested(t) /\ MappedBy(t, Indices(gdev.n_buffers))

Ready(t) == Buffers(t) /\ gdev.frame = t /\ gdev.n_buffers = camera.count

Encoding(t) == EncoderOf(t) /\ Holds({"fd", "buffers", "frame", "encoder", "picture"}, t)

(* x264_encoder_open or x264_picture_alloc has failed: the first frame, or *)
(* h264_encode_end, is going to fault.                                     *)
EncoderFailed(t) == /\ "encoder" \in breach
                    /\ g_h264.picture = NULL
                    /\ \/ g_h264.x264 = NULL /\ Holds({"fd", "buffers", "frame"}, t)
                       \/ g_h264.x264 = t /\ Holds({"fd", "buffers", "frame", "encoder"}, t)

Capturing(t) == Ready(t) /\ (Encoding(t) \/ EncoderFailed(t))

TooEarly == "early" \in breach /\ NoEncoder

Shape(t) ==
  /\ pc[t] # "open_error"
  /\ pc[t] = "device_open" => Closed
  /\ pc[t] = "device_init" => Opened(t)
  /\ pc[t] = "init_mmap" => Opened(t)
  /\ pc[t] = "reset_count" =>
       /\ Holds({"fd", "buffers"}, t) /\ NoEncoder /\ Requested(t) /\ NoMaps /\ Idle
       /\ req[t] = camera.count
  /\ pc[t] = "map_buffers" =>
       /\ Holds({"fd", "buffers"}, t) /\ NoEncoder /\ Buffers(t) /\ Idle
       /\ req[t] = camera.count /\ gdev.n_buffers <= req[t]
  /\ pc[t] = "h264_begin" =>
       Holds({"fd", "buffers", "frame"}, t) /\ NoEncoder /\ Ready(t) /\ Idle
  /\ pc[t] = "capture_start" =>
       /\ Capturing(t) /\ ~camera.streaming
       /\ buf[t].index <= camera.count /\ camera.queued = Indices(buf[t].index)
  /\ pc[t] \in Loop => Capturing(t) /\ camera.streaming
  /\ pc[t] \in {"select", "dequeue"} => camera.queued = Indices(camera.count)
  /\ pc[t] \in Loop \ {"select", "dequeue"} =>
       /\ buf[t].index \in Indices(camera.count)
       /\ camera.queued = Indices(camera.count) \ {buf[t].index}
  /\ pc[t] = "encode" => buf[t].array = t
  /\ pc[t] = "copy_nals" => g_h264.nal = t
  /\ pc[t] = "capture_stop" => Capturing(t) \/ TooEarly
  /\ pc[t] = "h264_end" => (Capturing(t) /\ Idle) \/ TooEarly
  /\ pc[t] = "device_uninit" =>
       Holds({"fd", "buffers", "frame"}, t) /\ NoEncoder /\ Ready(t) /\ Idle
  /\ pc[t] = "device_close" =>
       /\ Holds({"fd"}, t) /\ NoEncoder /\ NoMaps /\ Idle
       /\ gdev.fd = t /\ camera.owner = t

(* Until capture_start no thread has a buffer at hand. *)
NoneAtHand == \A t \in Thread :
  pc[t] \in {"new"} \cup (SetUp \ {"capture_start"}) => buf[t] = NoBuffer

OneAlive == \A t, u \in Thread : Alive(t) /\ Alive(u) => t = u

CancelledThreads == \A t \in cancelled :
  pc[t] # "new" /\ (pc[t] \in SetUp => "early" \in breach)

FramesHeld == \A t \in Thread :
  <<"pframe", t>> \in held =>
    t \in cancelled \/ pc[t] \in {"copy_nals", "send_header", "send_payload"}

ShotLive == shot # NULL /\ "photo" \notin breach =>
  pc[shot] \in Loop /\ shot \notin cancelled

Shaped ==
  /\ OneAlive
  /\ NobodyRuns => Closed
  /\ \A t \in Thread : Alive(t) => Shape(t)
  /\ CancelledThreads
  /\ FramesHeld
  /\ ShotLive

IInv ==
  /\ TypeOK
  /\ NoneAtHand
  /\ Orderly => FaultCause
  /\ Orderly /\ running => Shaped

(* Whatever has become of the encoder, the device is there. *)
LEMMA CapturingHolds ==
  ASSUME NEW t \in Thread, Capturing(t)
  PROVE  Ready(t) /\ Live("fd", t) /\ Live("buffers", t) /\ Live("frame", t)
  BY DEF Capturing, Encoding, EncoderFailed, Holds, Assets, Kind

(* What Capturing depends on. *)
LEMMA CapturingStays ==
  ASSUME NEW t \in Thread, Capturing(t), UNCHANGED <<gdev, maps, g_h264, held>>,
         breach \subseteq breach',
         camera'.owner = camera.owner, camera'.count = camera.count
  PROVE  Capturing(t)'
<1>1. Ready(t)'
  BY DEF Capturing, Ready, Buffers, Requested, MappedBy
<1>2. Encoding(t) => Encoding(t)'
  BY DEF Encoding, EncoderOf, Holds, Live
<1>3. EncoderFailed(t) => EncoderFailed(t)'
  BY DEF EncoderFailed, Holds, Live
<1>. QED  BY <1>1, <1>2, <1>3 DEF Capturing

LEMMA StillNoneAtHand ==
  ASSUME TypeOK, NoneAtHand, Next
  PROVE  NoneAtHand'
<1>1. CASE Main
  BY <1>1 DEF Main, do_preview_start, do_preview_stop, do_takephoto, process_photo, NoneAtHand,
     threadVars, TypeOK, SetUp
<1>2. ASSUME NEW t \in Thread, Step(t)  PROVE NoneAtHand'
  <2>1. \A u \in Thread \ {t} : pc'[u] = pc[u] /\ buf'[u] = buf[u]
    <3>1. pc' = [pc EXCEPT ![t] = pc'[t]]
      BY <1>2, StepGoes
    <3>2. buf' = [buf EXCEPT ![t] = buf'[t]]
      BY <1>2, StepGoes
    <3>. QED  BY <3>1, <3>2 DEF TypeOK
  <2>2. pc'[t] \in {"new"} \cup (SetUp \ {"capture_start"}) => buf'[t] = NoBuffer
    <3>. USE DEF NoneAtHand, TypeOK, SetUp
    <3>1. CASE Cancel(t) \/ OpenError(t) \/ Open(t) \/ Configure(t) \/ RequestBuffers(t)
              \/ ResetCount(t) \/ MapBuffers(t) \/ BeginEncoding(t)
      BY <3>1 DEF Cancel, OpenError, Open, Configure, RequestBuffers, ResetCount, MapBuffers,
         BeginEncoding, Branch, Goto, At
    <3>2. CASE StartCapture(t)
      BY <3>2 DEF StartCapture, Goto, At
    <3>3. CASE Select(t) \/ Dequeue(t) \/ Copy(t) \/ Encode(t) \/ CopyNals(t)
              \/ SendHeader(t) \/ SendPayload(t) \/ Pace(t) \/ Requeue(t)
      BY <3>3 DEF Select, Dequeue, Copy, Encode, CopyNals, SendHeader, SendPayload, Pace, Requeue,
         Branch, Goto
    <3>4. CASE StopCapture(t) \/ EndEncoding(t) \/ Uninit(t) \/ Close(t)
      BY <3>4 DEF StopCapture, EndEncoding, Uninit, Close, CleanupStep, Goto
    <3>. QED  BY <1>2, <3>1, <3>2, <3>3, <3>4 DEF Step
  <2>. QED  BY <2>1, <2>2 DEF NoneAtHand
<1>. QED  BY <1>1, <1>2 DEF Next

LEMMA InitIInv == Init => IInv
<1>. SUFFICES ASSUME Init PROVE IInv
  OBVIOUS
<1>1. TypeOK
  BY TypeInit
<1>2. faults = {} /\ held = {} /\ cancelled = {} /\ shot = NULL
  BY DEF Init, ProcessInit
<1>3. \A t \in Thread : ~Alive(t)
  BY DEF Init, Alive, SetUp, Loop, Cleanup
<1>4. Closed
  BY DEF Init, ProcessInit, DeviceInit, h264Init, Closed, HoldsNothing, Live, NoMaps, NoEncoder
<1>5. NoneAtHand
  BY DEF Init, NoneAtHand
<1>. QED  BY <1>1, <1>2, <1>3, <1>4, <1>5 DEF IInv, FaultCause, Shaped, OneAlive, NobodyRuns,
             CancelledThreads, FramesHeld, ShotLive, Live

(* Breaches are never forgotten, and a behaviour ends with its first fault. *)
LEMMA History ==
  ASSUME TypeOK, Next
  PROVE  /\ running
         /\ breach \subseteq breach'
         /\ Orderly' => Orderly
<1>1. running /\ breach \subseteq breach'
  <2>1. CASE Main
    BY <2>1 DEF Main, do_preview_start, do_preview_stop, do_takephoto, process_photo, MainIdle
  <2>2. ASSUME NEW t \in Thread, Step(t) PROVE running /\ breach \subseteq breach'
    <3>1. CASE Cancel(t) \/ OpenError(t) \/ Select(t) \/ Pace(t) \/ Copy(t) \/ Encode(t) \/ CopyNals(t)
      BY <3>1 DEF Cancel, OpenError, Select, Pace, Copy, Encode, CopyNals, At, Branch, Failed
    <3>2. CASE Open(t) \/ Configure(t) \/ RequestBuffers(t) \/ ResetCount(t)
                \/ MapBuffers(t)
      BY <3>2 DEF Open, Configure, RequestBuffers, ResetCount, MapBuffers, At, Branch, Failed
    <3>3. CASE BeginEncoding(t) \/ StartCapture(t) \/ Dequeue(t) \/ Requeue(t)
      BY <3>3 DEF BeginEncoding, StartCapture, Dequeue, Requeue, At, Branch, Failed
    <3>4. CASE SendHeader(t) \/ SendPayload(t)
      BY <3>4 DEF SendHeader, SendPayload, At
    <3>5. CASE StopCapture(t) \/ EndEncoding(t) \/ Uninit(t) \/ Close(t)
      BY <3>5 DEF StopCapture, EndEncoding, Uninit, Close, CleanupStep, At
    <3>. QED  BY <2>2, <3>1, <3>2, <3>3, <3>4, <3>5 DEF Step
  <2>. QED  BY <2>1, <2>2 DEF Next
<1>. QED  BY <1>1 DEF Orderly

(* A command never disturbs the preview that runs. *)
LEMMA MainShaped ==
  ASSUME TypeOK, Shaped, Orderly, Main, Orderly', running'
  PROVE  Shaped'
<1>1. ASSUME do_preview_start, ~UNCHANGED pc  PROVE Shaped'
  <2>1. PICK t \in Thread : /\ pc[t] = "new"
                            /\ pc' = [pc EXCEPT ![t] = "device_open"]
                            /\ breach' = breach \cup If(\E u \in Thread : Alive(u), "overlap")
    BY <1>1 DEF do_preview_start
  <2>2. NobodyRuns
    BY <2>1 DEF Orderly, If, NobodyRuns
  <2>3. UNCHANGED <<processVars, deviceVars, g_h264, cancelled, req, buf, shot>>
    BY <1>1 DEF do_preview_start
  <2>4. Closed'
    BY <2>2, <2>3 DEF Shaped, Closed, HoldsNothing, Live, NoMaps, NoEncoder, processVars,
                      deviceVars
  <2>5. \A u \in Thread : Alive(u)' <=> u = t
    BY <2>1, <2>2 DEF NobodyRuns, Alive, TypeOK, SetUp
  <2>6. pc'[t] = "device_open" /\ Shape(t)'
    BY <2>1, <2>4 DEF Shape, TypeOK, Loop
  <2>7. CancelledThreads'
    BY <2>1, <2>3 DEF Shaped, CancelledThreads, TypeOK
  <2>8. FramesHeld'
    BY <2>1, <2>3 DEF Shaped, FramesHeld, TypeOK, processVars
  <2>9. ShotLive'
    BY <1>1, <2>3 DEF do_preview_start, MainIdle, ShotLive
  <2>. QED  BY <2>5, <2>6, <2>7, <2>8, <2>9 DEF Shaped, OneAlive, NobodyRuns
<1>2. CASE do_preview_stop
  <2>1. /\ UNCHANGED <<held, deviceVars, g_h264, pc, req, buf, mainVars>>
        /\ cancelled' = cancelled \cup {t \in Thread : t = pid /\ Alive(t)}
        /\ breach \subseteq breach'
        /\ (\E t \in Thread : t = pid /\ pc[t] \in SetUp) => "early" \in breach'
    BY <1>2 DEF do_preview_stop, If
  <2>2. OneAlive' /\ (NobodyRuns' => NobodyRuns) /\ (NobodyRuns => NobodyRuns')
    BY <2>1 DEF Shaped, OneAlive, NobodyRuns, Alive
  <2>3. Closed => Closed'
    BY <2>1 DEF Closed, HoldsNothing, Live, NoMaps, NoEncoder, deviceVars
  <2>4. ASSUME NEW t \in Thread, Shape(t) PROVE Shape(t)'
    <3>1. Capturing(t) => Capturing(t)'
      BY <2>1, CapturingStays DEF deviceVars
    <3>. QED  BY <2>1, <2>3, <2>4, <3>1 DEF Shape, Opened, Holds, Live, NoMaps, NoEncoder,
              Buffers, Requested, MappedBy, Idle, Ready, EncoderOf, TooEarly, deviceVars
  <2>5. CancelledThreads'
    BY <2>1 DEF Shaped, CancelledThreads, Alive, SetUp, Loop, Cleanup
  <2>6. FramesHeld'
    BY <2>1 DEF Shaped, FramesHeld
  <2>7. ShotLive'
    BY <1>2, <2>1 DEF do_preview_stop, MainIdle, ShotLive, mainVars
  <2>. QED  BY <2>1, <2>2, <2>3, <2>4, <2>5, <2>6, <2>7 DEF Shaped, Alive
<1>3. CASE do_takephoto \/ process_photo \/ (do_preview_start /\ UNCHANGED pc)
  <2>1. /\ UNCHANGED <<held, deviceVars, g_h264, threadVars>>
        /\ breach \subseteq breach'
    BY <1>3 DEF do_takephoto, process_photo, do_preview_start, threadVars, processVars
  <2>2. OneAlive' /\ (NobodyRuns' <=> NobodyRuns)
    BY <2>1 DEF Shaped, OneAlive, NobodyRuns, Alive, threadVars
  <2>3. Closed => Closed'
    BY <2>1 DEF Closed, HoldsNothing, Live, NoMaps, NoEncoder, deviceVars
  <2>4. ASSUME NEW t \in Thread, Shape(t) PROVE Shape(t)'
    <3>1. Capturing(t) => Capturing(t)'
      BY <2>1, CapturingStays DEF deviceVars
    <3>. QED  BY <2>1, <2>3, <2>4, <3>1 DEF Shape, Opened, Holds, Live, NoMaps, NoEncoder,
              Buffers, Requested, MappedBy, Idle, Ready, EncoderOf, TooEarly, deviceVars, threadVars
  <2>5. CancelledThreads' /\ FramesHeld'
    BY <2>1 DEF Shaped, CancelledThreads, FramesHeld, threadVars
  <2>6. ShotLive'
    <3>1. CASE process_photo
      BY <3>1 DEF process_photo, ShotLive
    <3>2. CASE do_takephoto /\ "photo" \notin breach'
      <4>1. PICK t \in Thread : pc[t] \in Loop /\ t \notin cancelled
        BY <3>2 DEF do_takephoto, If
      <4>2. gdev.frame = t
        BY <4>1, CapturingHolds DEF Shaped, Alive, Shape, Ready
      <4>. QED  BY <2>1, <3>2, <4>1, <4>2 DEF do_takephoto, ShotLive, threadVars
    <3>3. CASE do_preview_start
      BY <3>3 DEF do_preview_start, MainIdle, ShotLive
    <3>. QED  BY <1>3, <3>1, <3>2, <3>3 DEF ShotLive
  <2>. QED  BY <2>1, <2>2, <2>3, <2>4, <2>5, <2>6 DEF Shaped, Alive, threadVars
<1>. QED  BY <1>1, <1>2, <1>3 DEF Main

(* What a step of thread t does to the invariant: t goes on in the shape   *)
(* of its new label, or ends with everything closed; the other threads     *)
(* stay where they are.                                                    *)
StepGoal(t) ==
  /\ \A u \in Thread \ {t} : pc'[u] = pc[u]
  /\ pc'[t] # "new"
  /\ pc'[t] \in SetUp => pc[t] \in SetUp
  /\ pc[t] \in Loop /\ t \notin cancelled => pc'[t] \in Loop
  /\ \A u \in Thread \ {t} : <<"pframe", u>> \in held' => <<"pframe", u>> \in held
  /\ <<"pframe", t>> \in held' =>
       t \in cancelled \/ pc'[t] \in {"copy_nals", "send_header", "send_payload"}
  /\ \/ Alive(t)' /\ Shape(t)'
     \/ ~Alive(t)' /\ Closed'

(* Each step of a preview, taken in order, leaves the shape its next       *)
(* label asks for.                                                         *)
LEMMA CancelShaped ==
  ASSUME TypeOK, Shaped, Orderly, NEW t \in Thread, Cancel(t)
  PROVE  StepGoal(t)
<1>1. /\ t \in cancelled /\ pc[t] \in MustCancel \cup MayCancel
      /\ pc' = [pc EXCEPT ![t] = "capture_stop"]
      /\ UNCHANGED <<processVars, deviceVars, g_h264, cancelled, req, mainVars, breach>>
  BY DEF Cancel, Goto
<1>2. Alive(t) /\ Shape(t)
  BY <1>1 DEF Shaped, Alive, SetUp, Loop, MustCancel, MayCancel
<1>3. CASE pc[t] \in SetUp
  <2>1. TooEarly
    BY <1>1, <1>2, <1>3 DEF Shaped, CancelledThreads, Shape, Closed, SetUp, MustCancel,
         MayCancel, TooEarly
  <2>2. TooEarly'
    BY <1>1, <2>1 DEF TooEarly, NoEncoder
  <2>3. pc'[t] = "capture_stop" /\ Alive(t)' /\ Shape(t)'
    BY <1>1, <2>2 DEF TypeOK, Alive, Cleanup, Shape, Loop
  <2>. QED  BY <1>1, <1>3, <2>3 DEF StepGoal, TypeOK, SetUp, Loop, processVars
<1>4. CASE pc[t] \in Loop
  <2>1. Capturing(t)
    BY <1>2, <1>4 DEF Shape
  <2>2. Capturing(t)'
    BY <1>1, <2>1, CapturingStays DEF processVars, deviceVars
  <2>3. pc'[t] = "capture_stop" /\ Alive(t)' /\ Shape(t)'
    BY <1>1, <2>2 DEF TypeOK, Alive, Cleanup, Shape, Loop
  <2>. QED  BY <1>1, <2>3 DEF StepGoal, TypeOK, SetUp, processVars
<1>. QED  BY <1>1, <1>3, <1>4 DEF MustCancel, MayCancel, SetUp, Loop

LEMMA OpenShaped ==
  ASSUME TypeOK, Shaped, NEW t \in Thread, Open(t), Orderly'
  PROVE  StepGoal(t)
<1>1. /\ pc[t] = "device_open" /\ device_open(t) /\ UNCHANGED <<g_h264, cancelled>>
      /\ pc' = [pc EXCEPT ![t] = "device_init"]
  BY DEF Open, At, Goto, Failed, If, Orderly, Failure
<1>2. Closed
  BY <1>1 DEF Shaped, Shape, Alive, SetUp
<1>3. Opened(t)'
  BY <1>1, <1>2 DEF Opened, Closed, device_open, Holds, HoldsNothing, Live, NoMaps,
       NoEncoder, TypeOK, DeviceTypeOK
<1>4. pc'[t] = "device_init" /\ Alive(t)' /\ Shape(t)'
  BY <1>1, <1>3 DEF TypeOK, Alive, SetUp, Shape, Loop
<1>5. \A u \in Thread : <<"pframe", u>> \in held' => <<"pframe", u>> \in held
  BY <1>1 DEF device_open
<1>. QED  BY <1>1, <1>4, <1>5 DEF StepGoal, Shaped, FramesHeld, TypeOK, SetUp, Loop

LEMMA ConfigureShaped ==
  ASSUME TypeOK, Shaped, NEW t \in Thread, Configure(t), Orderly'
  PROVE  StepGoal(t)
<1>1. pc[t] = "device_init" /\ UNCHANGED <<g_h264, cancelled>>
  BY DEF Configure, At
<1>2. Opened(t)
  BY <1>1 DEF Shaped, Shape, Alive, SetUp
<1>3. CanConfigure
  BY <1>2 DEF CanConfigure, FdOpen, Opened, Holds, Assets, Kind, NoOwner
<1>4. device_init(TRUE) /\ pc' = [pc EXCEPT ![t] = "init_mmap"]
  BY <1>3 DEF Configure, Branch, Goto, Failed, If, Orderly, Failure
<1>5. Opened(t)'
  BY <1>1, <1>2, <1>4 DEF Opened, device_init, Holds, Live, NoMaps, NoEncoder, TypeOK,
       DeviceTypeOK
<1>6. pc'[t] = "init_mmap" /\ Alive(t)' /\ Shape(t)'
  BY <1>4, <1>5 DEF TypeOK, Alive, SetUp, Shape, Loop
<1>7. UNCHANGED held
  BY <1>4 DEF device_init
<1>. QED  BY <1>1, <1>4, <1>6, <1>7 DEF StepGoal, Shaped, FramesHeld, TypeOK, SetUp, Loop

LEMMA RequestShaped ==
  ASSUME TypeOK, Shaped, NEW t \in Thread, RequestBuffers(t), Orderly'
  PROVE  StepGoal(t)
<1>1. pc[t] = "init_mmap" /\ UNCHANGED <<g_h264, cancelled>>
  BY DEF RequestBuffers, At
<1>2. Opened(t)
  BY <1>1 DEF Shaped, Shape, Alive, SetUp
<1>3. CanRequest
  BY <1>2 DEF CanRequest, CanConfigure, FdOpen, Opened, Holds, Assets, Kind, NoOwner
<1>4. PICK count \in Granted \cup {Asked} :
        /\ count >= 2
        /\ request_buffers(t, "granted", count, TRUE)
        /\ pc' = [pc EXCEPT ![t] = "reset_count"]
        /\ req' = [req EXCEPT ![t] = count]
  <2>1. PICK answer \in {"granted", "einval", "error"}, count \in Granted \cup {Asked},
             room \in BOOLEAN :
          LET goesOn == answer # "einval" /\ count >= 2 /\ room
              failed == (answer # "granted" /\ CanRequest) \/ count < 2 \/ ~room
          IN  /\ request_buffers(t, answer, count, room)
              /\ Goto(t, IF goesOn THEN "reset_count" ELSE "h264_begin")
              /\ req' = [req EXCEPT ![t] = IF goesOn THEN count ELSE 0]
              /\ Failed("buffers", failed)
    BY DEF RequestBuffers
  <2>2. ~((answer # "granted" /\ CanRequest) \/ count < 2 \/ ~room)
    BY <2>1 DEF Failed, If, Orderly, Failure
  <2>3. answer = "granted" /\ room = TRUE
    BY <1>3, <2>2
  <2>4. count >= 2
    BY <2>2, DeviceAssumption DEF Asked
  <2>. QED  BY <2>1, <2>3, <2>4 DEF Goto
<1>5. /\ camera' = [NoOwner EXCEPT !.owner = t, !.count = count]
      /\ gdev' = [gdev EXCEPT !.buffers = t]
      /\ held' = held \cup {<<"buffers", t>>}
      /\ UNCHANGED maps
  BY <1>2, <1>4, DeviceAssumption DEF request_buffers, Opened, Asked
<1>6. Holds({"fd", "buffers"}, t)'
  BY <1>2, <1>5 DEF Opened, Holds, Live
<1>7. Requested(t)' /\ NoMaps' /\ Idle' /\ camera'.count = count
  <2>1. /\ camera'.owner = t /\ camera'.count = count /\ ~camera'.streaming
        /\ camera'.queued = {}
    BY <1>5 DEF NoOwner
  <2>2. gdev'.fd = t /\ gdev'.buffers = t
    BY <1>2, <1>5 DEF Opened, TypeOK, DeviceTypeOK
  <2>. QED  BY <1>2, <1>4, <1>5, <2>1, <2>2 DEF Requested, Idle, Opened, NoMaps
<1>8. pc'[t] = "reset_count" /\ req'[t] = count
  BY <1>4 DEF TypeOK
<1>9. NoEncoder'
  BY <1>1, <1>2 DEF Opened, NoEncoder
<1>10. Alive(t)' /\ Shape(t)'
  BY <1>6, <1>7, <1>8, <1>9 DEF Alive, SetUp, Shape, Loop
<1>. QED  BY <1>1, <1>4, <1>5, <1>8, <1>10 DEF StepGoal, Shaped, FramesHeld, TypeOK, SetUp, Loop

LEMMA ResetShaped ==
  ASSUME TypeOK, Shaped, NEW t \in Thread, ResetCount(t)
  PROVE  StepGoal(t)
<1>1. /\ pc[t] = "reset_count" /\ pc' = [pc EXCEPT ![t] = "map_buffers"]
      /\ gdev' = [gdev EXCEPT !.n_buffers = 0]
      /\ UNCHANGED <<camera, maps, held, g_h264, cancelled, req>>
  BY DEF ResetCount, At, Goto, reset_count
<1>2. /\ Holds({"fd", "buffers"}, t) /\ NoEncoder /\ Requested(t) /\ NoMaps /\ Idle
      /\ req[t] = camera.count /\ camera.count \in Nat
  BY <1>1 DEF Shaped, Shape, Alive, SetUp, TypeOK, DeviceTypeOK
<1>3. Requested(t)' /\ gdev'.n_buffers = 0
  BY <1>1, <1>2 DEF Requested, TypeOK, DeviceTypeOK
<1>4. Buffers(t)'
  <2>1. Indices(0) = {}
    BY DEF Indices
  <2>. QED  BY <1>1, <1>2, <1>3, <2>1 DEF Buffers, Requested, MappedBy, NoMaps
<1>5. Holds({"fd", "buffers"}, t)' /\ NoEncoder' /\ Idle'
  BY <1>1, <1>2 DEF Holds, Live, NoEncoder, Idle
<1>6. pc'[t] = "map_buffers" /\ Alive(t)' /\ Shape(t)'
  BY <1>1, <1>2, <1>3, <1>4, <1>5 DEF TypeOK, Alive, SetUp, Shape, Loop
<1>. QED  BY <1>1, <1>6 DEF StepGoal, Shaped, FramesHeld, TypeOK, SetUp, Loop

LEMMA MapShaped ==
  ASSUME TypeOK, Shaped, NEW t \in Thread, MapBuffers(t), Orderly'
  PROVE  StepGoal(t)
<1>1. pc[t] = "map_buffers" /\ UNCHANGED <<g_h264, cancelled>>
  BY DEF MapBuffers, At
<1>2. /\ Holds({"fd", "buffers"}, t) /\ NoEncoder /\ Buffers(t) /\ Idle
      /\ req[t] = camera.count /\ gdev.n_buffers <= req[t]
      /\ gdev.n_buffers \in Nat /\ camera.count \in Nat
  BY <1>1 DEF Shaped, Shape, Alive, SetUp, TypeOK, DeviceTypeOK
<1>3. Owns /\ Live("buffers", t)
  BY <1>2 DEF Owns, FdOpen, Buffers, Requested, Holds, Assets, Kind
<1>4. CASE map_buffer(req[t]) /\ UNCHANGED <<pc, breach>>
  <2>1. /\ gdev.n_buffers < req[t]
        /\ gdev' = [gdev EXCEPT !.n_buffers = @ + 1]
        /\ maps' = [maps EXCEPT ![t] = @ \cup {gdev.n_buffers}]
        /\ UNCHANGED <<camera, held>>
    BY <1>2, <1>3, <1>4 DEF map_buffer, Buffers, Requested
  <2>2. Indices(gdev.n_buffers + 1) = Indices(gdev.n_buffers) \cup {gdev.n_buffers}
    BY <1>2 DEF Indices
  <2>3. gdev'.n_buffers = gdev.n_buffers + 1 /\ gdev'.fd = t /\ gdev'.buffers = t
    BY <1>2, <2>1 DEF TypeOK, DeviceTypeOK, Buffers, Requested
  <2>4. MappedBy(t, Indices(gdev.n_buffers))'
    BY <1>2, <2>1, <2>2, <2>3 DEF Buffers, Requested, MappedBy, TypeOK, DeviceTypeOK
  <2>5. Buffers(t)' /\ Idle' /\ Holds({"fd", "buffers"}, t)' /\ NoEncoder'
    BY <1>1, <1>2, <2>1, <2>3, <2>4 DEF Buffers, Requested, Idle, Holds, Live, NoEncoder
  <2>6. UNCHANGED req /\ pc'[t] = "map_buffers"
    BY <1>1, <1>4 DEF MapBuffers, TypeOK
  <2>7. Alive(t)' /\ Shape(t)'
    BY <1>2, <2>1, <2>3, <2>5, <2>6 DEF Alive, SetUp, Shape, Loop
  <2>. QED  BY <1>1, <1>4, <2>1, <2>6, <2>7 DEF StepGoal, Shaped, FramesHeld, SetUp, Loop
<1>5. CASE gdev.n_buffers < req[t] /\ Failed("buffers", CanMap)
  BY <1>2, <1>3, <1>5 DEF CanMap, Failed, If, Orderly, Failure
<1>6. CASE /\ alloc_frame(t, req[t], TRUE)
           /\ pc' = [pc EXCEPT ![t] = "h264_begin"]
  <2>1. /\ gdev.n_buffers = camera.count
        /\ gdev' = [gdev EXCEPT !.frame = t, !.length = 1]
        /\ held' = held \cup {<<"frame", t>>}
        /\ UNCHANGED <<camera, maps>>
    BY <1>2, <1>6 DEF alloc_frame
  <2>2. /\ gdev'.n_buffers = gdev.n_buffers /\ gdev'.fd = t /\ gdev'.buffers = t
        /\ gdev'.frame = t
    BY <1>2, <2>1 DEF TypeOK, DeviceTypeOK, Buffers, Requested
  <2>3. Ready(t)' /\ Idle' /\ NoEncoder'
    BY <1>1, <1>2, <2>1, <2>2 DEF Ready, Buffers, Requested, Idle, NoEncoder, MappedBy
  <2>4. Holds({"fd", "buffers", "frame"}, t)'
    BY <1>2, <2>1 DEF Holds, Live
  <2>5. pc'[t] = "h264_begin"
    BY <1>6 DEF TypeOK
  <2>6. Alive(t)' /\ Shape(t)'
    BY <2>3, <2>4, <2>5 DEF Alive, SetUp, Shape, Loop
  <2>. QED  BY <1>1, <1>6, <2>1, <2>5, <2>6 DEF StepGoal, Shaped, FramesHeld, SetUp, Loop
<1>7. \A ok \in BOOLEAN : Failed("buffers", ~ok) => ok = TRUE
  BY DEF Failed, If, Orderly, Failure
<1>. QED  BY <1>4, <1>5, <1>6, <1>7 DEF MapBuffers, Goto

LEMMA BeginShaped ==
  ASSUME TypeOK, Shaped, NoneAtHand, NEW t \in Thread, BeginEncoding(t), Orderly'
  PROVE  StepGoal(t)
<1>1. pc[t] = "h264_begin" /\ UNCHANGED <<deviceVars, cancelled, buf>>
  BY DEF BeginEncoding, At
<1>2. Holds({"fd", "buffers", "frame"}, t) /\ NoEncoder /\ Ready(t) /\ Idle
  BY <1>1 DEF Shaped, Shape, Alive, SetUp
<1>3. PICK outcome \in {"ok", "open", "picture"} :
        /\ h264_encode_begin(t, outcome)
        /\ pc' = [pc EXCEPT ![t] = "capture_start"]
        /\ outcome # "ok" => "encoder" \in breach'
  BY DEF BeginEncoding, Goto, Failed, If
<1>4. g_h264.picture = NULL /\ g_h264.nal = NULL
  BY <1>2 DEF NoEncoder, Zeroed
<1>5. Encoding(t)' \/ EncoderFailed(t)'
  <2>1. CASE outcome = "ok"
    <3>1. /\ EncoderOf(t)'
          /\ held' = held \cup {<<"encoder", t>>, <<"picture", t>>}
      BY <1>3, <1>4, <2>1 DEF h264_encode_begin, EncoderOf, If
    <3>2. Holds({"fd", "buffers", "frame", "encoder", "picture"}, t)'
      BY <1>2, <3>1 DEF Holds, Live
    <3>. QED  BY <3>1, <3>2 DEF Encoding
  <2>2. CASE outcome = "open"
    <3>1. g_h264'.x264 = NULL /\ g_h264'.picture = NULL /\ held' = held
      BY <1>3, <1>4, <2>2 DEF h264_encode_begin, If
    <3>2. Holds({"fd", "buffers", "frame"}, t)'
      BY <1>2, <3>1 DEF Holds, Live
    <3>. QED  BY <1>3, <2>2, <3>1, <3>2 DEF EncoderFailed
  <2>3. CASE outcome = "picture"
    <3>1. g_h264'.picture = NULL /\ g_h264'.x264 = t /\ held' = held \cup {<<"encoder", t>>}
      BY <1>3, <2>3 DEF h264_encode_begin, If
    <3>2. Holds({"fd", "buffers", "frame", "encoder"}, t)'
      BY <1>2, <3>1 DEF Holds, Live
    <3>. QED  BY <1>3, <2>3, <3>1, <3>2 DEF EncoderFailed
  <2>. QED  BY <1>3, <2>1, <2>2, <2>3
<1>6. Ready(t)' /\ Idle'
  BY <1>1, <1>2 DEF Ready, Buffers, Requested, MappedBy, Idle, deviceVars
<1>7. pc'[t] = "capture_start"
  BY <1>3 DEF TypeOK
<1>8. Alive(t)' /\ Shape(t)'
  <2>1. buf'[t].index = 0 /\ Indices(0) = {}
    BY <1>1 DEF NoneAtHand, SetUp, NoBuffer, Indices
  <2>2. camera'.count \in Nat
    BY <1>1 DEF TypeOK, DeviceTypeOK, deviceVars
  <2>. QED  BY <1>5, <1>6, <1>7, <2>1, <2>2 DEF Alive, SetUp, Shape, Loop, Capturing, Idle
<1>9. \A u \in Thread : <<"pframe", u>> \in held' => <<"pframe", u>> \in held
  BY <1>3 DEF h264_encode_begin, If
<1>. QED  BY <1>1, <1>3, <1>7, <1>8, <1>9 DEF StepGoal, Shaped, FramesHeld, SetUp, Loop

LEMMA StartShaped ==
  ASSUME TypeOK, Shaped, NEW t \in Thread, StartCapture(t), Orderly'
  PROVE  StepGoal(t)
<1>. DEFINE i == buf[t].index
<1>1. pc[t] = "capture_start" /\ UNCHANGED <<g_h264, cancelled>>
  BY DEF StartCapture, At
<1>2. /\ Capturing(t) /\ ~camera.streaming /\ i <= camera.count /\ camera.queued = Indices(i)
      /\ gdev.n_buffers = camera.count
  BY <1>1 DEF Shaped, Shape, Alive, SetUp, Capturing, Ready
<1>3. i \in Nat /\ camera.count \in Nat
  BY DEF TypeOK, DeviceTypeOK
<1>4. Owns
  BY <1>2, CapturingHolds DEF Owns, FdOpen, Ready, Buffers, Requested
<1>5. ASSUME i < camera.count  PROVE StepGoal(t)
  <2>1. CanEnqueue(i)
    BY <1>2, <1>3, <1>4, <1>5 DEF CanEnqueue, Indices
  <2>2. /\ enqueue(i) /\ buf' = [buf EXCEPT ![t].index = @ + 1]
        /\ UNCHANGED <<pc, breach>>
    BY <1>2, <1>5, <2>1 DEF StartCapture, Failed, If, Orderly, Failure
  <2>3. /\ camera'.owner = camera.owner /\ camera'.count = camera.count
        /\ ~camera'.streaming /\ camera'.queued = Indices(i) \cup {i}
        /\ UNCHANGED <<gdev, maps, held>>
    BY <1>2, <2>2 DEF enqueue, TypeOK, DeviceTypeOK
  <2>4. buf'[t].index = i + 1 /\ Indices(i) \cup {i} = Indices(i + 1)
    BY <1>3, <2>2 DEF TypeOK, Indices
  <2>5. Capturing(t)'
    BY <1>1, <1>2, <2>2, <2>3, CapturingStays
  <2>6. Alive(t)' /\ Shape(t)'
    BY <1>1, <1>3, <1>5, <2>2, <2>3, <2>4, <2>5 DEF Alive, SetUp, Loop, Shape
  <2>. QED  BY <1>1, <2>2, <2>3, <2>6 DEF StepGoal, Shaped, FramesHeld, SetUp, Loop
<1>6. ASSUME ~(i < camera.count)  PROVE StepGoal(t)
  <2>1. i = camera.count
    BY <1>2, <1>3, <1>6
  <2>2. stream_on /\ pc' = [pc EXCEPT ![t] = "select"] /\ UNCHANGED breach
    BY <1>2, <1>4, <1>6 DEF StartCapture, Goto, Failed, If, Orderly, Failure
  <2>3. /\ camera'.owner = camera.owner /\ camera'.count = camera.count
        /\ camera'.streaming /\ camera'.queued = Indices(camera.count)
        /\ UNCHANGED <<gdev, maps, held>>
    BY <1>2, <2>1, <2>2 DEF stream_on, TypeOK, DeviceTypeOK
  <2>4. Capturing(t)'
    BY <1>1, <1>2, <2>2, <2>3, CapturingStays
  <2>5. pc'[t] = "select"
    BY <2>2 DEF TypeOK
  <2>6. Alive(t)' /\ Shape(t)'
    BY <2>3, <2>4, <2>5 DEF Alive, SetUp, Loop, Shape
  <2>. QED  BY <1>1, <2>2, <2>3, <2>5, <2>6 DEF StepGoal, Shaped, FramesHeld, SetUp, Loop
<1>. QED  BY <1>5, <1>6

(* In the capture loop nothing but the queue, the dequeued buffer and the  *)
(* encoded frame changes.                                                  *)
LoopFrame(t) == /\ UNCHANGED <<gdev, maps, cancelled, breach>>
                /\ EncoderOf(t) => EncoderOf(t)'
                /\ EncoderOf(t) \/ UNCHANGED g_h264
                /\ camera'.owner = camera.owner /\ camera'.count = camera.count
                /\ camera'.streaming = camera.streaming
                /\ \A kind \in Assets, u \in Thread : Live(kind, u)' <=> Live(kind, u)

(* The steps of the loop that only move a buffer, and what all of the      *)
(* loop finds.                                                             *)
LEMMA LoopFrameShape ==
  ASSUME NEW t \in Thread, Capturing(t), camera.streaming, LoopFrame(t)
  PROVE  Capturing(t)' /\ camera'.streaming
<1>1. Ready(t)'
  BY DEF LoopFrame, Capturing, Ready, Buffers, Requested, MappedBy
<1>2. CASE Encoding(t)
  <2>1. Encoding(t)'
    BY <1>2 DEF LoopFrame, Encoding, Holds
  <2>. QED  BY <1>1, <2>1 DEF Capturing, LoopFrame
<1>3. CASE EncoderFailed(t)
  <2>1. ~EncoderOf(t)
    BY <1>3, ThreadAssumption DEF EncoderFailed, EncoderOf
  <2>2. EncoderFailed(t)'
    BY <1>3, <2>1 DEF LoopFrame, EncoderFailed, Holds
  <2>. QED  BY <1>1, <2>2 DEF Capturing, LoopFrame
<1>. QED  BY <1>2, <1>3 DEF Capturing

LEMMA LoopFacts ==
  ASSUME TypeOK, Shaped, NEW t \in Thread, pc[t] \in Loop
  PROVE  /\ Capturing(t) /\ camera.streaming /\ Owns
         /\ gdev.n_buffers = camera.count /\ 0 \in Indices(camera.count)
         /\ Shape(t)
<1>1. Capturing(t) /\ camera.streaming /\ Shape(t)
  BY DEF Shaped, Shape, Alive
<1>2. gdev.n_buffers = camera.count /\ 0 \in Indices(camera.count)
  BY <1>1 DEF Capturing, Ready, Buffers, Requested, TypeOK, DeviceTypeOK, Indices
<1>3. Owns
  BY <1>1, CapturingHolds DEF Owns, FdOpen, Ready, Buffers, Requested
<1>. QED  BY <1>1, <1>2, <1>3

(* The steps of the loop that talk to the driver. *)
LEMMA SelectShaped ==
  ASSUME TypeOK, Shaped, NEW t \in Thread, Select(t), Orderly'
  PROVE  StepGoal(t)
<1>1. pc[t] = "select" /\ UNCHANGED <<held, deviceVars, g_h264, cancelled>>
  BY DEF Select, At
<1>2. Capturing(t) /\ camera.streaming /\ camera.queued = Indices(camera.count)
  BY <1>1, LoopFacts DEF Loop, Shape
<1>3. CanDequeue
  BY <1>1, <1>2, LoopFacts DEF CanDequeue, Loop
<1>4. pc' = [pc EXCEPT ![t] = "dequeue"] /\ UNCHANGED breach
  BY <1>3 DEF Select, Branch, Goto, Failed, If, Orderly, Failure
<1>5. LoopFrame(t)
  BY <1>1, <1>4 DEF LoopFrame, EncoderOf, Live, deviceVars
<1>6. pc'[t] = "dequeue" /\ camera'.queued = Indices(camera'.count)
  BY <1>1, <1>2, <1>4 DEF TypeOK, deviceVars
<1>7. Alive(t)' /\ Shape(t)'
  BY <1>2, <1>5, <1>6, LoopFrameShape DEF Alive, Loop, Shape
<1>. QED  BY <1>1, <1>4, <1>6, <1>7 DEF StepGoal, Shaped, FramesHeld, SetUp, Loop, processVars

LEMMA DequeueShaped ==
  ASSUME TypeOK, Shaped, NEW t \in Thread, Dequeue(t), Orderly'
  PROVE  StepGoal(t)
<1>1. pc[t] = "dequeue" /\ UNCHANGED <<g_h264, cancelled>>
  BY DEF Dequeue, At
<1>2. Capturing(t) /\ camera.streaming /\ camera.queued = Indices(camera.count)
  BY <1>1, LoopFacts DEF Loop, Shape
<1>3. CanDequeue
  BY <1>1, <1>2, LoopFacts DEF CanDequeue, Loop
<1>4. PICK i \in camera.queued :
        /\ dequeue(i)
        /\ buf' = [buf EXCEPT ![t].index = i]
        /\ pc' = [pc EXCEPT ![t] = "copy"]
        /\ UNCHANGED breach
  BY <1>3 DEF Dequeue, Goto, Failed, If, Orderly, Failure
<1>5. /\ camera' = [camera EXCEPT !.queued = @ \ {i}]
      /\ UNCHANGED <<gdev, maps, held>>
  BY <1>4 DEF dequeue
<1>6. /\ camera'.owner = camera.owner /\ camera'.count = camera.count
      /\ camera'.streaming = camera.streaming
      /\ camera'.queued = camera.queued \ {i}
  BY <1>5 DEF TypeOK, DeviceTypeOK
<1>7. LoopFrame(t)
  BY <1>1, <1>4, <1>5, <1>6 DEF LoopFrame, EncoderOf, Live
<1>8. pc'[t] = "copy" /\ buf'[t].index = i
  BY <1>4 DEF TypeOK
<1>9. Alive(t)' /\ Shape(t)'
  BY <1>2, <1>6, <1>7, <1>8, LoopFrameShape DEF Alive, Loop, Shape
<1>. QED  BY <1>1, <1>4, <1>5, <1>8, <1>9 DEF StepGoal, Shaped, FramesHeld, SetUp, Loop

(* The steps between DQBUF and QBUF. *)
LEMMA FrameShaped ==
  ASSUME TypeOK, Shaped, running', NEW t \in Thread,
         \/ Copy(t) \/ Encode(t) \/ CopyNals(t) \/ SendHeader(t) \/ SendPayload(t) \/ Pace(t)
  PROVE  StepGoal(t)
<1>1. /\ pc[t] \in {"copy", "encode", "copy_nals", "send_header", "send_payload", "pace"}
      /\ UNCHANGED <<deviceVars, cancelled, breach>>
  BY DEF Copy, Encode, CopyNals, SendHeader, SendPayload, Pace, At, copy_frame
<1>2. /\ Capturing(t) /\ camera.streaming
      /\ buf[t].index \in Indices(camera.count)
      /\ camera.queued = Indices(camera.count) \ {buf[t].index}
      /\ pc[t] = "encode" => buf[t].array = t
  BY <1>1, LoopFacts DEF Loop, Shape
<1>3. /\ pc' = [pc EXCEPT ![t] = pc'[t]]
      /\ pc'[t] \in {"encode", "copy_nals", "send_header", "send_payload", "pace", "requeue"}
      /\ pc'[t] = "encode" => pc[t] = "copy"
  BY DEF Copy, Encode, CopyNals, SendHeader, SendPayload, Pace, At, Goto, TypeOK
<1>4. buf'[t].index = buf[t].index /\ (pc'[t] = "encode" => buf'[t].array = t)
  <2>1. CASE Copy(t)
    <3>1. Mapped(gdev.buffers, buf[t].index) /\ gdev.buffers = t
      BY <1>1, <1>2, LoopFacts, ThreadAssumption
         DEF Mapped, Capturing, Ready, Buffers, Requested, MappedBy, Loop
    <3>. QED  BY <2>1, <3>1 DEF Copy, TypeOK
  <2>2. CASE Encode(t) \/ CopyNals(t) \/ SendHeader(t) \/ SendPayload(t) \/ Pace(t)
    BY <1>3, <2>2 DEF Encode, CopyNals, SendHeader, SendPayload, Pace, At
  <2>. QED  BY <2>1, <2>2
<1>5. /\ \A kind \in Assets, u \in Thread : Live(kind, u)' <=> Live(kind, u)
      /\ \A u \in Thread \ {t} : <<"pframe", u>> \in held' => <<"pframe", u>> \in held
      /\ <<"pframe", t>> \in held' =>
           t \in cancelled \/ pc'[t] \in {"copy_nals", "send_header", "send_payload"}
  <2>1. CASE Copy(t) \/ Pace(t)
    BY <1>1, <2>1 DEF Copy, Pace, At, copy_frame, processVars, Live, Shaped, FramesHeld
  <2>2. CASE Encode(t)
    BY <1>1, <2>2 DEF Encode, At, Goto, h264_encode, If, processVars, Live, Assets, Shaped,
         FramesHeld, TypeOK
  <2>3. CASE SendHeader(t)
    BY <2>3 DEF SendHeader, At, Goto, Live, Assets, TypeOK
  <2>4. CASE SendPayload(t)
    BY <2>4 DEF SendPayload, At, Goto, Live, Assets, TypeOK
  <2>5. CASE CopyNals(t)
    BY <1>1, <2>5 DEF CopyNals, At, Goto, copy_nals, Live, Shaped, FramesHeld, TypeOK
  <2>. QED  BY <2>1, <2>2, <2>3, <2>4, <2>5
<1>6. /\ EncoderOf(t) => EncoderOf(t)'
      /\ EncoderOf(t) \/ UNCHANGED g_h264
      /\ pc'[t] = "copy_nals" => g_h264'.nal = t
  <2>1. CASE Encode(t)
    <3>1. pc[t] = "encode" /\ buf[t].array # NULL
      BY <1>2, <2>1, ThreadAssumption DEF Encode, At
    <3>2. PICK gotFrame \in BOOLEAN :
            /\ h264_encode(t, Mapped(buf[t].array, buf[t].index), gotFrame)
            /\ pc' = [pc EXCEPT ![t] = IF gotFrame THEN "copy_nals" ELSE "pace"]
      BY <2>1, <3>1 DEF Encode, Goto
    <3>3. NULL \notin {g_h264.x264, g_h264.picture}
      BY <3>2 DEF h264_encode, Raise, If, running
    <3>4. EncoderOf(t)
      BY <1>2, <3>3 DEF Capturing, Encoding, EncoderFailed
    <3>. QED  BY <3>2, <3>4 DEF h264_encode, EncoderOf, TypeOK, h264TypeOK
  <2>2. CASE Copy(t) \/ CopyNals(t) \/ SendHeader(t) \/ SendPayload(t) \/ Pace(t)
    BY <2>2 DEF Copy, CopyNals, SendHeader, SendPayload, Pace, At, Goto, copy_nals,
         EncoderOf, TypeOK
  <2>. QED  BY <2>1, <2>2
<1>7. LoopFrame(t) /\ UNCHANGED camera
  BY <1>1, <1>5, <1>6 DEF LoopFrame, deviceVars
<1>8. Alive(t)' /\ Shape(t)'
  BY <1>2, <1>3, <1>4, <1>6, <1>7, LoopFrameShape DEF Alive, Loop, Shape
<1>. QED  BY <1>3, <1>5, <1>8 DEF StepGoal, SetUp, Loop, TypeOK

LEMMA RequeueShaped ==
  ASSUME TypeOK, Shaped, NEW t \in Thread, Requeue(t), Orderly'
  PROVE  StepGoal(t)
<1>1. pc[t] = "requeue" /\ UNCHANGED <<g_h264, cancelled>>
  BY DEF Requeue, At
<1>2. /\ Capturing(t) /\ camera.streaming
      /\ buf[t].index \in Indices(camera.count)
      /\ camera.queued = Indices(camera.count) \ {buf[t].index}
  BY <1>1, LoopFacts DEF Loop, Shape
<1>3. CanEnqueue(buf[t].index)
  BY <1>1, <1>2, LoopFacts DEF CanEnqueue, Loop
<1>4. /\ enqueue(buf[t].index) /\ UNCHANGED breach
      /\ pc' = [pc EXCEPT ![t] = "select"]
  BY <1>3 DEF Requeue, Goto, Failed, If, Orderly, Failure
<1>5. /\ camera' = [camera EXCEPT !.queued = @ \cup {buf[t].index}]
      /\ UNCHANGED <<gdev, maps, held>>
  BY <1>4 DEF enqueue
<1>6. /\ camera'.owner = camera.owner /\ camera'.count = camera.count
      /\ camera'.streaming = camera.streaming
      /\ camera'.queued = Indices(camera'.count)
  <2>1. camera.queued \cup {buf[t].index} = Indices(camera.count)
    BY <1>2
  <2>. QED  BY <1>5, <2>1 DEF TypeOK, DeviceTypeOK
<1>7. LoopFrame(t)
  BY <1>1, <1>4, <1>5, <1>6 DEF LoopFrame, EncoderOf, Live
<1>8. pc'[t] = "select"
  BY <1>4 DEF TypeOK
<1>9. Alive(t)' /\ Shape(t)'
  BY <1>2, <1>6, <1>7, <1>8, LoopFrameShape DEF Alive, Loop, Shape
<1>. QED  BY <1>1, <1>4, <1>5, <1>8, <1>9 DEF StepGoal, Shaped, FramesHeld, SetUp, Loop

LEMMA CleanupShaped ==
  ASSUME TypeOK, Shaped, NEW t \in Thread, running', Orderly',
         StopCapture(t) \/ EndEncoding(t) \/ Uninit(t) \/ Close(t)
  PROVE  StepGoal(t)
<1>0. UNCHANGED <<cancelled, breach>>
  BY DEF StopCapture, EndEncoding, Uninit, Close, CleanupStep
<1>1. CASE StopCapture(t)
  <2>1. /\ pc[t] = "capture_stop" /\ capture_stop /\ UNCHANGED g_h264
        /\ pc' = [pc EXCEPT ![t] = "h264_end"]
    BY <1>1 DEF StopCapture, CleanupStep, At, Goto
  <2>2. Capturing(t) \/ TooEarly
    BY <2>1 DEF Shaped, Shape, Alive, Cleanup
  <2>3. TooEarly => TooEarly'
    BY <1>0, <2>1 DEF TooEarly, NoEncoder
  <2>4. ASSUME Capturing(t) PROVE Capturing(t)' /\ Idle'
    <3>1. Owns
      BY <2>4, CapturingHolds DEF Owns, FdOpen, Ready, Buffers, Requested
    <3>2. camera' = [camera EXCEPT !.queued = {}, !.streaming = FALSE]
      BY <2>1, <3>1 DEF capture_stop
    <3>3. /\ camera'.owner = camera.owner /\ camera'.count = camera.count
          /\ ~camera'.streaming /\ camera'.queued = {}
      BY <3>2 DEF TypeOK, DeviceTypeOK
    <3>. QED  BY <1>0, <2>1, <2>4, <3>3, CapturingStays DEF capture_stop, Idle
  <2>5. pc'[t] = "h264_end"
    BY <2>1 DEF TypeOK
  <2>6. Alive(t)' /\ Shape(t)'
    BY <2>2, <2>3, <2>4, <2>5 DEF Alive, Cleanup, Shape, Loop
  <2>. QED  BY <1>0, <2>1, <2>5, <2>6 DEF capture_stop, StepGoal, Shaped, FramesHeld, SetUp,
            Loop
<1>2. CASE EndEncoding(t)
  <2>1. /\ pc[t] = "h264_end" /\ h264_encode_end /\ UNCHANGED deviceVars
        /\ pc' = [pc EXCEPT ![t] = "device_uninit"]
    BY <1>2 DEF EndEncoding, CleanupStep, At, Goto
  <2>2. ~TooEarly
    BY <2>1 DEF TooEarly, NoEncoder, Zeroed, h264_encode_end, Raise, If, running
  <2>3. Ready(t) /\ Encoding(t) /\ Idle
    <3>1. Capturing(t) /\ Idle
      BY <2>1, <2>2 DEF Shaped, Shape, Alive, Cleanup
    <3>2. NULL \notin {g_h264.x264, g_h264.picture}
      BY <2>1 DEF h264_encode_end, Raise, If, running
    <3>. QED  BY <3>1, <3>2 DEF Capturing, EncoderFailed
  <2>4. /\ held' = held \ {<<"picture", t>>, <<"encoder", t>>}
        /\ NoEncoder'
    BY <2>1, <2>3 DEF h264_encode_end, Encoding, NoEncoder, EncoderOf
  <2>5. Holds({"fd", "buffers", "frame"}, t)'
    BY <2>3, <2>4 DEF Encoding, Holds, Live
  <2>6. Ready(t)' /\ Idle'
    BY <2>1, <2>3 DEF Ready, Buffers, Requested, MappedBy, Idle, deviceVars
  <2>7. pc'[t] = "device_uninit"
    BY <2>1 DEF TypeOK
  <2>8. Alive(t)' /\ Shape(t)'
    BY <2>4, <2>5, <2>6, <2>7 DEF Alive, Cleanup, Shape, Loop
  <2>. QED  BY <1>0, <2>1, <2>4, <2>7, <2>8 DEF StepGoal, Shaped, FramesHeld, SetUp, Loop
<1>3. CASE Uninit(t)
  <2>1. /\ pc[t] = "device_uninit" /\ device_uninit /\ UNCHANGED g_h264
        /\ pc' = [pc EXCEPT ![t] = "device_close"]
    BY <1>3 DEF Uninit, CleanupStep, At, Goto
  <2>2. Holds({"fd", "buffers", "frame"}, t) /\ NoEncoder /\ Ready(t) /\ Idle
    BY <2>1 DEF Shaped, Shape, Alive, Cleanup
  <2>3. Live("fd", t) /\ Live("buffers", t)
    BY <2>2 DEF Holds, Assets, Kind
  <2>4. /\ held' = held \ {<<"frame", t>>, <<"buffers", t>>}
        /\ gdev' = [gdev EXCEPT !.length = 0]
        /\ maps' = [maps EXCEPT ![t] = @ \ Indices(gdev.n_buffers)]
        /\ UNCHANGED camera
    <3>1. gdev.buffers = t /\ gdev.frame = t /\ camera.owner = t
      BY <2>2 DEF Ready, Buffers, Requested
    <3>2. Unmappable = {}
      BY <2>2, <3>1 DEF Unmappable, Ready, Buffers, Requested, MappedBy
    <3>3. maps' = [maps EXCEPT ![t] = @ \ Indices(gdev.n_buffers)]
      BY <2>1, <2>3, <3>1, <3>2 DEF device_uninit, munmap_buffers
    <3>. QED  BY <2>1, <2>3, <3>1, <3>2, <3>3 DEF device_uninit, Settle, Live
  <2>5. Holds({"fd"}, t)'
    BY <2>2, <2>4 DEF Holds, Live
  <2>6. NoMaps' /\ gdev'.fd = t
    BY <2>2, <2>4 DEF NoMaps, Ready, Buffers, Requested, MappedBy, TypeOK, DeviceTypeOK
  <2>7. pc'[t] = "device_close"
    BY <2>1 DEF TypeOK
  <2>8. Alive(t)' /\ Shape(t)'
    BY <2>1, <2>2, <2>4, <2>5, <2>6, <2>7
       DEF Alive, Cleanup, Shape, Loop, NoEncoder, Ready, Buffers, Requested, Idle
  <2>. QED  BY <1>0, <2>1, <2>4, <2>7, <2>8 DEF StepGoal, Shaped, FramesHeld, SetUp, Loop
<1>4. CASE Close(t)
  <2>1. /\ pc[t] = "device_close" /\ device_close /\ UNCHANGED g_h264
        /\ pc' = [pc EXCEPT ![t] = "cancelled"]
    BY <1>4 DEF Close, CleanupStep, At, Goto
  <2>2. /\ Holds({"fd"}, t) /\ NoEncoder /\ NoMaps /\ Idle
        /\ gdev.fd = t /\ camera.owner = t
    BY <2>1 DEF Shaped, Shape, Alive, Cleanup
  <2>3. held' = held \ {<<"fd", t>>} /\ UNCHANGED maps /\ Settle(held', maps)
    BY <2>1, <2>2 DEF device_close
  <2>4. camera' = NoOwner
    BY <2>2, <2>3 DEF Settle, NoMaps
  <2>5. HoldsNothing'
    BY <2>2, <2>3 DEF Holds, HoldsNothing, Live
  <2>6. pc'[t] = "cancelled"
    BY <2>1 DEF TypeOK
  <2>7. ~Alive(t)' /\ Closed'
    BY <2>1, <2>2, <2>3, <2>4, <2>5, <2>6
       DEF Alive, SetUp, Loop, Cleanup, Closed, NoEncoder, NoMaps
  <2>. QED  BY <1>0, <2>1, <2>3, <2>6, <2>7 DEF StepGoal, Shaped, FramesHeld, SetUp, Loop
<1>. QED  BY <1>1, <1>2, <1>3, <1>4

(* Together: a step in order keeps the shape, and a fault has its cause. *)
LEMMA StepShaped ==
  ASSUME TypeOK, Shaped, NoneAtHand, Orderly, NEW t \in Thread, Step(t), Orderly', running',
         breach \subseteq breach'
  PROVE  Shaped'
<1>1. ~OpenError(t)
  BY DEF OpenError, At, Shaped, Shape, Alive, SetUp
<1>2. StepGoal(t)
  BY <1>1, CancelShaped, OpenShaped, ConfigureShaped, RequestShaped, ResetShaped, MapShaped, BeginShaped,
     StartShaped, SelectShaped, DequeueShaped, FrameShaped, RequeueShaped, CleanupShaped
     DEF Step
<1>3. UNCHANGED <<cancelled, shot>>
  BY StepControlType
<1>4. Alive(t)
  <2>1. pc[t] \in SetUp \cup Loop \cup Cleanup
    <3>1. CASE Cancel(t)
      BY <3>1 DEF Cancel, MustCancel, MayCancel, SetUp, Loop
    <3>2. CASE Open(t) \/ Configure(t) \/ RequestBuffers(t) \/ ResetCount(t)
                \/ MapBuffers(t)
               \/ BeginEncoding(t) \/ StartCapture(t)
      BY <3>2 DEF Open, Configure, RequestBuffers, ResetCount, MapBuffers, BeginEncoding, StartCapture,
                  At, SetUp
    <3>3. CASE Select(t) \/ Dequeue(t) \/ Copy(t) \/ Encode(t) \/ CopyNals(t) \/ SendHeader(t)
               \/ SendPayload(t) \/ Pace(t) \/ Requeue(t)
      BY <3>3 DEF Select, Dequeue, Copy, Encode, CopyNals, SendHeader, SendPayload, Pace, Requeue, At,
                  Loop
    <3>4. CASE StopCapture(t) \/ EndEncoding(t) \/ Uninit(t) \/ Close(t)
      BY <3>4 DEF StopCapture, EndEncoding, Uninit, Close, CleanupStep, At, Cleanup
    <3>. QED  BY <1>1, <3>1, <3>2, <3>3, <3>4 DEF Step
  <2>. QED  BY <2>1 DEF Alive
<1>5. \A u \in Thread \ {t} : ~Alive(u) /\ ~Alive(u)' /\ pc'[u] = pc[u]
  BY <1>2, <1>4 DEF Shaped, OneAlive, StepGoal, Alive
<1>6. OneAlive' /\ (NobodyRuns' => Closed') /\ \A u \in Thread : Alive(u)' => Shape(u)'
  BY <1>2, <1>5 DEF OneAlive, NobodyRuns, StepGoal
<1>7. CancelledThreads'
  BY <1>2, <1>3 DEF Shaped, CancelledThreads, StepGoal, TypeOK
<1>8. FramesHeld'
  BY <1>2, <1>3 DEF Shaped, FramesHeld, StepGoal
<1>9. ShotLive'
  <2>1. SUFFICES ASSUME shot # NULL, "photo" \notin breach
                 PROVE  pc'[shot] \in Loop /\ shot \notin cancelled
    BY <1>3 DEF ShotLive
  <2>2. shot \in Thread /\ pc[shot] \in Loop /\ shot \notin cancelled
    BY <2>1 DEF Shaped, ShotLive, TypeOK
  <2>. QED  BY <1>2, <1>5, <2>2 DEF StepGoal, Alive
<1>. QED  BY <1>6, <1>7, <1>8, <1>9 DEF Shaped

(* A step that commits a fault has recorded its cause. *)
LEMMA MainFaults ==
  ASSUME TypeOK, Shaped, Orderly, running, Main
  PROVE  FaultCause'
<1>0. faults = {}
  BY DEF running
<1>1. CASE do_preview_start
  BY <1>0, <1>1 DEF do_preview_start, processVars, FaultCause
<1>2. CASE do_preview_stop
  BY <1>0, <1>2 DEF do_preview_stop, Raise, If, FaultCause, Causes
<1>3. CASE do_takephoto
  <2>1. gdev.frame = NULL => ~ \E t \in Thread : pc[t] \in Loop /\ t \notin cancelled
    BY ThreadAssumption, CapturingHolds DEF Shaped, Shape, Alive, Ready
  <2>2. faults' \subseteq {"null_deref"} /\ (faults' # {} => "photo" \in breach')
    BY <1>0, <1>3, <2>1 DEF do_takephoto, Raise, If
  <2>. QED  BY <2>2 DEF FaultCause, Causes
<1>4. CASE process_photo
  <2>1. "photo" \in breach \/ ~Dangling("frame", shot)
    <3>1. SUFFICES ASSUME "photo" \notin breach PROVE ~Dangling("frame", shot)
      OBVIOUS
    <3>2. shot \in Thread /\ pc[shot] \in Loop
      BY <1>4, <3>1 DEF process_photo, Shaped, ShotLive, TypeOK
    <3>3. Capturing(shot)
      BY <3>2, LoopFacts
    <3>. QED  BY <3>2, <3>3, CapturingHolds DEF Dangling
  <2>2. faults' \subseteq {"use_after_free"} /\ (faults' # {} => "photo" \in breach')
    BY <1>0, <1>4, <2>1 DEF process_photo, Raise, If
  <2>. QED  BY <2>2 DEF FaultCause, Causes
<1>. QED  BY <1>1, <1>2, <1>3, <1>4 DEF Main

LEMMA StepFaults ==
  ASSUME TypeOK, Shaped, Orderly, running, NEW t \in Thread, Step(t), breach \subseteq breach'
  PROVE  FaultCause'
<1>0. faults = {}
  BY DEF running
<1>1. ASSUME faults' = {} PROVE FaultCause'
  BY <1>1 DEF FaultCause
<1>2. CASE \/ Cancel(t) \/ Open(t) \/ OpenError(t) \/ Configure(t) \/ RequestBuffers(t)
           \/ ResetCount(t) \/ BeginEncoding(t) \/ StartCapture(t)
  BY <1>0, <1>1, <1>2 DEF Cancel, Open, OpenError, Configure, RequestBuffers, ResetCount,
     BeginEncoding, StartCapture, Sane, processVars
<1>3. CASE \/ Dequeue(t) \/ SendHeader(t) \/ SendPayload(t) \/ Pace(t)
           \/ Requeue(t) \/ StopCapture(t) \/ Close(t)
  BY <1>0, <1>1, <1>3 DEF Dequeue, SendHeader, SendPayload, Pace, Requeue, StopCapture,
     Close, Sane, processVars
<1>4. CASE MapBuffers(t)
  <2>1. gdev.buffers = t /\ Live("buffers", t)
    BY <1>4 DEF MapBuffers, At, Shaped, Shape, Alive, SetUp, Buffers, Requested, Holds, Assets, Kind
  <2>2. faults' = {}
    BY <1>0, <1>4, <2>1, ThreadAssumption DEF MapBuffers, map_buffer, Raise, If, Dangling, Sane
  <2>. QED  BY <1>1, <2>2
<1>5. CASE Copy(t)
  <2>1. pc[t] = "copy"
    BY <1>5 DEF Copy, At
  <2>2. /\ Capturing(t) /\ gdev.n_buffers = camera.count
        /\ buf[t].index \in Indices(camera.count)
    BY <2>1, LoopFacts DEF Loop, Shape
  <2>3. ~(buf[t].index >= gdev.n_buffers)
    BY <2>2 DEF Indices, TypeOK, DeviceTypeOK
  <2>4. /\ gdev.buffers = t /\ gdev.frame = t /\ Live("buffers", t) /\ Live("frame", t)
        /\ buf[t].index \in maps[t]
    BY <2>2, CapturingHolds DEF Ready, Buffers, Requested, MappedBy
  <2>5. faults' = {}
    BY <1>0, <1>5, <2>3, <2>4, ThreadAssumption DEF Copy, copy_frame, Raise, If, Dangling
  <2>. QED  BY <1>1, <2>5
<1>6. CASE Encode(t)
  <2>1. pc[t] = "encode"
    BY <1>6 DEF Encode, At
  <2>2. /\ Capturing(t) /\ gdev.n_buffers = camera.count
        /\ buf[t].index \in Indices(camera.count) /\ buf[t].array = t
    BY <2>1, LoopFacts DEF Loop, Shape
  <2>3. Mapped(buf[t].array, buf[t].index)
    BY <2>2, CapturingHolds, ThreadAssumption DEF Mapped, Ready, Buffers, Requested, MappedBy
  <2>4. CASE Encoding(t)
    <3>1. EncoderOf(t) /\ Live("encoder", t) /\ Live("picture", t)
      BY <2>4 DEF Encoding, Holds, Assets, Kind
    <3>2. faults' = {}
      BY <1>0, <1>6, <2>3, <3>1, ThreadAssumption
         DEF Encode, h264_encode, Raise, If, Dangling, EncoderOf, processVars
    <3>. QED  BY <1>1, <3>2
  <2>5. CASE EncoderFailed(t)
    <3>1. ~Dangling("picture", g_h264.picture) /\ ~Dangling("encoder", g_h264.x264)
      BY <2>5 DEF EncoderFailed, Dangling, Holds, Assets, Kind
    <3>2. faults' \subseteq {"null_deref"}
      BY <1>0, <1>6, <2>3, <3>1 DEF Encode, h264_encode, Raise, If, processVars
    <3>3. "encoder" \in breach'
      BY <2>5 DEF EncoderFailed
    <3>. QED  BY <3>2, <3>3 DEF FaultCause, Causes
  <2>. QED  BY <2>2, <2>4, <2>5 DEF Capturing
<1>7. CASE CopyNals(t)
  <2>1. pc[t] = "copy_nals"
    BY <1>7 DEF CopyNals, At
  <2>2. g_h264.nal = t
    BY <2>1, LoopFacts DEF Loop, Shape
  <2>3. faults' = {}
    BY <1>0, <1>7, <2>2, ThreadAssumption DEF CopyNals, copy_nals, Raise, If
  <2>. QED  BY <1>1, <2>3
<1>8. CASE EndEncoding(t)
  <2>1. pc[t] = "h264_end" /\ h264_encode_end
    BY <1>8 DEF EndEncoding, CleanupStep, At
  <2>2. CASE TooEarly
    <3>1. faults' \subseteq {"clean_unallocated", "null_deref"}
      BY <1>0, <2>1, <2>2 DEF TooEarly, NoEncoder, Zeroed, h264_encode_end, Raise, If, Dangling
    <3>2. "early" \in breach'
      BY <2>2 DEF TooEarly
    <3>. QED  BY <3>1, <3>2 DEF FaultCause, Causes
  <2>3. CASE Encoding(t)
    <3>1. EncoderOf(t) /\ Live("encoder", t) /\ Live("picture", t)
      BY <2>3 DEF Encoding, Holds, Assets, Kind
    <3>2. faults' = {}
      BY <1>0, <2>1, <3>1, ThreadAssumption
         DEF h264_encode_end, Raise, If, Dangling, EncoderOf
    <3>. QED  BY <1>1, <3>2
  <2>4. CASE EncoderFailed(t)
    <3>1. ~Dangling("picture", g_h264.picture) /\ ~Dangling("encoder", g_h264.x264)
      BY <2>4 DEF EncoderFailed, Dangling, Holds, Assets, Kind
    <3>2. faults' \subseteq {"clean_unallocated", "null_deref"}
      BY <1>0, <2>1, <3>1 DEF h264_encode_end, Raise, If
    <3>3. "encoder" \in breach'
      BY <2>4 DEF EncoderFailed
    <3>. QED  BY <3>2, <3>3 DEF FaultCause, Causes
  <2>. QED  BY <2>1, <2>2, <2>3, <2>4 DEF Shaped, Shape, Alive, Cleanup, Capturing
<1>9. CASE Uninit(t)
  <2>1. pc[t] = "device_uninit" /\ device_uninit
    BY <1>9 DEF Uninit, CleanupStep, At
  <2>2. /\ gdev.buffers = t /\ gdev.frame = t /\ Live("buffers", t) /\ Live("frame", t)
    BY <2>1 DEF Shaped, Shape, Alive, Cleanup, Ready, Buffers, Requested, Holds, Assets, Kind
  <2>3. faults' = {}
    BY <1>0, <2>1, <2>2 DEF device_uninit, Raise, If, Dangling
  <2>. QED  BY <1>1, <2>3
<1>10. CASE Select(t)
  <2>1. gdev.fd = t
    BY <1>10, LoopFacts DEF Select, At, Loop, Capturing, Ready, Buffers, Requested
  <2>2. faults' = {}
    BY <1>0, <1>10, <2>1, DeviceAssumption DEF Select, Raise, If
  <2>. QED  BY <1>1, <2>2
<1>. QED  BY <1>2, <1>3, <1>4, <1>5, <1>6, <1>8, <1>9, <1>7, <1>10 DEF Step

LEMMA NextIInv == IInv /\ [Next]_vars => IInv'
<1>. SUFFICES ASSUME IInv, [Next]_vars PROVE IInv'
  OBVIOUS
<1>1. TypeOK /\ TypeOK'
  BY NextType DEF IInv
<1>2. CASE UNCHANGED vars
  <2>1. Shaped => Shaped'
    <3>1. ASSUME NEW t \in Thread, Shape(t)  PROVE Shape(t)'
      <4>1. Capturing(t) => Capturing(t)'
        BY <1>2, CapturingStays DEF vars, processVars, deviceVars
      <4>. QED  BY <1>2, <3>1, <4>1 DEF vars, processVars, deviceVars, threadVars, Shape, Opened,
                Closed, HoldsNothing, Holds, Live, NoMaps, NoEncoder, Buffers, Requested, MappedBy,
                Idle, Ready, TooEarly
    <3>2. Closed => Closed'
      BY <1>2 DEF vars, processVars, deviceVars, Closed, HoldsNothing, Live, NoMaps, NoEncoder
    <3>3. ASSUME Shaped  PROVE (OneAlive /\ CancelledThreads /\ FramesHeld /\ ShotLive)'
      BY <1>2, <3>3 DEF vars, processVars, threadVars, mainVars, Shaped, OneAlive, Alive,
         CancelledThreads, FramesHeld, ShotLive
    <3>. QED  BY <1>2, <3>1, <3>2, <3>3 DEF vars, threadVars, Shaped, NobodyRuns, Alive
  <2>2. (Orderly' <=> Orderly) /\ (running' <=> running) /\ (FaultCause => FaultCause')
    BY <1>2 DEF vars, processVars, Orderly, running, FaultCause
  <2>3. NoneAtHand'
    BY <1>2 DEF IInv, NoneAtHand, vars, threadVars
  <2>. QED  BY <1>1, <2>1, <2>2, <2>3 DEF IInv
<1>3. CASE Next
  <2>1. running /\ breach \subseteq breach' /\ (Orderly' => Orderly)
    BY <1>1, <1>3, History
  <2>2. Orderly' => Shaped /\ Orderly
    BY <2>1 DEF IInv
  <2>3. Orderly' => FaultCause'
    BY <1>1, <1>3, <2>1, <2>2, MainFaults, StepFaults DEF Next
  <2>4. Orderly' /\ running' => Shaped'
    BY <1>1, <1>3, <2>1, <2>2, MainShaped, StepShaped DEF Next, IInv
  <2>5. NoneAtHand /\ NoneAtHand'
    BY <1>1, <1>3, StillNoneAtHand DEF IInv
  <2>. QED  BY <1>1, <2>3, <2>4, <2>5 DEF IInv
<1>. QED  BY <1>2, <1>3

LEMMA Invariance == Spec => []IInv
<1>1. Init => IInv
  BY InitIInv
<1>2. IInv /\ [Next]_vars => IInv'
  BY NextIInv
<1>. QED  BY <1>1, <1>2, PTL DEF Spec

-----------------------------------------------------------------------------
(***************************************************************************)
(* The theorems.                                                           *)
(***************************************************************************)

(* cleanup() releases all that the set-up acquired but the encoded frame   *)
(* of a thread cancelled inside send, for any number of previews.          *)
THEOREM Releases == Spec => []StopReleasesAll
<1>1. IInv => StopReleasesAll
  <2>. SUFFICES ASSUME IInv, Orderly, running, NobodyRuns
                PROVE  /\ held \subseteq {"pframe"} \X cancelled
                       /\ maps = [t \in Thread |-> {}]
                       /\ camera = NoOwner
    BY DEF StopReleasesAll
  <2>1. Closed /\ FramesHeld /\ TypeOK
    BY DEF IInv, Shaped
  <2>2. held \subseteq {"pframe"} \X cancelled
    <3>1. ASSUME NEW kind \in Kind, NEW t \in Thread, <<kind, t>> \in held
          PROVE  kind = "pframe" /\ t \in cancelled
      BY <2>1, <3>1 DEF Closed, HoldsNothing, Live, Assets, FramesHeld, NobodyRuns, Alive, Loop
    <3>. QED  BY <2>1, <3>1 DEF TypeOK, ProcessTypeOK, Resource
  <2>3. maps = [t \in Thread |-> {}] /\ camera = NoOwner
    BY <2>1 DEF Closed, NoMaps, TypeOK, DeviceTypeOK
  <2>. QED  BY <2>2, <2>3
<1>. QED  BY <1>1, Invariance, PTL

(* No buffer is lost between the driver's queue and the capture loop, for  *)
(* every number of buffers the driver may grant.                           *)
THEOREM Conserves == Spec => []BuffersConserved
<1>1. IInv => BuffersConserved
  <2>. SUFFICES ASSUME IInv, Orderly, running, NEW t \in Thread, pc[t] \in Loop
                PROVE  /\ camera.queued \cap InHand(t) = {}
                       /\ camera.queued \cup InHand(t) = Indices(camera.count)
    BY DEF BuffersConserved
  <2>1. Shape(t)
    BY DEF IInv, Shaped, Alive
  <2>. QED  BY <2>1 DEF Shape, InHand
<1>. QED  BY <1>1, Invariance, PTL

=============================================================================
