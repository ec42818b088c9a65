--------------------------- MODULE FailureProofs ---------------------------
(***************************************************************************)
(* Proofs about Preview when its calls fail or its threads overlap:        *)
(* FaultCause for every set of breaches, SelfEndKeepsCamera and            *)
(* OverlapEndsCapture.                                                     *)
(*                                                                         *)
(* After a failure the shape of the state that PreviewProofs describes is  *)
(* gone: pointers dangle, descriptors of earlier previews stay behind and  *)
(* the driver's queue may belong to one of them.  What is left is          *)
(* described by several small invariants, each under the breaches that it  *)
(* survives.                                                               *)
(***************************************************************************)
EXTENDS PreviewProofs

(* Breaches that have not happened. *)
Without(B) == breach \cap B = {}

InMmap   == {"reset_count", "map_buffers"}
Prepared == {"h264_begin", "capture_start"} \cup Loop
InHands  == Loop \ {"select", "dequeue"}

(* The elements of buffers[] below n_buffers are mapped.                   *)
Mapping ==
  Live("buffers", gdev.buffers) => Indices(gdev.n_buffers) \subseteq maps[gdev.buffers]

(* A thread that is told to stop was in its loop, unless STOP came early.  *)
InTime(t) == pc[t] \in {"new"} \cup SetUp => t \notin cancelled

(* Without overlap nobody else touches what the thread is working on.      *)
ByItself(t) ==
  /\ pc[t] = "init_mmap" => CanConfigure /\ gdev.n_buffers = 0
  /\ pc[t] = "reset_count" => gdev.n_buffers = 0
  /\ pc[t] \in InMmap => gdev.buffers = t
  /\ pc[t] \in InMmap \cup Prepared /\ Owns => gdev.n_buffers <= camera.count
  /\ pc[t] = "encode" /\ buf[t].array # NULL => Mapped(buf[t].array, buf[t].index)
  /\ pc[t] = "copy_nals" => g_h264.nal = t

(* If the device file can be opened, a preview works on its own descriptor. *)
OwnDevice(t) ==
  /\ pc[t] # "open_error"
  /\ pc[t] \in (SetUp \ {"device_open"}) \cup Loop => gdev.fd = t /\ Live("fd", t)
  /\ pc[t] \in {"new", "device_open", "device_init"} => camera.owner # t

(* If it is not stopped too early either, its cleanup closes that one, and *)
(* a loop that ended on its own leaves it open.                            *)
Keeps(t) ==
  /\ pc[t] \in Cleanup => gdev.fd = t /\ Live("fd", t)
  /\ pc[t] = "returned" => Live("fd", t)

(* While the driver refuses nothing it could do, a loop that does not own  *)
(* the queue finds it empty, and one that does gets all its buffers back.  *)
Fed(t) ==
  /\ pc[t] = "capture_start" =>
       IF Owns THEN /\ camera.queued = Indices(buf[t].index)
                    /\ buf[t].index <= gdev.n_buffers
               ELSE camera.queued = {}
  /\ pc[t] \in {"select", "dequeue"} =>
       IF Owns THEN camera.streaming /\ camera.queued = Indices(gdev.n_buffers)
               ELSE camera.queued = {}
  /\ pc[t] \in InHands =>
       /\ Owns /\ camera.streaming
       /\ buf[t].index \in Indices(gdev.n_buffers)
       /\ camera.queued = Indices(gdev.n_buffers) \ {buf[t].index}
  /\ pc[t] = "capture_stop" => Owns \/ camera.queued = {}

Fills == {"capture_start", "capture_stop"} \cup Loop

(* Unless opening fails as well, only mapped buffers are queued.           *)
Within(t) ==
  /\ pc[t] \in InMmap \cup Prepared /\ Owns =>
       camera.queued \subseteq Indices(gdev.n_buffers)
  /\ pc[t] \in InHands => buf[t].index \in Indices(gdev.n_buffers)

Bounding == Without({"overlap", "open"}) \/ Without({"overlap", "capture"})

(* With an encoder that starts, and no early STOP, it is there until the   *)
(* thread itself ends it.                                                  *)
Encodes(t) ==
  pc[t] \in {"capture_start", "capture_stop", "h264_end"} \cup Loop =>
    g_h264.x264 = t /\ g_h264.picture = t

(* With a device that opens and gives buffers, there is a frame to copy to *)
(* and buffers[] to copy from, if only those of an earlier preview.        *)
HasFrame == gdev.frame # NULL /\ gdev.buffers # NULL

Filled(t) ==
  /\ pc[t] \in InMmap => Owns /\ req[t] = camera.count
  /\ pc[t] \in Prepared => HasFrame

FInv ==
  /\ Without({"early"}) => \A t \in Thread : InTime(t)
  /\ Without({"overlap"}) => OneAlive /\ Mapping /\ \A t \in Thread : ByItself(t)
  /\ Without({"overlap", "open"}) => \A t \in Thread : OwnDevice(t)
  /\ Without({"overlap", "open", "early"}) => \A t \in Thread : Keeps(t)
  /\ Without({"overlap", "capture"}) =>
       /\ \A t \in Thread : Fed(t)
       /\ (\A t \in Thread : pc[t] \notin Fills) => camera.queued = {}
  /\ Bounding => \A t \in Thread : Within(t)
  /\ Without({"overlap", "early", "encoder"}) => \A t \in Thread : Encodes(t)
  /\ Without({"overlap", "open", "buffers"}) =>
       /\ \A t \in Thread : Filled(t)
       /\ camera.owner # NULL /\ (\A t \in Thread : pc[t] \notin InMmap) => HasFrame

(* What it says about the one thread that is alive. *)
FHere(t) ==
  /\ Without({"early"}) => InTime(t)
  /\ Without({"overlap"}) => Mapping /\ ByItself(t)
  /\ Without({"overlap", "open"}) => OwnDevice(t)
  /\ Without({"overlap", "open", "early"}) => Keeps(t)
  /\ Without({"overlap", "capture"}) => Fed(t) /\ (pc[t] \notin Fills => camera.queued = {})
  /\ Bounding => Within(t)
  /\ Without({"overlap", "early", "encoder"}) => Encodes(t)
  /\ Without({"overlap", "open", "buffers"}) =>
       Filled(t) /\ (camera.owner # NULL /\ pc[t] \notin InMmap => HasFrame)

(* What a step of t leaves to the others, who are not alive. *)
Spares(t) ==
  /\ pc'[t] # "new" /\ (pc'[t] \in SetUp => pc[t] \in SetUp)
  /\ Without({"overlap", "open"})' => camera'.owner \in {camera.owner, NULL, t}
  /\ Without({"overlap", "open", "early"})' =>
       \A u \in Thread \ {t} : Live("fd", u) => Live("fd", u)'

-----------------------------------------------------------------------------
USE ThreadAssumption, DeviceAssumption DEF InMmap

(* What has not been breached after a step had not been breached before    *)
(* it.                                                                     *)
LEMMA Earlier ==
  ASSUME breach \subseteq breach'
  PROVE  /\ \A B, C : Without(B)' /\ C \subseteq B => Without(C)
         /\ \A B : Without(B)' => Without(B)
         /\ Bounding' => Bounding
  BY DEF Without, Bounding

(* The invariant, looked at from one thread that is alive. *)
LEMMA Here ==
  ASSUME FInv, NEW t \in Thread, Alive(t)
  PROVE  FHere(t)
<1>1. Without({"overlap"}) => \A u \in Thread \ {t} : ~Alive(u)
  BY DEF FInv, OneAlive
<1>2. \A B, C : Without(B) /\ C \subseteq B => Without(C)
  BY DEF Without
<1>3. Without({"overlap", "capture"}) /\ pc[t] \notin Fills => camera.queued = {}
  BY <1>1, <1>2 DEF FInv, Alive, Fills, SetUp, Cleanup
<1>4. Without({"overlap", "open", "buffers"}) /\ camera.owner # NULL /\ pc[t] \notin InMmap
        => HasFrame
  BY <1>1, <1>2 DEF FInv, Alive, SetUp, InMmap
<1>. QED  BY <1>3, <1>4 DEF FInv, FHere

(* Only threads that are alive take steps. *)
LEMMA StepMoves ==
  ASSUME TypeOK, NEW t \in Thread, Step(t)
  PROVE  /\ Alive(t)
         /\ pc' = [pc EXCEPT ![t] = pc'[t]] /\ pc'[t] \in Label
         /\ cancelled' = cancelled
<1>1. pc[t] \in SetUp \cup Loop \cup Cleanup
  <2>1. CASE Cancel(t)
    BY <2>1 DEF Cancel, MustCancel, MayCancel, SetUp, Loop
  <2>2. CASE Open(t) \/ OpenError(t) \/ Configure(t) \/ RequestBuffers(t) \/ ResetCount(t)
             \/ MapBuffers(t) \/ BeginEncoding(t) \/ StartCapture(t)
    BY <2>2 DEF Open, OpenError, Configure, RequestBuffers, ResetCount, MapBuffers,
                BeginEncoding, StartCapture, At, SetUp
  <2>3. CASE Select(t) \/ Dequeue(t) \/ Copy(t) \/ Encode(t) \/ CopyNals(t) \/ SendHeader(t)
             \/ SendPayload(t) \/ Pace(t) \/ Requeue(t)
    BY <2>3 DEF Select, Dequeue, Copy, Encode, CopyNals, SendHeader, SendPayload, Pace, Requeue,
                At, Loop
  <2>4. CASE StopCapture(t) \/ EndEncoding(t) \/ Uninit(t) \/ Close(t)
    BY <2>4 DEF StopCapture, EndEncoding, Uninit, Close, CleanupStep, At, Cleanup
  <2>. QED  BY <2>1, <2>2, <2>3, <2>4 DEF Step
<1>2. pc' = pc \/ \E label : pc' = [pc EXCEPT ![t] = label]
  <2>. USE DEF Branch, CleanupStep, Goto
  <2>1. CASE Cancel(t) \/ OpenError(t) \/ Select(t) \/ Pace(t)
    BY <2>1 DEF Cancel, OpenError, Select, Pace
  <2>2. CASE Open(t) \/ Configure(t) \/ RequestBuffers(t) \/ ResetCount(t) \/ MapBuffers(t)
    BY <2>2 DEF Open, Configure, RequestBuffers, ResetCount, MapBuffers
  <2>3. CASE BeginEncoding(t) \/ StartCapture(t) \/ Dequeue(t) \/ Copy(t) \/ Encode(t)
            \/ CopyNals(t)
    BY <2>3 DEF BeginEncoding, StartCapture, Dequeue, Copy, Encode, CopyNals
  <2>4. CASE SendHeader(t) \/ SendPayload(t) \/ Requeue(t)
    BY <2>4 DEF SendHeader, SendPayload, Requeue
  <2>5. CASE StopCapture(t) \/ EndEncoding(t) \/ Uninit(t) \/ Close(t)
    BY <2>5 DEF StopCapture, EndEncoding, Uninit, Close
  <2>. QED  BY <2>1, <2>2, <2>3, <2>4, <2>5 DEF Step
<1>3. pc' = [pc EXCEPT ![t] = pc'[t]]
  BY <1>2 DEF TypeOK
<1>. QED  BY <1>1, <1>3, StepControlType DEF Alive

(* The step of a thread that knows all this brings about all of it. *)
LEMMA There ==
  ASSUME TypeOK, FInv, breach \subseteq breach', NEW t \in Thread, Step(t), FHere(t)', Spares(t)
  PROVE  FInv'
<1>1. /\ Alive(t) /\ \A u \in Thread \ {t} : pc'[u] = pc[u]
      /\ cancelled' = cancelled
  BY StepMoves DEF TypeOK
<1>2. \A B, C : Without(B)' /\ C \subseteq B => Without(C) /\ Without(C)'
  BY DEF Without
<1>3. Without({"overlap"})' => \A u \in Thread \ {t} : ~Alive(u) /\ ~Alive(u)'
  BY <1>1, <1>2 DEF FInv, OneAlive, Alive
<1>4. Without({"early"})' => \A u \in Thread : InTime(u)'
  BY <1>1, <1>2 DEF FInv, FHere, InTime
<1>5. Without({"overlap"})' => OneAlive' /\ Mapping' /\ \A u \in Thread : ByItself(u)'
  <2>1. ASSUME Without({"overlap"})', NEW u \in Thread \ {t}  PROVE ByItself(u)'
    BY <1>3, <2>1 DEF ByItself, Alive, Prepared, SetUp, Loop
  <2>. QED  BY <1>3, <2>1 DEF FHere, OneAlive
<1>6. Without({"overlap", "open"})' => \A u \in Thread : OwnDevice(u)'
  <2>1. ASSUME Without({"overlap", "open"})', NEW u \in Thread \ {t}  PROVE OwnDevice(u)'
    <3>1. ~Alive(u) /\ pc'[u] = pc[u] /\ OwnDevice(u)
      BY <1>1, <1>2, <1>3, <2>1 DEF FInv
    <3>. QED  BY <2>1, <3>1 DEF OwnDevice, Alive, SetUp, Loop, Spares
  <2>. QED  BY <2>1 DEF FHere
<1>7. Without({"overlap", "open", "early"})' => \A u \in Thread : Keeps(u)'
  <2>1. ASSUME Without({"overlap", "open", "early"})', NEW u \in Thread \ {t}  PROVE Keeps(u)'
    <3>1. ~Alive(u) /\ pc'[u] = pc[u] /\ Keeps(u)
      BY <1>1, <1>2, <1>3, <2>1 DEF FInv
    <3>. QED  BY <2>1, <3>1 DEF Keeps, Alive, Cleanup, Spares
  <2>. QED  BY <2>1 DEF FHere
<1>8. Without({"overlap", "capture"})' =>
        /\ \A u \in Thread : Fed(u)'
        /\ (\A u \in Thread : pc'[u] \notin Fills) => camera'.queued = {}
  <2>1. ASSUME Without({"overlap", "capture"})', NEW u \in Thread \ {t}  PROVE Fed(u)'
    BY <1>2, <1>3, <2>1 DEF Fed, Alive, InHands, SetUp, Loop, Cleanup
  <2>. QED  BY <2>1 DEF FHere
<1>9. Bounding' => \A u \in Thread : Within(u)'
  <2>1. ASSUME Bounding', NEW u \in Thread \ {t}  PROVE Within(u)'
    BY <1>2, <1>3, <2>1 DEF Bounding, Within, Alive, InHands, Prepared, Loop, SetUp
  <2>. QED  BY <2>1 DEF FHere
<1>10. Without({"overlap", "early", "encoder"})' => \A u \in Thread : Encodes(u)'
  <2>1. ASSUME Without({"overlap", "early", "encoder"})', NEW u \in Thread \ {t}
        PROVE  Encodes(u)'
    BY <1>2, <1>3, <2>1 DEF Encodes, Alive, Loop, SetUp, Cleanup
  <2>. QED  BY <2>1 DEF FHere
<1>11. Without({"overlap", "open", "buffers"})' =>
         /\ \A u \in Thread : Filled(u)'
         /\ camera'.owner # NULL /\ (\A u \in Thread : pc'[u] \notin InMmap) => HasFrame'
  <2>1. ASSUME Without({"overlap", "open", "buffers"})', NEW u \in Thread \ {t}
        PROVE  Filled(u)'
    BY <1>2, <1>3, <2>1 DEF Filled, Alive, Prepared, Loop, SetUp
  <2>. QED  BY <2>1 DEF FHere
<1>. QED  BY <1>4, <1>5, <1>6, <1>7, <1>8, <1>9, <1>10, <1>11 DEF FInv, FHere

-----------------------------------------------------------------------------
(***************************************************************************)
(* The steps of the preview thread.                                        *)
(***************************************************************************)

Onward(t) == FHere(t)' /\ Spares(t)

(* Steps that leave the device alone. *)
Quiet(t) ==
  \/ Cancel(t) \/ OpenError(t) \/ BeginEncoding(t) \/ Select(t) \/ Copy(t) \/ Encode(t)
  \/ CopyNals(t) \/ SendHeader(t) \/ SendPayload(t) \/ Pace(t) \/ EndEncoding(t)

Leads(t, from, to) == pc[t] = from /\ pc'[t] = to

(* Where they lead, with the dequeued buffer in hand. *)
QuietMove(t) ==
  \/ /\ t \in cancelled /\ pc[t] \in MustCancel \cup MayCancel
     /\ pc'[t] = "capture_stop"
  \/ Leads(t, "open_error", "device_init")
  \/ Leads(t, "h264_begin", "capture_start") /\ buf'[t] = buf[t]
  \/ Leads(t, "select", "dequeue")
  \/ Leads(t, "select", "returned") /\ ("capture" \in breach' \/ ~CanDequeue)
  \/ /\ pc[t] \in InHands /\ pc'[t] \in InHands \ {"copy"}
     /\ buf'[t].index = buf[t].index
     /\ pc'[t] = "encode" /\ buf'[t].array # NULL => Mapped(buf'[t].array, buf'[t].index)
     /\ pc'[t] = "copy_nals" => g_h264'.nal = t
  \/ Leads(t, "h264_end", "device_uninit")

SameDevice ==
  /\ deviceVars' = deviceVars
  /\ \A kind \in {"fd", "buffers"}, u \in Thread \cup {NULL} : Live(kind, u)' <=> Live(kind, u)

(* A quiet step leaves the device alone, and the encoder but for its       *)
(* beginning and end.                                                      *)
LEMMA QuietMoves ==
  ASSUME TypeOK, NEW t \in Thread, Quiet(t), running'
  PROVE  /\ SameDevice /\ cancelled' = cancelled
         /\ QuietMove(t)
         /\ pc'[t] = "capture_start" /\ "encoder" \notin breach' =>
              g_h264'.x264 = t /\ g_h264'.picture = t
         /\ pc'[t] \notin {"capture_start", "device_uninit"} =>
              g_h264'.x264 = g_h264.x264 /\ g_h264'.picture = g_h264.picture
<1>. USE DEF Leads
<1>1. ASSUME UNCHANGED <<deviceVars, held>>  PROVE SameDevice
  BY <1>1 DEF SameDevice, Live
<1>2. CASE Cancel(t)
  BY <1>1, <1>2 DEF Cancel, Goto, processVars, QuietMove, TypeOK
<1>3. CASE OpenError(t)
  BY <1>1, <1>3 DEF OpenError, At, Goto, processVars, QuietMove, TypeOK
<1>4. CASE BeginEncoding(t)
  <2>1. PICK outcome \in {"ok", "open", "picture"} :
          h264_encode_begin(t, outcome) /\ Goto(t, "capture_start")
          /\ Failed("encoder", outcome # "ok")
    BY <1>4 DEF BeginEncoding
  <2>2. Leads(t, "h264_begin", "capture_start") /\ buf'[t] = buf[t]
    BY <1>4, <2>1 DEF BeginEncoding, At, Goto, TypeOK
  <2>3. SameDevice
    BY <1>4, <2>1 DEF BeginEncoding, h264_encode_begin, If, SameDevice, Live
  <2>4. "encoder" \notin breach' => g_h264'.x264 = t /\ g_h264'.picture = t
    BY <2>1 DEF h264_encode_begin, Failed, If
  <2>. QED  BY <1>4, <2>2, <2>3, <2>4 DEF BeginEncoding, QuietMove
<1>5. CASE Select(t)
  BY <1>1, <1>5 DEF Select, At, Branch, Goto, Failed, If, processVars, QuietMove, TypeOK
<1>6. CASE Copy(t)
  <2>1. Leads(t, "copy", "encode") /\ UNCHANGED <<deviceVars, held, g_h264, cancelled>>
    BY <1>6 DEF Copy, At, Goto, copy_frame, TypeOK
  <2>2. /\ buf'[t].index = buf[t].index
        /\ buf'[t].array # NULL => Mapped(buf'[t].array, buf'[t].index)
    BY <1>6 DEF Copy, TypeOK
  <2>. QED  BY <1>1, <2>1, <2>2 DEF QuietMove, InHands, Loop
<1>7. CASE Encode(t)
  <2>1. pc[t] = "encode" /\ pc'[t] \in {"copy_nals", "pace"}
        /\ UNCHANGED <<deviceVars, cancelled, buf>>
    BY <1>7 DEF Encode, At, Goto, TypeOK
  <2>2. /\ pc'[t] = "copy_nals" => g_h264'.nal = t
        /\ g_h264'.x264 = g_h264.x264 /\ g_h264'.picture = g_h264.picture
    BY <1>7 DEF Encode, At, Goto, h264_encode, TypeOK, h264TypeOK
  <2>3. SameDevice
    BY <1>7, <2>1 DEF Encode, h264_encode, If, processVars, SameDevice, Live
  <2>. QED  BY <2>1, <2>2, <2>3 DEF QuietMove, InHands, Loop
<1>8. CASE CopyNals(t) \/ SendHeader(t) \/ SendPayload(t) \/ Pace(t)
  <2>1. /\ pc[t] \in {"copy_nals", "send_header", "send_payload", "pace"}
        /\ pc'[t] \in {"send_header", "send_payload", "pace", "requeue"}
        /\ UNCHANGED <<deviceVars, cancelled, buf, g_h264>>
    BY <1>8 DEF CopyNals, SendHeader, SendPayload, Pace, At, Goto, copy_nals, TypeOK
  <2>2. SameDevice
    BY <1>8, <2>1 DEF CopyNals, SendHeader, SendPayload, Pace, copy_nals, processVars,
       SameDevice, Live
  <2>. QED  BY <2>1, <2>2 DEF QuietMove, InHands, Loop
<1>9. CASE EndEncoding(t)
  <2>1. Leads(t, "h264_end", "device_uninit") /\ UNCHANGED <<deviceVars, cancelled>>
    BY <1>9 DEF EndEncoding, CleanupStep, At, Goto, TypeOK
  <2>2. SameDevice
    BY <1>9, <2>1 DEF EndEncoding, h264_encode_end, SameDevice, Live
  <2>. QED  BY <2>1, <2>2 DEF QuietMove
<1>. QED  BY <1>2, <1>3, <1>4, <1>5, <1>6, <1>7, <1>8, <1>9 DEF Quiet

(* What depends on the device alone. *)
LEMMA SameFacts ==
  ASSUME TypeOK, SameDevice
  PROVE  /\ FdOpen' <=> FdOpen
         /\ Owns' <=> Owns
         /\ CanConfigure' <=> CanConfigure
         /\ CanDequeue' <=> CanDequeue
         /\ gdev' = gdev /\ camera' = camera /\ maps' = maps
         /\ Mapping => Mapping'
         /\ HasFrame' <=> HasFrame
<1>1. gdev' = gdev /\ camera' = camera /\ maps' = maps
  BY DEF SameDevice, deviceVars
<1>2. FdOpen' <=> FdOpen
  BY <1>1 DEF FdOpen, SameDevice
<1>3. Live("buffers", gdev.buffers)' <=> Live("buffers", gdev.buffers)
  <2>1. gdev.buffers \in Thread \cup {NULL}
    BY DEF TypeOK, DeviceTypeOK
  <2>2. Live("buffers", gdev.buffers)' <=> <<"buffers", gdev.buffers>> \in held'
    BY <1>1 DEF Live
  <2>. QED  BY <2>1, <2>2 DEF SameDevice, Live
<1>. QED  BY <1>1, <1>2, <1>3 DEF Owns, CanConfigure, CanDequeue, HasFrame, Mapping

(* Each step of a preview leads from FHere onward. *)
LEMMA QuietOnward ==
  ASSUME TypeOK, NoneAtHand, NEW t \in Thread, FHere(t), breach \subseteq breach', running',
         Quiet(t)
  PROVE  Onward(t)
<1>0. /\ SameDevice /\ cancelled' = cancelled
      /\ QuietMove(t)
      /\ FdOpen' <=> FdOpen
      /\ Owns' <=> Owns
      /\ gdev' = gdev /\ camera' = camera /\ maps' = maps
      /\ HasFrame' <=> HasFrame
  BY QuietMoves, SameFacts
<1>a. \A B : Without(B)' => Without(B)
  BY Earlier
<1>b. Bounding' => Bounding
  BY Earlier
<1>c. \A B, C : Without(B)' /\ C \subseteq B => Without(C)
  BY Earlier
<1>1. Without({"overlap"})' => Mapping'
  BY SameFacts, <1>0, <1>a DEF FHere
<1>2. Without({"early"})' => InTime(t)'
  BY <1>0, <1>a DEF FHere, InTime, QuietMove, Leads, InHands, SetUp, Loop
<1>3. Without({"overlap"})' => ByItself(t)'
  <2>. SUFFICES ASSUME Without({"overlap"})'  PROVE ByItself(t)'
    OBVIOUS
  <2>1. ByItself(t)
    BY <1>a DEF FHere
  <2>2. pc'[t] \in InMmap \cup Prepared => pc[t] \in Prepared \cup {"open_error"}
    BY <1>0 DEF QuietMove, Leads, Prepared, InHands, Loop
  <2>3. pc'[t] \notin InMmap \cup {"init_mmap", "open_error"}
    BY <1>0 DEF QuietMove, Leads, InHands, Loop
  <2>4. pc'[t] = "encode" /\ buf'[t].array # NULL => Mapped(buf'[t].array, buf'[t].index)
    BY <1>0 DEF QuietMove, Leads
  <2>5. pc'[t] = "copy_nals" => g_h264'.nal = t
    BY <1>0 DEF QuietMove, Leads
  <2>6. pc[t] = "open_error" => pc'[t] \notin Prepared
    BY <1>0 DEF QuietMove, Leads, Prepared, InHands, Loop, MustCancel, MayCancel
  <2>. QED  BY <1>0, <2>1, <2>2, <2>3, <2>4, <2>5, <2>6 DEF ByItself, Mapped
<1>4. Without({"overlap", "open"})' => OwnDevice(t)'
  <2>. SUFFICES ASSUME Without({"overlap", "open"})'  PROVE OwnDevice(t)'
    OBVIOUS
  <2>1. OwnDevice(t)
    BY <1>a DEF FHere
  <2>2. pc'[t] \in SetUp \cup Loop \cup {"new"} =>
          pc[t] \in {"h264_begin"} \cup Loop /\ pc'[t] \in {"capture_start"} \cup Loop
    BY <1>0, <2>1 DEF QuietMove, Leads, InHands, SetUp, Loop, OwnDevice
  <2>3. Live("fd", t)' <=> Live("fd", t)
    BY <1>0 DEF SameDevice
  <2>. QED  BY <1>0, <2>1, <2>2, <2>3 DEF OwnDevice, SetUp, Loop
<1>5. Without({"overlap", "open", "early"})' => Keeps(t)'
  <2>. SUFFICES ASSUME Without({"overlap", "open", "early"})'  PROVE Keeps(t)'
    OBVIOUS
  <2>1. OwnDevice(t) /\ Keeps(t) /\ InTime(t)
    BY <1>c DEF FHere
  <2>2. pc'[t] \in Cleanup \cup {"returned"} => pc[t] \in Cleanup \cup Loop
    BY <1>0, <2>1 DEF QuietMove, Leads, InHands, SetUp, Loop, Cleanup, MustCancel, MayCancel, InTime
  <2>3. Live("fd", t)' <=> Live("fd", t)
    BY <1>0 DEF SameDevice
  <2>. QED  BY <1>0, <2>1, <2>2, <2>3 DEF OwnDevice, Keeps
<1>6. Without({"overlap", "capture"})' => Fed(t)' /\ (pc'[t] \notin Fills => camera'.queued = {})
  <2>. SUFFICES ASSUME Without({"overlap", "capture"})'
                PROVE  Fed(t)' /\ (pc'[t] \notin Fills => camera'.queued = {})
    OBVIOUS
  <2>1. Fed(t) /\ (pc[t] \notin Fills => camera.queued = {})
    BY <1>a DEF FHere
  <2>2. CASE pc'[t] \in InHands
    <3>1. pc[t] \in InHands /\ buf'[t].index = buf[t].index
      BY <1>0, <2>2 DEF QuietMove, Leads, InHands, Loop
    <3>. QED  BY <1>0, <2>1, <2>2, <3>1 DEF Fed, InHands, Loop, Fills
  <2>3. CASE pc'[t] = "dequeue"
    BY <1>0, <2>1, <2>3 DEF QuietMove, Leads, Fed, InHands, Loop, Fills
  <2>4. CASE pc'[t] = "capture_stop"
    BY <1>0, <2>1, <2>4 DEF QuietMove, Leads, Fed, InHands, Loop, Fills, MustCancel, MayCancel
  <2>5. CASE pc'[t] \notin Fills
    <3>1. pc[t] = "select" => CanDequeue \/ camera.queued = {}
      BY <2>1 DEF Fed, CanDequeue
    <3>2. pc[t] = "select" => "capture" \notin breach'
      BY DEF Without
    <3>3. pc[t] = "select" => camera.queued = {}
      BY <1>0, <2>5, <3>1, <3>2 DEF QuietMove, Leads, InHands, Loop, Fills
    <3>4. pc[t] \in Fills => pc[t] = "select"
      BY <1>0, <2>5 DEF QuietMove, Leads, InHands, Loop, Fills
    <3>. QED  BY <1>0, <2>1, <2>5, <3>3, <3>4 DEF Fed, Fills, InHands, Loop
  <2>6. pc'[t] # "select"
    BY <1>0 DEF QuietMove, Leads, InHands, Loop
  <2>7. CASE pc'[t] = "capture_start"
    <3>1. pc[t] = "h264_begin" /\ buf'[t] = buf[t]
      BY <1>0, <2>7 DEF QuietMove, Leads, InHands, Loop
    <3>2. buf'[t].index = 0 /\ camera.queued = {} /\ gdev.n_buffers \in Nat
      BY <2>1, <3>1 DEF NoneAtHand, NoBuffer, SetUp, Fills, Loop, TypeOK, DeviceTypeOK
    <3>3. Indices(0) = {}
      BY DEF Indices
    <3>. QED  BY <1>0, <2>7, <3>2, <3>3 DEF Fed, Fills, InHands, Loop
  <2>. QED  BY <2>2, <2>3, <2>4, <2>5, <2>6, <2>7 DEF Fills, InHands, Loop
<1>7. Bounding' => Within(t)'
  <2>. SUFFICES ASSUME Bounding'  PROVE Within(t)'
    OBVIOUS
  <2>1. Within(t)
    BY <1>b DEF FHere
  <2>2. pc'[t] \in InMmap \cup Prepared => pc[t] \in Prepared
    BY <1>0 DEF QuietMove, Leads, Prepared, InHands, Loop
  <2>3. pc'[t] \in InHands => pc[t] \in InHands /\ buf'[t].index = buf[t].index
    BY <1>0 DEF QuietMove, Leads, InHands, Loop
  <2>. QED  BY <1>0, <2>1, <2>2, <2>3 DEF Within
<1>8. Without({"overlap", "early", "encoder"})' => Encodes(t)'
  <2>. SUFFICES ASSUME Without({"overlap", "early", "encoder"})'  PROVE Encodes(t)'
    OBVIOUS
  <2>1. Encodes(t) /\ InTime(t) /\ "encoder" \notin breach'
    BY <1>c DEF FHere, Without
  <2>2. CASE pc'[t] = "capture_start"
    BY <2>1, <2>2, QuietMoves DEF Encodes
  <2>3. CASE pc'[t] # "capture_start" /\ pc'[t] \in {"capture_stop", "h264_end"} \cup Loop
    <3>1. g_h264'.x264 = g_h264.x264 /\ g_h264'.picture = g_h264.picture
      BY <2>3, QuietMoves DEF Loop
    <3>2. pc[t] \in Loop
      BY <1>0, <2>1, <2>3 DEF QuietMove, Leads, InHands, Loop, SetUp, MustCancel, MayCancel, InTime
    <3>. QED  BY <2>1, <3>1, <3>2 DEF Encodes
  <2>. QED  BY <2>2, <2>3 DEF Encodes
<1>9. Without({"overlap", "open", "buffers"})' =>
        Filled(t)' /\ (camera'.owner # NULL /\ pc'[t] \notin InMmap => HasFrame')
  <2>. SUFFICES ASSUME Without({"overlap", "open", "buffers"})'
                PROVE  Filled(t)' /\ (camera'.owner # NULL /\ pc'[t] \notin InMmap => HasFrame')
    OBVIOUS
  <2>1. Filled(t) /\ (camera.owner # NULL /\ pc[t] \notin InMmap => HasFrame)
    BY <1>a DEF FHere
  <2>2. pc'[t] \notin InMmap /\ pc[t] \notin InMmap
    BY <1>0 DEF QuietMove, Leads, InHands, Loop, MustCancel, MayCancel
  <2>3. pc'[t] \in Prepared => pc[t] \in Prepared
    BY <1>0 DEF QuietMove, Leads, Prepared, InHands, Loop
  <2>. QED  BY <1>0, <2>1, <2>2, <2>3 DEF Filled
<1>10. Spares(t)
  BY <1>0 DEF Spares, QuietMove, Leads, SetUp, Loop, InHands, SameDevice
<1>. QED  BY <1>1, <1>2, <1>3, <1>4, <1>5, <1>6, <1>7, <1>8, <1>9, <1>10 DEF Onward, FHere

LEMMA OpenOnward ==
  ASSUME TypeOK, NEW t \in Thread, FHere(t), breach \subseteq breach', Open(t)
  PROVE  Onward(t)
<1>0. \A B : Without(B)' => Without(B)
  BY Earlier
<1>1. /\ pc[t] = "device_open" /\ pc'[t] \in {"device_init", "open_error"}
      /\ cancelled' = cancelled /\ camera' = camera /\ maps' = maps
  BY DEF Open, At, Goto, device_open, device_open_fails, TypeOK
<1>2. /\ gdev'.n_buffers = gdev.n_buffers /\ gdev'.buffers = gdev.buffers
      /\ gdev'.frame = gdev.frame
  BY DEF Open, device_open, device_open_fails, TypeOK, DeviceTypeOK
<1>3. /\ held \subseteq held'
      /\ \A p : <<"buffers", p>> \in held' <=> <<"buffers", p>> \in held
  BY DEF Open, device_open, device_open_fails
<1>4. "open" \notin breach' => pc'[t] = "device_init" /\ gdev'.fd = t /\ <<"fd", t>> \in held'
  BY DEF Open, Goto, Failed, If, device_open, TypeOK, DeviceTypeOK
<1>5. Without({"overlap"})' => Mapping'
  BY <1>0, <1>1, <1>2, <1>3 DEF FHere, Mapping, Live
<1>6. Without({"early"})' => InTime(t)'
  BY <1>0, <1>1 DEF FHere, InTime, SetUp
<1>7. Without({"overlap", "open"})' => OwnDevice(t)'
  BY <1>0, <1>1, <1>4 DEF FHere, OwnDevice, Without, Live, SetUp, Loop
<1>8. Without({"overlap", "capture"})' => camera'.queued = {}
  BY <1>0, <1>1 DEF FHere, Fills, Loop
<1>9. Without({"overlap", "open", "buffers"})' /\ camera'.owner # NULL => HasFrame'
  BY <1>0, <1>1, <1>2 DEF FHere, HasFrame
<1>10. /\ ByItself(t)' /\ Keeps(t)' /\ Within(t)' /\ Encodes(t)' /\ Filled(t)'
       /\ Fed(t)'
  BY <1>1 DEF ByItself, Keeps, Within, Encodes, Filled, Fed, Prepared, InHands, Loop, Cleanup
<1>11. Spares(t)
  BY <1>1, <1>3 DEF Spares, SetUp, Live
<1>. QED  BY <1>5, <1>6, <1>7, <1>8, <1>9, <1>10, <1>11 DEF Onward, FHere

LEMMA ConfigureOnward ==
  ASSUME TypeOK, NEW t \in Thread, FHere(t), breach \subseteq breach', Configure(t)
  PROVE  Onward(t)
<1>0. (\A B : Without(B)' => Without(B)) /\ (Bounding' => Bounding)
  BY Earlier
<1>1. /\ pc[t] = "device_init" /\ pc'[t] \in {"init_mmap", "h264_begin"}
      /\ cancelled' = cancelled /\ camera' = camera /\ maps' = maps /\ held' = held
  BY DEF Configure, At, Goto, Branch, device_init, TypeOK
<1>2. /\ gdev'.n_buffers = 0 /\ gdev'.buffers = gdev.buffers
      /\ gdev'.frame = gdev.frame /\ gdev'.fd = gdev.fd
  BY DEF Configure, device_init, TypeOK, DeviceTypeOK
<1>3. /\ pc'[t] = "init_mmap" => CanConfigure
      /\ pc'[t] = "h264_begin" => "buffers" \in breach' \/ ~CanConfigure
  BY DEF Configure, Branch, Goto, Failed, If, device_init, TypeOK
<1>4. Indices(0) = {} /\ camera.count \in Nat
  BY DEF Indices, TypeOK, DeviceTypeOK
<1>5. Mapping'
  BY <1>2, <1>4 DEF Mapping
<1>6. Without({"early"})' => InTime(t)'
  BY <1>0, <1>1 DEF FHere, InTime, SetUp
<1>7. ByItself(t)'
  BY <1>1, <1>2, <1>3, <1>4 DEF ByItself, CanConfigure, FdOpen, Live
<1>8. Without({"overlap", "open"})' => OwnDevice(t)'
  BY <1>0, <1>1, <1>2 DEF FHere, OwnDevice, Live, SetUp, Loop
<1>9. Without({"overlap", "capture"})' => camera'.queued = {}
  BY <1>0, <1>1 DEF FHere, Fills, Loop
<1>10. Bounding' => Within(t)'
  <2>. SUFFICES ASSUME Bounding', Owns'  PROVE camera'.queued \subseteq Indices(gdev'.n_buffers)
    BY <1>1 DEF Within, Prepared, InHands, Loop
  <2>1. CASE Without({"overlap", "capture"})'
    BY <1>9, <2>1
  <2>2. CASE Without({"overlap", "open"})'
    BY <1>0, <1>1, <1>2, <2>2 DEF FHere, OwnDevice, Owns, SetUp
  <2>. QED  BY <2>1, <2>2 DEF Bounding
<1>11. Without({"overlap", "open", "buffers"})' =>
         Filled(t)' /\ (camera'.owner # NULL => HasFrame')
  <2>. SUFFICES ASSUME Without({"overlap", "open", "buffers"})'
                PROVE  Filled(t)' /\ (camera'.owner # NULL => HasFrame')
    OBVIOUS
  <2>1. Without({"overlap", "open"}) /\ Without({"overlap", "open", "buffers"})
    BY Earlier
  <2>2. FdOpen
    BY <1>1, <2>1 DEF FHere, OwnDevice, FdOpen, SetUp
  <2>3. camera.owner # NULL => HasFrame
    BY <1>1, <2>1 DEF FHere
  <2>4. pc'[t] = "h264_begin" => camera.owner # NULL
    BY <1>3, <2>2 DEF Without, CanConfigure
  <2>. QED  BY <1>1, <1>2, <2>3, <2>4 DEF Filled, HasFrame, Prepared, Loop
<1>12. Keeps(t)' /\ Encodes(t)' /\ Fed(t)'
  BY <1>1 DEF Keeps, Encodes, Fed, InHands, Loop, Cleanup
<1>13. Spares(t)
  BY <1>1 DEF Spares, SetUp, Live
<1>. QED  BY <1>5, <1>6, <1>7, <1>8, <1>9, <1>10, <1>11, <1>12, <1>13 DEF Onward, FHere

LEMMA RequestOnward ==
  ASSUME TypeOK, NEW t \in Thread, FHere(t), breach \subseteq breach', RequestBuffers(t)
  PROVE  Onward(t)
<1>0. /\ \A B : Without(B)' => Without(B)
      /\ \A B, C : Without(B)' /\ C \subseteq B => Without(C)
  BY Earlier
<1>1. PICK answer \in {"granted", "einval", "error"}, count \in Granted \cup {Asked},
           room \in BOOLEAN :
        LET goesOn == answer # "einval" /\ count >= 2 /\ room
            failed == (answer # "granted" /\ CanRequest) \/ count < 2 \/ ~room
        IN  /\ answer = "einval" => room
            /\ request_buffers(t, answer, count, room)
            /\ Goto(t, IF goesOn THEN "reset_count" ELSE "h264_begin")
            /\ req' = [req EXCEPT ![t] = IF goesOn THEN count ELSE 0]
            /\ Failed("buffers", failed)
  BY DEF RequestBuffers
<1>2. /\ pc[t] = "init_mmap" /\ pc'[t] \in {"reset_count", "h264_begin"}
      /\ cancelled' = cancelled /\ maps' = maps /\ gdev'.fd = gdev.fd
      /\ count \in Nat /\ gdev.n_buffers \in Nat
  <2>1. pc[t] = "init_mmap" /\ cancelled' = cancelled
    BY DEF RequestBuffers, At
  <2>2. pc'[t] \in {"reset_count", "h264_begin"}
    BY <1>1 DEF Goto, TypeOK
  <2>3. request_buffers(t, answer, count, room) /\ count \in Nat
    BY <1>1 DEF Asked
  <2>4. maps' = maps /\ gdev'.fd = gdev.fd /\ gdev.n_buffers \in Nat
    BY <2>3 DEF request_buffers, TypeOK, DeviceTypeOK
  <2>. QED  BY <2>1, <2>2, <2>3, <2>4
<1>3. /\ gdev'.n_buffers = gdev.n_buffers
      /\ pc'[t] = "reset_count" => gdev'.buffers = t
      /\ held \subseteq held' /\ \A u : <<"fd", u>> \in held' <=> <<"fd", u>> \in held
  <2>1. request_buffers(t, answer, count, room)
    BY <1>1
  <2>2. CASE answer = "einval" \/ count < 2
    <3>1. gdev' = gdev /\ held' = held
      BY <2>1, <2>2 DEF request_buffers
    <3>2. pc'[t] # "reset_count"
      BY <1>1, <1>2, <2>2 DEF Goto, TypeOK
    <3>. QED  BY <3>1, <3>2
  <2>3. CASE ~(answer = "einval" \/ count < 2) /\ room
    <3>1. /\ gdev' = [gdev EXCEPT !.buffers = t]
          /\ held' = held \cup {<<"buffers", t>>}
      BY <2>1, <2>3 DEF request_buffers
    <3>. QED  BY <3>1 DEF TypeOK, DeviceTypeOK
  <2>4. CASE ~(answer = "einval" \/ count < 2) /\ ~room
    <3>1. gdev' = [gdev EXCEPT !.buffers = NULL] /\ held' = held
      BY <2>1, <2>4 DEF request_buffers
    <3>2. pc'[t] # "reset_count"
      BY <1>1, <2>4 DEF Goto, TypeOK
    <3>. QED  BY <3>1, <3>2 DEF TypeOK, DeviceTypeOK
  <2>. QED  BY <2>2, <2>3, <2>4
<1>4. \/ answer # "granted" /\ camera' = camera
      \/ answer = "granted" /\ camera' = [owner |-> gdev.fd, count |-> count, queued |-> {},
                                          streaming |-> FALSE]
  BY <1>1 DEF request_buffers, NoOwner
<1>5. Indices(0) = {} /\ camera.count \in Nat
  BY DEF Indices, TypeOK, DeviceTypeOK
<1>6. Without({"overlap"})' => CanConfigure /\ gdev.n_buffers = 0
  BY <1>0, <1>2 DEF FHere, ByItself
<1>7. Without({"overlap"})' => Mapping'
  BY <1>3, <1>5, <1>6 DEF Mapping
<1>8. Without({"early"})' => InTime(t)'
  BY <1>0, <1>2 DEF FHere, InTime, SetUp
<1>9. Without({"overlap"})' => ByItself(t)'
  BY <1>2, <1>3, <1>4, <1>5, <1>6 DEF ByItself
<1>10. Without({"overlap", "open"})' => OwnDevice(t)'
  BY <1>0, <1>2, <1>3 DEF FHere, OwnDevice, Live, SetUp, Loop
<1>11. Without({"overlap", "capture"})' => camera'.queued = {}
  BY <1>0, <1>2, <1>4 DEF FHere, Fills, Loop
<1>12. Bounding' => Within(t)'
  <2>. SUFFICES ASSUME Bounding', Owns'  PROVE camera'.queued \subseteq Indices(gdev'.n_buffers)
    BY <1>2 DEF Within, Prepared, InHands, Loop
  <2>1. CanConfigure
    BY <1>6 DEF Bounding, Without
  <2>2. answer = "granted"
    BY <1>2, <1>4, <2>1 DEF Owns, FdOpen, CanConfigure
  <2>. QED  BY <1>4, <2>2
<1>13. Without({"overlap", "open", "buffers"})' => Filled(t)' /\ pc'[t] = "reset_count"
  <2>. SUFFICES ASSUME Without({"overlap", "open", "buffers"})'
                PROVE  Filled(t)' /\ pc'[t] = "reset_count"
    OBVIOUS
  <2>1. "buffers" \notin breach' /\ CanConfigure
    BY <1>6 DEF Without
  <2>2. answer = "granted" /\ count >= 2 /\ room
    BY <1>1, <1>2, <2>1 DEF Failed, If, CanRequest
  <2>3. pc'[t] = "reset_count" /\ req'[t] = count
    BY <1>1, <2>2 DEF Goto, TypeOK
  <2>4. Owns'
    BY <1>2, <1>3, <1>4, <2>1, <2>2 DEF CanConfigure, FdOpen, Owns, Live
  <2>. QED  BY <1>4, <2>2, <2>3, <2>4 DEF Filled, Prepared, Loop
<1>14. Keeps(t)' /\ Encodes(t)' /\ Fed(t)'
  BY <1>2 DEF Keeps, Encodes, Fed, InHands, Loop, Cleanup
<1>15. Spares(t)
  <2>1. Without({"overlap", "open"})' => gdev.fd = t
    BY <1>0, <1>2 DEF FHere, OwnDevice, SetUp
  <2>. QED  BY <1>2, <1>3, <1>4, <2>1 DEF Spares, SetUp, Live
<1>. QED  BY <1>7, <1>8, <1>9, <1>10, <1>11, <1>12, <1>13, <1>14, <1>15 DEF Onward, FHere

LEMMA ResetOnward ==
  ASSUME TypeOK, NEW t \in Thread, FHere(t), breach \subseteq breach', ResetCount(t)
  PROVE  Onward(t)
<1>0. /\ \A B : Without(B)' => Without(B)
      /\ \A B, C : Without(B)' /\ C \subseteq B => Without(C)
      /\ Bounding' => Bounding
  BY Earlier
<1>1. /\ pc[t] = "reset_count" /\ pc'[t] = "map_buffers"
      /\ gdev' = [gdev EXCEPT !.n_buffers = 0]
      /\ UNCHANGED <<cancelled, camera, maps, held, req>>
  BY DEF ResetCount, At, Goto, reset_count, TypeOK
<1>2. gdev'.fd = gdev.fd /\ gdev'.buffers = gdev.buffers /\ gdev'.frame = gdev.frame
  BY <1>1 DEF TypeOK, DeviceTypeOK
<1>3. Without({"overlap"}) => gdev' = gdev
  BY <1>1 DEF FHere, ByItself, TypeOK, DeviceTypeOK
<1>4. /\ Owns' <=> Owns
      /\ \A kind, p : Live(kind, p)' <=> Live(kind, p)
  BY <1>1, <1>2 DEF Owns, FdOpen, Live
<1>5. Without({"overlap"})' => Mapping' /\ ByItself(t)'
  BY <1>0, <1>1, <1>3, <1>4 DEF FHere, Mapping, ByItself
<1>6. Without({"early"})' => InTime(t)'
  BY <1>0, <1>1 DEF FHere, InTime, SetUp
<1>7. Without({"overlap", "open"})' => OwnDevice(t)'
  BY <1>0, <1>1, <1>2, <1>4 DEF FHere, OwnDevice, SetUp, Loop
<1>8. Without({"overlap", "capture"})' => camera'.queued = {}
  BY <1>0, <1>1 DEF FHere, Fills, Loop
<1>9. Bounding' => Within(t)'
  <2>1. Bounding' => Without({"overlap"}) /\ Within(t)
    BY <1>0 DEF Bounding, Without, FHere
  <2>. QED  BY <1>1, <1>3, <1>4, <2>1 DEF Within, InHands, Loop
<1>10. Without({"overlap", "open", "buffers"})' => Filled(t)'
  BY <1>0, <1>1, <1>4 DEF FHere, Filled, Prepared, Loop
<1>11. Keeps(t)' /\ Encodes(t)' /\ Fed(t)'
  BY <1>1 DEF Keeps, Encodes, Fed, InHands, Loop, Cleanup
<1>12. Spares(t)
  BY <1>1, <1>4 DEF Spares, SetUp
<1>. QED  BY <1>1, <1>5, <1>6, <1>7, <1>8, <1>9, <1>10, <1>11, <1>12 DEF Onward, FHere

LEMMA MapOnward ==
  ASSUME TypeOK, NEW t \in Thread, FHere(t), breach \subseteq breach', MapBuffers(t)
  PROVE  Onward(t)
<1>0. /\ \A B : Without(B)' => Without(B)
      /\ Bounding' => Bounding
  BY Earlier
<1>1. /\ pc[t] = "map_buffers" /\ pc'[t] \in {"map_buffers", "h264_begin"}
      /\ cancelled' = cancelled
      /\ gdev.n_buffers \in Nat /\ camera.count \in Nat
  BY DEF MapBuffers, At, Goto, TypeOK, DeviceTypeOK
<1>2. \/ map_buffer(req[t]) /\ pc'[t] = "map_buffers" /\ req'[t] = req[t]
      \/ /\ UNCHANGED <<deviceVars, held>> /\ pc'[t] = "h264_begin"
         /\ gdev.n_buffers < req[t] /\ (CanMap => "buffers" \in breach')
      \/ \E ok \in BOOLEAN : /\ alloc_frame(t, req[t], ok) /\ pc'[t] = "h264_begin"
                             /\ ok \/ "buffers" \in breach'
  BY DEF MapBuffers, At, Goto, Failed, If, TypeOK
<1>3. /\ camera' = camera /\ gdev'.fd = gdev.fd /\ gdev'.buffers = gdev.buffers
      /\ held \subseteq held' /\ \A kind \in {"fd", "buffers"} : \A p :
           <<kind, p>> \in held' <=> <<kind, p>> \in held
  <2>1. gdev \in Gdev
    BY DEF TypeOK, DeviceTypeOK, Gdev
  <2>2. CASE map_buffer(req[t])
    BY <2>1, <2>2 DEF map_buffer, Gdev
  <2>3. CASE UNCHANGED <<deviceVars, held>>
    BY <2>3 DEF deviceVars
  <2>4. ASSUME NEW ok \in BOOLEAN, alloc_frame(t, req[t], ok)
        PROVE  /\ camera' = camera /\ gdev'.fd = gdev.fd /\ gdev'.buffers = gdev.buffers
               /\ held' = held \/ held' = held \cup {<<"frame", t>>}
    BY <2>1, <2>4 DEF alloc_frame, Gdev
  <2>. QED  BY <1>2, <2>2, <2>3, <2>4
<1>4. \/ gdev'.n_buffers = gdev.n_buffers /\ maps' = maps
      \/ /\ CanMap /\ pc'[t] = "map_buffers" /\ req'[t] = req[t]
         /\ gdev'.n_buffers = gdev.n_buffers + 1
         /\ Live("buffers", gdev.buffers) =>
              maps' = [maps EXCEPT ![gdev.buffers] = @ \cup {gdev.n_buffers}]
  <2>1. gdev \in Gdev
    BY DEF TypeOK, DeviceTypeOK, Gdev
  <2>2. CASE map_buffer(req[t]) /\ pc'[t] = "map_buffers" /\ req'[t] = req[t]
    BY <2>1, <2>2 DEF map_buffer, Gdev
  <2>3. CASE UNCHANGED <<deviceVars, held>>
    BY <2>3 DEF deviceVars
  <2>4. ASSUME NEW ok \in BOOLEAN, alloc_frame(t, req[t], ok)
        PROVE  gdev'.n_buffers = gdev.n_buffers /\ maps' = maps
    BY <2>1, <2>4 DEF alloc_frame, Gdev
  <2>. QED  BY <1>2, <2>2, <2>3, <2>4
<1>5. Owns' <=> Owns
  BY <1>3 DEF Owns, FdOpen, Live
<1>6. Without({"overlap"})' => Mapping'
  <2>1. SUFFICES ASSUME Without({"overlap"})', <<"buffers", gdev'.buffers>> \in held'
                 PROVE  Indices(gdev'.n_buffers) \subseteq maps'[gdev'.buffers]
    BY DEF Mapping, Live
  <2>2. Live("buffers", gdev.buffers) /\ gdev.buffers \in Thread
    BY <1>3, <2>1 DEF Live, TypeOK, ProcessTypeOK, Resource
  <2>3. Indices(gdev.n_buffers) \subseteq maps[gdev.buffers]
    BY <1>0, <2>1, <2>2 DEF FHere, Mapping
  <2>4. Indices(gdev.n_buffers + 1) = Indices(gdev.n_buffers) \cup {gdev.n_buffers}
    BY <1>1 DEF Indices
  <2>5. maps \in [Thread -> SUBSET Nat]
    BY DEF TypeOK, DeviceTypeOK
  <2>. QED  BY <1>3, <1>4, <2>2, <2>3, <2>4, <2>5
<1>7. Without({"early"})' => InTime(t)'
  BY <1>0, <1>1 DEF FHere, InTime, SetUp
<1>8. Without({"overlap"})' => ByItself(t)'
  BY <1>0, <1>1, <1>3, <1>4, <1>5 DEF FHere, ByItself, CanMap
<1>9. Without({"overlap", "open"})' => OwnDevice(t)'
  BY <1>0, <1>1, <1>3 DEF FHere, OwnDevice, Live, SetUp, Loop
<1>10. Without({"overlap", "capture"})' => camera'.queued = {}
  BY <1>0, <1>1, <1>3 DEF FHere, Fills, Loop
<1>11. Bounding' => Within(t)'
  <2>. SUFFICES ASSUME Bounding', Owns'  PROVE camera'.queued \subseteq Indices(gdev'.n_buffers)
    BY <1>1 DEF Within, Prepared, InHands, Loop
  <2>1. camera.queued \subseteq Indices(gdev.n_buffers)
    BY <1>0, <1>1, <1>5 DEF FHere, Within
  <2>2. Indices(gdev.n_buffers) \subseteq Indices(gdev'.n_buffers)
    BY <1>1, <1>4 DEF Indices
  <2>. QED  BY <1>3, <2>1, <2>2
<1>12. Without({"overlap", "open", "buffers"})' =>
         Filled(t)' /\ (pc'[t] \notin InMmap => HasFrame')
  <2>. SUFFICES ASSUME Without({"overlap", "open", "buffers"})'
                PROVE  Filled(t)' /\ (pc'[t] \notin InMmap => HasFrame')
    OBVIOUS
  <2>1. Filled(t) /\ ByItself(t) /\ "buffers" \notin breach'
    BY Earlier DEF FHere, Without
  <2>2. Owns /\ req[t] = camera.count /\ gdev.buffers = t
    BY <1>1, <2>1 DEF Filled, ByItself
  <2>3. CASE pc'[t] = "map_buffers"
    <3>1. req'[t] = req[t]
      BY <1>2, <2>3
    <3>. QED  BY <1>3, <1>5, <2>2, <2>3, <3>1 DEF Filled, Prepared, Loop
  <2>4. CASE pc'[t] = "h264_begin"
    <3>1. ~(gdev.n_buffers < req[t] /\ ~CanMap)
      BY <2>2 DEF CanMap
    <3>2. alloc_frame(t, req[t], TRUE)
      BY <1>2, <2>1, <2>4, <3>1
    <3>3. gdev'.frame = t
      BY <3>2 DEF alloc_frame, TypeOK, DeviceTypeOK
    <3>. QED  BY <1>3, <2>2, <2>4, <3>3 DEF Filled, HasFrame
  <2>. QED  BY <1>1, <2>3, <2>4
<1>13. Keeps(t)' /\ Encodes(t)' /\ Fed(t)'
  BY <1>1 DEF Keeps, Encodes, Fed, InHands, Loop, Cleanup
<1>14. Spares(t)
  BY <1>1, <1>3 DEF Spares, SetUp, Live
<1>. QED  BY <1>6, <1>7, <1>8, <1>9, <1>10, <1>11, <1>12, <1>13, <1>14 DEF Onward, FHere

(* The steps that only move buffers in and out of the driver's queue. *)
SameHandles ==
  /\ UNCHANGED <<gdev, maps, held, cancelled>>
  /\ camera'.owner = camera.owner /\ camera'.count = camera.count

(* What depends on descriptors, buffers and mappings alone. *)
LEMMA SameHandlesFacts ==
  ASSUME TypeOK, SameHandles
  PROVE  /\ (Owns' <=> Owns) /\ (HasFrame' <=> HasFrame) /\ (Mapping => Mapping')
         /\ \A u : Live("fd", u)' <=> Live("fd", u)
BY DEF SameHandles, Owns, FdOpen, HasFrame, Mapping, Live

(* What t asks of the driver next in capture_start is possible. *)
Startable(t) == IF buf[t].index < gdev.n_buffers THEN CanEnqueue(buf[t].index) ELSE Owns

LEMMA StartOnward ==
  ASSUME TypeOK, NEW t \in Thread, FHere(t), breach \subseteq breach', StartCapture(t)
  PROVE  Onward(t)
<1>0. /\ \A B : Without(B)' => Without(B)
      /\ \A B, C : Without(B)' /\ C \subseteq B => Without(C)
      /\ Bounding' => Bounding
  BY Earlier
<1>1. /\ pc[t] = "capture_start" /\ pc'[t] \in {"capture_start", "select"} /\ SameHandles
      /\ g_h264' = g_h264 /\ gdev.n_buffers \in Nat /\ camera.count \in Nat
      /\ buf[t].index \in Nat /\ camera.queued \subseteq Nat
  BY DEF StartCapture, At, Goto, enqueue, stream_on, deviceVars, SameHandles, TypeOK,
         DeviceTypeOK
<1>2. \/ /\ pc'[t] = "capture_start" /\ buf'[t].index = buf[t].index + 1
         /\ buf[t].index < gdev.n_buffers /\ Owns
         /\ camera'.queued = camera.queued \cup {buf[t].index}
      \/ /\ pc'[t] = "select" /\ Owns /\ buf[t].index >= gdev.n_buffers
         /\ camera'.queued = camera.queued /\ camera'.streaming
      \/ /\ pc'[t] = "select" /\ camera' = camera
         /\ Startable(t) => "capture" \in breach'
  <2>1. CASE /\ buf[t].index < gdev.n_buffers /\ enqueue(buf[t].index)
             /\ buf' = [buf EXCEPT ![t].index = @ + 1] /\ UNCHANGED <<pc, breach>>
    BY <1>1, <2>1 DEF enqueue, CanEnqueue, TypeOK, DeviceTypeOK
  <2>2. CASE ~(buf[t].index < gdev.n_buffers) /\ stream_on /\ Goto(t, "select")
    BY <1>1, <2>2 DEF stream_on, Goto, TypeOK, DeviceTypeOK
  <2>3. CASE /\ Failed("capture", IF buf[t].index < gdev.n_buffers
                                     THEN CanEnqueue(buf[t].index) ELSE Owns)
             /\ UNCHANGED <<deviceVars, held>> /\ Goto(t, "select")
    BY <2>3 DEF Failed, If, Goto, deviceVars, TypeOK, Startable
  <2>. QED  BY <2>1, <2>2, <2>3 DEF StartCapture
<1>3. /\ (Owns' <=> Owns) /\ (HasFrame' <=> HasFrame) /\ (Mapping => Mapping')
      /\ \A u : Live("fd", u)' <=> Live("fd", u)
  BY <1>1, SameHandlesFacts
<1>4. Without({"overlap"})' => Mapping' /\ ByItself(t)'
  BY <1>0, <1>1, <1>3 DEF FHere, ByItself, SameHandles, Prepared
<1>5. Without({"overlap", "open"})' => OwnDevice(t)'
  BY <1>0, <1>1, <1>3 DEF FHere, OwnDevice, SameHandles, SetUp
<1>6. Without({"overlap", "capture"})' => Fed(t)'
  <2>. SUFFICES ASSUME Without({"overlap", "capture"})'  PROVE Fed(t)'
    OBVIOUS
  <2>1. /\ IF Owns THEN /\ camera.queued = Indices(buf[t].index)
                        /\ buf[t].index <= gdev.n_buffers
                   ELSE camera.queued = {}
        /\ "capture" \notin breach'
        /\ Owns => gdev.n_buffers <= camera.count
    BY <1>0, <1>1, Earlier DEF FHere, Fed, ByItself, Prepared, Without
  <2>2. CASE /\ pc'[t] = "capture_start" /\ buf'[t].index = buf[t].index + 1
             /\ buf[t].index < gdev.n_buffers /\ Owns
             /\ camera'.queued = camera.queued \cup {buf[t].index}
    <3>1. camera'.queued = Indices(buf'[t].index) /\ buf'[t].index <= gdev'.n_buffers
      BY <1>1, <2>1, <2>2 DEF Indices, SameHandles
    <3>. QED  BY <1>3, <2>2, <3>1 DEF Fed, InHands, Loop
  <2>3. CASE /\ pc'[t] = "select" /\ Owns /\ buf[t].index >= gdev.n_buffers
             /\ camera'.queued = camera.queued /\ camera'.streaming
    <3>1. camera'.queued = Indices(gdev'.n_buffers)
      <4>1. buf[t].index = gdev.n_buffers
        BY <1>1, <2>1, <2>3
      <4>. QED  BY <1>1, <2>1, <2>3, <4>1 DEF SameHandles
    <3>. QED  BY <1>3, <2>3, <3>1 DEF Fed, InHands, Loop
  <2>4. CASE /\ pc'[t] = "select" /\ camera' = camera
             /\ Startable(t) => "capture" \in breach'
    <3>1. ~Owns
      BY <1>1, <2>1, <2>4 DEF Startable, CanEnqueue, Indices
    <3>. QED  BY <1>3, <2>1, <2>4, <3>1 DEF Fed, InHands, Loop
  <2>. QED  BY <1>2, <2>2, <2>3, <2>4
<1>7. Bounding' => Within(t)'
  <2>. SUFFICES ASSUME Bounding', Owns'  PROVE camera'.queued \subseteq Indices(gdev'.n_buffers)
    BY <1>1 DEF Within, InHands, Loop
  <2>1. camera.queued \subseteq Indices(gdev.n_buffers)
    BY <1>0, <1>1, <1>3 DEF FHere, Within, Prepared
  <2>2. buf[t].index < gdev.n_buffers => buf[t].index \in Indices(gdev.n_buffers)
    BY <1>1 DEF Indices
  <2>. QED  BY <1>1, <1>2, <2>1, <2>2 DEF SameHandles
<1>8. Without({"overlap", "early", "encoder"})' => Encodes(t)'
  BY <1>0, <1>1 DEF FHere, Encodes
<1>9. Without({"overlap", "open", "buffers"})' => Filled(t)' /\ HasFrame'
  BY <1>0, <1>1, <1>3 DEF FHere, Filled, Prepared
<1>10. (Without({"early"})' => InTime(t)') /\ Keeps(t)'
  BY <1>0, <1>1 DEF FHere, InTime, Keeps, SameHandles, SetUp, Cleanup
<1>11. Spares(t)
  BY <1>1, <1>3 DEF Spares, SetUp, SameHandles
<1>12. pc'[t] \in Fills
  BY <1>1 DEF Fills, Loop
<1>. QED  BY <1>4, <1>5, <1>6, <1>7, <1>8, <1>9, <1>10, <1>11, <1>12 DEF Onward, FHere

LEMMA DequeueOnward ==
  ASSUME TypeOK, NEW t \in Thread, FHere(t), breach \subseteq breach', Dequeue(t)
  PROVE  Onward(t)
<1>0. /\ \A B : Without(B)' => Without(B)
      /\ Bounding' => Bounding
  BY Earlier
<1>1. \/ \E i \in camera.queued :
           /\ dequeue(i) /\ buf' = [buf EXCEPT ![t].index = i] /\ Goto(t, "copy")
      \/ /\ Goto(t, "returned") /\ Failed("capture", CanDequeue)
         /\ UNCHANGED <<deviceVars, held, buf>>
  BY DEF Dequeue
<1>2. /\ pc[t] = "dequeue" /\ pc'[t] \in {"copy", "returned"} /\ SameHandles
      /\ camera'.streaming = camera.streaming /\ g_h264' = g_h264
  BY <1>1 DEF Dequeue, At, Goto, dequeue, SameHandles, deviceVars, TypeOK, DeviceTypeOK
<1>3. pc'[t] = "copy" => /\ Owns /\ camera.streaming /\ buf'[t].index \in camera.queued
                         /\ camera'.queued = camera.queued \ {buf'[t].index}
  BY <1>1 DEF Goto, dequeue, CanDequeue, TypeOK, DeviceTypeOK
<1>4. pc'[t] = "returned" => camera' = camera /\ (CanDequeue => "capture" \in breach')
  BY <1>1 DEF Goto, Failed, If, deviceVars, TypeOK
<1>5. /\ (Owns' <=> Owns) /\ (HasFrame' <=> HasFrame) /\ (Mapping => Mapping')
      /\ \A u : Live("fd", u)' <=> Live("fd", u)
  BY <1>2, SameHandlesFacts
<1>6. Without({"overlap"})' => Mapping' /\ ByItself(t)'
  BY <1>0, <1>2, <1>5 DEF FHere, ByItself, SameHandles, Prepared, Loop
<1>7. Without({"overlap", "open"})' => OwnDevice(t)'
  BY <1>0, <1>2, <1>5 DEF FHere, OwnDevice, SameHandles, SetUp, Loop
<1>8. Without({"overlap", "open", "early"})' => Keeps(t)'
  <2>1. Without({"overlap", "open", "early"})' => OwnDevice(t)
    BY Earlier DEF FHere
  <2>. QED  BY <1>2, <1>5, <2>1 DEF OwnDevice, Keeps, Loop, Cleanup
<1>9. Without({"overlap", "capture"})' => Fed(t)' /\ (pc'[t] \notin Fills => camera'.queued = {})
  <2>. SUFFICES ASSUME Without({"overlap", "capture"})'
                PROVE  Fed(t)' /\ (pc'[t] \notin Fills => camera'.queued = {})
    OBVIOUS
  <2>1. /\ Owns => camera.streaming /\ camera.queued = Indices(gdev.n_buffers)
        /\ ~Owns => camera.queued = {}
        /\ "capture" \notin breach'
    BY <1>0, <1>2 DEF FHere, Fed, Without
  <2>2. CASE pc'[t] = "copy"
    BY <1>2, <1>3, <1>5, <2>1, <2>2 DEF Fed, InHands, Loop, Fills, SameHandles
  <2>3. CASE pc'[t] = "returned"
    <3>1. camera'.queued = {}
      BY <1>4, <2>1, <2>3 DEF CanDequeue
    <3>. QED  BY <2>3, <3>1 DEF Fed, InHands, Loop
  <2>. QED  BY <1>2, <2>2, <2>3
<1>10. Bounding' => Within(t)'
  BY <1>0, <1>2, <1>3, <1>5 DEF FHere, Within, SameHandles, Prepared, InHands, Loop
<1>11. Without({"overlap", "early", "encoder"})' => Encodes(t)'
  BY <1>0, <1>2 DEF FHere, Encodes, Loop
<1>12. Without({"overlap", "open", "buffers"})' => Filled(t)' /\ HasFrame'
  BY <1>0, <1>2, <1>5 DEF FHere, Filled, Prepared, Loop
<1>13. InTime(t)'
  BY <1>2 DEF InTime, SetUp
<1>14. Spares(t)
  BY <1>2, <1>5 DEF Spares, SetUp, SameHandles
<1>. QED  BY <1>5, <1>6, <1>7, <1>8, <1>9, <1>10, <1>11, <1>12, <1>13, <1>14 DEF Onward, FHere

LEMMA RequeueOnward ==
  ASSUME TypeOK, NEW t \in Thread, FHere(t), breach \subseteq breach', Requeue(t)
  PROVE  Onward(t)
<1>0. /\ \A B : Without(B)' => Without(B)
      /\ Bounding' => Bounding
  BY Earlier
<1>1. \/ enqueue(buf[t].index) /\ Goto(t, "select")
      \/ /\ Goto(t, "returned") /\ Failed("capture", CanEnqueue(buf[t].index))
         /\ UNCHANGED <<deviceVars, held>>
  BY DEF Requeue
<1>2. /\ pc[t] = "requeue" /\ pc'[t] \in {"select", "returned"} /\ SameHandles
      /\ camera'.streaming = camera.streaming /\ g_h264' = g_h264
      /\ gdev.n_buffers \in Nat /\ camera.count \in Nat
  BY <1>1 DEF Requeue, At, Goto, enqueue, SameHandles, deviceVars, TypeOK, DeviceTypeOK
<1>3. pc'[t] = "select" => /\ Owns /\ camera'.queued = camera.queued \cup {buf[t].index}
  BY <1>1 DEF Goto, enqueue, CanEnqueue, TypeOK, DeviceTypeOK
<1>4. pc'[t] = "returned" =>
        camera' = camera /\ (CanEnqueue(buf[t].index) => "capture" \in breach')
  BY <1>1 DEF Goto, Failed, If, deviceVars, TypeOK
<1>5. /\ (Owns' <=> Owns) /\ (HasFrame' <=> HasFrame) /\ (Mapping => Mapping')
      /\ \A u : Live("fd", u)' <=> Live("fd", u)
  BY <1>2, SameHandlesFacts
<1>6. Without({"overlap"})' => Mapping' /\ ByItself(t)'
  BY <1>0, <1>2, <1>5 DEF FHere, ByItself, SameHandles, Prepared, Loop
<1>7. Without({"overlap", "open"})' => OwnDevice(t)'
  BY <1>0, <1>2, <1>5 DEF FHere, OwnDevice, SameHandles, SetUp, Loop
<1>8. Without({"overlap", "open", "early"})' => Keeps(t)'
  <2>1. Without({"overlap", "open", "early"})' => OwnDevice(t)
    BY Earlier DEF FHere
  <2>. QED  BY <1>2, <1>5, <2>1 DEF OwnDevice, Keeps, Loop, Cleanup
<1>9. Without({"overlap", "capture"})' => Fed(t)' /\ pc'[t] = "select"
  <2>. SUFFICES ASSUME Without({"overlap", "capture"})'  PROVE Fed(t)' /\ pc'[t] = "select"
    OBVIOUS
  <2>1. /\ Owns /\ camera.streaming /\ buf[t].index \in Indices(gdev.n_buffers)
        /\ camera.queued = Indices(gdev.n_buffers) \ {buf[t].index}
        /\ "capture" \notin breach'
    BY <1>0, <1>2 DEF FHere, Fed, Without, InHands, Loop
  <2>2. gdev.n_buffers <= camera.count
    BY <1>2, <2>1, Earlier DEF FHere, ByItself, Prepared, Loop
  <2>3. CanEnqueue(buf[t].index)
    BY <1>2, <2>1, <2>2 DEF CanEnqueue, Indices
  <2>4. pc'[t] = "select"
    BY <1>2, <1>4, <2>1, <2>3
  <2>. QED  BY <1>2, <1>3, <1>5, <2>1, <2>4 DEF Fed, InHands, Loop, Fills, SameHandles
<1>10. Bounding' => Within(t)'
  <2>. SUFFICES ASSUME Bounding'  PROVE Within(t)'
    OBVIOUS
  <2>1. Within(t)
    BY <1>0 DEF FHere
  <2>2. pc'[t] = "returned" => Within(t)'
    BY DEF Within, Prepared, InHands, Loop
  <2>3. /\ Owns => camera.queued \subseteq Indices(gdev.n_buffers)
        /\ buf[t].index \in Indices(gdev.n_buffers)
    BY <1>2, <2>1 DEF Within, Prepared, InHands, Loop
  <2>4. pc'[t] = "select" => Within(t)'
    BY <1>2, <1>3, <2>3 DEF Within, Prepared, InHands, Loop, SameHandles
  <2>. QED  BY <1>2, <2>2, <2>4
<1>11. Without({"overlap", "early", "encoder"})' => Encodes(t)'
  BY <1>0, <1>2 DEF FHere, Encodes, Loop
<1>12. Without({"overlap", "open", "buffers"})' => Filled(t)' /\ HasFrame'
  BY <1>0, <1>2, <1>5 DEF FHere, Filled, Prepared, Loop
<1>13. InTime(t)'
  BY <1>2 DEF InTime, SetUp
<1>14. Spares(t)
  BY <1>2, <1>5 DEF Spares, SetUp, SameHandles
<1>. QED  BY <1>5, <1>6, <1>7, <1>8, <1>9, <1>10, <1>11, <1>12, <1>13, <1>14
          DEF Onward, FHere, Fills, Loop

LEMMA StopOnward ==
  ASSUME TypeOK, NEW t \in Thread, FHere(t), breach \subseteq breach', StopCapture(t)
  PROVE  Onward(t)
<1>0. \A B : Without(B)' => Without(B)
  BY Earlier
<1>1. /\ pc[t] = "capture_stop" /\ pc'[t] = "h264_end" /\ SameHandles /\ g_h264' = g_h264
      /\ Owns => camera'.queued = {}
      /\ ~Owns => camera' = camera
  BY DEF StopCapture, CleanupStep, At, Goto, capture_stop, SameHandles, TypeOK, DeviceTypeOK
<1>2. /\ (Owns' <=> Owns) /\ (HasFrame' <=> HasFrame) /\ (Mapping => Mapping')
      /\ \A u : Live("fd", u)' <=> Live("fd", u)
  BY <1>1, SameHandlesFacts
<1>3. Without({"overlap", "open", "early"})' => Keeps(t)'
  BY <1>0, <1>1, <1>2 DEF FHere, Keeps, SameHandles, Cleanup
<1>4. Without({"overlap", "capture"})' => camera'.queued = {}
  BY <1>0, <1>1 DEF FHere, Fed
<1>5. Without({"overlap", "early", "encoder"})' => Encodes(t)'
  BY <1>0, <1>1 DEF FHere, Encodes
<1>6. Without({"overlap", "open", "buffers"})' /\ camera'.owner # NULL => HasFrame'
  BY <1>0, <1>1, <1>2 DEF FHere, SameHandles
<1>7. /\ InTime(t)' /\ ByItself(t)' /\ OwnDevice(t)' /\ Fed(t)' /\ Within(t)' /\ Filled(t)'
  BY <1>1 DEF InTime, ByItself, OwnDevice, Fed, Within, Filled, Prepared, InHands, Loop, SetUp
<1>9. Without({"overlap"})' => Mapping'
  BY <1>0, <1>2 DEF FHere
<1>8. Spares(t)
  BY <1>1, <1>2 DEF Spares, SetUp, SameHandles
<1>. QED  BY <1>1, <1>2, <1>3, <1>4, <1>5, <1>6, <1>7, <1>8, <1>9 DEF Onward, FHere

LEMMA UninitOnward ==
  ASSUME TypeOK, NEW t \in Thread, FHere(t), breach \subseteq breach', Uninit(t)
  PROVE  Onward(t)
<1>0. \A B : Without(B)' => Without(B)
  BY Earlier
<1>1. /\ pc[t] = "device_uninit" /\ pc'[t] = "device_close" /\ device_uninit
      /\ cancelled' = cancelled
  BY DEF Uninit, CleanupStep, At, Goto, TypeOK
<1>a. /\ InTime(t)' /\ ByItself(t)' /\ OwnDevice(t)' /\ Fed(t)' /\ Within(t)' /\ Filled(t)'
      /\ Encodes(t)' /\ pc'[t] \notin SetUp \cup Fills \cup {"new"}
  BY <1>1 DEF InTime, ByItself, OwnDevice, Fed, Within, Filled, Encodes, Prepared, InHands,
              Fills, Loop, SetUp
<1>b. CASE ~Without({"overlap"})'
  BY <1>a, <1>b DEF Onward, FHere, Spares, Without
<1>. SUFFICES ASSUME Without({"overlap"})'  PROVE Onward(t)
  BY <1>b
<1>2. Unmappable = {}
  BY <1>0 DEF FHere, Mapping, Unmappable
<1>3. /\ gdev' = [gdev EXCEPT !.length = 0]
      /\ held' = held \ {<<"frame", gdev.frame>>, <<"buffers", gdev.buffers>>}
      /\ camera' = NoOwner \/ camera' = camera
  BY <1>1, <1>2 DEF device_uninit, Settle
<1>4. /\ gdev'.fd = gdev.fd /\ gdev'.frame = gdev.frame /\ gdev'.buffers = gdev.buffers
      /\ \A u : Live("fd", u)' <=> Live("fd", u)
  BY <1>3 DEF TypeOK, DeviceTypeOK, Live
<1>5. Mapping'
  BY <1>3, <1>4 DEF Mapping, Live
<1>6. Without({"overlap", "open", "early"})' => Keeps(t)'
  BY <1>0, <1>1, <1>4 DEF FHere, Keeps, Cleanup
<1>7. Without({"overlap", "capture"})' => camera'.queued = {}
  BY <1>0, <1>1, <1>3 DEF FHere, NoOwner, Fills, Loop
<1>8. Without({"overlap", "open", "buffers"})' /\ camera'.owner # NULL => HasFrame'
  BY <1>0, <1>1, <1>3, <1>4 DEF FHere, NoOwner, HasFrame
<1>9. Spares(t)
  BY <1>1, <1>3, <1>4 DEF Spares, SetUp, NoOwner
<1>. QED  BY <1>a, <1>5, <1>6, <1>7, <1>8, <1>9 DEF Onward, FHere

LEMMA CloseOnward ==
  ASSUME TypeOK, NEW t \in Thread, FHere(t), breach \subseteq breach', Close(t)
  PROVE  Onward(t)
<1>0. \A B : Without(B)' => Without(B)
  BY Earlier
<1>1. /\ pc[t] = "device_close" /\ pc'[t] = "cancelled" /\ device_close
      /\ cancelled' = cancelled
  BY DEF Close, CleanupStep, At, Goto, TypeOK
<1>2. /\ gdev' = [gdev EXCEPT !.fd = NoFd] /\ maps' = maps
      /\ held' = held \ {<<"fd", gdev.fd>>}
      /\ camera' = NoOwner \/ camera' = camera
  BY <1>1 DEF device_close, Settle
<1>3. /\ gdev'.n_buffers = gdev.n_buffers
      /\ gdev'.frame = gdev.frame /\ gdev'.buffers = gdev.buffers
      /\ \A p : <<"buffers", p>> \in held' <=> <<"buffers", p>> \in held
  BY <1>2 DEF TypeOK, DeviceTypeOK
<1>4. Without({"overlap"})' => Mapping'
  BY <1>0, <1>2, <1>3 DEF FHere, Mapping, Live
<1>5. Without({"overlap", "open", "early"})' => gdev.fd = t
  BY <1>0, <1>1 DEF FHere, Keeps, Cleanup
<1>6. Without({"overlap", "capture"})' => camera'.queued = {}
  BY <1>0, <1>1, <1>2 DEF FHere, NoOwner, Fills, Loop
<1>7. Without({"overlap", "open", "buffers"})' /\ camera'.owner # NULL => HasFrame'
  BY <1>0, <1>1, <1>2, <1>3 DEF FHere, NoOwner, HasFrame
<1>8. /\ InTime(t)' /\ ByItself(t)' /\ OwnDevice(t)' /\ Fed(t)' /\ Within(t)' /\ Filled(t)'
      /\ Encodes(t)' /\ Keeps(t)'
  BY <1>1 DEF InTime, ByItself, OwnDevice, Fed, Within, Filled, Encodes, Keeps, Prepared,
              InHands, Loop, SetUp, Cleanup
<1>9. Spares(t)
  BY <1>1, <1>2, <1>5 DEF Spares, SetUp, NoOwner, Live
<1>. QED  BY <1>1, <1>4, <1>6, <1>7, <1>8, <1>9 DEF Onward, FHere

(* A step of a preview keeps the invariant, as does one of the main        *)
(* thread (MainKeeps) or none.                                             *)
LEMMA StepKeeps ==
  ASSUME TypeOK, NoneAtHand, FInv, breach \subseteq breach', NEW t \in Thread, Step(t),
         running'
  PROVE  FInv'
<1>1. FHere(t)
  BY StepMoves, Here
<1>2. Onward(t)
  <2>1. CASE Quiet(t)
    BY <1>1, <2>1, QuietOnward
  <2>2. CASE \/ Open(t) \/ Configure(t) \/ RequestBuffers(t) \/ ResetCount(t)
             \/ MapBuffers(t) \/ StartCapture(t)
    BY <1>1, <2>2, OpenOnward, ConfigureOnward, RequestOnward, ResetOnward, MapOnward,
       StartOnward
  <2>3. CASE Dequeue(t) \/ Requeue(t) \/ StopCapture(t) \/ Uninit(t) \/ Close(t)
    BY <1>1, <2>3, DequeueOnward, RequeueOnward, StopOnward, UninitOnward, CloseOnward
  <2>. QED  BY <2>1, <2>2, <2>3 DEF Step, Quiet
<1>. QED  BY <1>2, There DEF Onward

-----------------------------------------------------------------------------
(***************************************************************************)
(* The commands, and the invariant.                                        *)
(***************************************************************************)

(* A command starts a thread or changes nothing that the threads work on. *)
LEMMA MainKeeps ==
  ASSUME TypeOK, FInv, breach \subseteq breach', Main
  PROVE  FInv'
<1>0. /\ \A B : Without(B)' => Without(B)
      /\ Bounding' => Bounding
  BY Earlier
<1>1. gdev' = gdev /\ camera' = camera /\ maps' = maps /\ held' = held /\ g_h264' = g_h264
      /\ req' = req /\ buf' = buf
  BY DEF Main, do_preview_start, do_preview_stop, do_takephoto, process_photo, processVars,
         deviceVars, threadVars
<1>2. \A u \in Thread : pc'[u] = pc[u] \/ (pc[u] = "new" /\ pc'[u] = "device_open")
  BY DEF Main, do_preview_start, do_preview_stop, do_takephoto, process_photo, threadVars, TypeOK
<1>3. Without({"early"})' => \A u \in Thread : InTime(u)'
  <2>. SUFFICES ASSUME Without({"early"})', NEW u \in Thread  PROVE InTime(u)'
    OBVIOUS
  <2>1. InTime(u) /\ "early" \notin breach'
    BY <1>0 DEF FInv, Without
  <2>2. CASE cancelled' = cancelled
    BY <1>2, <2>1, <2>2 DEF InTime, SetUp
  <2>3. CASE do_preview_stop
    BY <2>1, <2>3 DEF do_preview_stop, If, InTime, Alive, SetUp, Loop, Cleanup
  <2>. QED  BY <2>2, <2>3 DEF Main, do_preview_start, do_takephoto, process_photo, threadVars
<1>4. Without({"overlap"})' => OneAlive'
  <2>. SUFFICES ASSUME Without({"overlap"})'  PROVE OneAlive'
    OBVIOUS
  <2>1. OneAlive /\ "overlap" \notin breach'
    BY <1>0 DEF FInv, Without
  <2>2. CASE pc' = pc
    BY <2>1, <2>2 DEF OneAlive, Alive
  <2>3. CASE do_preview_start
    <3>1. ASSUME NEW t \in Thread, pc' = [pc EXCEPT ![t] = "device_open"],
                 breach' = breach \cup If(\E u \in Thread : Alive(u), "overlap")
          PROVE  OneAlive'
      <4>1. \A u \in Thread : ~Alive(u)
        BY <2>1, <3>1 DEF If
      <4>2. \A u \in Thread \ {t} : pc'[u] = pc[u]
        BY <3>1 DEF TypeOK
      <4>. QED  BY <4>1, <4>2 DEF OneAlive, Alive
    <3>. QED  BY <2>2, <2>3, <3>1 DEF do_preview_start
  <2>. QED  BY <2>2, <2>3 DEF Main, do_preview_stop, do_takephoto, process_photo, threadVars
<1>5. Without({"overlap"})' => Mapping'
  BY <1>0, <1>1 DEF FInv, Mapping, Live
<1>6. (Owns' <=> Owns) /\ (CanConfigure' <=> CanConfigure) /\ (HasFrame' <=> HasFrame)
  BY <1>1 DEF Owns, FdOpen, CanConfigure, HasFrame, Live
<1>7. ASSUME NEW u \in Thread
      PROVE  /\ ByItself(u) => ByItself(u)'
             /\ OwnDevice(u) => OwnDevice(u)'
             /\ Keeps(u) => Keeps(u)'
             /\ Fed(u) => Fed(u)'
             /\ Within(u) => Within(u)'
             /\ Encodes(u) => Encodes(u)'
             /\ Filled(u) => Filled(u)'
  <2>1. CASE pc'[u] = pc[u]
    <3>1. ByItself(u) => ByItself(u)'
      BY <1>1, <1>6, <2>1 DEF ByItself, Mapped
    <3>2. (OwnDevice(u) => OwnDevice(u)') /\ (Keeps(u) => Keeps(u)')
      BY <1>1, <2>1 DEF OwnDevice, Keeps, Live
    <3>3. (Fed(u) => Fed(u)') /\ (Within(u) => Within(u)')
      BY <1>1, <1>6, <2>1 DEF Fed, Within
    <3>4. (Encodes(u) => Encodes(u)') /\ (Filled(u) => Filled(u)')
      BY <1>1, <1>6, <2>1 DEF Encodes, Filled
    <3>. QED  BY <3>1, <3>2, <3>3, <3>4
  <2>2. CASE pc[u] = "new" /\ pc'[u] = "device_open"
    BY <1>1, <2>2 DEF ByItself, OwnDevice, Keeps, Fed, Within, Encodes, Filled, Prepared, InHands,
       Loop, SetUp, Cleanup
  <2>. QED  BY <1>2, <2>1, <2>2
<1>8. /\ (\A u \in Thread : pc'[u] \notin Fills) => \A u \in Thread : pc[u] \notin Fills
      /\ (\A u \in Thread : pc'[u] \notin InMmap) => \A u \in Thread : pc[u] \notin InMmap
  BY <1>2 DEF Fills, Loop, InMmap
<1>9. Without({"overlap", "capture"})' /\ (\A u \in Thread : pc'[u] \notin Fills)
        => camera'.queued = {}
  BY <1>0, <1>1, <1>8 DEF FInv
<1>10. Without({"overlap", "open", "buffers"})' /\ camera'.owner # NULL
         /\ (\A u \in Thread : pc'[u] \notin InMmap) => HasFrame'
  BY <1>0, <1>1, <1>6, <1>8 DEF FInv
<1>. QED  BY <1>0, <1>3, <1>4, <1>5, <1>7, <1>9, <1>10 DEF FInv

LEMMA InitFInv == Init => FInv
<1>. SUFFICES ASSUME Init  PROVE FInv
  OBVIOUS
<1>1. \A t \in Thread : pc[t] = "new"
  BY DEF Init
<1>2. cancelled = {} /\ camera = NoOwner /\ held = {}
  BY DEF Init, DeviceInit, ProcessInit
<1>3. Mapping
  BY <1>2 DEF Mapping, Live
<1>4. OneAlive
  BY <1>1 DEF OneAlive, Alive, SetUp, Loop, Cleanup
<1>5. \A t \in Thread : /\ InTime(t) /\ ByItself(t) /\ OwnDevice(t) /\ Keeps(t) /\ Fed(t)
                        /\ Within(t) /\ Encodes(t) /\ Filled(t)
  BY <1>1, <1>2 DEF InTime, ByItself, OwnDevice, Keeps, Fed, Within, Encodes, Filled, NoOwner,
     Prepared, InHands, Loop, SetUp, Cleanup
<1>. QED  BY <1>2, <1>3, <1>4, <1>5 DEF FInv, NoOwner

LEMMA SameFInv ==
  ASSUME TypeOK, FInv, UNCHANGED vars
  PROVE  FInv'
<1>0. UNCHANGED <<gdev, camera, maps, held, g_h264, pc, cancelled, req, buf, breach>>
  BY DEF vars, processVars, deviceVars, threadVars
<1>1. /\ (\A B : Without(B)' <=> Without(B)) /\ (Bounding' <=> Bounding)
      /\ (Owns' <=> Owns) /\ (CanConfigure' <=> CanConfigure) /\ (HasFrame' <=> HasFrame)
      /\ OneAlive' <=> OneAlive
  BY <1>0 DEF Without, Bounding, Owns, FdOpen, CanConfigure, HasFrame, Live, OneAlive, Alive
<1>2. Without({"overlap"}) => Mapping'
  BY <1>0 DEF FInv, Mapping, Live
<1>3. \A u \in Thread : /\ InTime(u) => InTime(u)'
                        /\ ByItself(u) => ByItself(u)'
                        /\ OwnDevice(u) => OwnDevice(u)'
                        /\ Keeps(u) => Keeps(u)'
  BY <1>0, <1>1 DEF InTime, ByItself, Mapped, OwnDevice, Keeps, Live
<1>4. \A u \in Thread : /\ Fed(u) => Fed(u)'
                        /\ Within(u) => Within(u)'
                        /\ Encodes(u) => Encodes(u)'
                        /\ Filled(u) => Filled(u)'
  BY <1>0, <1>1 DEF Fed, Within, Encodes, Filled
<1>. QED  BY <1>0, <1>1, <1>2, <1>3, <1>4 DEF FInv

(* Inductive: after a fault nothing moves. *)
Going == TypeOK /\ NoneAtHand /\ (running => FInv)

(* The process runs until its first fault, and in a running process the    *)
(* invariant holds.                                                        *)
LEMMA Goes == Spec => []Going
<1>1. Init => Going
  BY TypeInit, InitFInv DEF Going, Init, NoneAtHand
<1>2. Going /\ [Next]_vars => Going'
  <2>. SUFFICES ASSUME Going, [Next]_vars  PROVE Going'
    OBVIOUS
  <2>1. TypeOK /\ TypeOK'
    BY NextType DEF Going
  <2>2. CASE UNCHANGED vars
    BY <2>1, <2>2, SameFInv DEF Going, NoneAtHand, vars, processVars, threadVars, running
  <2>3. CASE Next
    <3>1. breach \subseteq breach' /\ FInv
      BY <2>1, <2>3, History DEF Going
    <3>2. NoneAtHand /\ NoneAtHand'
      BY <2>1, <2>3, StillNoneAtHand DEF Going
    <3>. QED  BY <2>1, <2>3, <3>1, <3>2, StepKeeps, MainKeeps DEF Going, Next
  <2>. QED  BY <2>2, <2>3
<1>. QED  BY <1>1, <1>2, PTL DEF Spec

-----------------------------------------------------------------------------
(***************************************************************************)
(* The faults a step commits.                                              *)
(***************************************************************************)

Some(B) == breach \cap B # {}

(* Without overlap, whatever fails. *)
Caused ==
  /\ "assert" \in faults' => {"open", "capture"} \subseteq breach
  /\ "null_deref" \in faults' =>
       Some({"early", "photo", "open", "buffers", "encoder"})
  /\ {"unmapped", "overflow", "bad_thread"} \cap faults' = {}
  /\ "bad_fd" \in faults' => "open" \in breach
  /\ "clean_unallocated" \in faults' => Some({"early", "encoder"})

(* The faults a step of a preview can commit, if no previews overlap. *)
LEMMA StepRaises ==
  ASSUME TypeOK, FInv, running, NEW t \in Thread, Step(t), "overlap" \notin breach
  PROVE  Caused
<1>0. faults = {} /\ (faults' = {} => Caused)
  BY DEF running, Caused
<1>1. FHere(t) /\ ByItself(t)
  BY StepMoves, Here DEF FHere, Without
<1>2. CASE \/ Cancel(t) \/ Open(t) \/ OpenError(t) \/ Configure(t) \/ RequestBuffers(t)
           \/ ResetCount(t) \/ BeginEncoding(t) \/ StartCapture(t) \/ Dequeue(t)
  BY <1>0, <1>2 DEF Cancel, Open, OpenError, Configure, RequestBuffers, ResetCount,
     BeginEncoding, StartCapture, Dequeue, Sane, processVars
<1>3. CASE SendHeader(t) \/ SendPayload(t) \/ Pace(t) \/ Requeue(t) \/ StopCapture(t) \/ Close(t)
  BY <1>0, <1>3 DEF SendHeader, SendPayload, Pace, Requeue, StopCapture, Close, Sane, processVars
<1>4. CASE MapBuffers(t)
  <2>1. gdev.buffers = t
    BY <1>1, <1>4 DEF MapBuffers, At, ByItself
  <2>2. faults' \subseteq {"use_after_free"}
    BY <1>0, <1>4, <2>1 DEF MapBuffers, map_buffer, Raise, If, Sane
  <2>. QED  BY <2>2 DEF Caused
<1>5. CASE Copy(t)
  <2>1. pc[t] = "copy" /\ copy_frame(buf[t].index)
    BY <1>5 DEF Copy, At
  <2>2. gdev.n_buffers \in Nat /\ buf[t].index \in Nat
    BY DEF TypeOK, DeviceTypeOK
  <2>3. CASE buf[t].index >= gdev.n_buffers
    <3>1. faults' = {"assert"}
      BY <1>0, <2>1, <2>3 DEF copy_frame, Raise
    <3>2. ~Within(t)
      BY <2>1, <2>2, <2>3 DEF Within, InHands, Loop, Indices
    <3>3. {"open", "capture"} \subseteq breach
      BY <1>1, <3>2 DEF FHere, Bounding, Without
    <3>. QED  BY <3>1, <3>3 DEF Caused
  <2>4. CASE ~(buf[t].index >= gdev.n_buffers)
    <3>1. Live("buffers", gdev.buffers) => buf[t].index \in maps[gdev.buffers]
      BY <1>1, <2>2, <2>4 DEF FHere, Mapping, Indices, Without
    <3>2. HasFrame \/ Some({"open", "buffers"})
      BY <1>1, <2>1 DEF FHere, Without, Some, Filled, Prepared, Loop
    <3>3. faults' \subseteq {"use_after_free", "null_deref"}
      BY <1>0, <2>1, <2>4, <3>1 DEF copy_frame, Raise, If
    <3>4. HasFrame => "null_deref" \notin faults'
      BY <1>0, <2>1, <2>4 DEF copy_frame, Raise, If, HasFrame
    <3>. QED  BY <3>2, <3>3, <3>4 DEF Caused, Some
  <2>. QED  BY <2>3, <2>4
<1>6. CASE Encode(t)
  <2>1. pc[t] = "encode" /\ (buf[t].array # NULL => Mapped(buf[t].array, buf[t].index))
    BY <1>1, <1>6 DEF Encode, At, ByItself
  <2>2. faults' \subseteq {"null_deref", "use_after_free"}
    BY <1>0, <1>6, <2>1 DEF Encode, h264_encode, Raise, If, processVars
  <2>3. Encodes(t) \/ Some({"early", "encoder"})
    BY <1>1 DEF FHere, Without, Some
  <2>4. g_h264.x264 = t /\ g_h264.picture = t => "null_deref" \notin faults'
    BY <1>0, <1>6, <2>1 DEF Encode, h264_encode, Raise, If, processVars
  <2>. QED  BY <2>1, <2>2, <2>3, <2>4 DEF Encodes, Loop, Caused, Some
<1>7. CASE CopyNals(t)
  <2>1. g_h264.nal = t
    BY <1>1, <1>7 DEF CopyNals, At, ByItself
  <2>2. faults' = {}
    BY <1>0, <1>7, <2>1 DEF CopyNals, copy_nals, Raise, If
  <2>. QED  BY <1>0, <2>2
<1>8. CASE EndEncoding(t)
  <2>1. pc[t] = "h264_end" /\ h264_encode_end
    BY <1>8 DEF EndEncoding, CleanupStep, At
  <2>2. faults' \subseteq {"null_deref", "clean_unallocated", "double_free"}
    BY <1>0, <2>1 DEF h264_encode_end, Raise, If
  <2>3. Encodes(t) \/ Some({"early", "encoder"})
    BY <1>1 DEF FHere, Without, Some
  <2>4. g_h264.x264 = t /\ g_h264.picture = t => faults' \subseteq {"double_free"}
    BY <1>0, <2>1 DEF h264_encode_end, Raise, If
  <2>. QED  BY <2>1, <2>2, <2>3, <2>4 DEF Encodes, Caused, Some
<1>9. CASE Uninit(t)
  <2>1. faults' \subseteq {"use_after_free", "double_free"}
    BY <1>0, <1>9 DEF Uninit, device_uninit, Raise, If
  <2>. QED  BY <2>1 DEF Caused
<1>10. CASE Select(t)
  <2>1. faults' \subseteq {"bad_fd"} /\ ("bad_fd" \in faults' => gdev.fd = NoFd)
    BY <1>0, <1>10 DEF Select, Raise, If
  <2>2. "open" \notin breach => gdev.fd = t
    BY <1>1, <1>10 DEF FHere, Without, OwnDevice, Select, At, Loop
  <2>. QED  BY <2>1, <2>2 DEF Caused
<1>. QED  BY <1>2, <1>3, <1>4, <1>5, <1>6, <1>7, <1>8, <1>9, <1>10 DEF Step

(* The faults a command can commit, whoever overlaps. *)
LEMMA MainRaises ==
  ASSUME TypeOK, FInv, running, Main
  PROVE  /\ faults' \subseteq {"bad_thread", "null_deref", "use_after_free"}
         /\ "bad_thread" \in faults' => "nothread" \in breach'
         /\ "null_deref" \in faults' =>
              breach' \cap {"photo", "overlap", "open", "buffers"} # {}
<1>0. faults = {}
  BY DEF running
<1>1. CASE do_preview_start \/ process_photo
  BY <1>0, <1>1 DEF do_preview_start, process_photo, processVars, Raise, If
<1>2. CASE do_preview_stop
  BY <1>0, <1>2 DEF do_preview_stop, Raise, If
<1>3. CASE do_takephoto
  <2>1. faults' \subseteq {"null_deref"} /\ ("null_deref" \in faults' => gdev.frame = NULL)
    BY <1>0, <1>3 DEF do_takephoto, Raise, If
  <2>2. ASSUME gdev.frame = NULL, Without({"overlap", "open", "buffers"})
        PROVE  \A t \in Thread : pc[t] \notin Loop
    BY <2>2 DEF FInv, Filled, HasFrame, Prepared
  <2>3. breach' = breach \cup If(~ \E t \in Thread : pc[t] \in Loop /\ t \notin cancelled,
                                 "photo")
    BY <1>3 DEF do_takephoto
  <2>4. gdev.frame = NULL => breach' \cap {"photo", "overlap", "open", "buffers"} # {}
    BY <2>2, <2>3 DEF Without, If
  <2>. QED  BY <2>1, <2>4
<1>. QED  BY <1>1, <1>2, <1>3 DEF Main

(* Nothing but STOP before any START can raise it. *)
LEMMA StepThread ==
  ASSUME running, NEW t \in Thread, Step(t)
  PROVE  "bad_thread" \notin faults'
<1>0. faults = {}
  BY DEF running
<1>1. CASE \/ Cancel(t) \/ Open(t) \/ OpenError(t) \/ Configure(t) \/ RequestBuffers(t)
           \/ ResetCount(t) \/ BeginEncoding(t) \/ StartCapture(t) \/ Dequeue(t)
  BY <1>0, <1>1 DEF Cancel, Open, OpenError, Configure, RequestBuffers, ResetCount,
     BeginEncoding, StartCapture, Dequeue, Sane, processVars
<1>2. CASE SendHeader(t) \/ SendPayload(t) \/ Pace(t) \/ Requeue(t) \/ StopCapture(t) \/ Close(t)
  BY <1>0, <1>2 DEF SendHeader, SendPayload, Pace, Requeue, StopCapture, Close, Sane, processVars
<1>3. CASE Select(t) \/ MapBuffers(t) \/ Copy(t) \/ Uninit(t)
  BY <1>0, <1>3 DEF Select, MapBuffers, map_buffer, Copy, copy_frame, Uninit, device_uninit, Raise,
                    If, Sane
<1>4. CASE Encode(t) \/ CopyNals(t) \/ EndEncoding(t)
  BY <1>0, <1>4 DEF Encode, h264_encode, CopyNals, copy_nals, EndEncoding, h264_encode_end, Raise,
     If, processVars
<1>. QED  BY <1>1, <1>2, <1>3, <1>4 DEF Step

(* One step into a state in which Orderly no longer holds commits only     *)
(* faults that have a cause.                                               *)
LEMMA Disorder ==
  ASSUME Going, [Next]_vars, FaultCause, ~Orderly'
  PROVE  FaultCause'
<1>0. faults' \subseteq FaultKind /\ TypeOK
  BY NextType DEF Going, TypeOK, ProcessTypeOK
<1>1. CASE UNCHANGED vars
  BY <1>1 DEF vars, processVars, FaultCause
<1>2. CASE Next
  <2>0. running /\ breach \subseteq breach' /\ FInv
    BY <1>0, <1>2, History DEF Going
  <2>1. CASE "overlap" \in breach'
    <3>1. "bad_thread" \in faults' => "nothread" \in breach'
      BY <1>0, <1>2, <2>0, MainRaises, StepThread DEF Next
    <3>2. ASSUME NEW f \in FaultKind \ {"bad_thread"}  PROVE {"overlap"} \in Causes(f)
      BY DEF FaultKind, Causes
    <3>3. {"nothread"} \in Causes("bad_thread")
      BY DEF Causes
    <3>4. ASSUME NEW f \in faults'  PROVE \E cause \in Causes(f) : cause \subseteq breach'
      <4>1. CASE f = "bad_thread"
        BY <3>1, <3>3, <3>4, <4>1
      <4>2. CASE f # "bad_thread"
        <5>1. {"overlap"} \in Causes(f)
          BY <1>0, <3>2, <3>4, <4>2
        <5>. QED  BY <2>1, <5>1
      <4>. QED  BY <4>1, <4>2
    <3>. QED  BY <3>4 DEF FaultCause
  <2>2. CASE "overlap" \notin breach'
    <3>1. \E b \in {"open", "buffers", "capture"} : b \in breach'
      BY <2>2 DEF Orderly
    <3>2. CASE Main
      <4>1. /\ faults' \subseteq {"bad_thread", "null_deref", "use_after_free"}
            /\ "bad_thread" \in faults' => "nothread" \in breach'
            /\ "null_deref" \in faults' => \E b \in {"photo", "open", "buffers"} : b \in breach'
        BY <1>0, <2>0, <2>2, <3>2, MainRaises
      <4>2. ASSUME NEW f \in faults'  PROVE \E cause \in Causes(f) : cause \subseteq breach'
        <5>1. CASE f = "bad_thread"
          BY <4>1, <4>2, <5>1 DEF Causes
        <5>2. CASE f = "null_deref"
          <6>1. PICK b \in {"photo", "open", "buffers"} : b \in breach'
            BY <4>1, <4>2, <5>2
          <6>2. {b} \in Causes("null_deref")
            BY DEF Causes
          <6>. QED  BY <5>2, <6>1, <6>2
        <5>3. CASE f = "use_after_free"
          BY <3>1, <5>3 DEF Causes
        <5>. QED  BY <4>1, <4>2, <5>1, <5>2, <5>3
      <4>. QED  BY <4>2 DEF FaultCause
    <3>3. ASSUME NEW t \in Thread, Step(t)  PROVE FaultCause'
      <4>1. Caused
        BY <1>0, <2>0, <2>2, <3>3, StepRaises
      <4>2. /\ "assert" \in faults' => {"open", "capture"} \subseteq breach'
            /\ "null_deref" \in faults' =>
                 \E b \in {"early", "photo", "open", "buffers", "encoder"} : b \in breach'
            /\ {"unmapped", "overflow", "bad_thread"} \cap faults' = {}
            /\ "bad_fd" \in faults' => "open" \in breach'
            /\ "clean_unallocated" \in faults' => \E b \in {"early", "encoder"} : b \in breach'
        BY <2>0, <4>1 DEF Caused, Some
      <4>3. ASSUME NEW f \in faults'  PROVE \E cause \in Causes(f) : cause \subseteq breach'
        <5>1. CASE f \in {"use_after_free", "double_free"}
          BY <3>1, <5>1 DEF Causes
        <5>2. CASE f = "assert"
          BY <4>2, <4>3, <5>2 DEF Causes
        <5>3. CASE f = "null_deref"
          BY <4>2, <4>3, <5>3 DEF Causes
        <5>4. CASE f = "clean_unallocated"
          BY <4>2, <4>3, <5>4 DEF Causes
        <5>5. CASE f = "bad_fd"
          BY <4>2, <4>3, <5>5 DEF Causes
        <5>. QED  BY <1>0, <4>2, <4>3, <5>1, <5>2, <5>3, <5>4, <5>5 DEF FaultKind
      <4>. QED  BY <4>3 DEF FaultCause
    <3>. QED  BY <1>2, <3>2, <3>3 DEF Next
  <2>. QED  BY <2>1, <2>2
<1>. QED  BY <1>1, <1>2

-----------------------------------------------------------------------------
(***************************************************************************)
(* The theorems.                                                           *)
(***************************************************************************)

(* Every failed assertion and every bad use of memory has one of its       *)
(* causes, whatever the master sends, wherever the calls on device and     *)
(* encoder fail and however many previews overlap.                         *)
THEOREM Causation == Spec => []FaultCause
<1>1. Init => FaultCause
  BY DEF Init, ProcessInit, FaultCause
<1>2. FaultCause /\ Going /\ IInv' /\ [Next]_vars => FaultCause'
  BY Disorder DEF IInv
<1>. QED  BY <1>1, <1>2, Invariance, Goes, PTL DEF Spec

(* A loop that ended on its own keeps the camera from every later preview, *)
(* as long as it is the only one that goes wrong: no START or STOP, however *)
(* many follow, and no failing ioctl changes the owner of the queue.       *)
THEOREM KeepsCamera == Spec => SelfEndKeepsCamera
<1>1. ASSUME Going, Going', [Next]_vars, NEW r \in Thread,
             breach' \cap {"overlap", "open", "early"} = {},
             pc[r] = "returned", camera.owner = r
      PROVE  camera'.owner = r
  <2>0. TypeOK
    BY <1>1 DEF Going
  <2>1. CASE UNCHANGED vars \/ Main
    BY <1>1, <2>1 DEF vars, deviceVars, Main, do_preview_start, do_preview_stop, do_takephoto,
       process_photo
  <2>2. ASSUME NEW t \in Thread, Step(t), breach \subseteq breach', FInv
        PROVE  camera'.owner = r
    <3>1. \A B : B \subseteq {"overlap", "open", "early"} => Without(B)
      BY <1>1, <2>2 DEF Without
    <3>2. OwnDevice(t) /\ Keeps(t) /\ ByItself(t) /\ Live("fd", r) /\ t # r
      <4>1. OwnDevice(t) /\ Keeps(t) /\ ByItself(t) /\ Keeps(r)
        BY <2>2, <3>1 DEF FInv
      <4>2. pc[t] # "returned"
        BY <2>0, <2>2, StepMoves DEF Alive, SetUp, Loop, Cleanup
      <4>. QED  BY <1>1, <4>1, <4>2 DEF Keeps
    <3>3. CASE Quiet(t) \/ Open(t) \/ Configure(t)
      BY <1>1, <3>3 DEF Quiet, Cancel, OpenError, BeginEncoding, Select, Copy, copy_frame, Encode,
         CopyNals, SendHeader, SendPayload, Pace, EndEncoding, Open, device_open,
         device_open_fails, Configure, device_init, deviceVars
    <3>4. CASE ResetCount(t) \/ MapBuffers(t)
      BY <1>1, <3>4 DEF ResetCount, reset_count, MapBuffers, map_buffer, alloc_frame, deviceVars
    <3>5. CASE StartCapture(t) \/ StopCapture(t) \/ Dequeue(t) \/ Requeue(t)
      <4>1. camera'.owner = camera.owner
        <5>1. CASE StartCapture(t)
          BY <2>0, <5>1 DEF StartCapture, enqueue, stream_on, deviceVars, TypeOK, DeviceTypeOK
        <5>2. CASE StopCapture(t)
          BY <2>0, <5>2 DEF StopCapture, capture_stop, TypeOK, DeviceTypeOK
        <5>3. CASE Dequeue(t) \/ Requeue(t)
          BY <2>0, <5>3 DEF Dequeue, Requeue, dequeue, enqueue, deviceVars, TypeOK, DeviceTypeOK
        <5>. QED  BY <3>5, <5>1, <5>2, <5>3
      <4>. QED  BY <1>1, <4>1
    <3>6. CASE RequestBuffers(t)
      <4>1. camera.owner = NULL
        BY <3>2, <3>6 DEF RequestBuffers, At, ByItself, CanConfigure
      <4>. QED  BY <1>1, <4>1
    <3>7. CASE Uninit(t)
      <4>1. <<"fd", r>> \in held
        BY <3>2 DEF Live
      <4>2. Settle(held, maps')
        BY <3>7 DEF Uninit, device_uninit
      <4>. QED  BY <1>1, <4>1, <4>2 DEF Settle
    <3>8. CASE Close(t)
      <4>1. gdev.fd = t
        BY <3>2, <3>8 DEF Close, CleanupStep, At, Keeps, Cleanup
      <4>2. <<"fd", r>> \in held \ {<<"fd", t>>}
        BY <3>2 DEF Live
      <4>3. Settle(held \ {<<"fd", t>>}, maps)
        BY <3>8, <4>1 DEF Close, device_close
      <4>. QED  BY <1>1, <4>2, <4>3 DEF Settle
    <3>. QED  BY <2>2, <3>3, <3>4, <3>5, <3>6, <3>7, <3>8 DEF Step, Quiet
  <2>3. CASE Next
    <3>1. breach \subseteq breach' /\ FInv
      BY <1>1, <2>0, <2>3, History DEF Going
    <3>. QED  BY <2>1, <2>2, <2>3, <3>1 DEF Next
  <2>. QED  BY <1>1, <2>1, <2>3
<1>2. Going /\ Going' /\ [Next]_vars =>
        [\A t \in Thread :
           /\ breach' \cap {"overlap", "open", "early"} = {}
           /\ pc[t] = "returned" /\ camera.owner = t
           => camera'.owner = t]_vars
  BY <1>1
<1>. QED  BY <1>2, Goes, PTL DEF Spec, SelfEndKeepsCamera

(* A thread that has not opened the device has no descriptor. *)
Numbered == \A u \in Thread : Live("fd", u) => pc[u] \notin {"new", "device_open"}

(* Steps that open and close no descriptor, and do not change gdev.fd or   *)
(* the owner of the driver's queue.                                        *)
Distant == /\ gdev'.fd = gdev.fd /\ camera'.owner = camera.owner
           /\ \A u : <<"fd", u>> \in held' <=> <<"fd", u>> \in held

LEMMA DistantSteps ==
  ASSUME TypeOK, NEW t \in Thread, Step(t),
         ~Open(t), ~RequestBuffers(t), ~Uninit(t), ~Close(t)
  PROVE  Distant
<1>1. CASE OpenError(t) \/ Select(t) \/ Copy(t) \/ Pace(t) \/ Cancel(t)
  BY <1>1 DEF OpenError, Select, Copy, copy_frame, Pace, Cancel, processVars, deviceVars, Distant
<1>2. CASE Configure(t) \/ ResetCount(t)
  BY <1>2 DEF Configure, device_init, ResetCount, reset_count, Distant, TypeOK, DeviceTypeOK
<1>3. CASE MapBuffers(t)
  <2>1. /\ gdev' = gdev \/ gdev' = [gdev EXCEPT !.n_buffers = @ + 1]
           \/ gdev' = [gdev EXCEPT !.frame = t, !.length = 1]
           \/ gdev' = [gdev EXCEPT !.frame = NULL]
        /\ camera' = camera
        /\ held' \in {held, held \cup {<<"frame", t>>}}
    BY <1>3 DEF MapBuffers, map_buffer, alloc_frame, deviceVars
  <2>. QED  BY <2>1 DEF Distant, TypeOK, DeviceTypeOK
<1>4. CASE BeginEncoding(t) \/ Encode(t) \/ CopyNals(t) \/ EndEncoding(t)
  BY <1>4 DEF BeginEncoding, h264_encode_begin, Encode, h264_encode, CopyNals, copy_nals,
              EndEncoding, h264_encode_end, deviceVars, processVars, Distant, If
<1>5. CASE StartCapture(t) \/ Requeue(t) \/ Dequeue(t) \/ StopCapture(t)
  BY <1>5 DEF StartCapture, stream_on, enqueue, Requeue, Dequeue, dequeue, StopCapture,
              capture_stop, deviceVars, Distant, TypeOK, DeviceTypeOK
<1>6. CASE SendHeader(t) \/ SendPayload(t)
  BY <1>6 DEF SendHeader, SendPayload, deviceVars, Distant
<1>. QED  BY <1>1, <1>2, <1>3, <1>4, <1>5, <1>6 DEF Step

(* No step leads back to the beginning, and only the read of a frame       *)
(* leaves the label it is made at, or a cancellation.                      *)
LEMMA StepLeaves ==
  ASSUME TypeOK, NEW t \in Thread, Step(t)
  PROVE  /\ pc'[t] \notin {"new", "device_open"}
         /\ pc[t] = "dequeue" => Dequeue(t) \/ Cancel(t)
<1>. USE DEF At, Goto, Branch, CleanupStep, TypeOK
<1>1. CASE Cancel(t) \/ OpenError(t) \/ Open(t) \/ Configure(t) \/ RequestBuffers(t)
          \/ ResetCount(t) \/ MapBuffers(t) \/ BeginEncoding(t) \/ StartCapture(t)
  BY <1>1 DEF Cancel, OpenError, Open, Configure, RequestBuffers, ResetCount, MapBuffers,
     BeginEncoding, StartCapture
<1>2. CASE Select(t) \/ Dequeue(t) \/ Copy(t) \/ Encode(t) \/ CopyNals(t)
          \/ SendHeader(t) \/ SendPayload(t) \/ Pace(t) \/ Requeue(t)
  BY <1>2 DEF Select, Dequeue, Copy, Encode, CopyNals, SendHeader, SendPayload, Pace, Requeue
<1>3. CASE StopCapture(t) \/ EndEncoding(t) \/ Uninit(t) \/ Close(t)
  BY <1>3 DEF StopCapture, EndEncoding, Uninit, Close
<1>. QED  BY <1>1, <1>2, <1>3 DEF Step

LEMMA StillNumbered ==
  ASSUME TypeOK, Numbered, Next
  PROVE  Numbered'
<1>1. CASE Main
  <2>1. held' = held
    BY <1>1 DEF Main, do_preview_start, do_preview_stop, do_takephoto, process_photo, processVars
  <2>2. \A u \in Thread : pc'[u] = pc[u] \/ pc[u] = "new"
    BY <1>1 DEF Main, do_preview_start, do_preview_stop, do_takephoto, process_photo, threadVars,
       TypeOK
  <2>. QED  BY <2>1, <2>2 DEF Numbered, Live
<1>2. ASSUME NEW t \in Thread, Step(t)  PROVE Numbered'
  <2>1. \A u \in Thread \ {t} : pc'[u] = pc[u]
    BY <1>2, StepMoves DEF TypeOK
  <2>2. \A u : <<"fd", u>> \in held' => u = t \/ <<"fd", u>> \in held
    <3>1. CASE Open(t)
      <4>1. held' = held \/ held' = held \cup {<<"fd", t>>}
        BY <3>1 DEF Open, device_open, device_open_fails
      <4>. QED  BY <4>1
    <3>2. CASE RequestBuffers(t)
      <4>1. PICK answer \in {"granted", "einval", "error"}, count \in Granted \cup {Asked},
                 room \in BOOLEAN : request_buffers(t, answer, count, room)
        BY <3>2 DEF RequestBuffers
      <4>2. held' = held \/ held' = held \cup {<<"buffers", t>>}
        BY <4>1 DEF request_buffers
      <4>. QED  BY <4>2
    <3>3. CASE Uninit(t) \/ Close(t)
      <4>1. held' \subseteq held
        BY <3>3 DEF Uninit, device_uninit, Close, device_close
      <4>. QED  BY <4>1
    <3>. QED  BY <1>2, <3>1, <3>2, <3>3, DistantSteps DEF Distant
  <2>3. pc'[t] \notin {"new", "device_open"}
    BY <1>2, StepLeaves
  <2>. QED  BY <2>1, <2>2, <2>3 DEF Numbered, Live
<1>. QED  BY <1>1, <1>2 DEF Next

(* What a descriptor that gdev has lost holds, nobody gets hold of again.  *)
LEMMA StillStranded ==
  ASSUME TypeOK, Numbered, Next, NEW u \in Thread, Stranded(u)
  PROVE  Stranded(u)' /\ \A t \in Thread : pc[t] = "dequeue" => pc'[t] # "copy"
<1>0. camera.owner = u /\ <<"fd", u>> \in held /\ gdev.fd # u /\ ~Owns
  BY DEF Stranded, Live, Owns
<1>1. CASE Main
  BY <1>0, <1>1 DEF Main, do_preview_start, do_preview_stop, do_takephoto, process_photo,
     processVars, deviceVars, threadVars, Stranded, Live, TypeOK
<1>2. ASSUME NEW t \in Thread, Step(t)
      PROVE  Stranded(u)' /\ (pc[t] = "dequeue" => pc'[t] # "copy")
  <2>1. Stranded(u)'
    <3>1. CASE Open(t)
      <4>1. t # u
        BY <1>0, <3>1 DEF Open, At, Numbered, Live
      <4>2. gdev'.fd \in {t, NoFd, gdev.fd} /\ held \subseteq held' /\ camera' = camera
        BY <3>1 DEF Open, device_open, device_open_fails, TypeOK, DeviceTypeOK
      <4>. QED  BY <1>0, <4>1, <4>2 DEF Stranded, Live
    <3>2. CASE RequestBuffers(t)
      <4>1. PICK answer \in {"granted", "einval", "error"}, count \in Granted \cup {Asked},
                 room \in BOOLEAN : request_buffers(t, answer, count, room)
        BY <3>2 DEF RequestBuffers
      <4>2. answer # "granted" /\ camera' = camera
        BY <1>0, <4>1 DEF request_buffers, CanRequest, CanConfigure
      <4>3. gdev'.fd = gdev.fd /\ held \subseteq held'
        BY <4>1 DEF request_buffers, TypeOK, DeviceTypeOK
      <4>. QED  BY <1>0, <4>2, <4>3 DEF Stranded, Live
    <3>3. CASE Uninit(t)
      <4>1. Settle(held, maps') /\ gdev'.fd = gdev.fd
            /\ (<<"fd", u>> \in held' <=> <<"fd", u>> \in held)
        BY <3>3 DEF Uninit, device_uninit, TypeOK, DeviceTypeOK
      <4>. QED  BY <1>0, <4>1 DEF Settle, Stranded, Live
    <3>4. CASE Close(t)
      <4>1. /\ Settle(held', maps) /\ gdev'.fd = NoFd
            /\ held' = held \ {<<"fd", gdev.fd>>}
        BY <3>4 DEF Close, device_close, TypeOK, DeviceTypeOK
      <4>. QED  BY <1>0, <4>1 DEF Settle, Stranded, Live
    <3>. QED  BY <1>0, <1>2, <3>1, <3>2, <3>3, <3>4, DistantSteps DEF Distant, Stranded, Live
  <2>2. ASSUME pc[t] = "dequeue"  PROVE pc'[t] # "copy"
    <3>1. Dequeue(t) \/ Cancel(t)
      BY <1>2, <2>2, StepLeaves
    <3>2. CASE Dequeue(t)
      <4>1. Goto(t, "returned")
        BY <1>0, <3>2 DEF Dequeue, dequeue, CanDequeue
      <4>. QED  BY <4>1 DEF Goto, TypeOK
    <3>3. CASE Cancel(t)
      BY <3>3 DEF Cancel, Goto, TypeOK
    <3>. QED  BY <3>1, <3>2, <3>3
  <2>. QED  BY <2>1, <2>2
<1>3. ASSUME NEW t \in Thread, Step(t), NEW v \in Thread \ {t}  PROVE pc'[v] = pc[v]
  BY <1>3, StepMoves DEF TypeOK
<1>. QED  BY <1>1, <1>2, <1>3 DEF Next

(* Overlap or a loop that ended on its own: once gdev.fd is not the        *)
(* descriptor that holds the queue, nobody is handed a frame any more.     *)
THEOREM EndsCapture == Spec => OverlapEndsCapture
<1>1. Init => Numbered
  BY DEF Init, ProcessInit, Numbered, Live
<1>2. TypeOK /\ Numbered /\ [Next]_vars => Numbered'
  BY StillNumbered DEF Numbered, Live, vars, processVars, threadVars
<1>3. TypeOK /\ Numbered /\ [Next]_vars =>
        [\A u \in Thread : Stranded(u) =>
           /\ Stranded(u)'
           /\ \A t \in Thread : pc[t] = "dequeue" => pc'[t] # "copy"]_vars
  BY StillStranded
<1>. QED  BY <1>1, <1>2, <1>3, TypeCorrect, PTL DEF Spec, OverlapEndsCapture

=============================================================================
