--------------------------- MODULE SessionProofs ---------------------------
(***************************************************************************)
(* Proof that Preview takes only the steps of module Session, for every    *)
(* number of previews and buffers.                                         *)
(***************************************************************************)
EXTENDS FailureProofs

USE ThreadAssumption, DeviceAssumption

(* Only a thread that was told to stop is in cleanup(). *)
ToldToStop == \A t \in Thread : pc[t] \in Cleanup => t \in cancelled

(* ToldToStop is inductive: cleanup() is entered through a cancellation    *)
(* only.                                                                   *)
LEMMA ToldStays ==
  ASSUME TypeOK, ToldToStop, Next
  PROVE  ToldToStop'
<1>1. CASE Main
  <2>1. \A t \in Thread : pc'[t] = pc[t] \/ pc'[t] = "device_open"
    BY <1>1 DEF Main, do_preview_start, do_preview_stop, do_takephoto, process_photo, threadVars,
       TypeOK
  <2>2. cancelled \subseteq cancelled'
    BY <1>1 DEF Main, do_preview_start, do_preview_stop, do_takephoto, process_photo, threadVars
  <2>. QED  BY <2>1, <2>2 DEF ToldToStop, Cleanup
<1>2. ASSUME NEW t \in Thread, Step(t)  PROVE ToldToStop'
  <2>1. pc' = [pc EXCEPT ![t] = pc'[t]] /\ cancelled' = cancelled
    BY <1>2, StepMoves
  <2>2. pc'[t] \in Cleanup => t \in cancelled
    <3>1. CASE Cancel(t)
      BY <3>1 DEF Cancel
    <3>2. CASE \/ Open(t) \/ OpenError(t) \/ Configure(t) \/ RequestBuffers(t) \/ ResetCount(t)
               \/ MapBuffers(t) \/ BeginEncoding(t) \/ StartCapture(t) \/ Select(t)
      <4>1. pc'[t] \in SetUp \cup Loop \cup Finished
        <5>1. CASE Open(t) \/ OpenError(t) \/ Configure(t) \/ RequestBuffers(t)
          BY <5>1 DEF Open, OpenError, Configure, RequestBuffers, Branch, Goto, TypeOK, SetUp
        <5>2. CASE ResetCount(t) \/ MapBuffers(t) \/ BeginEncoding(t) \/ StartCapture(t)
                   \/ Select(t)
          BY <5>2 DEF ResetCount, MapBuffers, BeginEncoding, StartCapture, Select, At, Branch, Goto, TypeOK,
             SetUp, Loop, Finished
        <5>. QED  BY <3>2, <5>1, <5>2
      <4>. QED  BY <4>1 DEF SetUp, Loop, Finished, Cleanup
    <3>3. CASE \/ Dequeue(t) \/ Copy(t) \/ Encode(t) \/ CopyNals(t) \/ SendHeader(t)
               \/ SendPayload(t) \/ Pace(t) \/ Requeue(t)
      <4>1. pc'[t] \in Loop \cup Finished
        <5>1. CASE Dequeue(t) \/ Copy(t) \/ Encode(t) \/ CopyNals(t)
          BY <5>1 DEF Dequeue, Copy, Encode, CopyNals, Goto, TypeOK, Loop, Finished
        <5>2. CASE SendHeader(t) \/ SendPayload(t) \/ Pace(t) \/ Requeue(t)
          BY <5>2 DEF SendHeader, SendPayload, Pace, Requeue, Goto, TypeOK, Loop, Finished
        <5>. QED  BY <3>3, <5>1, <5>2
      <4>. QED  BY <4>1 DEF Loop, Finished, Cleanup
    <3>4. CASE StopCapture(t) \/ EndEncoding(t) \/ Uninit(t) \/ Close(t)
      BY <3>4 DEF StopCapture, EndEncoding, Uninit, Close, CleanupStep, At, ToldToStop, Cleanup
    <3>. QED  BY <1>2, <3>1, <3>2, <3>3, <3>4 DEF Step
  <2>. QED  BY <2>1, <2>2 DEF ToldToStop, TypeOK
<1>. QED  BY <1>1, <1>2 DEF Next

-----------------------------------------------------------------------------
(***************************************************************************)
(* The refinement mapping, for the one thread that is alive.               *)
(***************************************************************************)

Phase(t) == IF t \in cancelled THEN "stopping"
            ELSE IF pc[t] \in SetUp THEN "starting" ELSE "on"

(* The abstract phase is that of the one preview that is alive, or off. *)
LEMMA PhaseAlive ==
  ASSUME NEW t \in Thread, Alive(t), OneAlive
  PROVE  phaseBar = Phase(t)
<1>1. ~NobodyRuns
  BY DEF NobodyRuns
<1>2. (\E u \in Thread : Alive(u) /\ u \in cancelled) <=> t \in cancelled
  BY DEF OneAlive
<1>3. (\E u \in Thread : pc[u] \in SetUp /\ u \notin cancelled)
        <=> pc[t] \in SetUp /\ t \notin cancelled
  BY DEF OneAlive, Alive
<1>. QED  BY <1>1, <1>2, <1>3 DEF phaseBar, Phase

LEMMA PhaseOff == ASSUME NobodyRuns PROVE phaseBar = "off"
<1>1. /\ ~ \E u \in Thread : Alive(u) /\ u \in cancelled
      /\ ~ \E u \in Thread : pc[u] \in SetUp /\ u \notin cancelled
  BY DEF NobodyRuns, Alive
<1>. QED  BY <1>1 DEF phaseBar

(* What the other threads see of a step. *)
LEMMA StepPhase ==
  ASSUME TypeOK, OneAlive, NEW t \in Thread, Step(t)
  PROVE  /\ phaseBar = Phase(t)
         /\ Alive(t)' => phaseBar' = Phase(t)'
         /\ ~Alive(t)' => phaseBar' = "off"
<1>1. Alive(t) /\ \A u \in Thread \ {t} : pc'[u] = pc[u]
  BY StepMoves DEF TypeOK
<1>2. \A u \in Thread \ {t} : ~Alive(u) /\ ~Alive(u)'
  BY <1>1 DEF OneAlive, Alive
<1>3. OneAlive' /\ (~Alive(t)' => NobodyRuns')
  BY <1>2 DEF OneAlive, NobodyRuns
<1>4. phaseBar = Phase(t)
  BY <1>1, PhaseAlive
<1>5. ASSUME Alive(t)'  PROVE phaseBar' = Phase(t)'
  <2>1. ~NobodyRuns'
    BY <1>5 DEF NobodyRuns
  <2>2. (\E u \in Thread : Alive(u)' /\ u \in cancelled') <=> t \in cancelled'
    BY <1>3, <1>5 DEF OneAlive
  <2>3. (\E u \in Thread : pc'[u] \in SetUp /\ u \notin cancelled')
          <=> pc'[t] \in SetUp /\ t \notin cancelled'
    BY <1>3, <1>5 DEF OneAlive, Alive
  <2>. QED  BY <2>1, <2>2, <2>3 DEF phaseBar, Phase
<1>6. ASSUME ~Alive(t)'  PROVE phaseBar' = "off"
  <2>1. NobodyRuns'
    BY <1>3, <1>6
  <2>2. /\ ~ \E u \in Thread : Alive(u)' /\ u \in cancelled'
        /\ ~ \E u \in Thread : pc'[u] \in SetUp /\ u \notin cancelled'
    BY <2>1 DEF NobodyRuns, Alive
  <2>. QED  BY <2>1, <2>2 DEF phaseBar
<1>. QED  BY <1>4, <1>5, <1>6

SessionStep == [Sessions!Next]_(Sessions!vars)

(* Each kind of step is one of Session's, or changes nothing of it: a      *)
(* step of the set-up, of the loop, of cleanup(), and of the main thread.  *)
LEMMA SetUpStep ==
  ASSUME TypeOK, Shaped, ToldToStop, Undisturbed', Orderly, breach \subseteq breach',
         NEW t \in Thread, Step(t), pc[t] \in SetUp
  PROVE  SessionStep
<1>1. Shape(t) /\ t \notin cancelled /\ cancelled' = cancelled
  BY StepMoves DEF Shaped, CancelledThreads, Undisturbed, Alive
<1>2. phaseBar = "starting"
  BY <1>1, StepPhase DEF Phase, Shaped
<1>3. ASSUME pc'[t] \in SetUp  PROVE phaseBar' = "starting"
  BY <1>1, <1>3, StepPhase DEF Phase, Alive, Shaped
<1>4. "buffers" \notin breach' /\ "capture" \notin breach'
  BY DEF Undisturbed, Orderly
<1>5. CASE Open(t) \/ Configure(t) \/ ResetCount(t) \/ MapBuffers(t) \/ BeginEncoding(t)
  <2>1. pc'[t] \in SetUp
    <3>1. CASE Open(t) \/ Configure(t) \/ ResetCount(t)
      BY <3>1 DEF Open, Configure, ResetCount, Branch, Goto, TypeOK, SetUp
    <3>2. CASE MapBuffers(t) \/ BeginEncoding(t)
      BY <3>2 DEF MapBuffers, BeginEncoding, At, Goto, TypeOK, SetUp
    <3>. QED  BY <1>5, <3>1, <3>2
  <2>2. camera' = camera
    <3>1. CASE Open(t) \/ Configure(t) \/ ResetCount(t)
      BY <3>1 DEF Open, device_open, device_open_fails, Configure, device_init, ResetCount,
         reset_count
    <3>2. CASE MapBuffers(t) \/ BeginEncoding(t)
      BY <3>2 DEF MapBuffers, map_buffer, alloc_frame, BeginEncoding, deviceVars
    <3>. QED  BY <1>5, <3>1, <3>2
  <2>. QED  BY <1>2, <1>3, <2>1, <2>2 DEF SessionStep, Sessions!vars, deviceBar
<1>6. CASE RequestBuffers(t)
  <2>1. /\ pc[t] = "init_mmap" /\ pc'[t] \in SetUp
        /\ camera' = camera \/ camera' = [NoOwner EXCEPT !.owner = gdev.fd, !.count = camera'.count]
    BY <1>6 DEF RequestBuffers, At, Goto, request_buffers, NoOwner, TypeOK, SetUp
  <2>2. camera = NoOwner /\ gdev.fd = t
    BY <1>1, <2>1 DEF Shape, Opened
  <2>3. CASE camera' = camera
    BY <1>2, <1>3, <2>1, <2>3 DEF SessionStep, Sessions!vars, deviceBar
  <2>4. CASE camera' = [NoOwner EXCEPT !.owner = gdev.fd, !.count = camera'.count]
    <3>1. camera'.owner = t /\ camera'.streaming = FALSE
      BY <2>2, <2>4 DEF NoOwner
    <3>2. deviceBar = "free"
      BY <2>2 DEF deviceBar, NoOwner
    <3>3. deviceBar' = "reserved"
      BY <3>1 DEF deviceBar
    <3>. QED  BY <1>2, <1>3, <2>1, <3>2, <3>3 DEF SessionStep, Sessions!Next, Sessions!Reserve
  <2>. QED  BY <2>1, <2>3, <2>4
<1>7. CASE StartCapture(t)
  <2>1. pc[t] = "capture_start"
    BY <1>7 DEF StartCapture, At
  <2>2. /\ Capturing(t) /\ ~camera.streaming
        /\ buf[t].index <= camera.count /\ camera.queued = Indices(buf[t].index)
    BY <1>1, <2>1 DEF Shape
  <2>3. Owns /\ camera.owner = t /\ gdev.n_buffers = camera.count
    BY <2>2, CapturingHolds DEF Ready, Buffers, Requested, Owns, FdOpen
  <2>4. buf[t].index < gdev.n_buffers => CanEnqueue(buf[t].index)
    BY <2>2, <2>3 DEF CanEnqueue, Indices, TypeOK, DeviceTypeOK
  <2>5. deviceBar = "reserved"
    BY <2>2, <2>3 DEF deviceBar
  <2>6. CASE enqueue(buf[t].index) /\ UNCHANGED pc
    <3>1. camera'.owner = t /\ ~camera'.streaming
      BY <2>2, <2>3, <2>6 DEF enqueue, TypeOK, DeviceTypeOK
    <3>2. deviceBar' = "reserved"
      BY <3>1 DEF deviceBar
    <3>3. phaseBar' = "starting"
      BY <1>3, <2>6
    <3>. QED  BY <1>2, <2>5, <3>2, <3>3 DEF SessionStep, Sessions!vars
  <2>7. CASE stream_on /\ Goto(t, "select")
    <3>1. pc'[t] = "select" /\ camera'.streaming
      BY <2>7 DEF Goto, stream_on, TypeOK, DeviceTypeOK
    <3>2. phaseBar' = "on"
      BY <1>1, <3>1, StepPhase DEF Phase, Alive, SetUp, Loop, Shaped
    <3>3. deviceBar' = "streaming"
      BY <3>1 DEF deviceBar
    <3>. QED  BY <1>2, <2>5, <3>2, <3>3 DEF SessionStep, Sessions!Next, Sessions!StreamOn
  <2>. QED  BY <1>4, <1>7, <2>3, <2>4, <2>6, <2>7 DEF StartCapture, Failed, If
<1>8. ~Cancel(t) /\ ~OpenError(t)
  BY <1>1 DEF Cancel, OpenError, At, Shape
<1>9. ~(\/ Select(t) \/ Dequeue(t) \/ Copy(t) \/ Encode(t) \/ CopyNals(t) \/ SendHeader(t)
        \/ SendPayload(t) \/ Pace(t) \/ Requeue(t))
  BY DEF Select, Dequeue, Copy, Encode, CopyNals, SendHeader, SendPayload, Pace, Requeue, At, SetUp
<1>10. ~(StopCapture(t) \/ EndEncoding(t) \/ Uninit(t) \/ Close(t))
  BY DEF StopCapture, EndEncoding, Uninit, Close, CleanupStep, At, SetUp
<1>. QED  BY <1>5, <1>6, <1>7, <1>8, <1>9, <1>10 DEF Step

LEMMA LoopStep ==
  ASSUME TypeOK, Shaped, ToldToStop, Undisturbed', Orderly, breach \subseteq breach',
         NEW t \in Thread, Step(t), pc[t] \in Loop
  PROVE  SessionStep
<1>1. Shape(t) /\ cancelled' = cancelled
  BY StepMoves DEF Shaped, Alive
<1>2. Capturing(t) /\ camera.streaming
  BY <1>1 DEF Shape
<1>3. Owns /\ gdev.n_buffers = camera.count
  BY <1>2, CapturingHolds DEF Ready, Buffers, Requested, Owns, FdOpen
<1>4. "capture" \notin breach'
  BY DEF Undisturbed, Orderly
<1>5. /\ pc'[t] \in Loop \/ (pc'[t] = "capture_stop" /\ t \in cancelled)
      /\ camera'.streaming
  <2>1. CASE Cancel(t)
    BY <1>2, <2>1 DEF Cancel, Goto, deviceVars, TypeOK
  <2>2. CASE Select(t)
    <3>1. camera.queued = Indices(camera.count) /\ camera.count >= 2 /\ camera.count \in Nat
      BY <1>1, <1>2, <2>2, CapturingHolds
         DEF Select, At, Shape, Ready, Buffers, Requested, TypeOK, DeviceTypeOK
    <3>2. 0 \in camera.queued
      BY <3>1 DEF Indices
    <3>3. CanDequeue
      BY <1>2, <1>3, <3>2 DEF CanDequeue
    <3>4. pc'[t] = "dequeue"
      BY <1>4, <2>2, <3>3 DEF Select, Branch, Goto, Failed, If, TypeOK
    <3>. QED  BY <1>2, <2>2, <3>4 DEF Select, deviceVars, Loop
  <2>3. CASE Dequeue(t)
    <3>1. camera.queued = Indices(camera.count) /\ camera.count >= 2 /\ camera.count \in Nat
      BY <1>1, <1>2, <2>3, CapturingHolds
         DEF Dequeue, At, Shape, Ready, Buffers, Requested, TypeOK, DeviceTypeOK
    <3>2. 0 \in camera.queued
      BY <3>1 DEF Indices
    <3>3. CanDequeue
      BY <1>2, <1>3, <3>2 DEF CanDequeue
    <3>4. PICK i \in camera.queued : dequeue(i) /\ Goto(t, "copy")
      BY <1>4, <2>3, <3>3 DEF Dequeue, Failed, If
    <3>. QED  BY <1>2, <3>4 DEF dequeue, Goto, Loop, TypeOK, DeviceTypeOK
  <2>4. CASE Copy(t) \/ Encode(t) \/ CopyNals(t) \/ SendHeader(t) \/ SendPayload(t) \/ Pace(t)
    <3>1. camera' = camera
      BY <2>4 DEF Copy, copy_frame, Encode, CopyNals, SendHeader, SendPayload, Pace, deviceVars
    <3>2. pc'[t] \in Loop
      BY <2>4 DEF Copy, Encode, CopyNals, SendHeader, SendPayload, Pace, Goto, Loop, TypeOK
    <3>. QED  BY <1>2, <3>1, <3>2
  <2>5. CASE Requeue(t)
    <3>1. pc[t] = "requeue"
      BY <2>5 DEF Requeue, At
    <3>2. CanEnqueue(buf[t].index)
      BY <1>1, <1>3, <3>1 DEF Shape, Loop, CanEnqueue
    <3>3. enqueue(buf[t].index) /\ Goto(t, "select")
      BY <1>4, <2>5, <3>2 DEF Requeue, Failed, If
    <3>. QED  BY <1>2, <3>3 DEF enqueue, Goto, Loop, TypeOK, DeviceTypeOK
  <2>6. ~(\/ Open(t) \/ OpenError(t) \/ Configure(t) \/ RequestBuffers(t) \/ ResetCount(t)
          \/ MapBuffers(t) \/ BeginEncoding(t) \/ StartCapture(t))
    BY DEF Open, OpenError, Configure, RequestBuffers, ResetCount, MapBuffers, BeginEncoding,
       StartCapture, At, Loop
  <2>7. ~(StopCapture(t) \/ EndEncoding(t) \/ Uninit(t) \/ Close(t))
    BY DEF StopCapture, EndEncoding, Uninit, Close, CleanupStep, At, Loop
  <2>. QED  BY <2>1, <2>2, <2>3, <2>4, <2>5, <2>6, <2>7 DEF Step
<1>6. Alive(t)' /\ Phase(t)' = Phase(t)
  BY <1>1, <1>5 DEF Alive, Phase, Loop, SetUp, Cleanup
<1>7. phaseBar' = phaseBar
  BY <1>6, StepPhase DEF Shaped
<1>8. deviceBar' = "streaming" /\ deviceBar = "streaming"
  BY <1>2, <1>5 DEF deviceBar
<1>. QED  BY <1>7, <1>8 DEF SessionStep, Sessions!vars

LEMMA CleanupPhase ==
  ASSUME TypeOK, Shaped, ToldToStop, Undisturbed', Orderly, breach \subseteq breach',
         NEW t \in Thread, Step(t), pc[t] \in Cleanup
  PROVE  SessionStep
<1>1. Shape(t) /\ t \in cancelled /\ t \in cancelled' /\ phaseBar = "stopping"
      /\ "early" \notin breach
  BY StepMoves, StepPhase DEF Shaped, Alive, ToldToStop, Phase, Undisturbed
<1>2. pc'[t] \in Cleanup => phaseBar' = "stopping"
  BY <1>1, StepPhase DEF Shaped, Alive, Phase
<1>3. CASE StopCapture(t)
  <2>1. pc[t] = "capture_stop" /\ pc'[t] \in Cleanup /\ capture_stop
    BY <1>3 DEF StopCapture, CleanupStep, At, Goto, TypeOK, Cleanup
  <2>2. Capturing(t)
    BY <1>1, <2>1 DEF Shape, TooEarly
  <2>3. Owns /\ camera.owner = t
    BY <2>2, CapturingHolds DEF Ready, Buffers, Requested, Owns, FdOpen
  <2>4. camera'.owner = t /\ ~camera'.streaming
    BY <2>1, <2>3 DEF capture_stop, TypeOK, DeviceTypeOK
  <2>5. deviceBar' = "reserved" /\ deviceBar \in {"streaming", "reserved"}
    BY <2>3, <2>4 DEF deviceBar
  <2>. QED  BY <1>1, <1>2, <2>1, <2>5 DEF SessionStep, Sessions!Next, Sessions!StreamOff, Sessions!vars
<1>4. CASE EndEncoding(t)
  <2>1. pc'[t] \in Cleanup /\ camera' = camera
    BY <1>4 DEF EndEncoding, CleanupStep, Goto, TypeOK, Cleanup, deviceVars
  <2>. QED  BY <1>1, <1>2, <2>1 DEF SessionStep, Sessions!vars, deviceBar
<1>5. CASE Uninit(t)
  <2>1. pc[t] = "device_uninit" /\ pc'[t] \in Cleanup /\ device_uninit
    BY <1>5 DEF Uninit, CleanupStep, At, Goto, TypeOK, Cleanup
  <2>2. <<"fd", t>> \in held /\ camera.owner = t
    BY <1>1, <2>1 DEF Shape, Holds, Live, Assets, Kind, Ready, Buffers, Requested
  <2>3. camera' = camera
    BY <2>1, <2>2 DEF device_uninit, Settle
  <2>. QED  BY <1>1, <1>2, <2>1, <2>3 DEF SessionStep, Sessions!vars, deviceBar
<1>6. CASE Close(t)
  <2>1. pc[t] = "device_close" /\ pc'[t] = "cancelled" /\ device_close
    BY <1>6 DEF Close, CleanupStep, At, Goto, TypeOK
  <2>2. NoMaps /\ Idle /\ gdev.fd = t /\ camera.owner = t
    BY <1>1, <2>1 DEF Shape
  <2>3. Settle(held \ {<<"fd", t>>}, maps)
    BY <2>1, <2>2 DEF device_close
  <2>4. camera' = NoOwner
    BY <2>2, <2>3 DEF Settle, NoMaps
  <2>5. deviceBar = "reserved" /\ deviceBar' = "free"
    BY <2>2, <2>4 DEF deviceBar, Idle, NoOwner
  <2>6. phaseBar' = "off"
    BY <2>1, StepPhase DEF Shaped, Alive, SetUp, Loop, Cleanup
  <2>. QED  BY <1>1, <2>5, <2>6 DEF SessionStep, Sessions!Next, Sessions!Release
<1>7. ~(\/ Cancel(t) \/ Open(t) \/ OpenError(t) \/ Configure(t) \/ RequestBuffers(t)
        \/ ResetCount(t) \/ MapBuffers(t) \/ BeginEncoding(t) \/ StartCapture(t))
  BY DEF Cancel, MustCancel, MayCancel, Open, OpenError, Configure, RequestBuffers, ResetCount,
     MapBuffers, BeginEncoding, StartCapture, At, Cleanup
<1>8. ~(\/ Select(t) \/ Dequeue(t) \/ Copy(t) \/ Encode(t) \/ CopyNals(t) \/ SendHeader(t)
        \/ SendPayload(t) \/ Pace(t) \/ Requeue(t))
  BY DEF Select, Dequeue, Copy, Encode, CopyNals, SendHeader, SendPayload, Pace, Requeue, At,
     Cleanup
<1>. QED  BY <1>3, <1>4, <1>5, <1>6, <1>7, <1>8 DEF Step

LEMMA MainStep ==
  ASSUME TypeOK, Shaped, ToldToStop, Main, Undisturbed', Orderly, breach \subseteq breach'
  PROVE  SessionStep
<1>1. camera' = camera /\ deviceBar' = deviceBar
  BY DEF Main, do_preview_start, do_preview_stop, do_takephoto, process_photo, deviceVars,
         deviceBar
<1>2. ASSUME UNCHANGED <<pc, cancelled>>  PROVE SessionStep
  <2>1. phaseBar' = phaseBar
    BY <1>2 DEF phaseBar, NobodyRuns, Alive
  <2>. QED  BY <1>1, <2>1 DEF SessionStep, Sessions!vars
<1>3. CASE do_takephoto \/ process_photo
  BY <1>2, <1>3 DEF do_takephoto, process_photo, threadVars
<1>4. ASSUME NEW t \in Thread, pc[t] = "new", pc' = [pc EXCEPT ![t] = "device_open"],
             breach' = breach \cup If(\E u \in Thread : Alive(u), "overlap"), cancelled' = cancelled
      PROVE  SessionStep
  <2>1. NobodyRuns
    BY <1>4 DEF Undisturbed, Orderly, If, NobodyRuns
  <2>2. t \notin cancelled'
    BY <1>4 DEF Shaped, CancelledThreads
  <2>3. phaseBar = "off"
    BY <2>1, PhaseOff
  <2>4. deviceBar = "free"
    BY <2>1 DEF Shaped, Closed, NoOwner, deviceBar
  <2>5. pc'[t] = "device_open" /\ \A u \in Thread \ {t} : pc'[u] = pc[u]
    BY <1>4 DEF TypeOK
  <2>6. phaseBar' = "starting"
    <3>1. ~NobodyRuns'
      BY <2>5 DEF NobodyRuns, Alive, SetUp
    <3>2. ~ \E u \in Thread : Alive(u)' /\ u \in cancelled'
      BY <2>1, <2>2, <2>5 DEF NobodyRuns, Alive
    <3>3. \E u \in Thread : pc'[u] \in SetUp /\ u \notin cancelled'
      BY <2>2, <2>5 DEF SetUp
    <3>. QED  BY <3>1, <3>2, <3>3 DEF phaseBar
  <2>. QED  BY <1>1, <2>3, <2>4, <2>6 DEF SessionStep, Sessions!Next, Sessions!Start
<1>5. CASE do_preview_start
  BY <1>2, <1>4, <1>5 DEF do_preview_start
<1>6. CASE do_preview_stop
  <2>1. pc' = pc /\ cancelled' = cancelled \cup {t \in Thread : t = pid /\ Alive(t)}
    BY <1>6 DEF do_preview_stop, threadVars
  <2>2. CASE pid \in Thread /\ Alive(pid) /\ pid \notin cancelled
    <3>1. pc[pid] \in Loop
      <4>1. pc[pid] \notin SetUp
        BY <1>6, <2>2 DEF do_preview_stop, Undisturbed, If
      <4>2. pc[pid] \notin Cleanup
        BY <2>2 DEF ToldToStop
      <4>. QED  BY <2>2, <4>1, <4>2 DEF Alive
    <3>2. phaseBar = "on"
      BY <2>2, <3>1, PhaseAlive DEF Shaped, Phase, SetUp, Loop
    <3>3. phaseBar' = "stopping"
      <4>1. \A u \in Thread : Alive(u)' <=> Alive(u)
        BY <2>1 DEF Alive
      <4>2. \E u \in Thread : Alive(u)' /\ u \in cancelled'
        BY <2>1, <2>2, <4>1
      <4>3. ~NobodyRuns' /\ \E u \in Thread : Alive(u)' /\ u \in cancelled'
        BY <4>2 DEF NobodyRuns
      <4>4. ~ \E u \in Thread : pc'[u] \in SetUp /\ u \notin cancelled'
        BY <2>1, <2>2, <3>1 DEF Shaped, OneAlive, Alive, SetUp, Loop
      <4>. QED  BY <4>3, <4>4 DEF phaseBar
    <3>. QED  BY <1>1, <3>2, <3>3 DEF SessionStep, Sessions!Next, Sessions!Stop
  <2>3. CASE ~(pid \in Thread /\ Alive(pid) /\ pid \notin cancelled)
    <3>1. cancelled' = cancelled
      BY <2>1, <2>3
    <3>. QED  BY <1>2, <2>1, <3>1
  <2>. QED  BY <2>2, <2>3
<1>. QED  BY <1>3, <1>5, <1>6 DEF Main

(* As long as no preview overlaps another, none is stopped before it       *)
(* captures and no call on the device fails, START and STOP take module    *)
(* Session through its steps one after the other: no stream before START   *)
(* or after STOP, and no START finds the camera taken.                     *)
THEOREM SessionsInOrder == Spec => Sessions!Init /\ SessionSteps
<1>1. Init => Sessions!Init
  <2>. SUFFICES ASSUME Init  PROVE Sessions!Init
    OBVIOUS
  <2>1. NobodyRuns
    BY DEF Init, NobodyRuns, Alive, SetUp, Loop, Cleanup
  <2>2. phaseBar = "off" /\ deviceBar = "free"
    BY <2>1, PhaseOff DEF Init, DeviceInit, NoOwner, deviceBar
  <2>. QED  BY <2>2 DEF Sessions!Init
<1>2. Init => ToldToStop
  BY DEF Init, ToldToStop, Cleanup
<1>3. TypeOK /\ ToldToStop /\ [Next]_vars => ToldToStop'
  BY ToldStays DEF ToldToStop, vars, threadVars
<1>4. IInv /\ ToldToStop /\ [Next]_vars => [Undisturbed' => SessionStep]_vars
  <2>. SUFFICES ASSUME IInv, ToldToStop, Next, Undisturbed'  PROVE SessionStep
    OBVIOUS
  <2>1. TypeOK /\ running /\ breach \subseteq breach' /\ Orderly
    BY History DEF IInv, Undisturbed
  <2>2. Shaped
    BY <2>1 DEF IInv
  <2>3. ASSUME NEW t \in Thread, Step(t)  PROVE SessionStep
    <3>1. pc[t] \in SetUp \cup Loop \cup Cleanup
      BY <2>1, <2>3, StepMoves DEF Alive
    <3>. QED  BY <2>1, <2>2, <2>3, <3>1, SetUpStep, LoopStep, CleanupPhase
  <2>. QED  BY <2>1, <2>2, <2>3, MainStep DEF Next
<1>5. IInv => TypeOK
  BY DEF IInv
<1>. QED  BY <1>1, <1>2, <1>3, <1>4, <1>5, Invariance, PTL DEF Spec, SessionSteps, SessionStep

=============================================================================
