----------------------------- MODULE SlaveProofs -----------------------------
(***************************************************************************)
(* Proofs about Slave, for any number of threads, all commands and         *)
(* misreadings, patient masters or not, and whatever the network may do.   *)
(***************************************************************************)
EXTENDS Slave, SequenceTheorems, TLAPS

USE SlaveAssumption

-----------------------------------------------------------------------------
(***************************************************************************)
(* The two modules.                                                        *)
(***************************************************************************)

(* What the parts assume of their constants holds of those they get here. *)
LEMMA PreviewAssumptions ==
  P!ThreadAssumption /\ P!DeviceAssumption /\ P!PreviewAssumption
BY DEF P!ThreadAssumption, P!DeviceAssumption, P!PreviewAssumption, P!Breach, P!Misuse, P!Failure

LEMMA LoopAssumptions == L!MsgAssumption
BY DEF L!MsgAssumption

(* The main thread's part of a step is one of the preview's commands, or   *)
(* nothing to it.                                                          *)
LEMMA CommandSteps ==
  ASSUME Command
  PROVE  P!do_preview_start \/ P!do_preview_stop \/ P!do_takephoto \/ UNCHANGED previewVars
BY DEF Command

(* A step of the slave is a step of the preview or nothing to it, and a    *)
(* step of the message loop or nothing to it.                              *)
LEMMA StepParts ==
  ASSUME Next
  PROVE  [P!Next]_(P!vars) /\ [L!Next]_(L!vars)
<1>1. misuse' \subseteq P!Misuse /\ trouble' \subseteq Tolerated
  BY DEF Next, Within
<1>2. misuse' \subseteq {"overlap", "early", "nothread", "photo"}
  BY <1>1 DEF P!Misuse
<1>3. UNCHANGED previewVars => UNCHANGED P!vars
  BY DEF previewVars, P!vars, P!processVars, P!deviceVars, P!threadVars, P!mainVars
<1>4. UNCHANGED loopVars => UNCHANGED L!vars
  BY DEF loopVars, L!vars, L!masterVars
<1>5. CASE Main
  <2>1. [P!Next]_(P!vars)
    BY <1>2, <1>3, <1>5, CommandSteps DEF Main, P!Main, P!Next
  <2>2. L!Next
    BY <1>1, <1>5 DEF Main, L!Next
  <2>. QED  BY <2>1, <2>2
<1>6. CASE Photo
  <2>1. P!Next
    BY <1>2, <1>6 DEF Photo, P!Main, P!Next
  <2>. QED  BY <1>4, <1>6, <2>1 DEF Photo
<1>7. CASE Environment
  <2>1. L!Environment
    BY <1>7 DEF Environment, MasterCommand, MasterPayload, L!Environment
  <2>2. L!Next
    BY <1>1, <2>1 DEF L!Next
  <2>. QED  BY <1>3, <1>7, <2>2 DEF Environment
<1>8. ASSUME NEW t \in Thread, Step(t)
      PROVE  [P!Next]_(P!vars) /\ [L!Next]_(L!vars)
  <2>1. P!Step(t)
    BY <1>2, <1>8 DEF Step, SendHeader, SendPayload, P!Step
  <2>2. L!SendFrame \/ UNCHANGED loopVars
    BY <1>8 DEF Step, SendHeader, SendPayload, NotSent, IsSent
  <2>3. P!Next
    BY <2>1 DEF P!Next
  <2>4. L!SendFrame => L!Next
    BY <1>1 DEF L!Next, L!Environment
  <2>. QED  BY <1>4, <2>2, <2>3, <2>4
<1>. QED  BY <1>5, <1>6, <1>7, <1>8 DEF Next, Within

(* What the master and the network may do besides leaves both alone. *)
LEMMA Stutters ==
  ASSUME UNCHANGED vars
  PROVE  UNCHANGED P!vars /\ UNCHANGED L!vars
BY DEF vars, previewVars, loopVars, wireVars, P!vars, P!processVars, P!deviceVars, P!threadVars,
       P!mainVars, L!vars, L!masterVars

(* Composed, the two modules do nothing that they do not do alone: every   *)
(* behaviour of the slave is one of the preview, in which no call fails,   *)
(* and one of the message loop, so that what PreviewProofs and             *)
(* MsgLoopProofs prove of them holds in the slave.                         *)
THEOREM Components == Spec => P!Spec /\ L!Spec
<1>1. Init => P!Init /\ L!Init
  BY DEF Init
<1>2. [Next]_vars => [P!Next]_(P!vars) /\ [L!Next]_(L!vars)
  BY StepParts, Stutters
<1>. QED  BY <1>1, <1>2, PTL DEF Spec, P!Spec, L!Spec

(* So the inductive invariants of both parts hold in every state. *)
LEMMA PartsIInv == Spec => [](P!IInv /\ L!IInv)
<1>1. P!Spec => []P!IInv
  BY PreviewAssumptions, P!Invariance, PTL
<1>2. L!Spec => []L!IInv
  BY LoopAssumptions, L!Invariance, PTL
<1>. QED  BY <1>1, <1>2, Components, PTL

(* What holds of the message loop alone, in all its steps, for the slave.  *)
LEMMA Grows ==
  ASSUME L!IInv, [Next]_vars
  PROVE  trouble \subseteq trouble' /\ \A s \in L!Sock : served'[s] >= served[s]
<1>1. [L!Next]_(L!vars)
  BY StepParts, Stutters
<1>. QED  BY <1>1, LoopAssumptions, L!Grows

LEMMA CleanStays ==
  ASSUME L!IInv, [Next]_vars, L!Clean'
  PROVE  L!Clean
<1>1. [L!Next]_(L!vars)
  BY StepParts, Stutters
<1>. QED  BY <1>1, LoopAssumptions, L!CleanStays

LEMMA Traffic == Spec => [](L!PlainTraffic /\ L!Framed /\ L!Setting)
<1>1. L!Spec => [](L!PlainTraffic /\ L!Framed /\ L!Setting)
  BY LoopAssumptions, L!Traffic, PTL
<1>. QED  BY <1>1, Components, PTL

-----------------------------------------------------------------------------
(***************************************************************************)
(* The preview, as long as it is not misused.                              *)
(***************************************************************************)

(* The preview of t has been started and not been told to stop. *)
Running(t) == where[t] \in P!SetUp \cup P!Loop /\ t \notin cancelled

Runs == \E t \in Thread : Running(t)

Films == \E t \in Thread : where[t] \in P!Loop /\ t \notin cancelled

Starting == \E t \in Thread : where[t] \in P!SetUp

(* pid names the preview that runs, and only a thread that was cancelled   *)
(* is in cleanup().                                                        *)
Named ==
  misuse = {} =>
    /\ \A t \in Thread : Running(t) => t = pid
    /\ \A t \in Thread : where[t] \in P!Cleanup => t \in cancelled

(* The labels of the parts of a thread's life are apart. *)
LEMMA Labels ==
  /\ P!SetUp \cap P!Loop = {} /\ P!SetUp \cap P!Cleanup = {} /\ P!Loop \cap P!Cleanup = {}
  /\ P!Finished \cap (P!SetUp \cup P!Loop \cup P!Cleanup) = {}
  /\ "new" \notin P!SetUp \cup P!Loop \cup P!Cleanup
BY DEF P!SetUp, P!Loop, P!Cleanup, P!Finished

(* Without a misuse there is no fault, and the preview is in one of the    *)
(* shapes that its inductive invariant describes.                          *)
LEMMA Unmisused ==
  ASSUME P!IInv, misuse = {}
  PROVE  faults = {} /\ P!TypeOK /\ P!Shaped
<1>1. P!Orderly
  BY DEF P!Orderly
<1>2. faults \subseteq P!FaultKind
  BY DEF P!IInv, P!TypeOK, P!ProcessTypeOK
<1>3. \A f \in faults : \E cause \in P!Causes(f) : cause \subseteq {}
  BY <1>1 DEF P!IInv, P!FaultCause
<1>4. \A f \in P!FaultKind : {} \notin P!Causes(f)
  <2>. SUFFICES ASSUME NEW f \in P!FaultKind  PROVE {} \notin P!Causes(f)
    OBVIOUS
  <2>1. CASE f \in {"assert", "null_deref", "unmapped"}
    BY <2>1 DEF P!Causes
  <2>2. CASE f \in {"overflow", "use_after_free", "double_free"}
    BY <2>2 DEF P!Causes
  <2>3. CASE f \in {"bad_fd", "bad_thread", "clean_unallocated"}
    BY <2>3 DEF P!Causes
  <2>. QED  BY <2>1, <2>2, <2>3 DEF P!FaultKind
<1>5. faults = {}
  <2>1. ASSUME NEW f \in faults, NEW cause \in P!Causes(f), cause \subseteq {}  PROVE FALSE
    <3>1. cause = {}
      BY <2>1
    <3>. QED  BY <1>2, <1>4, <3>1
  <2>. QED  BY <1>3, <2>1
<1>. QED  BY <1>1, <1>5 DEF P!IInv, P!running

(* What a step of thread t does to where the threads are. *)
LEMMA ThreadMoves ==
  ASSUME P!IInv, misuse = {}, NEW t \in Thread, P!Step(t), misuse' \subseteq P!Misuse
  PROVE  /\ misuse' = {} /\ UNCHANGED <<cancelled, pid, shot>>
         /\ where' \in [Thread -> P!Label]
         /\ \A u \in Thread : u # t => where'[u] = where[u]
         /\ where[t] \in P!SetUp \cup P!Loop \cup P!Cleanup /\ where'[t] # "new"
         /\ where[t] \in P!SetUp => where'[t] \in P!SetUp \cup P!Loop \cup P!Cleanup
         /\ where[t] \in P!Loop => where'[t] \in P!Loop \cup P!Cleanup
         /\ where[t] \in P!Cleanup => where'[t] \in P!Cleanup \cup P!Finished
         /\ where'[t] \in P!Cleanup => where[t] \in P!Cleanup \/ t \in cancelled
         /\ where[t] \in P!SetUp \cup P!Loop /\ where'[t] \in P!Cleanup => t \in cancelled
<1>1. P!TypeOK /\ P!Shaped /\ where \in [Thread -> P!Label]
  BY Unmisused DEF P!TypeOK
<1>2. P!Alive(t) => P!Shape(t)
  BY <1>1 DEF P!Shaped
<1>. DEFINE Moves(from, to) ==
       /\ misuse' = {} /\ UNCHANGED <<cancelled, pid, shot>>
       /\ where[t] \in from /\ \E label \in to : where' = [where EXCEPT ![t] = label]
<1>3. CASE P!Cancel(t)
  <2>1. where[t] \in P!SetUp \cup P!Loop
    BY <1>3 DEF P!Cancel, P!MustCancel, P!MayCancel, P!SetUp, P!Loop
  <2>2. where' = [where EXCEPT ![t] = "capture_stop"] /\ t \in cancelled
        /\ misuse' = {} /\ UNCHANGED <<cancelled, pid, shot>>
    BY <1>3 DEF P!Cancel, P!Goto, P!mainVars
  <2>3. "capture_stop" \in P!Cleanup /\ "capture_stop" # "new" /\ "capture_stop" \in P!Label
        /\ "capture_stop" \notin P!Finished
    BY DEF P!Cleanup, P!Label, P!Finished
  <2>. QED  BY <1>1, <2>1, <2>2, <2>3
<1>4. CASE P!Open(t) \/ P!OpenError(t) \/ P!Configure(t) \/ P!RequestBuffers(t)
         \/ P!ResetCount(t)
  <2>1. Moves(P!SetUp, P!SetUp)
    BY <1>4, Zenon
    DEF P!Open, P!OpenError, P!Configure, P!RequestBuffers, P!ResetCount, P!At, P!Goto, P!Branch, P!Failed,
        P!SetUp, P!mainVars, P!Sane, P!Misuse, P!If
  <2>. QED  BY <1>1, <2>1, Labels DEF P!Label
<1>5. CASE P!MapBuffers(t)
  <2>1. \/ Moves(P!SetUp, P!SetUp)
        \/ misuse' = {} /\ UNCHANGED <<where, cancelled, pid, shot>> /\ where[t] \in P!SetUp
    BY <1>5, Zenon
    DEF P!MapBuffers, P!At, P!Goto, P!Failed, P!SetUp, P!mainVars, P!Misuse, P!If
  <2>. QED  BY <1>1, <2>1, Labels DEF P!Label
<1>6. CASE P!BeginEncoding(t) \/ P!StartCapture(t)
  <2>1. \/ Moves(P!SetUp, P!SetUp \cup P!Loop)
        \/ misuse' = {} /\ UNCHANGED <<where, cancelled, pid, shot>> /\ where[t] \in P!SetUp
    <3>1. CASE P!BeginEncoding(t)
      BY <3>1, Zenon
      DEF P!BeginEncoding, P!At, P!Goto, P!Failed, P!SetUp, P!mainVars, P!Misuse, P!If
    <3>2. CASE P!StartCapture(t)
      <4>1. where[t] \in P!SetUp /\ UNCHANGED <<cancelled, pid, shot>>
        BY <3>2 DEF P!StartCapture, P!At, P!SetUp, P!mainVars
      <4>2. UNCHANGED where \/ where' = [where EXCEPT ![t] = "select"]
        BY <3>2 DEF P!StartCapture, P!Goto
      <4>3. misuse' = {}
        BY <3>2 DEF P!StartCapture, P!Failed, P!If, P!Misuse
      <4>4. "select" \in P!SetUp \cup P!Loop
        BY DEF P!Loop
      <4>. QED  BY <4>1, <4>2, <4>3, <4>4
    <3>. QED  BY <1>6, <3>1, <3>2
  <2>. QED  BY <1>1, <2>1, Labels DEF P!Label
<1>7. CASE P!Select(t) \/ P!Dequeue(t) \/ P!Requeue(t)
  <2>1. where[t] \in {"select", "dequeue", "requeue"} /\ P!Alive(t) /\ where[t] \in P!Loop
    BY <1>7 DEF P!Select, P!Dequeue, P!Requeue, P!At, P!Alive, P!Loop
  <2>2. P!Capturing(t) /\ camera.streaming
    BY <1>2, <2>1 DEF P!Shape
  <2>3. P!Owns
    BY <2>2 DEF P!Capturing, P!Encoding, P!EncoderFailed, P!Ready, P!Buffers, P!Requested, P!Owns, P!FdOpen,
                P!Holds, P!Live, P!Assets, P!Kind
  <2>4. camera.count \in Nat /\ camera.count >= 2
    BY <1>1, <2>2 DEF P!TypeOK, P!DeviceTypeOK, P!Capturing, P!Ready, P!Buffers, P!Requested
  <2>5. where[t] \in {"select", "dequeue"} => P!CanDequeue
    <3>1. 0 \in P!Indices(camera.count)
      BY <2>4 DEF P!Indices
    <3>. QED  BY <1>2, <2>1, <2>2, <2>3, <3>1 DEF P!Shape, P!CanDequeue
  <2>6. where[t] = "requeue" => P!CanEnqueue(buf[t].index)
    BY <1>2, <2>1, <2>3 DEF P!Shape, P!CanEnqueue, P!Loop
  <2>7. Moves(P!Loop, P!Loop)
    <3>1. "capture" \notin misuse'
      BY DEF P!Misuse
    <3>2. CASE P!Select(t)
      BY <2>1, <2>5, <3>1, <3>2, Zenon
      DEF P!Select, P!At, P!Branch, P!Goto, P!Failed, P!If, P!Loop, P!mainVars
    <3>3. CASE P!Dequeue(t)
      BY <2>1, <2>5, <3>1, <3>3, Zenon
      DEF P!Dequeue, P!At, P!Goto, P!Failed, P!If, P!Loop, P!mainVars
    <3>4. CASE P!Requeue(t)
      BY <2>1, <2>6, <3>1, <3>4, Zenon
      DEF P!Requeue, P!At, P!Goto, P!Failed, P!If, P!Loop, P!mainVars
    <3>. QED  BY <1>7, <3>2, <3>3, <3>4
  <2>. QED  BY <1>1, <2>7, Labels DEF P!Label
<1>8. CASE P!Copy(t) \/ P!Encode(t) \/ P!CopyNals(t) \/ P!SendHeader(t) \/ P!SendPayload(t) \/ P!Pace(t)
  <2>1. Moves(P!Loop, P!Loop)
    BY <1>8, Zenon
    DEF P!Copy, P!Encode, P!CopyNals, P!SendHeader, P!SendPayload, P!Pace, P!At, P!Goto, P!Loop,
        P!mainVars
  <2>. QED  BY <1>1, <2>1, Labels DEF P!Label
<1>9. CASE P!StopCapture(t) \/ P!EndEncoding(t) \/ P!Uninit(t) \/ P!Close(t)
  <2>1. Moves(P!Cleanup, P!Cleanup \cup P!Finished)
    BY <1>9, Zenon
    DEF P!StopCapture, P!EndEncoding, P!Uninit, P!Close, P!CleanupStep, P!At, P!Goto, P!Cleanup,
        P!Finished, P!mainVars
  <2>2. "new" \notin P!Cleanup \cup P!Finished
    BY DEF P!Cleanup, P!Finished
  <2>. QED  BY <1>1, <2>1, <2>2, Labels DEF P!Label
<1>. QED  BY <1>3, <1>4, <1>5, <1>6, <1>7, <1>8, <1>9 DEF P!Step

(* START without a misuse: the new preview is the only one alive. *)
LEMMA Starts ==
  ASSUME P!IInv, misuse = {}, P!do_preview_start, misuse' \subseteq P!Misuse
  PROVE  /\ misuse' \subseteq {"overlap"} /\ UNCHANGED <<cancelled, shot>>
         /\ P!NobodyRuns => misuse' = {}
         /\ misuse' = {} => P!NobodyRuns
         /\ pid' \in Thread /\ where[pid'] = "new"
         /\ where' = [where EXCEPT ![pid'] = "device_open"]
<1>1. "thread" \notin misuse'
  BY DEF P!Misuse
<1>2. PICK t \in Thread :
        /\ where[t] = "new" /\ where' = [where EXCEPT ![t] = "device_open"] /\ pid' = t
        /\ misuse' = misuse \cup P!If(\E u \in Thread : P!Alive(u), "overlap")
  BY <1>1 DEF P!do_preview_start, P!Goto
<1>3. UNCHANGED <<cancelled, shot>>
  BY DEF P!do_preview_start
<1>. QED  BY <1>2, <1>3 DEF P!If, P!NobodyRuns

(* STOP cancels the thread that pid names. *)
LEMMA Stops ==
  ASSUME misuse = {}, P!do_preview_stop
  PROVE  /\ misuse' \subseteq {"nothread", "early"} /\ UNCHANGED <<where, pid, shot>>
         /\ pid # NoThread => "nothread" \notin misuse'
         /\ ~Starting => "early" \notin misuse'
         /\ cancelled' = cancelled \cup {t \in Thread : t = pid /\ P!Alive(t)}
         /\ misuse' = {} => \A t \in Thread : t = pid => where[t] \notin P!SetUp
BY DEF P!do_preview_stop, P!If, P!mainVars, Starting

(* TAKE_PHOTO is in time while a preview films, and touches none of the    *)
(* threads.                                                                *)
LEMMA TakesPhoto ==
  ASSUME misuse = {}, P!do_takephoto
  PROVE  /\ misuse' \subseteq {"photo"} /\ UNCHANGED <<where, cancelled, pid>>
         /\ Films => misuse' = {}
BY DEF P!do_takephoto, P!If, P!threadVars, Films

LEMMA EndsPhoto ==
  ASSUME P!process_photo
  PROVE  UNCHANGED <<where, cancelled, pid, misuse>>
BY DEF P!process_photo, P!threadVars

-----------------------------------------------------------------------------
(***************************************************************************)
(* Type correctness, and the faults of the preview.                        *)
(***************************************************************************)

OwnTypeOK ==
  patient \in BOOLEAN /\ asked \in {"on", "off"} /\ wire \in Thread \cup {NULL} /\ torn \in BOOLEAN

(* What only the composition has keeps its type. *)
LEMMA OwnType == OwnTypeOK /\ [Next]_vars => OwnTypeOK'
<1>. SUFFICES ASSUME OwnTypeOK, [Next]_vars  PROVE OwnTypeOK'
  OBVIOUS
<1>1. CASE Main \/ Photo
  BY <1>1 DEF OwnTypeOK, Next, Within, Main, Photo, wireVars, vars
<1>2. CASE Environment
  <2>1. asked' \in {"on", "off"}
    BY <1>2 DEF OwnTypeOK, Environment, MasterCommand, MasterPayload
  <2>. QED  BY <1>2, <2>1 DEF OwnTypeOK, Next, Within, Environment, wireVars, vars
<1>3. ASSUME NEW t \in Thread, Step(t)  PROVE OwnTypeOK'
  BY <1>3 DEF OwnTypeOK, Next, Within, Step, SendHeader, SendPayload, wireVars, vars
<1>4. CASE UNCHANGED vars
  BY <1>4 DEF OwnTypeOK, vars, wireVars
<1>. QED  BY <1>1, <1>2, <1>3, <1>4 DEF Next, Within

(* Every variable keeps its type. *)
THEOREM TypeCorrect == Spec => []TypeOK
<1>1. Init => OwnTypeOK
  BY DEF Init, OwnTypeOK
<1>2. P!IInv /\ L!IInv /\ OwnTypeOK => TypeOK
  BY DEF P!IInv, L!IInv, OwnTypeOK, TypeOK
<1>. QED  BY <1>1, <1>2, OwnType, PartsIInv, PTL DEF Spec

(* Whatever the network does, while the preview is not misused, the        *)
(* assertions of its code hold and its memory is used correctly.           *)
NoFaults == misuse = {} => faults = {}

THEOREM Faultless == Spec => []NoFaults
<1>1. P!IInv => NoFaults
  BY Unmisused DEF NoFaults
<1>. QED  BY <1>1, PartsIInv, PTL

-----------------------------------------------------------------------------
(***************************************************************************)
(* The preview that runs is the one that pid names.                        *)
(***************************************************************************)

(* Named is inductive: each disjunct of the preview's next-state relation  *)
(* keeps it.                                                               *)
LEMMA NamedStep ==
  ASSUME P!IInv, Named, [Next]_vars
  PROVE  Named'
<1>. SUFFICES ASSUME misuse' = {}  PROVE Named'
  BY DEF Named
<1>0. CASE UNCHANGED vars
  BY <1>0 DEF Named, Running, vars, previewVars
<1>. SUFFICES ASSUME Next  PROVE Named'
  BY <1>0
<1>1. misuse = {} /\ misuse' \subseteq P!Misuse
  BY DEF Next, Within
<1>2. P!TypeOK /\ where \in [Thread -> P!Label]
  BY <1>1, Unmisused DEF P!TypeOK
<1>3. CASE UNCHANGED <<where, cancelled, pid>>
  BY <1>1, <1>3 DEF Named, Running
<1>4. CASE P!do_preview_start
  <2>1. /\ UNCHANGED cancelled /\ P!NobodyRuns
        /\ pid' \in Thread /\ where[pid'] = "new" /\ where' = [where EXCEPT ![pid'] = "device_open"]
    BY <1>1, <1>4, Starts
  <2>2. "device_open" \notin P!Cleanup
    BY DEF P!Cleanup
  <2>. QED  BY <1>1, <1>2, <2>1, <2>2 DEF Named, Running, P!NobodyRuns, P!Alive
<1>5. CASE P!do_preview_stop
  BY <1>1, <1>5, Stops DEF Named, Running
<1>6. CASE P!do_takephoto \/ P!process_photo
  BY <1>1, <1>3, <1>6, TakesPhoto, EndsPhoto
<1>7. ASSUME NEW t \in Thread, P!Step(t)  PROVE Named'
  <2>1. /\ UNCHANGED <<cancelled, pid>>
        /\ \A u \in Thread : u # t => where'[u] = where[u]
        /\ where'[t] \in P!SetUp \cup P!Loop => where[t] \in P!SetUp \cup P!Loop
        /\ where'[t] \in P!Cleanup => where[t] \in P!Cleanup \/ t \in cancelled
    BY <1>1, <1>7, ThreadMoves, Labels
  <2>. QED  BY <1>1, <2>1 DEF Named, Running
<1>8. \/ UNCHANGED <<where, cancelled, pid>>
      \/ P!do_preview_start \/ P!do_preview_stop \/ P!do_takephoto \/ P!process_photo
      \/ \E t \in Thread : P!Step(t)
  <2>1. CASE Main
    BY <2>1, CommandSteps DEF Main, previewVars
  <2>2. CASE Photo
    BY <2>2 DEF Photo
  <2>3. CASE Environment
    BY <2>3 DEF Environment, previewVars
  <2>4. ASSUME NEW t \in Thread, Step(t)  PROVE P!Step(t)
    BY <1>1, <2>4 DEF Step, SendHeader, SendPayload, P!Step, P!Misuse
  <2>. QED  BY <2>1, <2>2, <2>3, <2>4 DEF Next, Within
<1>. QED  BY <1>3, <1>4, <1>5, <1>6, <1>7, <1>8

LEMMA NamedInvariance == Spec => []Named
<1>1. Init => Named
  BY Labels DEF Init, P!Init, Named, Running
<1>. QED  BY <1>1, NamedStep, PartsIInv, PTL DEF Spec

-----------------------------------------------------------------------------
(***************************************************************************)
(* The frames.                                                             *)
(***************************************************************************)

(* What excuses a frame torn from its header: the main thread answers on   *)
(* socket 0 only to what it served there, or had no memory for.            *)
Excuse == served[0] > 0 \/ "memory" \in trouble

(* Excuses only grow. *)
LEMMA ExcuseStays ==
  ASSUME L!IInv, [Next]_vars, Excuse
  PROVE  Excuse'
<1>1. 0 \in L!Sock /\ served \in [L!Sock -> Nat] /\ served' \in [L!Sock -> Nat]
  <2>1. L!IInv'
    BY LoopAssumptions, L!NextIInv, StepParts, Stutters
  <2>. QED  BY <2>1 DEF L!IInv, L!TypeOK, L!Sock
<1>2. served'[0] >= served[0] /\ trouble \subseteq trouble'
  BY <1>1, Grows
<1>. QED  BY <1>1, <1>2 DEF Excuse

(* An answer on socket 0 is to something served there. *)
Answering ==
  /\ at = "setting" => served[L!Visited] > 0
  /\ at \in {"header", "payload"} /\ fd = 0 => Excuse

(* Answering is inductive, given where the message loop is in its round. *)
LEMMA AnsweringStep ==
  ASSUME L!IInv, Answering, [Next]_vars
  PROVE  Answering'
<1>0. /\ L!TypeOK /\ 0 \in L!Sock /\ served \in [L!Sock -> Nat]
      /\ served' \in [L!Sock -> Nat] /\ L!IInv'
  <2>1. L!IInv'
    BY LoopAssumptions, L!NextIInv, StepParts, Stutters
  <2>. QED  BY <2>1 DEF L!IInv, L!TypeOK, L!Sock
<1>1. Excuse => Excuse'
  BY ExcuseStays
<1>2. CASE L!Recv
  <2>1. PICK m \in L!Message : L!Receiving(L!Visited, m)
    BY <1>2, LoopAssumptions, L!Recvs
  <2>2. ready \in SUBSET L!Sock /\ ready # {} /\ L!Visited \in ready
    BY <1>2, LoopAssumptions, L!Recvs
  <2>3. CASE at' = "setting" /\ UNCHANGED ready /\ served' = [served EXCEPT ![L!Visited] = @ + 1]
    <3>1. L!Visited' = L!Visited
      BY <2>3 DEF L!Visited
    <3>2. served'[L!Visited] > 0
      BY <1>0, <2>2, <2>3
    <3>. QED  BY <2>3, <3>1, <3>2 DEF Answering
  <2>4. CASE L!Visit(L!Visited)
    <3>1. fd' = L!Visited /\ at' \in {"recv", "header"}
      BY <2>2, <2>4, LoopAssumptions, L!VisitEffect
    <3>2. \/ served' = [served EXCEPT ![L!Visited] = @ + 1]
          \/ "memory" \in trouble'
      BY <2>1 DEF L!Receiving
    <3>3. L!Visited = 0 => Excuse'
      BY <1>0, <3>2 DEF Excuse
    <3>. QED  BY <3>1, <3>3 DEF Answering
  <2>. QED  BY <2>1, <2>3, <2>4 DEF L!Receiving
<1>3. CASE L!do_setting
  <2>1. ready \in SUBSET L!Sock /\ ready # {} /\ at = "setting"
    BY <1>3 DEF L!IInv, L!TypeOK, L!Stage, L!do_setting
  <2>2. fd' = L!Visited /\ at' \in {"recv", "header"}
    BY <1>3, <2>1, LoopAssumptions, L!VisitEffect DEF L!do_setting
  <2>3. L!Visited = 0 => Excuse
    BY <2>1 DEF Answering, Excuse
  <2>. QED  BY <1>1, <2>2, <2>3 DEF Answering
<1>4. CASE L!Environment \/ UNCHANGED L!vars
  <2>1. UNCHANGED <<at, ready, fd, served>>
    BY <1>0, <1>4, LoopAssumptions, L!EnvironmentEffect DEF L!vars
  <2>2. L!Visited' = L!Visited
    BY <2>1 DEF L!Visited
  <2>. QED  BY <1>1, <2>1, <2>2 DEF Answering
<1>5. CASE L!Connect \/ L!ConnectFails \/ L!Select
  BY <1>5 DEF Answering, L!Connect, L!ConnectFails, L!Select
<1>6. CASE L!msg_done_header \/ L!msg_done_payload
  <2>1. /\ at \in {"header", "payload"} /\ at' \in {"payload", "select"}
        /\ fd' \in {fd, L!NoSock}
    BY <1>6 DEF L!msg_done_header, L!msg_done_payload
  <2>2. fd' = 0 => fd = 0
    BY <2>1 DEF L!NoSock
  <2>. QED  BY <1>1, <2>1, <2>2 DEF Answering
<1>. QED  BY <1>2, <1>3, <1>4, <1>5, <1>6, StepParts, Stutters DEF L!Next, L!Main

(* Between the header and the payload of a frame there is nothing else.    *)
Frames ==
  /\ torn => Excuse
  /\ misuse = {} => \A t \in Thread : where[t] = "send_payload" => wire = t \/ Excuse

(* A thread sends a payload only behind a header. *)
LEMMA HeaderFirst ==
  ASSUME P!TypeOK, NEW t \in Thread, P!Step(t), where'[t] = "send_payload"
  PROVE  P!SendHeader(t)
<1>0. where \in [Thread -> P!Label]
  BY DEF P!TypeOK
<1>1. ASSUME NEW label, P!Goto(t, label), label # "send_payload"  PROVE FALSE
  BY <1>0, <1>1 DEF P!Goto
<1>2. ~P!Cancel(t) /\ ~P!Open(t) /\ ~P!OpenError(t)
  BY <1>1 DEF P!Cancel, P!Open, P!OpenError
<1>3. ~P!Configure(t) /\ ~P!RequestBuffers(t)
  BY <1>1 DEF P!Configure, P!RequestBuffers, P!Branch
<1>4. ~P!ResetCount(t) /\ ~P!MapBuffers(t) /\ ~P!StartCapture(t)
  BY <1>1 DEF P!ResetCount, P!MapBuffers, P!StartCapture, P!At
<1>5. ~P!BeginEncoding(t) /\ ~P!Select(t) /\ ~P!Dequeue(t) /\ ~P!Copy(t)
  BY <1>1 DEF P!BeginEncoding, P!Select, P!Branch, P!Dequeue, P!Copy
<1>6. ~P!Encode(t) /\ ~P!CopyNals(t) /\ ~P!SendPayload(t) /\ ~P!Pace(t) /\ ~P!Requeue(t)
  BY <1>1 DEF P!Encode, P!CopyNals, P!SendPayload, P!Pace, P!Requeue
<1>7. ~P!StopCapture(t) /\ ~P!EndEncoding(t) /\ ~P!Uninit(t) /\ ~P!Close(t)
  BY <1>1 DEF P!StopCapture, P!EndEncoding, P!Uninit, P!Close, P!CleanupStep
<1>. QED  BY <1>2, <1>3, <1>4, <1>5, <1>6, <1>7 DEF P!Step

(* Frames is inductive: no step but those on socket 0 comes between the    *)
(* sends of a frame.                                                       *)
LEMMA FramesStep ==
  ASSUME P!IInv, L!IInv, Answering, Frames, [Next]_vars
  PROVE  Frames'
<1>0. Excuse => Excuse'
  BY ExcuseStays
<1>1. CASE UNCHANGED vars
  BY <1>1, <1>0 DEF Frames, vars, previewVars, wireVars
<1>. SUFFICES ASSUME Next  PROVE Frames'
  BY <1>1
<1>2. misuse = {} /\ misuse' \subseteq P!Misuse
  BY DEF Next, Within
<1>3. P!TypeOK /\ P!OneAlive /\ where \in [Thread -> P!Label]
  BY <1>2, Unmisused DEF P!TypeOK, P!Shaped
<1>4. ASSUME UNCHANGED <<torn, wire>> \/ (Excuse' /\ UNCHANGED torn),
             \A u \in Thread : where'[u] = "send_payload" => where[u] = "send_payload"
      PROVE  Frames'
  BY <1>0, <1>2, <1>4 DEF Frames
<1>5. CASE Main
  <2>1. \A u \in Thread : where'[u] = "send_payload" => where[u] = "send_payload"
    <3>1. CASE P!do_preview_start
      BY <1>2, <1>3, <3>1, Starts
    <3>2. CASE UNCHANGED where
      BY <3>2
    <3>3. P!do_preview_stop \/ P!do_takephoto \/ UNCHANGED previewVars => UNCHANGED where
      BY DEF P!do_preview_stop, P!do_takephoto, P!threadVars, previewVars
    <3>. QED  BY <1>5, <3>1, <3>2, <3>3, CommandSteps DEF Main
  <2>2. Answers => Excuse
    BY DEF Answers, Answering
  <2>. QED  BY <1>0, <1>4, <1>5, <2>1, <2>2 DEF Main
<1>6. CASE Photo \/ Environment
  BY <1>4, <1>6, EndsPhoto DEF Photo, Environment, previewVars, wireVars
<1>7. ASSUME NEW t \in Thread, Step(t)  PROVE Frames'
  <2>1. P!Step(t)
    BY <1>2, <1>7 DEF Step, SendHeader, SendPayload, P!Step, P!Misuse
  <2>2. /\ misuse' = {} /\ P!Alive(t) /\ \A u \in Thread : u # t => where'[u] = where[u]
    BY <1>2, <2>1, ThreadMoves DEF P!Alive
  <2>3. \A u \in Thread : where[u] = "send_payload" => u = t
    BY <1>3, <2>2 DEF P!OneAlive, P!Alive, P!Loop
  <2>4. \A u \in Thread : where'[u] = "send_payload" => u = t
    BY <2>2, <2>3
  <2>5. CASE SendHeader(t)
    BY <1>0, <1>2, <1>3, <2>2, <2>4, <2>5 DEF SendHeader, Frames
  <2>6. CASE SendPayload(t)
    <3>1. where[t] = "send_payload" /\ where'[t] # "send_payload"
      BY <1>3, <2>6 DEF SendPayload, P!SendPayload, P!At, P!Goto
    <3>2. wire = t \/ Excuse
      BY <1>2, <3>1 DEF Frames
    <3>3. torn' => torn \/ wire # t
      BY <2>6 DEF SendPayload, wireVars
    <3>4. torn' => Excuse'
      BY <1>0, <3>2, <3>3 DEF Frames
    <3>5. \A u \in Thread : where'[u] # "send_payload"
      BY <2>4, <3>1
    <3>. QED  BY <3>4, <3>5 DEF Frames
  <2>7. CASE ~Sends(t) /\ UNCHANGED wireVars
    <3>1. where'[t] # "send_payload"
      <4>1. ASSUME P!SendHeader(t)  PROVE FALSE
        BY <2>7, <4>1 DEF P!SendHeader, P!At, P!MustCancel, Sends
      <4>. QED  BY <1>3, <2>1, <4>1, HeaderFirst
    <3>. QED  BY <1>4, <2>2, <2>7, <3>1 DEF wireVars
  <2>. QED  BY <1>7, <2>5, <2>6, <2>7 DEF Step
<1>. QED  BY <1>5, <1>6, <1>7 DEF Next, Within

(* A frame's payload comes right behind its header until a command on      *)
(* socket 0, or a payload that there was no memory for, is answered.       *)
THEOREM WholeFrames == Spec => []FramesWhole
<1>1. Init => Answering /\ Frames
  BY DEF Init, L!Init, P!Init, Answering, Frames
<1>2. Frames => FramesWhole
  BY DEF Frames, FramesWhole, Excuse
<1>. QED  BY <1>1, <1>2, AnsweringStep, FramesStep, PartsIInv, PTL DEF Spec

-----------------------------------------------------------------------------
(***************************************************************************)
(* What the main thread executes.                                          *)
(***************************************************************************)

(* A recv executes the command at the head of a queue, or, on an error,    *)
(* the one that is in the message.                                         *)
LEMMA RecvCommand ==
  ASSUME L!IInv, L!PlainTraffic, L!Framed, [Next]_vars, L!Clean', L!Recv
  PROVE  /\ at = "recv" /\ served' # served /\ trouble' = trouble
         /\ L!Visited \in ready /\ L!Visited \in L!Sock
         /\ L!Visit(L!Visited) \/ (at' = "setting" /\ UNCHANGED ready)
         /\ \/ UNCHANGED inbox /\ msg'.code = msg.code /\ L!Visited \in refused
            \/ L!Receives(L!Visited) /\ msg'.code = inbox[L!Visited][1].code
<1>. DEFINE v == L!Visited
<1>0. L!TypeOK /\ L!Clean /\ 0 \in L!Sock /\ inbox[0] \in Seq(L!Datagram)
  BY CleanStays DEF L!IInv, L!TypeOK, L!Sock
<1>1. PICK m \in L!Message : L!Receiving(v, m)
  BY LoopAssumptions, L!Recvs
<1>2. v \in ready /\ v \in L!Sock /\ at = "recv"
  BY LoopAssumptions, L!Recvs
<1>. HIDE DEF v
<1>3. "memory" \notin trouble'
  BY DEF L!Clean, L!Garbling
<1>4. served' # served /\ trouble' = trouble
  <2>1. served \in [L!Sock -> Nat]
    BY <1>0 DEF L!TypeOK
  <2>2. served' = [served EXCEPT ![v] = @ + 1] /\ trouble' = trouble
    BY <1>1, <1>3 DEF L!Receiving
  <2>. QED  BY <1>2, <2>1, <2>2
<1>5. CASE L!Fails(v) /\ m = msg
  BY <1>1, <1>2, <1>4, <1>5 DEF L!Receiving, L!Fails, v
<1>6. CASE L!Receives(v) /\ m \in L!Overwritten(Head(inbox[v]))
  <2>1. inbox[v][1] # L!Payload
    <3>0. 1 \in DOMAIN inbox[v] /\ inbox[v] # <<>>
      BY <1>0, <1>2, <1>6, LoopAssumptions, L!Leaves
    <3>1. CASE L!Plain
      BY <1>2, <3>0, <3>1 DEF L!PlainTraffic
    <3>2. CASE ~L!Plain /\ v = 1
      BY <1>0, <3>0, <3>2 DEF L!Framed
    <3>3. CASE ~L!Plain /\ v = 0
      <4>1. L!Framing(inbox[0], at = "setting", owes # L!NoSock) /\ at # "setting"
        BY <1>0, <1>2, <3>3 DEF L!Framed
      <4>. QED  BY <1>0, <3>0, <3>3, <4>1, LoopAssumptions, L!FramingTail
    <3>. QED  BY <1>2, <3>1, <3>2, <3>3 DEF L!Sock
  <2>2. m.code = inbox[v][1].code
    BY <1>0, <1>2, <1>6, <2>1, LoopAssumptions, L!Reads
  <2>. QED  BY <1>1, <1>2, <1>4, <1>6, <2>2 DEF L!Receiving, v
<1>. QED  BY <1>1, <1>5, <1>6 DEF L!Receiving

(* The functions of the preview are called for their commands only, and    *)
(* when there is one to execute.                                           *)
LEMMA Calls ==
  ASSUME L!IInv, L!PlainTraffic, L!Framed, [Next]_vars, L!Clean', Main
  PROVE  \/ ~L!Recv /\ UNCHANGED previewVars
         \/ /\ L!Recv
            /\ msg'.code = "START_PREVIEW" => P!do_preview_start
            /\ msg'.code = "STOP_PREVIEW"  => P!do_preview_stop
            /\ msg'.code = "TAKE_PHOTO"    => P!do_takephoto
            /\ msg'.code \notin PreviewCode => UNCHANGED previewVars
<1>1. CASE L!Recv
  <2>1. served' # served
    BY <1>1, RecvCommand
  <2>. QED  BY <1>1, <2>1 DEF Main, Command, Executes, PreviewCode
<1>2. CASE ~L!Recv
  <2>1. UNCHANGED served
    BY <1>2, LoopAssumptions, L!OtherSteps DEF Main, L!Main, L!do_setting
  <2>. QED  BY <1>2, <2>1 DEF Main, Command, Executes
<1>. QED  BY <1>1, <1>2

(* do_setting takes its own payload off the queue. *)
LEMMA TakesPayload ==
  ASSUME L!IInv, L!PlainTraffic, L!Framed, [Next]_vars, L!Clean', L!do_setting
  PROVE  L!Receives(0) /\ inbox[0][1] = L!Payload /\ ~L!Plain /\ 0 \in ready /\ L!Visited = 0
<1>0. L!TypeOK /\ L!Clean /\ 0 \in L!Sock /\ inbox[0] \in Seq(L!Datagram) /\ at = "setting"
  BY CleanStays DEF L!IInv, L!TypeOK, L!Sock, L!do_setting
<1>1. ~L!Plain
  BY <1>0 DEF L!PlainTraffic
<1>2. refused = {}
  BY <1>0, <1>1, LoopAssumptions, L!Orderly
<1>3. L!Receives(0)
  BY <1>2 DEF L!do_setting, L!Fails
<1>4. L!Framing(inbox[0], TRUE, owes # L!NoSock) /\ 0 \in ready
  BY <1>0, <1>1 DEF L!Framed
<1>5. inbox[0][1] = L!Payload
  BY <1>0, <1>3, <1>4, LoopAssumptions, L!FramingTail, L!Leaves
<1>6. L!Visited = 0
  <2>1. ready \in SUBSET L!Sock /\ ready # {} /\ 0 \in ready
    BY <1>0, <1>4 DEF L!TypeOK
  <2>. QED  BY <2>1, LoopAssumptions, L!Least DEF L!Visited, L!LeastOf
<1>. QED  BY <1>1, <1>3, <1>4, <1>5, <1>6

-----------------------------------------------------------------------------
(***************************************************************************)
(* Between a patient master and the slave.                                 *)
(***************************************************************************)

Flying(c) == \E s \in L!Sock : \E i \in DOMAIN inbox[s] : inbox[s][i].code = c

NoneFlying == \A c \in PreviewCode : ~Flying(c)

(* A recv that fails now would execute c once more. *)
Again(c) == at = "recv" /\ msg.code = c

(* At most one preview command is on its way. *)
AtMostOne ==
  \A s, r \in L!Sock : \A i \in DOMAIN inbox[s], j \in DOMAIN inbox[r] :
    inbox[s][i].code \in PreviewCode /\ inbox[r][j].code \in PreviewCode => s = r /\ i = j

(* The command on its way fits the state that the preview is in; one that  *)
(* is executed again, the state that it has left.                          *)
Patience ==
  patient /\ L!Clean /\ misuse = {} =>
    /\ AtMostOne
    /\ \A c \in PreviewCode : Again(c) => NoneFlying
    /\ Flying("STOP_PREVIEW") \/ Again("STOP_PREVIEW") => ~Starting
    /\ "lost" \notin trouble =>
         /\ NoneFlying => (asked = "on" <=> Runs)
         /\ Flying("START_PREVIEW") => asked = "on" /\ P!NobodyRuns
         /\ Flying("STOP_PREVIEW") => asked = "off" /\ Runs
         /\ Flying("TAKE_PHOTO") => asked = "on" /\ Films
         /\ Again("START_PREVIEW") => asked = "on"
         /\ Again("STOP_PREVIEW") => asked = "off" /\ pid # NoThread
         /\ Again("TAKE_PHOTO") => Films

(* Receiving a datagram takes at most one preview command out of the air,  *)
(* sending one puts at most that one there.                                *)
LEMMA Dequeues ==
  ASSUME L!TypeOK, NEW v \in L!Sock, L!Receives(v), AtMostOne
  PROVE  /\ AtMostOne'
         /\ \A c \in PreviewCode : Flying(c)' => Flying(c)
         /\ Flying(inbox[v][1].code)
         /\ inbox[v][1].code \in PreviewCode => NoneFlying'
         /\ inbox[v][1].code \notin PreviewCode =>
              \A c \in PreviewCode : Flying(c) => Flying(c)'
<1>1. /\ 1 \in DOMAIN inbox[v]
      /\ \A i \in DOMAIN inbox'[v] :
           i \in Nat \ {0} /\ i + 1 \in DOMAIN inbox[v] /\ inbox'[v][i] = inbox[v][i + 1]
      /\ \A r \in L!Sock : r # v => inbox'[r] = inbox[r]
  BY LoopAssumptions, L!Leaves
<1>. DEFINE From(r, i) == IF r = v THEN i + 1 ELSE i
<1>2. ASSUME NEW r \in L!Sock, NEW i \in DOMAIN inbox'[r]
      PROVE  From(r, i) \in DOMAIN inbox[r] /\ inbox'[r][i] = inbox[r][From(r, i)]
  BY <1>1, <1>2
<1>3. AtMostOne'
  <2>1. ASSUME NEW s \in L!Sock, NEW r \in L!Sock,
               NEW i \in DOMAIN inbox'[s], NEW j \in DOMAIN inbox'[r],
               inbox'[s][i].code \in PreviewCode, inbox'[r][j].code \in PreviewCode
        PROVE  s = r /\ i = j
    <3>1. s = r /\ From(s, i) = From(r, j)
      BY <1>2, <2>1 DEF AtMostOne
    <3>. QED  BY <1>1, <3>1
  <2>. QED  BY <2>1 DEF AtMostOne
<1>4. ASSUME NEW c \in PreviewCode, Flying(c)'  PROVE Flying(c) /\ inbox[v][1].code \notin PreviewCode
  <2>1a. PICK r \in L!Sock : \E i \in DOMAIN inbox'[r] : inbox'[r][i].code = c
    BY <1>4 DEF Flying
  <2>1. PICK i \in DOMAIN inbox'[r] : inbox'[r][i].code = c
    BY <2>1a
  <2>2. From(r, i) \in DOMAIN inbox[r] /\ inbox[r][From(r, i)].code = c
    BY <1>2, <2>1
  <2>3. r = v => From(r, i) # 1
    BY <1>1, <2>1
  <2>. QED  BY <1>1, <2>2, <2>3 DEF Flying, AtMostOne
<1>5. ASSUME inbox[v][1].code \notin PreviewCode, NEW c \in PreviewCode, Flying(c)  PROVE Flying(c)'
  <2>1a. PICK r \in L!Sock : \E i \in DOMAIN inbox[r] : inbox[r][i].code = c
    BY <1>5 DEF Flying
  <2>1. PICK i \in DOMAIN inbox[r] : inbox[r][i].code = c
    BY <2>1a
  <2>2. CASE r # v
    BY <1>1, <2>1, <2>2 DEF Flying
  <2>3. CASE r = v
    <3>1. inbox[v] \in Seq(L!Datagram) /\ inbox[v] # <<>> /\ inbox'[v] = Tail(inbox[v])
      BY LoopAssumptions, L!Leaves
    <3>2. /\ Len(inbox[v]) \in Nat \ {0} /\ DOMAIN inbox[v] = 1 .. Len(inbox[v])
          /\ DOMAIN inbox'[v] = 1 .. Len(inbox[v]) - 1
      BY <3>1, LoopAssumptions, L!Takes
    <3>3. i # 1
      BY <1>5, <2>1, <2>3
    <3>4. i - 1 \in DOMAIN inbox'[v] /\ (i - 1) + 1 = i
      BY <2>1, <2>3, <3>2, <3>3
    <3>5. inbox'[v][i - 1] = inbox[v][i]
      BY <1>1, <3>4
    <3>. QED  BY <2>1, <2>3, <3>4, <3>5 DEF Flying
  <2>. QED  BY <2>2, <2>3
<1>6. Flying(inbox[v][1].code)
  BY <1>1 DEF Flying
<1>. QED  BY <1>3, <1>4, <1>5, <1>6 DEF NoneFlying

LEMMA Enqueues ==
  ASSUME L!TypeOK, NEW s \in L!Sock, NEW d \in L!Datagram, NEW b, L!Transmit(s, d, b), AtMostOne,
         d.code \notin PreviewCode \/ NoneFlying
  PROVE  /\ AtMostOne'
         /\ \A c \in PreviewCode : Flying(c)' => Flying(c) \/ c = d.code
         /\ \A c \in PreviewCode : Flying(c) => Flying(c)'
         /\ "lost" \in trouble' \/ Flying(d.code)'
<1>1. CASE UNCHANGED inbox /\ "lost" \in trouble'
  BY <1>1 DEF AtMostOne, Flying
<1>2. CASE /\ \E p \in 1 .. Len(inbox[s]) + 1 : L!Inserted(inbox[s], d, p, inbox'[s])
           /\ \A r \in L!Sock : r # s => inbox'[r] = inbox[r]
  <2>1. PICK p \in 1 .. Len(inbox[s]) + 1 : L!Inserted(inbox[s], d, p, inbox'[s])
    BY <1>2
  <2>2. /\ Len(inbox[s]) \in Nat /\ DOMAIN inbox[s] = 1 .. Len(inbox[s])
        /\ DOMAIN inbox'[s] = 1 .. Len(inbox[s]) + 1
        /\ \A i \in 1 .. p - 1 : inbox'[s][i] = inbox[s][i]
        /\ inbox'[s][p] = d
        /\ \A i \in p .. Len(inbox[s]) : inbox'[s][i + 1] = inbox[s][i]
    BY <2>1 DEF L!Inserted
  <2>. DEFINE From(r, i) == IF r = s /\ i > p THEN i - 1 ELSE i
  <2>3. ASSUME NEW r \in L!Sock, NEW i \in DOMAIN inbox'[r], ~(r = s /\ i = p)
        PROVE  From(r, i) \in DOMAIN inbox[r] /\ inbox'[r][i] = inbox[r][From(r, i)]
    <3>1. CASE r # s
      BY <1>2, <3>1
    <3>2. CASE r = s /\ i < p
      <4>1. i \in 1 .. p - 1 /\ i \in 1 .. Len(inbox[s])
        BY <2>2, <3>2
      <4>. QED  BY <2>2, <3>2, <4>1
    <3>3. CASE r = s /\ i > p
      <4>1. i - 1 \in p .. Len(inbox[s]) /\ i - 1 \in 1 .. Len(inbox[s]) /\ (i - 1) + 1 = i
        BY <2>2, <3>3
      <4>2. inbox'[s][(i - 1) + 1] = inbox[s][i - 1]
        BY <2>2, <4>1
      <4>. QED  BY <2>2, <3>3, <4>1, <4>2
    <3>. QED  BY <2>2, <2>3, <3>1, <3>2, <3>3
  <2>4. AtMostOne'
    <3>1. ASSUME NEW q \in L!Sock, NEW r \in L!Sock,
                 NEW i \in DOMAIN inbox'[q], NEW j \in DOMAIN inbox'[r],
                 inbox'[q][i].code \in PreviewCode, inbox'[r][j].code \in PreviewCode
          PROVE  q = r /\ i = j
      <4>1. CASE ~(q = s /\ i = p) /\ ~(r = s /\ j = p)
        <5>1. q = r /\ From(q, i) = From(r, j)
          BY <2>3, <3>1, <4>1 DEF AtMostOne
        <5>2. q = s => i \in Nat /\ j \in Nat /\ p \in Nat
          BY <2>2, <3>1, <5>1
        <5>. QED  BY <4>1, <5>1, <5>2
      <4>2. CASE (q = s /\ i = p) \/ (r = s /\ j = p)
        <5>1. d.code \in PreviewCode /\ NoneFlying
          BY <2>2, <3>1, <4>2
        <5>2. (q = s /\ i = p) /\ (r = s /\ j = p)
          BY <2>3, <3>1, <5>1 DEF NoneFlying, Flying
        <5>. QED  BY <5>2
      <4>. QED  BY <4>1, <4>2
    <3>. QED  BY <3>1 DEF AtMostOne
  <2>5. ASSUME NEW c \in PreviewCode, Flying(c)'  PROVE Flying(c) \/ c = d.code
    <3>1a. PICK r \in L!Sock : \E i \in DOMAIN inbox'[r] : inbox'[r][i].code = c
      BY <2>5 DEF Flying
    <3>1. PICK i \in DOMAIN inbox'[r] : inbox'[r][i].code = c
      BY <3>1a
    <3>. QED  BY <2>2, <2>3, <3>1 DEF Flying
  <2>6. ASSUME NEW c \in PreviewCode, Flying(c)  PROVE Flying(c)'
    <3>1a. PICK r \in L!Sock : \E i \in DOMAIN inbox[r] : inbox[r][i].code = c
      BY <2>6 DEF Flying
    <3>1. PICK i \in DOMAIN inbox[r] : inbox[r][i].code = c
      BY <3>1a
    <3>2. CASE r # s
      BY <1>2, <3>1, <3>2 DEF Flying
    <3>3. CASE r = s /\ i < p
      <4>1. i \in 1 .. p - 1 /\ i \in DOMAIN inbox'[s]
        BY <2>2, <3>1, <3>3
      <4>2. inbox'[s][i].code = c
        BY <2>2, <3>1, <3>3, <4>1
      <4>. QED  BY <4>1, <4>2 DEF Flying
    <3>4. CASE r = s /\ i >= p
      <4>1. i \in p .. Len(inbox[s]) /\ i + 1 \in DOMAIN inbox'[s]
        BY <2>2, <3>1, <3>4
      <4>2. inbox'[s][i + 1].code = c
        BY <2>2, <3>1, <3>4, <4>1
      <4>. QED  BY <4>1, <4>2 DEF Flying
    <3>. QED  BY <2>2, <3>1, <3>2, <3>3, <3>4
  <2>7. Flying(d.code)'
    BY <2>2 DEF Flying
  <2>. QED  BY <2>4, <2>5, <2>6, <2>7
<1>. QED  BY <1>1, <1>2, LoopAssumptions, L!Transmits

(* A running preview runs on until it is told to stop. *)
LEMMA ThreadStays ==
  ASSUME P!IInv, misuse = {}, NEW t \in Thread, P!Step(t), misuse' \subseteq P!Misuse
  PROVE  /\ misuse' = {} /\ UNCHANGED <<cancelled, pid>>
         /\ Runs' <=> Runs
         /\ Films => Films'
         /\ Starting' => Starting
         /\ ~P!NobodyRuns
<1>1. /\ misuse' = {} /\ UNCHANGED <<cancelled, pid>>
      /\ where[t] \in P!SetUp \cup P!Loop \cup P!Cleanup
      /\ \A u \in Thread : u # t => where'[u] = where[u]
      /\ where'[t] \in P!SetUp => where[t] \in P!SetUp
      /\ where'[t] \in P!SetUp \cup P!Loop => where[t] \in P!SetUp \cup P!Loop
      /\ where[t] \in P!SetUp \cup P!Loop /\ t \notin cancelled => where'[t] \in P!SetUp \cup P!Loop
      /\ where[t] \in P!Loop /\ t \notin cancelled => where'[t] \in P!Loop
  BY ThreadMoves, Labels
<1>2. \A u \in Thread : Running(u)' <=> Running(u)
  BY <1>1 DEF Running
<1>3. Films => Films'
  BY <1>1 DEF Films
<1>4. Starting' => Starting
  BY <1>1 DEF Starting
<1>5. P!Alive(t)
  BY <1>1 DEF P!Alive
<1>. QED  BY <1>1, <1>2, <1>3, <1>4, <1>5 DEF Runs, P!NobodyRuns

(* What depends on the preview alone. *)
LEMMA PreviewUnchanged ==
  ASSUME UNCHANGED previewVars
  PROVE  /\ UNCHANGED <<where, cancelled, pid, shot, misuse>>
         /\ UNCHANGED Runs /\ UNCHANGED Films /\ UNCHANGED Starting /\ UNCHANGED P!NobodyRuns
BY DEF previewVars, Runs, Running, Films, Starting, P!NobodyRuns, P!Alive

(* What a patient master sends. *)
LEMMA PatienceCommand ==
  ASSUME P!IInv, L!IInv, Patience, patient, UNCHANGED patient, L!Clean, misuse = {},
         trouble \subseteq trouble', UNCHANGED previewVars,
         NEW s \in L!Sock, NEW code \in Sent, MasterCommand(s, code)
  PROVE  Patience'
<1>0. /\ AtMostOne
      /\ \A c \in PreviewCode : Again(c) => NoneFlying
      /\ Flying("STOP_PREVIEW") \/ Again("STOP_PREVIEW") => ~Starting
      /\ "lost" \notin trouble =>
           /\ NoneFlying => (asked = "on" <=> Runs)
           /\ Flying("START_PREVIEW") => asked = "on" /\ P!NobodyRuns
           /\ Flying("STOP_PREVIEW") => asked = "off" /\ Runs
           /\ Flying("TAKE_PHOTO") => asked = "on" /\ Films
           /\ Again("START_PREVIEW") => asked = "on"
           /\ Again("STOP_PREVIEW") => asked = "off" /\ pid # NoThread
           /\ Again("TAKE_PHOTO") => Films
  BY DEF Patience
<1>1. L!TypeOK /\ code \in L!Code
  BY DEF L!IInv
<1>. DEFINE d == L!Header(code)
<1>2. d \in L!Datagram /\ d.code = code
  BY <1>1, LoopAssumptions, L!Datagrams
<1>. HIDE DEF d
<1>3. PICK b : L!Transmit(s, d, b)
  BY DEF MasterCommand, L!Command, d
<1>4. UNCHANGED <<at, msg>>
  BY <1>3 DEF L!Transmit
<1>5. /\ UNCHANGED <<where, cancelled, pid, misuse>>
      /\ UNCHANGED Runs /\ UNCHANGED Films /\ UNCHANGED Starting /\ UNCHANGED P!NobodyRuns
  BY PreviewUnchanged
<1>6. CASE code \notin PreviewCode
  <2>1. UNCHANGED asked
    BY <1>6 DEF MasterCommand, PreviewCode
  <2>2. /\ AtMostOne'
        /\ \A c \in PreviewCode : Flying(c)' <=> Flying(c)
    BY <1>0, <1>1, <1>2, <1>3, <1>6, Enqueues
  <2>. QED
    BY <1>0, <1>4, <1>5, <2>1, <2>2 DEF Patience, NoneFlying, Again, PreviewCode
<1>7. CASE code \in PreviewCode
  <2>1. Settled /\ at = "select" /\ (code = "START_PREVIEW" => asked = "off")
        /\ (code \in {"STOP_PREVIEW", "TAKE_PHOTO"} => asked = "on")
    BY <1>7 DEF MasterCommand, InTurn, Settled
  <2>2. NoneFlying
    BY <2>1 DEF Settled, Pending, NoneFlying, Flying
  <2>3. /\ AtMostOne'
        /\ \A c \in PreviewCode : Flying(c)' => c = code
        /\ "lost" \in trouble' \/ Flying(code)'
    BY <1>0, <1>1, <1>2, <1>3, <2>2, Enqueues DEF NoneFlying
  <2>4. \A t \in Thread : P!Alive(t) => where[t] \in P!Loop /\ t \notin cancelled
    BY <2>1 DEF Settled
  <2>5. ~Runs => P!NobodyRuns
    BY <2>4 DEF Runs, Running, P!NobodyRuns
  <2>6. Runs => Films
    BY <2>4 DEF Runs, Running, Films, P!Alive
  <2>7. ~Starting
    BY <2>4, Labels DEF Starting, P!Alive
  <2>8. \A c : ~Again(c)'
    BY <1>4, <2>1 DEF Again
  <2>9. "lost" \notin trouble' => ~NoneFlying'
    BY <1>7, <2>3 DEF NoneFlying
  <2>10. CASE code = "START_PREVIEW"
    <3>1. asked' = "on"
      BY <2>10 DEF MasterCommand
    <3>2. "lost" \notin trouble' => P!NobodyRuns
      BY <1>0, <2>1, <2>2, <2>5, <2>10
    <3>3. ~Flying("STOP_PREVIEW")' /\ ~Flying("TAKE_PHOTO")'
      BY <2>3, <2>10 DEF PreviewCode
    <3>. QED  BY <1>5, <2>3, <2>8, <2>9, <3>1, <3>2, <3>3 DEF Patience
  <2>11. CASE code = "STOP_PREVIEW"
    <3>1. asked' = "off"
      BY <2>11 DEF MasterCommand
    <3>2. "lost" \notin trouble' => Runs
      BY <1>0, <2>1, <2>2, <2>11
    <3>3. ~Flying("START_PREVIEW")' /\ ~Flying("TAKE_PHOTO")'
      BY <2>3, <2>11 DEF PreviewCode
    <3>. QED  BY <1>5, <2>3, <2>7, <2>8, <2>9, <3>1, <3>2, <3>3 DEF Patience
  <2>12. CASE code = "TAKE_PHOTO"
    <3>1. asked' = asked /\ asked = "on"
      BY <2>1, <2>12 DEF MasterCommand
    <3>2. "lost" \notin trouble' => Films
      BY <1>0, <2>1, <2>2, <2>6, <2>12
    <3>3. ~Flying("START_PREVIEW")' /\ ~Flying("STOP_PREVIEW")'
      BY <2>3, <2>12 DEF PreviewCode
    <3>. QED  BY <1>5, <2>3, <2>8, <2>9, <3>1, <3>2, <3>3 DEF Patience
  <2>. QED  BY <1>7, <2>10, <2>11, <2>12 DEF PreviewCode
<1>. QED  BY <1>6, <1>7

(* What the command executed by a recv fits, according to Patience.        *)
LEMMA Fits ==
  ASSUME L!IInv, L!PlainTraffic, L!Framed, Patience, patient, misuse = {}, [Next]_vars, L!Clean',
         L!Recv, NEW c \in PreviewCode, msg'.code = c
  PROVE  /\ AtMostOne' /\ NoneFlying'
         /\ Flying(c) \/ (Again(c) /\ {"refused", "both"} \subseteq trouble)
         /\ c = "STOP_PREVIEW" => ~Starting
         /\ "lost" \notin trouble =>
              /\ c = "START_PREVIEW" => asked = "on" /\ (P!NobodyRuns \/ Again(c))
              /\ c = "STOP_PREVIEW" => asked = "off" /\ (Runs \/ pid # NoThread)
              /\ c = "TAKE_PHOTO" => Films /\ (asked = "on" <=> Runs)
<1>0. /\ AtMostOne /\ L!TypeOK
      /\ \A d \in PreviewCode : Again(d) => NoneFlying
      /\ Flying("STOP_PREVIEW") \/ Again("STOP_PREVIEW") => ~Starting
      /\ "lost" \notin trouble =>
           /\ NoneFlying => (asked = "on" <=> Runs)
           /\ Flying("START_PREVIEW") => asked = "on" /\ P!NobodyRuns
           /\ Flying("STOP_PREVIEW") => asked = "off" /\ Runs
           /\ Flying("TAKE_PHOTO") => asked = "on" /\ Films
           /\ Again("START_PREVIEW") => asked = "on"
           /\ Again("STOP_PREVIEW") => asked = "off" /\ pid # NoThread
           /\ Again("TAKE_PHOTO") => Films
  BY CleanStays DEF Patience, L!IInv
<1>1. /\ at = "recv" /\ L!Visited \in L!Sock
      /\ \/ UNCHANGED inbox /\ msg.code = c /\ L!Visited \in refused
         \/ L!Receives(L!Visited) /\ c = inbox[L!Visited][1].code
  BY RecvCommand
<1>2. Films => Runs
  BY DEF Films, Runs, Running
<1>3. CASE UNCHANGED inbox /\ msg.code = c /\ L!Visited \in refused
  <2>1. Again(c) /\ NoneFlying
    BY <1>0, <1>1, <1>3 DEF Again
  <2>2. AtMostOne' /\ NoneFlying'
    BY <1>0, <1>3, <2>1 DEF AtMostOne, NoneFlying, Flying
  <2>3. "refused" \in trouble
    BY <1>3 DEF L!IInv, L!StillReadable
  <2>4. "both" \in trouble
    BY <1>1, <1>3 DEF L!IInv, L!FirstVisit, PreviewCode
  <2>. QED  BY <1>0, <2>1, <2>2, <2>3, <2>4
<1>4. CASE L!Receives(L!Visited) /\ c = inbox[L!Visited][1].code
  <2>1. AtMostOne' /\ NoneFlying' /\ Flying(c)
    BY <1>0, <1>1, <1>4, Dequeues
  <2>. QED  BY <1>0, <1>2, <2>1
<1>. QED  BY <1>1, <1>3, <1>4

(* START and STOP switch the preview on and off. *)
LEMMA Switches ==
  ASSUME P!IInv, Named, misuse = {}, misuse' = {}
  PROVE  /\ P!do_preview_start => Runs'
         /\ P!do_preview_stop => ~Runs'
<1>1. ASSUME P!do_preview_start  PROVE Runs'
  <2>1. /\ UNCHANGED cancelled /\ pid' \in Thread /\ where[pid'] = "new"
        /\ where' = [where EXCEPT ![pid'] = "device_open"]
    BY <1>1, Starts DEF P!Misuse
  <2>2. pid' \notin cancelled /\ where \in [Thread -> P!Label]
    BY <2>1, Unmisused DEF P!Shaped, P!CancelledThreads, P!TypeOK
  <2>. QED  BY <2>1, <2>2 DEF Runs, Running, P!SetUp
<1>2. ASSUME P!do_preview_stop, NEW t \in Thread, Running(t)'  PROVE FALSE
  <2>1. /\ UNCHANGED <<where, pid>>
        /\ cancelled' = cancelled \cup {u \in Thread : u = pid /\ P!Alive(u)}
    BY <1>2, Stops
  <2>2. Running(t) /\ P!Alive(t)
    BY <1>2, <2>1 DEF Running, P!Alive
  <2>3. t = pid
    BY <2>2 DEF Named
  <2>. QED  BY <1>2, <2>1, <2>2, <2>3 DEF Running
<1>. QED  BY <1>1, <1>2 DEF Runs

(* The hardest step of Patience: the only command in the air is executed. *)
LEMMA PatienceRecv ==
  ASSUME P!IInv, Named, L!IInv, L!PlainTraffic, L!Framed, Patience, patient, UNCHANGED patient,
         misuse = {}, misuse' = {}, [Next]_vars, L!Clean', Main, L!Recv
  PROVE  Patience'
<1>0. /\ L!TypeOK /\ L!Clean /\ P!TypeOK /\ trouble' = trouble /\ UNCHANGED asked
      /\ asked = "on" => asked # "off"
  BY CleanStays, Unmisused, RecvCommand DEF L!IInv, Main
<1>1. /\ msg'.code = "START_PREVIEW" => P!do_preview_start
      /\ msg'.code = "STOP_PREVIEW"  => P!do_preview_stop
      /\ msg'.code = "TAKE_PHOTO"    => P!do_takephoto
      /\ msg'.code \notin PreviewCode => UNCHANGED previewVars
  BY Calls
<1>2. \A c : Again(c)' => msg'.code = c
  BY DEF Again
<1>3. ASSUME msg'.code \in PreviewCode,
             "lost" \notin trouble => (asked = "on" <=> Runs'),
             msg'.code = "STOP_PREVIEW" => ~Starting',
             "lost" \notin trouble =>
               /\ msg'.code = "START_PREVIEW" => asked = "on"
               /\ msg'.code = "STOP_PREVIEW" => asked = "off" /\ pid' # NoThread
               /\ msg'.code = "TAKE_PHOTO" => Films'
      PROVE  Patience'
  <2>1. AtMostOne' /\ NoneFlying'
    BY <1>3, Fits
  <2>2. ~Flying("START_PREVIEW")' /\ ~Flying("STOP_PREVIEW")' /\ ~Flying("TAKE_PHOTO")'
    BY <2>1 DEF NoneFlying, PreviewCode
  <2>. QED  BY <1>0, <1>2, <1>3, <2>1, <2>2 DEF Patience
<1>4. CASE msg'.code \notin PreviewCode
  <2>1. /\ UNCHANGED Runs /\ UNCHANGED Films /\ UNCHANGED Starting /\ UNCHANGED P!NobodyRuns
    BY <1>1, <1>4, PreviewUnchanged
  <2>2. AtMostOne' /\ \A c \in PreviewCode : Flying(c)' <=> Flying(c)
    <3>1. AtMostOne
      BY <1>0 DEF Patience
    <3>2. CASE UNCHANGED inbox
      BY <3>1, <3>2 DEF AtMostOne, Flying
    <3>3. CASE /\ L!Receives(L!Visited) /\ L!Visited \in L!Sock
               /\ inbox[L!Visited][1].code \notin PreviewCode
      BY <1>0, <3>1, <3>3, Dequeues
    <3>. QED  BY <1>4, <3>2, <3>3, RecvCommand
  <2>3. \A c \in PreviewCode : ~Again(c)'
    BY <1>2, <1>4
  <2>. QED  BY <1>0, <2>1, <2>2, <2>3 DEF Patience, NoneFlying, PreviewCode
<1>5. CASE msg'.code = "START_PREVIEW"
  <2>3. Runs'
    BY <1>1, <1>5, Switches
  <2>4. "lost" \notin trouble => asked = "on"
    BY <1>5, Fits DEF PreviewCode
  <2>. QED  BY <1>3, <1>5, <2>3, <2>4 DEF PreviewCode
<1>6. CASE msg'.code = "STOP_PREVIEW"
  <2>1. UNCHANGED <<where, pid>>
    BY <1>1, <1>6, Stops
  <2>2. /\ ~Starting
        /\ "lost" \notin trouble => asked = "off" /\ (Runs \/ pid # NoThread)
    BY <1>6, Fits DEF PreviewCode
  <2>3. ~Runs'
    BY <1>1, <1>6, Switches
  <2>4. Runs => pid # NoThread
    BY SlaveAssumption DEF Named, Runs
  <2>5. ~Starting'
    BY <2>1, <2>2 DEF Starting
  <2>. QED  BY <1>0, <1>3, <1>6, <2>1, <2>2, <2>3, <2>4, <2>5 DEF PreviewCode
<1>7. CASE msg'.code = "TAKE_PHOTO"
  <2>1. UNCHANGED <<where, cancelled, pid>>
    BY <1>1, <1>7, TakesPhoto
  <2>2. UNCHANGED Runs /\ UNCHANGED Films
    BY <2>1 DEF Runs, Running, Films
  <2>3. "lost" \notin trouble => Films /\ (asked = "on" <=> Runs)
    BY <1>7, Fits DEF PreviewCode
  <2>. QED  BY <1>3, <1>7, <2>2, <2>3 DEF PreviewCode
<1>. QED  BY <1>4, <1>5, <1>6, <1>7 DEF PreviewCode

(* A step that neither touches a preview command on its way nor executes   *)
(* one leaves it fitting.                                                  *)
LEMMA PatienceKept ==
  ASSUME Patience, patient, L!Clean, misuse = {}, trouble \subseteq trouble', UNCHANGED asked,
         AtMostOne => AtMostOne' /\ \A c \in PreviewCode : Flying(c)' <=> Flying(c),
         \A c \in PreviewCode : Again(c)' => Again(c),
         UNCHANGED pid, Runs' <=> Runs, Films => Films', Starting' => Starting,
         P!NobodyRuns => P!NobodyRuns'
  PROVE  Patience'
<1>1. (\A c \in PreviewCode : Flying(c)' <=> Flying(c)) /\ AtMostOne'
  BY DEF Patience
<1>2. NoneFlying' <=> NoneFlying
  BY <1>1 DEF NoneFlying
<1>. QED  BY <1>1, <1>2 DEF Patience, PreviewCode

(* Patience is inductive. *)
LEMMA PatienceStep ==
  ASSUME P!IInv, Named, L!IInv, L!PlainTraffic, L!Framed, L!Setting, Patience, [Next]_vars
  PROVE  Patience'
<1>0. CASE UNCHANGED vars
  <2>1. /\ UNCHANGED <<inbox, at, msg, trouble, asked, patient>> /\ UNCHANGED previewVars
    BY <1>0 DEF vars, loopVars
  <2>. QED  BY <2>1, PreviewUnchanged
            DEF Patience, L!Clean, AtMostOne, NoneFlying, Flying, Again
<1>. SUFFICES ASSUME Next, patient', L!Clean', misuse' = {}  PROVE Patience'
  BY <1>0 DEF Patience
<1>1. patient /\ UNCHANGED patient /\ misuse = {} /\ misuse' \subseteq P!Misuse
  BY DEF Next, Within
<1>2. L!Clean /\ trouble \subseteq trouble' /\ L!TypeOK
  BY CleanStays, Grows DEF L!IInv
<1>3. ASSUME UNCHANGED <<inbox, at, msg>>
      PROVE  /\ AtMostOne => AtMostOne' /\ \A c \in PreviewCode : Flying(c)' <=> Flying(c)
             /\ \A c \in PreviewCode : Again(c)' => Again(c)
  BY <1>3 DEF AtMostOne, Flying, Again
<1>4. CASE Main
  <2>1. CASE L!Recv
    BY <1>1, <1>4, <2>1, PatienceRecv
  <2>2. CASE ~L!Recv
    <3>1. UNCHANGED previewVars /\ UNCHANGED asked
      BY <1>4, <2>2, Calls DEF Main
    <3>2. AtMostOne => AtMostOne' /\ \A c \in PreviewCode : Flying(c)' <=> Flying(c)
      <4>1. CASE L!do_setting
        <5>1. L!Receives(0) /\ 0 \in L!Sock /\ inbox[0][1].code \notin PreviewCode
          BY <4>1, TakesPayload, LoopAssumptions, L!Datagrams DEF L!Sock, PreviewCode
        <5>. QED  BY <1>2, <5>1, Dequeues
      <4>2. CASE UNCHANGED inbox
        BY <4>2 DEF AtMostOne, Flying
      <4>. QED  BY <1>4, <2>2, <4>1, <4>2, LoopAssumptions, L!OtherSteps DEF Main, L!Main
    <3>3. \A c \in PreviewCode : ~Again(c)'
      <4>1. CASE L!do_setting
        BY <4>1 DEF L!do_setting, L!Setting, Again, PreviewCode
      <4>2. CASE L!Select
        BY <4>2 DEF L!Select, Again, PreviewCode, L!NoMessage
      <4>3. CASE at' # "recv"
        BY <4>3 DEF Again
      <4>. QED  BY <1>4, <2>2, <4>1, <4>2, <4>3, LoopAssumptions, L!OtherSteps DEF Main, L!Main
    <3>. QED  BY <1>1, <1>2, <3>1, <3>2, <3>3, PreviewUnchanged, PatienceKept
  <2>. QED  BY <2>1, <2>2
<1>5. CASE Photo
  <2>1. UNCHANGED <<where, cancelled, pid>> /\ UNCHANGED <<inbox, at, msg, asked>>
    BY <1>5, EndsPhoto DEF Photo, loopVars
  <2>2. /\ UNCHANGED Runs /\ UNCHANGED Films /\ UNCHANGED Starting /\ UNCHANGED P!NobodyRuns
    BY <2>1 DEF Runs, Running, Films, Starting, P!NobodyRuns, P!Alive
  <2>. QED  BY <1>1, <1>2, <1>3, <2>1, <2>2, PatienceKept
<1>6. CASE Environment
  <2>0. UNCHANGED previewVars
    BY <1>6 DEF Environment
  <2>1. ASSUME NEW s \in L!Sock, NEW code \in Sent, MasterCommand(s, code)  PROVE Patience'
    BY <1>1, <1>2, <2>0, <2>1, PatienceCommand
  <2>2. CASE MasterPayload
    <3>1. /\ owes \in L!Sock /\ L!Transmit(owes, L!Payload, {}) /\ UNCHANGED asked
      BY <1>2, <2>2 DEF MasterPayload, L!SendPayload, L!TypeOK
    <3>2. AtMostOne => AtMostOne' /\ \A c \in PreviewCode : Flying(c)' <=> Flying(c)
      <4>1. L!Payload \in L!Datagram /\ L!Payload.code = "none" /\ "none" \notin PreviewCode
        BY LoopAssumptions, L!Datagrams DEF PreviewCode
      <4>. QED  BY <1>2, <3>1, <4>1, Enqueues
    <3>3. \A c \in PreviewCode : Again(c)' => Again(c)
      BY <3>1 DEF L!Transmit, Again
    <3>. QED  BY <1>1, <1>2, <2>0, <3>1, <3>2, <3>3, PreviewUnchanged, PatienceKept
  <2>3. ASSUME NEW s \in L!Sock, L!Refuse(s), UNCHANGED asked  PROVE Patience'
    <3>1. UNCHANGED <<inbox, at, msg>>
      BY <2>3 DEF L!Refuse
    <3>. QED  BY <1>1, <1>2, <1>3, <2>0, <2>3, <3>1, PreviewUnchanged, PatienceKept
  <2>. QED  BY <1>6, <2>1, <2>2, <2>3 DEF Environment
<1>7. ASSUME NEW t \in Thread, Step(t)  PROVE Patience'
  <2>1. P!Step(t)
    BY <1>1, <1>7 DEF Step, SendHeader, SendPayload, P!Step, P!Misuse
  <2>2. UNCHANGED <<inbox, at, msg>> /\ UNCHANGED asked
    BY <1>7 DEF Step, SendHeader, SendPayload, NotSent, IsSent, L!SendFrame, loopVars
  <2>3. /\ UNCHANGED pid /\ (Runs' <=> Runs) /\ (Films => Films') /\ (Starting' => Starting)
        /\ ~P!NobodyRuns
    BY <1>1, <2>1, ThreadStays
  <2>. QED  BY <1>1, <1>2, <1>3, <2>2, <2>3, PatienceKept
<1>. QED  BY <1>4, <1>5, <1>6, <1>7 DEF Next, Within

LEMMA PatienceInvariance == Spec => []Patience
<1>1. Init => Patience
  <2>. SUFFICES ASSUME Init  PROVE Patience
    OBVIOUS
  <2>1. inbox = [s \in L!Sock |-> <<>>] /\ at = "connect" /\ asked = "off"
    BY DEF Init, L!Init
  <2>2. \A s \in L!Sock : inbox[s] = <<>> /\ DOMAIN inbox[s] = {}
    BY <2>1
  <2>3. ~Runs
    BY DEF Init, P!Init, Runs, Running, P!SetUp, P!Loop
  <2>. QED  BY <2>1, <2>2, <2>3 DEF Patience, AtMostOne, Flying, Again
<1>. QED  BY <1>1, PatienceStep, NamedInvariance, Traffic, PartsIInv, PTL DEF Spec

(* A step of a patient master's slave misuses the preview only for one of  *)
(* the causes.                                                             *)
LEMMA MisuseCauseStep ==
  ASSUME P!IInv, Named, L!IInv, L!PlainTraffic, L!Framed, Patience, MisuseCause, [Next]_vars
  PROVE  MisuseCause'
<1>0. CASE UNCHANGED vars
  BY <1>0 DEF MisuseCause, vars, previewVars, loopVars
<1>. SUFFICES ASSUME Next, patient', L!Clean', NEW m \in misuse'
              PROVE  \E cause \in Causes(m) : cause \subseteq trouble'
  BY <1>0 DEF MisuseCause, L!Clean
<1>1. patient /\ misuse = {} /\ misuse' \subseteq P!Misuse
  BY DEF Next, Within
<1>2. L!Clean /\ trouble \subseteq trouble'
  BY CleanStays, Grows
<1>3. Main
  <2>1. CASE Photo \/ Environment
    BY <1>1, <2>1, EndsPhoto DEF Photo, Environment, previewVars
  <2>2. ASSUME NEW t \in Thread, Step(t)  PROVE FALSE
    <3>1. P!Step(t)
      BY <1>1, <2>2 DEF Step, SendHeader, SendPayload, P!Step, P!Misuse
    <3>. QED  BY <1>1, <3>1, ThreadStays
  <2>. QED  BY <2>1, <2>2 DEF Next, Within
<1>4. /\ L!Recv /\ msg'.code \in PreviewCode
      /\ msg'.code = "START_PREVIEW" => P!do_preview_start
      /\ msg'.code = "STOP_PREVIEW"  => P!do_preview_stop
      /\ msg'.code = "TAKE_PHOTO"    => P!do_takephoto
  BY <1>1, <1>3, Calls, PreviewUnchanged
<1>. DEFINE c == msg'.code
<1>5. /\ Flying(c) \/ (Again(c) /\ {"refused", "both"} \subseteq trouble)
      /\ c = "STOP_PREVIEW" => ~Starting
      /\ "lost" \notin trouble =>
           /\ c = "START_PREVIEW" => asked = "on" /\ (P!NobodyRuns \/ Again(c))
           /\ c = "STOP_PREVIEW" => asked = "off" /\ (Runs \/ pid # NoThread)
           /\ c = "TAKE_PHOTO" => Films /\ (asked = "on" <=> Runs)
  BY <1>1, <1>4, Fits
<1>6. ASSUME "lost" \in trouble, m # "early"  PROVE \E cause \in Causes(m) : cause \subseteq trouble'
  <2>1. {"lost"} \in Causes(m)
    BY <1>1, <1>6 DEF Causes, P!Misuse
  <2>. QED  BY <1>2, <1>6, <2>1
<1>7. CASE c = "START_PREVIEW"
  <2>1. m = "overlap" /\ ~P!NobodyRuns
    BY <1>1, <1>4, <1>7, Starts
  <2>2. CASE "lost" \notin trouble
    <3>1. ~Flying(c)
      BY <1>1, <1>2, <1>7, <2>1, <2>2 DEF Patience
    <3>2. {"refused", "both"} \subseteq trouble'
      BY <1>2, <1>5, <3>1
    <3>. QED  BY <2>1, <3>2 DEF Causes
  <2>. QED  BY <1>6, <2>1, <2>2
<1>8. CASE c = "STOP_PREVIEW"
  <2>1. m = "nothread" /\ pid = NoThread
    BY <1>1, <1>4, <1>5, <1>8, Stops
  <2>2. "lost" \in trouble
    <3>1. Runs => pid # NoThread
      BY <1>1, SlaveAssumption DEF Named, Runs
    <3>. QED  BY <1>5, <1>8, <2>1, <3>1
  <2>. QED  BY <1>6, <2>1, <2>2
<1>9. CASE c = "TAKE_PHOTO"
  <2>1. m = "photo" /\ ~Films
    BY <1>1, <1>4, <1>9, TakesPhoto
  <2>. QED  BY <1>5, <1>6, <1>9, <2>1
<1>. QED  BY <1>4, <1>7, <1>8, <1>9 DEF PreviewCode

(* The preview of a patient master is misused only if a datagram was lost, *)
(* or an error on socket 1 has a START executed twice.                     *)
THEOREM Blame == Spec => []MisuseCause
<1>1. Init => MisuseCause
  BY DEF Init, P!Init, MisuseCause
<1>. QED  BY <1>1, MisuseCauseStep, PatienceInvariance, NamedInvariance, Traffic, PartsIInv, PTL
          DEF Spec

OnlyMisuse == misuse \subseteq P!Misuse

(* Between a patient master and a network that neither loses nor refuses   *)
(* nor garbles anything, no assertion of the preview fails and none of its *)
(* memory is used wrongly, whatever else the master commands in between    *)
(* and in whichever order the threads run.                                 *)
NoFaultBetweenPatientPeers ==
  patient /\ trouble \cap (L!Garbling \cup {"lost", "refused"}) = {} => misuse = {} /\ faults = {}

THEOREM EndToEnd == Spec => []NoFaultBetweenPatientPeers
<1>1. MisuseCause /\ NoFaults /\ OnlyMisuse => NoFaultBetweenPatientPeers
  <2>. SUFFICES ASSUME MisuseCause, NoFaults, OnlyMisuse, patient,
                       trouble \cap (L!Garbling \cup {"lost", "refused"}) = {}
                PROVE  misuse = {} /\ faults = {}
    BY DEF NoFaultBetweenPatientPeers
  <2>1. ASSUME NEW m \in misuse  PROVE FALSE
    <3>1. PICK cause \in Causes(m) : cause \subseteq trouble
      BY <2>1 DEF MisuseCause
    <3>2. "lost" \in cause \/ "refused" \in cause
      BY <2>1, <3>1 DEF Causes, OnlyMisuse, P!Misuse
    <3>. QED  BY <3>1, <3>2
  <2>. QED  BY <2>1 DEF NoFaults
<1>2. Init => OnlyMisuse
  BY DEF Init, P!Init, OnlyMisuse
<1>3. OnlyMisuse /\ [Next]_vars => OnlyMisuse'
  BY DEF OnlyMisuse, Next, Within, vars, previewVars
<1>4. Spec => []OnlyMisuse
  BY <1>2, <1>3, PTL DEF Spec
<1>. QED  BY <1>1, <1>4, Blame, Faultless, PTL

(* Between the same two, the previews of the slave are sessions of module  *)
(* Session: one after the other, each starts with the camera free, streams *)
(* once, and gives the camera back before the next one.                    *)
SessionsBetweenPatientPeers ==
  [][patient /\ trouble' \cap (L!Garbling \cup {"lost", "refused"}) = {}
     => [P!Sessions!Next]_(P!Sessions!vars)]_vars

THEOREM OrderlySessions == Spec => SessionsBetweenPatientPeers
<1>1. Spec => [][P!Undisturbed' => [P!Sessions!Next]_(P!Sessions!vars)]_(P!vars)
  <2>1. P!Spec => P!SessionSteps
    BY PreviewAssumptions, P!SessionsInOrder
  <2>. QED  BY <2>1, Components DEF P!SessionSteps
<1>2. /\ NoFaultBetweenPatientPeers' /\ [Next]_vars
      /\ [P!Undisturbed' => [P!Sessions!Next]_(P!Sessions!vars)]_(P!vars)
      => [patient /\ trouble' \cap (L!Garbling \cup {"lost", "refused"}) = {}
          => [P!Sessions!Next]_(P!Sessions!vars)]_vars
  <2>. SUFFICES ASSUME NoFaultBetweenPatientPeers', Next,
                       [P!Undisturbed' => [P!Sessions!Next]_(P!Sessions!vars)]_(P!vars),
                       patient, trouble' \cap (L!Garbling \cup {"lost", "refused"}) = {}
                PROVE  [P!Sessions!Next]_(P!Sessions!vars)
    OBVIOUS
  <2>1. P!Undisturbed'
    <3>1. patient' = patient
      BY DEF Next, Within
    <3>2. misuse' = {}
      BY <3>1 DEF NoFaultBetweenPatientPeers
    <3>. QED  BY <3>2 DEF P!Undisturbed, P!Orderly
  <2>2. UNCHANGED P!vars => UNCHANGED P!Sessions!vars
    BY DEF P!vars, P!processVars, P!deviceVars, P!threadVars, P!mainVars, P!Sessions!vars,
           P!phaseBar, P!deviceBar, P!NobodyRuns, P!Alive
  <2>. QED  BY <2>1, <2>2
<1>. QED  BY <1>1, <1>2, EndToEnd, PTL DEF Spec, SessionsBetweenPatientPeers

-----------------------------------------------------------------------------
(***************************************************************************)
(* Between a master who does not wait and the slave.                       *)
(***************************************************************************)

Turns == {"START_PREVIEW", "STOP_PREVIEW"}

(* The preview is e; it may be told to c, and what it is after that.       *)
Due(e, c) == /\ c = "START_PREVIEW" => e = "off"
             /\ c = "STOP_PREVIEW"  => e = "on"

After(e, c) == CASE c = "START_PREVIEW" -> "on"
                 [] c = "STOP_PREVIEW"  -> "off"
                 [] OTHER               -> e

(* A START or STOP is waiting in q. *)
Waits(q) == \E i \in DOMAIN q : q[i].code \in Turns

(* The commands in q alternate and take the preview from e to a: state[i]  *)
(* is what it is after i of them.                                          *)
Alternates(q, e, a) ==
  \E state \in [0 .. Len(q) -> {"on", "off"}] :
    /\ state[0] = e
    /\ \A i \in 1 .. Len(q) : /\ Due(state[i - 1], q[i].code)
                              /\ state[i] = After(state[i - 1], q[i].code)
    /\ \A i \in 0 .. Len(q) :
         (\A j \in i + 1 .. Len(q) : q[j].code \notin Turns) => state[i] = a

(* No START or STOP overtakes another: they are all in one queue, or one   *)
(* of them will have its round together with another.                      *)
InLine(q, r, e, a) ==
  \/ Waits(q) /\ Waits(r)
  \/ ~Waits(r) /\ Alternates(q, e, a)
  \/ ~Waits(q) /\ Alternates(r, e, a)

(* The command that the next recv executes, what waits behind it, and      *)
(* what the preview is.                                                    *)
Current == IF at = "recv" THEN inbox[L!Visited][1].code ELSE "none"
Rest(s) == IF at = "recv" /\ s = L!Visited THEN Tail(inbox[s]) ELSE inbox[s]
Now     == IF Runs THEN "on" ELSE "off"

InOrder == trouble \cap (Overtaking \cup {"lost"} \cup L!Garbling) = {}

Lined == Due(Now, Current) /\ InLine(Rest(0), Rest(1), After(Now, Current), asked)

Order == InOrder /\ misuse = {} => Lined

(* How the queues of commands grow and shrink: what waits in them, and     *)
(* that START and STOP alternate.                                          *)
LEMMA WaitsAppend ==
  ASSUME NEW q \in Seq(L!Datagram), NEW d \in L!Datagram
  PROVE  Waits(Append(q, d)) <=> Waits(q) \/ d.code \in Turns
<1>. DEFINE r == Append(q, d)
<1>1. /\ Len(q) \in Nat /\ DOMAIN q = 1 .. Len(q) /\ DOMAIN r = 1 .. Len(q) + 1
      /\ \A i \in 1 .. Len(q) : r[i] = q[i]
      /\ r[Len(q) + 1] = d
  BY LoopAssumptions, L!Appends
<1>. HIDE DEF r
<1>2. ASSUME Waits(r)  PROVE Waits(q) \/ d.code \in Turns
  <2>1. PICK i \in 1 .. Len(q) + 1 : r[i].code \in Turns
    BY <1>1, <1>2 DEF Waits
  <2>2. i \in 1 .. Len(q) \/ i = Len(q) + 1
    BY <1>1, <2>1
  <2>. QED  BY <1>1, <2>1, <2>2 DEF Waits
<1>3. ASSUME Waits(q)  PROVE Waits(r)
  <2>1. PICK i \in 1 .. Len(q) : q[i].code \in Turns
    BY <1>1, <1>3 DEF Waits
  <2>2. i \in DOMAIN r
    BY <1>1, <2>1
  <2>. QED  BY <1>1, <2>1, <2>2 DEF Waits
<1>4. ASSUME d.code \in Turns  PROVE Waits(r)
  <2>1. Len(q) + 1 \in DOMAIN r
    BY <1>1
  <2>. QED  BY <1>1, <1>4, <2>1 DEF Waits
<1>. QED  BY <1>2, <1>3, <1>4 DEF r

LEMMA WaitsTail ==
  ASSUME NEW q \in Seq(L!Datagram), q # <<>>
  PROVE  Waits(q) <=> q[1].code \in Turns \/ Waits(Tail(q))
<1>. DEFINE r == Tail(q)
<1>1. /\ Len(q) \in Nat \ {0} /\ DOMAIN q = 1 .. Len(q) /\ DOMAIN r = 1 .. Len(q) - 1
      /\ \A i \in 1 .. Len(q) - 1 : r[i] = q[i + 1]
  BY LoopAssumptions, L!Takes
<1>. HIDE DEF r
<1>2. ASSUME Waits(r)  PROVE Waits(q)
  <2>1. PICK i \in 1 .. Len(q) - 1 : r[i].code \in Turns
    BY <1>1, <1>2 DEF Waits
  <2>2. i + 1 \in DOMAIN q /\ q[i + 1].code \in Turns
    BY <1>1, <2>1
  <2>. QED  BY <2>2 DEF Waits
<1>3. ASSUME Waits(q), q[1].code \notin Turns  PROVE Waits(r)
  <2>1. PICK i \in 1 .. Len(q) : q[i].code \in Turns
    BY <1>1, <1>3 DEF Waits
  <2>2. i - 1 \in 1 .. Len(q) - 1 /\ (i - 1) + 1 = i
    BY <1>1, <1>3, <2>1
  <2>3. r[i - 1].code \in Turns
    BY <1>1, <2>1, <2>2
  <2>. QED  BY <1>1, <2>2, <2>3 DEF Waits
<1>4. ASSUME q[1].code \in Turns  PROVE Waits(q)
  <2>1. 1 \in DOMAIN q
    BY <1>1
  <2>. QED  BY <1>4, <2>1 DEF Waits
<1>. QED  BY <1>2, <1>3, <1>4 DEF r

LEMMA AlternatesNone ==
  ASSUME NEW q \in Seq(L!Datagram), ~Waits(q), NEW e, NEW a \in {"on", "off"}
  PROVE  Alternates(q, e, a) <=> e = a
<1>1. Len(q) \in Nat /\ DOMAIN q = 1 .. Len(q)
  BY LenProperties
<1>2. \A i \in 1 .. Len(q) : q[i].code \notin Turns
  BY <1>1 DEF Waits
<1>3. ASSUME Alternates(q, e, a)  PROVE e = a
  <2>1. PICK state \in [0 .. Len(q) -> {"on", "off"}] :
          /\ state[0] = e
          /\ \A i \in 0 .. Len(q) :
               (\A j \in i + 1 .. Len(q) : q[j].code \notin Turns) => state[i] = a
    BY <1>3 DEF Alternates
  <2>2. 0 \in 0 .. Len(q) /\ \A j \in 0 + 1 .. Len(q) : q[j].code \notin Turns
    BY <1>1, <1>2
  <2>. QED  BY <2>1, <2>2
<1>4. ASSUME e = a  PROVE Alternates(q, e, a)
  <2>. DEFINE state == [i \in 0 .. Len(q) |-> a]
  <2>1. state \in [0 .. Len(q) -> {"on", "off"}] /\ \A i \in 0 .. Len(q) : state[i] = a
    OBVIOUS
  <2>. HIDE DEF state
  <2>2. 0 \in 0 .. Len(q) /\ \A i \in 1 .. Len(q) : i \in 0 .. Len(q) /\ i - 1 \in 0 .. Len(q)
    BY <1>1
  <2>3. \A i \in 1 .. Len(q) : Due(a, q[i].code) /\ After(a, q[i].code) = a
    BY <1>2 DEF Turns, Due, After
  <2>. QED  BY <1>4, <2>1, <2>2, <2>3 DEF Alternates
<1>. QED  BY <1>3, <1>4

LEMMA AlternatesAppend ==
  ASSUME NEW q \in Seq(L!Datagram), NEW d \in L!Datagram, NEW e, NEW a \in {"on", "off"},
         Alternates(q, e, a), Due(a, d.code)
  PROVE  Alternates(Append(q, d), e, After(a, d.code))
<1>. DEFINE r == Append(q, d)
            n == Len(q)
            b == After(a, d.code)
<1>1. /\ n \in Nat /\ Len(r) = n + 1
      /\ \A i \in 1 .. n : r[i] = q[i]
      /\ r[n + 1] = d
  BY LoopAssumptions, L!Appends
<1>2. b \in {"on", "off"} /\ (d.code \notin Turns => b = a)
  BY DEF After, Turns
<1>3. PICK state \in [0 .. n -> {"on", "off"}] :
        /\ state[0] = e
        /\ \A i \in 1 .. n : /\ Due(state[i - 1], q[i].code)
                             /\ state[i] = After(state[i - 1], q[i].code)
        /\ \A i \in 0 .. n :
             (\A j \in i + 1 .. n : q[j].code \notin Turns) => state[i] = a
  BY DEF Alternates
<1>4. state[n] = a
  <2>1. n \in 0 .. n /\ n + 1 .. n = {}
    BY <1>1
  <2>. QED  BY <1>3, <2>1
<1>. DEFINE longer == [i \in 0 .. n + 1 |-> IF i = n + 1 THEN b ELSE state[i]]
<1>5. /\ longer \in [0 .. n + 1 -> {"on", "off"}]
      /\ \A i \in 0 .. n : longer[i] = state[i]
      /\ longer[n + 1] = b
  <2>1. \A i \in 0 .. n + 1 : i # n + 1 => i \in 0 .. n
    BY <1>1
  <2>2. n + 1 \in 0 .. n + 1 /\ \A i \in 0 .. n : i \in 0 .. n + 1 /\ i # n + 1
    BY <1>1
  <2>. HIDE DEF n, b
  <2>. QED  BY <1>2, <1>3, <2>1, <2>2
<1>. HIDE DEF longer, r
<1>6. longer[0] = e
  <2>1. 0 \in 0 .. n
    BY <1>1
  <2>. QED  BY <1>3, <1>5, <2>1
<1>7. ASSUME NEW i \in 1 .. n + 1
      PROVE  Due(longer[i - 1], r[i].code) /\ longer[i] = After(longer[i - 1], r[i].code)
  <2>1. CASE i \in 1 .. n
    <3>1. i \in 0 .. n /\ i - 1 \in 0 .. n
      BY <1>1, <2>1
    <3>2. longer[i] = state[i] /\ longer[i - 1] = state[i - 1] /\ r[i] = q[i]
      BY <1>1, <1>5, <2>1, <3>1
    <3>. QED  BY <1>3, <2>1, <3>2
  <2>2. CASE i = n + 1
    <3>1. n \in 0 .. n /\ i - 1 = n
      BY <1>1, <2>2
    <3>2. longer[i - 1] = a
      BY <1>4, <1>5, <3>1
    <3>. QED  BY <1>1, <1>5, <2>2, <3>2
  <2>. QED  BY <1>1, <2>1, <2>2
<1>8. ASSUME NEW i \in 0 .. n + 1, \A j \in i + 1 .. n + 1 : r[j].code \notin Turns
      PROVE  longer[i] = b
  <2>1. CASE i = n + 1
    BY <1>5, <2>1
  <2>2. CASE i \in 0 .. n
    <3>1. n + 1 \in i + 1 .. n + 1 /\ \A j \in i + 1 .. n : j \in 1 .. n /\ j \in i + 1 .. n + 1
      BY <1>1, <2>2
    <3>2. d.code \notin Turns
      BY <1>1, <1>8, <3>1
    <3>3. \A j \in i + 1 .. n : q[j].code \notin Turns
      BY <1>1, <1>8, <3>1
    <3>. QED  BY <1>2, <1>3, <1>5, <2>2, <3>2, <3>3
  <2>. QED  BY <1>1, <2>1, <2>2
<1>9. Alternates(r, e, b)
  <2>. HIDE DEF n, b
  <2>. QED  BY <1>1, <1>5, <1>6, <1>7, <1>8 DEF Alternates
<1>. QED  BY <1>9 DEF r

LEMMA AlternatesTail ==
  ASSUME NEW q \in Seq(L!Datagram), q # <<>>, NEW e, NEW a \in {"on", "off"},
         Alternates(q, e, a)
  PROVE  Due(e, q[1].code) /\ Alternates(Tail(q), After(e, q[1].code), a)
<1>. DEFINE r == Tail(q)
            n == Len(r)
<1>1. /\ n \in Nat /\ Len(q) = n + 1
      /\ \A i \in 1 .. n : r[i] = q[i + 1]
  BY LoopAssumptions, L!Takes
<1>2. PICK state \in [0 .. Len(q) -> {"on", "off"}] :
        /\ state[0] = e
        /\ \A i \in 1 .. Len(q) : /\ Due(state[i - 1], q[i].code)
                                  /\ state[i] = After(state[i - 1], q[i].code)
        /\ \A i \in 0 .. Len(q) :
             (\A j \in i + 1 .. Len(q) : q[j].code \notin Turns) => state[i] = a
  BY DEF Alternates
<1>. DEFINE shorter == [i \in 0 .. n |-> state[i + 1]]
<1>. HIDE DEF r, n
<1>3. \A i \in 0 .. n : i + 1 \in 0 .. Len(q) /\ i + 1 \in 1 .. Len(q) /\ (i + 1) - 1 = i
  BY <1>1
<1>4. shorter \in [0 .. n -> {"on", "off"}] /\ \A i \in 0 .. n : shorter[i] = state[i + 1]
  BY <1>2, <1>3
<1>. HIDE DEF shorter
<1>5. Due(e, q[1].code) /\ shorter[0] = After(e, q[1].code)
  <2>1. 1 \in 1 .. Len(q) /\ 1 - 1 = 0 /\ 0 \in 0 .. n /\ 0 + 1 = 1
    BY <1>1
  <2>. QED  BY <1>2, <1>4, <2>1
<1>6. ASSUME NEW i \in 1 .. n
      PROVE  Due(shorter[i - 1], r[i].code) /\ shorter[i] = After(shorter[i - 1], r[i].code)
  <2>1. i \in 0 .. n /\ i - 1 \in 0 .. n /\ (i - 1) + 1 = i /\ (i + 1) - 1 = i /\ i + 1 \in 1 .. Len(q)
    BY <1>1
  <2>2. shorter[i] = state[i + 1] /\ shorter[i - 1] = state[i] /\ r[i] = q[i + 1]
    BY <1>1, <1>4, <2>1
  <2>3. Due(state[i], q[i + 1].code) /\ state[i + 1] = After(state[i], q[i + 1].code)
    BY <1>2, <2>1
  <2>. QED  BY <2>2, <2>3
<1>7. ASSUME NEW i \in 0 .. n, \A j \in i + 1 .. n : r[j].code \notin Turns
      PROVE  shorter[i] = a
  <2>1. ASSUME NEW k \in (i + 1) + 1 .. Len(q)  PROVE q[k].code \notin Turns
    <3>1. k - 1 \in i + 1 .. n /\ k - 1 \in 1 .. n /\ (k - 1) + 1 = k
      BY <1>1, <2>1
    <3>2. r[k - 1] = q[k]
      BY <1>1, <3>1
    <3>. QED  BY <1>7, <3>1, <3>2
  <2>2. state[i + 1] = a
    BY <1>2, <1>3, <2>1
  <2>. QED  BY <1>4, <2>2
<1>8. Alternates(r, After(e, q[1].code), a)
  BY <1>4, <1>5, <1>6, <1>7 DEF Alternates, n
<1>. QED  BY <1>5, <1>8 DEF r

(* The command d comes into one of the queues.                             *)
LEMMA InLineAppend ==
  ASSUME NEW q \in Seq(L!Datagram), NEW r \in Seq(L!Datagram), NEW d \in L!Datagram,
         NEW e \in {"on", "off"}, NEW a \in {"on", "off"}, InLine(q, r, e, a), Due(a, d.code)
  PROVE  InLine(Append(q, d), r, e, After(a, d.code))
<1>. DEFINE b == After(a, d.code)
            p == Append(q, d)
<1>1. p \in Seq(L!Datagram) /\ (Waits(p) <=> Waits(q) \/ d.code \in Turns)
  BY WaitsAppend
<1>2. Alternates(q, e, a) => Alternates(p, e, b)
  BY AlternatesAppend
<1>3. d.code \notin Turns => b = a
  BY DEF After, Turns
<1>. HIDE DEF p, b
<1>4. InLine(p, r, e, b)
  <2>1. CASE Waits(q) /\ Waits(r)
    BY <1>1, <2>1 DEF InLine
  <2>2. CASE ~Waits(r) /\ Alternates(q, e, a)
    BY <1>2, <2>2 DEF InLine
  <2>3. CASE ~Waits(q) /\ Alternates(r, e, a)
    <3>1. CASE d.code \notin Turns
      BY <1>1, <1>3, <2>3, <3>1 DEF InLine
    <3>2. CASE d.code \in Turns /\ Waits(r)
      BY <1>1, <3>2 DEF InLine
    <3>3. CASE ~Waits(r)
      <4>1. Alternates(q, e, a)
        BY <2>3, <3>3, AlternatesNone
      <4>. QED  BY <1>2, <3>3, <4>1 DEF InLine
    <3>. QED  BY <3>1, <3>2, <3>3
  <2>. QED  BY <2>1, <2>2, <2>3 DEF InLine
<1>. QED  BY <1>4 DEF p, b

(* It does not matter which socket's queue is named first. *)
LEMMA InLineSymmetric ==
  ASSUME NEW q, NEW r, NEW e, NEW a
  PROVE  InLine(q, r, e, a) <=> InLine(r, q, e, a)
BY DEF InLine

(* The command at the head of a queue is the next one if nothing waits in  *)
(* the other.                                                              *)
LEMMA InLineTake ==
  ASSUME NEW q \in Seq(L!Datagram), q # <<>>, NEW r \in Seq(L!Datagram), ~Waits(r),
         NEW e \in {"on", "off"}, NEW a \in {"on", "off"}, InLine(q, r, e, a)
  PROVE  Due(e, q[1].code) /\ InLine(Tail(q), r, After(e, q[1].code), a)
<1>1. Alternates(q, e, a)
  <2>1. ~Waits(q) /\ Alternates(r, e, a) => Alternates(q, e, a)
    BY AlternatesNone
  <2>. QED  BY <2>1 DEF InLine
<1>2. Due(e, q[1].code) /\ Alternates(Tail(q), After(e, q[1].code), a)
  BY <1>1, AlternatesTail
<1>. QED  BY <1>2 DEF InLine

(* What is neither START nor STOP may leave its queue.                     *)
LEMMA InLineDrop ==
  ASSUME NEW q \in Seq(L!Datagram), q # <<>>, q[1].code \notin Turns, NEW r,
         NEW e, NEW a \in {"on", "off"}, InLine(q, r, e, a)
  PROVE  InLine(Tail(q), r, e, a)
<1>1. Waits(Tail(q)) <=> Waits(q)
  BY WaitsTail
<1>2. Alternates(q, e, a) => Alternates(Tail(q), e, a)
  <2>1. Alternates(q, e, a) => Alternates(Tail(q), After(e, q[1].code), a)
    BY AlternatesTail
  <2>2. After(e, q[1].code) = e
    BY DEF After, Turns
  <2>. QED  BY <2>1, <2>2
<1>. QED  BY <1>1, <1>2 DEF InLine

(* As long as nothing overtakes, one socket is ready in a round, and what  *)
(* made it so is still there when it is received from.                     *)
LEMMA OneReady ==
  ASSUME L!IInv, InOrder
  PROVE  /\ L!Clean /\ refused = {} /\ L!TypeOK
         /\ at = "recv" =>
              /\ L!Visited \in L!Sock /\ ready = {L!Visited}
              /\ inbox[L!Visited] \in Seq(L!Datagram) /\ inbox[L!Visited] # <<>>
<1>1. L!Clean /\ "refused" \notin trouble /\ "both" \notin trouble
  BY DEF InOrder, L!Clean, Overtaking
<1>2. L!TypeOK /\ refused = {} /\ ready # L!Sock
  BY <1>1 DEF L!IInv, L!StillReadable, L!FirstVisit
<1>3. ASSUME at = "recv"
      PROVE  /\ L!Visited \in L!Sock /\ ready = {L!Visited}
             /\ inbox[L!Visited] \in Seq(L!Datagram) /\ inbox[L!Visited] # <<>>
  <2>1. ready \in SUBSET L!Sock /\ ready # {}
    BY <1>3 DEF L!IInv, L!TypeOK, L!Stage
  <2>2. L!Visited \in ready
    BY <2>1, LoopAssumptions, L!Least DEF L!Visited, L!LeastOf
  <2>3. ready = {L!Visited}
    <3>1. 0 \notin ready \/ 1 \notin ready
      BY <1>2, <2>1 DEF L!Sock
    <3>2. ready \subseteq {0, 1}
      BY <2>1 DEF L!Sock
    <3>. QED  BY <2>2, <3>1, <3>2
  <2>4. L!Readable(L!Visited)
    BY <1>1, <1>3, <2>2 DEF L!IInv, L!StillReadable, L!ToReceive
  <2>. QED  BY <1>2, <2>1, <2>2, <2>3, <2>4 DEF L!Readable, L!TypeOK
<1>. QED  BY <1>1, <1>2, <1>3

(* What is waiting and what the preview is have their types. *)
LEMMA RestType ==
  ASSUME L!IInv, InOrder, NEW s \in L!Sock
  PROVE  Rest(s) \in Seq(L!Datagram) /\ Now \in {"on", "off"} /\ After(Now, Current) \in {"on", "off"}
<1>1. inbox[s] \in Seq(L!Datagram)
  BY OneReady DEF L!TypeOK
<1>2. Rest(s) \in Seq(L!Datagram)
  BY <1>1, OneReady, HeadTailProperties DEF Rest
<1>3. Now \in {"on", "off"}
  BY DEF Now
<1>. QED  BY <1>2, <1>3 DEF After

(* A step that leaves the queues and the preview alone. *)
LEMMA LinedKept ==
  ASSUME Lined, UNCHANGED <<inbox, asked>>, Runs' <=> Runs,
         UNCHANGED <<at, ready>> \/ (at # "recv" /\ at' # "recv")
  PROVE  Lined'
<1>1. Now' = Now
  BY DEF Now
<1>2. CASE UNCHANGED <<at, ready>>
  <2>1. L!Visited' = L!Visited
    BY <1>2 DEF L!Visited
  <2>2. Current' = Current /\ Rest(0)' = Rest(0) /\ Rest(1)' = Rest(1)
    BY <1>2, <2>1 DEF Current, Rest
  <2>. QED  BY <1>1, <2>2 DEF Lined
<1>3. CASE at # "recv" /\ at' # "recv"
  <2>1. Current' = Current /\ Rest(0)' = Rest(0) /\ Rest(1)' = Rest(1)
    BY <1>3 DEF Current, Rest
  <2>. QED  BY <1>1, <2>1 DEF Lined
<1>. QED  BY <1>2, <1>3

(* The master sends d, to socket s. *)
LEMMA LinedSend ==
  ASSUME L!IInv, InOrder, Lined, asked \in {"on", "off"}, UNCHANGED <<at, ready>>, Runs' <=> Runs,
         NEW s \in L!Sock, NEW d \in L!Datagram, inbox' = [inbox EXCEPT ![s] = Append(@, d)],
         Due(asked, d.code), asked' = After(asked, d.code)
  PROVE  Lined'
<1>. DEFINE v == L!Visited
<1>1. /\ v' = v
      /\ at = "recv" => v \in L!Sock /\ inbox[v] \in Seq(L!Datagram) /\ inbox[v] # <<>>
      /\ inbox \in [L!Sock -> Seq(L!Datagram)]
  BY OneReady DEF L!Visited, L!TypeOK
<1>2. inbox'[s] = Append(inbox[s], d) /\ \A r \in L!Sock : r # s => inbox'[r] = inbox[r]
  BY <1>1
<1>3. Current' = Current
  <2>1. CASE at = "recv" /\ s = v
    <3>1. /\ Len(inbox[v]) \in Nat \ {0}
          /\ \A i \in 1 .. Len(inbox[v]) : Append(inbox[v], d)[i] = inbox[v][i]
      BY <1>1, <2>1, AppendProperties, LoopAssumptions, L!Takes
    <3>2. 1 \in 1 .. Len(inbox[v])
      BY <3>1
    <3>3. inbox'[v][1] = inbox[v][1]
      BY <1>2, <2>1, <3>1, <3>2
    <3>. QED  BY <1>1, <2>1, <3>3 DEF Current
  <2>2. CASE at = "recv" /\ s # v
    BY <1>1, <1>2, <2>2 DEF Current
  <2>3. CASE at # "recv"
    BY <2>3 DEF Current
  <2>. QED  BY <2>1, <2>2, <2>3
<1>4. at = "recv" /\ s = v => Tail(inbox'[s]) = Append(Tail(inbox[s]), d)
  BY <1>1, <1>2, HeadTailAppend
<1>5. /\ s = 0 => Rest(0)' = Append(Rest(0), d) /\ Rest(1)' = Rest(1)
      /\ s = 1 => Rest(1)' = Append(Rest(1), d) /\ Rest(0)' = Rest(0)
  <2>1. 0 \in L!Sock /\ 1 \in L!Sock
    BY DEF L!Sock
  <2>2. CASE s = 0
    BY <1>1, <1>2, <1>4, <2>1, <2>2 DEF Rest
  <2>3. CASE s = 1
    BY <1>1, <1>2, <1>4, <2>1, <2>3 DEF Rest
  <2>. QED  BY <2>2, <2>3
<1>6. Now' = Now
  BY DEF Now
<1>. DEFINE e == After(Now, Current)
<1>7. InLine(Rest(0), Rest(1), e, asked) /\ e \in {"on", "off"} /\ e' = e
  BY <1>3, <1>6, RestType DEF Lined, L!Sock
<1>8. Rest(0) \in Seq(L!Datagram) /\ Rest(1) \in Seq(L!Datagram)
  BY RestType DEF L!Sock
<1>. HIDE DEF e
<1>9. CASE s = 0
  <2>1. InLine(Append(Rest(0), d), Rest(1), e, After(asked, d.code))
    BY <1>7, <1>8, InLineAppend
  <2>2. InLine(Rest(0)', Rest(1)', e', asked')
    BY <1>5, <1>7, <1>9, <2>1
  <2>. QED  BY <1>3, <1>6, <2>2 DEF Lined, e
<1>10. CASE s = 1
  <2>1. InLine(Append(Rest(1), d), Rest(0), e, After(asked, d.code))
    <3>1. InLine(Rest(1), Rest(0), e, asked)
      BY <1>7, InLineSymmetric
    <3>. QED  BY <1>7, <1>8, <3>1, InLineAppend
  <2>2. InLine(Rest(0), Append(Rest(1), d), e, After(asked, d.code))
    BY <2>1, InLineSymmetric
  <2>3. InLine(Rest(0)', Rest(1)', e', asked')
    BY <1>5, <1>7, <1>10, <2>2
  <2>. QED  BY <1>3, <1>6, <2>3 DEF Lined, e
<1>. QED  BY <1>9, <1>10 DEF L!Sock

(* A round begins: the head of the only queue that is not empty is what    *)
(* comes next.                                                             *)
LEMMA LinedSelect ==
  ASSUME L!IInv, InOrder, InOrder', Lined, asked \in {"on", "off"}, UNCHANGED asked,
         Runs' <=> Runs, L!Select
  PROVE  Lined'
<1>. DEFINE v == L!Visited'
<1>1. /\ L!TypeOK /\ refused = {} /\ at = "select" /\ at' = "recv" /\ UNCHANGED inbox
      /\ ready' = {s \in L!Sock : L!Readable(s)} /\ ready' # {}
      /\ trouble' = trouble \cup (IF L!Cardinality(ready') > 1 THEN {"both"} ELSE {})
  BY OneReady DEF L!Select, L!set_sock_listeners
<1>2. /\ inbox \in [L!Sock -> Seq(L!Datagram)]
      /\ ready' = {s \in L!Sock : inbox[s] # <<>>}
  BY <1>1 DEF L!Readable, L!TypeOK
<1>3. v \in ready'
  <2>1. ready' \in SUBSET L!Sock /\ ready' # {}
    BY <1>1
  <2>2. L!LeastOf(ready') \in ready'
    BY <2>1, LoopAssumptions, L!Least
  <2>. QED  BY <2>2 DEF L!Visited, L!LeastOf
<1>4. ready' # L!Sock
  <2>1. "both" \notin trouble'
    BY DEF InOrder, Overtaking
  <2>2. L!Cardinality(L!Sock) = 2
    BY LoopAssumptions, L!SockCardinality
  <2>. QED  BY <1>1, <2>1, <2>2
<1>5. Now' = Now /\ Now \in {"on", "off"} /\ After(Now, "none") = Now
  BY DEF Now, After
<1>6. InLine(inbox[0], inbox[1], Now, asked)
  BY <1>1, <1>5 DEF Lined, Rest, Current
<1>. HIDE DEF v
<1>7. v \in L!Sock /\ inbox[v] # <<>> /\ inbox[v] \in Seq(L!Datagram)
  BY <1>2, <1>3
<1>8. Current' = inbox[v][1].code
  BY <1>1 DEF Current, v
<1>9. ASSUME NEW r \in L!Sock, r # v  PROVE ~Waits(inbox[r]) /\ inbox[r] \in Seq(L!Datagram)
  <2>1. inbox[r] = <<>>
    BY <1>2, <1>4, <1>7, <1>9 DEF L!Sock
  <2>. QED  BY <2>1 DEF Waits
<1>10. CASE v = 0
  <2>1. /\ ~Waits(inbox[1]) /\ inbox[1] \in Seq(L!Datagram)
        /\ inbox[0] # <<>> /\ inbox[0] \in Seq(L!Datagram)
    BY <1>7, <1>9, <1>10 DEF L!Sock
  <2>2. /\ Due(Now, inbox[0][1].code)
        /\ InLine(Tail(inbox[0]), inbox[1], After(Now, inbox[0][1].code), asked)
    BY <1>5, <1>6, <2>1, InLineTake
  <2>3. Rest(0)' = Tail(inbox[0]) /\ Rest(1)' = inbox[1] /\ Current' = inbox[0][1].code
    BY <1>1, <1>8, <1>10 DEF Rest, v
  <2>. QED  BY <1>5, <2>2, <2>3 DEF Lined
<1>11. CASE v = 1
  <2>1. /\ ~Waits(inbox[0]) /\ inbox[0] \in Seq(L!Datagram)
        /\ inbox[1] # <<>> /\ inbox[1] \in Seq(L!Datagram)
    BY <1>7, <1>9, <1>11 DEF L!Sock
  <2>2. InLine(inbox[1], inbox[0], Now, asked)
    BY <1>6, InLineSymmetric
  <2>3. /\ Due(Now, inbox[1][1].code)
        /\ InLine(Tail(inbox[1]), inbox[0], After(Now, inbox[1][1].code), asked)
    BY <1>5, <2>1, <2>2, InLineTake
  <2>4. InLine(inbox[0], Tail(inbox[1]), After(Now, inbox[1][1].code), asked)
    BY <2>3, InLineSymmetric
  <2>5. Rest(1)' = Tail(inbox[1]) /\ Rest(0)' = inbox[0] /\ Current' = inbox[1][1].code
    BY <1>1, <1>8, <1>11 DEF Rest, v
  <2>. QED  BY <1>5, <2>3, <2>4, <2>5 DEF Lined
<1>. QED  BY <1>7, <1>10, <1>11 DEF L!Sock

(* The command that was next is executed. *)
LEMMA LinedRecv ==
  ASSUME P!IInv, Named, L!IInv, L!PlainTraffic, L!Framed, InOrder, Lined, misuse = {}, misuse' = {},
         [Next]_vars, L!Clean', Main, L!Recv
  PROVE  Lined'
<1>. DEFINE v == L!Visited
<1>1. refused = {} /\ L!TypeOK /\ ready = {v} /\ v \in L!Sock /\ at = "recv"
  BY OneReady, RecvCommand
<1>2. /\ L!Receives(v) /\ msg'.code = inbox[v][1].code
      /\ L!Visit(v) \/ at' = "setting"
  BY <1>1, RecvCommand
<1>3. at' # "recv"
  BY <1>1, <1>2 DEF L!Visit
<1>4. inbox'[v] = Tail(inbox[v]) /\ \A r \in L!Sock : r # v => inbox'[r] = inbox[r]
  BY <1>1, <1>2, LoopAssumptions, L!Leaves
<1>5. Current = msg'.code /\ Current' = "none"
  BY <1>1, <1>2, <1>3 DEF Current
<1>6. Rest(0)' = Rest(0) /\ Rest(1)' = Rest(1)
  <2>1. 0 \in L!Sock /\ 1 \in L!Sock
    BY DEF L!Sock
  <2>2. CASE v = 0
    BY <1>1, <1>3, <1>4, <2>1, <2>2 DEF Rest
  <2>3. CASE v = 1
    BY <1>1, <1>3, <1>4, <2>1, <2>3 DEF Rest
  <2>. QED  BY <1>1, <2>2, <2>3 DEF L!Sock
<1>7. /\ msg'.code = "START_PREVIEW" => P!do_preview_start
      /\ msg'.code = "STOP_PREVIEW"  => P!do_preview_stop
      /\ msg'.code = "TAKE_PHOTO"    => P!do_takephoto
      /\ msg'.code \notin PreviewCode => UNCHANGED previewVars
  BY Calls
<1>8. Now' = After(Now, Current)
  <2>1. CASE Current = "START_PREVIEW"
    BY <1>5, <1>7, <2>1, Switches DEF Now, After
  <2>2. CASE Current = "STOP_PREVIEW"
    BY <1>5, <1>7, <2>2, Switches DEF Now, After
  <2>3. CASE Current \notin Turns
    <3>1. UNCHANGED <<where, cancelled>>
      BY <1>5, <1>7, <2>3, TakesPhoto, PreviewUnchanged DEF PreviewCode, Turns
    <3>2. UNCHANGED Runs
      BY <3>1 DEF Runs, Running
    <3>. QED  BY <2>3, <3>2 DEF Now, After, Turns
  <2>. QED  BY <2>1, <2>2, <2>3 DEF Turns
<1>9. UNCHANGED asked
  BY DEF Main
<1>10. Due(Now', "none") /\ After(Now', "none") = Now'
  BY DEF Due, After
<1>. QED  BY <1>5, <1>6, <1>8, <1>9, <1>10 DEF Lined

(* do_setting takes its payload. *)
LEMMA LinedPayload ==
  ASSUME L!IInv, L!PlainTraffic, L!Framed, InOrder, Lined, asked \in {"on", "off"}, UNCHANGED asked,
         Runs' <=> Runs, [Next]_vars, L!Clean', L!do_setting
  PROVE  Lined'
<1>1. L!Receives(0) /\ inbox[0][1] = L!Payload /\ 0 \in ready /\ L!Visited = 0
  BY TakesPayload
<1>2. L!TypeOK /\ ready \in SUBSET L!Sock /\ at = "setting" /\ ready # L!Sock
  BY DEF L!IInv, L!TypeOK, L!do_setting, L!FirstVisit, InOrder, Overtaking
<1>3. at' # "recv"
  <2>1. L!Visit(L!Visited) /\ ready # {}
    BY <1>1 DEF L!do_setting
  <2>. QED  BY <1>2, <2>1, LoopAssumptions, L!VisitEffect
<1>4. /\ inbox[0] \in Seq(L!Datagram) /\ inbox[0] # <<>>
      /\ inbox'[0] = Tail(inbox[0]) /\ inbox'[1] = inbox[1]
  BY <1>1, <1>2, LoopAssumptions, L!Leaves DEF L!Sock
<1>5. Current = "none" /\ Current' = "none" /\ After(Now, "none") = Now /\ Due(Now, "none")
  BY <1>2, <1>3 DEF Current, After, Due
<1>6. Now' = Now
  BY DEF Now
<1>7. inbox[0][1].code \notin Turns
  BY <1>1, LoopAssumptions, L!Datagrams DEF Turns
<1>8. InLine(inbox[0], inbox[1], Now, asked)
  BY <1>2, <1>5 DEF Lined, Rest
<1>9. InLine(Tail(inbox[0]), inbox[1], Now, asked)
  BY <1>4, <1>7, <1>8, InLineDrop
<1>10. Rest(0)' = Tail(inbox[0]) /\ Rest(1)' = inbox[1]
  BY <1>3, <1>4 DEF Rest
<1>. QED  BY <1>5, <1>6, <1>9, <1>10 DEF Lined

(* Order is inductive. *)
LEMMA OrderStep ==
  ASSUME TypeOK, P!IInv, Named, L!IInv, L!PlainTraffic, L!Framed, Order, [Next]_vars
  PROVE  Order'
<1>. SUFFICES ASSUME InOrder', misuse' = {}  PROVE Lined'
  BY DEF Order
<1>1. trouble \subseteq trouble' /\ InOrder /\ L!Clean'
  BY Grows DEF InOrder, L!Clean
<1>2. CASE UNCHANGED vars
  <2>1. UNCHANGED <<inbox, asked, at, ready, misuse>> /\ UNCHANGED previewVars
    BY <1>2 DEF vars, loopVars, previewVars
  <2>. QED  BY <1>1, <2>1, PreviewUnchanged, LinedKept DEF Order
<1>. SUFFICES ASSUME Next  PROVE Lined'
  BY <1>2
<1>3. misuse = {} /\ misuse' \subseteq P!Misuse /\ Lined /\ asked \in {"on", "off"}
  BY <1>1 DEF Next, Within, Order, TypeOK
<1>4. CASE Main
  <2>1. UNCHANGED asked
    BY <1>4 DEF Main
  <2>2. CASE L!Recv
    BY <1>1, <1>3, <1>4, <2>2, LinedRecv
  <2>3. CASE ~L!Recv
    <3>1. UNCHANGED previewVars
      BY <1>1, <1>4, <2>3, Calls
    <3>2. Runs' <=> Runs
      BY <3>1, PreviewUnchanged
    <3>3. CASE L!Select
      BY <1>1, <1>3, <2>1, <3>2, <3>3, LinedSelect
    <3>4. CASE L!do_setting
      BY <1>1, <1>3, <2>1, <3>2, <3>4, LinedPayload
    <3>5. CASE L!Connect \/ L!ConnectFails \/ L!msg_done_header \/ L!msg_done_payload
      <4>1. UNCHANGED inbox /\ at # "recv" /\ at' # "recv"
        BY <3>5 DEF L!Connect, L!ConnectFails, L!msg_done_header, L!msg_done_payload
      <4>. QED  BY <1>3, <2>1, <3>2, <4>1, LinedKept
    <3>. QED  BY <1>4, <2>3, <3>3, <3>4, <3>5 DEF Main, L!Main
  <2>. QED  BY <2>2, <2>3
<1>5. CASE Photo
  <2>1. UNCHANGED <<where, cancelled>> /\ UNCHANGED <<inbox, asked, at, ready>>
    BY <1>5, EndsPhoto DEF Photo, loopVars
  <2>2. Runs' <=> Runs
    BY <2>1 DEF Runs, Running
  <2>. QED  BY <1>3, <2>1, <2>2, LinedKept
<1>6. CASE Environment
  <2>0. Runs' <=> Runs
    BY <1>6, PreviewUnchanged DEF Environment
  <2>1. "lost" \notin trouble' /\ "reordered" \notin trouble' /\ "refused" \notin trouble' /\ L!TypeOK
    BY DEF InOrder, Overtaking, L!IInv
  <2>2. ASSUME NEW s \in L!Sock, NEW code \in Sent, MasterCommand(s, code)  PROVE Lined'
    <3>. DEFINE d == L!Header(code)
    <3>1. code \in L!Code
      OBVIOUS
    <3>2. d \in L!Datagram /\ d.code = code
      BY <3>1, LoopAssumptions, L!Datagrams
    <3>3. PICK b : L!Transmit(s, d, b)
      BY <2>2 DEF MasterCommand, L!Command
    <3>. HIDE DEF d
    <3>4. inbox' = [inbox EXCEPT ![s] = Append(@, d)]
      BY <2>1, <3>3 DEF L!Transmit
    <3>5. UNCHANGED <<at, ready>>
      BY <3>3 DEF L!Transmit
    <3>6. Due(asked, d.code) /\ asked' = After(asked, d.code)
      BY <2>2, <3>2 DEF MasterCommand, InTurn, Due, After
    <3>. QED  BY <1>1, <1>3, <2>0, <3>2, <3>4, <3>5, <3>6, LinedSend
  <2>3. CASE MasterPayload
    <3>. DEFINE d == L!Payload
    <3>1. d \in L!Datagram /\ d.code = "none"
      BY LoopAssumptions, L!Datagrams
    <3>. HIDE DEF d
    <3>2. owes \in L!Sock /\ L!Transmit(owes, d, {}) /\ UNCHANGED asked
      BY <2>1, <2>3 DEF MasterPayload, L!SendPayload, L!TypeOK, d
    <3>3. inbox' = [inbox EXCEPT ![owes] = Append(@, d)]
      BY <2>1, <3>2 DEF L!Transmit
    <3>4. UNCHANGED <<at, ready>>
      BY <3>2 DEF L!Transmit
    <3>5. Due(asked, d.code) /\ asked' = After(asked, d.code)
      BY <3>1, <3>2 DEF Due, After
    <3>. QED  BY <1>1, <1>3, <2>0, <3>1, <3>2, <3>3, <3>4, <3>5, LinedSend
  <2>4. ASSUME NEW s \in L!Sock, L!Refuse(s)  PROVE FALSE
    BY <2>1, <2>4 DEF L!Refuse
  <2>. QED  BY <1>6, <2>2, <2>3, <2>4 DEF Environment
<1>7. ASSUME NEW t \in Thread, Step(t)  PROVE Lined'
  <2>1. P!Step(t)
    BY <1>3, <1>7 DEF Step, SendHeader, SendPayload, P!Step, P!Misuse
  <2>2. UNCHANGED <<inbox, at, ready>> /\ UNCHANGED asked
    BY <1>7 DEF Step, SendHeader, SendPayload, NotSent, IsSent, L!SendFrame, loopVars
  <2>3. Runs' <=> Runs
    BY <1>3, <2>1, ThreadStays
  <2>. QED  BY <1>3, <2>2, <2>3, LinedKept
<1>. QED  BY <1>4, <1>5, <1>6, <1>7 DEF Next, Within

LEMMA OrderInvariance == Spec => []Order
<1>1. Init => Order
  <2>. SUFFICES ASSUME Init  PROVE Lined
    BY DEF Order
  <2>1. inbox = [s \in L!Sock |-> <<>>] /\ at = "connect" /\ asked = "off"
    BY DEF Init, L!Init
  <2>2. inbox[0] = <<>> /\ inbox[1] = <<>> /\ <<>> \in Seq(L!Datagram)
    BY <2>1 DEF L!Sock
  <2>3. ~Runs
    BY DEF Init, P!Init, Runs, Running, P!SetUp, P!Loop
  <2>4. Current = "none" /\ Rest(0) = <<>> /\ Rest(1) = <<>> /\ Now = "off"
    BY <2>1, <2>2, <2>3 DEF Current, Rest, Now
  <2>5. ~Waits(<<>>)
    BY DEF Waits
  <2>6. Alternates(<<>>, "off", "off")
    BY <2>2, <2>5, AlternatesNone
  <2>7. Due("off", "none") /\ After("off", "none") = "off"
    BY DEF Due, After
  <2>. QED  BY <2>1, <2>4, <2>5, <2>6, <2>7 DEF Lined, InLine
<1>. QED  BY <1>1, OrderStep, TypeCorrect, NamedInvariance, Traffic, PartsIInv, PTL DEF Spec

(* With nothing in the air the last command executed is the last one       *)
(* sent.                                                                   *)
LEMMA SettledAgrees ==
  ASSUME TypeOK, L!IInv, Patience, Order
  PROVE  Agrees
<1>. SUFFICES ASSUME Settled, misuse = {}, L!Clean, "lost" \notin trouble,
                     patient \/ InOrder
              PROVE  asked = "on" <=> \E t \in Thread : where[t] \in P!Loop
  BY DEF Agrees, L!Clean, InOrder
<1>1. /\ at = "select" /\ \A s \in L!Sock : ~Pending(s)
      /\ \A t \in Thread : P!Alive(t) => where[t] \in P!Loop /\ t \notin cancelled
  BY DEF Settled
<1>2. Runs <=> \E t \in Thread : where[t] \in P!Loop
  BY <1>1 DEF Runs, Running, P!Alive
<1>3. CASE patient
  <2>1. NoneFlying
    BY <1>1 DEF Pending, NoneFlying, Flying
  <2>. QED  BY <1>2, <1>3, <2>1 DEF Patience
<1>4. CASE InOrder
  <2>1. Lined /\ asked \in {"on", "off"} /\ L!TypeOK
    BY <1>4 DEF Order, TypeOK
  <2>2. inbox[0] \in Seq(L!Datagram) /\ inbox[1] \in Seq(L!Datagram)
    BY <2>1 DEF L!TypeOK, L!Sock
  <2>3. ~Waits(inbox[0]) /\ ~Waits(inbox[1])
    BY <1>1 DEF Pending, Waits, L!Sock, Turns, PreviewCode
  <2>4. InLine(inbox[0], inbox[1], Now, asked)
    BY <1>1, <2>1 DEF Lined, Current, Rest, After
  <2>5. Now = asked
    BY <2>1, <2>2, <2>3, <2>4, AlternatesNone DEF InLine
  <2>. QED  BY <1>2, <2>5 DEF Now
<1>. QED  BY <1>3, <1>4

(* Once everything has settled the preview runs if and only if the master  *)
(* has asked for it: behind a patient master unless a datagram was lost,   *)
(* behind any other unless one command may have overtaken another.         *)
THEOREM Agreement == Spec => []Agrees
BY SettledAgrees, OrderInvariance, PatienceInvariance, TypeCorrect, PartsIInv, PTL

(* A START that leaves the front of the queue in its turn finds no         *)
(* preview but stopped ones.                                               *)
LEMMA StartsStep ==
  ASSUME P!IInv, Named, L!IInv, L!PlainTraffic, L!Framed, Order, [Next]_vars,
         NEW t \in Thread, where[t] = "new", where'[t] # "new", InOrder
  PROVE  {u \in Thread : P!Alive(u)} \subseteq cancelled
<1>1. Next /\ misuse = {} /\ misuse' \subseteq P!Misuse
  BY DEF vars, previewVars, Next, Within
<1>2. Main
  <2>1. CASE Photo \/ Environment
    BY <2>1, EndsPhoto DEF Photo, Environment, previewVars
  <2>2. ASSUME NEW u \in Thread, Step(u)  PROVE FALSE
    <3>1. P!Step(u)
      BY <1>1, <2>2 DEF Step, SendHeader, SendPayload, P!Step, P!Misuse
    <3>2. /\ \A w \in Thread : w # u => where'[w] = where[w]
          /\ where[u] \in P!SetUp \cup P!Loop \cup P!Cleanup
      BY <1>1, <3>1, ThreadMoves
    <3>. QED  BY <3>2, Labels
  <2>. QED  BY <1>1, <2>1, <2>2 DEF Next, Within
<1>3. Executes("START_PREVIEW") /\ P!do_preview_start
  <2>1. P!do_preview_stop \/ P!do_takephoto \/ UNCHANGED previewVars => UNCHANGED where
    BY <1>1, Stops, TakesPhoto DEF previewVars
  <2>. QED  BY <1>2, <2>1 DEF Main, Command
<1>4. L!Recv
  BY <1>2, <1>3, LoopAssumptions, L!OtherSteps DEF Main, L!Main, L!do_setting, Executes
<1>5. L!Clean'
  <2>1. PICK m \in L!Message : L!Receiving(L!Visited, m)
    BY <1>4, LoopAssumptions, L!Recvs
  <2>2. trouble' = trouble
    BY <1>3, <2>1 DEF L!Receiving, Executes
  <2>. QED  BY <2>2 DEF InOrder, L!Clean
<1>6. Current = "START_PREVIEW"
  BY <1>3, <1>4, <1>5, RecvCommand, OneReady DEF Current, Executes
<1>7. ~Runs
  BY <1>1, <1>6 DEF Order, Lined, Due, Now
<1>8. \A u \in Thread : P!Alive(u) => u \in cancelled
  BY <1>1, <1>7 DEF Runs, Running, P!Alive, Named
<1>. QED  BY <1>8

(* Every START that is executed finds all live previews told to stop, even *)
(* if the master does not wait, unless a command was lost or mistaken, or  *)
(* one may have overtaken another.                                         *)
THEOREM Turn == Spec => StartsInTurn
<1>. DEFINE OnlyInTurn == \A t \in Thread :
       where[t] = "new" /\ where'[t] # "new" =>
         \/ {u \in Thread : P!Alive(u)} \subseteq cancelled
         \/ trouble \cap (Overtaking \cup {"lost"} \cup L!Garbling) # {}
<1>1. /\ P!IInv /\ L!IInv /\ Named /\ L!PlainTraffic /\ L!Framed /\ Order /\ [Next]_vars
      => [OnlyInTurn]_vars
  BY StartsStep DEF InOrder
<1>. QED
  BY <1>1, OrderInvariance, NamedInvariance, Traffic, PartsIInv, PTL DEF Spec, StartsInTurn

=============================================================================
