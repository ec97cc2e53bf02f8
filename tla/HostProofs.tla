----------------------------- MODULE HostProofs ------------------------------
(***************************************************************************)
(* The safety properties of the programs on the host, for every value of   *)
(* the constants: what the NDI sender holds and lets go, what a recording  *)
(* has on disk and calls complete, and what the calibrations of the pose   *)
(* and of the Hall sensor's mount commit and put in use.                   *)
(***************************************************************************)
EXTENDS Capture, NdiSender, PoseCalibration, HallExtrinsic, SequenceTheorems, TLAPS

-----------------------------------------------------------------------------
(* NdiSender: ReleasedInOrder for every set of scenes and length of the    *)
(* detection.  Where the main thread is tells what it holds; a frame is on *)
(* its way only while the stream is on, which is while it waits.           *)

Acquiring == {"init", "find", "open", "parameters", "register", "library"}

Held ==
  /\ doing \in Acquiring => libraries = 0 /\ ~sender
  /\ doing = "sender" => libraries = 1 /\ ~sender
  /\ doing \in {"start", "run", "shutdown"} => libraries = 1 /\ sender
  /\ doing \in {"release", "destroySender"} => libraries <= 1 /\ (sender => libraries = 1)
  /\ doing \in {"destroyCapture", "gone"} => libraries <= 0 /\ ~sender

DeviceHeld ==
  /\ m_camera = "open" => sdk_ready
  /\ doing = "init" => ~sdk_ready /\ m_camera = "none"
  /\ doing \in {"find", "open"} => sdk_ready
  /\ doing \in {"parameters", "register", "library", "sender", "start", "run"} =>
       m_camera = "open" /\ sdk_ready
  /\ doing = "gone" => m_camera = "none" /\ ~sdk_ready

SendsInRun ==
  /\ streaming => doing = "run"
  /\ sends # <<>> => streaming
  /\ in_library => sends # <<>>

NdiInv ==
  /\ program \in {"cpp", "python"}
  /\ doing \in Acquiring \cup {"sender", "start", "run", "shutdown", "release",
                               "destroySender", "destroyCapture", "gone"}
  /\ doing = "release" => program = "python"
  /\ doing \in {"shutdown", "destroySender", "destroyCapture"} => program = "cpp"
  /\ libraries \in Int
  /\ Held /\ DeviceHeld /\ SendsInRun

\* Initially nothing is held.
LEMMA NdiInitInv == NdiInit => NdiInv
BY DEF NdiInit, NothingHeld, NdiInv, Held, DeviceHeld, SendsInRun, Acquiring

\* An action of the main thread that acquires something, or fails to.
LEMMA AcquiringKeepsInv ==
  ASSUME NdiInv,
         \/ initSdk \/ findCamera \/ openCamera \/ readParameters \/ registerCallback
         \/ initLibrary \/ createSender \/ startNdiStream
  PROVE  NdiInv'
<1> USE DEF NdiInv, Held, DeviceHeld, SendsInRun, Acquiring, WayOut, deviceState, ndiState, frameState, rangeState
<1>1. CASE initSdk
  BY <1>1 DEF initSdk
<1>2. CASE findCamera
  BY <1>2 DEF findCamera
<1>3. CASE openCamera
  BY <1>3 DEF openCamera
<1>4. CASE readParameters
  BY <1>4 DEF readParameters
<1>5. CASE registerCallback
  BY <1>5 DEF registerCallback
<1>6. CASE initLibrary
  BY <1>6 DEF initLibrary
<1>7. CASE createSender
  BY <1>7 DEF createSender
<1>8. CASE startNdiStream
  BY <1>8 DEF startNdiStream
<1> QED
  BY <1>1, <1>2, <1>3, <1>4, <1>5, <1>6, <1>7, <1>8

\* One that releases something, or the signal.
LEMMA ReleasingKeepsInv ==
  ASSUME NdiInv, signalHandler \/ stopNdiStream \/ shutdown \/ destroyCapture \/ release
  PROVE  NdiInv'
<1> USE DEF NdiInv, Held, DeviceHeld, SendsInRun, Acquiring, deviceState, ndiState, frameState, rangeState
<1>1. CASE signalHandler
  BY <1>1 DEF signalHandler
<1>2. CASE stopNdiStream
  BY <1>2 DEF stopNdiStream, StopsStream
<1>3. CASE shutdown
  BY <1>3 DEF shutdown
<1>4. CASE destroyCapture
  BY <1>4 DEF destroyCapture, CloseCamera
<1>5. CASE release
  BY <1>5 DEF release, CloseCamera
<1> QED
  BY <1>1, <1>2, <1>3, <1>4, <1>5

\* One of the SDK's thread.
LEMMA SendingKeepsInv ==
  ASSUME NdiInv, processFrame \/ beginDepth \/ beginSend \/ endSend
  PROVE  NdiInv'
<1> USE DEF NdiInv, Held, DeviceHeld, SendsInRun, Acquiring, deviceState, ndiState, rangeState
<1>1. CASE processFrame
  BY <1>1 DEF processFrame, Parts
<1>2. CASE beginDepth
  BY <1>2 DEF beginDepth, EntersLibrary
<1>3. CASE beginSend
  BY <1>3 DEF beginSend, EntersLibrary
<1>4. CASE endSend
  BY <1>4 DEF endSend
<1> QED
  BY <1>1, <1>2, <1>3, <1>4

\* The inductive invariant gives the property.
LEMMA InvGivesOrder == NdiInv => ReleasedInOrder
BY DEF NdiInv, Held, DeviceHeld, SendsInRun, Acquiring, ReleasedInOrder

\* Whatever fails and whenever the signal comes (HP60CCapture.cpp, NDISender.cpp
\* and hp60c_ndi_sender.py): the NDI library is called only while there is a
\* sender, and nothing is left behind.
THEOREM NothingLeftBehind == NdiSpec => []ReleasedInOrder
<1>1. NdiInv /\ [NdiNext]_ndiVars => NdiInv'
  <2> SUFFICES ASSUME NdiInv, [NdiNext]_ndiVars PROVE NdiInv'
    OBVIOUS
  <2>1. CASE UNCHANGED ndiVars
    BY <2>1 DEF ndiVars, deviceState, ndiState, frameState, rangeState,
                NdiInv, Held, DeviceHeld, SendsInRun
  <2>2. CASE NdiNext
    BY <2>2, AcquiringKeepsInv, ReleasingKeepsInv, SendingKeepsInv DEF NdiNext
  <2> QED
    BY <2>1, <2>2
<1> QED
  BY NdiInitInv, <1>1, InvGivesOrder, PTL DEF NdiSpec

-----------------------------------------------------------------------------
(* Capture: EvidenceIsWhole and CompleteMeansComplete, for every size of    *)
(* the queues, every number of frames, samples and failures.               *)

Busy     == {"rgb", "depth", "meta", "track"}
Draining == {"mask", "annotation"}

RecorderType ==
  /\ DOMAIN recorder = {"at", "frame", "recent", "left"}
  /\ recorder.at \in {"loop", "ended"} \cup Busy \cup Draining
  /\ recorder.frame \in Nat
  /\ DOMAIN job = {"state", "clip", "masked"}
  /\ DOMAIN disk = {"rgb", "depth", "meta", "masks", "annotations", "signal"}

\* What the recorder has written of what it is at.
WrittenInv ==
  /\ recorder.at \in {"depth", "meta"} => recorder.frame \in disk.rgb
  /\ recorder.at = "meta" => recorder.frame \in disk.depth
  /\ recorder.at = "track" => recorder.frame \in disk.meta
  /\ recorder.at \in Draining => job.state = "done"
  /\ recorder.at = "annotation" => <<Head(recorder.left), Head(job.clip)>> \in disk.masks

\* The frames under way.
StreamType ==
  /\ DOMAIN camera = {"running", "made", "last", "broken", "frames"}
  /\ camera.made \in Nat /\ camera.frames \in Seq(Nat)
  /\ DOMAIN capture = {"at", "status", "taken", "stop", "fatal"}
  /\ capture.taken \in Nat
  /\ DOMAIN vision = {"ingest", "received", "unfinished", "stop", "fatal"}
  /\ vision.ingest \in Seq(Nat) /\ vision.received \in Seq(Nat)

EvidenceInv == RecorderType /\ StreamType /\ WrittenInv /\ EvidenceIsWhole

LEMMA CaptureConstants ==
  /\ CameraQueue \in Nat /\ IngestQueue \in Nat /\ BrushQueue \in Nat /\ BrushQueue > 0
  /\ WarmUp \in Nat
BY CaptureAssumption

\* Every action but those of the recorder leaves what it works with alone.
LEMMA OthersKeepEvidence ==
  ASSUME EvidenceInv, UNCHANGED <<recorder, job>>,
         DOMAIN disk' = DOMAIN disk,
         \A where \in {"rgb", "depth", "meta", "masks", "annotations"} : disk'[where] = disk[where],
         StreamType'
  PROVE  EvidenceInv'
<1>1. /\ disk'.rgb = disk.rgb /\ disk'.depth = disk.depth /\ disk'.meta = disk.meta
      /\ disk'.masks = disk.masks /\ disk'.annotations = disk.annotations
  OBVIOUS
<1>2. RecorderType' /\ WrittenInv'
  BY <1>1 DEF EvidenceInv, RecorderType, WrittenInv
<1>3. EvidenceIsWhole'
  BY <1>1 DEF EvidenceInv, EvidenceIsWhole
<1> QED
  BY <1>2, <1>3 DEF EvidenceInv

LEMMA CallbackType ==
  ASSUME StreamType, NEW id \in Nat, callback(id), UNCHANGED <<capture, vision>>
  PROVE  StreamType'
<1>1. CASE Len(camera.frames) < CameraQueue
  <2>1. camera' = [camera EXCEPT !.made = id, !.last = id, !.broken = @ \/ id <= camera.last,
                                 !.frames = Append(@, id)]
    BY <1>1 DEF callback
  <2>2. Append(camera.frames, id) \in Seq(Nat)
    BY AppendProperties DEF StreamType
  <2> QED
    BY <2>1, <2>2 DEF StreamType
<1>2. CASE ~(Len(camera.frames) < CameraQueue)
  BY <1>2 DEF callback, StreamType
<1> QED
  BY <1>1, <1>2

LEMMA CameraEvidence ==
  ASSUME EvidenceInv, frameArrives \/ frameIsAmiss \/ frameIsBroken
  PROVE  EvidenceInv'
<1>1. /\ UNCHANGED <<capture, vision, recorder, job, disk>>
      /\ camera.made \in Nat /\ StreamType
  BY DEF frameArrives, frameIsAmiss, frameIsBroken, EvidenceInv, StreamType
<1>2. CASE frameArrives
  BY <1>1, <1>2, CallbackType, OthersKeepEvidence DEF frameArrives
<1>3. CASE frameIsAmiss
  BY <1>1, <1>3, CallbackType, OthersKeepEvidence DEF frameIsAmiss
<1>4. CASE frameIsBroken
  <2>1. StreamType'
    BY <1>1, <1>4 DEF frameIsBroken, StreamType
  <2> QED
    BY <1>1, <2>1, OthersKeepEvidence
<1> QED
  BY <1>2, <1>3, <1>4

\* takeFrame: what becomes of the frame.
LEMMA TakenFrame ==
  ASSUME StreamType, NEW refused \in BOOLEAN, takeFrame(refused)
  PROVE  /\ capture.at = "get" /\ camera.frames # <<>> /\ Head(camera.frames) \in Nat
         /\ camera' = [camera EXCEPT !.frames = Tail(@)] /\ Tail(camera.frames) \in Seq(Nat)
         /\ \/ /\ capture' = FailedCapture(capture) /\ UNCHANGED vision
            \/ /\ Follows(Head(camera.frames)) /\ Head(camera.frames) <= WarmUp
               /\ capture' = [capture EXCEPT !.at = "status", !.taken = Head(camera.frames)]
               /\ UNCHANGED vision
            \/ /\ capture' = FailedCapture([capture EXCEPT !.at = "status",
                                                           !.taken = Head(camera.frames)])
               /\ UNCHANGED vision
            \/ /\ Follows(Head(camera.frames)) /\ ~(Head(camera.frames) <= WarmUp)
               /\ capture' = [capture EXCEPT !.at = "status", !.taken = Head(camera.frames)]
               /\ ~vision.stop /\ admit(Head(camera.frames))
<1>1. camera.frames \in Seq(Nat) /\ camera.frames # <<>>
  BY DEF StreamType, takeFrame
<1>2. Head(camera.frames) \in Nat /\ Tail(camera.frames) \in Seq(Nat)
  BY <1>1, HeadTailProperties
<1> DEFINE id == Head(camera.frames)
           next == [capture EXCEPT !.at = "status", !.taken = id]
<1>3. CASE refused \/ ~Follows(id)
  <2>1. capture' = FailedCapture(capture) /\ UNCHANGED vision
    BY <1>3 DEF takeFrame
  <2> QED
    BY <1>1, <1>2, <2>1 DEF takeFrame
<1>4. CASE ~(refused \/ ~Follows(id)) /\ id <= WarmUp
  <2>1. capture' = next /\ UNCHANGED vision
    BY <1>4 DEF takeFrame
  <2> QED
    BY <1>1, <1>2, <1>4, <2>1 DEF takeFrame
<1>5. CASE ~(refused \/ ~Follows(id)) /\ ~(id <= WarmUp)
  <2>1. IF Admits THEN capture' = next /\ admit(id) ELSE capture' = FailedCapture(next) /\ UNCHANGED vision
    BY <1>5 DEF takeFrame
  <2> QED
    BY <1>1, <1>2, <1>5, <2>1 DEF takeFrame, Admits
<1> QED
  BY <1>3, <1>4, <1>5

LEMMA CaptureThreadType == ASSUME StreamType, CaptureThread PROVE StreamType'
<1>1. CASE readStatus \/ checkHealth \/ noFrame
  BY <1>1 DEF readStatus, checkHealth, noFrame, FailedCapture, StreamType
<1>2. ASSUME NEW r \in BOOLEAN, takeFrame(r) PROVE StreamType'
  <2>1. DOMAIN camera' = DOMAIN camera /\ camera'.made = camera.made /\ camera'.frames \in Seq(Nat)
    BY <1>2, TakenFrame DEF StreamType
  <2>2. DOMAIN capture' = DOMAIN capture /\ capture'.taken \in Nat
    BY <1>2, TakenFrame DEF StreamType, FailedCapture
  <2>3. DOMAIN vision' = DOMAIN vision /\ vision'.ingest \in Seq(Nat) /\ vision'.received \in Seq(Nat)
    <3>1. CASE UNCHANGED vision
      BY <3>1 DEF StreamType
    <3>2. CASE admit(Head(camera.frames))
      <4>1. Head(camera.frames) \in Nat
        BY <1>2, TakenFrame
      <4>2. /\ Append(vision.ingest, Head(camera.frames)) \in Seq(Nat)
            /\ Append(vision.received, Head(camera.frames)) \in Seq(Nat)
        BY <4>1, AppendProperties DEF StreamType
      <4> QED
        BY <3>2, <4>2 DEF StreamType, admit
    <3> QED
      BY <1>2, <3>1, <3>2, TakenFrame
  <2> QED
    BY <2>1, <2>2, <2>3 DEF StreamType
<1> QED
  BY <1>1, <1>2 DEF CaptureThread

\* The recorder's own steps.
LEMMA GetFrameEvidence == ASSUME EvidenceInv, getFrame PROVE EvidenceInv'
<1>1. /\ recorder' = [recorder EXCEPT !.at = "rgb", !.frame = Head(vision.ingest)]
      /\ vision' = [vision EXCEPT !.ingest = Tail(@)] /\ vision.ingest # <<>>
      /\ UNCHANGED <<camera, capture, job, disk>>
  BY DEF getFrame, recorderUnchanged
<1>2. Head(vision.ingest) \in Nat /\ Tail(vision.ingest) \in Seq(Nat)
  BY <1>1, HeadTailProperties DEF EvidenceInv, StreamType
<1>3. RecorderType' /\ WrittenInv'
  BY <1>1, <1>2 DEF EvidenceInv, RecorderType, WrittenInv, Busy, Draining
<1>4. StreamType' /\ EvidenceIsWhole'
  BY <1>1, <1>2 DEF EvidenceInv, StreamType, EvidenceIsWhole
<1> QED
  BY <1>3, <1>4 DEF EvidenceInv

LEMMA StoreEvidence == ASSUME EvidenceInv, store_raw_frame PROVE EvidenceInv'
<1>1. /\ UNCHANGED <<camera, capture, vision, job>>
      /\ \/ /\ recorder.at = "rgb" /\ recorder' = [recorder EXCEPT !.at = "depth"]
            /\ disk' = [disk EXCEPT !.rgb = @ \cup {recorder.frame}]
         \/ /\ recorder.at = "depth" /\ recorder' = [recorder EXCEPT !.at = "meta"]
            /\ disk' = [disk EXCEPT !.depth = @ \cup {recorder.frame}]
         \/ /\ recorder.at = "meta" /\ recorder' = [recorder EXCEPT !.at = "track"]
            /\ disk' = [disk EXCEPT !.meta = @ \cup {recorder.frame}]
  BY DEF store_raw_frame, write, recorderUnchanged
<1>2. RecorderType' /\ StreamType'
  BY <1>1 DEF EvidenceInv, RecorderType, StreamType, Busy, Draining
<1>3. WrittenInv'
  BY <1>1 DEF EvidenceInv, RecorderType, WrittenInv, Busy, Draining
<1>4. EvidenceIsWhole'
  BY <1>1 DEF EvidenceInv, RecorderType, WrittenInv, EvidenceIsWhole
<1> QED
  BY <1>2, <1>3, <1>4 DEF EvidenceInv

LEMMA MaskEvidence == ASSUME EvidenceInv, store_mask PROVE EvidenceInv'
<1> DEFINE id == Head(recorder.left)
           mask == <<id, Head(job.clip)>>
<1>1. /\ UNCHANGED <<camera, capture, vision, job>>
      /\ \/ /\ recorder.at = "mask" /\ id \in disk.meta
            /\ recorder' = [recorder EXCEPT !.at = "annotation"]
            /\ disk' = [disk EXCEPT !.masks = @ \cup {mask}]
         \/ /\ recorder.at = "annotation"
            /\ recorder' = [recorder EXCEPT !.at = "mask", !.left = Tail(@)]
            /\ disk' = [disk EXCEPT !.annotations = @ \cup {mask}]
  BY DEF store_mask, recorderUnchanged
<1>2. mask[1] = id
  OBVIOUS
<1>3. RecorderType' /\ StreamType'
  BY <1>1 DEF EvidenceInv, RecorderType, StreamType, Busy, Draining
<1>4. WrittenInv'
  BY <1>1 DEF EvidenceInv, RecorderType, WrittenInv, Busy, Draining
<1> HIDE DEF mask, id
<1>5. recorder.at = "annotation" => mask \in disk.masks
  BY DEF EvidenceInv, WrittenInv, mask, id
<1>6. EvidenceIsWhole'
  BY <1>1, <1>2, <1>5 DEF EvidenceInv, RecorderType, EvidenceIsWhole
<1> QED
  BY <1>3, <1>4, <1>6 DEF EvidenceInv

\* What the recorder does without writing.
LEMMA OtherStepsEvidence ==
  ASSUME EvidenceInv,
         \/ storeFails \/ startDrain \/ skipUnmasked \/ drainFails \/ endDrain \/ recorderEnds
         \/ \E s, due \in BOOLEAN : trackAndSchedule(s, due)
  PROVE  EvidenceInv'
<1>1. UNCHANGED <<camera, capture, disk>>
  BY DEF storeFails, startDrain, skipUnmasked, drainFails, endDrain, recorderEnds, trackAndSchedule,
     recorderUnchanged
<1>2. EvidenceIsWhole'
  BY <1>1 DEF EvidenceInv, EvidenceIsWhole
<1>3. StreamType'
  BY <1>1 DEF EvidenceInv, StreamType, storeFails, startDrain, skipUnmasked, drainFails, endDrain,
     recorderEnds, trackAndSchedule, recorderUnchanged
<1>4. CASE storeFails \/ startDrain \/ skipUnmasked \/ drainFails \/ endDrain \/ recorderEnds
  <2>1. RecorderType'
    BY <1>1, <1>4 DEF EvidenceInv, RecorderType, Busy, Draining, storeFails, startDrain, skipUnmasked,
       drainFails, endDrain, recorderEnds, EndedJob, NoJob
  <2>2. WrittenInv'
    BY <1>1, <1>4 DEF EvidenceInv, RecorderType, WrittenInv, Busy, Draining, storeFails, startDrain,
       skipUnmasked, drainFails, endDrain, recorderEnds, EndedJob, NoJob
  <2> QED
    BY <1>2, <1>3, <2>1, <2>2 DEF EvidenceInv
<1>5. ASSUME NEW s \in BOOLEAN, NEW due \in BOOLEAN, trackAndSchedule(s, due)
      PROVE  EvidenceInv'
  <2>1. \E recent : recorder' = [recorder EXCEPT !.at = "loop", !.recent = recent]
    BY <1>5 DEF trackAndSchedule
  <2>2. DOMAIN job' = DOMAIN job
    BY <1>5 DEF trackAndSchedule, schedule, EvidenceInv, RecorderType
  <2>3. RecorderType' /\ WrittenInv'
    BY <1>1, <2>1, <2>2 DEF EvidenceInv, RecorderType, WrittenInv, Busy, Draining
  <2> QED
    BY <1>2, <1>3, <2>3 DEF EvidenceInv
<1> QED
  BY <1>4, <1>5

LEMMA RecorderEvidence == ASSUME EvidenceInv, Recorder PROVE EvidenceInv'
BY GetFrameEvidence, StoreEvidence, MaskEvidence, OtherStepsEvidence DEF Recorder

\* The answer of SAM3 comes while the request is under way.
LEMMA AnswerEvidence == ASSUME EvidenceInv, segment_clip PROVE EvidenceInv'
<1>1. /\ UNCHANGED <<camera, capture, vision, recorder, disk>>
      /\ job.state = "asked" /\ DOMAIN job' = DOMAIN job /\ job'.clip = job.clip
  BY DEF segment_clip, EvidenceInv, RecorderType
<1>2. RecorderType' /\ StreamType' /\ EvidenceIsWhole'
  BY <1>1 DEF EvidenceInv, RecorderType, StreamType, EvidenceIsWhole
<1>3. WrittenInv'
  BY <1>1 DEF EvidenceInv, RecorderType, WrittenInv, Busy, Draining
<1> QED
  BY <1>2, <1>3 DEF EvidenceInv

LEMMA CaptureThreadEvidence == ASSUME EvidenceInv, CaptureThread PROVE EvidenceInv'
<1>1. UNCHANGED <<recorder, job, disk>>
  BY DEF CaptureThread, readStatus, checkHealth, takeFrame, noFrame, captureUnchanged
<1> QED
  BY <1>1, CaptureThreadType, OthersKeepEvidence DEF EvidenceInv

\* The log of the pen's samples is a file of its own.
LEMMA BrushEvidence == ASSUME EvidenceInv, sampleArrives \/ sampleIsAmiss \/ Pump PROVE EvidenceInv'
<1>1. UNCHANGED <<camera, capture, vision, recorder, job>>
  BY DEF sampleArrives, sampleIsAmiss, Pump, pumpSample, pumpSeesDrops, pumpEnds, pumpUnchanged
<1>2. \/ UNCHANGED disk
      \/ \E s : disk' = [disk EXCEPT !.signal = s]
  BY DEF sampleArrives, sampleIsAmiss, Pump, pumpSample, append, pumpSeesDrops, pumpEnds
<1>3. /\ DOMAIN disk' = DOMAIN disk
      /\ \A where \in {"rgb", "depth", "meta", "masks", "annotations"} : disk'[where] = disk[where]
  BY <1>2 DEF EvidenceInv, RecorderType
<1> QED
  BY <1>1, <1>3, OthersKeepEvidence DEF EvidenceInv, StreamType

LEMMA ShutdownEvidence == ASSUME EvidenceInv, stop_capture \/ Shutdown PROVE EvidenceInv'
<1>1. UNCHANGED <<recorder, job, disk>>
  BY DEF stop_capture, Shutdown, releaseBrush, request_stop, joinCapture, flushPipeline, flush,
     stopPump, joinPump, stopRecorder, flushAgain, verdict, closeUnchanged
<1>2. /\ camera' = camera \/ camera' = [camera EXCEPT !.running = FALSE]
      /\ capture' = capture \/ capture' = [capture EXCEPT !.stop = TRUE]
      /\ vision' = vision \/ vision' = [vision EXCEPT !.stop = TRUE]
  BY DEF stop_capture, Shutdown, releaseBrush, request_stop, joinCapture, flushPipeline, flush,
     stopPump, joinPump, stopRecorder, flushAgain, verdict
<1>3. StreamType'
  BY <1>2 DEF EvidenceInv, StreamType
<1> QED
  BY <1>1, <1>3, OthersKeepEvidence

LEMMA CaptureInitEvidence == CaptureInit => EvidenceInv
BY DEF CaptureInit, NothingRecorded, Sdk, SupervisorAt, NothingReceived, RecorderAt, NoEvidence, BrushLine, PumpAt, EvidenceInv, RecorderType, StreamType, WrittenInv, EvidenceIsWhole, Busy, Draining,
   NoJob

LEMMA EvidenceStep == EvidenceInv /\ [CaptureNext]_captureVars => EvidenceInv'
<1> SUFFICES ASSUME EvidenceInv, [CaptureNext]_captureVars PROVE EvidenceInv'
  OBVIOUS
<1>1. CASE UNCHANGED captureVars
  BY <1>1, OthersKeepEvidence DEF captureVars, EvidenceInv, StreamType
<1> QED
  BY <1>1, CameraEvidence, CaptureThreadEvidence, RecorderEvidence, AnswerEvidence, BrushEvidence,
     ShutdownEvidence DEF CaptureNext

LEMMA EvidenceInvHolds == CaptureSpec => []EvidenceInv
BY CaptureInitEvidence, EvidenceStep, PTL DEF CaptureSpec

\* Whatever fails and wherever the recorder stops: a frame with metadata has both
\* its files, and an annotation its mask and its frame.
THEOREM EvidenceStaysWhole == CaptureSpec => []EvidenceIsWhole
<1>1. EvidenceInv => EvidenceIsWhole
  BY DEF EvidenceInv
<1> QED
  BY <1>1, EvidenceInvHolds, PTL

-----------------------------------------------------------------------------
(* An episode that is closed without an error.                             *)

Ids(s) == {s[k] : k \in DOMAIN s}

InHand == IF recorder.at \in Busy THEN 1 ELSE 0

\* Every admitted frame is written, is queued, or is what the recorder is at.
AccountInv ==
  /\ vision.unfinished = Len(vision.ingest) + InHand
  /\ Ids(vision.ingest) \subseteq Ids(vision.received)
  /\ disk.meta \subseteq Ids(vision.received)
  /\ recorder.at \in Busy => recorder.frame \in Ids(vision.received)
  /\ ~vision.fatal => \A id \in Ids(vision.received) :
       \/ id \in disk.meta \/ id \in Ids(vision.ingest)
       \/ recorder.at \in Busy /\ id = recorder.frame

\* The frames that were admitted have no hole, and the next one follows them.
OrderInv ==
  /\ \A k \in 2..Len(vision.received) : vision.received[k] = vision.received[k - 1] + 1
  /\ capture.at # "ended" /\ vision.received # <<>> =>
       vision.received[Len(vision.received)] = capture.taken /\ capture.taken > WarmUp

\* The thread of the pen's samples ends without an error only when the port is
\* closed and its queue is empty.
PumpInv ==
  /\ DOMAIN pump = {"at", "stop", "last", "gaps", "fatal"}
  /\ DOMAIN brush = {"open", "made", "drops", "frames"}
  /\ brush.made \in Nat /\ brush.drops \in Nat /\ brush.frames \in Seq(Nat)
  /\ pump.stop /\ ~pump.fatal => ~brush.open
  /\ pump.at = "ended" /\ ~pump.fatal => brush.frames = <<>> /\ ~brush.open
  /\ brush.drops > 0 => brush.frames # <<>>

\* What close() knows at each of its steps, as long as none of them failed.
Last    == {"verdict", "complete"}
Flushed == {"flush again: job"} \cup Last
Stopped == {"flush again"} \cup Flushed
Pumped  == {"stop recorder"} \cup Stopped
Joined  == {"flush", "flush: job", "stop pump", "join pump"} \cup Pumped

EndInv ==
  /\ DOMAIN ending = {"at", "error"}
  /\ ending.at \in Joined => capture.at = "ended"
  /\ ending.at \in {"request", "join"} \cup Joined => ~brush.open
  /\ ending.at \in Pumped /\ ~ending.error => pump.at = "ended"
  /\ ending.at \in Stopped => vision.stop
  /\ ending.at \in Flushed /\ ~ending.error => vision.unfinished = 0
  /\ ending.at \in Last /\ ~ending.error => job.state = "none"
  /\ ending.at = "complete" => ~ending.error /\ ~vision.fatal /\ ~pump.fatal

CompleteInv == EvidenceInv /\ AccountInv /\ OrderInv /\ PumpInv /\ EndInv

LEMMA IdsOfAppend ==
  ASSUME NEW s \in Seq(Nat), NEW id \in Nat
  PROVE  Ids(Append(s, id)) = Ids(s) \cup {id}
<1>1. /\ Len(Append(s, id)) = Len(s) + 1 /\ Len(s) \in Nat
      /\ DOMAIN Append(s, id) = 1..(Len(s) + 1) /\ DOMAIN s = 1..Len(s)
      /\ \A k \in 1..Len(s) : Append(s, id)[k] = s[k]
      /\ Append(s, id)[Len(s) + 1] = id
  BY AppendProperties, LenProperties
<1> QED
  BY <1>1 DEF Ids

LEMMA IdsOfTail ==
  ASSUME NEW s \in Seq(Nat), s # <<>>
  PROVE  /\ Ids(s) = {Head(s)} \cup Ids(Tail(s))
         /\ Len(Tail(s)) = Len(s) - 1 /\ Len(s) \in Nat /\ Len(s) > 0
<1>1. /\ Len(s) \in Nat /\ Len(s) > 0 /\ DOMAIN s = 1..Len(s)
      /\ Tail(s) \in Seq(Nat) /\ Len(Tail(s)) = Len(s) - 1 /\ DOMAIN Tail(s) = 1..(Len(s) - 1)
      /\ \A k \in 1..(Len(s) - 1) : Tail(s)[k] = s[k + 1]
      /\ Head(s) = s[1]
  BY HeadTailProperties, LenProperties, EmptySeq
<1>2. Ids(s) \subseteq {Head(s)} \cup Ids(Tail(s))
  <2> SUFFICES ASSUME NEW k \in 1..Len(s), k # 1 PROVE s[k] \in Ids(Tail(s))
    BY <1>1 DEF Ids
  <2>1. k - 1 \in 1..(Len(s) - 1) /\ s[k] = Tail(s)[k - 1]
    BY <1>1
  <2> QED
    BY <1>1, <2>1 DEF Ids
<1>3. {Head(s)} \cup Ids(Tail(s)) \subseteq Ids(s)
  BY <1>1 DEF Ids
<1> QED
  BY <1>1, <1>2, <1>3

LEMMA AccountIsKept ==
  ASSUME AccountInv, UNCHANGED <<vision, recorder>>, disk'.meta = disk.meta
  PROVE  AccountInv'
<1>1. InHand' = InHand
  BY DEF InHand, Busy
<1>2. Ids(vision.ingest)' = Ids(vision.ingest) /\ Ids(vision.received)' = Ids(vision.received)
  BY DEF Ids
<1> QED
  BY <1>1, <1>2 DEF AccountInv, Busy

LEMMA OrderIsKept ==
  ASSUME OrderInv, vision'.received = vision.received,
         capture'.at = "ended" \/ (capture.at # "ended" /\ capture'.taken = capture.taken)
         \/ UNCHANGED capture
  PROVE  OrderInv'
BY DEF OrderInv

LEMMA CompleteIsComplete == CompleteInv => CompleteMeansComplete
<1> SUFFICES ASSUME CompleteInv, ending.at = "complete"
    PROVE  /\ disk.meta = {vision.received[k] : k \in DOMAIN vision.received}
           /\ \A k \in 2..Len(vision.received) :
                vision.received[k] = vision.received[k - 1] + 1
           /\ recorder.at \in {"loop", "ended"}
           /\ job.state = "none"
           /\ pump.at = "ended"
           /\ brush.drops = 0 /\ brush.frames = <<>>
  BY DEF CompleteMeansComplete
<1>1. /\ ~ending.error /\ ~vision.fatal /\ ~pump.fatal /\ pump.at = "ended"
      /\ vision.unfinished = 0 /\ job.state = "none"
  BY DEF CompleteInv, EndInv, Joined, Pumped, Stopped, Flushed, Last
<1>2. Len(vision.ingest) = 0 /\ recorder.at \notin Busy /\ Ids(vision.ingest) = {}
  <2>1. vision.ingest \in Seq(Nat) /\ Len(vision.ingest) \in Nat
        /\ DOMAIN vision.ingest = 1..Len(vision.ingest)
    BY LenProperties DEF CompleteInv, EvidenceInv, StreamType
  <2>2. Len(vision.ingest) + InHand = 0 /\ InHand \in {0, 1}
    BY <1>1 DEF CompleteInv, AccountInv, InHand
  <2>3. Len(vision.ingest) = 0 /\ InHand = 0
    BY <2>1, <2>2
  <2>4. recorder.at \notin Busy
    BY <2>3 DEF InHand
  <2> QED
    BY <2>1, <2>3, <2>4 DEF Ids
<1>3. disk.meta = Ids(vision.received)
  BY <1>1, <1>2 DEF CompleteInv, AccountInv
<1>4. recorder.at \in {"loop", "ended"}
  BY <1>1, <1>2 DEF CompleteInv, EvidenceInv, RecorderType, WrittenInv
<1>5. brush.drops = 0 /\ brush.frames = <<>>
  BY <1>1 DEF CompleteInv, PumpInv
<1> QED
  BY <1>1, <1>3, <1>4, <1>5 DEF CompleteInv, OrderInv, Ids

LEMMA CaptureInitComplete == CaptureInit => CompleteInv
<1> SUFFICES ASSUME CaptureInit PROVE CompleteInv
  OBVIOUS
<1>1. /\ vision.ingest = <<>> /\ vision.received = <<>> /\ vision.unfinished = 0
      /\ recorder.at = "loop" /\ disk.meta = {}
  BY DEF CaptureInit, NothingRecorded, Sdk, SupervisorAt, NothingReceived, RecorderAt, NoEvidence, BrushLine, PumpAt
<1>2. AccountInv /\ OrderInv
  BY <1>1 DEF AccountInv, OrderInv, Ids, Busy, InHand
<1>3. PumpInv
  <2>1. /\ brush = [open |-> "brush" \in uses, made |-> 0, drops |-> 0, frames |-> <<>>]
        /\ pump = [at |-> IF "brush" \in uses THEN "loop" ELSE "ended", stop |-> FALSE,
                   last |-> 0, gaps |-> 0, fatal |-> FALSE]
    BY DEF CaptureInit, NothingRecorded, Sdk, SupervisorAt, NothingReceived, RecorderAt, NoEvidence, BrushLine, PumpAt
  <2>2. <<>> \in Seq(Nat)
    OBVIOUS
  <2>3. brush.made = 0 /\ brush.drops = 0 /\ brush.frames = <<>>
        /\ DOMAIN brush = {"open", "made", "drops", "frames"}
        /\ DOMAIN pump = {"at", "stop", "last", "gaps", "fatal"}
        /\ ~pump.stop /\ (pump.at = "ended" => ~brush.open)
    BY <2>1
  <2> QED
    BY <2>2, <2>3 DEF PumpInv
<1>4. EndInv
  BY DEF CaptureInit, NothingRecorded, Sdk, SupervisorAt, NothingReceived, RecorderAt, NoEvidence, BrushLine, PumpAt, EndInv, Joined, Pumped, Stopped, Flushed, Last
<1> QED
  BY <1>2, <1>3, <1>4, CaptureInitEvidence DEF CompleteInv

\* The callback works on the camera's queue alone.
LEMMA CameraComplete ==
  ASSUME CompleteInv, frameArrives \/ frameIsAmiss \/ frameIsBroken
  PROVE  AccountInv' /\ OrderInv' /\ PumpInv' /\ EndInv'
<1>1. UNCHANGED <<capture, vision, recorder, job, disk, brush, pump, ending>>
  BY DEF frameArrives, frameIsAmiss, frameIsBroken
<1>2. AccountInv' /\ OrderInv'
  BY <1>1, AccountIsKept, OrderIsKept DEF CompleteInv
<1>3. PumpInv' /\ EndInv'
  BY <1>1 DEF CompleteInv, PumpInv, EndInv, Joined, Pumped, Stopped, Flushed, Last
<1> QED
  BY <1>2, <1>3

\* The capture thread runs only while it is not joined.
LEMMA CaptureThreadEnd ==
  ASSUME CompleteInv, CaptureThread
  PROVE  PumpInv' /\ EndInv'
<1>1. /\ UNCHANGED <<job, brush, pump, ending>> /\ capture.at # "ended"
      /\ vision'.stop = vision.stop /\ vision'.fatal = vision.fatal
  <2>1. CASE readStatus \/ checkHealth \/ noFrame
    BY <2>1 DEF readStatus, checkHealth, noFrame, captureUnchanged
  <2>2. ASSUME NEW r \in BOOLEAN, takeFrame(r)
        PROVE  /\ UNCHANGED <<job, brush, pump, ending>> /\ capture.at # "ended"
               /\ vision'.stop = vision.stop /\ vision'.fatal = vision.fatal
    <3>1. UNCHANGED <<job, brush, pump, ending>> /\ capture.at # "ended"
      BY <2>2 DEF takeFrame
    <3>2. UNCHANGED vision \/ admit(Head(camera.frames))
      BY <2>2, TakenFrame DEF CompleteInv, EvidenceInv
    <3> QED
      BY <3>1, <3>2 DEF admit, CompleteInv, EvidenceInv, StreamType
  <2> QED
    BY <2>1, <2>2 DEF CaptureThread
<1>2. PumpInv'
  BY <1>1 DEF CompleteInv, PumpInv
<1>3. EndInv'
  BY <1>1 DEF CompleteInv, EndInv, Joined, Pumped, Stopped, Flushed, Last
<1> QED
  BY <1>2, <1>3

\* A frame that is admitted is queued, and follows the one before it.
LEMMA AdmitComplete ==
  ASSUME CompleteInv, NEW id \in Nat, Follows(id), ~(id <= WarmUp), admit(id),
         capture.at # "ended", capture'.taken = id, UNCHANGED <<recorder, disk>>
  PROVE  AccountInv' /\ OrderInv'
<1>1. /\ vision.ingest \in Seq(Nat) /\ vision.received \in Seq(Nat)
      /\ vision'.ingest = Append(vision.ingest, id)
      /\ vision'.received = Append(vision.received, id)
      /\ vision'.unfinished = vision.unfinished + 1
      /\ vision'.fatal = vision.fatal
  BY DEF admit, CompleteInv, EvidenceInv, StreamType
<1>2. /\ Ids(vision'.ingest) = Ids(vision.ingest) \cup {id}
      /\ Ids(vision'.received) = Ids(vision.received) \cup {id}
  BY <1>1, IdsOfAppend
<1>3. /\ Len(vision'.ingest) = Len(vision.ingest) + 1 /\ Len(vision.ingest) \in Nat
      /\ Len(vision'.received) = Len(vision.received) + 1 /\ Len(vision.received) \in Nat
      /\ \A k \in 1..Len(vision.received) : vision'.received[k] = vision.received[k]
      /\ vision'.received[Len(vision.received) + 1] = id
  BY <1>1, AppendProperties, LenProperties
<1>4. vision'.unfinished = Len(vision'.ingest) + InHand'
  <2>1. InHand' = InHand /\ InHand \in {0, 1} /\ vision.unfinished = Len(vision.ingest) + InHand
    BY DEF CompleteInv, AccountInv, InHand, Busy
  <2> QED
    BY <1>1, <1>3, <2>1
<1>5. AccountInv'
  BY <1>1, <1>2, <1>4 DEF CompleteInv, AccountInv, Busy
<1>6. vision.received = <<>> \/ vision.received[Len(vision.received)] = id - 1
  <2>1. capture.taken \in Nat /\ (capture.taken = 0 \/ id = capture.taken + 1)
    BY DEF CompleteInv, EvidenceInv, StreamType, Follows
  <2>2. vision.received # <<>> =>
          vision.received[Len(vision.received)] = capture.taken /\ capture.taken > WarmUp
    BY DEF CompleteInv, OrderInv
  <2> QED
    BY <2>1, <2>2, CaptureConstants
<1>7. \A k \in 2..Len(vision'.received) : vision'.received[k] = vision'.received[k - 1] + 1
  <2> SUFFICES ASSUME NEW k \in 2..(Len(vision.received) + 1)
      PROVE  vision'.received[k] = vision'.received[k - 1] + 1
    BY <1>3
  <2>1. CASE k <= Len(vision.received)
    <3>1. k \in 2..Len(vision.received) /\ k \in 1..Len(vision.received)
          /\ k - 1 \in 1..Len(vision.received)
      BY <1>3, <2>1
    <3>2. vision.received[k] = vision.received[k - 1] + 1
      BY <3>1 DEF CompleteInv, OrderInv
    <3> QED
      BY <1>3, <3>1, <3>2
  <2>2. CASE k = Len(vision.received) + 1
    <3>1. k - 1 \in 1..Len(vision.received) /\ k - 1 = Len(vision.received)
      BY <1>3, <2>2
    <3>2. vision.received # <<>>
      BY <3>1
    <3>3. vision'.received[k - 1] = id - 1 /\ vision'.received[k] = id
      BY <1>3, <1>6, <2>2, <3>1, <3>2
    <3> QED
      BY <3>3
  <2> QED
    BY <1>3, <2>1, <2>2
<1>8. vision'.received[Len(vision'.received)] = capture'.taken /\ capture'.taken > WarmUp
  BY <1>3, CaptureConstants
<1> QED
  BY <1>5, <1>7, <1>8 DEF OrderInv

LEMMA CaptureThreadComplete ==
  ASSUME CompleteInv, CaptureThread
  PROVE  AccountInv' /\ OrderInv'
<1>1. UNCHANGED <<recorder, disk>> /\ capture.at # "ended"
  BY DEF CaptureThread, readStatus, checkHealth, takeFrame, noFrame, captureUnchanged
<1>2. CASE UNCHANGED vision /\ (capture'.at = "ended" \/ capture'.taken = capture.taken)
  BY <1>1, <1>2, AccountIsKept, OrderIsKept DEF CompleteInv
<1>3. CASE readStatus \/ checkHealth \/ noFrame
  <2>1. UNCHANGED vision /\ (capture'.at = "ended" \/ capture'.taken = capture.taken)
    BY <1>3 DEF readStatus, checkHealth, noFrame, FailedCapture, CompleteInv, EvidenceInv, StreamType
  <2> QED
    BY <1>2, <2>1
<1>4. ASSUME NEW r \in BOOLEAN, takeFrame(r) PROVE AccountInv' /\ OrderInv'
  <2> DEFINE id == Head(camera.frames)
  <2>1. DOMAIN capture = {"at", "status", "taken", "stop", "fatal"} /\ id \in Nat
    BY <1>4, TakenFrame DEF CompleteInv, EvidenceInv, StreamType
  <2>2. \/ UNCHANGED vision /\ capture'.at = "ended"
        \/ Follows(id) /\ id <= WarmUp /\ UNCHANGED vision /\ capture'.taken = id
        \/ Follows(id) /\ ~(id <= WarmUp) /\ admit(id) /\ capture'.taken = id
    BY <1>4, <2>1, TakenFrame DEF FailedCapture, CompleteInv, EvidenceInv
  <2>3. CASE UNCHANGED vision /\ capture'.at = "ended"
    BY <1>2, <2>3
  <2>4. CASE Follows(id) /\ id <= WarmUp /\ UNCHANGED vision /\ capture'.taken = id
    <3>1. vision.received = <<>>
      <4>1. capture.taken \in Nat /\ WarmUp \in Nat /\ (capture.taken = 0 \/ id = capture.taken + 1)
        BY <2>4, CaptureConstants DEF CompleteInv, EvidenceInv, StreamType, Follows
      <4> QED
        BY <1>1, <2>1, <2>4, <4>1 DEF CompleteInv, OrderInv
    <3>2. AccountInv'
      BY <1>1, <2>4, AccountIsKept DEF CompleteInv
    <3>3. vision'.received = <<>> /\ Len(vision'.received) = 0
      BY <2>4, <3>1
    <3> QED
      BY <3>2, <3>3 DEF OrderInv
  <2>5. CASE Follows(id) /\ ~(id <= WarmUp) /\ admit(id) /\ capture'.taken = id
    BY <1>1, <2>1, <2>5, AdmitComplete
  <2> QED
    BY <2>2, <2>3, <2>4, <2>5
<1> QED
  BY <1>3, <1>4 DEF CaptureThread

\* The recorder: a frame stays in hand from the queue to the end of its work.
LEMMA GetFrameAccount == ASSUME CompleteInv, getFrame PROVE AccountInv'
<1>1. /\ recorder.at = "loop" /\ vision.ingest # <<>> /\ vision.ingest \in Seq(Nat)
      /\ recorder'.at = "rgb" /\ recorder'.frame = Head(vision.ingest)
      /\ vision'.ingest = Tail(vision.ingest) /\ vision'.received = vision.received
      /\ vision'.unfinished = vision.unfinished /\ vision'.fatal = vision.fatal
      /\ UNCHANGED disk
  BY DEF getFrame, CompleteInv, EvidenceInv, RecorderType, StreamType
<1>2. /\ Ids(vision.ingest) = {recorder'.frame} \cup Ids(vision'.ingest)
      /\ Len(vision'.ingest) = Len(vision.ingest) - 1 /\ Len(vision.ingest) \in Nat
  BY <1>1, IdsOfTail
<1>3. InHand = 0 /\ InHand' = 1 /\ recorder'.at \in Busy /\ recorder.at \notin Busy
  BY <1>1 DEF InHand, Busy
<1>4. vision'.unfinished = Len(vision'.ingest) + InHand'
  <2>1. vision.unfinished = Len(vision.ingest) + InHand
    BY DEF CompleteInv, AccountInv
  <2> QED
    BY <1>1, <1>2, <1>3, <2>1
<1> QED
  BY <1>1, <1>2, <1>3, <1>4 DEF CompleteInv, AccountInv

LEMMA StoreAccount == ASSUME CompleteInv, store_raw_frame PROVE AccountInv'
<1>1. /\ UNCHANGED vision /\ recorder'.frame = recorder.frame
      /\ recorder.at \in Busy /\ recorder'.at \in Busy
      /\ disk'.meta = disk.meta \/ disk'.meta = disk.meta \cup {recorder.frame}
  BY DEF store_raw_frame, write, Busy, CompleteInv, EvidenceInv, RecorderType
<1>2. InHand' = InHand /\ Ids(vision.ingest)' = Ids(vision.ingest)
      /\ Ids(vision.received)' = Ids(vision.received) /\ (recorder.at \in Busy)'
  BY <1>1 DEF InHand, Ids, Busy
<1>3. AccountInv
  BY DEF CompleteInv
<1>4. /\ disk'.meta \subseteq Ids(vision.received)
      /\ disk.meta \subseteq disk'.meta
  BY <1>1, <1>3 DEF AccountInv
<1> QED
  BY <1>1, <1>2, <1>3, <1>4 DEF AccountInv

\* One that is done with: its metadata is written, or the error is kept.
LEMMA FinishedAccount ==
  ASSUME CompleteInv, storeFails \/ \E s, due \in BOOLEAN : trackAndSchedule(s, due)
  PROVE  AccountInv'
<1>1. /\ recorder.at \in Busy /\ recorder'.at \notin Busy
      /\ vision'.ingest = vision.ingest /\ vision'.received = vision.received
      /\ vision'.unfinished = vision.unfinished - 1
      /\ vision'.fatal \/ (vision'.fatal = vision.fatal /\ recorder.at = "track")
      /\ UNCHANGED disk
  BY DEF storeFails, trackAndSchedule, Busy, CompleteInv, EvidenceInv, RecorderType, StreamType
<1>2. InHand = 1 /\ InHand' = 0
  BY <1>1 DEF InHand, Busy
<1>3. vision'.unfinished = Len(vision'.ingest) + InHand'
  <2>1. vision.unfinished = Len(vision.ingest) + InHand /\ Len(vision.ingest) \in Nat
    BY LenProperties DEF CompleteInv, AccountInv, EvidenceInv, StreamType
  <2> QED
    BY <1>1, <1>2, <2>1
<1>4. recorder.at = "track" => recorder.frame \in disk.meta
  BY DEF CompleteInv, EvidenceInv, WrittenInv
<1>5. /\ Ids(vision.ingest)' = Ids(vision.ingest) /\ Ids(vision.received)' = Ids(vision.received)
      /\ (recorder.at \notin Busy)'
  BY <1>1 DEF Ids, Busy
<1>6. AccountInv
  BY DEF CompleteInv
<1> QED
  BY <1>1, <1>3, <1>4, <1>5, <1>6 DEF AccountInv

\* The rest of the recorder's work leaves the frames alone.
LEMMA DrainAccount ==
  ASSUME CompleteInv,
         startDrain \/ skipUnmasked \/ store_mask \/ drainFails \/ endDrain \/ recorderEnds
  PROVE  AccountInv' /\ UNCHANGED vision /\ recorder.at \notin Busy
<1>1. UNCHANGED vision /\ recorder.at \notin Busy /\ recorder'.at \notin Busy /\ disk'.meta = disk.meta
  BY DEF startDrain, skipUnmasked, store_mask, drainFails, endDrain, recorderEnds, Busy, CompleteInv,
     EvidenceInv, RecorderType
<1>2. InHand' = InHand
  BY <1>1 DEF InHand, Busy
<1> QED
  BY <1>1, <1>2 DEF CompleteInv, AccountInv, Ids, Busy

LEMMA RecorderComplete ==
  ASSUME CompleteInv, Recorder
  PROVE  AccountInv' /\ OrderInv' /\ PumpInv' /\ EndInv'
<1>1. UNCHANGED <<capture, brush, pump, ending>> /\ vision'.received = vision.received
  BY DEF Recorder, getFrame, store_raw_frame, write, storeFails, trackAndSchedule, startDrain,
     skipUnmasked, store_mask, drainFails, endDrain, recorderEnds, recorderUnchanged,
     CompleteInv, EvidenceInv, StreamType
<1>2. AccountInv'
  BY GetFrameAccount, StoreAccount, FinishedAccount, DrainAccount DEF Recorder
<1>3. OrderInv'
  BY <1>1, OrderIsKept DEF CompleteInv
<1>4. PumpInv'
  BY <1>1 DEF CompleteInv, PumpInv
<1>5. vision.stop => vision'.stop
  BY DEF Recorder, getFrame, store_raw_frame, write, storeFails, trackAndSchedule, startDrain,
     skipUnmasked, store_mask, drainFails, endDrain, recorderEnds, CompleteInv, EvidenceInv, StreamType
\* With nothing unfinished it neither takes a frame nor has one in hand.
<1>6. ASSUME vision.unfinished = 0
      PROVE  /\ vision'.unfinished = 0 /\ UNCHANGED vision
             /\ startDrain \/ skipUnmasked \/ store_mask \/ drainFails \/ endDrain \/ recorderEnds
  <2>1. vision.unfinished = Len(vision.ingest) + InHand /\ InHand \in {0, 1}
        /\ vision.ingest \in Seq(Nat) /\ Len(vision.ingest) \in Nat
    BY LenProperties DEF CompleteInv, AccountInv, EvidenceInv, StreamType, InHand
  <2>2. Len(vision.ingest) = 0 /\ InHand = 0
    BY <1>6, <2>1
  <2>3. vision.ingest = <<>> /\ recorder.at \notin Busy
    BY <2>1, <2>2, EmptySeq DEF InHand
  <2>4. ~getFrame /\ ~store_raw_frame /\ ~storeFails
        /\ ~\E s, due \in BOOLEAN : trackAndSchedule(s, due)
    BY <2>3 DEF getFrame, store_raw_frame, write, storeFails, trackAndSchedule, Busy
  <2>5. startDrain \/ skipUnmasked \/ store_mask \/ drainFails \/ endDrain \/ recorderEnds
    BY <2>4 DEF Recorder
  <2> QED
    BY <1>6, <2>5, DrainAccount
<1>7. ASSUME ending.at \in Last, ~ending.error
      PROVE  job'.state = "none"
  <2>1. vision.unfinished = 0 /\ job.state = "none" /\ recorder.at \notin Draining
    BY <1>7 DEF CompleteInv, EndInv, Flushed, EvidenceInv, WrittenInv
  <2>2. startDrain \/ skipUnmasked \/ store_mask \/ drainFails \/ endDrain \/ recorderEnds
    BY <1>6, <2>1
  <2> QED
    BY <2>1, <2>2 DEF startDrain, skipUnmasked, store_mask, drainFails, endDrain, recorderEnds,
       Draining
<1>8. EndInv'
  <2>1. ending.at \in Flushed /\ ~ending.error => vision'.unfinished = 0 /\ UNCHANGED vision
    BY <1>6 DEF CompleteInv, EndInv
  <2>2. ending.at = "complete" => ~ending.error /\ ~vision'.fatal /\ ~pump.fatal
    BY <2>1 DEF CompleteInv, EndInv, Flushed, Last
  <2> QED
    BY <1>1, <1>5, <1>7, <2>1, <2>2 DEF CompleteInv, EndInv, Joined, Pumped, Stopped, Flushed, Last
<1> QED
  BY <1>2, <1>3, <1>4, <1>8

LEMMA AnswerComplete ==
  ASSUME CompleteInv, segment_clip
  PROVE  AccountInv' /\ OrderInv' /\ PumpInv' /\ EndInv'
<1>1. UNCHANGED <<capture, vision, recorder, disk, brush, pump, ending>> /\ job.state = "asked"
  BY DEF segment_clip
<1>2. AccountInv' /\ OrderInv'
  BY <1>1, AccountIsKept, OrderIsKept DEF CompleteInv
<1>3. PumpInv' /\ EndInv'
  BY <1>1 DEF CompleteInv, PumpInv, EndInv, Joined, Pumped, Stopped, Flushed, Last
<1> QED
  BY <1>2, <1>3

\* The pen's samples: none comes when the port is closed.
LEMMA QueuedSample ==
  ASSUME PumpInv, NEW id \in Nat, queueSample(id)
  PROVE  /\ DOMAIN brush' = DOMAIN brush /\ brush'.open = brush.open /\ brush'.made = id
         /\ brush'.drops \in Nat /\ brush'.frames \in Seq(Nat) /\ brush'.frames # <<>>
<1> DEFINE full == Len(brush.frames) = BrushQueue
           kept == IF full THEN Tail(brush.frames) ELSE brush.frames
<1>1. brush' = [brush EXCEPT !.made = id, !.drops = IF full THEN @ + 1 ELSE @,
                             !.frames = Append(IF full THEN Tail(@) ELSE @, id)]
  BY DEF queueSample
<1>2. kept \in Seq(Nat)
  <2>1. CASE full
    <3>1. brush.frames \in Seq(Nat) /\ brush.frames # <<>>
      BY <2>1, CaptureConstants DEF PumpInv
    <3> QED
      BY <2>1, <3>1, HeadTailProperties
  <2>2. CASE ~full
    BY <2>2 DEF PumpInv
  <2> QED
    BY <2>1, <2>2
<1>3. brush'.frames = Append(kept, id) /\ (brush'.drops = brush.drops \/ brush'.drops = brush.drops + 1)
      /\ DOMAIN brush' = DOMAIN brush /\ brush'.open = brush.open /\ brush'.made = id
  BY <1>1 DEF PumpInv
<1>4. Append(kept, id) \in Seq(Nat) /\ Append(kept, id) # <<>>
  BY <1>2, AppendProperties
<1> QED
  BY <1>3, <1>4 DEF PumpInv

LEMMA SampleComplete ==
  ASSUME CompleteInv, sampleArrives \/ sampleIsAmiss
  PROVE  AccountInv' /\ OrderInv' /\ PumpInv' /\ EndInv'
<1>1. UNCHANGED <<capture, vision, recorder, job, disk, pump, ending>> /\ brush.open
  BY DEF sampleArrives, sampleIsAmiss, pumpUnchanged
<1>2. brush.made \in Nat
  BY DEF CompleteInv, PumpInv
<1>3. \E id \in Nat : queueSample(id)
  BY <1>2 DEF sampleArrives, sampleIsAmiss
<1>4. /\ DOMAIN brush' = DOMAIN brush /\ brush'.open = brush.open /\ brush'.made \in Nat
      /\ brush'.drops \in Nat /\ brush'.frames \in Seq(Nat) /\ brush'.frames # <<>>
  BY <1>3, QueuedSample DEF CompleteInv
<1>5. AccountInv' /\ OrderInv'
  BY <1>1, AccountIsKept, OrderIsKept DEF CompleteInv
<1>6. PumpInv'
  BY <1>1, <1>4 DEF CompleteInv, PumpInv
<1>7. EndInv'
  BY <1>1, <1>4 DEF CompleteInv, EndInv, Joined, Pumped, Stopped, Flushed, Last
<1> QED
  BY <1>5, <1>6, <1>7

LEMMA PumpComplete ==
  ASSUME CompleteInv, Pump
  PROVE  AccountInv' /\ OrderInv' /\ PumpInv' /\ EndInv'
<1>1. /\ UNCHANGED <<capture, vision, recorder, job, ending>> /\ pump.at = "loop"
      /\ disk'.meta = disk.meta
  BY DEF Pump, pumpSample, append, pumpSeesDrops, pumpEnds, pumpUnchanged, CompleteInv, EvidenceInv,
     RecorderType
<1>2. AccountInv' /\ OrderInv'
  BY <1>1, AccountIsKept, OrderIsKept DEF CompleteInv
<1>3. brush'.open = brush.open
  BY DEF Pump, pumpSample, pumpSeesDrops, pumpEnds, CompleteInv, PumpInv
<1>4. PumpInv'
  <2>1. CASE pumpSample
    <3>1. /\ brush.drops = 0 /\ brush.frames # <<>>
          /\ brush' = [brush EXCEPT !.frames = Tail(@)]
      BY <2>1 DEF pumpSample
    <3>2. Tail(brush.frames) \in Seq(Nat)
      BY <3>1, HeadTailProperties DEF CompleteInv, PumpInv
    <3>3. /\ DOMAIN pump' = DOMAIN pump
          /\ \/ pump'.at = "loop" /\ pump'.stop = pump.stop /\ pump'.fatal = pump.fatal
             \/ pump'.fatal
      BY <1>1, <2>1 DEF pumpSample, append, CompleteInv, PumpInv
    <3> QED
      BY <3>1, <3>2, <3>3 DEF CompleteInv, PumpInv
  <2>2. CASE pumpSeesDrops
    BY <2>2 DEF pumpSeesDrops, CompleteInv, PumpInv
  <2>3. CASE pumpEnds
    BY <2>3 DEF pumpEnds, CompleteInv, PumpInv
  <2> QED
    BY <2>1, <2>2, <2>3 DEF Pump
<1>5. EndInv'
  <2>1. ~(ending.at \in Pumped /\ ~ending.error)
    BY <1>1 DEF CompleteInv, EndInv
  <2> QED
    BY <1>1, <1>3, <2>1 DEF CompleteInv, EndInv, Joined, Pumped, Stopped, Flushed, Last
<1> QED
  BY <1>2, <1>4, <1>5

\* What the thread that closes changes besides its own place.
LEMMA ShutdownChanges ==
  ASSUME CompleteInv, stop_capture \/ Shutdown
  PROVE  /\ UNCHANGED <<recorder, job, disk>>
         /\ capture'.at = capture.at /\ capture'.taken = capture.taken
         /\ DOMAIN vision' = DOMAIN vision /\ vision'.ingest = vision.ingest
         /\ vision'.received = vision.received /\ vision'.unfinished = vision.unfinished
         /\ vision'.fatal = vision.fatal /\ (vision.stop => vision'.stop)
         /\ DOMAIN brush' = DOMAIN brush /\ brush'.made = brush.made
         /\ brush'.drops = brush.drops /\ brush'.frames = brush.frames
         /\ brush'.open => brush.open
         /\ DOMAIN pump' = DOMAIN pump /\ pump'.at = pump.at /\ pump'.fatal = pump.fatal
         /\ pump'.stop = pump.stop \/ ending.at = "stop pump"
         /\ DOMAIN ending' = {"at", "error"}
<1>1. /\ UNCHANGED <<recorder, job, disk>>
      /\ UNCHANGED capture \/ capture' = [capture EXCEPT !.stop = TRUE]
      /\ UNCHANGED vision \/ vision' = [vision EXCEPT !.stop = TRUE]
      /\ UNCHANGED brush \/ brush' = [brush EXCEPT !.open = FALSE]
      /\ UNCHANGED pump \/ (ending.at = "stop pump" /\ pump' = [pump EXCEPT !.stop = TRUE])
  BY DEF stop_capture, Shutdown, releaseBrush, request_stop, joinCapture, flushPipeline, flush,
     stopPump, joinPump, stopRecorder, flushAgain, verdict, closeUnchanged, At
<1>2. \/ \E place : ending' = [ending EXCEPT !.at = place]
      \/ \E place : ending' = [at |-> place, error |-> TRUE]
  BY DEF stop_capture, Shutdown, releaseBrush, request_stop, joinCapture, flushPipeline, flush,
     stopPump, joinPump, stopRecorder, flushAgain, verdict, At, Raised
<1>3. DOMAIN ending' = {"at", "error"}
  BY <1>2 DEF CompleteInv, EndInv
<1>4. capture'.at = capture.at /\ capture'.taken = capture.taken
  BY <1>1 DEF CompleteInv, EvidenceInv, StreamType
<1>5. /\ DOMAIN vision' = DOMAIN vision /\ vision'.ingest = vision.ingest
      /\ vision'.received = vision.received /\ vision'.unfinished = vision.unfinished
      /\ vision'.fatal = vision.fatal /\ (vision.stop => vision'.stop)
  BY <1>1 DEF CompleteInv, EvidenceInv, StreamType
<1>6. /\ DOMAIN brush' = DOMAIN brush /\ brush'.made = brush.made
      /\ brush'.drops = brush.drops /\ brush'.frames = brush.frames
      /\ brush'.open => brush.open
  BY <1>1 DEF CompleteInv, PumpInv
<1>7. /\ DOMAIN pump' = DOMAIN pump /\ pump'.at = pump.at /\ pump'.fatal = pump.fatal
      /\ pump'.stop = pump.stop \/ ending.at = "stop pump"
  BY <1>1 DEF CompleteInv, PumpInv
<1> QED
  BY <1>1, <1>3, <1>4, <1>5, <1>6, <1>7

LEMMA PlaceOfEnding ==
  ASSUME DOMAIN ending = {"at", "error"}
  PROVE  \A here, next :
           /\ At(here, next) =>
                ending.at = here /\ ending'.at = next /\ ending'.error = ending.error
           /\ Raised(here, next) =>
                ending.at = here /\ ending'.at = next /\ ending'.error
BY DEF At, Raised

\* What each step of close() may conclude from where it is.
LEMMA ShutdownEnd == ASSUME CompleteInv, stop_capture \/ Shutdown PROVE EndInv'
<1>1. EndInv
  BY DEF CompleteInv
<1>2. CASE stop_capture
  <2>1. ending'.at = "brush"
    BY <1>1, <1>2 DEF stop_capture, At, EndInv
  <2> QED
    BY <2>1, ShutdownChanges DEF EndInv, Joined, Pumped, Stopped, Flushed, Last
<1>3. CASE releaseBrush
  <2>1. ending'.at = "request" /\ ~brush'.open
    BY <1>1, <1>3 DEF releaseBrush, At, EndInv, CompleteInv, PumpInv
  <2> QED
    BY <2>1, ShutdownChanges DEF EndInv, Joined, Pumped, Stopped, Flushed, Last
<1>4. CASE request_stop
  <2>1. ending'.at = "join" /\ ~brush'.open
    BY <1>1, <1>4 DEF request_stop, At, EndInv
  <2> QED
    BY <2>1, ShutdownChanges DEF EndInv, Joined, Pumped, Stopped, Flushed, Last
<1>5. CASE joinCapture
  <2>1. /\ ~brush'.open
        /\ \/ ending'.at = "flush" /\ capture'.at = "ended"
           \/ ending'.at = "failed"
    BY <1>1, <1>5 DEF joinCapture, At, Raised, EndInv
  <2> QED
    BY <2>1, ShutdownChanges DEF EndInv, Joined, Pumped, Stopped, Flushed, Last
<1>6. CASE flushPipeline
  <2>1. /\ ending.at \in Joined /\ ending'.at \in {"flush", "flush: job", "stop pump"}
        /\ UNCHANGED <<capture, brush>>
    <3>1. flush("flush", "flush: job", "stop pump", "stop pump") /\ DOMAIN ending = {"at", "error"}
      BY <1>1, <1>6 DEF flushPipeline, EndInv
    <3>2. /\ UNCHANGED <<vision, brush, pump, capture>>
          /\ ending.at \in {"flush", "flush: job"}
          /\ ending'.at \in {"flush", "flush: job", "stop pump"}
      BY <3>1, PlaceOfEnding DEF flush
    <3> QED
      BY <3>2 DEF Joined
  <2> QED
    BY <1>1, <2>1, ShutdownChanges DEF EndInv, Joined, Pumped, Stopped, Flushed, Last
<1>7. CASE stopPump
  <2>1. /\ ending.at \in Joined /\ ending'.at = "join pump" /\ UNCHANGED <<capture, brush>>
    BY <1>1, <1>7 DEF stopPump, At, EndInv, Joined
  <2> QED
    BY <1>1, <2>1, ShutdownChanges DEF EndInv, Joined, Pumped, Stopped, Flushed, Last
<1>8. CASE joinPump
  <2>1. /\ ending.at \in Joined /\ ending'.at = "stop recorder" /\ UNCHANGED <<capture, brush>>
        /\ ~ending'.error => pump'.at = "ended"
    <3>1. \/ pump.at = "ended" /\ At("join pump", "stop recorder")
          \/ Raised("join pump", "stop recorder")
      BY <1>8 DEF joinPump
    <3>2. UNCHANGED <<capture, brush, pump>>
      BY <1>8 DEF joinPump
    <3>3. /\ ending.at = "join pump" /\ ending'.at = "stop recorder"
          /\ ~ending'.error => pump.at = "ended"
      BY <1>1, <3>1, PlaceOfEnding DEF EndInv
    <3> QED
      BY <3>2, <3>3 DEF Joined
  <2> QED
    BY <1>1, <2>1, ShutdownChanges DEF EndInv, Joined, Pumped, Stopped, Flushed, Last
<1>9. CASE stopRecorder
  <2>1. /\ ending.at = "stop recorder" /\ ending'.at = "flush again" /\ UNCHANGED <<capture, brush, pump>>
        /\ ending'.error = ending.error /\ vision'.stop
    BY <1>1, <1>9 DEF stopRecorder, At, EndInv, CompleteInv, EvidenceInv, StreamType
  <2> QED
    BY <1>1, <2>1, ShutdownChanges DEF EndInv, Joined, Pumped, Stopped, Flushed, Last
<1>10. CASE flushAgain
  <2>1. /\ UNCHANGED <<vision, brush, pump, capture, job>>
        /\ \/ ending'.at = "verdict" /\ ending'.error /\ ending.at \in Stopped
           \/ /\ ending.at = "flush again" /\ ending'.at = "flush again: job"
              /\ ending'.error = ending.error /\ ~vision.fatal /\ vision.unfinished = 0
           \/ /\ ending.at = "flush again: job" /\ ending'.at = "verdict"
              /\ ending'.error = ending.error /\ job.state = "none"
           \/ /\ ending.at = "flush again: job" /\ ending'.at = "flush again"
              /\ ending'.error = ending.error
    <3>1. /\ flush("flush again", "flush again: job", "verdict", "verdict")
          /\ DOMAIN ending = {"at", "error"}
      BY <1>1, <1>10 DEF flushAgain, EndInv
    <3>2. /\ UNCHANGED <<vision, brush, pump, capture, job>>
          /\ \/ ending'.at = "verdict" /\ ending'.error
                /\ ending.at \in {"flush again", "flush again: job"}
             \/ /\ ending.at = "flush again" /\ ending'.at = "flush again: job"
                /\ ending'.error = ending.error /\ ~vision.fatal /\ vision.unfinished = 0
             \/ /\ ending.at = "flush again: job" /\ ending'.at = "verdict"
                /\ ending'.error = ending.error /\ job.state = "none"
             \/ /\ ending.at = "flush again: job" /\ ending'.at = "flush again"
                /\ ending'.error = ending.error
      BY <3>1, PlaceOfEnding DEF flush, NothingUnfinished, closeUnchanged
    <3> QED
      BY <3>2 DEF Stopped, Flushed
  <2> QED
    BY <1>1, <2>1, ShutdownChanges DEF EndInv, Joined, Pumped, Stopped, Flushed, Last
<1>11. CASE verdict
  <2>1. /\ ending.at = "verdict" /\ UNCHANGED <<capture, brush, pump, vision, job>>
        /\ ending'.error = ending.error
        /\ \/ ending'.at = "failed"
           \/ ending'.at = "complete" /\ ~ending.error /\ ~vision.fatal /\ ~pump.fatal
    BY <1>1, <1>11 DEF verdict, closeUnchanged, EndInv
  <2> QED
    BY <1>1, <2>1, ShutdownChanges DEF EndInv, Joined, Pumped, Stopped, Flushed, Last
<1> QED
  BY <1>2, <1>3, <1>4, <1>5, <1>6, <1>7, <1>8, <1>9, <1>10, <1>11 DEF Shutdown

LEMMA ShutdownComplete ==
  ASSUME CompleteInv, stop_capture \/ Shutdown
  PROVE  AccountInv' /\ OrderInv' /\ PumpInv' /\ EndInv'
<1>1. AccountInv'
  <2>1. /\ InHand' = InHand /\ Ids(vision.ingest)' = Ids(vision.ingest)
        /\ Ids(vision.received)' = Ids(vision.received) /\ UNCHANGED <<recorder, disk>>
        /\ vision'.unfinished = vision.unfinished /\ vision'.ingest = vision.ingest
        /\ vision'.fatal = vision.fatal
    BY ShutdownChanges DEF InHand, Ids, Busy
  <2> QED
    BY <2>1 DEF CompleteInv, AccountInv, Busy
<1>2. OrderInv'
  BY ShutdownChanges DEF CompleteInv, OrderInv
<1>3. ending.at = "stop pump" => ~brush.open
  BY DEF CompleteInv, EndInv, Joined
<1>4. PumpInv'
  BY <1>3, ShutdownChanges DEF CompleteInv, PumpInv
<1> QED
  BY <1>1, <1>2, <1>4, ShutdownEnd

LEMMA CompleteStep == CompleteInv /\ [CaptureNext]_captureVars => CompleteInv'
<1> SUFFICES ASSUME CompleteInv, [CaptureNext]_captureVars PROVE CompleteInv'
  OBVIOUS
<1>1. EvidenceInv'
  BY EvidenceStep DEF CompleteInv
<1>2. CASE UNCHANGED captureVars
  <2>1. UNCHANGED <<capture, vision, recorder, job, disk, brush, pump, ending>>
    BY <1>2 DEF captureVars
  <2>2. AccountInv' /\ OrderInv'
    BY <2>1, AccountIsKept, OrderIsKept DEF CompleteInv
  <2>3. PumpInv' /\ EndInv'
    BY <2>1 DEF CompleteInv, PumpInv, EndInv, Joined, Pumped, Stopped, Flushed, Last
  <2> QED
    BY <1>1, <2>2, <2>3 DEF CompleteInv
<1>3. CASE CaptureNext
  <2>1. AccountInv' /\ OrderInv' /\ PumpInv' /\ EndInv'
    BY <1>3, CameraComplete, CaptureThreadEnd, CaptureThreadComplete, RecorderComplete,
       AnswerComplete, SampleComplete, PumpComplete, ShutdownComplete DEF CaptureNext
  <2> QED
    BY <1>1, <2>1 DEF CompleteInv
<1> QED
  BY <1>2, <1>3

LEMMA CompleteInvHolds == CaptureSpec => []CompleteInv
BY CaptureInitComplete, CompleteStep, PTL DEF CaptureSpec

\* An episode that close() calls complete has every frame that was admitted,
\* without a hole, and no thread still works on it.
THEOREM CompleteEpisodesAreComplete == CaptureSpec => []CompleteMeansComplete
BY CompleteInvHolds, CompleteIsComplete, PTL

-----------------------------------------------------------------------------
(* What is shown as tracked.                                               *)

\* The queue holds the last of the admitted frames; the one in hand is the
\* frame before them.
FifoInv ==
  /\ vision.unfinished \in Nat /\ vision.unfinished <= Len(vision.received)
  /\ \A k \in 1..Len(vision.ingest) :
       vision.ingest[k] = vision.received[Len(vision.received) - Len(vision.ingest) + k]
  /\ recorder.at \in Busy =>
       recorder.frame = vision.received[Len(vision.received) - Len(vision.ingest)]

TrackType ==
  /\ tracker \in [source : Int, last : Int, age : Int]
  /\ recorder.recent \in Seq(Nat)
  /\ job.clip \in Seq(Nat) /\ job.masked \subseteq Nat
  /\ job.state # "none" => recorder.recent # <<>>

\* As long as every frame is archived, the tracker and the window of recent
\* frames are at the last one that is done with, and the tracker's age is the
\* distance to its seed.
TrackInv ==
  ~vision.fatal =>
    /\ recorder.recent # <<>> =>
         /\ vision.unfinished < Len(vision.received)
         /\ NewestId = vision.received[Len(vision.received) - vision.unfinished]
    /\ tracker.source # 0 =>
         /\ recorder.recent # <<>> /\ tracker.last = NewestId
         /\ tracker.age = tracker.last - tracker.source
         /\ 0 <= tracker.age /\ tracker.age <= MaxPredict

FreshInv == CompleteInv /\ FifoInv /\ TrackType /\ TrackInv /\ TrackIsFresh

LEMMA TrackConstants == Clip \in Nat /\ Clip > 0 /\ MaxReplay \in Nat /\ MaxPredict \in Nat
BY CaptureAssumption

\* The lengths of the queues, for every step that needs them.
LEMMA Lengths ==
  ASSUME CompleteInv
  PROVE  /\ vision.ingest \in Seq(Nat) /\ vision.received \in Seq(Nat)
         /\ Len(vision.ingest) \in Nat /\ Len(vision.received) \in Nat
         /\ InHand \in {0, 1} /\ (InHand = 1 <=> recorder.at \in Busy)
         /\ vision.unfinished = Len(vision.ingest) + InHand
<1>1. vision.ingest \in Seq(Nat) /\ vision.received \in Seq(Nat)
  BY DEF CompleteInv, EvidenceInv, StreamType
<1> QED
  BY <1>1, LenProperties DEF CompleteInv, AccountInv, InHand

\* Who leaves the frames, the window and the tracker alone.
LEMMA TrackIsKept ==
  ASSUME FreshInv, UNCHANGED <<tracker, latest>>,
         recorder'.at \in Busy => recorder.at \in Busy /\ recorder'.frame = recorder.frame,
         recorder'.recent = recorder.recent,
         vision'.ingest = vision.ingest, vision'.received = vision.received,
         vision'.unfinished = vision.unfinished, vision'.fatal = vision.fatal,
         \/ UNCHANGED job
         \/ job'.clip = job.clip /\ job'.masked \subseteq Nat /\ job.state # "none"
         \/ job' = NoJob
  PROVE  FifoInv' /\ TrackType' /\ TrackInv' /\ TrackIsFresh'
<1>1. FifoInv'
  BY DEF FreshInv, FifoInv, Busy
<1>2. TrackType'
  <2>1. CASE job' = NoJob
    BY <2>1 DEF FreshInv, TrackType, NoJob
  <2>2. CASE job' # NoJob
    <3>1. job'.clip = job.clip /\ job'.masked \subseteq Nat
          /\ (job'.state # "none" => job.state # "none")
      BY <2>2 DEF FreshInv, TrackType
    <3> QED
      BY <3>1 DEF FreshInv, TrackType
  <2> QED
    BY <2>1, <2>2
<1>3. TrackInv' /\ TrackIsFresh'
  BY DEF FreshInv, TrackInv, TrackIsFresh, NewestId
<1> QED
  BY <1>1, <1>2, <1>3

LEMMA AdmitTrack ==
  ASSUME FreshInv, NEW id \in Nat, admit(id), UNCHANGED <<recorder, job, tracker, latest>>
  PROVE  FifoInv' /\ TrackType' /\ TrackInv' /\ TrackIsFresh'
<1> DEFINE n == Len(vision.ingest)
           m == Len(vision.received)
<1>1. /\ vision'.ingest = Append(vision.ingest, id) /\ vision'.received = Append(vision.received, id)
      /\ vision'.unfinished = vision.unfinished + 1 /\ vision'.fatal = vision.fatal
      /\ vision.ingest \in Seq(Nat) /\ vision.received \in Seq(Nat)
  BY DEF admit, FreshInv, CompleteInv, EvidenceInv, StreamType
<1>2. n \in Nat /\ m \in Nat /\ n <= vision.unfinished /\ vision.unfinished \in Nat
      /\ vision.unfinished <= m /\ (recorder.at \in Busy => n + 1 <= m)
  BY Lengths DEF FreshInv, FifoInv
<1>3. /\ Len(vision'.ingest) = n + 1 /\ Len(vision'.received) = m + 1
      /\ \A k \in 1..n : vision'.ingest[k] = vision.ingest[k]
      /\ vision'.ingest[n + 1] = id
      /\ \A k \in 1..m : vision'.received[k] = vision.received[k]
      /\ vision'.received[m + 1] = id
  BY <1>1, AppendProperties, LenProperties
<1> HIDE DEF n, m
<1>4. \A k \in 1..(n + 1) : vision'.ingest[k] = vision'.received[(m + 1) - (n + 1) + k]
  <2> SUFFICES ASSUME NEW k \in 1..(n + 1)
      PROVE  vision'.ingest[k] = vision'.received[(m + 1) - (n + 1) + k]
    OBVIOUS
  <2>1. CASE k = n + 1
    <3>1. (m + 1) - (n + 1) + k = m + 1
      BY <1>2, <2>1
    <3> QED
      BY <1>3, <2>1, <3>1
  <2>2. CASE k # n + 1
    <3>1. k \in 1..n /\ m - n + k \in 1..m /\ (m + 1) - (n + 1) + k = m - n + k
      BY <1>2, <2>2
    <3>2. vision.ingest[k] = vision.received[m - n + k]
      BY <3>1 DEF FreshInv, FifoInv, n, m
    <3> QED
      BY <1>3, <3>1, <3>2
  <2> QED
    BY <2>1, <2>2
<1>5. recorder'.at \in Busy => recorder'.frame = vision'.received[(m + 1) - (n + 1)]
  <2> SUFFICES ASSUME recorder.at \in Busy PROVE recorder.frame = vision'.received[(m + 1) - (n + 1)]
    OBVIOUS
  <2>1. (m + 1) - (n + 1) = m - n /\ m - n \in 1..m
    BY <1>2
  <2>2. recorder.frame = vision.received[m - n]
    BY DEF FreshInv, FifoInv, n, m
  <2> QED
    BY <1>3, <2>1, <2>2
<1>6. vision'.unfinished \in Nat /\ vision'.unfinished <= m + 1
  BY <1>1, <1>2
<1>7. FifoInv'
  BY <1>3, <1>4, <1>5, <1>6 DEF FifoInv, Busy
<1>8. TrackType' /\ TrackIsFresh'
  BY <1>1 DEF FreshInv, TrackType, TrackIsFresh
<1>9. ASSUME ~vision.fatal, recorder.recent # <<>>
      PROVE  /\ vision'.unfinished < m + 1
             /\ NewestId = vision'.received[(m + 1) - vision'.unfinished]
  <2>1. vision.unfinished < m /\ NewestId = vision.received[m - vision.unfinished]
    BY <1>9 DEF FreshInv, TrackInv, m
  <2>2. /\ m - vision.unfinished \in 1..m /\ (m + 1) - vision'.unfinished = m - vision.unfinished
        /\ vision'.unfinished < m + 1
    <3>1. vision'.unfinished = vision.unfinished + 1
      BY <1>1
    <3> QED
      BY <1>2, <2>1, <3>1
  <2> QED
    BY <1>3, <2>1, <2>2
<1>10. NewestId' = NewestId
  BY DEF NewestId
<1>11. TrackInv'
  BY <1>1, <1>3, <1>9, <1>10 DEF FreshInv, TrackInv
<1> QED
  BY <1>7, <1>8, <1>11

LEMMA GetFrameTrack ==
  ASSUME FreshInv, getFrame
  PROVE  FifoInv' /\ TrackType' /\ TrackInv' /\ TrackIsFresh'
<1> DEFINE n == Len(vision.ingest)
           m == Len(vision.received)
<1>1. /\ recorder.at = "loop" /\ vision.ingest # <<>> /\ vision.ingest \in Seq(Nat)
      /\ recorder'.at = "rgb" /\ recorder'.frame = Head(vision.ingest)
      /\ recorder'.recent = recorder.recent
      /\ vision'.ingest = Tail(vision.ingest) /\ vision'.received = vision.received
      /\ vision'.unfinished = vision.unfinished /\ vision'.fatal = vision.fatal
      /\ UNCHANGED <<job, tracker, latest>>
  BY DEF getFrame, FreshInv, CompleteInv, EvidenceInv, RecorderType, StreamType
<1>2. n \in Nat /\ m \in Nat /\ n > 0 /\ n <= m
  BY <1>1, IdsOfTail, Lengths DEF FreshInv, FifoInv
<1>3. /\ Len(vision'.ingest) = n - 1 /\ vision'.ingest \in Seq(Nat)
      /\ \A k \in 1..(n - 1) : vision'.ingest[k] = vision.ingest[k + 1]
      /\ recorder'.frame = vision.ingest[1]
  BY <1>1, HeadTailProperties, LenProperties
<1> HIDE DEF n, m
<1>4. \A k \in 1..n : vision.ingest[k] = vision.received[m - n + k]
  BY DEF FreshInv, FifoInv, n, m
<1>5. recorder'.frame = vision.received[m - (n - 1)]
  <2>1. m - n + 1 = m - (n - 1) /\ 1 \in 1..n
    BY <1>2
  <2> QED
    BY <1>3, <1>4, <2>1
<1>6. \A k \in 1..(n - 1) : vision'.ingest[k] = vision.received[m - (n - 1) + k]
  <2> SUFFICES ASSUME NEW k \in 1..(n - 1)
      PROVE  vision'.ingest[k] = vision.received[m - (n - 1) + k]
    OBVIOUS
  <2>1. k + 1 \in 1..n /\ m - n + (k + 1) = m - (n - 1) + k
    BY <1>2
  <2> QED
    BY <1>3, <1>4, <2>1
<1>7. FifoInv'
  <2>1. Len(vision'.received) = m /\ vision'.unfinished \in Nat /\ vision'.unfinished <= m
    BY <1>1 DEF FreshInv, FifoInv, m
  <2> QED
    BY <1>1, <1>3, <1>5, <1>6, <2>1 DEF FifoInv
<1>8. TrackType' /\ TrackInv' /\ TrackIsFresh'
  BY <1>1 DEF FreshInv, TrackType, TrackInv, TrackIsFresh, NewestId
<1> QED
  BY <1>7, <1>8

\* An error ends what is said of the tracker.
LEMMA StoreFailsTrack ==
  ASSUME FreshInv, storeFails
  PROVE  FifoInv' /\ TrackType' /\ TrackInv' /\ TrackIsFresh'
<1>1. /\ recorder.at \in Busy /\ recorder'.at = "loop" /\ recorder'.recent = recorder.recent
      /\ vision'.ingest = vision.ingest /\ vision'.received = vision.received
      /\ vision'.unfinished = vision.unfinished - 1 /\ vision'.fatal
      /\ UNCHANGED <<job, tracker, latest>>
  BY DEF storeFails, Busy, FreshInv, CompleteInv, EvidenceInv, RecorderType, StreamType
<1>2. vision.unfinished \in Nat /\ vision.unfinished >= 1
  BY <1>1, Lengths DEF FreshInv
<1>3. FifoInv'
  <2>1. vision'.unfinished \in Nat /\ vision'.unfinished <= Len(vision.received)
    BY <1>1, <1>2, Lengths DEF FreshInv, FifoInv
  <2> QED
    BY <1>1, <2>1 DEF FreshInv, FifoInv, Busy
<1>4. TrackType' /\ TrackInv' /\ TrackIsFresh'
  BY <1>1 DEF FreshInv, TrackType, TrackInv, TrackIsFresh
<1> QED
  BY <1>3, <1>4

\* The window of the last frames.
LEMMA LatestProperties ==
  ASSUME NEW s \in Seq(Nat), s # <<>>, NEW n \in Nat, n > 0
  PROVE  /\ Latest(s, n) \in Seq(Nat) /\ Latest(s, n) # <<>>
         /\ Latest(s, n)[Len(Latest(s, n))] = s[Len(s)]
<1> DEFINE from == IF Len(s) > n THEN Len(s) - n + 1 ELSE 1
<1>1. Len(s) \in Nat /\ Len(s) > 0 /\ \A i \in 1..Len(s) : s[i] \in Nat
  BY LenProperties, EmptySeq, ElementOfSeq
<1>2. from \in Int /\ 1 <= from /\ from <= Len(s)
  BY <1>1
<1> HIDE DEF from
<1>3. Latest(s, n) = SubSeq(s, from, Len(s))
  BY DEF Latest, from
<1>4. \A i \in from..Len(s) : s[i] \in Nat
  BY <1>1, <1>2
<1>5. /\ SubSeq(s, from, Len(s)) \in Seq(Nat)
      /\ Len(SubSeq(s, from, Len(s))) = Len(s) - from + 1
      /\ \A i \in 1..(Len(s) - from + 1) : SubSeq(s, from, Len(s))[i] = s[from + i - 1]
  BY <1>1, <1>2, <1>4, SubSeqProperties
<1>6. Len(s) - from + 1 \in 1..(Len(s) - from + 1) /\ from + (Len(s) - from + 1) - 1 = Len(s)
  BY <1>1, <1>2
<1>7. SubSeq(s, from, Len(s)) # <<>>
  BY <1>5, <1>6, EmptySeq
<1> QED
  BY <1>3, <1>5, <1>6, <1>7

\* One step of the tracker, from a frame to the next.
LEMMA UpdatedTrack ==
  ASSUME NEW t \in [source : Int, last : Int, age : Int], NEW id \in Nat, NEW s \in BOOLEAN
  PROVE  /\ Updated(t, id, s).track \in [source : Int, last : Int, age : Int]
         /\ \/ Updated(t, id, s).state \in {"UNKNOWN", "LOST"}
            \/ /\ Updated(t, id, s).state = "PREDICTED" /\ t.source # 0 /\ id > t.last
               /\ ~(t.age >= MaxPredict)
               /\ Updated(t, id, s).track = [source |-> t.source, last |-> id, age |-> t.age + 1]
         /\ \/ Updated(t, id, s).track.source = 0
            \/ t.source # 0 /\ id <= t.last
            \/ Updated(t, id, s).state = "PREDICTED"
<1>1. CASE t.source = 0
  <2>1. Updated(t, id, s) = [track |-> t, state |-> "UNKNOWN"]
    BY <1>1 DEF Updated
  <2> QED
    BY <1>1, <2>1
<1>2. CASE t.source # 0 /\ id <= t.last
  <2>1. Updated(t, id, s) = [track |-> t, state |-> "LOST"]
    BY <1>2 DEF Updated
  <2> QED
    BY <1>2, <2>1
<1>3. CASE t.source # 0 /\ id > t.last /\ (Outlived(t) \/ ~s)
  <2>1. ~(id <= t.last)
    BY <1>3
  <2>2. Updated(t, id, s) = [track |-> NoTrack, state |-> "LOST"]
    BY <1>3, <2>1 DEF Updated
  <2> QED
    BY <2>2 DEF NoTrack
<1>4. CASE t.source # 0 /\ id > t.last /\ ~(Outlived(t) \/ ~s)
  <2>1. ~(id <= t.last)
    BY <1>4
  <2>2. Updated(t, id, s) = [track |-> [source |-> t.source, last |-> id, age |-> t.age + 1],
                             state |-> "PREDICTED"]
    BY <1>4, <2>1 DEF Updated
  <2>3. t.age + 1 \in Int
    OBVIOUS
  <2> QED
    BY <1>4, <2>2, <2>3 DEF Outlived
<1>5. id > t.last <=> ~(id <= t.last)
  OBVIOUS
<1> QED
  BY <1>1, <1>2, <1>3, <1>4, <1>5

LEMMA TrackStep ==
  ASSUME FreshInv, NEW s \in BOOLEAN, NEW due \in BOOLEAN, trackAndSchedule(s, due)
  PROVE  FifoInv' /\ TrackType' /\ TrackInv' /\ TrackIsFresh'
<1> DEFINE id == recorder.frame
           u  == Updated(tracker, id, s)
           recent == Latest(Append(recorder.recent, id), RecentFrames)
           n == Len(vision.ingest)
           m == Len(vision.received)
<1>1. /\ recorder.at = "track" /\ recorder'.at = "loop" /\ recorder'.recent = recent
      /\ tracker' = u.track /\ latest' = [frame |-> id, state |-> u.state, source |-> u.track.source]
      /\ vision'.ingest = vision.ingest /\ vision'.received = vision.received
      /\ vision'.unfinished = vision.unfinished - 1 /\ vision'.fatal = vision.fatal
      /\ schedule(recent, due)
  BY DEF trackAndSchedule, Output, FreshInv, CompleteInv, EvidenceInv, RecorderType, StreamType
<1>2. /\ recorder.at \in Busy /\ id \in Nat /\ recorder.recent \in Seq(Nat)
      /\ tracker \in [source : Int, last : Int, age : Int]
  BY <1>1 DEF Busy, FreshInv, CompleteInv, EvidenceInv, RecorderType, TrackType
<1>3. recent \in Seq(Nat) /\ recent # <<>> /\ recent[Len(recent)] = id
  <2>1. /\ Append(recorder.recent, id) \in Seq(Nat) /\ Append(recorder.recent, id) # <<>>
        /\ Append(recorder.recent, id)[Len(Append(recorder.recent, id))] = id
    BY <1>2, AppendProperties
  <2>2. RecentFrames \in Nat /\ RecentFrames > 0
    BY TrackConstants DEF RecentFrames
  <2> QED
    BY <2>1, <2>2, LatestProperties
<1>4. /\ n \in Nat /\ m \in Nat /\ vision.unfinished = n + 1 /\ vision.unfinished <= m
      /\ id = vision.received[m - n]
  <2>1. InHand = 1
    BY <1>2, Lengths DEF FreshInv
  <2>2. id = vision.received[m - n] /\ vision.unfinished <= m
    BY <1>2 DEF FreshInv, FifoInv
  <2> QED
    BY <2>1, <2>2, Lengths DEF FreshInv
<1>5. /\ u.track \in [source : Int, last : Int, age : Int]
      /\ \/ u.state \in {"UNKNOWN", "LOST"}
         \/ /\ u.state = "PREDICTED" /\ tracker.source # 0 /\ id > tracker.last
            /\ ~(tracker.age >= MaxPredict)
            /\ u.track = [source |-> tracker.source, last |-> id, age |-> tracker.age + 1]
      /\ \/ u.track.source = 0
         \/ tracker.source # 0 /\ id <= tracker.last
         \/ u.state = "PREDICTED"
  BY <1>2, UpdatedTrack
<1> HIDE DEF u, recent, n, m, id
<1>6. FifoInv'
  <2>1. vision'.unfinished \in Nat /\ vision'.unfinished <= m
    BY <1>1, <1>4
  <2> QED
    BY <1>1, <2>1 DEF FreshInv, FifoInv, Busy, m
<1>7. TrackType'
  <2>1. /\ UNCHANGED job \/ job' = [state |-> "asked", clip |-> Latest(recent, Clip), masked |-> {}]
    BY <1>1 DEF schedule
  <2>2. Latest(recent, Clip) \in Seq(Nat)
    BY <1>3, TrackConstants, LatestProperties
  <2>3. job'.clip \in Seq(Nat) /\ job'.masked \subseteq Nat
    BY <2>1, <2>2 DEF FreshInv, TrackType
  <2> QED
    BY <1>1, <1>3, <1>5, <2>3 DEF TrackType
\* The frame follows the last one that was tracked.
<1>8. ASSUME ~vision.fatal, tracker.source # 0
      PROVE  /\ id = tracker.last + 1 /\ tracker.age = tracker.last - tracker.source
             /\ 0 <= tracker.age /\ tracker.age <= MaxPredict
  <2>1. /\ tracker.last = NewestId /\ tracker.age = tracker.last - tracker.source
        /\ 0 <= tracker.age /\ tracker.age <= MaxPredict
        /\ vision.unfinished < m /\ NewestId = vision.received[m - vision.unfinished]
    BY <1>8 DEF FreshInv, TrackInv, m
  <2>2. m - n \in 2..m /\ m - vision.unfinished = (m - n) - 1
    BY <1>4, <2>1
  <2>3. vision.received[m - n] = vision.received[(m - n) - 1] + 1
    BY <2>2 DEF FreshInv, CompleteInv, OrderInv, m
  <2> QED
    BY <1>4, <2>1, <2>2, <2>3
<1>9. ASSUME ~vision.fatal, u.state = "PREDICTED"
      PROVE  /\ u.track.source # 0 /\ u.track.last = id
             /\ u.track.age = id - u.track.source /\ 0 <= u.track.age /\ u.track.age <= MaxPredict
  <2>1. /\ tracker.source # 0 /\ ~(tracker.age >= MaxPredict)
        /\ u.track.source = tracker.source /\ u.track.last = id /\ u.track.age = tracker.age + 1
    BY <1>5, <1>9
  <2>2. /\ id = tracker.last + 1 /\ tracker.age = tracker.last - tracker.source
        /\ 0 <= tracker.age
    BY <1>8, <1>9, <2>1
  <2>3. tracker.age \in Int /\ tracker.last \in Int /\ tracker.source \in Int
    BY <1>2
  <2> QED
    BY <2>1, <2>2, <2>3, TrackConstants
<1>10. ASSUME ~vision.fatal
       PROVE  u.track.source = 0 \/ u.state = "PREDICTED"
  <2>1. tracker.source # 0 => ~(id <= tracker.last)
    <3>1. tracker.last \in Int
      BY <1>2
    <3> QED
      BY <1>8, <1>10, <3>1
  <2> QED
    BY <1>5, <2>1
<1>11. TrackInv'
  <2> SUFFICES ASSUME ~vision.fatal
      PROVE  /\ vision'.unfinished < m
             /\ NewestId' = vision.received[m - vision'.unfinished]
             /\ u.track.source # 0 =>
                  /\ u.track.last = NewestId'
                  /\ u.track.age = u.track.last - u.track.source
                  /\ 0 <= u.track.age /\ u.track.age <= MaxPredict
    BY <1>1, <1>3 DEF TrackInv, m
  <2>1. NewestId' = id
    BY <1>1, <1>3 DEF NewestId
  <2>2. vision'.unfinished = n /\ vision'.unfinished < m
    BY <1>1, <1>4
  <2> QED
    BY <1>4, <1>9, <1>10, <2>1, <2>2
<1>12. TrackIsFresh'
  <2> SUFFICES ASSUME ~vision.fatal, u.state \in {"OBSERVED", "PREDICTED"}
      PROVE  id - u.track.source \in 0..MaxPredict
    BY <1>1 DEF TrackIsFresh
  <2>1. u.state = "PREDICTED"
    BY <1>5
  <2>2. u.track.source \in Int /\ u.track.age = id - u.track.source
        /\ 0 <= u.track.age /\ u.track.age <= MaxPredict
    BY <1>5, <1>9, <2>1
  <2> QED
    BY <1>2, <2>2, TrackConstants DEF id
<1> QED
  BY <1>6, <1>7, <1>11, <1>12

\* The answer, however late: the new tracker has lived through every frame since.
LEMMA ReplayTrack ==
  ASSUME FreshInv, NEW seed \in Nat, reseed(seed),
         recorder'.recent = recorder.recent, UNCHANGED vision, job' = NoJob
  PROVE  TrackType' /\ TrackInv' /\ TrackIsFresh'
<1>1. CASE UNCHANGED <<tracker, latest>>
  <2>1. TrackType'
    BY <1>1 DEF FreshInv, TrackType, NoJob
  <2> QED
    BY <1>1, <2>1 DEF FreshInv, TrackInv, TrackIsFresh, NewestId
<1>2. CASE ~UNCHANGED <<tracker, latest>>
  <2>1. /\ Replayable(seed) /\ \A id \in seed..(NewestId - 1) : ~Outlived(ReplayedTo(id, seed))
        /\ tracker' = [source |-> seed, last |-> NewestId, age |-> NewestId - seed]
        /\ latest'.frame = NewestId /\ latest'.source = seed
    BY <1>2 DEF reseed, Output, ReplayedTo
  <2>2. recorder.recent # <<>> /\ NewestId \in Nat /\ NewestId - seed \in Nat
    <3>1. recorder.recent # <<>> /\ NewestId - seed \in 0..MaxReplay
      BY <2>1 DEF Replayable
    <3>2. recorder.recent \in Seq(Nat)
      BY DEF FreshInv, TrackType
    <3>3. Len(recorder.recent) \in 1..Len(recorder.recent)
      BY <3>1, <3>2, LenProperties, EmptySeq
    <3>4. NewestId \in Nat
      BY <3>2, <3>3, ElementOfSeq DEF NewestId
    <3> QED
      BY <3>1, <3>4, TrackConstants
  <2>3. NewestId - seed <= MaxPredict
    <3> SUFFICES ASSUME NewestId - seed > MaxPredict PROVE FALSE
      BY <2>2, TrackConstants
    <3>1. NewestId - 1 \in seed..(NewestId - 1)
      BY <2>2, TrackConstants
    <3>2. ~(ReplayedTo(NewestId - 1, seed).age >= MaxPredict)
      BY <2>1, <3>1 DEF Outlived
    <3>3. ReplayedTo(NewestId - 1, seed).age = NewestId - 1 - seed
      BY DEF ReplayedTo
    <3> QED
      BY <2>2, <3>2, <3>3, TrackConstants
  <2>4. NewestId' = NewestId
    BY DEF NewestId
  <2>5. TrackType'
    <3>1. tracker' \in [source : Int, last : Int, age : Int]
      BY <2>1, <2>2
    <3> QED
      BY <3>1 DEF FreshInv, TrackType, NoJob
  <2>6. TrackInv'
    <3>1. /\ tracker'.last = NewestId /\ tracker'.source = seed
          /\ tracker'.age = tracker'.last - tracker'.source
          /\ 0 <= tracker'.age /\ tracker'.age <= MaxPredict
      BY <2>1, <2>2, <2>3
    <3> QED
      BY <2>2, <2>4, <3>1 DEF FreshInv, TrackInv
  <2>7. TrackIsFresh'
    <3>1. latest'.frame - latest'.source \in 0..MaxPredict
      BY <2>1, <2>2, <2>3, TrackConstants
    <3> QED
      BY <3>1 DEF TrackIsFresh
  <2> QED
    BY <2>5, <2>6, <2>7
<1> QED
  BY <1>1, <1>2

LEMMA RecorderTrack ==
  ASSUME FreshInv, Recorder
  PROVE  FifoInv' /\ TrackType' /\ TrackInv' /\ TrackIsFresh'
<1>1. CASE store_raw_frame
  <2>1. /\ UNCHANGED <<vision, job, tracker, latest>> /\ recorder.at \in Busy
        /\ recorder'.frame = recorder.frame /\ recorder'.recent = recorder.recent
    BY <1>1 DEF store_raw_frame, write, Busy, FreshInv, CompleteInv, EvidenceInv, RecorderType
  <2> QED
    BY <2>1, TrackIsKept
<1>2. CASE startDrain \/ skipUnmasked \/ store_mask \/ drainFails \/ recorderEnds
  <2>1. /\ UNCHANGED <<vision, tracker, latest>> /\ recorder'.at \notin Busy
        /\ recorder'.recent = recorder.recent /\ (UNCHANGED job \/ job' = NoJob)
    BY <1>2 DEF startDrain, skipUnmasked, store_mask, drainFails, recorderEnds, EndedJob, Busy,
       FreshInv, CompleteInv, EvidenceInv, RecorderType
  <2>2. CASE UNCHANGED job
    BY <2>1, <2>2, TrackIsKept
  <2>3. CASE job' = NoJob
    BY <2>1, <2>3, TrackIsKept
  <2> QED
    BY <2>1, <2>2, <2>3
<1>3. CASE endDrain
  <2>1. /\ UNCHANGED vision /\ recorder'.at \notin Busy /\ recorder'.recent = recorder.recent
        /\ job' = NoJob
    BY <1>3 DEF endDrain, Busy, FreshInv, CompleteInv, EvidenceInv, RecorderType
  <2>2. FifoInv'
    BY <2>1 DEF FreshInv, FifoInv, Busy
  <2>3. CASE UNCHANGED <<tracker, latest>>
    BY <2>1, <2>3, TrackIsKept
  <2>4. CASE \E seed \in job.masked : reseed(seed)
    <3>1. PICK seed \in job.masked : reseed(seed)
      BY <2>4
    <3>2. seed \in Nat
      BY DEF FreshInv, TrackType
    <3> QED
      BY <2>1, <2>2, <3>1, <3>2, ReplayTrack
  <2> QED
    BY <1>3, <2>3, <2>4 DEF endDrain
<1> QED
  BY <1>1, <1>2, <1>3, GetFrameTrack, StoreFailsTrack, TrackStep DEF Recorder

LEMMA OthersTrack ==
  ASSUME FreshInv,
         \/ frameArrives \/ frameIsAmiss \/ frameIsBroken \/ CaptureThread \/ segment_clip
         \/ sampleArrives \/ sampleIsAmiss \/ Pump \/ stop_capture \/ Shutdown
         \/ UNCHANGED captureVars
  PROVE  FifoInv' /\ TrackType' /\ TrackInv' /\ TrackIsFresh'
<1>1. UNCHANGED <<recorder, tracker, latest>>
  BY DEF frameArrives, frameIsAmiss, frameIsBroken, CaptureThread, readStatus, checkHealth, takeFrame,
     noFrame, captureUnchanged, segment_clip, sampleArrives, sampleIsAmiss, Pump, pumpSample,
     pumpSeesDrops, pumpEnds, pumpUnchanged, stop_capture, Shutdown, releaseBrush, request_stop,
     joinCapture, flushPipeline, flush, stopPump, joinPump, stopRecorder, flushAgain, verdict,
     closeUnchanged, captureVars
<1>2. CASE \/ frameArrives \/ frameIsAmiss \/ frameIsBroken \/ sampleArrives \/ sampleIsAmiss \/ Pump
           \/ readStatus \/ checkHealth \/ noFrame \/ UNCHANGED captureVars
  <2>1. UNCHANGED <<vision, job>>
    BY <1>2 DEF frameArrives, frameIsAmiss, frameIsBroken, sampleArrives, sampleIsAmiss, Pump,
       pumpSample, pumpSeesDrops, pumpEnds, pumpUnchanged, readStatus, checkHealth, noFrame,
       captureUnchanged, captureVars
  <2> QED
    BY <1>1, <2>1, TrackIsKept
<1>3. ASSUME NEW r \in BOOLEAN, takeFrame(r) PROVE FifoInv' /\ TrackType' /\ TrackInv' /\ TrackIsFresh'
  <2>1. UNCHANGED job
    BY <1>3 DEF takeFrame
  <2>2. Head(camera.frames) \in Nat /\ (UNCHANGED vision \/ admit(Head(camera.frames)))
    BY <1>3, TakenFrame DEF FreshInv, CompleteInv, EvidenceInv
  <2>3. CASE UNCHANGED vision
    BY <1>1, <2>1, <2>3, TrackIsKept
  <2>4. CASE admit(Head(camera.frames))
    BY <1>1, <2>1, <2>2, <2>4, AdmitTrack
  <2> QED
    BY <2>2, <2>3, <2>4
<1>4. CASE segment_clip
  <2>1. UNCHANGED vision /\ job.state # "none" /\ job'.clip = job.clip /\ job'.masked \subseteq Nat
    <3>1. /\ UNCHANGED vision /\ job.state = "asked"
          /\ \/ job' = [job EXCEPT !.state = "failed"]
             \/ \E found \in SUBSET {job.clip[k] : k \in DOMAIN job.clip} :
                  job' = [job EXCEPT !.state = "done", !.masked = found]
      BY <1>4 DEF segment_clip, Maskings
    <3>2. DOMAIN job = {"state", "clip", "masked"} /\ job.masked \subseteq Nat
          /\ {job.clip[k] : k \in DOMAIN job.clip} \subseteq Nat
      BY DEF FreshInv, CompleteInv, EvidenceInv, RecorderType, TrackType
    <3> QED
      BY <3>1, <3>2
  <2> QED
    BY <1>1, <2>1, TrackIsKept
<1>5. CASE stop_capture \/ Shutdown
  BY <1>1, <1>5, ShutdownChanges, TrackIsKept DEF FreshInv
<1> QED
  BY <1>2, <1>3, <1>4, <1>5 DEF CaptureThread

LEMMA CaptureInitFresh == CaptureInit => FreshInv
<1> SUFFICES ASSUME CaptureInit PROVE FreshInv
  OBVIOUS
<1>1. /\ vision.ingest = <<>> /\ vision.received = <<>> /\ vision.unfinished = 0
      /\ recorder.at = "loop" /\ recorder.recent = <<>> /\ job = NoJob /\ tracker = NoTrack
      /\ latest.state = "UNKNOWN"
  BY DEF CaptureInit, NothingRecorded, Sdk, SupervisorAt, NothingReceived, RecorderAt, NoEvidence, BrushLine, PumpAt
<1>2. FifoInv /\ TrackInv /\ TrackIsFresh
  BY <1>1 DEF FifoInv, TrackInv, TrackIsFresh, Busy, NoTrack
<1>3. TrackType
  BY <1>1 DEF TrackType, NoJob, NoTrack
<1> QED
  BY <1>2, <1>3, CaptureInitComplete DEF FreshInv

LEMMA FreshStep == FreshInv /\ [CaptureNext]_captureVars => FreshInv'
<1> SUFFICES ASSUME FreshInv, [CaptureNext]_captureVars PROVE FreshInv'
  OBVIOUS
<1>1. CompleteInv'
  BY CompleteStep DEF FreshInv
<1>2. FifoInv' /\ TrackType' /\ TrackInv' /\ TrackIsFresh'
  BY OthersTrack, RecorderTrack DEF CaptureNext
<1> QED
  BY <1>1, <1>2 DEF FreshInv

\* While every frame is archived, a track that is shown was seen by SAM3 on one
\* of the last MaxPredict frames.
THEOREM TracksAreFresh == CaptureSpec => []TrackIsFresh
<1>1. FreshInv => TrackIsFresh
  BY DEF FreshInv
<1> QED
  BY <1>1, CaptureInitFresh, FreshStep, PTL DEF CaptureSpec

-----------------------------------------------------------------------------
(* PoseCalibration: CommitIsEarned, for any number of restarts,            *)
(* confirmations and calls.                                                *)

Places  == {"idle", "gone", "collected", "mapped", "enter", "entered", "confirm", "advance",
            "commit"} \cup Keys
Results == {"stand", "pickup", "confirmation", "locked"} \cup Tests

PoseType ==
  /\ at \in [Actors -> Places] /\ target \in [Actors -> Stages \cup {"none"}]
  /\ stage \in Stages \cup {"IDLE", "COMMITTED"}
  /\ results \subseteq Results /\ under \in [Tests -> Int]
  /\ seen \in [kind : Holds \cup {"none"}, reference : Int]
  /\ confirms \in Nat /\ reference \in {NoReference, Saved, confirms}
  /\ at["gui"] = "collected" => reference = NoReference /\ ~mismatch /\ seen.reference = NoReference

\* The stages after the first test, and a test whose result was just stored.
Onward   == {"Y_TEST", "ROLL_TEST", "REVIEW"}
Recorded == at["gui"] = "enter" /\ target["gui"] \in Onward
InTest   == at["gui"] \in Tests \/ Recorded

\* A result of a stage that is yet to be passed is about to be acted upon.
KeyInv ==
  /\ \A a \in Actors : at[a] = "enter" => target[a] \in Stages
  /\ at["gui"] \in Tests => target["gui"] \in Onward
  /\ at["gui"] = "locked" => target["gui"] = "X_TEST"
  /\ at["gui"] = "pickup" => target["gui"] = "UP_R0"
  /\ at["gui"] = "stand" => target["gui"] = "PICK_UP"
  /\ stage = "UP_R0" /\ "locked" \in results => at["gui"] = "enter" /\ target["gui"] = "X_TEST"
  /\ stage = "ON_STAND" /\ "stand" \in results => at["gui"] = "enter" /\ target["gui"] = "PICK_UP"
  /\ stage = "UP_R0" /\ Tests \cap results # {} => Recorded

\* In a test there is no upright frame left that could be confirmed, and a
\* confirmation that is under way comes too late.
UprightInv ==
  /\ Testing => last_up0 = "none" \/ \E a \in Actors : at[a] = "entered"
  /\ InTest => /\ last_up0 = "none" \/ at["agent"] = "entered"
               /\ at["agent"] = "confirm" => stage # "UP_R0"

\* The reference is of the last confirmation, or the next one locked will be.
Live ==
  \/ reference = confirms
  \/ reference = NoReference /\ enabled /\ ~restoring /\ ~mismatch

\* A frame of an earlier reference passes no test.
FrameIsOld == at["gui"] = "mapped" /\ seen.reference \notin {NoReference, confirms}

EarnedInv ==
  ~overtaken /\ Live =>
    /\ \A t \in Tests \cap results : under[t] = confirms
    /\ at["gui"] \in Tests => seen.reference = confirms
    /\ FrameIsOld =>
         /\ stage \in {"UP_R0", "IDLE", "ON_STAND"}
         /\ at["agent"] \in {"idle", "enter", "entered", "confirm"}
         /\ at["agent"] \in {"enter", "entered"} => target["agent"] \in {"UP_R0", "ON_STAND"}

PoseInv == PoseType /\ KeyInv /\ UprightInv /\ EarnedInv

LEMMA PoseMap_frame == ASSUME PoseInv, map_frame PROVE PoseInv'
<1>1. PoseType'
  BY DEF PoseInv, PoseType, map_frame, boundVars, mapperVars, sessionVars, Goto, reset_reference,
     Places, NoReference, Locked
<1>2. KeyInv'
  BY <1>1 DEF PoseInv, PoseType, KeyInv, map_frame, sessionVars, Goto, Tests, Recorded
<1>3. UprightInv'
  BY <1>1 DEF PoseInv, PoseType, UprightInv, map_frame, sessionVars, Goto, Tests, Recorded,
     InTest, Testing
<1>4. EarnedInv'
  BY <1>1 DEF PoseInv, PoseType, EarnedInv, map_frame, boundVars, mapperVars, sessionVars, Goto,
     reset_reference, Tests, FrameIsOld, Live, NoReference
<1> QED
  BY <1>1, <1>2, <1>3, <1>4 DEF PoseInv

LEMMA PoseLockReference == ASSUME PoseInv, lockReference PROVE PoseInv'
<1>1. PoseType'
  BY DEF PoseInv, PoseType, lockReference, boundVars, Goto, Places, Actors, Saved
<1>2. KeyInv'
  BY <1>1 DEF PoseInv, KeyInv, lockReference, Goto, Tests, Recorded
<1>3. UprightInv'
  BY <1>1 DEF PoseInv, UprightInv, lockReference, Goto, Tests, Recorded, InTest, Testing
<1>4. EarnedInv'
  <2>1. /\ at["gui"] = "collected" /\ at' = [at EXCEPT !["gui"] = "mapped"]
        /\ reference = NoReference /\ ~mismatch
        /\ restoring' = FALSE /\ seen' = [seen EXCEPT !.reference = reference']
        /\ overtaken' = (overtaken \/ ~enabled)
        /\ UNCHANGED <<enabled, confirms, results, under, stage, target>>
    BY DEF PoseInv, PoseType, lockReference, Goto, boundVars
  <2>2. at'["gui"] = "mapped" /\ seen'.reference = reference'
    BY <2>1 DEF PoseInv, PoseType, Actors
  <2>3. CASE restoring
    <3>1. (reference' = Saved \/ (mismatch' /\ reference' = NoReference)) /\ confirms \in Nat
      BY <2>1, <2>3 DEF PoseInv, PoseType, lockReference
    <3>2. ~Live'
      BY <2>1, <3>1 DEF Live, Saved, NoReference
    <3> QED
      BY <3>2 DEF EarnedInv
  <2>4. CASE ~restoring
    <3>1. reference' = confirms
      BY <2>4 DEF lockReference
    <3>2. ~overtaken' => ~overtaken /\ Live
      BY <2>1, <2>4 DEF Live
    <3>3. ~FrameIsOld'
      BY <2>1, <2>2, <3>1 DEF FrameIsOld
    <3> QED
      BY <2>1, <2>2, <3>2, <3>3 DEF PoseInv, EarnedInv, Tests
  <2> QED
    BY <2>3, <2>4
<1> QED
  BY <1>1, <1>2, <1>3, <1>4 DEF PoseInv

LEMMA PoseReferenceLost == ASSUME PoseInv, referenceLost PROVE PoseInv'
<1>1. PoseType'
  BY DEF PoseInv, PoseType, referenceLost, boundVars, mapperVars, sessionVars, Goto, Places, Stages
<1>2. KeyInv'
  BY <1>1 DEF PoseInv, PoseType, KeyInv, referenceLost, sessionVars, Goto, Tests, Testing
<1>3. UprightInv'
  BY <1>1 DEF PoseInv, UprightInv, referenceLost, sessionVars, Goto, Actors, Testing
<1>4. EarnedInv'
  BY <1>1 DEF PoseInv, EarnedInv, referenceLost, boundVars, mapperVars, sessionVars, Goto, Tests,
     FrameIsOld, Live
<1> QED
  BY <1>1, <1>2, <1>3, <1>4 DEF PoseInv

LEMMA PoseCompletesStage == ASSUME PoseInv, completesStage PROVE PoseInv'
<1>1. PoseType'
  BY DEF PoseInv, PoseType, completesStage, boundVars, mapperVars, sessionVars, Goto, Places,
     Actors, Completes
<1>2. KeyInv'
  BY <1>1 DEF PoseInv, PoseType, KeyInv, completesStage, sessionVars, Goto, Tests, Onward,
     Recorded, Completes
<1>3. UprightInv'
  BY <1>1 DEF PoseInv, UprightInv, completesStage, sessionVars, Goto, Actors, Tests, Recorded,
     InTest, Testing, Completes
<1>4. EarnedInv'
  BY <1>1 DEF PoseInv, EarnedInv, completesStage, boundVars, mapperVars, sessionVars, Goto, Tests,
     Testing, FrameIsOld, Live, Completes
<1> QED
  BY <1>1, <1>2, <1>3, <1>4 DEF PoseInv

LEMMA PoseRecordResult == ASSUME PoseInv, recordResult PROVE PoseInv'
<1>1. PoseType'
  <2>1. /\ at["gui"] \in Keys /\ at' = [at EXCEPT !["gui"] = "enter"]
        /\ results' = results \cup {at["gui"]}
        /\ UNCHANGED <<stage, target, seen, confirms, reference, mismatch>>
    BY DEF recordResult, Goto, boundVars, mapperVars
  <2>2. at' \in [Actors -> Places] /\ at'["gui"] = "enter"
    BY <2>1 DEF PoseInv, PoseType, Actors, Places
  <2>3. results' \subseteq Results
    <3>1. at["gui"] \in Results \/ at["gui"] = "pickup" \/ at["gui"] = "stand"
      BY <2>1 DEF Keys, Results
    <3> QED
      BY <2>1, <3>1 DEF PoseInv, PoseType, Results
  <2>4. under' \in [Tests -> Int]
    BY DEF PoseInv, PoseType, recordResult
  <2> QED
    BY <2>1, <2>2, <2>3, <2>4 DEF PoseInv, PoseType
<1>2. KeyInv'
  <2>1. /\ at["gui"] \in Keys /\ at' = [at EXCEPT !["gui"] = "enter"]
        /\ results' = results \cup {at["gui"]} /\ UNCHANGED <<stage, target>>
    BY DEF recordResult, Goto
  <2>2. at'["gui"] = "enter" /\ \A a \in Actors \ {"gui"} : at'[a] = at[a]
    BY <2>1 DEF PoseInv, PoseType, Actors
  <2>3. /\ at["gui"] \in Tests => target["gui"] \in Onward
        /\ at["gui"] = "locked" => target["gui"] = "X_TEST"
        /\ at["gui"] = "pickup" => target["gui"] = "UP_R0"
        /\ at["gui"] = "stand" => target["gui"] = "PICK_UP"
    BY DEF PoseInv, KeyInv
  <2>4. target["gui"] \in Stages
    BY <2>1, <2>3 DEF Keys, Stages, Onward
  <2>5. /\ stage = "UP_R0" => "locked" \notin results /\ Tests \cap results = {}
        /\ stage = "ON_STAND" => "stand" \notin results
    BY <2>1 DEF PoseInv, KeyInv, Recorded, Keys, Tests
  <2> QED
    BY <2>1, <2>2, <2>3, <2>4, <2>5 DEF PoseInv, KeyInv, Recorded, Tests
<1>3. UprightInv'
  BY <1>1 DEF PoseInv, KeyInv, UprightInv, recordResult, Goto, Keys, Tests, Onward, Recorded,
     InTest, Testing
<1>4. EarnedInv'
  BY <1>1 DEF PoseInv, PoseType, EarnedInv, recordResult, boundVars, mapperVars, Goto, Tests,
     FrameIsOld, Live
<1> QED
  BY <1>1, <1>2, <1>3, <1>4 DEF PoseInv

LEMMA PoseKeepsFrame == ASSUME PoseInv, keepsFrame PROVE PoseInv'
<1>1. PoseType'
  BY DEF PoseInv, PoseType, keepsFrame, boundVars, mapperVars, Goto, Places, Actors, NotSeen,
     NoReference
<1>2. KeyInv'
  BY <1>1 DEF PoseInv, KeyInv, keepsFrame, Goto, Tests, Recorded
<1>3. UprightInv'
  BY <1>1 DEF PoseInv, UprightInv, keepsFrame, Goto, Tests, Recorded, InTest, Testing
<1>4. EarnedInv'
  BY <1>1 DEF PoseInv, EarnedInv, keepsFrame, boundVars, mapperVars, Goto, Tests, NotSeen,
     FrameIsOld, Live
<1> QED
  BY <1>1, <1>2, <1>3, <1>4 DEF PoseInv

LEMMA PoseRevoke == ASSUME PoseInv, revoke PROVE PoseInv'
<1>1. PoseType'
  BY DEF PoseInv, PoseType, revoke, sessionVars, Called, disarm_reference, reset_reference
<1>2. KeyInv'
  BY <1>1 DEF PoseInv, KeyInv, revoke, sessionVars, Recorded
<1>3. UprightInv'
  BY <1>1 DEF PoseInv, UprightInv, revoke, sessionVars, Recorded, InTest, Testing
<1>4. EarnedInv'
  BY <1>1 DEF PoseType, EarnedInv, revoke, disarm_reference, reset_reference, Live, NoReference
<1> QED
  BY <1>1, <1>2, <1>3, <1>4 DEF PoseInv

LEMMA PoseBaseStarts == ASSUME PoseInv, baseStarts PROVE PoseInv'
<1>1. PoseType'
  BY DEF PoseInv, PoseType, baseStarts, mapperVars, sessionVars
<1>2. KeyInv'
  BY <1>1 DEF PoseInv, KeyInv, baseStarts, sessionVars, Recorded
<1>3. UprightInv'
  BY <1>1 DEF PoseInv, UprightInv, baseStarts, sessionVars, Recorded, InTest, Testing
<1>4. EarnedInv'
  BY <1>1 DEF PoseInv, EarnedInv, baseStarts, mapperVars, sessionVars, FrameIsOld, Live
<1> QED
  BY <1>1, <1>2, <1>3, <1>4 DEF PoseInv

LEMMA PoseStart == ASSUME PoseInv, NEW a \in Actors, start(a) PROVE PoseInv'
<1>1. PoseType'
  BY DEF PoseInv, PoseType, start, Goto, Called, disarm_reference, reset_reference, resetSession,
     Places, Stages, NoReference
<1>2. KeyInv'
  BY <1>1 DEF PoseInv, PoseType, KeyInv, start, Goto, resetSession, Tests
<1>3. UprightInv'
  BY <1>1 DEF UprightInv, start, resetSession
<1>4. EarnedInv'
  BY <1>1 DEF PoseType, EarnedInv, start, disarm_reference, reset_reference, Live, NoReference
<1> QED
  BY <1>1, <1>2, <1>3, <1>4 DEF PoseInv

LEMMA PoseCancel == ASSUME PoseInv, NEW a \in Actors, cancel(a) PROVE PoseInv'
<1>1. PoseType'
  BY DEF PoseInv, PoseType, cancel, Called, disarm_reference, reset_reference, resetSession,
     NoReference
<1>2. KeyInv'
  BY <1>1 DEF PoseInv, KeyInv, cancel, resetSession
<1>3. UprightInv'
  BY <1>1 DEF UprightInv, cancel, resetSession
<1>4. EarnedInv'
  BY <1>1 DEF PoseType, EarnedInv, cancel, disarm_reference, reset_reference, Live, NoReference
<1> QED
  BY <1>1, <1>2, <1>3, <1>4 DEF PoseInv

LEMMA PoseRetry == ASSUME PoseInv, NEW a \in Actors, retry(a) PROVE PoseInv'
<1>1. PoseType'
  BY DEF PoseInv, PoseType, retry, mapperVars, sessionVars, Goto, Called, Places, Stages
<1>2. KeyInv'
  BY <1>1 DEF PoseInv, PoseType, KeyInv, retry, sessionVars, Goto, Called, Tests, Recorded
<1>3. UprightInv'
  BY <1>1 DEF PoseInv, PoseType, UprightInv, retry, sessionVars, Goto, Called, Actors, Tests,
     Onward, Recorded, InTest, Testing
<1>4. EarnedInv'
  BY <1>1 DEF PoseInv, PoseType, EarnedInv, retry, mapperVars, sessionVars, Goto, Called, Tests,
     FrameIsOld, Live
<1> QED
  BY <1>1, <1>2, <1>3, <1>4 DEF PoseInv

LEMMA PoseBeginAdvance == ASSUME PoseInv, NEW a \in Actors, beginAdvance(a) PROVE PoseInv'
<1>1. PoseType'
  BY DEF PoseInv, PoseType, beginAdvance, mapperVars, sessionVars, Goto, Called, Places
<1>2. KeyInv'
  BY <1>1 DEF PoseInv, KeyInv, beginAdvance, sessionVars, Goto, Called, Tests, Recorded
<1>3. UprightInv'
  BY <1>1 DEF PoseInv, UprightInv, beginAdvance, sessionVars, Goto, Called, Tests, Recorded,
     InTest, Testing
<1>4. EarnedInv'
  BY <1>1 DEF PoseInv, KeyInv, EarnedInv, beginAdvance, mapperVars, sessionVars, Goto, Called,
     Tests, FrameIsOld, Live, Requirement
<1> QED
  BY <1>1, <1>2, <1>3, <1>4 DEF PoseInv

LEMMA PoseEndAdvance == ASSUME PoseInv, NEW a \in Actors, endAdvance(a) PROVE PoseInv'
<1>1. PoseType'
  BY DEF PoseInv, PoseType, endAdvance, boundVars, mapperVars, sessionVars, Goto, Places, Actors,
     Stages, NextStep
<1>2. KeyInv'
  BY <1>1 DEF PoseInv, PoseType, KeyInv, endAdvance, sessionVars, Goto, Actors, Tests, Recorded,
     NextStep
<1>3. UprightInv'
  BY <1>1 DEF PoseInv, PoseType, UprightInv, endAdvance, sessionVars, Goto, Actors, Tests, Onward,
     Recorded, InTest, Testing, NextStep
<1>4. EarnedInv'
  BY <1>1 DEF PoseInv, PoseType, EarnedInv, endAdvance, boundVars, mapperVars, sessionVars, Goto,
     Actors, Tests, FrameIsOld, Live
<1> QED
  BY <1>1, <1>2, <1>3, <1>4 DEF PoseInv

LEMMA PoseBeginConfirm == ASSUME PoseInv, NEW a \in Actors, beginConfirm(a) PROVE PoseInv'
<1>1. PoseType'
  BY DEF PoseInv, PoseType, beginConfirm, mapperVars, sessionVars, Goto, Called, Places
<1>2. KeyInv'
  BY <1>1 DEF PoseInv, KeyInv, beginConfirm, sessionVars, Goto, Called, Tests, Recorded
<1>3. UprightInv'
  BY <1>1 DEF PoseInv, UprightInv, beginConfirm, sessionVars, Goto, Called, Tests, Recorded,
     InTest, Testing, Upright
<1>4. EarnedInv'
  BY <1>1 DEF PoseInv, EarnedInv, beginConfirm, mapperVars, sessionVars, Goto, Called, Tests,
     FrameIsOld, Live
<1> QED
  BY <1>1, <1>2, <1>3, <1>4 DEF PoseInv

LEMMA PoseEndConfirm == ASSUME PoseInv, NEW a \in Actors, endConfirm(a) PROVE PoseInv'
<1>1. PoseType'
  BY DEF PoseInv, PoseType, endConfirm, Goto, arm_reference, Places, Results
<1>2. KeyInv'
  BY <1>1 DEF PoseInv, KeyInv, endConfirm, Goto, Tests, Recorded
<1>3. UprightInv'
  BY <1>1 DEF PoseInv, UprightInv, endConfirm, Goto, Tests, Recorded, InTest, Testing
<1>4. EarnedInv'
  BY <1>1 DEF PoseInv, PoseType, KeyInv, UprightInv, EarnedInv, endConfirm, boundVars, mapperVars,
     sessionVars, Goto, Called, disarm_reference, reset_reference, Actors, Tests, Recorded, InTest,
     FrameIsOld
<1> QED
  BY <1>1, <1>2, <1>3, <1>4 DEF PoseInv

LEMMA PoseBeginCommit == ASSUME PoseInv, NEW a \in Actors, beginCommit(a) PROVE PoseInv'
<1>1. PoseType'
  BY DEF PoseInv, PoseType, beginCommit, mapperVars, sessionVars, Goto, Called, Places
<1>2. KeyInv'
  BY <1>1 DEF PoseInv, KeyInv, beginCommit, sessionVars, Goto, Tests, can_commit
<1>3. UprightInv'
  BY <1>1 DEF PoseInv, UprightInv, beginCommit, sessionVars, Goto, Called, Tests, Recorded,
     InTest, Testing
<1>4. EarnedInv'
  BY <1>1 DEF PoseInv, EarnedInv, beginCommit, mapperVars, sessionVars, Goto, Called, Tests,
     FrameIsOld, Live, can_commit
<1> QED
  BY <1>1, <1>2, <1>3, <1>4 DEF PoseInv

LEMMA PoseEndCommit == ASSUME PoseInv, NEW a \in Actors, endCommit(a) PROVE PoseInv'
<1>1. PoseType'
  BY DEF PoseInv, PoseType, endCommit, boundVars, mapperVars, Goto, Places
<1>2. KeyInv'
  BY <1>1 DEF PoseInv, KeyInv, endCommit, Goto, Tests
<1>3. UprightInv'
  BY <1>1 DEF PoseInv, UprightInv, endCommit, Goto, Tests, Recorded, InTest, Testing
<1>4. EarnedInv'
  BY <1>1 DEF PoseInv, EarnedInv, endCommit, boundVars, mapperVars, Goto, Actors, Tests,
     FrameIsOld, Live
<1> QED
  BY <1>1, <1>2, <1>3, <1>4 DEF PoseInv

LEMMA PoseEnterStage == ASSUME PoseInv, NEW a \in Actors, enterStage(a) PROVE PoseInv'
<1>1. PoseType'
  BY DEF PoseInv, PoseType, KeyInv, enterStage, boundVars, mapperVars, Goto, Places, NoReference
<1>2. KeyInv'
  BY <1>1 DEF PoseInv, KeyInv, enterStage, Goto, Tests, Forgotten
<1>3. UprightInv'
  BY <1>1 DEF PoseType, UprightInv, enterStage, Goto, Actors, Tests, Recorded, InTest
<1>4. EarnedInv'
  BY <1>1 DEF PoseInv, EarnedInv, enterStage, boundVars, mapperVars, Goto, Actors, Tests,
     FrameIsOld, Live
<1> QED
  BY <1>1, <1>2, <1>3, <1>4 DEF PoseInv

LEMMA PoseEndEnter == ASSUME PoseInv, NEW a \in Actors, endEnter(a) PROVE PoseInv'
<1>1. PoseType'
  BY DEF PoseInv, PoseType, endEnter, boundVars, mapperVars, Goto, disarm_reference,
     reset_reference, Places, NotSeen, NoReference
<1>2. KeyInv'
  BY <1>1 DEF PoseInv, KeyInv, endEnter, Goto, Tests, Recorded
<1>3. UprightInv'
  BY <1>1 DEF UprightInv, endEnter, Goto, Actors, Tests, Recorded, InTest
<1>4. EarnedInv'
  BY <1>1 DEF PoseInv, PoseType, EarnedInv, endEnter, boundVars, mapperVars, Goto,
     disarm_reference, reset_reference, Tests, FrameIsOld, Places, Keys, Actors, Stages, NotSeen,
     Live, NoReference
<1> QED
  BY <1>1, <1>2, <1>3, <1>4 DEF PoseInv

LEMMA PoseInitInv == ASSUME PoseInit PROVE PoseInv
<1>1. PoseType
  BY DEF PoseInit, MapperInit, SessionInit, ThreadsInit, PoseType, Places,
     NotSeen, Holds, NoReference, Saved
<1>2. KeyInv /\ UprightInv
  BY DEF PoseInit, SessionInit, ThreadsInit, KeyInv, UprightInv, Actors, Tests
<1>3. ~Live
  BY DEF PoseInit, MapperInit, Live, NoReference
<1>4. EarnedInv
  BY <1>3 DEF EarnedInv
<1> QED
  BY <1>1, <1>2, <1>4 DEF PoseInv

LEMMA PoseStep == ASSUME PoseInv, [PoseNext]_poseVars PROVE PoseInv'
<1>1. CASE UNCHANGED poseVars
  BY <1>1 DEF poseVars, boundVars, mapperVars, sessionVars, PoseInv, PoseType, KeyInv, UprightInv,
     EarnedInv, Recorded, InTest, Testing, FrameIsOld, Live
<1>2. CASE \E a \in Actors : OperatorCalls(a)
  BY <1>2, PoseStart, PoseCancel, PoseRetry, PoseBeginAdvance, PoseEndAdvance, PoseBeginConfirm,
     PoseEndConfirm, PoseBeginCommit, PoseEndCommit, PoseEnterStage, PoseEndEnter DEF OperatorCalls
<1>3. CASE map_frame \/ lockReference \/ update \/ revoke \/ baseStarts
  BY <1>3, PoseMap_frame, PoseLockReference, PoseReferenceLost, PoseCompletesStage,
     PoseRecordResult,
     PoseKeepsFrame, PoseRevoke, PoseBaseStarts DEF update
<1> QED
  BY <1>1, <1>2, <1>3 DEF PoseNext

LEMMA PoseInvHolds == PoseSpec => []PoseInv
  BY PoseInitInv, PoseStep, PTL DEF PoseSpec

\* pose_calibration.py: whatever the two threads do to each other, a profile can
\* be committed only if all three tests were passed with the reference in place,
\* unless that is one restored from disk, or was armed or locked too late.
THEOREM CommitsAreEarned == PoseSpec => []CommitIsEarned
<1>1. PoseInv => CommitIsEarned
  BY DEF PoseInv, PoseType, EarnedInv, CommitIsEarned, Live, can_commit, Locked
<1> QED
  BY <1>1, PoseInvHolds, PTL

-----------------------------------------------------------------------------
(* HallExtrinsic: ReadyIsValidated and MountHasItsProfile for all numbers   *)
(* of poses, profiles, rotations and mishaps.  Every pose that is held was  *)
(* mapped with what the session started with; and from _apply_profile() on  *)
(* it is known what each file names, and what they named before.            *)

Rotations == [board : Angles \cup {None}, brush : Angles \cup {None}]
Poses     == [turn : Turns \cup {None}, fusion : Nat, rotation : Rotations]
Matches   == [fusion : Nat, rotation : Rotations]
Steps     == {"idle", "mount", "active", "rollback", "unlink"}

\* What the session looks at.
SeenType ==
  /\ launched \in BOOLEAN
  /\ {fusion, locks, rotations, mishaps} \subseteq Nat
  /\ rotation \in [board : Angles, brush : Angles]
  /\ frame \in Poses

CalType ==
  /\ session \in {"IDLE", "COLLECT", "VALIDATE", "READY", "INVALID", "COMMITTED"}
  /\ fingerprint \in Matches
  /\ armed \in BOOLEAN
  /\ window \in Poses
  /\ train \in Seq(Poses) /\ validation \in Seq(Poses) /\ candidate \in Seq(Poses)
  /\ slipped \in BOOLEAN

FileType ==
  /\ DOMAIN profiles \subseteq Names
  /\ baseline \in {None, Initial}
  /\ mountFile \in Mounts
  /\ activeFile \in Mounts \cup {None}
  /\ mount \in Mounts \cup {None} /\ checked \in Names \cup {None}
  /\ io \in Steps
  /\ applying \in [name : Mounts \cup {None}, committing : BOOLEAN, previous : Mounts \cup {None}]
  /\ torn \in BOOLEAN

\* A frame that was mapped with a reference was mapped with the one there is,
\* or there is none.
FrameInv == frame.fusion # 0 => fusion \in {0, frame.fusion}

\* Taken under the session's reference and, but for a slip, its rotations.
Matched(pose) ==
  /\ pose.fusion = fingerprint.fusion
  /\ ~slipped => pose.rotation = fingerprint.rotation

SamplesInv ==
  /\ window # NoPose => Matched(window)
  /\ \A i \in 1 .. Len(train) : Matched(train[i])
  /\ \A j \in 1 .. Len(validation) : Matched(validation[j])
  /\ \A i \in 1 .. Len(train), j \in 1 .. Len(validation) : train[i] # validation[j]

\* What was fitted, and what it was tested on.
FitInv ==
  /\ session \in {"VALIDATE", "READY"} => candidate = train /\ Len(train) >= MinTrain
  /\ session = "READY" => /\ outcome = [passed |-> TRUE, fit |-> candidate, on |-> validation]
                          /\ Len(validation) >= MinValidate

Sound(m) ==
  \/ m = Initial /\ activeFile \in {None, Initial}
  \/ m \in DOMAIN profiles /\ activeFile = m

MappingOf(m) == IF m = Initial THEN None ELSE m

\* From the start of _apply_profile() until it is done or undone.
BaselineInv ==
  /\ baseline = None => mountFile = Initial
  /\ launched => baseline = Initial
  /\ ~launched => io = "idle"

ApplyInv ==
  /\ launched => mount \in Mounts
  /\ io \in {"mount", "active", "rollback"} => /\ applying.name \in DOMAIN profiles \cup {Initial}
                                             /\ applying.previous \in Mounts
  /\ io \in {"active", "rollback"} => mountFile = applying.name /\ mount = mountFile
  /\ ~torn /\ io \in {"idle", "mount", "unlink"} =>
       Sound(mountFile) /\ (launched => mount = mountFile /\ checked = MappingOf(mount))
  /\ ~torn /\ io \in {"active", "rollback"} =>
       Sound(applying.previous) /\ checked = MappingOf(applying.previous)
  /\ ~torn /\ io = "mount" => applying.previous = mount
  /\ ~torn /\ (io = "unlink" \/ (io = "mount" /\ applying.committing)) => mountFile # applying.name
  /\ ~torn /\ applying.committing /\ io \in {"active", "rollback"} => applying.previous # applying.name



CalInv  == CalType /\ SamplesInv /\ FitInv
SeenInv == SeenType /\ FrameInv
FileInv == FileType /\ BaselineInv /\ ApplyInv
HallInv == SeenInv /\ CalInv /\ FileInv

-----------------------------------------------------------------------------

LEMMA BlankTypes == NoPose \in Poses /\ NoMatch \in Matches
  BY DEF NoPose, NoMatch, NoRotation, Poses, Matches, Rotations

LEMMA SeenStep == ASSUME SeenInv, HallNext PROVE SeenInv'
<1> USE HallAssumption
<1>1. ASSUME lockFusion PROVE SeenInv'
  BY <1>1 DEF lockFusion, SeenInv, SeenType, FrameInv, NoPose, mountVars
<1>2. ASSUME dropFusion PROVE SeenInv'
  BY <1>2 DEF dropFusion, SeenInv, SeenType, FrameInv, mountVars
<1>3. ASSUME rotate PROVE SeenInv'
  BY <1>3 DEF rotate, SeenInv, SeenType, FrameInv, mountVars
<1>4. ASSUME mapFrame PROVE SeenInv'
  <2>1. PICK turn \in Turns : frame' = [turn |-> turn, fusion |-> fusion, rotation |-> rotation]
    BY <1>4 DEF mapFrame
  <2>2. frame' \in Poses /\ frame'.fusion = fusion
    BY <2>1 DEF SeenInv, SeenType, Poses, Rotations
  <2>3. UNCHANGED <<launched, fusion, rotation, locks, rotations, mishaps>>
    BY <1>4 DEF mapFrame, mountVars
  <2> QED
    BY <2>2, <2>3 DEF SeenInv, SeenType, FrameInv
<1>5. ASSUME updateHall PROVE SeenInv'
  <2>1. UNCHANGED <<launched, fusion, rotation, locks, rotations, mishaps>> /\ frame' = NoPose
    BY <1>5 DEF updateHall, leaveFrame, endSession, rejectFrame, holdFrame, finishWindow, Recording,
       Updating, mountVars
  <2> QED
    BY <2>1, BlankTypes DEF SeenInv, SeenType, FrameInv, NoPose
<1>6. ASSUME startSession \/ cancelSession \/ arm \/ undo \/ solve PROVE SeenInv'
  BY <1>6 DEF startSession, cancelSession, arm, undo, solve, Calling, seenVars, mountVars,
     SeenInv, SeenType, FrameInv
<1>7. ASSUME commitProfile \/ load PROVE SeenInv'
  BY <1>7 DEF commitProfile, load, Apply, seenVars, SeenInv, SeenType, FrameInv
<1>8. ASSUME refuseCommit PROVE SeenInv'
  BY <1>8 DEF refuseCommit, WriteFails, seenVars, SeenInv, SeenType, FrameInv
<1>9. ASSUME writeMount \/ writeActive \/ activeFails \/ rollback \/ unlink PROVE SeenInv'
  BY <1>9 DEF writeMount, writeActive, activeFails, rollback, unlink, WriteFails, seenVars,
     SeenInv, SeenType, FrameInv
<1>10. ASSUME launch PROVE SeenInv'
  BY <1>10 DEF launch, seenVars, SeenInv, SeenType, FrameInv
<1>11. ASSUME quit PROVE SeenInv'
  <2>1. launched' = FALSE /\ fusion' = 0 /\ frame' = NoPose /\ mishaps' = mishaps + 1
        /\ UNCHANGED <<rotation, locks, rotations>>
    BY <1>11 DEF quit
  <2>2. {fusion', locks', rotations', mishaps'} \subseteq Nat
    BY <2>1 DEF SeenInv, SeenType
  <2>3. SeenType'
    <3>1. rotation' \in [board : Angles, brush : Angles] /\ frame' \in Poses
      BY <2>1, BlankTypes DEF SeenInv, SeenType
    <3> QED
      BY <2>1, <2>2, <3>1 DEF SeenType
  <2> QED
    BY <2>1, <2>3 DEF SeenInv, FrameInv
<1> QED
  BY <1>1, <1>2, <1>3, <1>4, <1>5, <1>6, <1>7, <1>8, <1>9, <1>10, <1>11 DEF HallNext

-----------------------------------------------------------------------------

LEMMA CalKept == ASSUME CalInv, UNCHANGED calVars PROVE CalInv'
  BY DEF CalInv, CalType, SamplesInv, FitInv, Matched, calVars, sampleVars

LEMMA CalCleared ==
  ASSUME NoSamples, session' \in {"IDLE", "COLLECT"}, fingerprint' \in Matches
  PROVE  CalInv'
<1>1. armed' = FALSE /\ window' = NoPose /\ train' = <<>> /\ validation' = <<>>
      /\ candidate' = <<>> /\ slipped' = FALSE
  BY DEF NoSamples
<1>2. CalType'
  <2>1. train' \in Seq(Poses) /\ validation' \in Seq(Poses) /\ candidate' \in Seq(Poses)
    BY <1>1, EmptySeq
  <2> QED
    BY <1>1, <2>1, BlankTypes DEF CalType
<1>3. Len(train') = 0 /\ Len(validation') = 0
  BY <1>1
<1>4. SamplesInv'
  BY <1>1, <1>3 DEF SamplesInv
<1> QED
  BY <1>2, <1>4 DEF CalInv, FitInv

LEMMA CalEnded ==
  ASSUME CalInv, session' \in {"INVALID", "COMMITTED"}, armed' \in BOOLEAN, window' \in {window, NoPose},
         UNCHANGED <<fingerprint, train, validation, candidate, slipped>>
  PROVE  CalInv'
  BY BlankTypes DEF CalInv, CalType, SamplesInv, FitInv, Matched

LEMMA CalRejects == ASSUME CalInv, rejectFrame \/ arm PROVE CalInv'
  BY BlankTypes DEF rejectFrame, arm, CalInv, CalType, SamplesInv, FitInv, Matched

\* A frame that update() takes fits the session's reference and, unless the
\* rotations changed since it was mapped, its rotations.
LEMMA FrameMatches ==
  ASSUME SeenInv, Recording
  PROVE  frame \in Poses /\ frame.fusion = fingerprint.fusion
         /\ (frame.rotation = rotation => frame.rotation = fingerprint.rotation)
  BY DEF SeenInv, SeenType, FrameInv, Recording, Guard

LEMMA CalHolds == ASSUME SeenInv, CalInv, holdFrame PROVE CalInv'
<1>1. Recording /\ window' = frame /\ slipped' = (slipped \/ frame.rotation # rotation)
      /\ UNCHANGED <<session, fingerprint, armed, train, validation, candidate, outcome>>
  BY DEF holdFrame
<1>2. slipped \in BOOLEAN
  BY DEF CalInv, CalType
<1>3. ASSUME NEW pose, Matched(pose) PROVE Matched(pose)'
  BY <1>1, <1>2, <1>3 DEF Matched
<1>4. Matched(window)'
  BY <1>1, <1>2, FrameMatches DEF Matched
<1>5. CalType'
  BY <1>1, <1>2, FrameMatches DEF CalInv, CalType
<1>6. SamplesInv'
  BY <1>1, <1>3, <1>4 DEF CalInv, SamplesInv
<1>7. FitInv'
  BY <1>1 DEF CalInv, FitInv
<1> QED
  BY <1>5, <1>6, <1>7 DEF CalInv

\* A window that is done with: what it recorded is new and fits the session.
LEMMA CalFinishes == ASSUME SeenInv, CalInv, finishWindow PROVE CalInv'
<1> USE HallAssumption
<1>1. /\ Recording
      /\ window = frame
      /\ armed' = FALSE /\ window' = NoPose
      /\ slipped' = (slipped \/ frame.rotation # rotation)
      /\ train' = IF IsNew /\ session = "COLLECT" THEN Append(train, window) ELSE train
      /\ validation' = IF IsNew /\ session = "VALIDATE" THEN Append(validation, window)
                       ELSE validation
      /\ UNCHANGED <<fingerprint, candidate>>
  BY DEF finishWindow
<1>2. /\ slipped \in BOOLEAN /\ window \in Poses /\ train \in Seq(Poses) /\ validation \in Seq(Poses)
      /\ session \in {"COLLECT", "VALIDATE"}
  BY <1>1 DEF CalInv, CalType, Recording, Collecting
<1>3. ASSUME NEW pose, Matched(pose) PROVE Matched(pose)'
  BY <1>1, <1>2, <1>3 DEF Matched
<1>4. /\ window.fusion = fingerprint'.fusion
      /\ ~slipped' => window.rotation = fingerprint'.rotation
  BY <1>1, <1>2, FrameMatches
<1>5. \/ validation' # validation /\ Len(validation') >= MinValidate
         /\ \E passed \in BOOLEAN :
              /\ outcome' = [passed |-> passed, fit |-> candidate, on |-> validation']
              /\ session' = IF passed THEN "READY" ELSE "VALIDATE"
      \/ UNCHANGED <<session, outcome>>
  BY DEF finishWindow, Evaluate
<1>6. CASE ~IsNew
  <2>1. UNCHANGED <<train, validation, session, outcome>>
    BY <1>1, <1>5, <1>6
  <2>2. CalType'
    BY <1>1, <1>2, <2>1, BlankTypes DEF CalInv, CalType
  <2>3. SamplesInv'
    BY <1>1, <1>3, <2>1 DEF CalInv, SamplesInv
  <2> QED
    BY <1>1, <2>1, <2>2, <2>3 DEF CalInv, FitInv
<1>7. CASE IsNew /\ session = "COLLECT"
  <2>1. train' = Append(train, window) /\ UNCHANGED <<validation, session, outcome>>
    BY <1>1, <1>5, <1>7
  <2>2. /\ train' \in Seq(Poses) /\ Len(train') = Len(train) + 1
        /\ \A i \in 1 .. Len(train) : train'[i] = train[i]
        /\ train'[Len(train) + 1] = window
    BY <1>2, <2>1, AppendProperties
  <2>3. \A i \in 1 .. Len(train') : i \in 1 .. Len(train) \/ i = Len(train) + 1
    BY <1>2, <2>2, LenProperties
  <2>4. \A j \in 1 .. Len(validation) : window # validation[j]
    BY <1>2, <1>7, LenProperties DEF IsNew, Range
  <2>5. CalType'
    BY <1>1, <1>2, <2>1, <2>2, BlankTypes DEF CalInv, CalType
  <2>6. SamplesInv'
    <3>1. \A i \in 1 .. Len(train') : Matched(train[i])' /\ \A j \in 1 .. Len(validation) : train'[i] # validation[j]
      <4> TAKE i \in 1 .. Len(train')
      <4>1. CASE i \in 1 .. Len(train)
        BY <4>1, <1>3, <2>2 DEF CalInv, SamplesInv, Matched
      <4>2. CASE i = Len(train) + 1
        BY <4>2, <1>4, <2>2, <2>4 DEF Matched
      <4> QED
        BY <4>1, <4>2, <2>3
    <3>2. \A j \in 1 .. Len(validation) : Matched(validation[j])'
      BY <1>3, <2>1 DEF CalInv, SamplesInv
    <3> QED
      BY <1>1, <2>1, <3>1, <3>2 DEF SamplesInv
  <2> QED
    BY <1>7, <2>1, <2>5, <2>6 DEF CalInv, FitInv
<1>8. CASE IsNew /\ session = "VALIDATE"
  <2>1. validation' = Append(validation, window) /\ UNCHANGED train
    BY <1>1, <1>8
  <2>2. /\ validation' \in Seq(Poses) /\ Len(validation') = Len(validation) + 1
        /\ \A i \in 1 .. Len(validation) : validation'[i] = validation[i]
        /\ validation'[Len(validation) + 1] = window
    BY <1>2, <2>1, AppendProperties
  <2>3. \A i \in 1 .. Len(validation') : i \in 1 .. Len(validation) \/ i = Len(validation) + 1
    BY <1>2, <2>2, LenProperties
  <2>4. \A j \in 1 .. Len(train) : window # train[j]
    BY <1>2, <1>8, LenProperties DEF IsNew, Range
  <2>5. session' \in {"VALIDATE", "READY"}
    BY <1>5, <1>8
  <2>6. CalType'
    BY <1>1, <1>2, <2>1, <2>2, <2>5, BlankTypes DEF CalInv, CalType
  <2>7. SamplesInv'
    <3>1. \A j \in 1 .. Len(validation') : Matched(validation[j])' /\ \A i \in 1 .. Len(train) : train[i] # validation'[j]
      <4> TAKE j \in 1 .. Len(validation')
      <4>1. CASE j \in 1 .. Len(validation)
        BY <4>1, <1>3, <2>2 DEF CalInv, SamplesInv, Matched
      <4>2. CASE j = Len(validation) + 1
        BY <4>2, <1>4, <2>2, <2>4 DEF Matched
      <4> QED
        BY <4>1, <4>2, <2>3
    <3>2. \A i \in 1 .. Len(train) : Matched(train[i])'
      BY <1>3, <2>1 DEF CalInv, SamplesInv
    <3> QED
      BY <1>1, <2>1, <3>1, <3>2 DEF SamplesInv
  <2>8. FitInv'
    <3>1. candidate' = train' /\ Len(train') >= MinTrain
      BY <1>1, <1>8, <2>1 DEF CalInv, FitInv
    <3>2. session' = "READY" => /\ outcome' = [passed |-> TRUE, fit |-> candidate', on |-> validation']
                                /\ Len(validation') >= MinValidate
      BY <1>1, <1>5, <1>8
    <3> QED
      BY <3>1, <3>2 DEF FitInv
  <2> QED
    BY <2>6, <2>7, <2>8 DEF CalInv
<1> QED
  BY <1>2, <1>6, <1>7, <1>8

LEMMA ButLastShortens ==
  ASSUME NEW S, NEW s \in Seq(S), s # <<>>
  PROVE  /\ ButLast(s) \in Seq(S) /\ Len(ButLast(s)) = Len(s) - 1
         /\ \A i \in 1 .. Len(s) - 1 : ButLast(s)[i] = s[i]
<1>1. Len(s) \in Nat /\ Len(s) # 0
  BY EmptySeq, LenProperties
<1>2. \A i \in 1 .. Len(s) - 1 : s[i] \in S
  BY <1>1, ElementOfSeq
<1> DEFINE n == Len(s) - 1
<1>3. n \in Nat
  BY <1>1
<1> HIDE DEF n
<1>4. /\ SubSeq(s, 1, n) \in Seq(S) /\ Len(SubSeq(s, 1, n)) = IF 1 <= n THEN n - 1 + 1 ELSE 0
      /\ \A i \in 1 .. n - 1 + 1 : SubSeq(s, 1, n)[i] = s[1 + i - 1]
  BY <1>2, <1>3, SubSeqProperties DEF n
<1>5. \A i \in 1 .. n : 1 + i - 1 = i
  BY <1>3
<1>6. n - 1 + 1 = n
  BY <1>3
<1> QED
  BY <1>3, <1>4, <1>5, <1>6 DEF ButLast, n

LEMMA CalUndoes == ASSUME CalInv, undo PROVE CalInv'
<1>1. /\ armed' = FALSE /\ window' = NoPose
      /\ train' = IF session = "COLLECT" /\ train # <<>> THEN ButLast(train) ELSE train
      /\ UNCHANGED <<fingerprint, candidate, slipped>>
      /\ \/ session \in {"VALIDATE", "READY"} /\ validation # <<>>
            /\ validation' = ButLast(validation) /\ session' = "VALIDATE"
         \/ UNCHANGED <<validation, session, outcome>>
  BY DEF undo
<1>2. train \in Seq(Poses) /\ validation \in Seq(Poses)
  BY DEF CalInv, CalType
<1>3. /\ train' \in Seq(Poses) /\ Len(train') <= Len(train)
      /\ \A i \in 1 .. Len(train') : i \in 1 .. Len(train) /\ train'[i] = train[i]
  <2>1. Len(train) \in Nat
    BY <1>2, LenProperties
  <2>2. CASE train' = train
    BY <1>2, <2>1, <2>2
  <2>3. CASE session = "COLLECT" /\ train # <<>>
    BY <1>1, <1>2, <2>1, <2>3, ButLastShortens
  <2> QED
    BY <1>1, <2>2, <2>3
<1>4. /\ validation' \in Seq(Poses) /\ Len(validation') <= Len(validation)
      /\ \A i \in 1 .. Len(validation') : i \in 1 .. Len(validation) /\ validation'[i] = validation[i]
  <2>1. Len(validation) \in Nat
    BY <1>2, LenProperties
  <2>2. CASE validation' = validation
    BY <1>2, <2>1, <2>2
  <2>3. CASE validation # <<>> /\ validation' = ButLast(validation)
    BY <1>2, <2>1, <2>3, ButLastShortens
  <2> QED
    BY <1>1, <2>2, <2>3
<1>5. CalType'
  BY <1>1, <1>3, <1>4, BlankTypes DEF CalInv, CalType
<1>6. SamplesInv'
  BY <1>1, <1>3, <1>4 DEF CalInv, SamplesInv, Matched
<1>7. FitInv'
  BY <1>1 DEF CalInv, FitInv
<1> QED
  BY <1>5, <1>6, <1>7 DEF CalInv

LEMMA CalSolves == ASSUME CalInv, solve PROVE CalInv'
<1>1. /\ Len(train) >= MinTrain /\ candidate' = train /\ session' = "VALIDATE" /\ validation' = <<>>
      /\ UNCHANGED <<fingerprint, armed, window, train, slipped>>
  BY DEF solve, FitTo
<1>2. Len(validation') = 0
  BY <1>1
<1>3. CalType'
  BY <1>1 DEF CalInv, CalType
<1>4. SamplesInv'
  BY <1>1, <1>2 DEF CalInv, SamplesInv, Matched
<1> QED
  BY <1>1, <1>3, <1>4 DEF CalInv, FitInv

LEMMA CalStep == ASSUME SeenInv, CalInv, HallNext PROVE CalInv'
<1>1. ASSUME lockFusion \/ dropFusion \/ rotate \/ mapFrame \/ leaveFrame PROVE CalInv'
  BY <1>1, CalKept DEF lockFusion, dropFusion, rotate, mapFrame, leaveFrame
<1>2. ASSUME endSession PROVE CalInv'
  BY <1>2, CalEnded DEF endSession, Invalidate
<1>3. ASSUME startSession \/ cancelSession PROVE CalInv'
  <2>1. [fusion |-> fusion, rotation |-> rotation] \in Matches
    BY DEF SeenInv, SeenType, Matches, Rotations
  <2> QED
    BY <1>3, <2>1, BlankTypes, CalCleared DEF startSession, cancelSession
<1>4. ASSUME commitProfile \/ writeMount \/ activeFails \/ rollback \/ unlink \/ launch PROVE CalInv'
  BY <1>4, CalKept DEF commitProfile, writeMount, activeFails, rollback, unlink, launch
<1>5. ASSUME refuseCommit \/ load PROVE CalInv'
  <2>1. Invalidate \/ UNCHANGED calVars
    BY <1>5 DEF refuseCommit, load
  <2> QED
    BY <2>1, CalEnded, CalKept DEF Invalidate
<1>6. ASSUME writeActive PROVE CalInv'
  <2>1. UNCHANGED <<fingerprint, sampleVars>> /\ session' \in {session, "COMMITTED"}
    BY <1>6 DEF writeActive
  <2> QED
    BY <2>1, CalEnded, CalKept DEF CalInv, CalType, calVars, sampleVars
<1>7. ASSUME quit PROVE CalInv'
  BY <1>7, BlankTypes, CalCleared DEF quit
<1> QED
  BY <1>1, <1>2, <1>3, <1>4, <1>5, <1>6, <1>7, CalRejects, CalHolds, CalFinishes, CalUndoes, CalSolves
     DEF HallNext, updateHall

-----------------------------------------------------------------------------

LEMMA FileKept ==
  ASSUME FileInv, UNCHANGED <<launched, fileVars, mount, checked, io, applying, torn>>
  PROVE  FileInv'
  BY DEF FileInv, FileType, BaselineInv, ApplyInv, Sound, MappingOf, fileVars

LEMMA FileCommits == ASSUME FileInv, commitProfile PROVE FileInv'
<1> USE HallAssumption DEF Initial, None, Mounts
<1>1. PICK name \in Names \ DOMAIN profiles :
        /\ DOMAIN profiles' = DOMAIN profiles \cup {name}
        /\ io' = "mount"
        /\ applying' = [name |-> name, committing |-> TRUE, previous |-> mount]
        /\ UNCHANGED <<launched, baseline, mountFile, activeFile, mount, checked, torn>>
  BY DEF commitProfile, Apply
<1>2. io = "idle" /\ launched
  BY DEF commitProfile, CanCommit, Free
<1>3. applying'.name = name /\ applying'.committing = TRUE /\ applying'.previous = mount
  BY <1>1
<1>4. FileType'
  BY <1>1 DEF FileInv, FileType, Steps
<1>5. BaselineInv'
  BY <1>1, <1>2 DEF FileInv, BaselineInv
<1>6. ApplyInv'
  BY <1>1, <1>2, <1>3 DEF FileInv, ApplyInv, Sound, MappingOf
<1> QED
  BY <1>4, <1>5, <1>6 DEF FileInv

LEMMA FileLoads == ASSUME FileInv, load PROVE FileInv'
<1> USE HallAssumption DEF Initial, None, Mounts
<1>1. PICK name \in DOMAIN profiles \cup {Initial} :
        /\ io' = "mount"
        /\ applying' = [name |-> name, committing |-> FALSE, previous |-> mount]
        /\ UNCHANGED <<launched, fileVars, mount, checked, torn>>
  BY DEF load, Apply
<1>2. io = "idle" /\ launched
  BY DEF load, Free
<1>3. applying'.name = name /\ applying'.committing = FALSE /\ applying'.previous = mount
  BY <1>1
<1>4. FileType'
  BY <1>1 DEF FileInv, FileType, Steps, fileVars
<1>5. BaselineInv'
  BY <1>1, <1>2 DEF FileInv, BaselineInv, fileVars
<1>6. ApplyInv'
  BY <1>1, <1>2, <1>3 DEF FileInv, ApplyInv, Sound, MappingOf, fileVars
<1> QED
  BY <1>4, <1>5, <1>6 DEF FileInv

LEMMA FileWritesMount == ASSUME FileInv, writeMount PROVE FileInv'
<1> USE HallAssumption DEF Initial, None, Mounts
<1>1. launched /\ io = "mount" /\ UNCHANGED <<launched, profiles, baseline, activeFile, checked, applying, torn>>
  BY DEF writeMount
<1>2. /\ baseline = Initial
      /\ applying.name \in DOMAIN profiles \cup {Initial} /\ applying.name \in Mounts
  BY <1>1 DEF FileInv, FileType, BaselineInv, ApplyInv
<1>3. ASSUME mountFile' = applying.name, mount' = mountFile', io' = "active" PROVE FileInv'
  <2>1. FileType'
    BY <1>1, <1>2, <1>3 DEF FileInv, FileType, Steps
  <2>2. BaselineInv'
    BY <1>1, <1>2, <1>3 DEF BaselineInv
  <2>3. ApplyInv'
    BY <1>1, <1>2, <1>3 DEF FileInv, ApplyInv, Sound, MappingOf
  <2> QED
    BY <2>1, <2>2, <2>3 DEF FileInv
<1>4. ASSUME io' = AfterFailure, UNCHANGED <<mountFile, mount>> PROVE FileInv'
  <2>1. io' \in {"idle", "unlink"} /\ (io' = "unlink" => applying.committing)
    BY <1>4 DEF AfterFailure
  <2>2. FileType'
    BY <1>1, <1>4, <2>1 DEF FileInv, FileType, Steps
  <2>3. BaselineInv'
    BY <1>1, <1>2, <1>4 DEF BaselineInv
  <2>4. ApplyInv'
    BY <1>1, <1>4, <2>1 DEF FileInv, ApplyInv, Sound, MappingOf
  <2> QED
    BY <2>2, <2>3, <2>4 DEF FileInv
<1>5. \/ mountFile' = applying.name /\ mount' = mountFile' /\ io' = "active"
      \/ io' = AfterFailure /\ UNCHANGED <<mountFile, mount>>
  BY <1>2 DEF writeMount
<1> QED
  BY <1>3, <1>4, <1>5

LEMMA FileWritesActive == ASSUME FileInv, writeActive PROVE FileInv'
<1> USE HallAssumption DEF Initial, None, Mounts
<1>1. /\ launched /\ io = "active"
      /\ activeFile' = applying.name /\ checked' = MappingOf(applying.name)
      /\ io' = "idle" /\ applying' = NoProfile /\ torn' = FALSE
      /\ UNCHANGED <<launched, profiles, baseline, mountFile, mount>>
  BY DEF writeActive, MappingOf
<1>2. /\ baseline = Initial /\ applying.name \in DOMAIN profiles \cup {Initial}
      /\ mountFile = applying.name /\ mount = mountFile /\ mount \in Mounts
  BY <1>1 DEF FileInv, BaselineInv, ApplyInv
<1>3. FileType'
  BY <1>1, <1>2 DEF FileInv, FileType, Steps, NoProfile, MappingOf
<1>4. BaselineInv'
  BY <1>1, <1>2 DEF BaselineInv
<1>5. ApplyInv'
  BY <1>1, <1>2 DEF ApplyInv, Sound, MappingOf
<1> QED
  BY <1>3, <1>4, <1>5 DEF FileInv

LEMMA FileFailsActive == ASSUME FileInv, activeFails PROVE FileInv'
<1>1. /\ launched /\ io = "active" /\ io' = "rollback"
      /\ UNCHANGED <<launched, fileVars, mount, checked, applying, torn>>
  BY DEF activeFails
<1>2. FileType'
  BY <1>1 DEF FileInv, FileType, Steps, fileVars
<1>3. BaselineInv' /\ ApplyInv'
  BY <1>1 DEF FileInv, BaselineInv, ApplyInv, Sound, MappingOf, fileVars
<1> QED
  BY <1>2, <1>3 DEF FileInv

LEMMA FileRollsBack == ASSUME FileInv, rollback PROVE FileInv'
<1> USE HallAssumption DEF Initial, None, Mounts
<1>1. /\ launched /\ io = "rollback" /\ io' = AfterFailure
      /\ UNCHANGED <<launched, profiles, baseline, activeFile, checked, applying>>
      /\ \/ mountFile' = applying.previous /\ mount' = applying.previous /\ torn' = torn
         \/ torn' = TRUE /\ UNCHANGED <<mountFile, mount>>
  BY DEF rollback
<1>2. io' \in {"idle", "unlink"} /\ (io' = "unlink" => applying.committing)
  BY <1>1 DEF AfterFailure
<1>3. applying.previous \in Mounts
  BY <1>1 DEF FileInv, ApplyInv
<1>4. FileType'
  BY <1>1, <1>2, <1>3 DEF FileInv, FileType, Steps
<1>5. BaselineInv'
  BY <1>1, <1>2 DEF FileInv, BaselineInv
<1>6. ApplyInv'
  BY <1>1, <1>2, <1>3 DEF FileInv, ApplyInv, Sound, MappingOf
<1> QED
  BY <1>4, <1>5, <1>6 DEF FileInv

LEMMA FileUnlinks == ASSUME FileInv, unlink PROVE FileInv'
<1> USE HallAssumption DEF Initial, None, Mounts
<1>1. /\ launched /\ io = "unlink" /\ io' = "idle" /\ applying' = NoProfile
      /\ DOMAIN profiles' = DOMAIN profiles \ {applying.name}
      /\ UNCHANGED <<launched, baseline, mountFile, activeFile, mount, checked, torn>>
  BY DEF unlink
<1>2. FileType'
  BY <1>1 DEF FileInv, FileType, Steps, NoProfile
<1>3. BaselineInv'
  BY <1>1 DEF FileInv, BaselineInv
<1>4. ApplyInv'
  BY <1>1 DEF FileInv, ApplyInv, Sound, MappingOf
<1> QED
  BY <1>2, <1>3, <1>4 DEF FileInv

LEMMA FileLaunches == ASSUME FileInv, launch PROVE FileInv'
<1> USE HallAssumption DEF Initial, None, Mounts
<1>1. /\ ~launched /\ launched' = TRUE
      /\ mount' = mountFile
      /\ baseline' = IF baseline = None THEN mountFile ELSE baseline
      /\ checked' = IF activeFile \in DOMAIN profiles THEN activeFile ELSE None
      /\ UNCHANGED <<profiles, mountFile, activeFile, io, applying, torn>>
  BY DEF launch
<1>2. io = "idle" /\ baseline' = Initial
  BY <1>1 DEF FileInv, FileType, BaselineInv
<1>3. FileType'
  BY <1>1, <1>2 DEF FileInv, FileType
<1>4. BaselineInv'
  BY <1>1, <1>2 DEF BaselineInv
<1>5. ApplyInv'
  BY <1>1, <1>2 DEF FileInv, FileType, ApplyInv, Sound, MappingOf
<1> QED
  BY <1>3, <1>4, <1>5 DEF FileInv

LEMMA FileQuits == ASSUME FileInv, quit PROVE FileInv'
<1> USE HallAssumption DEF Initial, None, Mounts
<1>1. /\ launched /\ launched' = FALSE
      /\ mount' = None /\ checked' = None /\ io' = "idle" /\ applying' = NoProfile
      /\ torn' = (torn \/ io \in {"active", "rollback"})
      /\ UNCHANGED fileVars
  BY DEF quit
<1>2. FileType'
  BY <1>1 DEF FileInv, FileType, Steps, NoProfile, fileVars
<1>3. BaselineInv'
  BY <1>1 DEF FileInv, BaselineInv, fileVars
<1>4. ApplyInv'
  BY <1>1 DEF FileInv, FileType, Steps, ApplyInv, Sound, MappingOf, fileVars
<1> QED
  BY <1>2, <1>3, <1>4 DEF FileInv

LEMMA FileStep == ASSUME FileInv, HallNext PROVE FileInv'
<1>1. ASSUME lockFusion \/ dropFusion \/ rotate \/ mapFrame PROVE FileInv'
  BY <1>1, FileKept DEF lockFusion, dropFusion, rotate, mapFrame, mountVars
<1>2. ASSUME updateHall PROVE FileInv'
  BY <1>2, FileKept DEF updateHall, leaveFrame, endSession, rejectFrame, holdFrame, finishWindow,
     Recording, Updating, mountVars
<1>3. ASSUME startSession \/ cancelSession \/ arm \/ undo \/ solve PROVE FileInv'
  BY <1>3, FileKept DEF startSession, cancelSession, arm, undo, solve, Calling, mountVars
<1>4. ASSUME refuseCommit PROVE FileInv'
  BY <1>4, FileKept DEF refuseCommit
<1> QED
  BY <1>1, <1>2, <1>3, <1>4, FileCommits, FileLoads, FileWritesMount, FileWritesActive,
     FileFailsActive, FileRollsBack, FileUnlinks, FileLaunches, FileQuits DEF HallNext

-----------------------------------------------------------------------------

LEMMA HallInitInv == ASSUME HallInit PROVE HallInv
<1> USE HallAssumption DEF HallInit, HallClosed
<1>1. SeenInv
  <2>1. frame \in Poses /\ fusion = 0 /\ locks = 0 /\ rotations = 0 /\ mishaps = 0 /\ launched = FALSE
    BY BlankTypes
  <2>2. frame.fusion = 0
    BY DEF NoPose
  <2>3. rotation \in [board : Angles, brush : Angles]
    OBVIOUS
  <2>4. {fusion, locks, rotations, mishaps} \subseteq Nat
    BY <2>1, SMT
  <2>5. launched \in BOOLEAN
    BY <2>1
  <2>6. SeenType
    BY <2>1, <2>3, <2>4, <2>5 DEF SeenType
  <2> QED
    BY <2>2, <2>6 DEF SeenInv, FrameInv
<1>2. CalType
  <2>1. train \in Seq(Poses) /\ validation \in Seq(Poses) /\ candidate \in Seq(Poses)
    BY EmptySeq DEF NoSession
  <2> QED
    BY <2>1, BlankTypes DEF NoSession, CalType
<1>3. SamplesInv /\ FitInv
  BY DEF NoSession, SamplesInv, FitInv
<1>4. FileInv
  <2>1. FileType
    <3>1. DOMAIN profiles = {}
      BY EmptySeq
    <3>2. applying = NoProfile /\ NoProfile \in [name : Mounts \cup {None}, committing : BOOLEAN,
                                               previous : Mounts \cup {None}]
      BY DEF NoProfile
    <3> QED
      BY <3>1, <3>2 DEF FileType, Mounts, Steps
  <2>2. BaselineInv
    BY DEF BaselineInv
  <2>3. ApplyInv
    BY DEF ApplyInv, Sound, Initial, None
  <2> QED
    BY <2>1, <2>2, <2>3 DEF FileInv
<1> QED
  BY <1>1, <1>2, <1>3, <1>4 DEF HallInv, CalInv

LEMMA HallStep == ASSUME HallInv, [HallNext]_hallVars PROVE HallInv'
<1>1. CASE HallNext
  BY <1>1, SeenStep, CalStep, FileStep DEF HallInv
<1>2. CASE UNCHANGED hallVars
  <2>1. SeenInv'
    BY <1>2 DEF HallInv, SeenInv, SeenType, FrameInv, hallVars, seenVars, mountVars
  <2> QED
    BY <1>2, <2>1, CalKept, FileKept DEF HallInv, hallVars, mountVars
<1> QED
  BY <1>1, <1>2

LEMMA HallInvHolds == HallSpec => []HallInv
  BY HallInitInv, HallStep, PTL DEF HallSpec

\* hall_extrinsic.py: what commit() may save was fitted to the session's poses and
\* tested on enough others, all of them taken under what the profile names.
THEOREM MountsAreValidated == HallSpec => []ReadyIsValidated
<1>1. HallInv => ReadyIsValidated
  <2> SUFFICES ASSUME HallInv, session = "READY" PROVE ReadyIsValidated
    BY DEF ReadyIsValidated
  <2>1. train \in Seq(Poses) /\ validation \in Seq(Poses) /\ DOMAIN train = 1 .. Len(train)
        /\ DOMAIN validation = 1 .. Len(validation)
    BY LenProperties DEF HallInv, CalInv, CalType
  <2>2. /\ outcome = [passed |-> TRUE, fit |-> train, on |-> validation]
        /\ Len(train) >= MinTrain /\ Len(validation) >= MinValidate
    BY DEF HallInv, CalInv, FitInv
  <2>3. \A i \in DOMAIN train, j \in DOMAIN validation : train[i] # validation[j]
    BY <2>1 DEF HallInv, CalInv, SamplesInv
  <2>4. \A s \in Range(train) \cup Range(validation) : Matched(s)
    BY <2>1 DEF HallInv, CalInv, SamplesInv, Range
  <2> QED
    BY <2>2, <2>3, <2>4 DEF ReadyIsValidated, Matched
<1> QED
  BY <1>1, HallInvHolds, PTL

\* hall_extrinsic.py, hall_mount.py: whichever writes fail and wherever the Studio
\* ends, the mount has its profile and is compared with that profile's mapping,
\* but for what a write that fails twice or an end between the files leaves.
THEOREM MountsHaveTheirProfiles == HallSpec => []MountHasItsProfile
<1>1. HallInv => MountHasItsProfile
  <2> SUFFICES ASSUME HallInv PROVE MountHasItsProfile
    OBVIOUS
  <2>1. baseline \in {None, Initial} /\ io \in Steps
    BY DEF HallInv, FileInv, FileType
  <2>2. ASSUME ~torn PROVE mountFile \in DOMAIN profiles \cup {Initial}
    BY <2>1, <2>2 DEF HallInv, FileInv, ApplyInv, Sound, Steps
  <2>3. ASSUME ~torn, Free PROVE mount = mountFile /\ checked = IF mount = Initial THEN None ELSE mount
    BY <2>3 DEF HallInv, FileInv, ApplyInv, Free, MappingOf
  <2> QED
    BY <2>1, <2>2, <2>3 DEF MountHasItsProfile
<1> QED
  BY <1>1, HallInvHolds, PTL
=============================================================================
