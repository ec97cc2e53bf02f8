------------------------------ MODULE Capture -------------------------------
(***************************************************************************)
(* The recording of an episode, as studio/rgbd_live_gui.py runs it: the    *)
(* camera SDK's callback and its bounded queue (host/hp60c_direct.py), the *)
(* capture thread that is the queue's one consumer (studio_capture.py and  *)
(* hp60c_bridge.py), the recorder thread that writes frames and masks      *)
(* (pipeline.py, dataset.py), the thread that asks SAM3 for masks, the     *)
(* thread that writes the brush's samples (studio_bridge.py,               *)
(* sensor_log.py), and the thread that shuts it all down.                  *)
(*                                                                         *)
(* A frame is its id, and so is a sample.  Which brush sample is matched   *)
(* to a frame is data of the frame, and left out.                          *)
(***************************************************************************)
EXTENDS Integers, Sequences, FiniteSets

CONSTANTS
  CameraQueue, (* HP60CDirectSDK.frames: 12 *)
  IngestQueue, (* max_ingest_queue: 32 *)
  BrushQueue,  (* BrushSerial.frames: 4096 *)
  Clip,        (* clip_frames of one request to SAM3: 5 *)
  MaxReplay,   (* max_replay_frames: 15 *)
  MaxPredict,  (* max_prediction_frames: 12 *)
  WarmUp,      (* frames before the camera's clock is fitted: 8 and more *)
  Uses,        (* bound: what a recording is made with: "brush", "sam3" *)
  MaxFrames,   (* bound: frames the camera makes *)
  MaxSamples,  (* bound: samples the pen makes *)
  MaxFaults    (* bound: things that go wrong in one recording *)

ASSUME CaptureAssumption ==
  /\ {CameraQueue, IngestQueue, BrushQueue, Clip, MaxPredict} \subseteq Nat \ {0}
  /\ {MaxReplay, WarmUp, MaxFrames, MaxSamples, MaxFaults} \subseteq Nat
  /\ Uses \subseteq SUBSET {"brush", "sam3"}

VARIABLES
  uses,        (* brush_serial and enable_sam3 of this recording *)
  faults,      (* bound: what went wrong so far *)
  camera,      (* HP60CDirectSDK: [running, made, last, broken, frames] *)
  capture,     (* StudioCaptureSupervisor: [at, status, taken, stop, fatal] *)
  vision,    (* RGBDSemanticPipeline: [ingest, received, unfinished, stop, fatal] *)
  recorder,    (* its worker: [at, frame, recent, left] *)
  job,         (* _job: the request to SAM3 *)
  tracker,     (* RGBDLocalTracker: [source, last, age] *)
  latest,      (* _latest_track: [frame, state, source] *)
  disk,        (* the episode: [rgb, depth, meta, masks, annotations, signal] *)
  brush,       (* BrushSerial and the pen: [open, made, drops, frames] *)
  pump,        (* EBrushVisionCoordinator: [at, stop, last, gaps, fatal] *)
  ending      (* the shutdown thread: [at, error] *)

captureVars == <<uses, faults, camera, capture, vision, recorder, job,
                 tracker, latest, disk, brush, pump, ending>>

NoJob   == [state |-> "none", clip |-> <<>>, masked |-> {}]
NoTrack == [source |-> 0, last |-> 0, age |-> 0]

\* What each part is made as; a recording that is not asked for leaves its
\* threads ended.
Sdk(on)           == [running |-> on, made |-> 0, last |-> 0, broken |-> FALSE, frames |-> <<>>]
SupervisorAt(place) == [at |-> place, status |-> [size |-> 0, broken |-> FALSE],
                        taken |-> 0, stop |-> FALSE, fatal |-> FALSE]
NothingReceived   == [ingest |-> <<>>, received |-> <<>>, unfinished |-> 0,
                      stop |-> FALSE, fatal |-> FALSE]
RecorderAt(place) == [at |-> place, frame |-> 0, recent |-> <<>>, left |-> <<>>]
NoEvidence        == [rgb |-> {}, depth |-> {}, meta |-> {}, masks |-> {},
                      annotations |-> {}, signal |-> <<>>]
BrushLine(on)     == [open |-> on, made |-> 0, drops |-> 0, frames |-> <<>>]
PumpAt(place)     == [at |-> place, stop |-> FALSE, last |-> 0, gaps |-> 0, fatal |-> FALSE]

NothingRecorded ==
  /\ faults = 0
  /\ vision = NothingReceived
  /\ job = NoJob
  /\ tracker = NoTrack
  /\ latest = [frame |-> 0, state |-> "UNKNOWN", source |-> 0]
  /\ disk = NoEvidence

\* start_capture() up to its end: every thread runs.
CaptureInit ==
  /\ uses \in Uses
  /\ NothingRecorded
  /\ camera = Sdk(TRUE)
  /\ capture = SupervisorAt("status")
  /\ recorder = RecorderAt("loop")
  /\ brush = BrushLine("brush" \in uses)
  /\ pump = PumpAt(IF "brush" \in uses THEN "loop" ELSE "ended")
  /\ ending = [at |-> "open", error |-> FALSE]

\* No recording: its button is not pressed.
CaptureUnused ==
  /\ uses = {}
  /\ NothingRecorded
  /\ camera = Sdk(FALSE)
  /\ capture = SupervisorAt("ended")
  /\ recorder = RecorderAt("ended")
  /\ brush = BrushLine(FALSE)
  /\ pump = PumpAt("ended")
  /\ ending = [at |-> "off", error |-> FALSE]

-----------------------------------------------------------------------------
(* HP60CDirectSDK: the SDK calls back with a frame.  stop_stream() returns *)
(* when no callback is running any more.                                   *)

callback(id) ==
  /\ camera.running
  /\ camera.made < MaxFrames
  /\ IF Len(camera.frames) < CameraQueue
       THEN camera' = [camera EXCEPT !.made = id, !.last = id,
                         !.broken = @ \/ id <= camera.last,
                         !.frames = Append(@, id)]
       ELSE camera' = [camera EXCEPT !.made = id, !.last = id, !.broken = TRUE]

frameArrives ==
  /\ callback(camera.made + 1)
  /\ UNCHANGED <<uses, faults, capture, vision, recorder, job, tracker, latest,
                 disk, brush, pump, ending>>

\* The SDK leaves out a frame, or gives one twice.
frameIsAmiss ==
  /\ faults < MaxFaults
  /\ faults' = faults + 1
  /\ \E id \in {camera.made, camera.made + 2} : callback(id)
  /\ UNCHANGED <<uses, capture, vision, recorder, job, tracker, latest,
                 disk, brush, pump, ending>>

\* A frame without its payload is an exception in the callback.
frameIsBroken ==
  /\ faults < MaxFaults
  /\ faults' = faults + 1
  /\ camera.running
  /\ camera.made < MaxFrames
  /\ camera' = [camera EXCEPT !.made = @ + 1, !.broken = TRUE]
  /\ UNCHANGED <<uses, capture, vision, recorder, job, tracker, latest,
                 disk, brush, pump, ending>>

-----------------------------------------------------------------------------
(* StudioCaptureSupervisor._run *)

captureUnchanged == UNCHANGED <<uses, faults, job, tracker, latest, disk, brush, pump, ending>>

FailedCapture(c) == [c EXCEPT !.at = "ended", !.fatal = TRUE, !.stop = TRUE]

readStatus ==
  /\ capture.at = "status"
  /\ capture' = [capture EXCEPT !.at = "check",
       !.status = [size |-> Len(camera.frames), broken |-> camera.broken]]
  /\ UNCHANGED <<camera, vision, recorder>> /\ captureUnchanged

\* Nothing but this thread looks at brush_frame_id_gaps.
IsIncomplete ==
  capture.status.broken \/ vision.fatal \/ pump.fatal \/ pump.gaps > 0 \/ brush.drops > 0

checkHealth ==
  /\ capture.at = "check"
  /\ capture' = IF capture.stop /\ capture.status.size = 0
                  THEN [capture EXCEPT !.at = "ended"]
                ELSE IF IsIncomplete THEN FailedCapture(capture)
                ELSE [capture EXCEPT !.at = "get"]
  /\ UNCHANGED <<camera, vision, recorder>> /\ captureUnchanged

\* HP60CDirectBridge.convert: a repeated id or a gap is an error.
Follows(id) == capture.taken = 0 \/ id = capture.taken + 1

\* on_rgbd_frame: admission never waits.
Admits == ~vision.stop /\ Len(vision.ingest) < IngestQueue

admit(id) ==
  vision' = [vision EXCEPT !.ingest = Append(@, id),
                               !.received = Append(@, id),
                               !.unfinished = @ + 1]

\* get_frame and HP60CDirectBridge.accept.  A frame may still be refused for
\* its pairing, its payload or its time.
takeFrame(refused) ==
  /\ capture.at = "get"
  /\ camera.frames # <<>>
  /\ refused => faults < MaxFaults
  /\ faults' = IF refused THEN faults + 1 ELSE faults
  /\ camera' = [camera EXCEPT !.frames = Tail(@)]
  /\ LET id == Head(camera.frames)
         next == [capture EXCEPT !.at = "status", !.taken = id]
     IN CASE refused \/ ~Follows(id) ->
               capture' = FailedCapture(capture) /\ UNCHANGED vision
          [] ~(refused \/ ~Follows(id)) /\ id <= WarmUp ->
               capture' = next /\ UNCHANGED vision
          [] OTHER -> IF Admits THEN capture' = next /\ admit(id)
                                ELSE capture' = FailedCapture(next) /\ UNCHANGED vision
  /\ UNCHANGED <<uses, recorder, job, tracker, latest, disk, brush, pump, ending>>

\* The 100 ms of get_frame pass without a frame.
noFrame ==
  /\ capture.at = "get"
  /\ camera.frames = <<>>
  /\ capture' = [capture EXCEPT !.at = "status"]
  /\ UNCHANGED <<camera, vision, recorder>> /\ captureUnchanged

CaptureThread == readStatus \/ checkHealth \/ (\E r \in BOOLEAN : takeFrame(r)) \/ noFrame

-----------------------------------------------------------------------------
(* RGBDSemanticPipeline._run, with EpisodeVisionWriter: the metadata of a  *)
(* frame is written after its two files, that of a mask after the mask.    *)

recorderUnchanged == UNCHANGED <<uses, camera, capture, brush, pump, ending>>

\* Faulty variant: what is queued is left when the recording is stopped.
getFrameUntilStop ==
  /\ recorder.at = "loop"
  /\ ~vision.stop
  /\ vision.ingest # <<>>
  /\ vision' = [vision EXCEPT !.ingest = Tail(@)]
  /\ recorder' = [recorder EXCEPT !.at = "rgb", !.frame = Head(vision.ingest)]
  /\ UNCHANGED <<faults, job, tracker, latest, disk>> /\ recorderUnchanged

getFrame ==
  /\ recorder.at = "loop"
  /\ vision.ingest # <<>>
  /\ vision' = [vision EXCEPT !.ingest = Tail(@)]
  /\ recorder' = [recorder EXCEPT !.at = "rgb", !.frame = Head(vision.ingest)]
  /\ UNCHANGED <<faults, job, tracker, latest, disk>> /\ recorderUnchanged

\* _atomic_bytes: the whole file, or none of it.
write(at, where, next) ==
  /\ recorder.at = at
  /\ disk' = [disk EXCEPT ![where] = @ \cup {recorder.frame}]
  /\ recorder' = [recorder EXCEPT !.at = next]
  /\ UNCHANGED <<faults, vision, job, tracker, latest>> /\ recorderUnchanged

\* Faulty variant: the commit marker is written between the two files.
CommittedEarly ==
  write("rgb", "rgb", "depth") \/ write("depth", "meta", "meta") \/ write("meta", "depth", "track")

store_raw_frame ==
  write("rgb", "rgb", "depth") \/ write("depth", "depth", "meta") \/ write("meta", "meta", "track")

\* One that cannot be written: the frames that are queued are still archived.
storeFails ==
  /\ recorder.at \in {"rgb", "depth", "meta"}
  /\ faults < MaxFaults
  /\ faults' = faults + 1
  /\ vision' = [vision EXCEPT !.fatal = TRUE, !.stop = TRUE, !.unfinished = @ - 1]
  /\ recorder' = [recorder EXCEPT !.at = "loop"]
  /\ UNCHANGED <<job, tracker, latest, disk>> /\ recorderUnchanged

\* Faulty variant: a prediction may be one frame older.
OutlivesByOne(t) == t.age > MaxPredict

\* RGBDLocalTracker.update: a seed is predicted for so many frames, from
\* each to the next.
Outlived(t) == t.age >= MaxPredict

Updated(t, id, seen) ==
  CASE t.source = 0 -> [track |-> t, state |-> "UNKNOWN"]
    [] t.source # 0 /\ id <= t.last -> [track |-> t, state |-> "LOST"]
    [] t.source # 0 /\ id > t.last /\ (Outlived(t) \/ ~seen) ->
         [track |-> NoTrack, state |-> "LOST"]
    [] OTHER -> [track |-> [source |-> t.source, last |-> id, age |-> t.age + 1],
                 state |-> "PREDICTED"]

Output(id, u) == [frame |-> id, state |-> u.state, source |-> u.track.source]

RecentFrames == (IF Clip > MaxReplay THEN Clip ELSE MaxReplay) + 5

Latest(s, n) == SubSeq(s, IF Len(s) > n THEN Len(s) - n + 1 ELSE 1, Len(s))

\* _schedule_if_due: one request at a time.
schedule(recent, due) ==
  IF due /\ "sam3" \in uses /\ ~vision.stop /\ job.state = "none" /\ Len(recent) >= Clip
    THEN job' = [state |-> "asked", clip |-> Latest(recent, Clip), masked |-> {}]
    ELSE UNCHANGED job

trackAndSchedule(seen, due) ==
  /\ recorder.at = "track"
  /\ LET id == recorder.frame
         u  == Updated(tracker, id, seen)
         recent == Latest(Append(recorder.recent, id), RecentFrames)
     IN /\ tracker' = u.track
        /\ latest' = Output(id, u)
        /\ schedule(recent, due)
        /\ recorder' = [recorder EXCEPT !.at = "loop", !.recent = recent]
  /\ vision' = [vision EXCEPT !.unfinished = @ - 1]
  /\ UNCHANGED <<faults, disk>> /\ recorderUnchanged

-----------------------------------------------------------------------------
(* _drain_sam3: the job stays until its last mask is written. *)

startDrain ==
  /\ recorder.at = "loop"
  /\ job.state = "done"
  /\ recorder' = [recorder EXCEPT !.at = "mask", !.left = job.clip]
  /\ UNCHANGED <<faults, vision, job, tracker, latest, disk>> /\ recorderUnchanged

skipUnmasked ==
  /\ recorder.at = "mask"
  /\ recorder.left # <<>>
  /\ Head(recorder.left) \notin job.masked
  /\ recorder' = [recorder EXCEPT !.left = Tail(@)]
  /\ UNCHANGED <<faults, vision, job, tracker, latest, disk>> /\ recorderUnchanged

store_mask ==
  /\ recorder.left # <<>>
  /\ LET id == Head(recorder.left)
         mask == <<id, Head(job.clip)>>
     IN \/ /\ recorder.at = "mask"
           /\ id \in job.masked \cap disk.meta
           /\ disk' = [disk EXCEPT !.masks = @ \cup {mask}]
           /\ recorder' = [recorder EXCEPT !.at = "annotation"]
        \/ /\ recorder.at = "annotation"
           /\ disk' = [disk EXCEPT !.annotations = @ \cup {mask}]
           /\ recorder' = [recorder EXCEPT !.at = "mask", !.left = Tail(@)]
  /\ UNCHANGED <<faults, vision, job, tracker, latest>> /\ recorderUnchanged

\* finally: self._job=None
EndedJob == NoJob

\* The request failed, or a mask cannot be written.
drainFails ==
  /\ \/ recorder.at = "loop" /\ job.state = "failed" /\ UNCHANGED faults
     \/ recorder.at \in {"mask", "annotation"} /\ recorder.left # <<>>
          /\ faults < MaxFaults /\ faults' = faults + 1
  /\ job' = EndedJob
  /\ recorder' = [recorder EXCEPT !.at = "loop", !.left = <<>>]
  /\ UNCHANGED <<vision, tracker, latest, disk>> /\ recorderUnchanged

\* _reseed_if_recent: a new tracker is started on a masked frame and taken
\* through every frame since, if all of them are at hand and it outlives none.
NewestId == recorder.recent[Len(recorder.recent)]

Replayable(seed) ==
  /\ recorder.recent # <<>>
  /\ NewestId - seed \in 0..MaxReplay
  /\ \A id \in seed..NewestId : \E k \in DOMAIN recorder.recent : recorder.recent[k] = id

ReplayedTo(id, seed) == [source |-> seed, last |-> id, age |-> id - seed]

reseed(seed) ==
  IF Replayable(seed) /\ \A id \in seed..(NewestId - 1) : ~Outlived(ReplayedTo(id, seed))
    THEN LET replayed == ReplayedTo(NewestId, seed)
         IN /\ tracker' = replayed
            /\ latest' = Output(NewestId,
                 [track |-> replayed,
                  state |-> IF NewestId = seed THEN "OBSERVED" ELSE "PREDICTED"])
    ELSE UNCHANGED <<tracker, latest>>

\* The seed is the last frame with one unambiguous brush.  There is none, or
\* it has no depth, is lost on the way or is not the brush that is tracked.
endDrain ==
  /\ recorder.at = "mask"
  /\ recorder.left = <<>>
  /\ \/ UNCHANGED <<tracker, latest>>
     \/ \E seed \in job.masked : reseed(seed)
  /\ job' = NoJob
  /\ recorder' = [recorder EXCEPT !.at = "loop"]
  /\ UNCHANGED <<faults, vision, disk>> /\ recorderUnchanged

\* The loop ends with nothing left to do.
recorderEnds ==
  /\ recorder.at = "loop"
  /\ vision.stop
  /\ vision.ingest = <<>>
  /\ job.state = "none"
  /\ recorder' = [recorder EXCEPT !.at = "ended"]
  /\ UNCHANGED <<faults, vision, job, tracker, latest, disk>> /\ recorderUnchanged

Recorder ==
  \/ getFrame \/ store_raw_frame \/ storeFails
  \/ \E seen, due \in BOOLEAN : trackAndSchedule(seen, due)
  \/ startDrain \/ skipUnmasked \/ store_mask \/ drainFails
  \/ endDrain
  \/ recorderEnds

\* parse_sam3_zip: a mask is of a frame of the clip, and not all have one.
Maskings(clip) == SUBSET {clip[k] : k \in DOMAIN clip}

\* Sam3V4BatchClient.segment_clip: an answer, an error or its read timeout.
segment_clip ==
  /\ job.state = "asked"
  /\ \/ job' = [job EXCEPT !.state = "failed"]
     \/ \E found \in Maskings(job.clip) : job' = [job EXCEPT !.state = "done", !.masked = found]
  /\ UNCHANGED <<uses, faults, camera, capture, vision, recorder, tracker, latest,
                 disk, brush, pump, ending>>

-----------------------------------------------------------------------------
(* The pen's samples, BrushSerial's queue, and _pump_serial. *)

pumpUnchanged == UNCHANGED <<uses, camera, capture, vision, recorder, job, tracker,
                             latest, ending>>

\* _handle_packet: a full queue loses its oldest.
queueSample(id) ==
  LET full == Len(brush.frames) = BrushQueue
  IN brush' = [brush EXCEPT !.made = id,
                 !.drops = IF full THEN @ + 1 ELSE @,
                 !.frames = Append(IF full THEN Tail(@) ELSE @, id)]

sampleArrives ==
  /\ brush.open
  /\ brush.made < MaxSamples
  /\ queueSample(brush.made + 1)
  /\ UNCHANGED <<faults, disk, pump>> /\ pumpUnchanged

\* A sample is lost on its way, or the base starts counting again.
sampleIsAmiss ==
  /\ brush.open
  /\ brush.made < MaxSamples
  /\ faults < MaxFaults
  /\ faults' = faults + 1
  /\ \E id \in {brush.made + 2, 0} : queueSample(id)
  /\ UNCHANGED <<disk, pump>> /\ pumpUnchanged

\* SignalCSVWriter.append: an id or a time that goes back is an error.
append(id) ==
  IF pump.last = 0 \/ id > pump.last
    THEN /\ disk' = [disk EXCEPT !.signal = Append(@, id)]
         /\ pump' = [pump EXCEPT !.last = id,
                       !.gaps = IF pump.last # 0 THEN @ + id - pump.last - 1 ELSE @]
    ELSE /\ pump' = [pump EXCEPT !.at = "ended", !.stop = TRUE, !.fatal = TRUE]
         /\ UNCHANGED disk

pumpSample ==
  /\ pump.at = "loop"
  /\ brush.drops = 0
  /\ brush.frames # <<>>
  /\ append(Head(brush.frames))
  /\ brush' = [brush EXCEPT !.frames = Tail(@)]
  /\ UNCHANGED faults /\ pumpUnchanged

pumpSeesDrops ==
  /\ pump.at = "loop"
  /\ ~pump.stop \/ brush.frames # <<>>
  /\ brush.drops > 0
  /\ pump' = [pump EXCEPT !.at = "ended", !.stop = TRUE, !.fatal = TRUE]
  /\ UNCHANGED <<faults, disk, brush>> /\ pumpUnchanged

pumpEnds ==
  /\ pump.at = "loop"
  /\ pump.stop
  /\ brush.frames = <<>>
  /\ pump' = [pump EXCEPT !.at = "ended"]
  /\ UNCHANGED <<faults, disk, brush>> /\ pumpUnchanged

Pump == pumpSample \/ pumpSeesDrops \/ pumpEnds

-----------------------------------------------------------------------------
(* shut_down(), StudioCaptureSupervisor.close() and what it calls.  Each   *)
(* wait has its timeout.                                                   *)

closeUnchanged == UNCHANGED <<uses, faults, recorder, job, tracker, latest, disk>>

At(here, next) == ending.at = here /\ ending' = [ending EXCEPT !.at = next]

Raised(here, next) == ending.at = here /\ ending' = [at |-> next, error |-> TRUE]

\* The button, the window's close, or tick() that sees the fatal error.
stop_capture ==
  /\ At("open", "brush")
  /\ camera' = [camera EXCEPT !.running = FALSE]
  /\ UNCHANGED <<capture, vision, brush, pump>> /\ closeUnchanged

releaseBrush ==
  /\ At("brush", "request")
  /\ brush' = [brush EXCEPT !.open = FALSE]
  /\ UNCHANGED <<camera, capture, vision, pump>> /\ closeUnchanged

request_stop ==
  /\ At("request", "join")
  /\ capture' = [capture EXCEPT !.stop = TRUE]
  /\ UNCHANGED <<camera, vision, brush, pump>> /\ closeUnchanged

\* While the capture thread lives, the camera's queue is its own.
joinCapture ==
  /\ \/ capture.at = "ended" /\ At("join", "flush")
     \/ capture.at # "ended" /\ Raised("join", "failed")
  /\ UNCHANGED <<camera, capture, vision, brush, pump>> /\ closeUnchanged

\* Faulty variant: only the frames that wait are waited for.
QueueIsEmpty == vision.ingest = <<>>

\* flush(): every frame that was taken from the queue is done with.
NothingUnfinished == vision.unfinished = 0

\* flush() looks at the frames, and then at the job.
flush(here, look, next, raise) ==
  /\ \/ vision.fatal /\ Raised(here, raise)
     \/ ~vision.fatal /\ NothingUnfinished /\ At(here, look)
     \/ ~(~vision.fatal /\ NothingUnfinished) /\ Raised(here, raise)
     \/ job.state = "none" /\ At(look, next)
     \/ job.state # "none" /\ (At(look, here) \/ Raised(look, raise))
  /\ UNCHANGED <<camera, capture, vision, brush, pump>> /\ closeUnchanged

flushPipeline == flush("flush", "flush: job", "stop pump", "stop pump")

\* EBrushVisionCoordinator.close()
stopPump ==
  /\ At("stop pump", "join pump")
  /\ pump' = [pump EXCEPT !.stop = TRUE]
  /\ UNCHANGED <<camera, capture, vision, brush>> /\ closeUnchanged

joinPump ==
  /\ \/ pump.at = "ended" /\ At("join pump", "stop recorder")
     \/ pump.at # "ended" /\ Raised("join pump", "stop recorder")
  /\ UNCHANGED <<camera, capture, vision, brush, pump>> /\ closeUnchanged

\* RGBDSemanticPipeline.close()
stopRecorder ==
  /\ At("stop recorder", "flush again")
  /\ vision' = [vision EXCEPT !.stop = TRUE]
  /\ UNCHANGED <<camera, capture, brush, pump>> /\ closeUnchanged

flushAgain == flush("flush again", "flush again: job", "verdict", "verdict")

verdict ==
  /\ ending.at = "verdict"
  /\ ending' = [ending EXCEPT !.at =
       IF ending.error \/ capture.fatal \/ vision.fatal \/ pump.fatal
         THEN "failed" ELSE "complete"]
  /\ UNCHANGED <<camera, capture, vision, brush, pump>> /\ closeUnchanged

Shutdown ==
  \/ releaseBrush \/ request_stop \/ joinCapture \/ flushPipeline \/ stopPump
  \/ joinPump \/ stopRecorder \/ flushAgain \/ verdict

CaptureNext ==
  \/ frameArrives \/ frameIsAmiss \/ frameIsBroken
  \/ CaptureThread \/ Recorder \/ segment_clip
  \/ sampleArrives \/ sampleIsAmiss \/ Pump
  \/ stop_capture \/ Shutdown

\* The threads run and the request to SAM3 has its timeout.
CaptureFairness ==
  /\ WF_captureVars(CaptureThread)
  /\ WF_captureVars(Recorder)
  /\ WF_captureVars(segment_clip)
  /\ WF_captureVars(Pump)
  /\ WF_captureVars(Shutdown)

CaptureSpec == CaptureInit /\ [][CaptureNext]_captureVars /\ CaptureFairness

-----------------------------------------------------------------------------
\* dataset.py:88, "Frame metadata is the commit marker": whatever a crash or a
\* full disk interrupts, a frame with metadata has both its files, and an
\* annotation its mask and its frame.
EvidenceIsWhole ==
  /\ disk.meta \subseteq disk.rgb \cap disk.depth
  /\ disk.annotations \subseteq disk.masks
  /\ \A m \in disk.masks : m[1] \in disk.meta

\* An episode that is closed without an error has every frame that was
\* admitted, without a hole, every mask of the last answer, and nothing is
\* still being written.
CompleteMeansComplete ==
  ending.at = "complete" =>
    /\ disk.meta = {vision.received[k] : k \in DOMAIN vision.received}
    /\ \A k \in 2..Len(vision.received) :
         vision.received[k] = vision.received[k - 1] + 1
    /\ recorder.at \in {"loop", "ended"}
    /\ job.state = "none"
    /\ pump.at = "ended"
    /\ brush.drops = 0 /\ brush.frames = <<>>

\* A track that is shown as predicted was seen by SAM3 on one of the last
\* MaxPredict frames, however late the answer came and whatever was replayed.
\* The tracker counts the frames it works on: one that cannot be archived is not
\* counted, and what is shown after it may be older.
TrackIsFresh ==
  ~vision.fatal /\ latest.state \in {"OBSERVED", "PREDICTED"} =>
    latest.frame - latest.source \in 0..MaxPredict

\* Once the recording is stopped the recorder thread ends, whatever failed.
RecorderEnds == vision.stop ~> recorder.at = "ended"

\* studio_capture.py:54, "all errors are visible and fail closed": an episode
\* that is closed without an error has no frame left in the camera's queue, no
\* frame that the callback failed on and no gap in the pen's samples.
FailsClosed ==
  ending.at = "complete" => camera.frames = <<>> /\ ~camera.broken /\ pump.gaps = 0
=============================================================================
