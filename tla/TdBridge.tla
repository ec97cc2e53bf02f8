------------------------------ MODULE TdBridge ------------------------------
(***************************************************************************)
(* The bridge to the camera's SDK, hp60c_ndi_sender/hp60c_td_bridge_v7.py: *)
(* the SDK's two callbacks, the frame they leave, and the caller of        *)
(* td_init(), the td_get functions and td_shutdown().  The caller is the   *)
(* worker of hp60c_v13 (LegacyV7Adapter and the loop of main()) or the     *)
(* scripts of TouchDesigner, which shut down what they have started, well  *)
(* or badly, before they start again.                                      *)
(*                                                                         *)
(* A frame is a capture of the camera, its id there (0 when there is no    *)
(* depth image) and the parts that the callback found in it.  The lock is  *)
(* held for one access at a time.  What the SDK does is external: it calls *)
(* back from a thread for each kind of callback, stop_stream() waits for a *)
(* callback that runs, and after a reset the handle is invalid.            *)
(***************************************************************************)
EXTENDS Integers, Sequences, FiniteSets

CONSTANTS
  QueueSize,     (* _frame_queue: 2 *)
  Reenumerates,  (* the camera is back 13 s after a reset, always *)
  MaxCaptures,   (* bound: captures of the camera *)
  MaxId,         (* bound: ids that the worker makes up *)
  MaxInits       (* bound: calls of td_init() *)

ASSUME BridgeAssumption ==
  /\ QueueSize \in Nat \ {0}
  /\ Reenumerates \in BOOLEAN
  /\ {MaxCaptures, MaxId, MaxInits} \subseteq Nat

Kinds == {"stream", "merge"}

VARIABLES
  caller,       (* "worker" or "scripts" *)
  here,         (* where it is *)
  cam_sdk,      (* _cam_sdk is there *)
  cam_handle,   (* _camera_handle: the number of a handle, 0 for none *)
  handles,      (* the SDK: the handles made so far, "created" to "closed" *)
  merges,       (* the SDK accepted the merge callback *)
  bridge_running, (* _running *)
  queued,       (* frames in _frame_queue, which nobody takes but to make room *)
  latest_frame, (* _latest_frame *)
  is_fresh,     (* it is less than a second old *)
  callbacks,    (* where each callback is, and its frame *)
  captures,     (* captures each kind of callback has had *)
  packet,       (* get_packet(): the captures that rgb, depth and points are of *)
  frame_id,     (* LegacyV7Adapter.frame_id *)
  committed_id, (* last_committed_sdk_frame_id *)
  delivered,    (* history: ids that _latest_frame has had *)
  commits,      (* history: packets published under an id of the camera *)
  misused,      (* history: the SDK was called with an invalid handle *)
  inits         (* bound: calls of td_init() *)

sdkVars     == <<cam_sdk, cam_handle, handles, merges, misused>>
frameVars   == <<queued, latest_frame, is_fresh, callbacks, captures, delivered>>
adapterVars == <<packet, frame_id, committed_id, commits>>
bridgeVars  == <<caller, here, bridge_running, inits, sdkVars, frameVars, adapterVars>>

NoFrame  == [capture |-> 0, id |-> 0, parts |-> {}]
NoPacket == [rgb |-> 0, depth |-> 0, points |-> 0]

BridgeBlank ==
  /\ cam_sdk = FALSE /\ cam_handle = 0 /\ handles = <<>> /\ merges = FALSE
  /\ misused = FALSE
  /\ bridge_running = FALSE
  /\ queued = 0
  /\ latest_frame = NoFrame /\ is_fresh = FALSE
  /\ callbacks = [k \in Kinds |-> [at |-> "idle", frame |-> NoFrame]]
  /\ captures = [k \in Kinds |-> 0]
  /\ delivered = {}
  /\ packet = NoPacket
  /\ frame_id = 0 /\ committed_id = 0 /\ commits = 0
  /\ inits = 0

BridgeInit == caller \in {"worker", "scripts"} /\ here = "idle" /\ BridgeBlank

\* The program is not used.
BridgeUnused == caller = "scripts" /\ here = "ended" /\ BridgeBlank

Move(from, to) == here = from /\ here' = to

-----------------------------------------------------------------------------
(* The SDK's callbacks. *)

Streams == \E h \in DOMAIN handles : handles[h] = "streaming"

\* What the callbacks find.  Depth may come in the place of the point cloud,
\* and then the frame has no id.
Found(k, capture) ==
  CASE k = "stream" ->
         {[capture |-> capture, id |-> capture, parts |-> {"rgb", "depth", "points"}],
          [capture |-> capture, id |-> 0, parts |-> {"rgb", "depth"}]}
    [] k = "merge" ->
         {[capture |-> capture, id |-> capture, parts |-> {"depth", "points"}]}

CallbackGoes(k, to) == callbacks' = [callbacks EXCEPT ![k].at = to]

notThere == UNCHANGED <<caller, here, bridge_running, inits, sdkVars, adapterVars>>

\* Up to the queue.  The camera skips captures, the callbacks need not keep pace.
beginCallback(k) ==
  /\ Streams /\ (k = "merge" => merges)
  /\ callbacks[k].at = "idle"
  /\ \E capture \in captures[k] + 1 .. MaxCaptures :
       /\ captures' = [captures EXCEPT ![k] = capture]
       /\ IF bridge_running
            THEN \E f \in Found(k, capture) :
                   callbacks' = [callbacks EXCEPT ![k] = [at |-> "put", frame |-> f]]
            ELSE UNCHANGED callbacks
  /\ UNCHANGED <<queued, latest_frame, is_fresh, delivered>> /\ notThere

HasRoom == queued < QueueSize

put(k) ==
  /\ callbacks[k].at = "put"
  /\ IF HasRoom
       THEN queued' = queued + 1 /\ CallbackGoes(k, "latest")
       ELSE UNCHANGED queued /\ CallbackGoes(k, "get")
  /\ UNCHANGED <<latest_frame, is_fresh, captures, delivered>> /\ notThere

getOldest(k) ==
  /\ callbacks[k].at = "get"
  /\ queued' = IF queued = 0 THEN 0 ELSE queued - 1
  /\ CallbackGoes(k, "put again")
  /\ UNCHANGED <<latest_frame, is_fresh, captures, delivered>> /\ notThere

\* The other callback may have filled it again: the exception ends this one.
putAgain(k) ==
  /\ callbacks[k].at = "put again"
  /\ IF HasRoom
       THEN queued' = queued + 1 /\ CallbackGoes(k, "latest")
       ELSE UNCHANGED queued /\ callbacks' = [callbacks EXCEPT ![k] = [at |-> "idle", frame |-> NoFrame]]
  /\ UNCHANGED <<latest_frame, is_fresh, captures, delivered>> /\ notThere

setLatest(k) ==
  /\ callbacks[k].at = "latest"
  /\ latest_frame' = callbacks[k].frame
  /\ is_fresh' = TRUE
  /\ delivered' = delivered \cup ({callbacks[k].frame.id} \ {0})
  /\ callbacks' = [callbacks EXCEPT ![k] = [at |-> "idle", frame |-> NoFrame]]
  /\ UNCHANGED <<queued, captures>> /\ notThere

Callback == \E k \in Kinds : beginCallback(k) \/ put(k) \/ getOldest(k) \/ putAgain(k) \/ setLatest(k)

\* MAX_FRAME_AGE_S pass without a frame.
secondPasses ==
  /\ is_fresh
  /\ is_fresh' = FALSE
  /\ UNCHANGED <<queued, latest_frame, callbacks, captures, delivered>> /\ notThere

-----------------------------------------------------------------------------
(* td_init() *)

elsewhere == UNCHANGED <<caller, inits, frameVars, adapterVars>>

\* The worker goes on as if it had succeeded, unless the result is False itself.
Returned == IF caller = "worker" THEN "wait" ELSE "idle"

Fails(from) == Move(from, Returned) /\ bridge_running' = FALSE

\* Up to the callbacks: it fails before there is an SDK, or a handle, or with
\* one, which it leaves as it is.  (The warm-up is a stream nobody sees.)
beginInit ==
  /\ here = "idle" /\ inits < MaxInits
  /\ caller = "scripts" => ~bridge_running /\ ~cam_sdk
  /\ inits' = inits + 1
  /\ \/ Move("idle", Returned) /\ UNCHANGED sdkVars
     \/ /\ Move("idle", Returned)
        /\ cam_sdk' = TRUE
        /\ UNCHANGED <<cam_handle, handles, merges, misused>>
     \/ /\ cam_sdk' = TRUE
        /\ handles' = Append(handles, "open")
        /\ cam_handle' = Len(handles) + 1
        /\ \E accepted \in BOOLEAN : merges' = accepted
        /\ \E next \in {Returned, "start"} : Move("idle", next)
        /\ UNCHANGED misused
  /\ UNCHANGED <<caller, bridge_running, frameVars, adapterVars>>

\* _running is set first: frames may come before start_stream() returns.
startStream(from, next) ==
  /\ \/ /\ Move(from, Returned)
        /\ handles' = [handles EXCEPT ![cam_handle] = "streaming"]
        /\ bridge_running' = TRUE
     \/ /\ Move(from, next)
        /\ bridge_running' = (next # Returned)
        /\ UNCHANGED handles
  /\ UNCHANGED <<cam_sdk, cam_handle, merges, misused>> /\ elsewhere

startFirst  == here = "start" /\ startStream("start", "reboot")
startSecond == here = "start again" /\ startStream("start again", Returned)

camera_reboot ==
  /\ \/ Fails("reboot") /\ UNCHANGED handles
     \/ /\ Move("reboot", "back")
        /\ handles' = [handles EXCEPT ![cam_handle] = "invalid"]
        /\ UNCHANGED bridge_running
  /\ UNCHANGED <<cam_sdk, cam_handle, merges, misused>> /\ elsewhere

\* Faulty variant: the old handle is kept until there is a new one.
abandonLater ==
  /\ \/ ~Reenumerates /\ Fails("back") /\ UNCHANGED cam_handle
     \/ Move("back", "create") /\ UNCHANGED <<cam_handle, bridge_running>>
  /\ UNCHANGED <<cam_sdk, handles, merges, misused>> /\ elsewhere

\* _wait_camera_ready_after_reboot(), and the old handle is abandoned.
abandon ==
  /\ \/ ~Reenumerates /\ Fails("back") /\ UNCHANGED cam_handle
     \/ Move("back", "create") /\ cam_handle' = 0 /\ UNCHANGED bridge_running
  /\ UNCHANGED <<cam_sdk, handles, merges, misused>> /\ elsewhere

\* create_cam_handle() fails, or what comes after it, or nothing.
createAgain ==
  /\ \/ Fails("create") /\ UNCHANGED <<cam_handle, handles, merges>>
     \/ /\ handles' = Append(handles, "open")
        /\ cam_handle' = Len(handles) + 1
        /\ \E accepted \in BOOLEAN : merges' = accepted
        /\ \/ Fails("create")
           \/ Move("create", "start again") /\ UNCHANGED bridge_running
  /\ UNCHANGED <<cam_sdk, misused>> /\ elsewhere

td_init == beginInit \/ startFirst \/ camera_reboot \/ abandon \/ createAgain \/ startSecond

-----------------------------------------------------------------------------
(* td_shutdown() *)

IsStopped == ~bridge_running /\ ~cam_sdk

AfterShutdown == IF caller = "worker" THEN "ended" ELSE "idle"

beginShutdown(from) ==
  /\ Move(from, "stop")
  /\ ~IsStopped
  /\ bridge_running' = FALSE
  /\ UNCHANGED sdkVars /\ elsewhere

\* stop_stream(), close_camera(), destroy_cam_handle(), deinit().
stopStream ==
  /\ Move("stop", "drain")
  /\ \A k \in Kinds : callbacks[k].at = "idle"
  /\ IF cam_handle # 0
       THEN /\ misused' = (misused \/ handles[cam_handle] = "invalid")
            /\ handles' = [handles EXCEPT ![cam_handle] = "closed"]
            /\ cam_handle' = 0
       ELSE UNCHANGED <<misused, handles, cam_handle>>
  /\ cam_sdk' = FALSE
  /\ UNCHANGED <<merges, bridge_running>> /\ elsewhere

drain ==
  /\ Move("drain", AfterShutdown)
  /\ queued' = 0
  /\ UNCHANGED <<caller, bridge_running, inits, sdkVars, latest_frame, is_fresh,
                 callbacks, captures, delivered, adapterVars>>

td_shutdown ==
  \/ caller = "scripts" /\ beginShutdown("idle")
  \/ stopStream \/ drain

-----------------------------------------------------------------------------
(* The worker: LegacyV7Adapter and the loop of main(). *)

noSdkCall == UNCHANGED <<caller, bridge_running, inits, sdkVars, frameVars>>

\* td_wait_first_frame(): a failed td_init() is found out here, if at all.
td_wait_first_frame ==
  /\ \/ latest_frame # NoFrame /\ Move("wait", "loop")
     \/ latest_frame = NoFrame /\ Move("wait", "ended")
  /\ UNCHANGED adapterVars /\ noSdkCall

\* td_get_latest_frame() and what is in it.
Part(name) == IF is_fresh /\ name \in latest_frame.parts THEN latest_frame.capture ELSE 0

getRgb ==
  /\ Move("loop", "depth")
  /\ packet' = [NoPacket EXCEPT !.rgb = Part("rgb")]
  /\ UNCHANGED <<frame_id, committed_id, commits>> /\ noSdkCall

getDepth ==
  /\ Move("depth", "points")
  /\ packet' = [packet EXCEPT !.depth = Part("depth")]
  /\ UNCHANGED <<frame_id, committed_id, commits>> /\ noSdkCall

getPointcloud ==
  /\ Move("points", "id")
  /\ packet' = [packet EXCEPT !.points = Part("points")]
  /\ UNCHANGED <<frame_id, committed_id, commits>> /\ noSdkCall

\* Faulty variant: the id of the frame is taken as it comes.
NextIdAsGiven == IF latest_frame.id = 0 THEN frame_id + 1 ELSE latest_frame.id

\* _latest_frame_id(): of whatever frame is the latest by now, however old.  A
\* frame without an id is given the next one, each time it is looked at.
NextId ==
  LET given == IF latest_frame.id = 0 THEN frame_id + 1 ELSE latest_frame.id
  IN  IF given > frame_id THEN given ELSE frame_id

\* The rest of get_packet(), and the loop: an id that was published is skipped.
commit ==
  /\ Move("id", "loop")
  /\ packet' = NoPacket
  /\ IF packet = NoPacket THEN UNCHANGED <<frame_id, committed_id, commits>>
     ELSE /\ NextId <= MaxId
          /\ frame_id' = NextId
          /\ committed_id' = NextId
          /\ commits' = IF NextId = committed_id \/ latest_frame.id = 0
                          THEN commits ELSE commits + 1
  /\ noSdkCall

\* stop_requested() ends the loop and closes the adapter.
stopRequested == beginShutdown("loop")

BridgeWorker ==
  \/ td_wait_first_frame
  \/ getRgb \/ getDepth \/ getPointcloud \/ commit
  \/ stopRequested

-----------------------------------------------------------------------------
BridgeNext == Callback \/ secondPasses \/ td_init \/ td_shutdown \/ BridgeWorker

BridgeSpec == BridgeInit /\ [][BridgeNext]_bridgeVars

-----------------------------------------------------------------------------
\* hp60c_worker_v13.py:500, "Only commit when the SDK-reported frame_id has
\* actually advanced": however the callbacks overtake each other, and ids are
\* made up in between, the worker publishes no more packets of frames with an
\* id than ids it was given.
CommitsFollowTheCamera == commits <= Cardinality(delivered)

\* No handle that is open is forgotten, whatever call of td_init() fails, and
\* "close/destroy on it can fault inside the vendor SDK": a handle from before
\* a reset is never given to the SDK.
HandlesAreUsedWell ==
  /\ \A h \in DOMAIN handles : handles[h] \in {"open", "streaming"} => h = cam_handle /\ cam_sdk
  /\ ~misused

\* hp60c_worker_v13.py:146, "one FramePacket per callback": what get_packet()
\* returns to be published is of one capture.
PacketIsOneFrame ==
  here = "id" /\ NextId # committed_id =>
    Cardinality({packet.rgb, packet.depth, packet.points} \ {0}) <= 1
=============================================================================
