------------------------------ MODULE NdiSender -----------------------------
(***************************************************************************)
(* hp60c_ndi_sender: the camera's frames as an NDI source.  The program    *)
(* exists twice, in C++ (src/main.cpp with HP60CCapture and NDISender,     *)
(* released by destructors) and as a prototype in Python, whose callback   *)
(* counts frames only.  The main thread acquires the SDK, the camera, the  *)
(* NDI library and a sender, any of which may fail, and releases them; the *)
(* SDK's thread sends out of the callback in the meantime.                 *)
(*                                                                         *)
(* A picture of depth is a scene; a range of depths is the set of scenes   *)
(* it was made of.                                                         *)
(***************************************************************************)
EXTENDS Integers, Sequences

CONSTANTS
  Scenes,      (* what a depth image can show, "flat" among others *)
  AutoFrames   (* kAutoRangeMaxFrames: 30 *)

ASSUME NdiAssumption == "flat" \in Scenes /\ AutoFrames \in Nat \ {0}

VARIABLES
  program,      (* "cpp" or "python" *)
  doing,        (* what the main thread does next *)
  g_running,
  sdk_ready,    (* AS_SDK_Init without AS_SDK_Deinit *)
  m_camera,     (* the handle: "none", "closed" or "open" *)
  registered,   (* the stream callback *)
  streaming,    (* AS_SDK_StartStream without AS_SDK_StopStream *)
  libraries,    (* NDIlib_initialize less NDIlib_destroy *)
  sender,       (* NDIlib_send_create without NDIlib_send_destroy *)
  initialized,  (* m_initialized *)
  sends,        (* the SDK's thread: what it still sends of a frame *)
  in_library,   (* it is past the check, in a call of the NDI library *)
  depth_range,  (* m_minDepthMM and m_maxDepthMM *)
  range_frames, (* m_autoRangeFrames *)
  auto_range    (* m_autoDepthRange *)

deviceState == <<sdk_ready, m_camera, registered, streaming>>
ndiState    == <<libraries, sender, initialized>>
rangeState  == <<depth_range, range_frames, auto_range>>
frameState  == <<sends, in_library, rangeState>>
ndiVars     == <<program, doing, g_running, deviceState, ndiState, frameState>>

NothingHeld ==
  /\ g_running = TRUE
  /\ sdk_ready = FALSE /\ m_camera = "none" /\ registered = FALSE /\ streaming = FALSE
  /\ libraries = 0 /\ sender = FALSE /\ initialized = FALSE
  /\ sends = <<>> /\ in_library = FALSE
  /\ depth_range = {"default"} /\ range_frames = 0 /\ auto_range = TRUE

NdiInit   == program \in {"cpp", "python"} /\ doing = "init" /\ NothingHeld
NdiUnused == program = "cpp" /\ doing = "gone" /\ NothingHeld

-----------------------------------------------------------------------------
(* What the main thread acquires.  After a failure C++ leaves its blocks,   *)
(* Python releases what it has by hand.                                     *)

WayOut ==
  IF program = "python" THEN "release"
  ELSE IF doing \in {"init", "find", "open", "parameters", "register"} THEN "destroyCapture"
  ELSE "destroySender"

initSdk ==
  /\ doing = "init"
  /\ \/ sdk_ready' = TRUE /\ doing' = "find"
     \/ UNCHANGED sdk_ready /\ doing' = IF program = "python" THEN "gone" ELSE WayOut
  /\ UNCHANGED <<program, g_running, m_camera, registered, streaming, ndiState, frameState>>

\* The list, and of it the first; the handle made with AS_SDK_CreateCamHandle.
findCamera ==
  /\ doing = "find"
  /\ \/ m_camera' = "closed" /\ doing' = "open"
     \/ UNCHANGED m_camera /\ doing' = WayOut
  /\ UNCHANGED <<program, g_running, sdk_ready, registered, streaming, ndiState, frameState>>

openCamera ==
  /\ doing = "open"
  /\ \/ m_camera' = "open" /\ doing' = IF program = "cpp" THEN "parameters" ELSE "register"
     \/ UNCHANGED m_camera /\ doing' = WayOut
  /\ UNCHANGED <<program, g_running, sdk_ready, registered, streaming, ndiState, frameState>>

\* AS_SDK_GetStreamParam, which C++ cannot do without.
readParameters ==
  /\ doing = "parameters"
  /\ doing' \in {"register", WayOut}
  /\ UNCHANGED <<program, g_running, deviceState, ndiState, frameState>>

registerCallback ==
  /\ doing = "register"
  /\ \/ registered' = TRUE /\ doing' = "library"
     \/ UNCHANGED registered /\ doing' = IF program = "python" THEN "library" ELSE WayOut
  /\ UNCHANGED <<program, g_running, sdk_ready, m_camera, streaming, ndiState, frameState>>

initLibrary ==
  /\ doing = "library"
  /\ \/ libraries' = libraries + 1 /\ doing' = "sender"
     \/ UNCHANGED libraries /\ doing' = WayOut
  /\ UNCHANGED <<program, g_running, deviceState, sender, initialized, frameState>>

createSender ==
  /\ doing = "sender"
  /\ \/ /\ sender' = TRUE /\ initialized' = TRUE /\ range_frames' = 0
        /\ doing' = "start"
        /\ UNCHANGED libraries
     \/ /\ libraries' = IF program = "cpp" THEN libraries - 1 ELSE libraries
        /\ doing' = WayOut
        /\ UNCHANGED <<sender, initialized, range_frames>>
  /\ UNCHANGED <<program, g_running, deviceState, sends, in_library, depth_range, auto_range>>

startNdiStream ==
  /\ doing = "start"
  /\ \/ streaming' = TRUE /\ doing' = "run"
     \/ UNCHANGED streaming /\ doing' = WayOut
  /\ UNCHANGED <<program, g_running, sdk_ready, m_camera, registered, ndiState, frameState>>

\* SIGINT or SIGTERM, at any time.
signalHandler ==
  /\ doing # "gone"
  /\ g_running
  /\ g_running' = FALSE
  /\ UNCHANGED <<program, doing, deviceState, ndiState, frameState>>

-----------------------------------------------------------------------------
(* What it releases. *)

\* Faulty variant: without a word to the camera.
StopsStreamOnExit == UNCHANGED streaming

\* The loop has seen the signal.  External: AS_SDK_StopStream returns when no
\* callback runs.
StopsStream == streaming' = FALSE /\ sends = <<>>

stopNdiStream ==
  /\ doing = "run" /\ ~g_running
  /\ StopsStream
  /\ doing' = IF program = "cpp" THEN "shutdown" ELSE "release"
  /\ UNCHANGED <<program, g_running, sdk_ready, m_camera, registered, ndiState, frameState>>

\* NDISender::shutdown(), by main() and again by the destructor: destroys a
\* library that may not be there.
shutdown ==
  /\ doing \in {"shutdown", "destroySender"}
  /\ sender' = FALSE /\ initialized' = FALSE
  /\ libraries' = libraries - 1
  /\ doing' = IF doing = "shutdown" THEN "destroySender" ELSE "destroyCapture"
  /\ UNCHANGED <<program, g_running, deviceState, frameState>>

CloseCamera == m_camera' = "none" /\ registered' = FALSE

\* ~HP60CCapture(), also when AS_SDK_Init failed.
destroyCapture ==
  /\ doing = "destroyCapture"
  /\ CloseCamera
  /\ sdk_ready' = FALSE
  /\ doing' = "gone"
  /\ UNCHANGED <<program, g_running, streaming, ndiState, frameState>>

\* Each way out of main() in Python.
release ==
  /\ doing = "release"
  /\ sender' = FALSE /\ initialized' = FALSE
  /\ libraries' = IF libraries > 0 THEN libraries - 1 ELSE libraries
  /\ CloseCamera
  /\ sdk_ready' = FALSE
  /\ doing' = "gone"
  /\ UNCHANGED <<program, g_running, streaming, frameState>>

-----------------------------------------------------------------------------
(* The SDK's thread. *)

Parts == {<<>>, <<"depth">>, <<"rgb">>, <<"cloud">>, <<"depth", "cloud">>, <<"depth", "rgb", "cloud">>}

\* processFrame() and the lambda, in Python stream_callback().
processFrame ==
  /\ streaming /\ registered /\ sends = <<>>
  /\ g_running /\ program = "cpp"
  /\ sends' \in Parts \ {<<>>}
  /\ UNCHANGED <<program, doing, g_running, deviceState, ndiState, in_library, rangeState>>

\* Without a sender nothing is sent.
EntersLibrary ==
  /\ in_library' = initialized
  /\ sends' = IF initialized THEN sends ELSE Tail(sends)

NextRange(scene) ==
  IF scene = "flat" THEN depth_range
  ELSE IF range_frames = 0 THEN {scene}
  ELSE depth_range \cup {scene}

\* sendDepth() up to the send: the range follows the first frames, then stays.
beginDepth ==
  /\ sends # <<>> /\ Head(sends) = "depth" /\ ~in_library
  /\ EntersLibrary
  /\ IF ~(initialized /\ auto_range) THEN UNCHANGED rangeState
     ELSE IF range_frames < AutoFrames
       THEN /\ \E scene \in Scenes : depth_range' = NextRange(scene)
            /\ range_frames' = range_frames + 1
            /\ UNCHANGED auto_range
     ELSE auto_range' = FALSE /\ UNCHANGED <<depth_range, range_frames>>
  /\ UNCHANGED <<program, doing, g_running, deviceState, ndiState>>

\* sendRGB() and sendPointCloud(), likewise.
beginSend ==
  /\ sends # <<>> /\ Head(sends) # "depth" /\ ~in_library
  /\ EntersLibrary
  /\ UNCHANGED <<program, doing, g_running, deviceState, ndiState, rangeState>>

endSend ==
  /\ in_library
  /\ in_library' = FALSE
  /\ sends' = Tail(sends)
  /\ UNCHANGED <<program, doing, g_running, deviceState, ndiState, rangeState>>

NdiNext ==
  \/ initSdk \/ findCamera \/ openCamera \/ readParameters \/ registerCallback
  \/ initLibrary \/ createSender \/ startNdiStream \/ signalHandler
  \/ stopNdiStream \/ shutdown \/ destroyCapture \/ release
  \/ processFrame \/ beginDepth \/ beginSend \/ endSend

NdiSpec == NdiInit /\ [][NdiNext]_ndiVars

-----------------------------------------------------------------------------
\* NDISender.cpp, NDIlib_send_send_video_v2, and the destructors at the end of
\* main.cpp: whatever fails and whenever the signal comes, the SDK's thread is in
\* the NDI library only while there is a sender, a sender has its library and a
\* stream its camera, and the program leaves none of them behind.
ReleasedInOrder ==
  /\ in_library => sender
  /\ sender => libraries = 1
  /\ streaming => m_camera = "open" /\ sdk_ready
  /\ m_camera = "open" => sdk_ready
  /\ doing = "gone" => ~streaming /\ ~sender /\ libraries <= 0 /\ m_camera = "none" /\ ~sdk_ready
=============================================================================
