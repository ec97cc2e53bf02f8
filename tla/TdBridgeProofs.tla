--------------------------- MODULE TdBridgeProofs ---------------------------
(***************************************************************************)
(* HandlesAreUsedWell and CommitsFollowTheCamera for every size of the     *)
(* queue and number of captures and calls.  A handle is invalid only       *)
(* between the reset and its abandonment, and who starts again has shut    *)
(* down before; an id of the camera is used up by being published.         *)
(***************************************************************************)
EXTENDS TdBridge, FiniteSetTheorems, TLAPS

HandleStates == {"open", "streaming", "invalid", "closed"}

HandleTypeInv ==
  /\ handles \in Seq(HandleStates)
  /\ cam_handle \in 0 .. Len(handles)
  /\ cam_sdk \in BOOLEAN
  /\ caller \in {"worker", "scripts"}

\* The handle that is kept is the one that is open, and has its SDK.
KeptInv ==
  /\ \A h \in DOMAIN handles : handles[h] \in {"open", "streaming"} => h = cam_handle
  /\ cam_handle # 0 => cam_sdk
  /\ cam_handle # 0 /\ handles[cam_handle] = "invalid" => here = "back"

\* What a call of td_init() has at each of its places.
InitInv ==
  /\ here \in {"start", "reboot", "back", "start again"} => cam_handle # 0
  /\ here = "back" => handles[cam_handle] = "invalid"
  /\ here = "create" => cam_handle = 0 /\ cam_sdk
  /\ here = "idle" /\ caller = "worker" => ~cam_sdk

HandleInv == HandleTypeInv /\ KeptInv /\ InitInv /\ ~misused

\* Initially there is no handle.
LEMMA BridgeInitInv == BridgeInit => HandleInv
<1> SUFFICES ASSUME BridgeInit PROVE HandleInv
  OBVIOUS
<1>1. here = "idle" /\ cam_sdk = FALSE /\ cam_handle = 0 /\ ~misused /\ caller \in {"worker", "scripts"}
  BY DEF BridgeInit, BridgeBlank
<1>2. handles \in Seq(HandleStates) /\ Len(handles) = 0 /\ DOMAIN handles = {}
  <2>1. handles = <<>>
    BY DEF BridgeInit, BridgeBlank
  <2>2. <<>> \in Seq(HandleStates) /\ Len(<<>>) = 0
    OBVIOUS
  <2> QED
    BY <2>1, <2>2
<1>3. HandleTypeInv
  <2>1. cam_handle \in 0 .. Len(handles)
    BY <1>1, <1>2
  <2>2. cam_sdk \in BOOLEAN
    BY <1>1
  <2> QED
    BY <1>1, <1>2, <2>1, <2>2 DEF HandleTypeInv
<1>4. KeptInv
  BY <1>1, <1>2 DEF KeptInv
<1> QED
  BY <1>1, <1>3, <1>4 DEF HandleInv, InitInv

\* Making a handle where none is open keeps the invariant, in a place where a
\* handle is allowed.
LEMMA NewHandleKeepsInv ==
  ASSUME HandleInv,
         \A h \in DOMAIN handles : handles[h] \notin {"open", "streaming"},
         handles' = Append(handles, "open"),
         cam_handle' = Len(handles) + 1,
         cam_sdk', cam_sdk' \in BOOLEAN,
         here' \notin {"back", "create"}, here' = "idle" => caller = "scripts",
         UNCHANGED <<misused, caller>>
  PROVE  HandleInv'
<1>1. handles' \in Seq(HandleStates) /\ Len(handles') = Len(handles) + 1
  BY DEF HandleInv, HandleTypeInv, HandleStates
<1>2. \A h \in DOMAIN handles' :
        handles'[h] = IF h = Len(handles) + 1 THEN "open" ELSE handles[h]
  BY DEF HandleInv, HandleTypeInv
<1>3. \A h \in DOMAIN handles' : h # Len(handles) + 1 => h \in DOMAIN handles
  BY <1>1 DEF HandleInv, HandleTypeInv
<1>4. HandleTypeInv'
  BY <1>1 DEF HandleInv, HandleTypeInv
<1>5. KeptInv'
  <2>1. cam_handle' \in DOMAIN handles'
    BY <1>1 DEF HandleInv, HandleTypeInv
  <2> QED
    BY <1>2, <1>3, <2>1 DEF KeptInv
<1>6. InitInv'
  <2>1. cam_handle' # 0
    BY DEF HandleInv, HandleTypeInv
  <2>2. here' = "idle" => caller' # "worker"
    OBVIOUS
  <2> QED
    BY <2>1, <2>2 DEF InitInv
<1> QED
  BY <1>4, <1>5, <1>6 DEF HandleInv

\* The kept handle takes another state.
LEMMA HandleGoesKeepsInv ==
  ASSUME HandleInv, cam_handle # 0,
         NEW state \in HandleStates,
         handles' = [handles EXCEPT ![cam_handle] = state],
         UNCHANGED caller, ~misused', cam_sdk' \in BOOLEAN,
         \/ cam_handle' = cam_handle /\ cam_sdk' /\ here' # "create"
              /\ (state = "invalid" <=> here' = "back")
              /\ (here' = "idle" => caller = "scripts")
         \/ cam_handle' = 0 /\ state = "closed" /\ here' = "drain"
  PROVE  HandleInv'
<1>1. cam_handle \in DOMAIN handles
  BY DEF HandleInv, HandleTypeInv
<1>2. handles' \in Seq(HandleStates) /\ Len(handles') = Len(handles) /\ DOMAIN handles' = DOMAIN handles
  BY <1>1 DEF HandleInv, HandleTypeInv
<1>3. \A h \in DOMAIN handles' : handles'[h] = IF h = cam_handle THEN state ELSE handles[h]
  BY <1>1, <1>2 DEF HandleInv, HandleTypeInv
<1>4. HandleTypeInv'
  BY <1>2 DEF HandleInv, HandleTypeInv
<1>5. KeptInv'
  BY <1>1, <1>2, <1>3 DEF HandleInv, KeptInv
<1>6. InitInv'
  BY <1>1, <1>2, <1>3 DEF InitInv
<1> QED
  BY <1>4, <1>5, <1>6 DEF HandleInv

\* td_init(), while the camera comes back after a reset.
LEMMA InitKeepsInv ==
  ASSUME Reenumerates, HandleInv, td_init
  PROVE  HandleInv'
<1>1. CASE beginInit
  <2>1. ~cam_sdk
    BY <1>1 DEF beginInit, HandleInv, HandleTypeInv, InitInv
  <2>2. cam_handle = 0 /\ \A h \in DOMAIN handles : handles[h] \notin {"open", "streaming"}
    BY <2>1 DEF HandleInv, HandleTypeInv, KeptInv
  <2>3. CASE UNCHANGED sdkVars /\ Move("idle", Returned)
    BY <1>1, <2>1, <2>2, <2>3
    DEF beginInit, Move, Returned, sdkVars, HandleInv, HandleTypeInv, KeptInv, InitInv
  <2>4. CASE Move("idle", Returned) /\ cam_sdk' = TRUE /\ UNCHANGED <<cam_handle, handles, merges, misused>>
    BY <1>1, <2>1, <2>2, <2>4
    DEF beginInit, Move, Returned, HandleInv, HandleTypeInv, KeptInv, InitInv
  <2>5. CASE /\ cam_sdk' = TRUE
             /\ handles' = Append(handles, "open")
             /\ cam_handle' = Len(handles) + 1
             /\ \E next \in {Returned, "start"} : Move("idle", next)
             /\ UNCHANGED misused
    <3>1. here' \notin {"back", "create"} /\ (here' = "idle" => caller = "scripts") /\ UNCHANGED caller
      BY <1>1, <2>5 DEF beginInit, Move, Returned, HandleInv, HandleTypeInv
    <3> QED
      BY <2>2, <2>5, <3>1, NewHandleKeepsInv
  <2> QED
    BY <1>1, <2>3, <2>4, <2>5 DEF beginInit
<1>2. CASE startFirst \/ startSecond
  <2>1. /\ cam_handle # 0 /\ here # "back"
        /\ here' \in {"reboot", Returned}
        /\ UNCHANGED <<cam_sdk, cam_handle, caller, misused>>
    BY <1>2 DEF startFirst, startSecond, startStream, Move, elsewhere, HandleInv, InitInv
  <2>2. here' # "create" /\ (here' = "idle" => caller = "scripts")
    BY <2>1 DEF Returned, HandleInv, HandleTypeInv
  <2>3. CASE handles' = [handles EXCEPT ![cam_handle] = "streaming"]
    <3>1. cam_sdk' /\ cam_sdk' \in BOOLEAN /\ ~misused'
      BY <2>1 DEF HandleInv, HandleTypeInv, KeptInv
    <3> QED
      BY <2>1, <2>2, <2>3, <3>1, HandleGoesKeepsInv DEF HandleStates, Returned
  <2>4. CASE UNCHANGED handles
    BY <2>1, <2>2, <2>4 DEF Returned, HandleInv, HandleTypeInv, KeptInv, InitInv
  <2> QED
    BY <1>2, <2>3, <2>4 DEF startFirst, startSecond, startStream
<1>3. CASE camera_reboot
  <2>1. /\ cam_handle # 0 /\ here # "back"
        /\ here' \in {"back", Returned}
        /\ UNCHANGED <<cam_sdk, cam_handle, caller, misused>>
    BY <1>3 DEF camera_reboot, Fails, Move, elsewhere, HandleInv, InitInv
  <2>2. here' # "create" /\ (here' = "idle" => caller = "scripts")
    BY <2>1 DEF Returned, HandleInv, HandleTypeInv
  <2>3. CASE here' = "back" /\ handles' = [handles EXCEPT ![cam_handle] = "invalid"]
    <3>1. cam_sdk' /\ cam_sdk' \in BOOLEAN /\ ~misused'
      BY <2>1 DEF HandleInv, HandleTypeInv, KeptInv
    <3> QED
      BY <2>1, <2>2, <2>3, <3>1, HandleGoesKeepsInv DEF HandleStates, Returned
  <2>4. CASE here' = Returned /\ UNCHANGED handles
    BY <2>1, <2>2, <2>4 DEF Returned, HandleInv, HandleTypeInv, KeptInv, InitInv
  <2> QED
    BY <1>3, <2>3, <2>4 DEF camera_reboot, Fails, Move
<1>4. CASE abandon
  <2>1. /\ here = "back" /\ here' = "create" /\ cam_handle' = 0
        /\ UNCHANGED <<cam_sdk, handles, caller, misused>>
    BY <1>4 DEF abandon, Fails, Move, elsewhere
  <2>2. cam_handle # 0 /\ cam_sdk /\ handles[cam_handle] = "invalid"
    BY <2>1 DEF HandleInv, InitInv, KeptInv
  <2> QED
    BY <2>1, <2>2 DEF HandleInv, HandleTypeInv, KeptInv, InitInv
<1>5. CASE createAgain
  <2>1. /\ cam_handle = 0 /\ cam_sdk
        /\ here' \in {Returned, "start again"}
        /\ UNCHANGED <<cam_sdk, caller, misused>>
    BY <1>5 DEF createAgain, Fails, Move, elsewhere, HandleInv, InitInv
  <2>2. here' \notin {"back", "create"} /\ (here' = "idle" => caller = "scripts")
    BY <2>1 DEF Returned, HandleInv, HandleTypeInv
  <2>3. CASE UNCHANGED <<cam_handle, handles>> /\ here' = Returned
    BY <2>1, <2>2, <2>3 DEF Returned, HandleInv, HandleTypeInv, KeptInv, InitInv
  <2>4. CASE handles' = Append(handles, "open") /\ cam_handle' = Len(handles) + 1
    <3>1. \A h \in DOMAIN handles : handles[h] \notin {"open", "streaming"}
      <4>1. \A h \in DOMAIN handles : h # 0
        BY DEF HandleInv, HandleTypeInv
      <4> QED
        BY <2>1, <4>1 DEF HandleInv, KeptInv
    <3>2. cam_sdk' /\ cam_sdk' \in BOOLEAN
      BY <2>1 DEF HandleInv, HandleTypeInv
    <3> QED
      BY <2>1, <2>2, <2>4, <3>1, <3>2, NewHandleKeepsInv
  <2> QED
    BY <1>5, <2>3, <2>4 DEF createAgain, Fails, Move
<1> QED
  BY <1>1, <1>2, <1>3, <1>4, <1>5 DEF td_init

\* td_shutdown(), which the worker calls too.
LEMMA ShutdownKeepsInv ==
  ASSUME HandleInv, td_shutdown \/ stopRequested
  PROVE  HandleInv'
<1>1. CASE beginShutdown("idle") \/ beginShutdown("loop")
  <2>1. UNCHANGED <<sdkVars, caller>> /\ here \in {"idle", "loop"} /\ here' = "stop"
    BY <1>1 DEF beginShutdown, Move, elsewhere
  <2> QED
    BY <2>1 DEF sdkVars, HandleInv, HandleTypeInv, KeptInv, InitInv
<1>2. CASE stopStream
  <2>1. here = "stop" /\ here' = "drain" /\ cam_handle' = 0 /\ cam_sdk' = FALSE /\ UNCHANGED caller
    BY <1>2 DEF stopStream, Move, elsewhere, HandleInv, HandleTypeInv
  <2>2. ~misused'
    BY <1>2, <2>1 DEF stopStream, HandleInv, KeptInv
  <2>3. CASE cam_handle = 0
    BY <1>2, <2>1, <2>2, <2>3 DEF stopStream, HandleInv, HandleTypeInv, KeptInv, InitInv
  <2>4. CASE cam_handle # 0
    <3>1. handles' = [handles EXCEPT ![cam_handle] = "closed"]
      BY <1>2, <2>4 DEF stopStream
    <3> QED
      BY <2>1, <2>2, <2>4, <3>1, HandleGoesKeepsInv DEF HandleStates
  <2> QED
    BY <2>3, <2>4
<1>3. CASE drain
  <2>1. UNCHANGED <<sdkVars, caller>> /\ here = "drain" /\ here' = AfterShutdown
    BY <1>3 DEF drain, Move
  <2> QED
    BY <2>1 DEF AfterShutdown, sdkVars, HandleInv, HandleTypeInv, KeptInv, InitInv
<1> QED
  BY <1>1, <1>2, <1>3 DEF td_shutdown, stopRequested

\* Callbacks, time and the worker's reads do not touch the SDK's state.
LEMMA ElseKeepsInv ==
  ASSUME HandleInv,
         \/ Callback \/ secondPasses \/ td_wait_first_frame
         \/ getRgb \/ getDepth \/ getPointcloud \/ commit
         \/ UNCHANGED bridgeVars
  PROVE  HandleInv'
<1>1. UNCHANGED <<caller, sdkVars>> /\ here' \in {here, "loop", "ended", "depth", "points", "id"}
  BY DEF Callback, beginCallback, put, getOldest, putAgain, setLatest, notThere, secondPasses,
         td_wait_first_frame, getRgb, getDepth, getPointcloud, commit, noSdkCall, Move, bridgeVars
<1>2. here' # here => here # "back"
  BY DEF Callback, beginCallback, put, getOldest, putAgain, setLatest, notThere, secondPasses,
         td_wait_first_frame, getRgb, getDepth, getPointcloud, commit, noSdkCall, Move, bridgeVars
<1> QED
  BY <1>1, <1>2 DEF sdkVars, HandleInv, HandleTypeInv, KeptInv, InitInv

\* bridge v7, "close/destroy on it can fault inside the vendor SDK": while the
\* camera comes back after its reset, no open handle is forgotten and none from
\* before a reset reaches the SDK, however many calls fail wherever they can.
THEOREM HandlesAreAlwaysUsedWell ==
  ASSUME Reenumerates
  PROVE  BridgeSpec => []HandlesAreUsedWell
<1>1. HandleInv /\ [BridgeNext]_bridgeVars => HandleInv'
  BY InitKeepsInv, ShutdownKeepsInv, ElseKeepsInv DEF BridgeNext, BridgeWorker
<1>2. HandleInv => HandlesAreUsedWell
  BY DEF HandleInv, HandleTypeInv, KeptInv, HandlesAreUsedWell
<1> QED
  BY BridgeInitInv, <1>1, <1>2, PTL DEF BridgeSpec

-----------------------------------------------------------------------------
(* CommitsFollowTheCamera: what is published under an id of the camera uses *)
(* up an id it has delivered, no greater than the last one published.       *)

Frames == [capture : Nat, id : Nat, parts : SUBSET {"rgb", "depth", "points"}]

CallbackStates ==
  [at : {"idle", "put", "get", "put again", "latest"}, frame : Frames]

FrameTypeInv ==
  /\ callbacks \in [Kinds -> CallbackStates]
  /\ captures \in [Kinds -> Nat]
  /\ latest_frame \in Frames
  /\ frame_id \in Nat /\ committed_id \in Nat /\ commits \in Nat
  /\ delivered \subseteq Nat /\ IsFiniteSet(delivered)

UsedUp(id) == {d \in delivered : d <= id}

IdInv ==
  /\ latest_frame.id # 0 => latest_frame.id \in delivered
  /\ committed_id = frame_id
  /\ commits <= Cardinality(UsedUp(committed_id))

CommitInv == FrameTypeInv /\ IdInv

\* A part of a finite set is finite, and no larger.
LEMMA PartIsSmaller ==
  ASSUME NEW S, IsFiniteSet(S), NEW T \in SUBSET S
  PROVE  IsFiniteSet(T) /\ Cardinality(T) \in Nat /\ Cardinality(S) \in Nat
         /\ Cardinality(T) <= Cardinality(S)
  BY FS_Subset, FS_CardinalityType

\* Initially nothing was delivered.
LEMMA BridgeInitCommitInv == BridgeInit => CommitInv
<1> SUFFICES ASSUME BridgeInit PROVE CommitInv
  OBVIOUS
<1>1. /\ callbacks = [k \in Kinds |-> [at |-> "idle", frame |-> NoFrame]]
      /\ captures = [k \in Kinds |-> 0] /\ latest_frame = NoFrame
      /\ delivered = {} /\ frame_id = 0 /\ committed_id = 0 /\ commits = 0
  BY DEF BridgeInit, BridgeBlank
<1>2. NoFrame \in Frames /\ NoFrame.id = 0
  BY DEF NoFrame, Frames
<1>3. FrameTypeInv
  <2>1. callbacks \in [Kinds -> CallbackStates]
    BY <1>1, <1>2 DEF CallbackStates
  <2>2. captures \in [Kinds -> Nat]
    BY <1>1
  <2>3. IsFiniteSet(delivered)
    BY <1>1, FS_EmptySet
  <2> QED
    BY <1>1, <1>2, <2>1, <2>2, <2>3 DEF FrameTypeInv
<1>4. UsedUp(committed_id) = {} /\ Cardinality({}) = 0
  BY <1>1, FS_EmptySet DEF UsedUp
<1> QED
  BY <1>1, <1>2, <1>3, <1>4 DEF CommitInv, IdInv

\* A callback delivers an id, or nothing.
LEMMA CallbackKeepsCommitInv ==
  ASSUME CommitInv, Callback
  PROVE  CommitInv'
<1> PICK k \in Kinds : beginCallback(k) \/ put(k) \/ getOldest(k) \/ putAgain(k) \/ setLatest(k)
  BY DEF Callback
<1>1. UNCHANGED <<frame_id, committed_id, commits>>
  BY DEF beginCallback, put, getOldest, putAgain, setLatest, notThere, adapterVars
<1>2. CASE beginCallback(k)
  <2>1. PICK capture \in captures[k] + 1 .. MaxCaptures :
          /\ captures' = [captures EXCEPT ![k] = capture]
          /\ IF bridge_running
               THEN \E f \in Found(k, capture) :
                      callbacks' = [callbacks EXCEPT ![k] = [at |-> "put", frame |-> f]]
               ELSE UNCHANGED callbacks
    BY <1>2 DEF beginCallback
  <2>2. capture \in Nat
    BY <2>1, BridgeAssumption DEF CommitInv, FrameTypeInv, BridgeAssumption
  <2>3. Found(k, capture) \subseteq Frames
    BY <2>2 DEF Found, Frames, Kinds
  <2>4. UNCHANGED <<latest_frame, delivered>>
    BY <1>2 DEF beginCallback
  <2>5. captures' \in [Kinds -> Nat]
    BY <2>1, <2>2 DEF CommitInv, FrameTypeInv
  <2>6. callbacks' \in [Kinds -> CallbackStates]
    <3>1. CASE UNCHANGED callbacks
      BY <3>1 DEF CommitInv, FrameTypeInv
    <3>2. CASE \E f \in Found(k, capture) :
                 callbacks' = [callbacks EXCEPT ![k] = [at |-> "put", frame |-> f]]
      <4>1. PICK f \in Frames : callbacks' = [callbacks EXCEPT ![k] = [at |-> "put", frame |-> f]]
        BY <2>3, <3>2
      <4>2. [at |-> "put", frame |-> f] \in CallbackStates
        BY DEF CallbackStates
      <4> QED
        BY <4>1, <4>2 DEF CommitInv, FrameTypeInv
    <3> QED
      BY <2>1, <3>1, <3>2
  <2> QED
    BY <1>1, <2>4, <2>5, <2>6 DEF CommitInv, FrameTypeInv, IdInv, UsedUp
<1>3. CASE put(k) \/ getOldest(k) \/ putAgain(k)
  <2>1. UNCHANGED <<latest_frame, delivered, captures>>
    BY <1>3 DEF put, getOldest, putAgain
  <2>2. NoFrame \in Frames
    BY DEF NoFrame, Frames
  <2>3. callbacks' \in [Kinds -> CallbackStates]
    <3>1. \/ \E next \in {"get", "put again", "latest"} : callbacks' = [callbacks EXCEPT ![k].at = next]
          \/ callbacks' = [callbacks EXCEPT ![k] = [at |-> "idle", frame |-> NoFrame]]
      BY <1>3 DEF put, getOldest, putAgain, CallbackGoes
    <3>2. [at |-> "idle", frame |-> NoFrame] \in CallbackStates
      BY <2>2 DEF CallbackStates
    <3>3. callbacks \in [Kinds -> CallbackStates]
      BY DEF CommitInv, FrameTypeInv
    <3>4. ASSUME NEW next \in {"get", "put again", "latest"},
                 callbacks' = [callbacks EXCEPT ![k].at = next]
          PROVE  callbacks' \in [Kinds -> CallbackStates]
      <4>1. [callbacks[k] EXCEPT !.at = next] \in CallbackStates
        BY <3>3 DEF CallbackStates
      <4> QED
        BY <3>3, <3>4, <4>1
    <3> QED
      BY <3>1, <3>2, <3>3, <3>4
  <2> QED
    BY <1>1, <2>1, <2>3 DEF CommitInv, FrameTypeInv, IdInv, UsedUp
<1>4. CASE setLatest(k)
  <2> DEFINE f == callbacks[k].frame
  <2>1. /\ latest_frame' = f
        /\ delivered' = delivered \cup ({f.id} \ {0})
        /\ callbacks' = [callbacks EXCEPT ![k] = [at |-> "idle", frame |-> NoFrame]]
        /\ UNCHANGED captures
    BY <1>4 DEF setLatest
  <2>2. f \in Frames /\ f.id \in Nat /\ NoFrame \in Frames
    BY DEF CommitInv, FrameTypeInv, CallbackStates, Frames, NoFrame
  <2>3. delivered' = delivered \/ delivered' = delivered \cup {f.id}
    <3>1. CASE f.id = 0
      BY <2>1, <3>1
    <3>2. CASE f.id # 0
      BY <2>1, <3>2
    <3> QED
      BY <3>1, <3>2
  <2>4. IsFiniteSet(delivered')
    <3>1. IsFiniteSet(delivered)
      BY DEF CommitInv, FrameTypeInv
    <3>2. IsFiniteSet(delivered \cup {f.id})
      BY <3>1, FS_AddElement
    <3> QED
      BY <2>3, <3>1, <3>2
  <2>5. FrameTypeInv'
    <3>1. [at |-> "idle", frame |-> NoFrame] \in CallbackStates
      BY <2>2 DEF CallbackStates
    <3>2. callbacks' \in [Kinds -> CallbackStates]
      BY <2>1, <3>1 DEF CommitInv, FrameTypeInv
    <3> QED
      BY <1>1, <2>1, <2>2, <2>3, <2>4, <3>2 DEF CommitInv, FrameTypeInv
  <2>6. UsedUp(committed_id) \subseteq UsedUp(committed_id)' /\ UsedUp(committed_id)' \subseteq delivered'
    BY <1>1, <2>3 DEF UsedUp
  <2>7. /\ Cardinality(UsedUp(committed_id)) <= Cardinality(UsedUp(committed_id)')
        /\ Cardinality(UsedUp(committed_id)) \in Nat
        /\ Cardinality(UsedUp(committed_id)') \in Nat
    <3>1. IsFiniteSet(UsedUp(committed_id)')
      BY <2>4, <2>6, PartIsSmaller
    <3> QED
      BY <2>6, <3>1, PartIsSmaller
  <2>8. commits' <= Cardinality(UsedUp(committed_id)')
    BY <1>1, <2>7 DEF CommitInv, FrameTypeInv, IdInv
  <2>9. latest_frame'.id # 0 => latest_frame'.id \in delivered'
    BY <2>1
  <2> QED
    BY <1>1, <2>5, <2>8, <2>9 DEF CommitInv, IdInv
<1> QED
  BY <1>2, <1>3, <1>4

\* An id is taken once, as the next one is greater.
LEMMA CommitKeepsCommitInv ==
  ASSUME CommitInv, commit, packet # NoPacket
  PROVE  CommitInv'
<1>1. /\ frame_id' = NextId /\ committed_id' = NextId
      /\ commits' = IF NextId = committed_id \/ latest_frame.id = 0 THEN commits ELSE commits + 1
      /\ UNCHANGED <<callbacks, captures, latest_frame, delivered>>
  BY DEF commit, noSdkCall, frameVars
<1>2. latest_frame.id \in Nat
  BY DEF CommitInv, FrameTypeInv, Frames
<1>3. NextId \in Nat /\ NextId >= committed_id
  BY <1>2 DEF NextId, CommitInv, FrameTypeInv, IdInv
<1>4. FrameTypeInv'
  BY <1>1, <1>3 DEF CommitInv, FrameTypeInv
<1> DEFINE before == UsedUp(committed_id)
           after  == UsedUp(NextId)
<1>5. /\ before \subseteq after /\ after \subseteq delivered
      /\ IsFiniteSet(before) /\ IsFiniteSet(after)
      /\ Cardinality(before) \in Nat /\ Cardinality(after) \in Nat
      /\ Cardinality(before) <= Cardinality(after)
  <2>1. before \subseteq after /\ after \subseteq delivered
    <3>1. \A d \in Nat : d <= committed_id => d <= NextId
      BY <1>3 DEF CommitInv, FrameTypeInv
    <3> QED
      BY <3>1 DEF UsedUp, CommitInv, FrameTypeInv
  <2>2. IsFiniteSet(after)
    BY <2>1, PartIsSmaller DEF CommitInv, FrameTypeInv
  <2> QED
    BY <2>1, <2>2, PartIsSmaller
<1>6. commits' <= Cardinality(after)
  <2>1. CASE commits' = commits
    BY <1>5, <2>1 DEF CommitInv, FrameTypeInv, IdInv
  <2>2. CASE commits' # commits
    <3>1. NextId # committed_id /\ latest_frame.id # 0 /\ commits' = commits + 1
      BY <1>1, <2>2
    <3>2. NextId = latest_frame.id /\ NextId > committed_id /\ NextId \in delivered
      BY <1>2, <3>1 DEF NextId, CommitInv, FrameTypeInv, IdInv
    <3>3. NextId \notin before /\ before \cup {NextId} \subseteq after
      BY <1>3, <1>5, <3>2 DEF UsedUp, CommitInv, FrameTypeInv
    <3>4. IsFiniteSet(before \cup {NextId}) /\ Cardinality(before \cup {NextId}) = Cardinality(before) + 1
      BY <1>5, <3>3, FS_AddElement
    <3>5. Cardinality(before) + 1 <= Cardinality(after)
      BY <1>5, <3>3, <3>4, PartIsSmaller
    <3> QED
      BY <1>5, <3>1, <3>5 DEF CommitInv, FrameTypeInv, IdInv
  <2> QED
    BY <2>1, <2>2
<1>7. UsedUp(committed_id)' = after
  BY <1>1 DEF UsedUp
<1> QED
  BY <1>1, <1>4, <1>6, <1>7 DEF CommitInv, IdInv

\* hp60c_worker_v13.py:500, "Only commit when the SDK-reported frame_id has
\* actually advanced": whatever order the callbacks and the worker's four reads
\* take, no id of the camera is published twice.
THEOREM CommitsAlwaysFollowTheCamera == BridgeSpec => []CommitsFollowTheCamera
<1>1. CommitInv /\ [BridgeNext]_bridgeVars => CommitInv'
  <2> SUFFICES ASSUME CommitInv, [BridgeNext]_bridgeVars PROVE CommitInv'
    OBVIOUS
  <2>1. CASE Callback
    BY <2>1, CallbackKeepsCommitInv
  <2>2. CASE commit /\ packet # NoPacket
    BY <2>2, CommitKeepsCommitInv
  <2>3. CASE \/ secondPasses \/ td_init \/ td_shutdown \/ td_wait_first_frame
             \/ getRgb \/ getDepth \/ getPointcloud \/ stopRequested
             \/ commit /\ packet = NoPacket
             \/ UNCHANGED bridgeVars
    <3>1. UNCHANGED <<callbacks, captures, latest_frame, delivered, frame_id, committed_id, commits>>
      <4>1. CASE td_init \/ td_shutdown \/ stopRequested
        BY <4>1 DEF td_init, beginInit, startFirst, startSecond, startStream, camera_reboot, abandon,
                    createAgain, td_shutdown, beginShutdown, stopStream, drain, stopRequested,
                    elsewhere, frameVars, adapterVars
      <4>2. CASE ~(td_init \/ td_shutdown \/ stopRequested)
        BY <2>3, <4>2 DEF secondPasses, td_wait_first_frame, getRgb, getDepth, getPointcloud, commit,
                    notThere, noSdkCall, bridgeVars, frameVars, adapterVars
      <4> QED
        BY <4>1, <4>2
    <3> QED
      BY <3>1 DEF CommitInv, FrameTypeInv, IdInv, UsedUp
  <2> QED
    BY <2>1, <2>2, <2>3 DEF BridgeNext, BridgeWorker
<1>2. CommitInv => CommitsFollowTheCamera
  <2> SUFFICES ASSUME CommitInv PROVE CommitsFollowTheCamera
    OBVIOUS
  <2>1. /\ Cardinality(UsedUp(committed_id)) <= Cardinality(delivered)
        /\ Cardinality(UsedUp(committed_id)) \in Nat /\ Cardinality(delivered) \in Nat
    <3>1. UsedUp(committed_id) \subseteq delivered
      BY DEF UsedUp
    <3> QED
      BY <3>1, PartIsSmaller DEF CommitInv, FrameTypeInv
  <2> QED
    BY <2>1 DEF CommitInv, FrameTypeInv, IdInv, CommitsFollowTheCamera
<1> QED
  BY BridgeInitCommitInv, <1>1, <1>2, PTL DEF BridgeSpec
=============================================================================
