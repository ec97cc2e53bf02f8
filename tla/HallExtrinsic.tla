---------------------------- MODULE HallExtrinsic ----------------------------
(***************************************************************************)
(* How the Hall sensor is mounted on the pen: the calibration session of   *)
(* studio/hall_extrinsic.py, the profiles it saves, and the mount that     *)
(* studio/hall_mount.py reads at the start and works with.  The session's  *)
(* methods hold its lock, so that a button's call and one through the      *)
(* agent server come one after the other; the reference of the pose and    *)
(* the debug rotations, which it compares each frame with, are not under   *)
(* that lock.  A profile, the mount and the name of the active profile are *)
(* files, each replaced as a whole, and the Studio may end between two.    *)
(*                                                                         *)
(* A pose is how the pen is turned and what the turn was mapped with; two  *)
(* poses are within the tolerance of a window when they are the same.  How *)
(* long the pen has to be held, what makes a frame unfit and what the fit  *)
(* and its validation come to are left open.                               *)
(***************************************************************************)
EXTENDS Integers, Sequences, Functions

CONSTANTS
  Turns,          (* ways to turn the pen, each far enough from the others *)
  Angles,         (* the debug rotations of MapperDebug *)
  Level,          (* zero, as long as none was set *)
  Names,          (* names of profiles *)
  MinTrain,       (* MIN_TRAIN *)
  MinValidate,    (* MIN_VALIDATE *)
  MaxLocks,       (* bound: references locked *)
  MaxRotations,   (* bound: changes of the debug rotations *)
  MaxMishaps      (* bound: ends of the Studio and files that cannot be written *)

ASSUME HallAssumption ==
  /\ {MinTrain, MinValidate} \subseteq Nat \ {0}
  /\ {MaxLocks, MaxRotations, MaxMishaps} \subseteq Nat
  /\ {"initial", "none"} \cap Names = {}
  /\ Level \in Angles
  /\ "none" \notin Turns \cup Angles

Initial == "initial"    (* the mount before any calibration, and its profile *)
None    == "none"
Mounts  == Names \cup {Initial}

VARIABLES
  launched,
  \* PoseMapper, MapperDebug and the frame between map_frame() and update()
  fusion,      (* R_board_from_fusion: the number of its lock, or 0 *)
  rotation,    (* [board, brush]: the debug rotations *)
  frame,
  \* HallExtrinsicCalibration
  session,     (* stage *)
  fingerprint, (* ref_fusion_to_board and mapping_fingerprint *)
  armed,
  window,      (* the pose pending has been held in *)
  train, validation,
  candidate,   (* the samples it was fitted to *)
  outcome,     (* validation_report: [passed, fit, on] *)
  slipped,     (* history: a frame was mapped with rotations that were changed
                  back before update() compared them *)
  \* files
  profiles,    (* the brush rotation each saved profile is for *)
  baseline,    (* the mount in the profile of the mount before *)
  mountFile,   (* hall_sensor_mount.json *)
  activeFile,  (* hall_extrinsic_active.json *)
  \* the mount in use, and _apply_profile()
  mount,       (* HallMountModel: R_brush_from_hall and data *)
  checked,     (* active_mapping_ref: whose it is *)
  io,          (* the file to be written next *)
  applying,    (* what is being applied: [name, committing, previous] *)
  torn,        (* history: the mount was replaced and its name was not *)
  \* bounds
  locks, rotations, mishaps

seenVars    == <<fusion, rotation, frame, locks, rotations>>
sampleVars  == <<armed, window, train, validation, candidate, outcome, slipped>>
calVars     == <<session, fingerprint, sampleVars>>
fileVars    == <<profiles, baseline, mountFile, activeFile>>
mountVars   == <<mount, checked, io, applying, torn, mishaps>>
hallVars    == <<launched, seenVars, calVars, fileVars, mountVars>>

NoRotation == [board |-> None, brush |-> None]

NoPose   == [turn |-> None, fusion |-> 0, rotation |-> NoRotation]
NoMatch  == [fusion |-> 0, rotation |-> NoRotation]
NoReport == [passed |-> FALSE, fit |-> <<>>, on |-> <<>>]
NoProfile == [name |-> None, committing |-> FALSE, previous |-> None]

-----------------------------------------------------------------------------
(* The session's state. *)

NoSamples ==
  /\ armed' = FALSE /\ window' = NoPose /\ train' = <<>> /\ validation' = <<>>
  /\ candidate' = <<>> /\ outcome' = NoReport /\ slipped' = FALSE

NoSession ==
  /\ session = "IDLE" /\ fingerprint = NoMatch
  /\ armed = FALSE /\ window = NoPose /\ train = <<>> /\ validation = <<>>
  /\ candidate = <<>> /\ outcome = NoReport /\ slipped = FALSE

HallClosed(n) ==
  /\ launched = FALSE /\ mishaps = n
  /\ fusion = 0 /\ frame = NoPose /\ locks = 0 /\ rotations = 0
  /\ rotation = [board |-> Level, brush |-> Level]
  /\ NoSession
  /\ profiles = <<>> /\ baseline = None /\ mountFile = Initial /\ activeFile = None
  /\ mount = None /\ checked = None /\ io = "idle" /\ applying = NoProfile
  /\ torn = FALSE

\* The Studio was never started here.
HallInit == HallClosed(0)

\* It never is.
HallUnused == HallClosed(MaxMishaps + 1)

\* The lock is free.
Free == launched /\ io = "idle"

Collecting == session \in {"COLLECT", "VALIDATE"}
InSession  == session \in {"COLLECT", "VALIDATE", "READY"}

\* _guard(), of the reference and of the mapping.
Guard == fusion # 0 /\ fingerprint = [fusion |-> fusion, rotation |-> rotation]

Invalidate ==
  /\ session' = "INVALID" /\ armed' = FALSE /\ window' = NoPose
  /\ UNCHANGED <<fingerprint, train, validation, candidate, outcome, slipped>>

-----------------------------------------------------------------------------
(* What the session looks at: the reference and the debug rotations. *)

lockFusion ==    \* map_frame() at the end of its collection
  /\ launched /\ frame = NoPose
  /\ fusion = 0 /\ locks < MaxLocks
  /\ fusion' = locks + 1 /\ locks' = locks + 1
  /\ UNCHANGED <<launched, rotation, frame, rotations, calVars, fileVars, mountVars>>

dropFusion ==    \* disarm_reference(), arm_reference()
  /\ launched /\ fusion # 0
  /\ fusion' = 0
  /\ UNCHANGED <<launched, rotation, frame, locks, rotations, calVars, fileVars, mountVars>>

rotate ==        \* set_board(), set_brush(), load(), reset()
  /\ launched /\ rotations < MaxRotations
  /\ rotation' \in [board : Angles, brush : Angles]
  /\ rotations' = rotations + 1
  /\ UNCHANGED <<launched, fusion, frame, locks, calVars, fileVars, mountVars>>

\* tick(), up to hall_cal.update(), which leaves alone what is mapped outside of
\* a session.
mapFrame ==
  /\ launched /\ frame = NoPose
  /\ InSession
  /\ \E turn \in Turns : frame' = [turn |-> turn, fusion |-> fusion, rotation |-> rotation]
  /\ UNCHANGED <<launched, fusion, rotation, locks, rotations, calVars, fileVars, mountVars>>

-----------------------------------------------------------------------------
(* update() *)

Updating ==
  /\ Free /\ frame # NoPose
  /\ frame' = NoPose
  /\ UNCHANGED <<launched, fusion, rotation, locks, rotations, fileVars, mountVars>>

leaveFrame ==    \* or one that was seen before
  /\ Updating
  /\ InSession => Guard /\ frame.fusion # 0
  /\ UNCHANGED calVars

\* The reference or the mapping is another one; or, of the pose that is being
\* recorded, the frames count from the start again.
endSession ==
  /\ Updating
  /\ InSession
  /\ ~Guard \/ frame.fusion = 0 \/ armed
  /\ Invalidate

\* A frame of the pose that is being recorded.
Recording ==
  /\ Updating
  /\ Collecting /\ armed /\ Guard /\ frame.fusion # 0

\* _reject(), of the frame or, for its scatter, of the window.
rejectFrame ==
  /\ Recording
  /\ window' = NoPose
  /\ UNCHANGED <<session, fingerprint, armed, train, validation, candidate, outcome, slipped>>

holdFrame ==
  /\ Recording
  /\ window \in {NoPose, frame}
  /\ window' = frame
  /\ slipped' = (slipped \/ frame.rotation # rotation)
  /\ UNCHANGED <<session, fingerprint, armed, train, validation, candidate, outcome>>

\* _evaluate_validation()
Evaluate(samples) ==
  \E passed \in BOOLEAN :
    /\ outcome' = [passed |-> passed, fit |-> candidate, on |-> samples]
    /\ session' = IF passed THEN "READY" ELSE "VALIDATE"

\* Faulty variant: a pose to validate with need only differ from the others
\* that validate.
IsNewInStage == window \notin Range(IF session = "COLLECT" THEN train ELSE validation)

IsNew == window \notin Range(train) \cup Range(validation)

\* _finalize_pending(), for the last frame of the window.
finishWindow ==
  /\ Recording
  /\ window = frame
  /\ armed' = FALSE /\ window' = NoPose
  /\ slipped' = (slipped \/ frame.rotation # rotation)
  /\ train' = IF IsNew /\ session = "COLLECT" THEN Append(train, window) ELSE train
  /\ validation' = IF IsNew /\ session = "VALIDATE" THEN Append(validation, window)
                    ELSE validation
  /\ IF validation' # validation /\ Len(validation') >= MinValidate
       THEN Evaluate(validation')
       ELSE UNCHANGED <<session, outcome>>
  /\ UNCHANGED <<fingerprint, candidate>>

updateHall == leaveFrame \/ endSession \/ rejectFrame \/ holdFrame \/ finishWindow

-----------------------------------------------------------------------------
(* The operator's calls, from a button or through the agent server. *)

Calling == Free /\ UNCHANGED <<launched, seenVars, fileVars, mountVars>>

startSession ==
  /\ Calling
  /\ fusion # 0
  /\ NoSamples
  /\ session' = "COLLECT"
  /\ fingerprint' = [fusion |-> fusion, rotation |-> rotation]

cancelSession ==
  /\ Calling
  /\ NoSamples
  /\ session' = "IDLE"
  /\ fingerprint' = NoMatch

arm ==
  /\ Calling
  /\ Collecting /\ ~armed
  /\ armed' = TRUE
  /\ UNCHANGED <<session, fingerprint, window, train, validation, candidate, outcome, slipped>>

ButLast(s) == SubSeq(s, 1, Len(s) - 1)

\* Faulty variant: what the validation came to is kept.
undoOnly ==
  /\ Calling
  /\ armed' = FALSE /\ window' = NoPose
  /\ train' = IF session = "COLLECT" /\ train # <<>> THEN ButLast(train) ELSE train
  /\ validation' = IF session \in {"VALIDATE", "READY"} /\ validation # <<>>
                     THEN ButLast(validation) ELSE validation
  /\ UNCHANGED <<session, fingerprint, candidate, outcome, slipped>>

undo ==
  /\ Calling
  /\ armed' = FALSE /\ window' = NoPose
  /\ train' = IF session = "COLLECT" /\ train # <<>> THEN ButLast(train) ELSE train
  /\ IF session \in {"VALIDATE", "READY"} /\ validation # <<>>
       THEN validation' = ButLast(validation) /\ session' = "VALIDATE" /\ outcome' = NoReport
       ELSE UNCHANGED <<validation, session, outcome>>
  /\ UNCHANGED <<fingerprint, candidate, slipped>>

\* solve_hall_extrinsic(): what it fits, it fits to these poses; it may refuse.
FitTo(samples) == samples

solve ==
  /\ Calling
  /\ session = "COLLECT" /\ ~armed /\ Len(train) >= MinTrain
  /\ candidate' = FitTo(train)
  /\ session' = "VALIDATE"
  /\ validation' = <<>>
  /\ UNCHANGED <<fingerprint, armed, window, train, outcome, slipped>>

-----------------------------------------------------------------------------
(* The profiles: commit(), load() and _apply_profile(). *)

WriteFails ==
  /\ mishaps < MaxMishaps
  /\ mishaps' = mishaps + 1

Apply(name, committing) ==
  /\ io' = "mount"
  /\ applying' = [name |-> name, committing |-> committing, previous |-> mount]
  /\ UNCHANGED <<mount, checked, torn, mishaps>>

CanCommit == Free /\ session = "READY" /\ outcome.passed

commitProfile ==
  /\ CanCommit /\ Guard
  /\ \E name \in Names \ DOMAIN profiles :
       /\ profiles' = [n \in DOMAIN profiles \cup {name} |->
                         IF n = name THEN fingerprint.rotation.brush ELSE profiles[n]]
       /\ Apply(name, TRUE)
  /\ UNCHANGED <<launched, seenVars, calVars, baseline, mountFile, activeFile>>

refuseCommit ==    \* the mapping was changed, or the profile cannot be written
  /\ CanCommit
  /\ IF Guard THEN WriteFails /\ UNCHANGED calVars
              ELSE Invalidate /\ UNCHANGED mishaps
  /\ UNCHANGED <<launched, seenVars, fileVars, mount, checked, io, applying, torn>>

\* _check_profile_compatibility(), then the session is broken off.
load ==
  /\ Free
  /\ \E name \in DOMAIN profiles \cup {Initial} :
       /\ name # Initial => profiles[name] = rotation.brush
       /\ Apply(name, FALSE)
  /\ IF InSession THEN Invalidate ELSE UNCHANGED calVars
  /\ UNCHANGED <<launched, seenVars, fileVars>>

\* Where an exception leads to: commit() removes the profile.
AfterFailure == IF applying.committing THEN "unlink" ELSE "idle"

writeMount ==
  /\ launched /\ io = "mount"
  /\ \/ /\ mountFile' = IF applying.name = Initial THEN baseline ELSE applying.name
        /\ mount' = mountFile'
        /\ io' = "active"
        /\ UNCHANGED mishaps
     \/ /\ WriteFails
        /\ io' = AfterFailure
        /\ UNCHANGED <<mountFile, mount>>
  /\ UNCHANGED <<launched, seenVars, calVars, profiles, baseline, activeFile, checked,
                 applying, torn>>

writeActive ==
  /\ launched /\ io = "active"
  /\ activeFile' = applying.name
  /\ checked' = IF applying.name = Initial THEN None ELSE applying.name
  /\ io' = "idle" /\ applying' = NoProfile
  /\ torn' = FALSE
  /\ session' = IF applying.committing THEN "COMMITTED" ELSE session
  /\ UNCHANGED <<launched, seenVars, fingerprint, sampleVars, profiles, baseline, mountFile,
                 mount, mishaps>>

activeFails ==
  /\ launched /\ io = "active"
  /\ WriteFails
  /\ io' = "rollback"
  /\ UNCHANGED <<launched, seenVars, calVars, fileVars, mount, checked, applying, torn>>

\* Faulty variant: what was in use before is put back in memory only.
rollbackMemory ==
  /\ launched /\ io = "rollback"
  /\ mount' = applying.previous
  /\ io' = AfterFailure
  /\ UNCHANGED <<launched, seenVars, calVars, fileVars, checked, applying, torn, mishaps>>

rollback ==
  /\ launched /\ io = "rollback"
  /\ \/ /\ mountFile' = applying.previous /\ mount' = applying.previous
        /\ UNCHANGED <<torn, mishaps>>
     \/ /\ WriteFails
        /\ torn' = TRUE
        /\ UNCHANGED <<mountFile, mount>>
  /\ io' = AfterFailure
  /\ UNCHANGED <<launched, seenVars, calVars, profiles, baseline, activeFile, checked,
                 applying>>

unlink ==
  /\ launched /\ io = "unlink"
  /\ profiles' = [n \in DOMAIN profiles \ {applying.name} |-> profiles[n]]
  /\ io' = "idle" /\ applying' = NoProfile
  /\ UNCHANGED <<launched, seenVars, calVars, baseline, mountFile, activeFile, mount,
                 checked, torn, mishaps>>

-----------------------------------------------------------------------------
(* The Studio starts, and ends, at whatever it is. *)

launch ==
  /\ ~launched /\ mishaps <= MaxMishaps
  /\ launched' = TRUE
  /\ mount' = mountFile
  /\ baseline' = IF baseline = None THEN mountFile ELSE baseline
  /\ checked' = IF activeFile \in DOMAIN profiles THEN activeFile ELSE None
  /\ UNCHANGED <<seenVars, calVars, profiles, mountFile, activeFile, io, applying, torn,
                 mishaps>>

quit ==
  /\ launched /\ mishaps < MaxMishaps
  /\ launched' = FALSE /\ mishaps' = mishaps + 1
  /\ fusion' = 0 /\ frame' = NoPose
  /\ NoSamples /\ session' = "IDLE" /\ fingerprint' = NoMatch
  /\ mount' = None /\ checked' = None /\ io' = "idle" /\ applying' = NoProfile
  /\ torn' = (torn \/ io \in {"active", "rollback"})
  /\ UNCHANGED <<rotation, locks, rotations, fileVars>>

HallNext ==
  \/ lockFusion \/ dropFusion \/ rotate \/ mapFrame \/ updateHall
  \/ startSession \/ cancelSession \/ arm \/ undo \/ solve
  \/ commitProfile \/ refuseCommit \/ load
  \/ writeMount \/ writeActive \/ activeFails \/ rollback \/ unlink
  \/ launch \/ quit

HallSpec == HallInit /\ [][HallNext]_hallVars

-----------------------------------------------------------------------------
\* What may be saved was validated: the mount was fitted to the poses the
\* session has, and tested on enough others; all of them were taken under the
\* reference and the rotations the profile will name.  Except when rotations
\* changed and changed back between the mapping of a frame and its update():
\* they are not under the session's lock (solve, finishWindow, undo, commit).
ReadyIsValidated ==
  session = "READY" =>
    /\ outcome = [passed |-> TRUE, fit |-> train, on |-> validation]
    /\ Len(train) >= MinTrain /\ Len(validation) >= MinValidate
    /\ \A i \in DOMAIN train, j \in DOMAIN validation : train[i] # validation[j]
    /\ \A s \in Range(train) \cup Range(validation) :
         /\ s.fusion = fingerprint.fusion
         /\ ~slipped => s.rotation = fingerprint.rotation

\* The mount on disk and the one in use have their profile, and between the
\* calls the mapping that is compared with the Studio's is the one of the mount
\* in use; the profile of the mount before is that mount's for good.  Except
\* from when the Studio ended between the two files, or the mount could not be
\* put back, until a profile is applied again (_apply_profile, commit, launch).
MountHasItsProfile ==
  /\ baseline \in {None, Initial}
  /\ ~torn => /\ mountFile \in DOMAIN profiles \cup {Initial}
              /\ Free => /\ mount = mountFile
                         /\ checked = IF mount = Initial THEN None ELSE mount
=============================================================================
