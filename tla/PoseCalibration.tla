--------------------------- MODULE PoseCalibration --------------------------
(***************************************************************************)
(* The heading of the pen in the Studio: the UP0 reference of              *)
(* studio/pose_mapper.py and the calibration session of                    *)
(* studio/pose_calibration.py, worked by two threads without a lock: the   *)
(* GUI, which maps frames and has the buttons, and a request to the agent  *)
(* server (studio/agent_control.py), which calls the same methods.         *)
(*                                                                         *)
(* How long the pen has to be held is not modelled: a frame that could      *)
(* complete a window of samples does so or does not.                       *)
(***************************************************************************)
EXTENDS Integers

CONSTANTS
  MaxStarts,     (* bound: starts of the S3 *)
  MaxConfirms,   (* bound: confirmations of UP0 *)
  MaxCalls       (* bound: calls through the agent server *)

ASSUME PoseAssumption == {MaxStarts, MaxConfirms, MaxCalls} \subseteq Nat

VARIABLES
  stepped_back,   (* sample_time_us has gone back since the last frame *)
  starts, confirms, calls,
  \* PoseMapper
  saved,          (* _restore_R was given at the start *)
  enabled,        (* reference_enabled *)
  reference,      (* R_board_from_fusion: the confirmation it is of *)
  restoring,      (* _restore_pending *)
  mismatch,       (* _restore_failed *)
  \* PoseCalibrationSession
  stage,
  results,        (* keys of results and samples *)
  under,          (* history: the reference each test was passed with *)
  up0_confirmed,
  last_up0,       (* _last_up0_pose *)
  roll0,
  overtaken,      (* history: a confirmation came when its stage was over, or a
                     lock when its reference was disarmed *)
  \* the threads
  at,             (* where each is *)
  target,         (* the stage it is about to enter *)
  seen            (* the frame the GUI works on: [kind, reference] *)

mapperVars  == <<enabled, reference, restoring, mismatch>>
sessionVars == <<stage, results, under, up0_confirmed, last_up0, roll0, overtaken>>
boundVars   == <<starts, confirms, calls, saved>>
poseVars    == <<stepped_back, boundVars, mapperVars, sessionVars, at, target, seen>>

Actors == {"gui", "agent"}

NoReference == -2
Saved       == -1

\* How the pen is held: upright in one of two turns about its shaft, tilted to
\* the right or away, moved; or a frame without a valid new IMU sample.
Holds   == {"upright", "turned", "right", "away", "moving", "invalid"}
Upright == {"upright", "turned"}
NotSeen == [kind |-> "none", reference |-> NoReference]
Locked  == reference # NoReference

Tests == {"x", "y", "roll"}

-----------------------------------------------------------------------------
MapperInit ==
  /\ enabled = saved
  /\ reference = NoReference
  /\ restoring = saved
  /\ mismatch = FALSE

SessionInit ==
  /\ stage = "IDLE" /\ results = {} /\ under = [t \in Tests |-> NoReference]
  /\ up0_confirmed = FALSE /\ last_up0 = "none" /\ roll0 = "none" /\ overtaken = FALSE

ThreadsInit(place) ==
  /\ at = [a \in Actors |-> place]
  /\ target = [a \in Actors |-> "none"]
  /\ seen = NotSeen

PoseInit ==
  /\ stepped_back = FALSE /\ starts = 0 /\ confirms = 0 /\ calls = 0
  /\ saved \in BOOLEAN
  /\ MapperInit /\ SessionInit /\ ThreadsInit("idle")

\* The Studio is not running.
PoseUnused ==
  /\ stepped_back = FALSE /\ starts = MaxStarts /\ confirms = MaxConfirms /\ calls = MaxCalls
  /\ saved = FALSE
  /\ MapperInit /\ SessionInit /\ ThreadsInit("gone")

Goto(a, place) == at' = [at EXCEPT ![a] = place]

\* A new call.
Called(a) ==
  /\ at[a] = "idle"
  /\ IF a = "agent" THEN calls < MaxCalls /\ calls' = calls + 1 ELSE UNCHANGED calls
  /\ UNCHANGED <<stepped_back, starts, confirms, saved, seen>>

-----------------------------------------------------------------------------
(* PoseMapper. *)

\* reset_reference().
reset_reference(on) ==
  /\ enabled' = on
  /\ reference' = NoReference
  /\ restoring' = (saved /\ on)
  /\ mismatch' = FALSE

disarm_reference == reset_reference(FALSE)

\* arm_reference(): a confirmation outranks the saved reference.
arm_reference ==
  /\ enabled' = TRUE
  /\ reference' = NoReference
  /\ restoring' = FALSE
  /\ mismatch' = FALSE

\* map_frame(), up to the end of a collection.  A time that goes back is taken
\* for a restart of the device.
map_frame ==
  /\ at["gui"] = "idle"
  /\ \E kind \in Holds :
       /\ IF stepped_back
            THEN reset_reference(saved /\ enabled) /\ Goto("gui", "mapped")
            ELSE \/ Goto("gui", "mapped") /\ UNCHANGED mapperVars
                 \/ /\ ~Locked /\ enabled /\ ~mismatch /\ kind \in Upright
                    /\ Goto("gui", "collected") /\ UNCHANGED mapperVars
       /\ seen' = [kind |-> kind, reference |-> reference']
  /\ stepped_back' = FALSE
  /\ UNCHANGED <<boundVars, sessionVars, target>>

\* The rest of _reference_update(): the samples agree, and the saved reference
\* is near to what they give or not.  Whether it is still enabled is not asked.
lockReference ==
  /\ at["gui"] = "collected"
  /\ \/ /\ restoring
        /\ \/ reference' = Saved /\ UNCHANGED mismatch
           \/ mismatch' = TRUE /\ UNCHANGED reference
     \/ ~restoring /\ reference' = confirms /\ UNCHANGED mismatch
  /\ restoring' = FALSE
  /\ seen' = [seen EXCEPT !.reference = reference']
  /\ overtaken' = (overtaken \/ ~enabled)
  /\ Goto("gui", "mapped")
  /\ UNCHANGED <<stepped_back, boundVars, enabled, stage, results, under, up0_confirmed, last_up0,
                 roll0, target>>

-----------------------------------------------------------------------------
(* PoseCalibrationSession: _enter(), in two steps. *)

\* _forget_from(): what a stage and those after it depend on.
Forgotten(s) ==
  CASE s = "ON_STAND"  -> {"stand", "pickup", "confirmation", "locked"} \cup Tests
    [] s = "PICK_UP"   -> {"pickup", "confirmation", "locked"} \cup Tests
    [] s = "UP_R0"     -> {"confirmation", "locked"} \cup Tests
    [] s = "X_TEST"    -> Tests
    [] s = "Y_TEST"    -> {"y", "roll"}
    [] s = "ROLL_TEST" -> {"roll"}
    [] OTHER           -> {}

enterStage(a) ==
  /\ at[a] = "enter"
  /\ results' = results \ Forgotten(target[a])
  /\ under' = [t \in Tests |-> IF t \in results' THEN under[t] ELSE NoReference]
  /\ stage' = target[a]
  /\ Goto(a, "entered")
  /\ UNCHANGED <<stepped_back, boundVars, mapperVars, up0_confirmed, last_up0, roll0,
                 overtaken, target, seen>>

endEnter(a) ==
  /\ at[a] = "entered"
  /\ IF target[a] \in {"ON_STAND", "PICK_UP", "UP_R0"} THEN disarm_reference ELSE UNCHANGED mapperVars
  /\ up0_confirmed' = (up0_confirmed /\ target[a] # "UP_R0")
  /\ last_up0' = "none"
  /\ roll0' = IF target[a] = "ROLL_TEST" THEN "none" ELSE roll0
  /\ Goto(a, "idle")
  /\ target' = [target EXCEPT ![a] = "none"]
  /\ seen' = IF a = "gui" THEN NotSeen ELSE seen
  /\ UNCHANGED <<stepped_back, boundVars, stage, results, under, overtaken>>

-----------------------------------------------------------------------------
(* update(), with the frame that was mapped. *)

Testing == stage \in {"X_TEST", "Y_TEST", "ROLL_TEST"}

\* What this frame may complete, and the stage that follows.
Completes(key, next) ==
  \/ stage = "ON_STAND" /\ key = "stand" /\ next = "PICK_UP"
     /\ seen.kind \notin {"moving", "invalid"}
  \/ stage = "PICK_UP" /\ key = "pickup" /\ next = "UP_R0" /\ seen.kind = "moving"
  \/ stage = "UP_R0" /\ key = "locked" /\ next = "X_TEST"
     /\ up0_confirmed /\ Locked /\ seen.reference # NoReference /\ seen.kind \in Upright
  \/ stage = "X_TEST" /\ key = "x" /\ next = "Y_TEST" /\ seen.kind = "right"
  \/ stage = "Y_TEST" /\ key = "y" /\ next = "ROLL_TEST" /\ seen.kind = "away"
  \/ stage = "ROLL_TEST" /\ key = "roll" /\ next = "REVIEW"
     /\ seen.kind \in Upright /\ roll0 \notin {"none", seen.kind}

Keys   == {"stand", "pickup", "locked"} \cup Tests
Stages == {"ON_STAND", "PICK_UP", "UP_R0", "X_TEST", "Y_TEST", "ROLL_TEST", "REVIEW"}

\* The reference is gone: back to UP_R0.
referenceLost ==
  /\ at["gui"] = "mapped"
  /\ Testing /\ seen.reference = NoReference
  /\ target' = [target EXCEPT !["gui"] = "UP_R0"]
  /\ Goto("gui", "enter")
  /\ UNCHANGED <<stepped_back, boundVars, mapperVars, sessionVars, seen>>

completesStage ==
  /\ at["gui"] = "mapped"
  /\ Testing => seen.reference # NoReference
  /\ \E key \in Keys, next \in Stages :
       /\ Completes(key, next)
       /\ target' = [target EXCEPT !["gui"] = next]
       /\ Goto("gui", key)
  /\ UNCHANGED <<stepped_back, boundVars, mapperVars, sessionVars, seen>>

recordResult ==
  /\ at["gui"] \in Keys
  /\ results' = results \cup {at["gui"]}
  /\ under' = IF at["gui"] \in Tests THEN [under EXCEPT ![at["gui"]] = seen.reference] ELSE under
  /\ Goto("gui", "enter")
  /\ UNCHANGED <<stepped_back, boundVars, mapperVars, stage, up0_confirmed, last_up0, roll0,
                 overtaken, target, seen>>

\* Nothing is completed: the frame is one of a window, the last one held in
\* UP_R0, or the first of the roll test.
keepsFrame ==
  /\ at["gui"] = "mapped"
  /\ Testing => seen.reference # NoReference
  /\ \A key \in Keys \ {"stand"}, next \in Stages : ~Completes(key, next)
  /\ last_up0' = IF stage = "UP_R0" /\ seen.kind # "invalid" THEN seen.kind ELSE last_up0
  /\ roll0' = IF stage = "ROLL_TEST" /\ seen.kind \in Upright THEN seen.kind ELSE roll0
  /\ Goto("gui", "idle")
  /\ seen' = NotSeen
  /\ UNCHANGED <<stepped_back, boundVars, mapperVars, stage, results, under, up0_confirmed,
                 overtaken, target>>

update == referenceLost \/ completesStage \/ recordResult \/ keepsFrame

-----------------------------------------------------------------------------
(* The operator's calls, from a button or through the agent server. *)

resetSession ==
  /\ stage' = "IDLE" /\ results' = {} /\ under' = [t \in Tests |-> NoReference]
  /\ up0_confirmed' = FALSE /\ last_up0' = "none" /\ roll0' = "none" /\ overtaken' = FALSE

start(a) ==
  /\ Called(a)
  /\ disarm_reference
  /\ resetSession
  /\ target' = [target EXCEPT ![a] = "ON_STAND"]
  /\ Goto(a, "enter")

cancel(a) ==
  /\ Called(a)
  /\ disarm_reference
  /\ resetSession
  /\ UNCHANGED <<at, target>>

\* The command reset_reference, of the agent only.
revoke ==
  /\ Called("agent")
  /\ disarm_reference
  /\ UNCHANGED <<sessionVars, at, target>>

beginConfirm(a) ==
  /\ Called(a)
  /\ confirms < MaxConfirms
  /\ stage = "UP_R0" /\ last_up0 \in Upright
  /\ Goto(a, "confirm")
  /\ UNCHANGED <<mapperVars, sessionVars, target>>

endConfirm(a) ==
  /\ at[a] = "confirm"
  /\ confirms' = confirms + 1
  /\ up0_confirmed' = TRUE
  /\ results' = results \cup {"confirmation"}
  /\ arm_reference
  /\ overtaken' = (overtaken \/ stage # "UP_R0")
  /\ Goto(a, "idle")
  /\ UNCHANGED <<stepped_back, starts, calls, saved, stage, under, last_up0, roll0, target, seen>>

\* advance(): a stage goes to the next by itself, too, as soon as it is passed.
Requirement(s) ==
  CASE s = "ON_STAND"  -> "stand" \in results
    [] s = "PICK_UP"   -> "pickup" \in results
    [] s = "UP_R0"     -> up0_confirmed /\ "locked" \in results
    [] s = "X_TEST"    -> "x" \in results
    [] s = "Y_TEST"    -> "y" \in results
    [] s = "ROLL_TEST" -> "roll" \in results
    [] OTHER           -> FALSE

NextStep == [ON_STAND |-> "PICK_UP", PICK_UP |-> "UP_R0", UP_R0 |-> "X_TEST",
             X_TEST |-> "Y_TEST", Y_TEST |-> "ROLL_TEST", ROLL_TEST |-> "REVIEW"]

beginAdvance(a) ==
  /\ Called(a)
  /\ Requirement(stage)
  /\ Goto(a, "advance")
  /\ UNCHANGED <<mapperVars, sessionVars, target>>

\* The stage is read again; a KeyError if there is none after it.
endAdvance(a) ==
  /\ at[a] = "advance"
  /\ IF stage \in DOMAIN NextStep
       THEN target' = [target EXCEPT ![a] = NextStep[stage]] /\ Goto(a, "enter")
       ELSE Goto(a, "idle") /\ UNCHANGED target
  /\ UNCHANGED <<stepped_back, boundVars, mapperVars, sessionVars, seen>>

retry(a) ==
  /\ Called(a)
  /\ stage \notin {"IDLE", "COMMITTED"}
  /\ target' = [target EXCEPT ![a] = IF stage = "REVIEW" THEN "UP_R0" ELSE stage]
  /\ Goto(a, "enter")
  /\ UNCHANGED <<mapperVars, sessionVars>>

\* Faulty variant: of the reference only that it was locked in UP_R0.
can_commit_once == stage = "REVIEW" /\ {"stand", "confirmation", "locked"} \cup Tests \subseteq results

can_commit ==
  /\ stage = "REVIEW"
  /\ {"stand", "confirmation", "locked"} \cup Tests \subseteq results
  /\ Locked

beginCommit(a) ==
  /\ Called(a)
  /\ can_commit
  /\ Goto(a, "commit")
  /\ UNCHANGED <<mapperVars, sessionVars, target>>

endCommit(a) ==
  /\ at[a] = "commit"
  /\ stage' = "COMMITTED"
  /\ Goto(a, "idle")
  /\ UNCHANGED <<stepped_back, boundVars, mapperVars, results, under, up0_confirmed, last_up0,
                 roll0, overtaken, target, seen>>

OperatorCalls(a) ==
  \/ start(a) \/ cancel(a) \/ retry(a) \/ beginAdvance(a) \/ endAdvance(a)
  \/ beginConfirm(a) \/ endConfirm(a) \/ beginCommit(a) \/ endCommit(a)
  \/ enterStage(a) \/ endEnter(a)

\* External: the S3 starts again, and with it its sample times.
baseStarts ==
  /\ starts < MaxStarts
  /\ starts' = starts + 1
  /\ stepped_back' = TRUE
  /\ UNCHANGED <<confirms, calls, saved, mapperVars, sessionVars, at, target, seen>>

PoseNext ==
  \/ map_frame \/ lockReference \/ update
  \/ \E a \in Actors : OperatorCalls(a)
  \/ revoke \/ baseStarts

PoseSpec == PoseInit /\ [][PoseNext]_poseVars

-----------------------------------------------------------------------------
\* pose_calibration.py, "may never skip an unvalidated stage": a profile can be
\* committed only when each of the three tests was passed with the reference
\* that is in place.  Three things come in between: REVIEW looks at no frame, so
\* that one restored from disk may have taken its place; a confirmation whose
\* stage was over when it armed the mapper; and a reference that is locked
\* although it was disarmed, as its samples had been looked at before.
CommitIsEarned ==
  can_commit /\ reference # Saved /\ ~overtaken => \A t \in Tests : under[t] = reference

\* "UI/remote 'next' may never skip an unvalidated stage" (pose_calibration.py,
\* advance): when no call is under way, the stage before was passed.
StagesAreValidated ==
  (\A a \in Actors : at[a] = "idle") /\ ~overtaken =>
    /\ stage \in {"Y_TEST", "ROLL_TEST", "REVIEW"} => "x" \in results
    /\ stage \in {"ROLL_TEST", "REVIEW"} => "y" \in results
=============================================================================
