------------------------------ MODULE Watchdog ------------------------------
(***************************************************************************)
(* The camera supervisor as a watchdog: Supervisor.loop(), spawn() and     *)
(* schedule_restart() of hp60c_v13/hp60c_supervisor_v13.py against the     *)
(* loop of the worker, hp60c_worker_v13.py, which may hang, lose the       *)
(* camera, fail or exit at any time.  What the two read and write through  *)
(* the worker block is the worker state and two time stamps, kept here as  *)
(* ages; FrameShm has the block's other fields and its sequence counter.   *)
(*                                                                         *)
(* One iteration of loop() is one step (poll...): the supervisor is one    *)
(* thread, and the worker's writes count when they are complete.  The time *)
(* that terminating a worker takes is not modelled.                        *)
(***************************************************************************)
EXTENDS Integers

CONSTANTS
  PollTime,        (* POLL_S: longest time between two iterations *)
  StartupTimeout,  (* startup_timeout_s *)
  FrameStale,      (* frame_stale_s *)
  FrameDead,       (* frame_dead_s *)
  HeartbeatDead,   (* heartbeat_dead_s *)
  StableTime,      (* 10 s ONLINE clear restart_count *)
  BackoffTimes,    (* how long schedule_restart() waits, by restart_count *)
  BackoffSteps,    (* how many of these there are *)
  AttachTime,      (* environment: a good worker's first write comes by then *)
  FirstFrameTime,  (* environment: and its first frame by then *)
  BeatTime,        (* environment: its heartbeats are no further apart *)
  FrameTime,       (* environment: its frames are no further apart *)
  HangPoints,      (* where a worker may hang: worker states and "writing" *)
  MaxGenerations,  (* bound: workers started *)
  MaxAge           (* bound: ages are not told apart beyond it *)

ASSUME WatchdogAssumption ==
  /\ {PollTime, BackoffSteps} \subseteq Nat \ {0}
  /\ {StartupTimeout, FrameStale, FrameDead, HeartbeatDead, StableTime, AttachTime,
      FirstFrameTime, BeatTime, FrameTime, MaxGenerations, MaxAge} \subseteq Nat
  /\ BackoffTimes \in [1 .. BackoffSteps -> Nat]
  /\ HangPoints \subseteq {"DETACHED", "STARTING", "ONLINE", "writing"}

\* The worker's habits are within what the supervisor tolerates.
ASSUME InTimeAssumption ==
  /\ FirstFrameTime <= StartupTimeout
  /\ BeatTime <= HeartbeatDead
  /\ FrameTime <= FrameDead

\* How the supervisor is used: frames count as dead before a start counts as
\* late (1.5 s and 15 s are the defaults), a worker is attached before that, and
\* it hangs only where loop() looks, which is neither before its first
\* write_worker() nor inside of one.
NoticedInTime ==
  /\ FrameDead <= StartupTimeout
  /\ AttachTime <= StartupTimeout
  /\ HangPoints \subseteq {"STARTING", "ONLINE"}

\* _backoff_s(): each wait is longer than the one before by an iteration of
\* loop() or more (1, 2, 4, 8 and 10 s, and 0.1 s).
GrowingBackoff ==
  \A n \in 1 .. BackoffSteps - 1 : BackoffTimes[n] + PollTime <= BackoffTimes[n + 1]

VARIABLES
  running,        (* self.proc is not None *)
  generation,
  restart_count,
  online_for,     (* now - self.online_since_ns; NotOnline for zero *)
  start_age,      (* time since spawn(): startup_deadline_ns *)
  waited,         (* time since schedule_restart(): next_restart_ns *)
  since_poll,     (* time since the last iteration of loop() *)
  health,         (* the worker: "good", "blind" (no frames), "hung", "failed"
                     (about to exit) or "exited" *)
  writing,        (* WRK_SEQ is odd *)
  unreadable,     (* the last iteration of loop() met a write in progress *)
  wstate,         (* WRK_STATE *)
  hb_age,         (* now - heartbeat_ns *)
  frame_age,      (* now - last_frame_ns *)
  sick_for,       (* history: time since the worker was last good *)
  last_wait,      (* history: the wait before the running worker was started *)
  fresh_for       (* history: how long the worker delivered without a hole, up
                     to StableTime; kept from then on *)

ages    == <<online_for, start_age, waited, since_poll, hb_age, frame_age,
             sick_for, fresh_for>>
vars    == <<running, generation, restart_count, health, writing, unreadable,
             wstate, last_wait, ages>>

NotOnline == -1

Lesser(a, b) == IF a <= b THEN a ELSE b

\* _backoff_s
Backoff(count) == BackoffTimes[Lesser(count, BackoffSteps)]

\* loop() has just called spawn() for the first time.
Init ==
  /\ running = TRUE
  /\ generation = 1
  /\ restart_count = 0
  /\ online_for = NotOnline
  /\ start_age = 0
  /\ waited = 0
  /\ since_poll = 0
  /\ health = "good"
  /\ writing = FALSE
  /\ unreadable = FALSE
  /\ wstate = "DETACHED"
  /\ hb_age = 0
  /\ frame_age = 0
  /\ sick_for = 0
  /\ last_wait = 0
  /\ fresh_for = 0

-----------------------------------------------------------------------------
(* The worker. *)

Works == health \in {"good", "blind"}

supervisorVars == <<running, generation, restart_count, online_for, start_age,
                    waited, since_poll, unreadable, sick_for, last_wait>>

beginWrite ==
  /\ Works /\ ~writing
  /\ writing' = TRUE
  /\ UNCHANGED <<supervisorVars, health, wstate, hb_age, frame_age, fresh_for>>

\* main(), before the camera is opened.
writeStarting ==
  /\ Works /\ writing /\ wstate = "DETACHED"
  /\ writing' = FALSE
  /\ wstate' = "STARTING"
  /\ hb_age' = 0
  /\ UNCHANGED <<supervisorVars, health, frame_age, fresh_for>>

heartbeat ==
  /\ Works /\ writing /\ wstate \in {"STARTING", "ONLINE"}
  /\ writing' = FALSE
  /\ hb_age' = 0
  /\ UNCHANGED <<supervisorVars, health, wstate, frame_age, fresh_for>>

publish ==
  /\ health = "good" /\ writing /\ wstate \in {"STARTING", "ONLINE"}
  /\ writing' = FALSE
  /\ wstate' = "ONLINE"
  /\ hb_age' = 0
  /\ frame_age' = 0
  /\ fresh_for' = IF wstate = "STARTING" THEN 0 ELSE fresh_for
  /\ UNCHANGED <<supervisorVars, health>>

\* An exception: the state is written, then main() returns.
writeError ==
  /\ Works /\ writing
  /\ writing' = FALSE
  /\ wstate' = "ERROR"
  /\ health' = "failed"
  /\ UNCHANGED <<supervisorVars, hb_age, frame_age, fresh_for>>

exit ==
  /\ health # "exited"
  /\ health' = "exited"
  /\ UNCHANGED <<supervisorVars, writing, wstate, hb_age, frame_age, fresh_for>>

hang ==
  /\ Works
  /\ (IF writing THEN "writing" ELSE wstate) \in HangPoints
  /\ health' = "hung"
  /\ UNCHANGED <<supervisorVars, writing, wstate, hb_age, frame_age, fresh_for>>

\* The camera is unplugged, or its SDK delivers nothing more.
loseCamera ==
  /\ health = "good"
  /\ health' = "blind"
  /\ UNCHANGED <<supervisorVars, writing, wstate, hb_age, frame_age, fresh_for>>

Worker == \/ beginWrite \/ writeStarting \/ heartbeat \/ publish
          \/ writeError \/ exit \/ hang \/ loseCamera

-----------------------------------------------------------------------------
(* The supervisor: one iteration of loop(). *)

Poll == since_poll' = 0 /\ unreadable' = FALSE

workerVars == <<health, writing, wstate, hb_age, frame_age, fresh_for>>

\* schedule_restart(): terminate the worker if it is still there, and wait.
schedule_restart ==
  /\ Poll
  /\ running' = FALSE
  /\ health' = "exited"
  /\ restart_count' = restart_count + 1
  /\ online_for' = NotOnline
  /\ waited' = 0
  /\ UNCHANGED <<generation, writing, wstate, hb_age, frame_age, fresh_for,
                 start_age, last_wait>>
  /\ sick_for' = IF health = "good" THEN 0 ELSE sick_for

pollExited ==
  /\ running
  /\ health = "exited"
  /\ schedule_restart

\* read_worker() succeeds: the process is there and its block can be read.
Readable == running /\ health # "exited" /\ ~writing

\* Three attempts find WRK_SEQ odd: the iteration does nothing.  Environment: a
\* worker that works is not caught writing by two iterations in a row.
pollUnreadable ==
  /\ running /\ health # "exited"
  /\ writing
  /\ unreadable => ~Works
  /\ since_poll' = 0
  /\ unreadable' = TRUE
  /\ UNCHANGED <<running, generation, restart_count, online_for, start_age, waited,
                 workerVars, sick_for, last_wait>>

\* Faulty variant: frames that stop go unnoticed while heartbeats come.
HasNoFramesNever == FALSE

\* STARTING at its deadline; or ONLINE with a dead heartbeat or dead frames.
IsLate == wstate = "STARTING" /\ start_age > StartupTimeout
HasNoHeartbeat == wstate = "ONLINE" /\ hb_age > HeartbeatDead
HasNoFrames == wstate = "ONLINE" /\ frame_age > FrameDead

HasFailed == wstate = "ERROR"

pollDead ==
  /\ Readable
  /\ IsLate \/ HasFailed \/ HasNoHeartbeat \/ HasNoFrames
  /\ schedule_restart

\* Faulty variant: the first frame clears restart_count.
IsStableAtOnce(since) == TRUE

IsStable(since) == since > StableTime

\* The worker is left alone.
pollAlive ==
  /\ Readable
  /\ ~(IsLate \/ HasFailed \/ HasNoHeartbeat \/ HasNoFrames)
  /\ Poll
  /\ LET stale == frame_age > FrameStale
         since == IF online_for = NotOnline THEN 0 ELSE online_for
     IN
     /\ online_for' = IF wstate # "ONLINE" THEN online_for
                      ELSE IF stale THEN NotOnline ELSE since
     /\ restart_count' = IF wstate = "ONLINE" /\ ~stale /\ IsStable(since)
                           THEN 0 ELSE restart_count
  /\ UNCHANGED <<running, generation, start_age, waited, workerVars, sick_for, last_wait>>

pollWaiting ==
  /\ ~running
  /\ waited < Backoff(restart_count)
  /\ Poll
  /\ UNCHANGED <<running, generation, restart_count, online_for, start_age, waited,
                 workerVars, sick_for, last_wait>>

spawn ==
  /\ ~running
  /\ waited >= Backoff(restart_count)
  /\ generation < MaxGenerations
  /\ Poll
  /\ generation' = generation + 1
  /\ running' = TRUE
  /\ online_for' = NotOnline
  /\ start_age' = 0
  /\ health' = "good"
  /\ writing' = FALSE
  /\ wstate' = "DETACHED"
  /\ hb_age' = 0 /\ frame_age' = 0 /\ fresh_for' = 0
  /\ sick_for' = 0
  /\ last_wait' = waited
  /\ UNCHANGED <<restart_count, waited>>

Supervisor == \/ pollExited \/ pollUnreadable \/ pollDead \/ pollAlive
              \/ pollWaiting \/ spawn

-----------------------------------------------------------------------------
(* Time.  loop() runs every PollTime, a worker that works is in time with its
   heartbeats, and a good one with its frames. *)

InTime ==
  /\ Works =>
       /\ wstate = "DETACHED" => start_age < AttachTime
       /\ wstate \in {"STARTING", "ONLINE"} => hb_age < BeatTime
  /\ health = "good" =>
       /\ wstate \in {"DETACHED", "STARTING"} => start_age < FirstFrameTime
       /\ wstate = "ONLINE" => frame_age < FrameTime

\* A hole is noticed unless it ends before the iteration after the next.
LongestHole == FrameStale + 2 * PollTime

Older(age) == Lesser(age + 1, MaxAge)

pass ==
  /\ running \/ generation < MaxGenerations
  /\ since_poll < PollTime
  /\ InTime
  /\ start_age' = Older(start_age)
  /\ waited' = IF running THEN waited ELSE Older(waited)
  /\ since_poll' = since_poll + 1
  /\ online_for' = IF online_for = NotOnline THEN NotOnline ELSE Older(online_for)
  /\ hb_age' = Older(hb_age)
  /\ frame_age' = Older(frame_age)
  /\ sick_for' = IF health = "good" THEN 0 ELSE Older(sick_for)
  /\ fresh_for' = IF fresh_for >= StableTime THEN fresh_for
                  ELSE IF wstate = "ONLINE" /\ frame_age' <= LongestHole
                    THEN fresh_for + 1 ELSE 0
  /\ UNCHANGED <<running, generation, restart_count, health, writing, unreadable, wstate,
                 last_wait>>

Next == Worker \/ Supervisor \/ pass

Spec == Init /\ [][Next]_vars

-----------------------------------------------------------------------------
\* hp60c_v13/hp60c_v13_soak_test.py:6, "watchdog restart after worker hang": a worker that
\* hung, exited or lost the camera is gone soon after it is due, wherever it
\* was in its start and its writes.
Limit ==
  (IF wstate = "ONLINE" THEN FrameDead ELSE StartupTimeout) + 2 * PollTime + 1
SickWorkerIsStopped == running => sick_for <= Limit

\* The watchdog leaves a worker alone whose heartbeats and frames are in time.
GoodWorkerIsKept == [][running /\ ~running' => health # "good"]_vars

\* The waits between restarts do not shrink, unless the camera delivered for
\* StableTime in between: a camera that fails at once is not hammered.
BackoffHolds ==
  [][running' /\ ~running =>
       \/ waited >= Lesser(last_wait, Backoff(BackoffSteps))
       \/ fresh_for >= StableTime]_vars
=============================================================================
