-------------------------- MODULE SupervisorProofs --------------------------
(***************************************************************************)
(* Proofs about the camera's supervisor.  As a watchdog (Watchdog): it     *)
(* never stops a worker that is good, stops one that is not in time, and   *)
(* waits longer and longer between restarts, whatever the timeouts.  As    *)
(* owner of the memory (ShmOwner): there is one supervisor and one worker, *)
(* however many supervisors are started, stopped and killed.               *)
(***************************************************************************)
EXTENDS Watchdog, ShmOwner, TLAPS

\* What TLC need not be told: the ages that loop() compares are numbers.
AgesInv ==
  /\ start_age \in Nat
  /\ hb_age \in Nat
  /\ frame_age \in Nat

\* A worker in ERROR has failed: what makes the other tests of loop() complete.
FailedInv == wstate = "ERROR" => health \in {"failed", "exited"}

\* A good worker is within its own limits in each of its states.
GoodInv ==
  health = "good" =>
    /\ wstate \in {"DETACHED", "STARTING"} => start_age <= FirstFrameTime
    /\ wstate = "ONLINE" => hb_age <= BeatTime /\ frame_age <= FrameTime

KeptInv == AgesInv /\ FailedInv /\ GoodInv

\* WatchdogAssumption, constant by constant.
LEMMA Numbers ==
  /\ StartupTimeout \in Nat /\ FrameDead \in Nat /\ HeartbeatDead \in Nat
  /\ FirstFrameTime \in Nat /\ BeatTime \in Nat /\ FrameTime \in Nat
  /\ MaxAge \in Nat
  /\ PollTime \in Nat \ {0} /\ AttachTime \in Nat /\ StableTime \in Nat
  /\ FrameStale \in Nat /\ BackoffSteps \in Nat \ {0}
BY WatchdogAssumption

\* Ages grow by at most one with every step of time.
LEMMA OlderByOne ==
  ASSUME NEW age \in Nat
  PROVE  Older(age) \in Nat /\ Older(age) <= age + 1
BY Numbers DEF Older, Lesser

LEMMA KeptInit == Init => KeptInv
BY Numbers DEF Init, KeptInv, AgesInv, FailedInv, GoodInv

LEMMA WorkerKeeps == KeptInv /\ Worker => KeptInv'
<1> SUFFICES ASSUME KeptInv, Worker PROVE KeptInv'
  OBVIOUS
<1> USE Numbers
        DEF KeptInv, AgesInv, FailedInv, GoodInv, supervisorVars, Works
<1>1. CASE beginWrite
  BY <1>1 DEF beginWrite
<1>2. CASE writeStarting
  BY <1>2 DEF writeStarting
<1>3. CASE heartbeat
  BY <1>3 DEF heartbeat
<1>4. CASE publish
  BY <1>4 DEF publish
<1>5. CASE writeError
  BY <1>5 DEF writeError
<1>6. CASE exit
  BY <1>6 DEF exit
<1>7. CASE hang
  BY <1>7 DEF hang
<1>8. CASE loseCamera
  BY <1>8 DEF loseCamera
<1> QED
  BY <1>1, <1>2, <1>3, <1>4, <1>5, <1>6, <1>7, <1>8 DEF Worker

LEMMA SupervisorKeeps == KeptInv /\ Supervisor => KeptInv'
<1> SUFFICES ASSUME KeptInv, Supervisor PROVE KeptInv'
  OBVIOUS
<1> USE Numbers DEF KeptInv, AgesInv, FailedInv, GoodInv, workerVars, Poll
<1>1. ASSUME schedule_restart PROVE KeptInv'
  BY <1>1 DEF schedule_restart
<1>2. CASE pollExited \/ pollDead
  BY <1>1, <1>2 DEF pollExited, pollDead
<1>3. CASE pollUnreadable
  BY <1>3 DEF pollUnreadable
<1>4. CASE pollAlive
  BY <1>4 DEF pollAlive
<1>5. CASE pollWaiting
  BY <1>5 DEF pollWaiting
<1>6. CASE spawn
  BY <1>6 DEF spawn
<1> QED
  BY <1>2, <1>3, <1>4, <1>5, <1>6 DEF Supervisor

\* Time passes only as far as the habits of a good worker allow.
LEMMA TimeKeeps == KeptInv /\ pass => KeptInv'
<1> SUFFICES ASSUME KeptInv, pass PROVE KeptInv'
  OBVIOUS
<1>1. /\ start_age' \in Nat /\ start_age' <= start_age + 1
      /\ hb_age' \in Nat /\ hb_age' <= hb_age + 1
      /\ frame_age' \in Nat /\ frame_age' <= frame_age + 1
  BY OlderByOne DEF pass, KeptInv, AgesInv
<1>2. health' = health /\ wstate' = wstate
  BY DEF pass
<1>3. AgesInv' /\ FailedInv'
  BY <1>1, <1>2 DEF KeptInv, AgesInv, FailedInv
<1>4. ASSUME health = "good"
      PROVE  /\ wstate \in {"DETACHED", "STARTING"} => start_age < FirstFrameTime
             /\ wstate = "ONLINE" => hb_age < BeatTime /\ frame_age < FrameTime
  BY <1>4 DEF pass, InTime, Works
<1>5. GoodInv'
  BY <1>1, <1>2, <1>4, Numbers DEF KeptInv, AgesInv, GoodInv
<1> QED
  BY <1>3, <1>5 DEF KeptInv

\* The ages of a good worker and that ERROR is a failure's are invariants.
THEOREM HabitsHold == Spec => []KeptInv
<1>1. KeptInv /\ [Next]_vars => KeptInv'
  <2> SUFFICES ASSUME KeptInv, [Next]_vars PROVE KeptInv'
    OBVIOUS
  <2>1. CASE UNCHANGED vars
    BY <2>1 DEF vars, ages, KeptInv, AgesInv, FailedInv, GoodInv
  <2> QED
    BY <2>1, WorkerKeeps, SupervisorKeeps, TimeKeeps DEF Next
<1> QED
  BY KeptInit, <1>1, PTL DEF Spec

\* GoodWorkerIsKept: loop() of hp60c_supervisor_v13.py restarts no worker whose
\* first frame, heartbeats and frames come in time, for every set of timeouts.
THEOREM GoodWorkersAreKept == Spec => GoodWorkerIsKept
<1>1. ASSUME KeptInv, Next, running, ~running', health = "good"
      PROVE  FALSE
  <2>1. CASE Worker
    BY <2>1, <1>1 DEF Worker, beginWrite, writeStarting, heartbeat, publish,
       writeError, exit, hang, loseCamera, supervisorVars
  <2>2. CASE pass
    BY <2>2, <1>1 DEF pass
  <2>3. CASE Supervisor
    <3>1. pollDead
      BY <2>3, <1>1 DEF Supervisor, pollExited, pollUnreadable, pollAlive,
         pollWaiting, spawn
    <3>2. ~IsLate
      BY <1>1, Numbers, InTimeAssumption
         DEF IsLate, KeptInv, AgesInv, GoodInv
    <3>3. ~HasNoHeartbeat /\ ~HasNoFrames
      BY <1>1, Numbers, InTimeAssumption
         DEF HasNoHeartbeat, HasNoFrames, KeptInv, AgesInv, GoodInv
    <3>4. ~HasFailed
      BY <1>1 DEF HasFailed, KeptInv, FailedInv
    <3> QED
      BY <3>1, <3>2, <3>3, <3>4 DEF pollDead
  <2> QED
    BY <1>1, <2>1, <2>2, <2>3 DEF Next
<1>2. KeptInv /\ [Next]_vars => [running /\ ~running' => health # "good"]_vars
  BY <1>1
<1> QED
  BY <1>2, HabitsHold, PTL DEF Spec, GoodWorkerIsKept

-----------------------------------------------------------------------------
(* A worker that is not good is stopped in time. *)

States == {"DETACHED", "STARTING", "ONLINE", "ERROR"}
Healths == {"good", "blind", "hung", "failed", "exited"}

\* What loop() tolerates in the state it reads.
Tolerated == IF wstate = "ONLINE" THEN FrameDead ELSE StartupTimeout

SickType ==
  /\ AgesInv
  /\ sick_for \in Nat
  /\ since_poll \in Nat /\ since_poll <= PollTime
  /\ wstate \in States
  /\ health \in Healths

\* The time a worker has been sick shows in the ages that loop() compares.
ShownInv ==
  running =>
    /\ health = "good" => sick_for = 0
    /\ sick_for <= start_age
    /\ wstate = "ONLINE" /\ health # "good" => sick_for <= frame_age

\* Where a worker stands that is neither good nor gone.
StandsInv ==
  running =>
    /\ wstate = "ERROR" => health \in {"failed", "exited"}
    /\ health = "failed" => wstate = "ERROR" /\ ~writing
    /\ health = "hung" => wstate \in {"STARTING", "ONLINE"} /\ ~writing
    /\ health \in {"good", "blind"} /\ wstate = "DETACHED" => start_age <= AttachTime

\* Of two iterations of loop() one finds the block readable.
StoppedInv ==
  running =>
    sick_for <= Tolerated + since_poll + (IF unreadable THEN PollTime ELSE 0)

SickInv == SickType /\ ShownInv /\ StandsInv /\ StoppedInv

LEMMA SickInit == ASSUME Init PROVE SickInv
BY Numbers DEF Init, SickInv, SickType, AgesInv, ShownInv, StandsInv, StoppedInv,
   Tolerated, States, Healths

LEMMA WorkerSick == ASSUME NoticedInTime, SickInv, Worker PROVE SickInv'
<1> USE Numbers DEF NoticedInTime, SickInv, SickType, AgesInv, ShownInv, StandsInv, StoppedInv,
        Tolerated, States, Healths, supervisorVars, Works
<1>1. CASE beginWrite
  BY <1>1 DEF beginWrite
<1>2. CASE writeStarting
  BY <1>2 DEF writeStarting
<1>3. CASE heartbeat
  BY <1>3 DEF heartbeat
<1>4. CASE publish
  BY <1>4 DEF publish
<1>5. CASE writeError
  BY <1>5 DEF writeError
<1>6. CASE exit
  BY <1>6 DEF exit
<1>7. CASE hang
  BY <1>7 DEF hang
<1>8. CASE loseCamera
  BY <1>8 DEF loseCamera
<1> QED
  BY <1>1, <1>2, <1>3, <1>4, <1>5, <1>6, <1>7, <1>8 DEF Worker

LEMMA SupervisorSick == ASSUME NoticedInTime, SickInv, Supervisor PROVE SickInv'
<1> USE Numbers DEF NoticedInTime, SickInv, SickType, AgesInv, ShownInv, StandsInv,
        StoppedInv, Tolerated, States, Healths, workerVars, Poll, Works
<1>1. ASSUME schedule_restart PROVE SickInv'
  BY <1>1 DEF schedule_restart
<1>2. CASE pollExited \/ pollDead
  BY <1>1, <1>2 DEF pollExited, pollDead
<1>3. CASE pollUnreadable
  BY <1>3 DEF pollUnreadable
<1>4. CASE pollAlive
  BY <1>4 DEF pollAlive, Readable, IsLate, HasFailed, HasNoHeartbeat, HasNoFrames
<1>5. CASE pollWaiting
  BY <1>5 DEF pollWaiting
<1>6. CASE spawn
  BY <1>6 DEF spawn
<1> QED
  BY <1>2, <1>3, <1>4, <1>5, <1>6 DEF Supervisor

LEMMA TimeSick == ASSUME NoticedInTime, SickInv, pass PROVE SickInv'
<1>1. /\ start_age' = Older(start_age) /\ frame_age' = Older(frame_age)
      /\ sick_for' = IF health = "good" THEN 0 ELSE Older(sick_for)
      /\ start_age \in Nat /\ frame_age \in Nat /\ sick_for \in Nat
  BY Numbers DEF pass, SickInv, SickType, AgesInv
<1>2. /\ start_age' \in Nat /\ start_age' <= start_age + 1
      /\ hb_age' \in Nat /\ frame_age' \in Nat
      /\ sick_for' \in Nat /\ sick_for' <= sick_for + 1
  BY <1>1, OlderByOne DEF pass, SickInv, SickType, AgesInv
<1>3. /\ since_poll' = since_poll + 1 /\ since_poll < PollTime
      /\ UNCHANGED <<running, health, writing, unreadable, wstate>>
  BY DEF pass
<1>4. SickType'
  BY <1>2, <1>3, Numbers DEF SickInv, SickType, AgesInv
<1>5. ShownInv'
  <2>1. \A m, n \in Nat : m <= n => Older(m) <= Older(n)
    BY Numbers DEF Older, Lesser
  <2> QED
    BY <1>1, <1>2, <1>3, <2>1 DEF SickInv, ShownInv
<1>6. StandsInv'
  <2>1. health \in {"good", "blind"} /\ wstate = "DETACHED" => start_age < AttachTime
    BY DEF pass, InTime, Works
  <2> QED
    BY <1>1, <1>2, <1>3, <2>1, Numbers DEF SickInv, StandsInv
<1>7. StoppedInv'
  BY <1>2, <1>3, <1>1, Numbers DEF SickInv, SickType, StoppedInv, Tolerated
<1> QED
  BY <1>4, <1>5, <1>6, <1>7 DEF SickInv

\* SickWorkerIsStopped, the "watchdog restart after worker hang" of
\* hp60c_v13_soak_test.py: for every set of timeouts, a worker that hung, lost
\* the camera, failed or exited is gone within the limit of its state, two
\* iterations of loop() included.
THEOREM SickWorkersAreStopped ==
  ASSUME NoticedInTime PROVE Spec => []SickWorkerIsStopped
<1>1. SickInv /\ [Next]_vars => SickInv'
  <2> SUFFICES ASSUME SickInv, [Next]_vars PROVE SickInv'
    OBVIOUS
  <2>1. CASE UNCHANGED vars
    BY <2>1 DEF vars, ages, SickInv, SickType, AgesInv, ShownInv, StandsInv, StoppedInv, Tolerated
  <2> QED
    BY <2>1, WorkerSick, SupervisorSick, TimeSick DEF Next
<1>2. SickInv => SickWorkerIsStopped
  BY Numbers DEF SickInv, SickType, StoppedInv, Tolerated, SickWorkerIsStopped, Limit
<1> QED
  BY SickInit, <1>1, <1>2, PTL DEF Spec

-----------------------------------------------------------------------------
(* The waits between restarts. *)

BackoffType ==
  /\ AgesInv
  /\ since_poll \in Nat /\ since_poll <= PollTime
  /\ restart_count \in Nat /\ waited \in Nat
  /\ last_wait \in Nat /\ fresh_for \in Nat
  /\ online_for \in Nat \cup {NotOnline}

Delivered == fresh_for >= StableTime

\* The wait before the running worker was that of the count it was started at,
\* and late by no more than an iteration; the count has not shrunk since, or
\* the camera delivered for long enough.
CountInv ==
  \/ Delivered \/ last_wait = 0
  \/ running /\ restart_count >= 1 /\ last_wait <= Backoff(restart_count) + PollTime
  \/ ~running /\ restart_count >= 2 /\ last_wait <= Backoff(restart_count - 1) + PollTime

WaitInv ==
  ~running =>
    /\ restart_count >= 1
    /\ waited <= since_poll \/ waited < Backoff(restart_count) + since_poll

\* What loop() counts as online is delivery without a hole.  (A worker that hangs
\* in a write is not looked at again.)
OnlineInv ==
  running /\ wstate = "ONLINE" /\ online_for # NotOnline /\ (writing => Works) =>
    /\ Delivered \/ fresh_for >= online_for
    /\ frame_age <= FrameStale + since_poll + (IF unreadable THEN PollTime ELSE 0)

\* Only an iteration that reads ONLINE starts the count, and nothing is delivered
\* before the worker is ONLINE.
CountedInv ==
  /\ ~running => health = "exited"
  /\ running =>
       /\ online_for # NotOnline => wstate \in {"ONLINE", "ERROR"}
       /\ wstate \in {"DETACHED", "STARTING"} => fresh_for = 0

BackoffInv == BackoffType /\ CountInv /\ WaitInv /\ OnlineInv /\ CountedInv

\* The wait of a count is a number, at most the longest, and the next is longer
\* by an iteration.
LEMMA BackoffGrows ==
  ASSUME GrowingBackoff, NEW n \in Nat, n >= 1
  PROVE  /\ Backoff(n) \in Nat /\ Backoff(n + 1) \in Nat
         /\ n < BackoffSteps => Backoff(n) + PollTime <= Backoff(n + 1)
         /\ n >= BackoffSteps => Backoff(n) = Backoff(BackoffSteps)
<1>1. BackoffTimes \in [1 .. BackoffSteps -> Nat] /\ BackoffSteps \in Nat /\ BackoffSteps >= 1
  BY WatchdogAssumption, Numbers
<1>2. /\ Lesser(n, BackoffSteps) = IF n < BackoffSteps THEN n ELSE BackoffSteps
      /\ Lesser(n + 1, BackoffSteps) = IF n < BackoffSteps THEN n + 1 ELSE BackoffSteps
      /\ Lesser(BackoffSteps, BackoffSteps) = BackoffSteps
  BY <1>1 DEF Lesser
<1>3. CASE n < BackoffSteps
  BY <1>1, <1>2, <1>3 DEF Backoff, GrowingBackoff
<1>4. CASE n >= BackoffSteps
  BY <1>1, <1>2, <1>4 DEF Backoff
<1> QED
  BY <1>1, <1>3, <1>4

LEMMA BackoffInit == ASSUME Init PROVE BackoffInv
BY Numbers DEF Init, BackoffInv, BackoffType, AgesInv, CountInv, WaitInv, OnlineInv, CountedInv,
   NotOnline

LEMMA WorkerWaits == ASSUME BackoffInv, Worker PROVE BackoffInv'
<1> USE Numbers DEF BackoffInv, BackoffType, AgesInv, CountInv, WaitInv, OnlineInv, CountedInv,
        Delivered, supervisorVars, Works
<1>1. CASE beginWrite
  BY <1>1 DEF beginWrite
<1>2. CASE writeStarting
  BY <1>2 DEF writeStarting
<1>3. CASE heartbeat
  BY <1>3 DEF heartbeat
<1>4. CASE publish
  <2>0. Delivered /\ running => Delivered'
    BY <1>4 DEF publish
  <2>1. BackoffType'
    BY <1>4 DEF publish
  <2>3. CountInv'
    BY <1>4, <2>0 DEF publish
  <2>4. WaitInv' /\ CountedInv'
    BY <1>4 DEF publish
  <2>2. OnlineInv'
    BY <1>4 DEF publish
  <2> QED
    BY <2>1, <2>2, <2>3, <2>4
<1>5. CASE writeError
  BY <1>5 DEF writeError
<1>6. CASE exit
  BY <1>6 DEF exit
<1>7. CASE hang
  BY <1>7 DEF hang
<1>8. CASE loseCamera
  BY <1>8 DEF loseCamera
<1> QED
  BY <1>1, <1>2, <1>3, <1>4, <1>5, <1>6, <1>7, <1>8 DEF Worker

LEMMA SupervisorWaits == ASSUME GrowingBackoff, BackoffInv, Supervisor PROVE BackoffInv'
<1> USE Numbers DEF BackoffInv, BackoffType, AgesInv, CountInv, WaitInv, OnlineInv, CountedInv,
        Delivered, workerVars, Poll, Works, NotOnline
<1>1. ASSUME schedule_restart, running PROVE BackoffInv'
  BY <1>1 DEF schedule_restart
<1>2. CASE pollExited \/ pollDead
  BY <1>1, <1>2 DEF pollExited, pollDead, Readable
<1>3. CASE pollUnreadable
  BY <1>3 DEF pollUnreadable
<1>4. CASE pollAlive
  BY <1>4 DEF pollAlive, Readable, IsLate, HasFailed, HasNoHeartbeat, HasNoFrames, IsStable
<1>5. CASE pollWaiting
  <2>1. restart_count \in Nat /\ restart_count >= 1 /\ waited \in Nat
    BY <1>5 DEF pollWaiting
  <2>2. Backoff(restart_count) \in Nat
    BY <2>1, BackoffGrows
  <2> QED
    BY <1>5, <2>1, <2>2 DEF pollWaiting
<1>6. CASE spawn
  <2>1. restart_count \in Nat /\ restart_count >= 1 /\ waited \in Nat
        /\ (waited <= since_poll \/ waited < Backoff(restart_count) + since_poll)
    BY <1>6 DEF spawn
  <2>2. Backoff(restart_count) \in Nat
    BY <2>1, BackoffGrows
  <2>3. waited <= Backoff(restart_count) + PollTime
    BY <2>1, <2>2
  <2> QED
    BY <1>6, <2>1, <2>3 DEF spawn
<1> QED
  BY <1>2, <1>3, <1>4, <1>5, <1>6 DEF Supervisor

LEMMA TimeWaits == ASSUME GrowingBackoff, BackoffInv, pass PROVE BackoffInv'
<1>1. /\ start_age' = Older(start_age) /\ start_age \in Nat
      /\ hb_age' = Older(hb_age) /\ hb_age \in Nat
      /\ frame_age' = Older(frame_age) /\ frame_age \in Nat
      /\ waited' = IF running THEN waited ELSE Older(waited)
      /\ waited \in Nat
      /\ online_for' = IF online_for = NotOnline THEN NotOnline ELSE Older(online_for)
      /\ online_for \in Nat \cup {NotOnline}
  BY DEF pass, BackoffInv, BackoffType, AgesInv
<1>2. /\ start_age' \in Nat /\ hb_age' \in Nat
      /\ frame_age' \in Nat /\ frame_age' <= frame_age + 1
      /\ waited' \in Nat /\ waited' <= waited + 1
      /\ online_for' \in Nat \cup {NotOnline}
      /\ online_for' # NotOnline => online_for # NotOnline /\ online_for' <= online_for + 1
  BY <1>1, OlderByOne DEF NotOnline
<1>3. /\ since_poll' = since_poll + 1 /\ since_poll < PollTime
      /\ UNCHANGED <<running, health, writing, unreadable, wstate, restart_count, last_wait>>
      /\ fresh_for' = IF fresh_for >= StableTime THEN fresh_for
                      ELSE IF wstate = "ONLINE" /\ frame_age' <= LongestHole
                        THEN fresh_for + 1 ELSE 0
  BY DEF pass
<1> HIDE DEF LongestHole
<1>4. fresh_for' \in Nat /\ (Delivered => Delivered')
  BY <1>3, Numbers DEF BackoffInv, BackoffType, Delivered
<1>5. BackoffType'
  BY <1>2, <1>3, <1>4, Numbers DEF BackoffInv, BackoffType, AgesInv
<1>6. CountInv' /\ CountedInv'
  BY <1>2, <1>3, <1>4, Numbers DEF BackoffInv, CountInv, CountedInv
<1>7. WaitInv'
  <2> SUFFICES ASSUME ~running PROVE WaitInv'
    BY <1>3 DEF WaitInv
  <2>1. restart_count \in Nat /\ restart_count >= 1 /\ since_poll \in Nat /\ waited \in Nat
        /\ (waited <= since_poll \/ waited < Backoff(restart_count) + since_poll)
    BY DEF BackoffInv, BackoffType, WaitInv
  <2>2. Backoff(restart_count) \in Nat
    BY <2>1, BackoffGrows
  <2> QED
    BY <1>2, <1>3, <2>1, <2>2 DEF WaitInv
<1>8. OnlineInv'
  <2> SUFFICES ASSUME running, wstate = "ONLINE", online_for # NotOnline, writing => Works,
                      online_for' # NotOnline
               PROVE  /\ Delivered' \/ fresh_for' >= online_for'
                      /\ frame_age' <= FrameStale + since_poll' + (IF unreadable THEN PollTime ELSE 0)
    BY <1>2, <1>3 DEF OnlineInv, Works
  <2>1. /\ Delivered \/ fresh_for >= online_for
        /\ frame_age <= FrameStale + since_poll + (IF unreadable THEN PollTime ELSE 0)
        /\ since_poll \in Nat /\ fresh_for \in Nat
    BY DEF BackoffInv, BackoffType, OnlineInv
  <2>2. frame_age' <= FrameStale + since_poll' + (IF unreadable THEN PollTime ELSE 0)
    BY <1>1, <1>2, <1>3, <2>1, Numbers
  <2>3. frame_age' <= LongestHole
    BY <1>2, <1>3, <2>1, <2>2, Numbers DEF LongestHole
  <2> QED
    BY <1>1, <1>2, <1>3, <1>4, <2>1, <2>2, <2>3, Numbers DEF Delivered, NotOnline
<1> QED
  BY <1>5, <1>6, <1>7, <1>8 DEF BackoffInv

LEMMA BackoffStep == ASSUME GrowingBackoff PROVE BackoffInv /\ [Next]_vars => BackoffInv'
<1> SUFFICES ASSUME BackoffInv, [Next]_vars PROVE BackoffInv'
  OBVIOUS
<1>1. CASE UNCHANGED vars
  BY <1>1 DEF vars, ages, BackoffInv, BackoffType, AgesInv, CountInv, WaitInv, OnlineInv, CountedInv,
     Delivered, Works
<1> QED
  BY <1>1, WorkerWaits, SupervisorWaits, TimeWaits DEF Next

\* BackoffHolds: schedule_restart() waits at least as long before a worker as
\* before the one it replaces, up to the longest wait, unless that one delivered
\* frames without a hole for StableTime: for every set of timeouts and every
\* list of waits that grows.
THEOREM WaitsGrow == ASSUME GrowingBackoff PROVE Spec => BackoffHolds
<1>1. ASSUME BackoffInv, Next, running', ~running
      PROVE  waited >= Lesser(last_wait, Backoff(BackoffSteps)) \/ fresh_for >= StableTime
  <2>1. spawn
    BY <1>1 DEF Next, Worker, beginWrite, writeStarting, heartbeat, publish, writeError, exit, hang,
       loseCamera, supervisorVars, Supervisor, pollExited, pollUnreadable, pollDead, pollAlive,
       pollWaiting, schedule_restart, pass
  <2>2. /\ restart_count \in Nat /\ restart_count >= 1 /\ waited \in Nat /\ last_wait \in Nat
        /\ waited >= Backoff(restart_count)
        /\ \/ fresh_for >= StableTime
           \/ last_wait = 0
           \/ restart_count >= 2 /\ last_wait <= Backoff(restart_count - 1) + PollTime
    BY <1>1, <2>1 DEF spawn, BackoffInv, BackoffType, WaitInv, CountInv, Delivered
  <2>3. BackoffSteps \in Nat /\ BackoffSteps >= 1 /\ PollTime \in Nat
    BY Numbers
  <2>4. Backoff(BackoffSteps) \in Nat /\ Backoff(restart_count) \in Nat
    BY <2>2, <2>3, BackoffGrows
  <2>5. CASE last_wait = 0
    BY <2>2, <2>4, <2>5 DEF Lesser
  <2>6. CASE restart_count >= 2 /\ last_wait <= Backoff(restart_count - 1) + PollTime
    <3> DEFINE n == restart_count - 1
    <3>1. n \in Nat /\ n >= 1 /\ n + 1 = restart_count
      BY <2>2, <2>6
    <3>2. /\ Backoff(n) \in Nat
          /\ n < BackoffSteps => Backoff(n) + PollTime <= Backoff(n + 1)
      BY <3>1, BackoffGrows
    <3>3. n >= BackoffSteps => Backoff(restart_count) = Backoff(BackoffSteps)
      BY <2>2, <2>3, <3>1, BackoffGrows
    <3> QED
      BY <2>2, <2>3, <2>4, <2>6, <3>1, <3>2, <3>3 DEF Lesser
  <2> QED
    BY <2>2, <2>5, <2>6
<1>2. BackoffInv /\ [Next]_vars =>
        [running' /\ ~running =>
           \/ waited >= Lesser(last_wait, Backoff(BackoffSteps))
           \/ fresh_for >= StableTime]_vars
  BY <1>1
<1> QED
  BY BackoffInit, BackoffStep, <1>2, PTL DEF Spec, BackoffHolds

-----------------------------------------------------------------------------
(* Who owns the memory. *)

SupIds == Supervisors \cup {NoProcess}
WorkerIds == Workers \cup {NoProcess}

OwnerType ==
  /\ pc \in [Supervisors -> Places]
  /\ old_sup \in [Supervisors -> [pid : SupIds, worker_pid : WorkerIds]]
  /\ old_worker \in [Supervisors -> WorkerIds]
  /\ proc \in [Supervisors -> WorkerIds]
  /\ sup \in [odd : BOOLEAN, pid : SupIds, worker_pid : WorkerIds, stop : BOOLEAN]
  /\ wrk \in [odd : BOOLEAN, pid : WorkerIds]
  /\ worker \in [Workers -> {"unused", "started", "open", "writing", "gone"}]
  /\ parent \in [Workers -> SupIds]

\* The memory names this supervisor.
InCharge(s) == pc[s] \in Owning \ {"own"}

\* What a supervisor knows before it has read anything.
UnreadInv ==
  \A s \in Supervisors :
    /\ pc[s] \in {"off", "create", "readSup"} => old_sup[s] = NoSup
    /\ pc[s] \in {"off", "create", "readSup", "readWrk"} => old_worker[s] = NoProcess
    /\ pc[s] \in {"off"} \cup StartingUp => proc[s] = NoProcess

\* A supervisor that starts finds the one in charge, if there is one.
ChargeInv ==
  /\ \A s, t \in Supervisors : pc[s] \in StartingUp /\ pc[t] \in StartingUp => s = t
  /\ \A s \in Supervisors : pc[s] = "own" => ~sup.odd
  /\ \A t \in Supervisors : InCharge(t) =>
       /\ sup.pid = t
       /\ sup.odd <=> pc[t] \in InWrite
       /\ \A s \in Supervisors :
            /\ pc[s] \in {"readWrk", "judge"} => old_sup[s].pid = t
            /\ pc[s] \notin {"zero", "own"}

\* What the supervisor in charge knows and says of its worker.
RecordInv ==
  \A s \in Supervisors :
    /\ pc[s] \in {"announce", "announced", "popen"} => wrk = BlankWrk
    /\ pc[s] \in {"reset", "announce", "announced", "popen"} => proc[s] = NoProcess
    /\ pc[s] \in {"record", "recorded", "watch", "report", "retire"} => proc[s] \in Workers
    /\ pc[s] \in {"watch", "report"} => sup.worker_pid = proc[s]

\* A worker that is alive is the only one.  It is in the hands of the supervisor
\* in charge, or else the memory says who it is, and a supervisor that starts
\* reads it there.
InHand(w) ==
  /\ wrk.odd <=> worker[w] = "writing"
  /\ wrk.pid \in {NoProcess, w}
  /\ \A s \in Supervisors :
       /\ pc[s] \notin {"zero", "own"}
       /\ InCharge(s) =>
            /\ pc[s] \in {"record", "recorded", "watch", "report", "stop", "stopping"}
            /\ parent[w] = s /\ proc[s] = w
            /\ pc[s] = "report" => wrk.pid = w
  /\ (\A s \in Supervisors : ~InCharge(s)) =>
       /\ IF sup.odd THEN wrk.pid = w ELSE sup.worker_pid = w
       /\ \A s \in Supervisors :
            /\ pc[s] = "readWrk" =>
                 \/ old_sup[s].worker_pid = w
                 \/ old_sup[s].worker_pid = NoProcess /\ wrk.pid = w
            /\ pc[s] = "judge" => Orphan(s) = w

HandInv ==
  \A w \in Workers : WorkerAlive(w) =>
    InHand(w) /\ \A v \in Workers : WorkerAlive(v) => v = w

OwnerInv == OwnerType /\ UnreadInv /\ ChargeInv /\ RecordInv /\ HandInv

\* OwnerAssumption: process id 0 is nobody's.
LEMMA ProcessIds == NoProcess \notin Supervisors /\ NoProcess \notin Workers
BY OwnerAssumption

LEMMA OwnerStart == ASSUME OwnerInit PROVE OwnerInv
BY ProcessIds DEF OwnerInit, OwnerInv, OwnerType, UnreadInv, ChargeInv, RecordInv, HandInv, InHand,
   InCharge, WorkerAlive, StartingUp, Owning, InWrite, Places, NoSup, BlankSup, BlankWrk, SupIds, WorkerIds

LEMMA TypeStep ==
  ASSUME OwnerType, OwnerNext
  PROVE  OwnerType'
<1> USE ProcessIds DEF OwnerType, memory, locals, Goto, At, Places, StartingUp, Owning, InWrite, SupIds, WorkerIds, BlankSup, BlankWrk, NoSup
<1>1. ASSUME NEW s \in Supervisors, start(s) PROVE OwnerType'
  BY <1>1 DEF start
<1>2. ASSUME NEW s \in Supervisors, create(s) PROVE OwnerType'
  BY <1>2 DEF create
<1>3. ASSUME NEW s \in Supervisors, readSup(s) PROVE OwnerType'
  BY <1>3 DEF readSup, SupUnreadable
<1>4. ASSUME NEW s \in Supervisors, readWrk(s) PROVE OwnerType'
  BY <1>4 DEF readWrk, WrkUnreadable
<1>5. ASSUME NEW s \in Supervisors, refuse(s) PROVE OwnerType'
  BY <1>5 DEF refuse
<1>6. ASSUME NEW s \in Supervisors, takeOver(s) PROVE OwnerType'
  BY <1>6 DEF takeOver, Orphan
<1>7. ASSUME NEW s \in Supervisors, zero(s) PROVE OwnerType'
  BY <1>7 DEF zero
<1>8. ASSUME NEW s \in Supervisors, own(s) PROVE OwnerType'
  BY <1>8 DEF own
<1>9. ASSUME NEW s \in Supervisors, reset(s) PROVE OwnerType'
  BY <1>9 DEF reset
<1>10. ASSUME NEW s \in Supervisors, announce(s) PROVE OwnerType'
  BY <1>10 DEF announce, BeginWrite
<1>11. ASSUME NEW s \in Supervisors, announced(s) PROVE OwnerType'
  BY <1>11 DEF announced, EndWrite
<1>12. ASSUME NEW s \in Supervisors, popen(s) PROVE OwnerType'
  BY <1>12 DEF popen
<1>13. ASSUME NEW s \in Supervisors, record(s) PROVE OwnerType'
  BY <1>13 DEF record, BeginWrite
<1>14. ASSUME NEW s \in Supervisors, recorded(s) PROVE OwnerType'
  BY <1>14 DEF recorded, EndWrite
<1>15. ASSUME NEW s \in Supervisors, beginReport(s) PROVE OwnerType'
  BY <1>15 DEF beginReport, BeginWrite
<1>16. ASSUME NEW s \in Supervisors, report(s) PROVE OwnerType'
  BY <1>16 DEF report, EndWrite
<1>17. ASSUME NEW s \in Supervisors, scheduleRestart(s) PROVE OwnerType'
  BY <1>17 DEF scheduleRestart, BeginWrite, Terminated
<1>18. ASSUME NEW s \in Supervisors, retire(s) PROVE OwnerType'
  BY <1>18 DEF retire, EndWrite
<1>19. ASSUME NEW s \in Supervisors, interrupt(s) PROVE OwnerType'
  BY <1>19 DEF interrupt, BeginWrite
<1>20. ASSUME NEW s \in Supervisors, stop(s) PROVE OwnerType'
  BY <1>20 DEF stop, EndWrite
<1>21. ASSUME NEW s \in Supervisors, stopping(s) PROVE OwnerType'
  BY <1>21 DEF stopping, BeginWrite, Terminated
<1>22. ASSUME NEW s \in Supervisors, leave(s) PROVE OwnerType'
  BY <1>22 DEF leave, EndWrite
<1>23. ASSUME NEW s \in Supervisors, kill(s) PROVE OwnerType'
  BY <1>23 DEF kill
<1>24. ASSUME NEW w \in Workers, attach(w) PROVE OwnerType'
  BY <1>24 DEF attach
<1>25. ASSUME NEW w \in Workers, beginWorkerWrite(w) PROVE OwnerType'
  BY <1>25 DEF beginWorkerWrite
<1>26. ASSUME NEW w \in Workers, endWorkerWrite(w) PROVE OwnerType'
  BY <1>26 DEF endWorkerWrite
<1>27. ASSUME NEW w \in Workers, workerExits(w) PROVE OwnerType'
  BY <1>27 DEF workerExits, Terminated
<1> QED
  BY <1>1, <1>2, <1>3, <1>4, <1>5, <1>6, <1>7, <1>8, <1>9, <1>10, <1>11, <1>12, <1>13, <1>14, <1>15, <1>16, <1>17, <1>18, <1>19, <1>20, <1>21, <1>22, <1>23, <1>24, <1>25, <1>26, <1>27
     DEF OwnerNext, StartUp, Own, OwnedWorker

LEMMA UnreadStep ==
  ASSUME OwnerType, UnreadInv, OwnerNext
  PROVE  UnreadInv'
<1> USE ProcessIds DEF OwnerType, UnreadInv, memory, locals, Goto, At, Places, StartingUp, Owning, InWrite
<1>1. ASSUME NEW s \in Supervisors, start(s) PROVE UnreadInv'
  BY <1>1 DEF start
<1>2. ASSUME NEW s \in Supervisors, create(s) PROVE UnreadInv'
  BY <1>2 DEF create
<1>3. ASSUME NEW s \in Supervisors, readSup(s) PROVE UnreadInv'
  BY <1>3 DEF readSup, SupUnreadable
<1>4. ASSUME NEW s \in Supervisors, readWrk(s) PROVE UnreadInv'
  BY <1>4 DEF readWrk, WrkUnreadable
<1>5. ASSUME NEW s \in Supervisors, refuse(s) PROVE UnreadInv'
  BY <1>5 DEF refuse
<1>6. ASSUME NEW s \in Supervisors, takeOver(s) PROVE UnreadInv'
  BY <1>6 DEF takeOver
<1>7. ASSUME NEW s \in Supervisors, zero(s) PROVE UnreadInv'
  BY <1>7 DEF zero
<1>8. ASSUME NEW s \in Supervisors, own(s) PROVE UnreadInv'
  BY <1>8 DEF own
<1>9. ASSUME NEW s \in Supervisors, reset(s) PROVE UnreadInv'
  BY <1>9 DEF reset
<1>10. ASSUME NEW s \in Supervisors, announce(s) PROVE UnreadInv'
  BY <1>10 DEF announce, BeginWrite
<1>11. ASSUME NEW s \in Supervisors, announced(s) PROVE UnreadInv'
  BY <1>11 DEF announced, EndWrite
<1>12. ASSUME NEW s \in Supervisors, popen(s) PROVE UnreadInv'
  BY <1>12 DEF popen
<1>13. ASSUME NEW s \in Supervisors, record(s) PROVE UnreadInv'
  BY <1>13 DEF record, BeginWrite
<1>14. ASSUME NEW s \in Supervisors, recorded(s) PROVE UnreadInv'
  BY <1>14 DEF recorded, EndWrite
<1>15. ASSUME NEW s \in Supervisors, beginReport(s) PROVE UnreadInv'
  BY <1>15 DEF beginReport, BeginWrite
<1>16. ASSUME NEW s \in Supervisors, report(s) PROVE UnreadInv'
  BY <1>16 DEF report, EndWrite
<1>17. ASSUME NEW s \in Supervisors, scheduleRestart(s) PROVE UnreadInv'
  BY <1>17 DEF scheduleRestart, BeginWrite, Terminated
<1>18. ASSUME NEW s \in Supervisors, retire(s) PROVE UnreadInv'
  BY <1>18 DEF retire, EndWrite
<1>19. ASSUME NEW s \in Supervisors, interrupt(s) PROVE UnreadInv'
  BY <1>19 DEF interrupt, BeginWrite
<1>20. ASSUME NEW s \in Supervisors, stop(s) PROVE UnreadInv'
  BY <1>20 DEF stop, EndWrite
<1>21. ASSUME NEW s \in Supervisors, stopping(s) PROVE UnreadInv'
  BY <1>21 DEF stopping, BeginWrite, Terminated
<1>22. ASSUME NEW s \in Supervisors, leave(s) PROVE UnreadInv'
  BY <1>22 DEF leave, EndWrite
<1>23. ASSUME NEW s \in Supervisors, kill(s) PROVE UnreadInv'
  BY <1>23 DEF kill
<1>24. ASSUME NEW w \in Workers, attach(w) PROVE UnreadInv'
  BY <1>24 DEF attach
<1>25. ASSUME NEW w \in Workers, beginWorkerWrite(w) PROVE UnreadInv'
  BY <1>25 DEF beginWorkerWrite
<1>26. ASSUME NEW w \in Workers, endWorkerWrite(w) PROVE UnreadInv'
  BY <1>26 DEF endWorkerWrite
<1>27. ASSUME NEW w \in Workers, workerExits(w) PROVE UnreadInv'
  BY <1>27 DEF workerExits, Terminated
<1> QED
  BY <1>1, <1>2, <1>3, <1>4, <1>5, <1>6, <1>7, <1>8, <1>9, <1>10, <1>11, <1>12, <1>13, <1>14, <1>15, <1>16, <1>17, <1>18, <1>19, <1>20, <1>21, <1>22, <1>23, <1>24, <1>25, <1>26, <1>27
     DEF OwnerNext, StartUp, Own, OwnedWorker

LEMMA ChargeStep ==
  ASSUME Orderly, OwnerType, UnreadInv, ChargeInv, OwnerNext
  PROVE  ChargeInv'
<1> USE ProcessIds DEF Orderly, OwnerType, ChargeInv, InCharge, SupAlive, memory, locals, Goto, At, Places, StartingUp, Owning, InWrite
<1>1. ASSUME NEW s \in Supervisors, start(s) PROVE ChargeInv'
  BY <1>1 DEF start
<1>2. ASSUME NEW s \in Supervisors, create(s) PROVE ChargeInv'
  BY <1>2 DEF create
<1>3. ASSUME NEW s \in Supervisors, readSup(s) PROVE ChargeInv'
  BY <1>3 DEF readSup, SupUnreadable
<1>4. ASSUME NEW s \in Supervisors, readWrk(s) PROVE ChargeInv'
  BY <1>4 DEF readWrk, WrkUnreadable
<1>5. ASSUME NEW s \in Supervisors, refuse(s) PROVE ChargeInv'
  BY <1>5 DEF refuse
<1>6. ASSUME NEW s \in Supervisors, takeOver(s) PROVE ChargeInv'
  BY <1>6 DEF takeOver
<1>7. ASSUME NEW s \in Supervisors, zero(s) PROVE ChargeInv'
  BY <1>7 DEF zero, BlankSup
<1>8. ASSUME NEW s \in Supervisors, own(s) PROVE ChargeInv'
  BY <1>8 DEF own
<1>9. ASSUME NEW s \in Supervisors, reset(s) PROVE ChargeInv'
  BY <1>9 DEF reset
<1>10. ASSUME NEW s \in Supervisors, announce(s) PROVE ChargeInv'
  BY <1>10 DEF announce, BeginWrite
<1>11. ASSUME NEW s \in Supervisors, announced(s) PROVE ChargeInv'
  BY <1>11 DEF announced, EndWrite
<1>12. ASSUME NEW s \in Supervisors, popen(s) PROVE ChargeInv'
  BY <1>12 DEF popen
<1>13. ASSUME NEW s \in Supervisors, record(s) PROVE ChargeInv'
  BY <1>13 DEF record, BeginWrite
<1>14. ASSUME NEW s \in Supervisors, recorded(s) PROVE ChargeInv'
  BY <1>14 DEF recorded, EndWrite
<1>15. ASSUME NEW s \in Supervisors, beginReport(s) PROVE ChargeInv'
  BY <1>15 DEF beginReport, BeginWrite
<1>16. ASSUME NEW s \in Supervisors, report(s) PROVE ChargeInv'
  BY <1>16 DEF report, EndWrite
<1>17. ASSUME NEW s \in Supervisors, scheduleRestart(s) PROVE ChargeInv'
  BY <1>17 DEF scheduleRestart, BeginWrite, Terminated
<1>18. ASSUME NEW s \in Supervisors, retire(s) PROVE ChargeInv'
  BY <1>18 DEF retire, EndWrite
<1>19. ASSUME NEW s \in Supervisors, interrupt(s) PROVE ChargeInv'
  BY <1>19 DEF interrupt, BeginWrite
<1>20. ASSUME NEW s \in Supervisors, stop(s) PROVE ChargeInv'
  BY <1>20 DEF stop, EndWrite
<1>21. ASSUME NEW s \in Supervisors, stopping(s) PROVE ChargeInv'
  BY <1>21 DEF stopping, BeginWrite, Terminated
<1>22. ASSUME NEW s \in Supervisors, leave(s) PROVE ChargeInv'
  BY <1>22 DEF leave, EndWrite
<1>23. ASSUME NEW s \in Supervisors, kill(s) PROVE ChargeInv'
  BY <1>23 DEF kill
<1>24. ASSUME NEW w \in Workers, attach(w) PROVE ChargeInv'
  BY <1>24 DEF attach
<1>25. ASSUME NEW w \in Workers, beginWorkerWrite(w) PROVE ChargeInv'
  BY <1>25 DEF beginWorkerWrite
<1>26. ASSUME NEW w \in Workers, endWorkerWrite(w) PROVE ChargeInv'
  BY <1>26 DEF endWorkerWrite
<1>27. ASSUME NEW w \in Workers, workerExits(w) PROVE ChargeInv'
  BY <1>27 DEF workerExits, Terminated
<1> QED
  BY <1>1, <1>2, <1>3, <1>4, <1>5, <1>6, <1>7, <1>8, <1>9, <1>10, <1>11, <1>12, <1>13, <1>14, <1>15, <1>16, <1>17, <1>18, <1>19, <1>20, <1>21, <1>22, <1>23, <1>24, <1>25, <1>26, <1>27
     DEF OwnerNext, StartUp, Own, OwnedWorker

LEMMA RecordStep ==
  ASSUME Orderly, OwnerInv, OwnerNext
  PROVE  RecordInv'
<1> USE ProcessIds DEF OwnerInv, OwnerType, UnreadInv, ChargeInv, RecordInv, InCharge, BlankWrk, memory, locals, Goto, At, Places, StartingUp, Owning, InWrite
<1>1. ASSUME NEW s \in Supervisors, start(s) PROVE RecordInv'
  BY <1>1 DEF start
<1>2. ASSUME NEW s \in Supervisors, create(s) PROVE RecordInv'
  BY <1>2 DEF create
<1>3. ASSUME NEW s \in Supervisors, readSup(s) PROVE RecordInv'
  BY <1>3 DEF readSup, SupUnreadable
<1>4. ASSUME NEW s \in Supervisors, readWrk(s) PROVE RecordInv'
  BY <1>4 DEF readWrk, WrkUnreadable
<1>5. ASSUME NEW s \in Supervisors, refuse(s) PROVE RecordInv'
  BY <1>5 DEF refuse
<1>6. ASSUME NEW s \in Supervisors, takeOver(s) PROVE RecordInv'
  BY <1>6 DEF takeOver
<1>7. ASSUME NEW s \in Supervisors, zero(s) PROVE RecordInv'
  BY <1>7 DEF zero, BlankSup
<1>8. ASSUME NEW s \in Supervisors, own(s) PROVE RecordInv'
  BY <1>8 DEF own
<1>9. ASSUME NEW s \in Supervisors, reset(s) PROVE RecordInv'
  BY <1>9 DEF reset
<1>10. ASSUME NEW s \in Supervisors, announce(s) PROVE RecordInv'
  BY <1>10 DEF announce, BeginWrite
<1>11. ASSUME NEW s \in Supervisors, announced(s) PROVE RecordInv'
  BY <1>11 DEF announced, EndWrite
<1>12. ASSUME NEW s \in Supervisors, popen(s) PROVE RecordInv'
  BY <1>12 DEF popen
<1>13. ASSUME NEW s \in Supervisors, record(s) PROVE RecordInv'
  BY <1>13 DEF record, BeginWrite
<1>14. ASSUME NEW s \in Supervisors, recorded(s) PROVE RecordInv'
  BY <1>14 DEF recorded, EndWrite
<1>15. ASSUME NEW s \in Supervisors, beginReport(s) PROVE RecordInv'
  BY <1>15 DEF beginReport, BeginWrite
<1>16. ASSUME NEW s \in Supervisors, report(s) PROVE RecordInv'
  BY <1>16 DEF report, EndWrite
<1>17. ASSUME NEW s \in Supervisors, scheduleRestart(s) PROVE RecordInv'
  BY <1>17 DEF scheduleRestart, BeginWrite, Terminated
<1>18. ASSUME NEW s \in Supervisors, retire(s) PROVE RecordInv'
  BY <1>18 DEF retire, EndWrite
<1>19. ASSUME NEW s \in Supervisors, interrupt(s) PROVE RecordInv'
  BY <1>19 DEF interrupt, BeginWrite
<1>20. ASSUME NEW s \in Supervisors, stop(s) PROVE RecordInv'
  BY <1>20 DEF stop, EndWrite
<1>21. ASSUME NEW s \in Supervisors, stopping(s) PROVE RecordInv'
  BY <1>21 DEF stopping, BeginWrite, Terminated
<1>22. ASSUME NEW s \in Supervisors, leave(s) PROVE RecordInv'
  BY <1>22 DEF leave, EndWrite
<1>23. ASSUME NEW s \in Supervisors, kill(s) PROVE RecordInv'
  BY <1>23 DEF kill
<1>24. ASSUME NEW w \in Workers, attach(w) PROVE RecordInv'
  BY <1>24 DEF attach
<1>25. ASSUME NEW w \in Workers, beginWorkerWrite(w) PROVE RecordInv'
  BY <1>25 DEF beginWorkerWrite, HandInv, InHand, WorkerAlive
<1>26. ASSUME NEW w \in Workers, endWorkerWrite(w) PROVE RecordInv'
  BY <1>26 DEF endWorkerWrite, HandInv, InHand, WorkerAlive
<1>27. ASSUME NEW w \in Workers, workerExits(w) PROVE RecordInv'
  BY <1>27 DEF workerExits, Terminated
<1> QED
  BY <1>1, <1>2, <1>3, <1>4, <1>5, <1>6, <1>7, <1>8, <1>9, <1>10, <1>11, <1>12, <1>13, <1>14, <1>15, <1>16, <1>17, <1>18, <1>19, <1>20, <1>21, <1>22, <1>23, <1>24, <1>25, <1>26, <1>27
     DEF OwnerNext, StartUp, Own, OwnedWorker

LEMMA HandStep ==
  ASSUME Orderly, OwnerInv, OwnerNext
  PROVE  HandInv'
<1> USE ProcessIds DEF Orderly, OwnerInv, OwnerType, UnreadInv, ChargeInv, RecordInv, HandInv, InHand, InCharge, WorkerAlive, SupAlive, memory, locals, Goto, At, Places, StartingUp, Owning, InWrite
<1>1. ASSUME NEW s \in Supervisors, start(s) PROVE HandInv'
  BY <1>1 DEF start
<1>2. ASSUME NEW s \in Supervisors, create(s) PROVE HandInv'
  BY <1>2 DEF create
<1>3. ASSUME NEW s \in Supervisors, readSup(s) PROVE HandInv'
  <2>1. CASE \E t \in Supervisors : InCharge(t)
    BY <1>3, <2>1 DEF readSup
  <2>2. CASE \A t \in Supervisors : ~InCharge(t)
    <3>1. old_sup[s] = NoSup
      BY <1>3 DEF readSup
    <3>2. /\ \/ ~sup.odd /\ old_sup'[s].worker_pid = sup.worker_pid
             \/ sup.odd /\ old_sup'[s].worker_pid = NoProcess
          /\ \A t \in Supervisors \ {s} : pc'[t] = pc[t] /\ pc[t] \notin StartingUp
      BY <1>3, <3>1 DEF readSup, SupUnreadable, NoSup
    <3> QED
      BY <1>3, <2>2, <3>2 DEF readSup
  <2> QED
    BY <2>1, <2>2
<1>4. ASSUME NEW s \in Supervisors, readWrk(s) PROVE HandInv'
  BY <1>4 DEF readWrk, WrkUnreadable, Orphan
<1>5. ASSUME NEW s \in Supervisors, refuse(s) PROVE HandInv'
  BY <1>5 DEF refuse, Orphan
<1>6. ASSUME NEW s \in Supervisors, takeOver(s) PROVE HandInv'
  BY <1>6 DEF takeOver, Orphan
<1>7. ASSUME NEW s \in Supervisors, zero(s) PROVE HandInv'
  BY <1>7 DEF zero, BlankSup, BlankWrk
<1>8. ASSUME NEW s \in Supervisors, own(s) PROVE HandInv'
  BY <1>8 DEF own
<1>9. ASSUME NEW s \in Supervisors, reset(s) PROVE HandInv'
  BY <1>9 DEF reset, BlankWrk
<1>10. ASSUME NEW s \in Supervisors, announce(s) PROVE HandInv'
  BY <1>10 DEF announce, BeginWrite
<1>11. ASSUME NEW s \in Supervisors, announced(s) PROVE HandInv'
  BY <1>11 DEF announced, EndWrite
<1>12. ASSUME NEW s \in Supervisors, popen(s) PROVE HandInv'
  BY <1>12 DEF popen, BlankWrk
<1>13. ASSUME NEW s \in Supervisors, record(s) PROVE HandInv'
  BY <1>13 DEF record, BeginWrite
<1>14. ASSUME NEW s \in Supervisors, recorded(s) PROVE HandInv'
  BY <1>14 DEF recorded, EndWrite
<1>15. ASSUME NEW s \in Supervisors, beginReport(s) PROVE HandInv'
  BY <1>15 DEF beginReport, BeginWrite
<1>16. ASSUME NEW s \in Supervisors, report(s) PROVE HandInv'
  BY <1>16 DEF report, EndWrite
<1>17. ASSUME NEW s \in Supervisors, scheduleRestart(s) PROVE HandInv'
  BY <1>17 DEF scheduleRestart, BeginWrite, Terminated
<1>18. ASSUME NEW s \in Supervisors, retire(s) PROVE HandInv'
  BY <1>18 DEF retire, EndWrite
<1>19. ASSUME NEW s \in Supervisors, interrupt(s) PROVE HandInv'
  BY <1>19 DEF interrupt, BeginWrite
<1>20. ASSUME NEW s \in Supervisors, stop(s) PROVE HandInv'
  BY <1>20 DEF stop, EndWrite
<1>21. ASSUME NEW s \in Supervisors, stopping(s) PROVE HandInv'
  BY <1>21 DEF stopping, BeginWrite, Terminated
<1>22. ASSUME NEW s \in Supervisors, leave(s) PROVE HandInv'
  BY <1>22 DEF leave, EndWrite
<1>23. ASSUME NEW s \in Supervisors, kill(s) PROVE HandInv'
  BY <1>23 DEF kill
<1>24. ASSUME NEW w \in Workers, attach(w) PROVE HandInv'
  <2>1. InHand(w) /\ \A v \in Workers : WorkerAlive(v)' => v = w
    BY <1>24 DEF attach
  <2>2. InHand(w)'
    BY <2>1, <1>24 DEF attach, Orphan
  <2> QED
    BY <2>1, <2>2
<1>25. ASSUME NEW w \in Workers, beginWorkerWrite(w) PROVE HandInv'
  <2>1. InHand(w) /\ \A v \in Workers : WorkerAlive(v)' => v = w
    BY <1>25 DEF beginWorkerWrite
  <2>2. InHand(w)'
    BY <2>1, <1>25 DEF beginWorkerWrite, Orphan
  <2> QED
    BY <2>1, <2>2
<1>26. ASSUME NEW w \in Workers, endWorkerWrite(w) PROVE HandInv'
  <2>1. InHand(w) /\ \A v \in Workers : WorkerAlive(v)' => v = w
    BY <1>26 DEF endWorkerWrite
  <2>2. InHand(w)'
    BY <2>1, <1>26 DEF endWorkerWrite, Orphan
  <2> QED
    BY <2>1, <2>2
<1>27. ASSUME NEW w \in Workers, workerExits(w) PROVE HandInv'
  BY <1>27 DEF workerExits, Terminated
<1> QED
  BY <1>1, <1>2, <1>3, <1>4, <1>5, <1>6, <1>7, <1>8, <1>9, <1>10, <1>11, <1>12, <1>13, <1>14, <1>15, <1>16, <1>17, <1>18, <1>19, <1>20, <1>21, <1>22, <1>23, <1>24, <1>25, <1>26, <1>27
     DEF OwnerNext, StartUp, Own, OwnedWorker

\* Everything the supervisors and the memory say of each other.
THEOREM OwnerInvHolds == ASSUME Orderly PROVE OwnerSpec => []OwnerInv
<1>1. OwnerInv /\ [OwnerNext]_ownerVars => OwnerInv'
  <2>1. OwnerInv /\ OwnerNext => OwnerInv'
    BY TypeStep, UnreadStep, ChargeStep, RecordStep, HandStep DEF OwnerInv
  <2>2. OwnerInv /\ UNCHANGED ownerVars => OwnerInv'
    BY DEF ownerVars, memory, locals, OwnerInv, OwnerType, UnreadInv, ChargeInv, RecordInv,
       HandInv, InHand, InCharge, WorkerAlive, Orphan
  <2> QED
    BY <2>1, <2>2
<1> QED
  BY OwnerStart, <1>1, PTL DEF OwnerSpec

\* OneSupervisor, "live supervisor already owns" (hp60c_supervisor_v13.py:98): for
\* any number of supervisors that start one after the other, are killed, refused,
\* interrupted and started again, no two of them write the memory side by side.
THEOREM SupervisorIsAlone == ASSUME Orderly PROVE OwnerSpec => []OneSupervisor
<1>1. OwnerInv => OneSupervisor
  BY DEF OwnerInv, ChargeInv, InCharge, OneSupervisor, StartingUp, Owning
<1> QED
  BY OwnerInvHolds, <1>1, PTL

\* OneWriter, "Orphaned worker from a dead supervisor must not keep writing into a
\* reused named mapping" (hp60c_supervisor_v13.py:104-105): for any number of
\* supervisors and workers, wherever an owner is killed, its worker is terminated
\* before another owner zeroes the memory.
THEOREM WriterIsAlone == ASSUME Orderly PROVE OwnerSpec => []OneWriter
<1>1. OwnerInv => OneWriter
  BY DEF OwnerInv, HandInv, InHand, InCharge, OneWriter, Owning
<1> QED
  BY OwnerInvHolds, <1>1, PTL
=============================================================================
