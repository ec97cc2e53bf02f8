---------------------------- MODULE CameraSource ----------------------------
(***************************************************************************)
(* HP60CSource of studio/sources.py over shared memory: the Studio's hold  *)
(* on the camera.  Three threads work on one kept reader (impl) under a    *)
(* lock that covers only the assignments: the GUI thread polls it and ends *)
(* it, the reconnect thread replaces a reader without frames and starts    *)
(* the camera's supervisor, and a request of the agent server replaces it  *)
(* at once.                                                                *)
(*                                                                         *)
(* External: the camera pipeline, which is the supervisor with its worker. *)
(* It feeds frames into the memory; a new pipeline takes over memory that  *)
(* exists (ShmOwner), and memory exists while a pipeline or an attached    *)
(* reader has it open.  Time is abstract: a deadline has passed or not.    *)
(***************************************************************************)
EXTENDS Naturals, FiniteSets

CONSTANTS
  Readers,         (* Reader objects, used again after they were closed *)
  NoReader,
  PollErrorLimit,  (* POLL_ERROR_LIMIT *)
  MaxFailures,     (* bound: failures of the pipeline, a reader or an attempt *)
  MaxRequests      (* bound: requests of the agent, and stalls of the GUI *)

ASSUME CameraAssumption ==
  /\ NoReader \notin Readers
  /\ PollErrorLimit \in Nat \ {0}
  /\ MaxFailures \in Nat
  /\ MaxRequests \in Nat

Threads == {"gui", "reconnect", "agent"}

VARIABLES
  impl,            (* the kept reader *)
  poll_errors,     (* _poll_errors, up to the limit *)
  overdue,         (* no new frame for STALE_RECONNECT_S *)
  attempt_due,     (* _next_attempt has passed *)
  stop,            (* _stop is set *)
  at,              (* where each thread is *)
  hand,            (* the reader in a local variable of each thread *)
  polled,          (* what the poll in progress got *)
  supervisor,      (* _supervisor: "none", or its process "running" or "exited" *)
  start_due,       (* _supervisor_next_start has passed *)
  opened,          (* readers not closed *)
  attached,        (* readers with the memory open *)
  failing,         (* readers that raise *)
  pipeline,        (* the one that owns the memory: "none", "ours", "foreign" *)
  feed,            (* frames arrive in the memory *)
  failures, requests,
  cut              (* threads in the middle of something when close() had waited for them *)

lockedVars == <<impl, poll_errors, overdue, attempt_due>>
readerVars == <<opened, attached, failing>>
pipelineVars == <<pipeline, feed>>
supervisorVars == <<supervisor, start_due>>
countVars == <<failures, requests>>
cameraVars == <<lockedVars, stop, at, hand, polled, supervisorVars, readerVars,
                pipelineVars, countVars, cut>>

\* main.py: the window is being built and about to start the source.
CameraInit ==
  /\ impl = NoReader /\ poll_errors = 0 /\ overdue = FALSE /\ attempt_due = TRUE
  /\ stop = FALSE
  /\ at = [t \in Threads |-> IF t = "gui" THEN "testStop" ELSE "off"]
  /\ hand = [t \in Threads |-> NoReader]
  /\ polled = "none"
  /\ supervisor = "none" /\ start_due = FALSE
  /\ opened = {} /\ attached = {} /\ failing = {}
  /\ pipeline = "none" /\ feed = FALSE
  /\ failures = 0 /\ requests = 0
  /\ cut = {}

\* --camera-backend none: start() returns at once.
CameraDisabled ==
  /\ impl = NoReader /\ poll_errors = 0 /\ overdue = FALSE /\ attempt_due = TRUE
  /\ stop = TRUE
  /\ at = [t \in Threads |-> "off"]
  /\ hand = [t \in Threads |-> NoReader]
  /\ polled = "none"
  /\ supervisor = "none" /\ start_due = TRUE
  /\ opened = {} /\ attached = {} /\ failing = {}
  /\ pipeline = "none" /\ feed = FALSE
  /\ failures = 0 /\ requests = 0
  /\ cut = {}

Go(t, from, to) == at[t] = from /\ at' = [at EXCEPT ![t] = to]

\* What _connect() returns to: start(), the reconnect loop, reconnect_now().
Caller(t) ==
  CASE t = "gui" -> "startThread" [] t = "reconnect" -> "ensure" [] t = "agent" -> "off"

MemoryExists == pipeline # "none" \/ attached # {}

\* A Reader object nobody refers to.
Unused == {r \in Readers : r \notin opened /\ \A t \in Threads : hand[t] # r}

Delivering == impl \in attached /\ impl \notin failing /\ feed
-----------------------------------------------------------------------------
(* _connect(), in any of the three threads. *)

\* Faulty variant: _connect() goes on after close().
testStopNever(t) ==
  /\ Go(t, "testStop", "testImpl")
  /\ UNCHANGED <<lockedVars, stop, hand, polled, supervisorVars, readerVars,
                 pipelineVars, countVars, cut>>

testStop(t) ==
  /\ \/ stop /\ Go(t, "testStop", Caller(t))
     \/ ~stop /\ Go(t, "testStop", "testImpl")
  /\ UNCHANGED <<lockedVars, stop, hand, polled, supervisorVars, readerVars,
                 pipelineVars, countVars, cut>>

testImpl(t) ==
  /\ \/ impl # NoReader /\ Go(t, "testImpl", Caller(t))
     \/ impl = NoReader /\ Go(t, "testImpl", "make")
  /\ UNCHANGED <<lockedVars, stop, hand, polled, supervisorVars, readerVars,
                 pipelineVars, countVars, cut>>

\* _make_impl(), outside the lock: a Reader, attached if there is memory.
make(t) ==
  /\ Go(t, "make", "store")
  /\ Unused # {}
  /\ LET r == CHOOSE r \in Unused : TRUE
     IN  /\ hand' = [hand EXCEPT ![t] = r]
         /\ opened' = opened \cup {r}
         /\ attached' = IF MemoryExists THEN attached \cup {r} ELSE attached
  /\ UNCHANGED <<lockedVars, stop, polled, supervisorVars, failing, pipelineVars,
                 countVars, cut>>

makeFails(t) ==
  /\ failures < MaxFailures
  /\ failures' = failures + 1
  /\ Go(t, "make", Caller(t))
  /\ attempt_due' = FALSE
  /\ UNCHANGED <<impl, poll_errors, overdue, stop, hand, polled, supervisorVars,
                 readerVars, pipelineVars, requests, cut>>

Close(r) ==
  /\ opened' = opened \ {r}
  /\ attached' = attached \ {r}
  /\ failing' = failing \ {r}

\* Faulty variant: whatever another thread stored meanwhile is overwritten.
storeOver(t) ==
  /\ Go(t, "store", Caller(t))
  /\ hand' = [hand EXCEPT ![t] = NoReader]
  /\ impl' = hand[t] /\ poll_errors' = 0 /\ overdue' = FALSE /\ attempt_due' = TRUE
  /\ UNCHANGED <<stop, polled, supervisorVars, readerVars, pipelineVars, countVars, cut>>

\* Under the lock again: keep it, or close it when another thread was first.
store(t) ==
  /\ Go(t, "store", Caller(t))
  /\ hand' = [hand EXCEPT ![t] = NoReader]
  /\ \/ /\ impl # NoReader
        /\ Close(hand[t])
        /\ UNCHANGED lockedVars
     \/ /\ impl = NoReader
        /\ impl' = hand[t] /\ poll_errors' = 0 /\ overdue' = FALSE /\ attempt_due' = TRUE
        /\ UNCHANGED readerVars
  /\ UNCHANGED <<stop, polled, supervisorVars, pipelineVars, countVars, cut>>

Connect(t) == testStop(t) \/ testImpl(t) \/ make(t) \/ makeFails(t) \/ store(t)
-----------------------------------------------------------------------------
(* _drop(): take it under the lock, close it outside. *)

drop(t) ==
  /\ Go(t, "drop", "dropClose")
  /\ hand' = [hand EXCEPT ![t] = impl]
  /\ impl' = NoReader /\ poll_errors' = 0 /\ overdue' = FALSE /\ attempt_due' = TRUE
  /\ UNCHANGED <<stop, polled, supervisorVars, readerVars, pipelineVars, countVars, cut>>

dropClose(t) ==
  /\ Go(t, "dropClose", IF t = "reconnect" THEN "look" ELSE "testStop")
  /\ Close(hand[t])
  /\ hand' = [hand EXCEPT ![t] = NoReader]
  /\ UNCHANGED <<lockedVars, stop, polled, supervisorVars, pipelineVars, countVars, cut>>

Drop(t) == drop(t) \/ dropClose(t)
-----------------------------------------------------------------------------
(* _reconnect_loop(). *)

tick ==
  /\ \/ stop /\ Go("reconnect", "tick", "off")
     \/ ~stop /\ Go("reconnect", "tick", "judge")
  /\ UNCHANGED <<lockedVars, stop, hand, polled, supervisorVars, readerVars,
                 pipelineVars, countVars, cut>>

\* Faulty variant: a reader is given up for its errors only.
ImplDeadByErrors == impl # NoReader /\ poll_errors >= PollErrorLimit

\* _impl_dead(): a Reader without memory is left to attach by itself.
ImplDead ==
  /\ impl # NoReader
  /\ poll_errors >= PollErrorLimit \/ (overdue /\ impl \in attached)

judge ==
  /\ \/ ImplDead /\ Go("reconnect", "judge", "drop")
     \/ ~ImplDead /\ Go("reconnect", "judge", "look")
  /\ UNCHANGED <<lockedVars, stop, hand, polled, supervisorVars, readerVars,
                 pipelineVars, countVars, cut>>

look ==
  /\ \/ impl = NoReader /\ attempt_due /\ Go("reconnect", "look", "testStop")
     \/ ~(impl = NoReader /\ attempt_due) /\ Go("reconnect", "look", "ensure")
  /\ UNCHANGED <<lockedVars, stop, hand, polled, supervisorVars, readerVars,
                 pipelineVars, countVars, cut>>

\* _ensure_supervisor(): a supervisor runs; ours has ended, to be started again
\* later; the memory is there already; it is not time yet; look for another one.
ensure ==
  /\ \/ /\ supervisor = "exited"
        /\ supervisor' = "none"
        /\ start_due' = FALSE
        /\ Go("reconnect", "ensure", "tick")
     \/ /\ \/ supervisor = "running"
           \/ supervisor = "none" /\ (impl \in attached \/ ~start_due)
        /\ Go("reconnect", "ensure", "tick")
        /\ UNCHANGED supervisorVars
     \/ /\ supervisor = "none" /\ impl \notin attached /\ start_due
        /\ Go("reconnect", "ensure", "probe")
        /\ UNCHANGED supervisorVars
  /\ UNCHANGED <<lockedVars, stop, hand, polled, readerVars, pipelineVars, countVars, cut>>

\* _supervisor_process_running(): five seconds at most; a failure says no.
probe ==
  /\ \/ /\ pipeline = "foreign"
        /\ start_due' = FALSE
        /\ Go("reconnect", "probe", "tick")
     \/ /\ pipeline = "foreign" => failures < MaxFailures
        /\ Go("reconnect", "probe", "spawn")
        /\ UNCHANGED start_due
  /\ UNCHANGED <<lockedVars, stop, hand, polled, supervisor, readerVars, pipelineVars,
                 countVars, cut>>

\* _spawn_supervisor(): the process is started, or Popen() raises.
spawn ==
  /\ Go("reconnect", "spawn", "tick")
  /\ start_due' = FALSE
  /\ \/ supervisor' = "running" /\ UNCHANGED failures
     \/ failures < MaxFailures /\ failures' = failures + 1 /\ UNCHANGED supervisor
  /\ UNCHANGED <<lockedVars, stop, hand, polled, readerVars, pipelineVars, requests, cut>>

Reconnect ==
  tick \/ judge \/ Drop("reconnect") \/ look \/ Connect("reconnect")
    \/ ensure \/ probe \/ spawn
-----------------------------------------------------------------------------
(* The GUI thread: start(), poll() sixty times a second, close(). *)

startThread ==
  /\ at["gui"] = "startThread"
  /\ at' = [at EXCEPT !["gui"] = "poll", !["reconnect"] = "tick"]
  /\ start_due' = FALSE
  /\ UNCHANGED <<lockedVars, stop, hand, polled, supervisor, readerVars, pipelineVars,
                 countVars, cut>>

pollTake ==
  /\ impl # NoReader
  /\ Go("gui", "poll", "read")
  /\ hand' = [hand EXCEPT !["gui"] = impl]
  /\ UNCHANGED <<lockedVars, stop, polled, supervisorVars, readerVars, pipelineVars,
                 countVars, cut>>

\* try_get_latest(): attach if need be.  A reader that was closed meanwhile
\* raises or has nothing.
pollRead ==
  /\ Go("gui", "read", "record")
  /\ LET r == hand["gui"]
         attaches == r \in opened /\ MemoryExists
     IN  /\ attached' = IF attaches THEN attached \cup {r} ELSE attached
         /\ \/ r \in failing /\ polled' = "error"
            \/ r \notin opened /\ polled' \in {"none", "error"}
            \/ r \in opened \ failing
                 /\ polled' = IF attaches /\ feed THEN "frame" ELSE "none"
  /\ UNCHANGED <<lockedVars, stop, hand, supervisorVars, opened, failing, pipelineVars,
                 countVars, cut>>

\* Under the lock, on the account of whatever is kept by now.
pollRecord ==
  /\ Go("gui", "record", "poll")
  /\ hand' = [hand EXCEPT !["gui"] = NoReader]
  /\ poll_errors' = CASE polled = "frame" -> 0
                      [] polled = "error" /\ poll_errors < PollErrorLimit -> poll_errors + 1
                      [] OTHER -> poll_errors
  /\ overdue' = (overdue /\ polled # "frame")
  /\ polled' = "none"
  /\ UNCHANGED <<impl, attempt_due, stop, supervisorVars, readerVars, pipelineVars,
                 countVars, cut>>

\* closeEvent(): the agent server is shut down before; what it is at goes on.
close ==
  /\ Go("gui", "poll", "join")
  /\ stop' = TRUE
  /\ UNCHANGED <<lockedVars, hand, polled, supervisorVars, readerVars, pipelineVars,
                 countVars, cut>>

\* Past its last look at _stop, on the way to open or close a reader or to start
\* a process.
Committed(t) ==
  \/ at[t] \in {"dropClose", "testImpl", "make", "store"}
  \/ t = "reconnect" /\ at[t] \notin {"off", "tick"}

\* The thread has ended, or join() has waited for two seconds.
joined ==
  /\ Go("gui", "join", "closeImpl")
  /\ cut' = {t \in {"reconnect", "agent"} : Committed(t)}
  /\ hand' = [hand EXCEPT !["gui"] = impl]
  /\ impl' = NoReader
  /\ UNCHANGED <<poll_errors, overdue, attempt_due, stop, polled, supervisorVars, readerVars,
                 pipelineVars, countVars>>

closeImpl ==
  /\ Go("gui", "closeImpl", "closed")
  /\ Close(hand["gui"])
  /\ hand' = [hand EXCEPT !["gui"] = NoReader]
  /\ UNCHANGED <<lockedVars, stop, polled, supervisorVars, pipelineVars, countVars, cut>>

GuiCamera ==
  Connect("gui") \/ startThread \/ pollTake \/ pollRead \/ pollRecord \/ joined \/ closeImpl
-----------------------------------------------------------------------------
(* The agent server's thread: reconnect_now(), once the window is up. *)

reconnectNow ==
  /\ at["gui"] \in {"poll", "read", "record"}
  /\ requests < MaxRequests
  /\ requests' = requests + 1
  /\ Go("agent", "off", "drop")
  /\ UNCHANGED <<lockedVars, stop, hand, polled, supervisorVars, readerVars, pipelineVars,
                 failures, cut>>

Agent == Drop("agent") \/ Connect("agent")
-----------------------------------------------------------------------------
(* Time.  It is of no interest once the window closes. *)

attemptDue ==
  /\ ~stop
  /\ ~attempt_due
  /\ attempt_due' = TRUE
  /\ UNCHANGED <<impl, poll_errors, overdue, stop, at, hand, polled, supervisorVars,
                 readerVars, pipelineVars, countVars, cut>>

startDue ==
  /\ ~stop
  /\ ~start_due
  /\ start_due' = TRUE
  /\ UNCHANGED <<lockedVars, stop, at, hand, polled, supervisor, readerVars, pipelineVars,
                 countVars, cut>>

\* Three seconds without a new frame: none came.
becomeOverdue ==
  /\ ~stop
  /\ impl # NoReader /\ ~overdue /\ ~Delivering
  /\ overdue' = TRUE
  /\ UNCHANGED <<impl, poll_errors, attempt_due, stop, at, hand, polled, supervisorVars,
                 readerVars, pipelineVars, countVars, cut>>

\* Or nobody asked: the GUI thread was busy, searching for the brush's port.
guiStall ==
  /\ ~stop
  /\ requests < MaxRequests
  /\ requests' = requests + 1
  /\ impl # NoReader /\ overdue' = TRUE
  /\ UNCHANGED <<impl, poll_errors, attempt_due, stop, at, hand, polled, supervisorVars,
                 readerVars, pipelineVars, failures, cut>>

-----------------------------------------------------------------------------
(* The pipeline.  Its fortunes are of no interest once the window closes. *)

\* The process started becomes the owner, or finds another one and gives up.
supervisorSettles ==
  /\ ~stop
  /\ supervisor = "running" /\ pipeline # "ours"
  /\ \/ pipeline = "none" /\ pipeline' = "ours" /\ UNCHANGED supervisor
     \/ pipeline = "foreign" /\ supervisor' = "exited" /\ UNCHANGED pipeline
  /\ UNCHANGED <<lockedVars, stop, at, hand, polled, start_due, readerVars, feed, countVars,
                 cut>>

feedStarts ==
  /\ ~stop
  /\ pipeline # "none" /\ ~feed
  /\ feed' = TRUE
  /\ UNCHANGED <<lockedVars, stop, at, hand, polled, supervisorVars, readerVars, pipeline,
                 countVars, cut>>

\* The supervisor ends, with its worker; or the camera goes silent for a while.
pipelineFails ==
  /\ ~stop
  /\ failures < MaxFailures
  /\ failures' = failures + 1
  /\ pipeline # "none"
  /\ feed' = FALSE
  /\ \/ /\ pipeline' = "none"
        /\ supervisor' = IF pipeline = "ours" THEN "exited" ELSE supervisor
     \/ feed /\ UNCHANGED <<pipeline, supervisor>>
  /\ UNCHANGED <<lockedVars, stop, at, hand, polled, start_due, readerVars, requests, cut>>

\* The Windows service, or the user, starts a pipeline.
foreignStarts ==
  /\ ~stop
  /\ requests < MaxRequests
  /\ requests' = requests + 1
  /\ pipeline = "none"
  /\ pipeline' = "foreign"
  /\ UNCHANGED <<lockedVars, stop, at, hand, polled, supervisorVars, readerVars, feed,
                 failures, cut>>

readerBreaks ==
  /\ ~stop
  /\ failures < MaxFailures
  /\ failures' = failures + 1
  /\ impl # NoReader
  /\ failing' = failing \cup {impl}
  /\ UNCHANGED <<lockedVars, stop, at, hand, polled, supervisorVars, opened, attached,
                 pipelineVars, requests, cut>>

CameraSurroundings ==
  attemptDue \/ startDue \/ becomeOverdue \/ guiStall \/ supervisorSettles \/ feedStarts
    \/ pipelineFails \/ foreignStarts \/ readerBreaks

CameraNext == GuiCamera \/ close \/ Reconnect \/ reconnectNow \/ Agent \/ CameraSurroundings

\* Threads run; deadlines pass; what is started gets going.  Nothing makes the
\* user close the window, or the agent ask.
CameraFairness ==
  /\ WF_cameraVars(GuiCamera) /\ WF_cameraVars(Reconnect) /\ WF_cameraVars(Agent)
  /\ WF_cameraVars(attemptDue) /\ WF_cameraVars(startDue) /\ WF_cameraVars(becomeOverdue)
  /\ WF_cameraVars(supervisorSettles) /\ WF_cameraVars(feedStarts)

-----------------------------------------------------------------------------
\* Every reader that is open is kept or in the hands of a thread that will keep
\* or close it, and the kept one is open: whichever of the three threads is
\* between its two turns with the lock, sources.py:88-136.
ReadersAreOwned ==
  /\ opened \subseteq {impl} \cup {hand[t] : t \in Threads}
  /\ impl \in opened \cup {NoReader}
  /\ \A t \in {"reconnect", "agent"} : hand[t] # NoReader => hand[t] # impl

\* Once close() has returned nothing is open and nothing gets opened or started,
\* unless a thread was in the middle of it when close() stopped waiting
\* (sources.py:360-372, and the tests of _stop at 89, 262).
CloseIsFinal ==
  [][at'["gui"] = "closed" /\ cut' = {} =>
       /\ opened' = {}
       /\ at["gui"] = "closed" /\ supervisor' = "running" => supervisor = "running"]_cameraVars

\* sources.py:18, "a stale-but-attached Reader is dropped and re-created": once
\* the failures end, the GUI gets frames again and keeps getting them, whatever
\* became of pipeline, memory and reader; or the window is closed.
FramesComeBack == <>[]Delivering \/ <>[]stop
=============================================================================
