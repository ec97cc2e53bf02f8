------------------------------ MODULE ShmOwner ------------------------------
(***************************************************************************)
(* Who may write the camera's shared memory: setup_shared_memory(),        *)
(* spawn(), _stop_worker() and shutdown() of                               *)
(* hp60c_v13/hp60c_supervisor_v13.py, for any number of supervisors that   *)
(* are started (the Windows service starts one every two seconds once its  *)
(* first has exited), killed and stopped.  Their only means of agreement   *)
(* is the process ids they leave in the memory itself.                     *)
(*                                                                         *)
(* A reader keeps the memory in being between two owners.  A process id    *)
(* names one process for ever.  write_supervisor() and                     *)
(* write_worker() are two steps, the first of which makes the sequence     *)
(* counter odd; a reader that meets an odd counter in all its attempts     *)
(* learns nothing.                                                         *)
(***************************************************************************)
EXTENDS Naturals, FiniteSets

CONSTANTS
  Supervisors,  (* processes *)
  Workers,      (* processes *)
  NoProcess,    (* process id 0 *)
  Overlap,      (* whether a supervisor may start or be killed while another starts up *)
  BusyReads,    (* whether a read may fail because of a writer that is alive *)
  CrashPoints   (* the places (of pc) where a supervisor may be killed *)

ASSUME OwnerAssumption ==
  /\ NoProcess \notin Supervisors \cup Workers
  /\ {Overlap, BusyReads} \subseteq BOOLEAN

\* Supervisors start one after the other and are not killed while another one
\* starts, a read fails only because of a writer that is dead, and none is
\* killed between the start of a worker and the record of its process id, nor in
\* the stop that an interrupt there leads to: outside of this neither property
\* holds.
Orderly ==
  /\ ~Overlap /\ ~BusyReads
  /\ CrashPoints \cap {"record", "recorded", "stop", "stopping"} = {}

VARIABLES
  pc,          (* where a supervisor is *)
  old_sup,     (* its local old_sup, or Unread *)
  old_worker,  (* its local old_wrk["worker_pid"] *)
  proc,        (* its self.proc *)
  sup,         (* the supervisor's block: [odd, pid, worker_pid, stop] *)
  wrk,         (* the worker's block: [odd, pid] *)
  worker,      (* where a worker is *)
  parent       (* history: the supervisor that started it *)

memory == <<sup, wrk>>
locals == <<old_sup, old_worker, proc>>
ownerVars == <<pc, locals, memory, worker, parent>>

StartingUp == {"create", "readSup", "readWrk", "judge", "zero", "own"}
Owning == {"own", "reset", "announce", "announced", "popen", "record", "recorded",
           "watch", "report", "retire", "stop", "stopping", "leave"}
InWrite == {"announced", "recorded", "report", "retire", "stop", "leave"}
Places == {"off", "dead", "refused"} \cup StartingUp \cup Owning

SupAlive(s) == s # NoProcess /\ pc[s] \notin {"off", "dead", "refused"}
WorkerAlive(w) == w # NoProcess /\ worker[w] \in {"started", "open", "writing"}

NoSup == [pid |-> NoProcess, worker_pid |-> NoProcess]
BlankSup == [odd |-> FALSE, pid |-> NoProcess, worker_pid |-> NoProcess, stop |-> FALSE]
BlankWrk == [odd |-> FALSE, pid |-> NoProcess]

OwnerInit ==
  /\ pc = [s \in Supervisors |-> "off"]
  /\ old_sup = [s \in Supervisors |-> NoSup]
  /\ old_worker = [s \in Supervisors |-> NoProcess]
  /\ proc = [s \in Supervisors |-> NoProcess]
  /\ sup = BlankSup
  /\ wrk = BlankWrk
  /\ worker = [w \in Workers |-> "unused"]
  /\ parent = [w \in Workers |-> NoProcess]

Goto(s, place) == pc' = [pc EXCEPT ![s] = place]
At(s, place) == pc[s] = place

-----------------------------------------------------------------------------
(* setup_shared_memory(). *)

start(s) ==
  /\ At(s, "off")
  /\ Overlap \/ \A t \in Supervisors : pc[t] \notin StartingUp
  /\ Goto(s, "create")
  /\ UNCHANGED <<locals, memory, worker, parent>>

\* The memory is there: before the first supervisor it is zero.
create(s) ==
  /\ At(s, "create")
  /\ Goto(s, "readSup")
  /\ UNCHANGED <<locals, memory, worker, parent>>

\* read_supervisor() and read_worker(): three attempts that all meet an odd
\* counter.  A writer that is dead never makes it even again.
SupUnreadable ==
  /\ sup.odd
  /\ BusyReads \/ ~\E t \in Supervisors : pc[t] \in InWrite
WrkUnreadable ==
  /\ wrk.odd
  /\ BusyReads \/ ~\E w \in Workers : worker[w] = "writing"

readSup(s) ==
  /\ At(s, "readSup")
  /\ \/ /\ ~sup.odd
        /\ old_sup' = [old_sup EXCEPT ![s] = [pid |-> sup.pid, worker_pid |-> sup.worker_pid]]
     \/ SupUnreadable /\ UNCHANGED old_sup
  /\ Goto(s, "readWrk")
  /\ UNCHANGED <<old_worker, proc, memory, worker, parent>>

readWrk(s) ==
  /\ At(s, "readWrk")
  /\ \/ ~wrk.odd /\ old_worker' = [old_worker EXCEPT ![s] = wrk.pid]
     \/ WrkUnreadable /\ UNCHANGED old_worker
  /\ Goto(s, "judge")
  /\ UNCHANGED <<old_sup, proc, memory, worker, parent>>

\* RuntimeError("live supervisor already owns ...").
refuse(s) ==
  /\ At(s, "judge")
  /\ SupAlive(old_sup[s].pid)
  /\ Goto(s, "refused")
  /\ UNCHANGED <<locals, memory, worker, parent>>

\* Faulty variant: the worker's own entry is not looked at.
OrphanOfSup(s) == old_sup[s].worker_pid

Orphan(s) ==
  IF old_sup[s].worker_pid # NoProcess THEN old_sup[s].worker_pid ELSE old_worker[s]

takeOver(s) ==
  /\ At(s, "judge")
  /\ ~SupAlive(old_sup[s].pid)
  /\ worker' = [w \in Workers |->
                  IF w = Orphan(s) /\ WorkerAlive(w) THEN "gone" ELSE worker[w]]
  /\ Goto(s, "zero")
  /\ UNCHANGED <<locals, memory, parent>>

\* initialize_status(): zero(), and the process id after it.
zero(s) ==
  /\ At(s, "zero")
  /\ sup' = BlankSup
  /\ wrk' = BlankWrk
  /\ Goto(s, "own")
  /\ UNCHANGED <<locals, worker, parent>>

\* Faulty variant: the process id is left to the first spawn().
ownUnnamed(s) ==
  /\ At(s, "own")
  /\ Goto(s, "reset")
  /\ UNCHANGED <<locals, memory, worker, parent>>

own(s) ==
  /\ At(s, "own")
  /\ sup' = [sup EXCEPT !.pid = s]
  /\ Goto(s, "reset")
  /\ UNCHANGED <<locals, wrk, worker, parent>>

StartUp(s) == \/ start(s) \/ create(s) \/ readSup(s) \/ readWrk(s)
              \/ refuse(s) \/ takeOver(s) \/ zero(s) \/ own(s)

-----------------------------------------------------------------------------
(* write_supervisor(). *)

BeginWrite == sup' = [sup EXCEPT !.odd = TRUE]
EndWrite(pid, worker_pid, stop) ==
  sup' = [odd |-> FALSE, pid |-> pid, worker_pid |-> worker_pid, stop |-> stop]

(* spawn(). *)

reset(s) ==
  /\ At(s, "reset")
  /\ wrk' = BlankWrk
  /\ Goto(s, "announce")
  /\ UNCHANGED <<locals, sup, worker, parent>>

announce(s) ==
  /\ At(s, "announce")
  /\ BeginWrite
  /\ Goto(s, "announced")
  /\ UNCHANGED <<locals, wrk, worker, parent>>

announced(s) ==
  /\ At(s, "announced")
  /\ EndWrite(s, NoProcess, FALSE)
  /\ Goto(s, "popen")
  /\ UNCHANGED <<locals, wrk, worker, parent>>

popen(s) ==
  /\ At(s, "popen")
  /\ \E w \in Workers :
       /\ worker[w] = "unused"
       /\ worker' = [worker EXCEPT ![w] = "started"]
       /\ proc' = [proc EXCEPT ![s] = w]
       /\ parent' = [parent EXCEPT ![w] = s]
  /\ Goto(s, "record")
  /\ UNCHANGED <<old_sup, old_worker, memory>>

record(s) ==
  /\ At(s, "record")
  /\ BeginWrite
  /\ Goto(s, "recorded")
  /\ UNCHANGED <<locals, wrk, worker, parent>>

recorded(s) ==
  /\ At(s, "recorded")
  /\ EndWrite(sup.pid, proc[s], sup.stop)
  /\ Goto(s, "watch")
  /\ UNCHANGED <<locals, wrk, worker, parent>>

-----------------------------------------------------------------------------
(* loop() and shutdown(). *)

Terminated(w) == [worker EXCEPT ![w] = "gone"]

\* The worker is ONLINE, which it wrote together with its process id.
beginReport(s) ==
  /\ At(s, "watch")
  /\ ~wrk.odd /\ wrk.pid = proc[s]
  /\ BeginWrite
  /\ Goto(s, "report")
  /\ UNCHANGED <<locals, wrk, worker, parent>>

report(s) ==
  /\ At(s, "report")
  /\ EndWrite(sup.pid, proc[s], FALSE)
  /\ Goto(s, "watch")
  /\ UNCHANGED <<locals, wrk, worker, parent>>

\* schedule_restart(), for whatever reason: _stop_worker() and a write.
scheduleRestart(s) ==
  /\ At(s, "watch")
  /\ worker' = Terminated(proc[s])
  /\ BeginWrite
  /\ Goto(s, "retire")
  /\ UNCHANGED <<locals, wrk, parent>>

retire(s) ==
  /\ At(s, "retire")
  /\ EndWrite(sup.pid, NoProcess, FALSE)
  /\ proc' = [proc EXCEPT ![s] = NoProcess]
  /\ Goto(s, "reset")
  /\ UNCHANGED <<old_sup, old_worker, wrk, worker, parent>>

\* KeyboardInterrupt, or an exception in loop().
interrupt(s) ==
  /\ pc[s] \in {"reset", "announce", "popen", "record", "watch"}
  /\ BeginWrite
  /\ Goto(s, "stop")
  /\ UNCHANGED <<locals, wrk, worker, parent>>

stop(s) ==
  /\ At(s, "stop")
  /\ EndWrite(sup.pid, sup.worker_pid, TRUE)
  /\ Goto(s, "stopping")
  /\ UNCHANGED <<locals, wrk, worker, parent>>

\* _stop_worker(graceful=True): it exits within a second, or is terminated.
stopping(s) ==
  /\ At(s, "stopping")
  /\ worker' = IF proc[s] = NoProcess THEN worker ELSE Terminated(proc[s])
  /\ BeginWrite
  /\ Goto(s, "leave")
  /\ UNCHANGED <<locals, wrk, parent>>

leave(s) ==
  /\ At(s, "leave")
  /\ EndWrite(sup.pid, NoProcess, sup.stop)
  /\ Goto(s, "dead")
  /\ UNCHANGED <<locals, wrk, worker, parent>>

Own(s) == \/ reset(s) \/ announce(s) \/ announced(s) \/ popen(s)
          \/ record(s) \/ recorded(s)
          \/ beginReport(s) \/ report(s) \/ scheduleRestart(s) \/ retire(s)
          \/ interrupt(s) \/ stop(s) \/ stopping(s) \/ leave(s)

\* The process is terminated from outside, or the service is stopped.
kill(s) ==
  /\ SupAlive(s)
  /\ pc[s] \in CrashPoints
  /\ Overlap \/ \A t \in Supervisors \ {s} : pc[t] \notin StartingUp
  /\ Goto(s, "dead")
  /\ UNCHANGED <<locals, memory, worker, parent>>

-----------------------------------------------------------------------------
(* The worker. *)

attach(w) ==
  /\ worker[w] = "started"
  /\ worker' = [worker EXCEPT ![w] = "open"]
  /\ UNCHANGED <<pc, locals, memory, parent>>

beginWorkerWrite(w) ==
  /\ worker[w] = "open"
  /\ wrk' = [wrk EXCEPT !.odd = TRUE]
  /\ worker' = [worker EXCEPT ![w] = "writing"]
  /\ UNCHANGED <<pc, locals, sup, parent>>

endWorkerWrite(w) ==
  /\ worker[w] = "writing"
  /\ wrk' = [odd |-> FALSE, pid |-> w]
  /\ worker' = [worker EXCEPT ![w] = "open"]
  /\ UNCHANGED <<pc, locals, sup, parent>>

\* stop_requested(), an error, or it dies.
workerExits(w) ==
  /\ WorkerAlive(w)
  /\ worker' = Terminated(w)
  /\ UNCHANGED <<pc, locals, memory, parent>>

OwnedWorker(w) == attach(w) \/ beginWorkerWrite(w) \/ endWorkerWrite(w) \/ workerExits(w)

OwnerNext ==
  \/ \E s \in Supervisors : StartUp(s) \/ Own(s) \/ kill(s)
  \/ \E w \in Workers : OwnedWorker(w)

OwnerSpec == OwnerInit /\ [][OwnerNext]_ownerVars

-----------------------------------------------------------------------------
\* hp60c_supervisor_v13.py:98, "live supervisor already owns": two supervisors
\* never write the memory side by side.
OneSupervisor ==
  \A s, t \in Supervisors : pc[s] \in Owning /\ pc[t] \in Owning => s = t

\* hp60c_supervisor_v13.py:104-105, "Orphaned worker from a dead supervisor must
\* not keep writing into a reused named mapping": no two workers are ever alive,
\* and beside a supervisor that has taken over only one of its own.
OneWriter ==
  \A w \in Workers : WorkerAlive(w) =>
    /\ \A v \in Workers : WorkerAlive(v) => v = w
    /\ \A s \in Supervisors : pc[s] \in Owning => parent[w] = s
=============================================================================
