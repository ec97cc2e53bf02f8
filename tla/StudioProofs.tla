---------------------------- MODULE StudioProofs ----------------------------
(***************************************************************************)
(* Ownership of the camera's readers and of the brush's receivers, and the *)
(* finality of close(), for any number of readers, receivers, ports and    *)
(* threads, and whatever the pipeline, the base and the deadlines do.      *)
(***************************************************************************)
EXTENDS Studio, TLAPS

AgentPlaces == {"off", "drop", "dropClose", "testStop", "testImpl", "make", "store"}

ReconnectPlaces ==
  AgentPlaces \cup {"tick", "judge", "look", "ensure", "probe", "spawn"}

Starting == {"testStop", "testImpl", "make", "store", "startThread"}

GuiPlaces ==
  Starting \cup {"off", "poll", "read", "record", "join", "closeImpl", "closed"}

CameraTypeInv ==
  /\ impl \in Readers \cup {NoReader}
  /\ opened \subseteq Readers
  /\ at \in [Threads -> GuiPlaces \cup ReconnectPlaces]
  /\ at["gui"] \in GuiPlaces
  /\ at["reconnect"] \in ReconnectPlaces
  /\ at["agent"] \in AgentPlaces
  /\ hand \in [Threads -> Readers \cup {NoReader}]

\* The reader in its hand is the thread's to keep or close.
Owns(t) == at[t] \in {"store", "dropClose", "closeImpl"}

\* Each open reader has one owner, the source or a thread; the GUI thread refers
\* to a reader it does not own while it polls.
OwnersInv ==
  /\ impl # NoReader => impl \in opened
  /\ \A r \in opened : r = impl \/ \E t \in Threads : Owns(t) /\ hand[t] = r
  /\ \A t \in Threads : Owns(t) /\ hand[t] # NoReader =>
       /\ hand[t] \in opened
       /\ hand[t] # impl
       /\ \A u \in Threads : u # t /\ Owns(u) => hand[u] # hand[t]
  /\ \A t \in Threads : at[t] = "store" => hand[t] # NoReader
  /\ \A t \in {"reconnect", "agent"} : ~Owns(t) => hand[t] = NoReader

\* The reconnect thread is started once, by a GUI thread that then polls.
StartInv == at["gui"] \in Starting => at["reconnect"] = "off"

\* close() has set the event, and when it did not leave a thread in the middle
\* of something, none can get there any more.
FinalInv ==
  /\ at["gui"] \in {"join", "closeImpl", "closed"} => stop
  /\ at["gui"] \in {"closeImpl", "closed"} /\ cut = {} =>
       /\ impl = NoReader
       /\ at["reconnect"] \in {"off", "tick"}
       /\ at["agent"] \in {"off", "drop", "dropClose", "testStop"}
       /\ hand["agent"] = NoReader

CameraInv == CameraTypeInv /\ OwnersInv /\ StartInv /\ FinalInv

\* The initial states satisfy the invariant, whichever source is unused.
LEMMA CameraInitInv == CameraInit \/ CameraDisabled => CameraInv
<1>1. CASE CameraInit
  BY <1>1, CameraAssumption
     DEF CameraInit, CameraInv, CameraTypeInv, OwnersInv, StartInv, FinalInv, Owns, Threads,
         AgentPlaces, ReconnectPlaces, GuiPlaces, Starting
<1>2. CASE CameraDisabled
  BY <1>2, CameraAssumption
     DEF CameraDisabled, CameraInv, CameraTypeInv, OwnersInv, StartInv, FinalInv, Owns, Threads,
         AgentPlaces, ReconnectPlaces, GuiPlaces, Starting
<1> QED
  BY <1>1, <1>2

-----------------------------------------------------------------------------
\* A thread that goes from one place where it owns nothing to another disturbs
\* nobody's reader.
LEMMA WalkStep ==
  ASSUME CameraTypeInv, OwnersInv, NEW t \in Threads, NEW from, NEW to, Go(t, from, to),
         from \notin {"store", "dropClose", "closeImpl"},
         to \notin {"store", "dropClose", "closeImpl"},
         impl' = impl, opened' = opened,
         \A u \in Threads : (u = "gui" /\ t = "gui") \/ hand'[u] = hand[u]
  PROVE  OwnersInv'
<1>1. \A u \in Threads : Owns(u)' <=> Owns(u)
  BY DEF Go, CameraTypeInv, Owns
<1>2. \A u \in Threads : Owns(u) => hand'[u] = hand[u]
  BY DEF Go, CameraTypeInv, Owns
<1>3. \A u \in Threads : (at'[u] = "store") <=> (at[u] = "store")
  BY DEF Go, CameraTypeInv
<1>4. \A u \in {"reconnect", "agent"} : u \in Threads /\ hand'[u] = hand[u]
  BY DEF Threads
<1>5. \A u \in Threads : at[u] = "store" => Owns(u)
  BY DEF Owns
<1> QED
  BY <1>1, <1>2, <1>3, <1>4, <1>5 DEF OwnersInv

\* Nobody moves, and the kept reader and the open ones stay.
LEMMA StandStep ==
  ASSUME OwnersInv, at' = at, hand' = hand, impl' = impl, opened' = opened
  PROVE  OwnersInv'
  BY DEF OwnersInv, Owns

-----------------------------------------------------------------------------
\* make() takes a Reader that was closed and that no thread refers to.
LEMMA MakeTakesUnused ==
  ASSUME NEW t \in Threads, make(t)
  PROVE  \E r \in Unused : /\ hand' = [hand EXCEPT ![t] = r]
                          /\ opened' = opened \cup {r}
<1> DEFINE r == CHOOSE r \in Unused : TRUE
<1>1. r \in Unused
  BY DEF make
<1>2. hand' = [hand EXCEPT ![t] = r] /\ opened' = opened \cup {r}
  BY DEF make
<1> QED
  BY <1>1, <1>2

\* The type invariant is preserved, one group of actions after the other.
LEMMA CameraTypeStep ==
  ASSUME CameraTypeInv, [CameraNext]_cameraVars
  PROVE  CameraTypeInv'
<1> USE DEF CameraTypeInv, Threads, GuiPlaces, ReconnectPlaces, AgentPlaces, Starting, Go,
            Caller, lockedVars, readerVars
<1>1. ASSUME NEW t \in Threads, testStop(t) \/ testImpl(t) \/ makeFails(t)  PROVE CameraTypeInv'
  BY <1>1 DEF testStop, testImpl, makeFails
<1>2. ASSUME NEW t \in Threads, make(t)  PROVE CameraTypeInv'
  <2>1. PICK r \in Unused : /\ hand' = [hand EXCEPT ![t] = r]
                            /\ opened' = opened \cup {r}
    BY <1>2, MakeTakesUnused
  <2>2. impl' = impl /\ Go(t, "make", "store")
    BY <1>2 DEF make
  <2> QED
    BY <2>1, <2>2 DEF Unused
<1>3. ASSUME NEW t \in Threads, store(t)  PROVE CameraTypeInv'
  BY <1>3 DEF store, Close
<1>4. ASSUME NEW t \in {"reconnect", "agent"}, Drop(t)  PROVE CameraTypeInv'
  BY <1>4 DEF Drop, drop, dropClose, Close
<1>5. CASE tick \/ judge \/ look
  BY <1>5 DEF tick, judge, look
<1>6. CASE ensure \/ probe \/ spawn
  BY <1>6 DEF ensure, probe, spawn
<1>7. CASE startThread \/ pollTake \/ pollRead \/ pollRecord
  BY <1>7 DEF startThread, pollTake, pollRead, pollRecord
<1>8. CASE joined \/ closeImpl \/ close
  BY <1>8 DEF joined, closeImpl, close, Close
<1>9. CASE reconnectNow
  BY <1>9 DEF reconnectNow
<1>10. CASE CameraSurroundings
  BY <1>10 DEF CameraSurroundings, attemptDue, startDue, becomeOverdue, guiStall,
               supervisorSettles, feedStarts, pipelineFails, foreignStarts, readerBreaks
<1>11. CASE UNCHANGED cameraVars
  BY <1>11 DEF cameraVars
<1> QED
  BY <1>1, <1>2, <1>3, <1>4, <1>5, <1>6, <1>7, <1>8, <1>9, <1>10, <1>11
     DEF CameraNext, GuiCamera, Reconnect, Agent, Connect

\* What startThread finds: the reconnect thread has not been started.
LEMMA StartStep ==
  ASSUME CameraTypeInv, StartInv, [CameraNext]_cameraVars
  PROVE  StartInv'
<1> USE DEF CameraTypeInv, StartInv, Threads, GuiPlaces, ReconnectPlaces, AgentPlaces, Starting,
            Go, Caller
<1>1. ASSUME NEW t \in Threads, Connect(t)  PROVE StartInv'
  BY <1>1 DEF Connect, testStop, testImpl, make, makeFails, store
<1>2. ASSUME NEW t \in {"reconnect", "agent"}, Drop(t)  PROVE StartInv'
  BY <1>2 DEF Drop, drop, dropClose
<1>3. CASE tick \/ judge \/ look \/ ensure \/ probe \/ spawn
  BY <1>3 DEF tick, judge, look, ensure, probe, spawn
<1>4. CASE startThread \/ pollTake \/ pollRead \/ pollRecord
  BY <1>4 DEF startThread, pollTake, pollRead, pollRecord
<1>5. CASE joined \/ closeImpl \/ close \/ reconnectNow
  BY <1>5 DEF joined, closeImpl, close, reconnectNow
<1>6. CASE CameraSurroundings
  BY <1>6 DEF CameraSurroundings, attemptDue, startDue, becomeOverdue, guiStall,
              supervisorSettles, feedStarts, pipelineFails, foreignStarts, readerBreaks
<1>7. CASE UNCHANGED cameraVars
  BY <1>7 DEF cameraVars
<1> QED
  BY <1>1, <1>2, <1>3, <1>4, <1>5, <1>6, <1>7 DEF CameraNext, GuiCamera, Reconnect, Agent

\* After close() has waited, no action leads back to a reader or a process.
LEMMA FinalStep ==
  ASSUME CameraTypeInv, OwnersInv, StartInv, FinalInv, [CameraNext]_cameraVars
  PROVE  FinalInv'
<1> USE DEF CameraTypeInv, FinalInv, Threads, GuiPlaces, ReconnectPlaces, AgentPlaces, Starting,
            Go, Caller, lockedVars
<1>1. ASSUME NEW t \in Threads, testStop(t) \/ testImpl(t)  PROVE FinalInv'
  BY <1>1 DEF testStop, testImpl
<1>2. ASSUME NEW t \in Threads, make(t)  PROVE FinalInv'
  BY <1>2 DEF make
<1>3. ASSUME NEW t \in Threads, makeFails(t) \/ store(t)  PROVE FinalInv'
  BY <1>3 DEF makeFails, store
<1>4. ASSUME NEW t \in {"reconnect", "agent"}, Drop(t)  PROVE FinalInv'
  BY <1>4 DEF Drop, drop, dropClose
<1>5. CASE tick \/ judge \/ look
  BY <1>5 DEF tick, judge, look
<1>6. CASE ensure \/ probe \/ spawn
  BY <1>6 DEF ensure, probe, spawn
<1>7. CASE startThread \/ pollTake \/ pollRead \/ pollRecord
  BY <1>7, StartInv DEF startThread, pollTake, pollRead, pollRecord
<1>8. CASE close \/ closeImpl \/ reconnectNow
  BY <1>8 DEF close, closeImpl, reconnectNow
<1>9. CASE joined
  <2>1. cut' = {} => at["reconnect"] \in {"off", "tick"}
                       /\ at["agent"] \in {"off", "drop", "testStop"}
    BY <1>9 DEF joined, Committed
  <2>2. at["agent"] \in {"off", "drop", "testStop"} => hand["agent"] = NoReader
    BY DEF OwnersInv, Owns
  <2> QED
    BY <1>9, <2>1, <2>2 DEF joined
<1>10. CASE CameraSurroundings
  BY <1>10 DEF CameraSurroundings, attemptDue, startDue, becomeOverdue, guiStall,
               supervisorSettles, feedStarts, pipelineFails, foreignStarts, readerBreaks
<1>11. CASE UNCHANGED cameraVars
  BY <1>11 DEF cameraVars
<1> QED
  BY <1>1, <1>2, <1>3, <1>4, <1>5, <1>6, <1>7, <1>8, <1>9, <1>10, <1>11
     DEF CameraNext, GuiCamera, Reconnect, Agent, Connect

-----------------------------------------------------------------------------
\* Ownership is preserved: the reader that make() opens, the three ways it is
\* handed over under the lock, the two that close it; the others only walk.
LEMMA OwnersStep ==
  ASSUME CameraTypeInv, OwnersInv, StartInv, [CameraNext]_cameraVars
  PROVE  OwnersInv'
<1> USE CameraAssumption
<1>1. ASSUME NEW t \in Threads, make(t)  PROVE OwnersInv'
  <2>1. PICK r \in Unused : /\ hand' = [hand EXCEPT ![t] = r]
                            /\ opened' = opened \cup {r}
    BY <1>1, MakeTakesUnused
  <2>2. impl' = impl /\ Go(t, "make", "store")
    BY <1>1 DEF make, lockedVars
  <2>3. /\ r \in Readers /\ r \notin opened
        /\ \A u \in Threads : hand[u] # r
    BY <2>1 DEF Unused
  <2>4. r # NoReader
    BY <2>3
  <2>5. /\ hand'[t] = r /\ at'[t] = "store" /\ ~Owns(t) /\ Owns(t)'
        /\ \A u \in Threads \ {t} :
             hand'[u] = hand[u] /\ at'[u] = at[u] /\ (Owns(u)' <=> Owns(u))
    BY <2>1, <2>2 DEF Owns, CameraTypeInv, Go
  <2>6. (\A q \in opened : q = impl \/ \E u \in Threads : Owns(u) /\ hand[u] = q)'
    BY <2>1, <2>2, <2>5 DEF OwnersInv
  <2>7. (\A u \in Threads : Owns(u) /\ hand[u] # NoReader =>
           /\ hand[u] \in opened
           /\ hand[u] # impl
           /\ \A v \in Threads : v # u /\ Owns(v) => hand[v] # hand[u])'
    BY <2>1, <2>2, <2>3, <2>4, <2>5 DEF OwnersInv
  <2>8. (\A u \in {"reconnect", "agent"} : ~Owns(u) => hand[u] = NoReader)'
    BY <2>5 DEF OwnersInv, Threads
  <2> QED
    BY <2>1, <2>2, <2>3, <2>4, <2>5, <2>6, <2>7, <2>8 DEF OwnersInv
<1>2. ASSUME NEW t \in Threads, store(t)  PROVE OwnersInv'
  <2>1. Go(t, "store", Caller(t)) /\ hand' = [hand EXCEPT ![t] = NoReader]
    BY <1>2 DEF store
  <2>2. Caller(t) \notin {"store", "dropClose", "closeImpl"}
    BY DEF Caller, Threads
  <2>3. CASE impl # NoReader /\ Close(hand[t]) /\ UNCHANGED lockedVars
    BY <2>1, <2>2, <2>3 DEF OwnersInv, Owns, CameraTypeInv, Go, Threads, Close, lockedVars
  <2>4. CASE impl = NoReader /\ impl' = hand[t] /\ UNCHANGED readerVars
    BY <2>1, <2>2, <2>4 DEF OwnersInv, Owns, CameraTypeInv, Go, Threads, readerVars
  <2> QED
    BY <1>2, <2>3, <2>4 DEF store
<1>3. ASSUME NEW t \in {"reconnect", "agent"}, drop(t)  PROVE OwnersInv'
  BY <1>3 DEF drop, OwnersInv, Owns, CameraTypeInv, Go, Threads, readerVars
<1>4. CASE joined
  BY <1>4 DEF joined, OwnersInv, Owns, CameraTypeInv, Go, Threads, readerVars
<1>5. ASSUME NEW t \in Threads, NEW to, to \notin {"store", "dropClose", "closeImpl"},
             Go(t, "dropClose", to) \/ Go(t, "closeImpl", to),
             Close(hand[t]), hand' = [hand EXCEPT ![t] = NoReader], impl' = impl
      PROVE  OwnersInv'
  BY <1>5 DEF Close, OwnersInv, Owns, CameraTypeInv, Go, Threads
<1>6. ASSUME NEW t \in Threads, testStop(t) \/ testImpl(t) \/ makeFails(t)  PROVE OwnersInv'
  <2>1. PICK from \in {"testStop", "testImpl", "make"},
             to \in {"startThread", "ensure", "off", "testImpl", "make"} : Go(t, from, to)
    BY <1>6 DEF testStop, testImpl, makeFails, Caller, Threads
  <2>2. impl' = impl /\ opened' = opened /\ hand' = hand
    BY <1>6 DEF testStop, testImpl, makeFails, lockedVars, readerVars
  <2> QED
    BY <2>1, <2>2, WalkStep
<1>7. CASE tick \/ judge \/ look \/ ensure \/ probe \/ spawn
  <2>1. PICK from \in {"tick", "judge", "look", "ensure", "probe", "spawn"},
             to \in {"off", "tick", "judge", "drop", "look", "testStop", "ensure", "probe",
                    "spawn"} : Go("reconnect", from, to)
    BY <1>7 DEF tick, judge, look, ensure, probe, spawn
  <2>2. impl' = impl /\ opened' = opened /\ hand' = hand /\ "reconnect" \in Threads
    BY <1>7 DEF tick, judge, look, ensure, probe, spawn, lockedVars, readerVars, Threads
  <2> QED
    BY <2>1, <2>2, WalkStep
<1>8. CASE pollTake \/ pollRead \/ pollRecord \/ close
  <2>1. PICK from \in {"poll", "read", "record"}, to \in {"poll", "read", "record", "join"} :
          Go("gui", from, to)
    BY <1>8 DEF pollTake, pollRead, pollRecord, close
  <2>2. impl' = impl /\ opened' = opened /\ "gui" \in Threads
    BY <1>8 DEF pollTake, pollRead, pollRecord, close, lockedVars, readerVars, Threads
  <2>3. \A u \in Threads : u = "gui" \/ hand'[u] = hand[u]
    BY <1>8 DEF pollTake, pollRead, pollRecord, close, CameraTypeInv, Threads
  <2> QED
    BY <2>1, <2>2, <2>3, WalkStep
<1>9. CASE reconnectNow
  <2>1. Go("agent", "off", "drop") /\ impl' = impl /\ opened' = opened /\ hand' = hand
        /\ "agent" \in Threads
    BY <1>9 DEF reconnectNow, lockedVars, readerVars, Threads
  <2> QED
    BY <2>1, WalkStep
<1>10. CASE startThread
  <2>1. /\ at["gui"] = "startThread" /\ at["reconnect"] = "off"
        /\ at' = [at EXCEPT !["gui"] = "poll", !["reconnect"] = "tick"]
        /\ impl' = impl /\ opened' = opened /\ hand' = hand
    BY <1>10 DEF startThread, StartInv, Starting, lockedVars, readerVars
  <2>2. \A t \in Threads : Owns(t)' <=> Owns(t)
    BY <2>1 DEF Owns, CameraTypeInv, Threads
  <2>3. \A t \in Threads : (at'[t] = "store") <=> (at[t] = "store")
    BY <2>1 DEF CameraTypeInv, Threads
  <2>4. "reconnect" \in Threads /\ "agent" \in Threads
    BY DEF Threads
  <2> QED
    BY <2>1, <2>2, <2>3, <2>4 DEF OwnersInv
<1>11. CASE CameraSurroundings \/ UNCHANGED cameraVars
  <2>1. at' = at /\ hand' = hand /\ impl' = impl /\ opened' = opened
    BY <1>11 DEF CameraSurroundings, attemptDue, startDue, becomeOverdue, guiStall,
                 supervisorSettles, feedStarts, pipelineFails, foreignStarts, readerBreaks,
                 cameraVars, lockedVars, readerVars
  <2> QED
    BY <2>1, StandStep
<1>12. ASSUME NEW t \in {"reconnect", "agent"}, dropClose(t)  PROVE OwnersInv'
  <2>1. PICK to \in {"look", "testStop"} : Go(t, "dropClose", to)
    BY <1>12 DEF dropClose
  <2>2. /\ t \in Threads /\ impl' = impl /\ Close(hand[t])
        /\ hand' = [hand EXCEPT ![t] = NoReader]
    BY <1>12 DEF dropClose, lockedVars, Threads
  <2> QED
    BY <2>1, <2>2, <1>5
<1>13. CASE closeImpl
  <2>1. /\ "gui" \in Threads /\ Go("gui", "closeImpl", "closed") /\ Close(hand["gui"])
        /\ hand' = [hand EXCEPT !["gui"] = NoReader] /\ impl' = impl
    BY <1>13 DEF closeImpl, lockedVars, Threads
  <2>2. PICK to \in {"closed"} : Go("gui", "closeImpl", to)
    BY <2>1
  <2> QED
    BY <2>1, <2>2, <1>5
<1>14. ASSUME NEW t \in Threads, Connect(t)  PROVE OwnersInv'
  BY <1>1, <1>2, <1>6, <1>14 DEF Connect
<1>15. ASSUME NEW t \in {"reconnect", "agent"}, Drop(t)  PROVE OwnersInv'
  BY <1>3, <1>12, <1>15 DEF Drop
<1> QED
  <2>1. {"gui", "reconnect", "agent"} = Threads
    BY DEF Threads
  <2> QED
    BY <2>1, <1>4, <1>7, <1>8, <1>9, <1>10, <1>11, <1>13, <1>14, <1>15
       DEF CameraNext, GuiCamera, Reconnect, Agent

-----------------------------------------------------------------------------
\* The invariant is preserved by every step of the Studio.
LEMMA CameraStep ==
  ASSUME CameraInv, [CameraNext]_cameraVars
  PROVE  CameraInv'
  BY CameraTypeStep, OwnersStep, StartStep, FinalStep DEF CameraInv

\* The steps of the brush source leave the camera source alone.
LEMMA CameraSteps == [Next]_<<cameraVars, brushVars>> => [CameraNext]_cameraVars
  BY DEF Next

LEMMA CameraInvariance == Spec => []CameraInv
<1>1. Init => CameraInv
  BY CameraInitInv DEF Init
<1>2. CameraInv /\ [Next]_<<cameraVars, brushVars>> => CameraInv'
  BY CameraStep, CameraSteps
<1> QED
  BY <1>1, <1>2, PTL DEF Spec

\* No Reader, with its mapping of the shared memory, is lost track of and none is
\* used after another thread closed it while it was kept: however _connect(),
\* _drop(), poll() and close() of sources.py overlap.
THEOREM ReadersAreAlwaysOwned == Spec => []ReadersAreOwned
<1>1. CameraInv => ReadersAreOwned
  BY CameraAssumption DEF CameraInv, OwnersInv, ReadersAreOwned, Owns, Threads, CameraTypeInv
<1> QED
  BY <1>1, CameraInvariance, PTL

\* One step of CloseIsFinal.
FinalAfterClose ==
  at'["gui"] = "closed" /\ cut' = {} =>
    /\ opened' = {}
    /\ at["gui"] = "closed" /\ supervisor' = "running" => supervisor = "running"

\* Only the reconnect thread starts a process.
LEMMA OnlySpawnStarts ==
  ASSUME [CameraNext]_cameraVars, supervisor' = "running", supervisor # "running"
  PROVE  at["reconnect"] = "spawn" /\ cut' = cut
<1> USE DEF supervisorVars
<1>1. ASSUME NEW t \in Threads, Connect(t)  PROVE FALSE
  BY <1>1 DEF Connect, testStop, testImpl, make, makeFails, store
<1>2. ASSUME NEW t \in {"reconnect", "agent"}, Drop(t)  PROVE FALSE
  BY <1>2 DEF Drop, drop, dropClose
<1>3. CASE tick \/ judge \/ look \/ ensure \/ probe
  BY <1>3 DEF tick, judge, look, ensure, probe
<1>4. CASE spawn
  BY <1>4 DEF spawn, Go
<1>5. CASE startThread \/ pollTake \/ pollRead \/ pollRecord
  BY <1>5 DEF startThread, pollTake, pollRead, pollRecord
<1>6. CASE joined \/ closeImpl \/ close \/ reconnectNow
  BY <1>6 DEF joined, closeImpl, close, reconnectNow
<1>7. CASE CameraSurroundings
  BY <1>7 DEF CameraSurroundings, attemptDue, startDue, becomeOverdue, guiStall,
              supervisorSettles, feedStarts, pipelineFails, foreignStarts, readerBreaks
<1>8. CASE UNCHANGED cameraVars
  BY <1>8 DEF cameraVars
<1>9. {"gui", "reconnect", "agent"} = Threads
  BY DEF Threads
<1> QED
  BY <1>1, <1>2, <1>3, <1>4, <1>5, <1>6, <1>7, <1>8, <1>9
     DEF CameraNext, GuiCamera, Reconnect, Agent

\* A Studio that was closed has no Reader open and starts no supervisor, unless
\* close() of sources.py stopped waiting for a thread in the middle of that.
THEOREM CloseIsAlwaysFinal == Spec => CloseIsFinal
<1>1. CameraInv /\ CameraInv' /\ [Next]_<<cameraVars, brushVars>> =>
        [FinalAfterClose]_cameraVars
  <2> SUFFICES ASSUME CameraInv, CameraInv', [Next]_<<cameraVars, brushVars>>,
                      at'["gui"] = "closed", cut' = {}
               PROVE  /\ opened' = {}
                      /\ at["gui"] = "closed" /\ supervisor' = "running" =>
                           supervisor = "running"
    BY DEF FinalAfterClose
  <2>1. opened' = {}
    BY CameraAssumption DEF CameraInv, CameraTypeInv, OwnersInv, FinalInv, Owns, Threads
  <2>2. CASE at["gui"] = "closed" /\ supervisor' = "running" /\ supervisor # "running"
    <3>1. at["reconnect"] = "spawn" /\ cut' = cut
      BY <2>2, CameraSteps, OnlySpawnStarts
    <3> QED
      BY <2>2, <3>1 DEF CameraInv, FinalInv
  <2> QED
    BY <2>1, <2>2
<1> QED
  BY <1>1, CameraInvariance, PTL DEF Spec, CloseIsFinal, FinalAfterClose

-----------------------------------------------------------------------------
(* The brush source. *)

ReconnectorPlaces ==
  {"off", "loop", "wait", "close", "detect", "testStop", "open", "store", "closeOld",
   "backoff"}

GuiBrushPlaces ==
  {"off", "detect", "testStop", "open", "store", "closeOld", "startThread", "idle", "join",
   "closeKept", "closed"}

BrushTypeInv ==
  /\ bs \in Receivers \cup {NoReceiver}
  /\ mine \in [Actors -> Receivers \cup {NoReceiver}]
  /\ open \subseteq Receivers
  /\ stop_reconnect \in {"clear", "set", "replaced"}
  /\ place \in [Actors -> GuiBrushPlaces \cup ReconnectorPlaces]
  /\ place["gui"] \in GuiBrushPlaces
  /\ \A t \in Reconnectors : place[t] \in ReconnectorPlaces

Holding == {"store", "closeOld", "close", "closeKept"}

\* A thread with nothing to keep or close has no receiver, and the one that a
\* reconnect thread is about to forget is not open.
HandsInv ==
  \A t \in Actors :
    /\ place[t] \notin Holding => mine[t] = NoReceiver
    /\ place[t] = "close" => mine[t] \notin open

\* While close() waits the event is set, and after it nothing clears it.
StopInv ==
  /\ place["gui"] \in {"join", "closeKept"} => stop_reconnect = "set"
  /\ place["gui"] = "closed" => stop_reconnect # "clear"

\* With the event set, a thread that was not past its look at it never gets there.
CalmInv ==
  place["gui"] \in {"closeKept", "closed"} /\ abandoned = {} /\ stop_reconnect = "set" =>
    /\ bs = NoReceiver
    /\ \A t \in Reconnectors : ~Underway(t)

BrushInv == BrushTypeInv /\ ReceiversAreOwned /\ HandsInv /\ StopInv /\ CalmInv

LEMMA BrushInitInv == BrushInit \/ BrushUnused => BrushInv
  BY BrushAssumption
     DEF BrushInit, BrushUnused, Blank, BrushInv, BrushTypeInv, ReceiversAreOwned, HandsInv,
         StopInv, CalmInv, Underway, Holding, Actors, ReconnectorPlaces, GuiBrushPlaces

\* openPort() takes a receiver that was closed and that no thread refers to.
LEMMA OpenTakesSpare ==
  ASSUME NEW t \in Actors, openPort(t)
  PROVE  \/ \E r \in Spare : /\ mine' = [mine EXCEPT ![t] = r]
                             /\ open' = open \cup {r}
                             /\ Move(t, "open", "store")
         \/ Move(t, "open", Failed(t)) /\ mine' = mine /\ open' = open
<1> DEFINE r == CHOOSE r \in Spare : TRUE
<1>1. Spare # {} => r \in Spare
  OBVIOUS
<1> QED
  BY <1>1 DEF openPort

\* The type invariant is preserved.
LEMMA BrushTypeStep ==
  ASSUME BrushTypeInv, [BrushNext]_brushVars
  PROVE  BrushTypeInv'
<1> USE BrushAssumption
    DEF BrushTypeInv, Actors, GuiBrushPlaces, ReconnectorPlaces, Move, Connected, Failed,
        sourceVars, portVars
<1>1. ASSUME NEW t \in Actors, detect(t) \/ cancel(t)  PROVE BrushTypeInv'
  BY <1>1 DEF detect, cancel
<1>2. ASSUME NEW t \in Actors, openPort(t)  PROVE BrushTypeInv'
  <2>1. bs' = bs /\ stop_reconnect' = stop_reconnect
    BY <1>2 DEF openPort
  <2>2. CASE Move(t, "open", Failed(t)) /\ mine' = mine /\ open' = open
    BY <2>1, <2>2
  <2>3. ASSUME NEW r \in Spare, mine' = [mine EXCEPT ![t] = r], open' = open \cup {r},
               Move(t, "open", "store")
        PROVE  BrushTypeInv'
    BY <2>1, <2>3 DEF Spare
  <2> QED
    BY <1>2, <2>2, <2>3, OpenTakesSpare
<1>3. ASSUME NEW t \in Actors, startFails(t) \/ keep(t) \/ closeOld(t)  PROVE BrushTypeInv'
  BY <1>3 DEF startFails, keep, closeOld
<1>4. ASSUME NEW t \in Reconnectors, loop(t) \/ waited(t) \/ forget(t) \/ backoff(t)
      PROVE  BrushTypeInv'
  BY <1>4 DEF loop, waited, forget, backoff
<1>5. CASE startReconnect \/ toggleOff \/ toggleOn
  BY <1>5 DEF startReconnect, toggleOff, toggleOn
<1>6. CASE closeBrush \/ joinedBrush \/ closeKept
  BY <1>6 DEF closeBrush, joinedBrush, closeKept
<1>7. CASE rxFails \/ unplug \/ plugIn
  BY <1>7 DEF rxFails, unplug, plugIn
<1>8. CASE UNCHANGED brushVars
  BY <1>8 DEF brushVars
<1> QED
  BY <1>1, <1>2, <1>3, <1>4, <1>5, <1>6, <1>7, <1>8
     DEF BrushNext, GuiBrush, ConnectBrush, ReconnectBrush

\* Ownership goes from hand to hand.
LEMMA HandsStep ==
  ASSUME BrushTypeInv, ReceiversAreOwned, HandsInv, [BrushNext]_brushVars
  PROVE  ReceiversAreOwned' /\ HandsInv'
<1> USE BrushAssumption
    DEF BrushTypeInv, ReceiversAreOwned, HandsInv, Holding, Actors, GuiBrushPlaces,
        ReconnectorPlaces, Move, Connected, Failed, sourceVars, portVars
<1> DEFINE Goal == ReceiversAreOwned' /\ HandsInv'
<1>1. ASSUME NEW t \in Actors, detect(t) \/ cancel(t)  PROVE Goal
  BY <1>1 DEF detect, cancel
<1>2. ASSUME NEW t \in Actors, openPort(t)  PROVE Goal
  <2>1. bs' = bs
    BY <1>2 DEF openPort
  <2>2. CASE Move(t, "open", Failed(t)) /\ mine' = mine /\ open' = open
    BY <2>1, <2>2
  <2>3. ASSUME NEW r \in Spare, mine' = [mine EXCEPT ![t] = r], open' = open \cup {r},
               Move(t, "open", "store")
        PROVE  Goal
    BY <2>1, <2>3 DEF Spare
  <2> QED
    BY <1>2, <2>2, <2>3, OpenTakesSpare
<1>3. ASSUME NEW t \in Actors, startFails(t) \/ keep(t) \/ closeOld(t)  PROVE Goal
  BY <1>3 DEF startFails, keep, closeOld
<1>4. ASSUME NEW t \in Reconnectors, loop(t) \/ waited(t) \/ forget(t) \/ backoff(t)
      PROVE  Goal
  BY <1>4 DEF loop, waited, forget, backoff
<1>5. CASE startReconnect \/ toggleOff \/ toggleOn
  BY <1>5 DEF startReconnect, toggleOff, toggleOn, Alive
<1>6. CASE closeBrush \/ joinedBrush \/ closeKept
  BY <1>6 DEF closeBrush, joinedBrush, closeKept
<1>7. CASE rxFails \/ unplug \/ plugIn
  BY <1>7 DEF rxFails, unplug, plugIn
<1>8. CASE UNCHANGED brushVars
  BY <1>8 DEF brushVars
<1> QED
  BY <1>1, <1>2, <1>3, <1>4, <1>5, <1>6, <1>7, <1>8
     DEF BrushNext, GuiBrush, ConnectBrush, ReconnectBrush

\* The event and what the threads do about it.
LEMMA CalmStep ==
  ASSUME BrushTypeInv, HandsInv, StopInv, CalmInv, [BrushNext]_brushVars
  PROVE  StopInv' /\ CalmInv'
<1> USE BrushAssumption
    DEF BrushTypeInv, StopInv, CalmInv, Underway, Actors, GuiBrushPlaces,
        ReconnectorPlaces, Move, Connected, Failed, sourceVars, portVars
<1> DEFINE Goal == StopInv' /\ CalmInv'
<1>1. ASSUME NEW t \in Actors, detect(t) \/ cancel(t)  PROVE Goal
  BY <1>1 DEF detect, cancel
<1>2. ASSUME NEW t \in Actors, openPort(t)  PROVE Goal
  BY <1>2 DEF openPort
<1>3. ASSUME NEW t \in Actors, startFails(t) \/ keep(t) \/ closeOld(t)  PROVE Goal
  BY <1>3 DEF startFails, keep, closeOld
<1>4. ASSUME NEW t \in Reconnectors, loop(t) \/ waited(t) \/ forget(t) \/ backoff(t)
      PROVE  Goal
  BY <1>4 DEF loop, waited, forget, backoff
<1>5. CASE startReconnect \/ toggleOff \/ toggleOn
  BY <1>5 DEF startReconnect, toggleOff, toggleOn
<1>6. CASE closeBrush \/ joinedBrush \/ closeKept
  BY <1>6 DEF closeBrush, joinedBrush, closeKept
<1>7. CASE rxFails \/ unplug \/ plugIn
  BY <1>7 DEF rxFails, unplug, plugIn
<1>8. CASE UNCHANGED brushVars
  BY <1>8 DEF brushVars
<1> QED
  BY <1>1, <1>2, <1>3, <1>4, <1>5, <1>6, <1>7, <1>8
     DEF BrushNext, GuiBrush, ConnectBrush, ReconnectBrush

-----------------------------------------------------------------------------
LEMMA BrushInvariance == Spec => []BrushInv
<1>1. Init => BrushInv
  BY BrushInitInv DEF Init
<1>2. [Next]_<<cameraVars, brushVars>> => [BrushNext]_brushVars
  BY DEF Next
<1>3. BrushInv /\ [Next]_<<cameraVars, brushVars>> => BrushInv'
  BY <1>2, BrushTypeStep, HandsStep, CalmStep DEF BrushInv
<1> QED
  BY <1>1, <1>3, PTL DEF Spec

\* No receiver, with its serial port, is lost track of, however many reconnect
\* threads of sources.py live on after the button was pressed.
THEOREM ReceiversAreAlwaysOwned == Spec => []ReceiversAreOwned
<1>1. BrushInv => ReceiversAreOwned
  BY DEF BrushInv
<1> QED
  BY <1>1, BrushInvariance, PTL

\* BrushSource.close() with the window leaves the port free, but for a thread it
\* did not wait for and for the event that main.py:666 replaces.
THEOREM PortIsAlwaysReleased == Spec => []PortIsReleased
<1>1. BrushInv => PortIsReleased
  BY BrushAssumption
     DEF BrushInv, BrushTypeInv, ReceiversAreOwned, HandsInv, StopInv, CalmInv, Holding,
         Underway, Actors, ReconnectorPlaces, PortIsReleased
<1> QED
  BY <1>1, BrushInvariance, PTL

=============================================================================
