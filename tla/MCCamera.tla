------------------------------ MODULE MCCamera ------------------------------
(***************************************************************************)
(* The camera's processes for TLC, each part explored with the others at   *)
(* rest: they share no state, as Watchdog has one supervisor that owns the *)
(* memory, ShmOwner leaves out when a worker is restarted, FrameShm has    *)
(* its own ShmSupervisor and TdBridge, the SDK's side of the worker, ends  *)
(* at publish().  The mount of the Hall sensor, which has nothing to do    *)
(* with them, is explored here as well: like them it promises no progress. *)
(***************************************************************************)
EXTENDS FrameShm, Watchdog, ShmOwner, TdBridge, HallExtrinsic

\* Three waits that grow.
BackoffTimesMC == <<1, 2, 4>>

\* The processes of a kind are alike: they are numbered, and start in order.
SupervisorsMC == 1..3
WorkersMC == 11..13

InOrder ==
  /\ \A s, t \in Supervisors : s < t /\ pc'[t] # "off" => pc'[s] # "off"
  /\ \A v, w \in Workers : v < w /\ worker'[w] # "unused" => worker'[v] # "unused"

\* Everywhere but between the start of a worker and the record of its id, and
\* in the stop that an interrupt there leads to.
SafeCrashPoints == Places \ {"record", "recorded", "stop", "stopping"}

\* RGB and depth, or RGB alone.
OffersMC == {{1, 2}, {1}}

\* The third packet fills the slot of the first, and with other fields.
FieldsChange ==
  \A i, j \in DOMAIN log' : (log'[i].fields = log'[j].fields) <=> (i < 3 <=> j < 3)

\* What the theorems about these parts assume.
ASSUME ProofAssumption == NoticedInTime /\ GrowingBackoff /\ Orderly

VARIABLE part  (* the part that moves *)

MCInit ==
  /\ Init /\ OwnerInit /\ FramesInit
  /\ \/ part \in {"watchdog", "owners", "frames"} /\ BridgeUnused /\ HallUnused
     \/ part = "bridge" /\ BridgeInit /\ HallUnused
     \/ part = "hall" /\ BridgeUnused /\ HallInit

MCNext ==
  /\ UNCHANGED part
  /\ \/ /\ part = "watchdog" /\ Next
        /\ UNCHANGED <<ownerVars, framesVars, bridgeVars, hallVars>>
     \/ /\ part = "owners" /\ OwnerNext /\ InOrder
        /\ UNCHANGED <<vars, framesVars, bridgeVars, hallVars>>
     \/ /\ part = "frames" /\ FramesNext /\ FieldsChange
        /\ UNCHANGED <<vars, ownerVars, bridgeVars, hallVars>>
     \/ /\ part = "bridge" /\ BridgeNext
        /\ UNCHANGED <<vars, ownerVars, framesVars, hallVars>>
     \/ /\ part = "hall" /\ HallNext
        /\ UNCHANGED <<vars, ownerVars, framesVars, bridgeVars>>

MCSpec == MCInit /\ [][MCNext]_<<vars, ownerVars, framesVars, bridgeVars, hallVars, part>>
=============================================================================
