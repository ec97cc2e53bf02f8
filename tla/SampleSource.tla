---------------------------- MODULE SampleSource ----------------------------
(***************************************************************************)
(* What the C3 node promises to the rest of the system about its samples:  *)
(* they are numbered as they are taken, at most Capacity of the newest     *)
(* ones are held, bundles of consecutive samples leave in order, and a     *)
(* sample that never leaves is counted.  C3Sender implements it; RadioLink *)
(* uses it in place of the node.                                           *)
(***************************************************************************)
EXTENDS Integers

CONSTANTS
  Capacity,   (* samples held at most *)
  MaxBundle   (* samples in one bundle at most *)

ASSUME CapacityAssumption == Capacity \in Nat \ {0} /\ MaxBundle \in Nat \ {0}

VARIABLES
  taken,      (* samples taken: the next frame_id *)
  oldest,     (* frame_id of the oldest sample held; taken when none is *)
  handed,     (* samples handed over to the radio *)
  given_up    (* samples dropped and counted *)

sourceVars == <<taken, oldest, handed, given_up>>

Held == taken - oldest

SourceInit ==
  /\ taken = 0
  /\ oldest = 0
  /\ handed = 0
  /\ given_up = 0

\* A new sample; the oldest one makes room for it when all slots are in use.
Take ==
  /\ taken' = taken + 1
  /\ IF Held = Capacity
       THEN oldest' = oldest + 1 /\ given_up' = given_up + 1
       ELSE UNCHANGED <<oldest, given_up>>
  /\ UNCHANGED handed

HandOver(count) ==
  /\ count <= Held
  /\ oldest' = oldest + count
  /\ handed' = handed + count
  /\ UNCHANGED <<taken, given_up>>

GiveUp(count) ==
  /\ count <= Held
  /\ oldest' = oldest + count
  /\ given_up' = given_up + count
  /\ UNCHANGED <<taken, handed>>

SourceNext ==
  \/ Take
  \/ \E count \in 1 .. MaxBundle : HandOver(count)
  \/ \E count \in 1 .. Capacity : GiveUp(count)

SourceSpec == SourceInit /\ [][SourceNext]_sourceVars
=============================================================================
