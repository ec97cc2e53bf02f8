----------------------------- MODULE MCC3Sender -----------------------------
(* C3Sender for TLC, with constants the theorems speak of.                 *)
EXTENDS C3Sender

ASSUME ProofAssumption == SlowPeer /\ MetaLimits
=============================================================================
