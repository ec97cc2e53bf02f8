---------------------------- MODULE MCRadioLink ----------------------------
(* RadioLink for TLC: packets come from the node only. *)
EXTENDS RadioLink

\* Datagrams multiply the orders of arrival: a smaller world for them, where
\* the node is not restarted and sends META once.
BootsOf  == [ble \in BOOLEAN |-> IF ble THEN 2 ELSE 1]
MetaOf   == [ble \in BOOLEAN |-> IF ble THEN 4 ELSE 99]
BundleOf == [ble \in BOOLEAN |-> IF ble THEN 2 ELSE 1]
=============================================================================
