----------------------------- MODULE MCFirmware -----------------------------
(***************************************************************************)
(* The parts of the two firmwares that share no state for TLC, each with   *)
(* the others at rest: the pen node's sensors; the search of the S3 base   *)
(* for the node with no computer on the line; and, while the node is       *)
(* connected for good, the line to the computer, in packets and in bytes.  *)
(***************************************************************************)
EXTENDS BleCentral, UsbLink, C3Sensors, Framing

\* A block of two bytes at most: packets with zeros at the start, in the middle
\* and at the end, and one of more than two blocks.
WirePackets == {<<1, 2>>, <<0, 1>>, <<2, 1, 0>>, <<1, 2, 1, 2, 1>>}

\* Connected, with no disturbance left in the bound.
ConnectedForGood ==
  /\ radio_at = "top"
  /\ linked = TRUE /\ connected = TRUE
  /\ node_connected = TRUE /\ node_subscribed = TRUE
  /\ shouldConnect = FALSE
  /\ scanning = FALSE
  /\ stopping = FALSE
  /\ advertising = FALSE
  /\ reachable = TRUE
  /\ faults = MaxFaults

MCInit ==
  \/ BleInit /\ UsbUnused /\ SensorsUnpowered /\ LineUnused
  \/ ConnectedForGood /\ UsbInit /\ SensorsUnpowered /\ LineUnused
  \/ ConnectedForGood /\ UsbUnused /\ SensorInit /\ LineUnused
  \/ ConnectedForGood /\ UsbUnused /\ SensorsUnpowered /\ FramingInit

MCNext ==
  \/ BleNext /\ UNCHANGED <<usbVars, sensorVars, framingVars>>
  \/ UsbNext /\ UNCHANGED <<bleVars, sensorVars, framingVars>>
  \/ SensorNext /\ UNCHANGED <<bleVars, usbVars, framingVars>>
  \/ FramingNext /\ UNCHANGED <<bleVars, usbVars, sensorVars>>

MCSpec ==
  /\ MCInit
  /\ [][MCNext]_<<bleVars, usbVars, sensorVars, framingVars>>
  /\ BleFairness /\ SensorFairness
=============================================================================
