----------------------------- MODULE BleCentral -----------------------------
(***************************************************************************)
(* How the S3 finds the pen node over BLE and gets it back: manageRadio()  *)
(* of src/s3_engine.cpp, called from loop(), with the NimBLE callbacks of  *)
(* both boards.  The callbacks run in the NimBLE task, on another core     *)
(* than loop(), and share three volatile flags with it.                    *)
(*                                                                         *)
(* loop()'s place in manageRadio() is radio_at:                            *)
(*   "top"       before the test of shouldConnect                          *)
(*   "connect"   in radioClient->connect()                                 *)
(*   "discover"  in getService(), getCharacteristic(), subscribe()         *)
(*   "subscribed"  subscribe() has returned true                           *)
(*   "after"     before the last  if (!connected) beginScan()              *)
(*                                                                         *)
(* Each board learns of the end of a connection by itself, when its own    *)
(* supervision timer runs out.                                             *)
(***************************************************************************)
EXTENDS Naturals

CONSTANTS
  MaxFaults,    (* bound: disturbances in a behaviour *)
  LossInWindow  (* whether the link may end between subscribe() and connected = true *)

ASSUME CentralAssumption == MaxFaults \in Nat /\ LossInWindow \in BOOLEAN

VARIABLES
  radio_at,
  shouldConnect, connected,
  scanning,       (* NimBLEDevice::getScan()->isScanning() *)
  stopping,       (* onResult() is about to call stop() *)
  linked,         (* the S3's host has a connection *)
  node_connected,   (* the node's host has one: its ble_connected *)
  node_subscribed,  (* its subscribed *)
  advertising,    (* the node advertises *)
  reachable,      (* the boards hear each other *)
  faults

centralVars == <<shouldConnect, connected, scanning, stopping, linked>>
nodeVars    == <<node_connected, node_subscribed, advertising>>
bleVars     == <<radio_at, centralVars, nodeVars, reachable, faults>>

\* After initRadio() and initTransport().
BleInit ==
  /\ radio_at = "top"
  /\ shouldConnect = FALSE
  /\ connected = FALSE
  /\ scanning = TRUE
  /\ stopping = FALSE
  /\ linked = FALSE
  /\ node_connected = FALSE
  /\ node_subscribed = FALSE
  /\ advertising = TRUE
  /\ reachable \in BOOLEAN
  /\ faults = 0

\* Both boards have the connection and hear each other.
Sound == linked /\ node_connected /\ reachable

Fault == faults < MaxFaults /\ faults' = faults + 1

-----------------------------------------------------------------------------
(* loop() of the S3. *)

\* deleteClient() ends what is left of the connection before.
takeResult ==
  /\ radio_at = "top"
  /\ shouldConnect
  /\ shouldConnect' = FALSE
  /\ linked' = FALSE
  /\ radio_at' = "connect"
  /\ UNCHANGED <<connected, scanning, stopping, nodeVars, reachable, faults>>

rescan ==
  /\ radio_at = "top"
  /\ ~shouldConnect /\ ~connected /\ ~scanning
  /\ scanning' = TRUE
  /\ UNCHANGED <<radio_at, shouldConnect, connected, stopping, linked, nodeVars,
                 reachable, faults>>

\* connect() stops a scan that is still on, or it would be refused.
connectSucceeds ==
  /\ radio_at = "connect"
  /\ reachable /\ advertising
  /\ linked' = TRUE
  /\ scanning' = FALSE
  /\ node_connected' = TRUE
  /\ advertising' = FALSE
  /\ radio_at' = "discover"
  /\ UNCHANGED <<shouldConnect, connected, stopping, node_subscribed, reachable, faults>>

connectFails ==
  /\ radio_at = "connect"
  /\ IF reachable /\ advertising THEN Fault ELSE UNCHANGED faults
  /\ radio_at' = "after"
  /\ UNCHANGED <<centralVars, nodeVars, reachable>>

subscribeSucceeds ==
  /\ radio_at = "discover"
  /\ Sound
  /\ node_subscribed' = TRUE
  /\ radio_at' = "subscribed"
  /\ UNCHANGED <<centralVars, node_connected, advertising, reachable, faults>>

\* No such service, or an error: disconnect().
subscribeFails ==
  /\ radio_at = "discover"
  /\ IF Sound THEN Fault ELSE UNCHANGED faults
  /\ linked' = FALSE
  /\ radio_at' = "after"
  /\ UNCHANGED <<shouldConnect, connected, scanning, stopping, nodeVars, reachable>>

setConnected ==
  /\ radio_at = "subscribed"
  /\ connected' = TRUE
  /\ radio_at' = "after"
  /\ UNCHANGED <<shouldConnect, scanning, stopping, linked, nodeVars, reachable, faults>>

manageRadioDone ==
  /\ radio_at = "after"
  /\ scanning' = (scanning \/ ~connected)
  /\ radio_at' = "top"
  /\ UNCHANGED <<shouldConnect, connected, stopping, linked, nodeVars, reachable, faults>>

manageRadio == \/ takeResult \/ rescan
        \/ connectSucceeds \/ connectFails
        \/ subscribeSucceeds \/ subscribeFails
        \/ setConnected \/ manageRadioDone

-----------------------------------------------------------------------------
(* The NimBLE task of the S3. *)

onResult ==
  /\ scanning /\ reachable /\ advertising
  /\ ~connected /\ ~shouldConnect
  /\ ~stopping
  /\ shouldConnect' = TRUE
  /\ stopping' = TRUE
  /\ UNCHANGED <<radio_at, connected, scanning, linked, nodeVars, reachable, faults>>

stopScan ==
  /\ stopping
  /\ stopping' = FALSE
  /\ scanning' = FALSE
  /\ UNCHANGED <<radio_at, shouldConnect, connected, linked, nodeVars, reachable, faults>>

\* Faulty variant: the end of the connection goes unnoticed.
onClientDisconnectIgnored ==
  /\ linked
  /\ LossInWindow \/ radio_at # "subscribed"
  /\ IF Sound THEN Fault ELSE UNCHANGED faults
  /\ linked' = FALSE
  /\ UNCHANGED <<radio_at, shouldConnect, connected, scanning, stopping, nodeVars, reachable>>

\* ClientCallbacks::onDisconnect.  A spontaneous end counts as a fault.
onClientDisconnect ==
  /\ linked
  /\ LossInWindow \/ radio_at # "subscribed"
  /\ IF Sound THEN Fault ELSE UNCHANGED faults
  /\ linked' = FALSE
  /\ connected' = FALSE
  /\ UNCHANGED <<radio_at, shouldConnect, scanning, stopping, nodeVars, reachable>>

(* The NimBLE task of the node: ServerCallbacks::onDisconnect. *)
nodeDisconnect ==
  /\ node_connected
  /\ IF Sound THEN Fault ELSE UNCHANGED faults
  /\ node_connected' = FALSE
  /\ node_subscribed' = FALSE
  /\ advertising' = TRUE
  /\ UNCHANGED <<radio_at, centralVars, reachable>>

-----------------------------------------------------------------------------
(* The surroundings. *)

moveAway ==
  /\ reachable
  /\ Fault
  /\ reachable' = FALSE
  /\ UNCHANGED <<radio_at, centralVars, nodeVars>>

comeBack ==
  /\ ~reachable
  /\ reachable' = TRUE
  /\ UNCHANGED <<radio_at, centralVars, nodeVars, faults>>

BleNext == manageRadio \/ onResult \/ stopScan \/ onClientDisconnect \/ nodeDisconnect
             \/ moveAway \/ comeBack

\* loop() runs for ever, the NimBLE tasks deliver events and supervision
\* timers run out; the pen comes back into reach.
BleFairness ==
  /\ WF_bleVars(manageRadio)
  /\ WF_bleVars(onResult) /\ WF_bleVars(stopScan)
  /\ WF_bleVars(~Sound /\ onClientDisconnect)
  /\ WF_bleVars(~Sound /\ nodeDisconnect)
  /\ WF_bleVars(comeBack)

BleSpec == BleInit /\ [][BleNext]_bleVars /\ BleFairness

-----------------------------------------------------------------------------
Streaming == linked /\ connected /\ node_connected /\ node_subscribed

\* README.md:135, "let S3 connect automatically": once disturbances end, and
\* whatever they did to attempts under way, the data stream is up for good.
LinkIsRestored == <>[]Streaming

\* The S3 does not scan, which costs it air time, on a connection that works;
\* and a connection it is content with is subscribed on the node.
ContentMeansStreaming ==
  connected /\ linked /\ node_connected => node_subscribed /\ (scanning => stopping)
=============================================================================
