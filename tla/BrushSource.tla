---------------------------- MODULE BrushSource ----------------------------
(***************************************************************************)
(* BrushSource of studio/sources.py with the buttons of studio/main.py     *)
(* that work it: the Studio's hold on the serial port of the S3 base.  The *)
(* GUI thread opens and closes it, a reconnect thread replaces a receiver  *)
(* that has lost its port; the "reconnect" button closes and starts anew,  *)
(* and a reconnect thread that close() has not waited for lives on, since  *)
(* start() clears the event it was to see.                                 *)
(*                                                                         *)
(* External: the base is plugged in at one of the serial ports or at none, *)
(* a port is opened by one receiver at a time, and the receive thread of a *)
(* receiver ends when the port goes (BrushSerial._run).                    *)
(***************************************************************************)
EXTENDS Naturals, FiniteSets

CONSTANTS
  Receivers,     (* receiver objects, used again after they were closed *)
  NoReceiver,
  Ports,
  NoPort,
  Preferred,     (* _preferred_port *)
  Reconnectors,  (* threads that run _reconnect_loop *)
  NoThread,
  MaxUnplugs,    (* bound: times the base is unplugged *)
  MaxPresses     (* bound: uses of the button and the check box *)

ASSUME BrushAssumption ==
  /\ NoReceiver \notin Receivers
  /\ NoPort \notin Ports
  /\ Preferred \in Ports \cup {NoPort}
  /\ NoThread \notin Reconnectors
  /\ "gui" \notin Reconnectors
  /\ MaxUnplugs \in Nat
  /\ MaxPresses \in Nat

Actors == Reconnectors \cup {"gui"}

VARIABLES
  bs,                (* the kept receiver *)
  port,              (* port *)
  stop_reconnect,    (* the event "clear" or "set", or "replaced" by True *)
  auto_reconnect,
  reconnect_thread,  (* _reconnect_thread *)
  place,             (* where each thread is *)
  mine,              (* the receiver in a local variable of each thread *)
  closing,           (* the window closes, or never wanted the source *)
  open,              (* receivers with their port open *)
  on,                (* the port of each receiver *)
  device,            (* where the base is plugged in *)
  unplugs, presses,
  abandoned          (* threads in the middle of something when close() had waited *)

sourceVars == <<bs, port, stop_reconnect, auto_reconnect, reconnect_thread>>
portVars == <<open, on, device>>
pressVars == <<unplugs, presses>>
brushVars == <<sourceVars, place, mine, closing, portVars, pressVars, abandoned>>

Blank ==
  /\ bs = NoReceiver
  /\ port = Preferred
  /\ auto_reconnect = TRUE
  /\ reconnect_thread = NoThread
  /\ mine = [t \in Actors |-> NoReceiver]
  /\ open = {}
  /\ on = [r \in Receivers |-> NoPort]
  /\ unplugs = 0 /\ presses = 0
  /\ abandoned = {}

\* main.py: the window is being built and about to start the source.
BrushInit ==
  /\ Blank
  /\ closing = FALSE
  /\ stop_reconnect = "clear"
  /\ place = [t \in Actors |-> IF t = "gui" THEN "detect" ELSE "off"]
  /\ device \in Ports \cup {NoPort}

\* --no-brush: the source is there and never started, nor its buttons pressed.
BrushUnused ==
  /\ Blank
  /\ closing = TRUE
  /\ stop_reconnect = "clear"
  /\ place = [t \in Actors |-> "off"]
  /\ device = CHOOSE p \in Ports : TRUE

Move(t, from, to) == place[t] = from /\ place' = [place EXCEPT ![t] = to]

\* After _connect_brush(), and after an exception in it.
Connected(t) == IF t = "gui" THEN "startThread" ELSE "loop"
Failed(t) == IF t = "gui" THEN "startThread" ELSE "backoff"

\* Receivers whose port is there no more.
Gone == {r \in open : on[r] # device}

\* A receiver object nobody refers to.
Spare == {r \in Receivers : r \notin open /\ r # bs /\ \A t \in Actors : mine[t] # r}

Busy(p) == \E r \in open : on[r] = p
-----------------------------------------------------------------------------
(* _connect_brush(), in the GUI thread or a reconnect thread. *)

\* auto_detect_port() when the port is not known.  A port in use does not answer.
detect(t) ==
  /\ \/ /\ port # NoPort
        /\ Move(t, "detect", "testStop")
        /\ UNCHANGED port
     \/ /\ port = NoPort /\ device # NoPort /\ ~Busy(device)
        /\ port' = device
        /\ Move(t, "detect", "testStop")
     \/ /\ port = NoPort /\ (device = NoPort \/ Busy(device))
        /\ Move(t, "detect", Failed(t))
        /\ UNCHANGED port
  /\ UNCHANGED <<bs, stop_reconnect, auto_reconnect, reconnect_thread, mine, closing,
                 portVars, pressVars, abandoned>>

\* Faulty variant: the event is not looked at again after the search.
cancelNever(t) ==
  /\ Move(t, "testStop", "open")
  /\ UNCHANGED <<sourceVars, mine, closing, portVars, pressVars, abandoned>>

\* Is it set?  (On True, is_set() raises.)
cancel(t) ==
  /\ \/ stop_reconnect = "clear" /\ Move(t, "testStop", "open")
     \/ stop_reconnect # "clear" /\ Move(t, "testStop", Failed(t))
  /\ UNCHANGED <<sourceVars, mine, closing, portVars, pressVars, abandoned>>

\* decoder(...) and receiver.start().
openPort(t) ==
  /\ \/ /\ port # NoPort /\ port = device /\ ~Busy(port)
        /\ Spare # {}
        /\ LET r == CHOOSE r \in Spare : TRUE
           IN  /\ mine' = [mine EXCEPT ![t] = r]
               /\ open' = open \cup {r}
               /\ on' = [on EXCEPT ![r] = port]
        /\ Move(t, "open", "store")
     \/ /\ port = NoPort \/ port # device \/ Busy(port)
        /\ Move(t, "open", Failed(t))
        /\ UNCHANGED <<mine, open, on>>
  /\ UNCHANGED <<sourceVars, closing, device, pressVars, abandoned>>

\* receiver.start() writes a ping, which fails if the base has gone again.
startFails(t) ==
  /\ Move(t, "store", Failed(t))
  /\ on[mine[t]] # device
  /\ open' = open \ {mine[t]}
  /\ mine' = [mine EXCEPT ![t] = NoReceiver]
  /\ UNCHANGED <<sourceVars, closing, on, device, pressVars, abandoned>>

\* Under the lock the new receiver takes the place of the old one ...
keep(t) ==
  /\ Move(t, "store", "closeOld")
  /\ bs' = mine[t]
  /\ mine' = [mine EXCEPT ![t] = bs]
  /\ UNCHANGED <<port, stop_reconnect, auto_reconnect, reconnect_thread, closing, portVars,
                 pressVars, abandoned>>

\* ... which is closed outside.
closeOld(t) ==
  /\ Move(t, "closeOld", Connected(t))
  /\ open' = open \ {mine[t]}
  /\ mine' = [mine EXCEPT ![t] = NoReceiver]
  /\ UNCHANGED <<sourceVars, closing, on, device, pressVars, abandoned>>

ConnectBrush(t) == detect(t) \/ cancel(t) \/ openPort(t) \/ startFails(t) \/ keep(t) \/ closeOld(t)
-----------------------------------------------------------------------------
(* _reconnect_loop(). *)

\* The loop condition takes hold of the event; on True, wait() raises and the
\* thread is over.
loop(t) ==
  /\ \/ stop_reconnect = "clear" /\ Move(t, "loop", "wait")
     \/ stop_reconnect # "clear" /\ Move(t, "loop", "off")
  /\ UNCHANGED <<sourceVars, mine, closing, portVars, pressVars, abandoned>>

\* Faulty variant: a receiver is there, so all is well.
waitedKeeping(t) ==
  /\ \/ stop_reconnect = "set" /\ Move(t, "wait", "off")
     \/ stop_reconnect # "set" /\ (~auto_reconnect \/ bs # NoReceiver) /\ Move(t, "wait", "loop")
     \/ stop_reconnect # "set" /\ auto_reconnect /\ bs = NoReceiver /\ Move(t, "wait", "close")
  /\ UNCHANGED <<sourceVars, mine, closing, portVars, pressVars, abandoned>>

\* Two seconds have passed, or the event was set; is the receiver at work?
waited(t) ==
  /\ \/ stop_reconnect = "set" /\ Move(t, "wait", "off") /\ UNCHANGED mine
     \/ /\ stop_reconnect # "set"
        /\ ~auto_reconnect \/ bs \in open
        /\ Move(t, "wait", "loop")
        /\ UNCHANGED mine
     \/ /\ stop_reconnect # "set"
        /\ auto_reconnect /\ bs \notin open
        /\ mine' = [mine EXCEPT ![t] = bs]
        /\ Move(t, "wait", "close")
  /\ UNCHANGED <<sourceVars, closing, portVars, pressVars, abandoned>>

\* Close what has stopped, and forget it if it is still the one kept.
forget(t) ==
  /\ Move(t, "close", "detect")
  /\ bs' = IF mine[t] = bs THEN NoReceiver ELSE bs
  /\ mine' = [mine EXCEPT ![t] = NoReceiver]
  /\ port' = IF Preferred = NoPort THEN NoPort ELSE port
  /\ UNCHANGED <<stop_reconnect, auto_reconnect, reconnect_thread, closing, portVars,
                 pressVars, abandoned>>

\* The pause after a failure; here True ends the thread as well.
backoff(t) ==
  /\ \/ stop_reconnect = "replaced" /\ Move(t, "backoff", "off")
     \/ stop_reconnect # "replaced" /\ Move(t, "backoff", "loop")
  /\ UNCHANGED <<sourceVars, mine, closing, portVars, pressVars, abandoned>>

ReconnectBrush(t) ==
  loop(t) \/ waited(t) \/ forget(t) \/ backoff(t) \/ ConnectBrush(t)
-----------------------------------------------------------------------------
(* The GUI thread. *)

Alive(t) == t \in Reconnectors /\ place[t] # "off"

\* _start_reconnect_thread(), at the end of start().
startReconnect ==
  /\ place["gui"] = "startThread"
  /\ \/ /\ ~auto_reconnect \/ Alive(reconnect_thread)
        /\ place' = [place EXCEPT !["gui"] = "idle"]
        /\ UNCHANGED <<stop_reconnect, reconnect_thread>>
     \/ /\ auto_reconnect /\ ~Alive(reconnect_thread)
        /\ \E t \in Reconnectors :
             /\ ~Alive(t)
             /\ stop_reconnect' = "clear"
             /\ reconnect_thread' = t
             /\ place' = [place EXCEPT !["gui"] = "idle", ![t] = "loop"]
  /\ UNCHANGED <<bs, port, auto_reconnect, mine, closing, portVars, pressVars, abandoned>>

\* close(), by the button or with the window: set() raises on True.
closeBrush ==
  /\ \/ closing' = TRUE /\ UNCHANGED presses
     \/ /\ presses < MaxPresses /\ presses' = presses + 1
        /\ \E t \in Reconnectors : ~Alive(t)
        /\ UNCHANGED closing
  /\ \/ /\ stop_reconnect # "replaced"
        /\ stop_reconnect' = "set"
        /\ Move("gui", "idle", "join")
     \/ /\ stop_reconnect = "replaced"
        /\ Move("gui", "idle", IF closing' THEN "closed" ELSE "idle")
        /\ UNCHANGED stop_reconnect
  /\ UNCHANGED <<bs, port, auto_reconnect, reconnect_thread, mine, portVars, unplugs,
                 abandoned>>

\* Past its look at the event.
Underway(t) == place[t] \in {"open", "store", "closeOld"}

\* The thread has ended, or join() has waited for two seconds.
joinedBrush ==
  /\ Move("gui", "join", "closeKept")
  /\ abandoned' = {t \in Reconnectors : Underway(t)}
  /\ reconnect_thread' = NoThread
  /\ mine' = [mine EXCEPT !["gui"] = bs]
  /\ bs' = NoReceiver
  /\ UNCHANGED <<port, stop_reconnect, auto_reconnect, closing, portVars, pressVars>>

\* Then the button's start() begins, which clears the event.
closeKept ==
  /\ Move("gui", "closeKept", IF closing THEN "closed" ELSE "detect")
  /\ open' = open \ {mine["gui"]}
  /\ mine' = [mine EXCEPT !["gui"] = NoReceiver]
  /\ stop_reconnect' = IF closing THEN stop_reconnect ELSE "clear"
  /\ UNCHANGED <<bs, port, auto_reconnect, reconnect_thread, closing, on, device, pressVars,
                 abandoned>>

\* _toggle_auto_reconnect(False): the event is replaced by True.
toggleOff ==
  /\ place["gui"] = "idle" /\ auto_reconnect
  /\ presses < MaxPresses /\ presses' = presses + 1
  /\ auto_reconnect' = FALSE
  /\ stop_reconnect' = "replaced"
  /\ UNCHANGED <<bs, port, reconnect_thread, place, mine, closing, portVars, unplugs,
                 abandoned>>

\* _toggle_auto_reconnect(True): with a thread alive there is nothing to do; else
\* clear() raises on True.
toggleOn ==
  /\ place["gui"] = "idle" /\ ~auto_reconnect
  /\ presses < MaxPresses /\ presses' = presses + 1
  /\ auto_reconnect' = TRUE
  /\ UNCHANGED <<bs, port, stop_reconnect, reconnect_thread, place, mine, closing, portVars,
                 unplugs, abandoned>>

GuiBrush == ConnectBrush("gui") \/ startReconnect \/ joinedBrush \/ closeKept
-----------------------------------------------------------------------------
(* The port. *)

\* BrushSerial._run(): reading fails, and the thread closes the port.
rxFails ==
  /\ \E r \in Gone : open' = open \ {r}
  /\ UNCHANGED <<sourceVars, place, mine, closing, on, device, pressVars, abandoned>>

unplug ==
  /\ device # NoPort /\ unplugs < MaxUnplugs
  /\ place["gui"] # "off"
  /\ unplugs' = unplugs + 1
  /\ device' = NoPort
  /\ UNCHANGED <<sourceVars, place, mine, closing, open, on, presses, abandoned>>

\* The name of the port may be another one.  The receive thread, which reads all
\* the time, has noticed the loss by then.
plugIn ==
  /\ device = NoPort /\ Gone = {}
  /\ device' \in Ports
  /\ UNCHANGED <<sourceVars, place, mine, closing, open, on, pressVars, abandoned>>

BrushNext ==
  \/ GuiBrush \/ closeBrush \/ toggleOff \/ toggleOn
  \/ \E t \in Reconnectors : ReconnectBrush(t)
  \/ rxFails \/ unplug \/ plugIn

\* Threads run, a broken port is noticed, and the base gets plugged in again.
BrushFairness ==
  /\ WF_brushVars(GuiBrush)
  /\ \A t \in Reconnectors : WF_brushVars(ReconnectBrush(t))
  /\ WF_brushVars(rxFails)
  /\ WF_brushVars(plugIn)

-----------------------------------------------------------------------------
\* Every open receiver is kept or in the hands of a thread that will keep or
\* close it: no port is held for nobody, however many reconnect threads there
\* are (sources.py:424-431, 458-470, 519-528).
ReceiversAreOwned == open \subseteq {bs} \cup {mine[t] : t \in Actors}

\* Once the window has closed the port is free, unless a thread was past its look
\* at the event when close() stopped waiting, or the event was replaced.
PortIsReleased ==
  place["gui"] = "closed" /\ abandoned = {} /\ stop_reconnect # "replaced" => open = {}

\* sources.py:467, "Auto detected ports may change after a USB unplug/replug": once
\* the base stays plugged in, wherever, the Studio is connected to it for good;
\* for a user who leaves the check box alone, and with one reconnect thread: two
\* can go on taking the port's name away from each other, between 412 and 418.
PortComesBack ==
  \/ <>[](bs \in open \ Gone)
  \/ <>[](closing \/ stop_reconnect = "replaced"
           \/ Cardinality({t \in Reconnectors : Alive(t)}) > 1)
=============================================================================
