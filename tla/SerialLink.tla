----------------------------- MODULE SerialLink -----------------------------
(***************************************************************************)
(* The serial transport (notify/transport/serial_tx.py) of every broker    *)
(* process, beside the start and stop of the processes: they share one     *)
(* device as they share one socket path.                                   *)
(*                                                                         *)
(* A process makes its transport and starts its Vibe watcher before it     *)
(* looks at the socket, and the watcher's events push frames.  So a        *)
(* process that will be refused can open the port and paint the device.    *)
(* A send runs under the broker's lock and is one action.                  *)
(***************************************************************************)
EXTENDS BrokerLifecycle

CONSTANTS Ports,       \* the names under which the device can enumerate
          NoPort,      \* no port
          Configured,  \* the --port argument, NoPort to detect the device
          Nobody       \* the device shows no frame

ASSUME PortAssumption ==
  NoPort \notin Ports /\ Configured \in Ports \cup {NoPort} /\ Nobody \notin Brokers

VARIABLES
  port,     \* process -> _port, the name its transport has settled on
  handle,   \* process -> _serial: closed, open on the device, or dead, when
            \* the device has been unplugged since it was opened
  plugged,  \* the name under which the device is there, NoPort without it
  wedged,   \* the device takes no bytes
  shown     \* the process whose frame the device shows

deviceVars == <<plugged, wedged>>
linkVars   == <<port, handle, shown, deviceVars>>
allVars    == <<vars, linkVars>>

(* A handle is open only on a device that is plugged in, under the name    *)
(* its transport has settled on.                                           *)
LinkTypeOK ==
  /\ port \in [Brokers -> Ports \cup {NoPort}]
  /\ handle \in [Brokers -> {"closed", "open", "dead"}]
  /\ \A b \in Brokers : handle[b] = "open" => port[b] = plugged /\ plugged # NoPort
  /\ plugged \in Ports \cup {NoPort}
  /\ wedged \in BOOLEAN
  /\ shown \in Brokers \cup {Nobody}

LinkInit ==
  /\ Init
  /\ port = [b \in Brokers |-> Configured]
  /\ handle = [b \in Brokers |-> "closed"]
  /\ plugged \in Ports \cup {NoPort}
  /\ wedged = FALSE
  /\ shown = Nobody

(***************************************************************************)
(* SerialTransport                                                         *)
(***************************************************************************)

(* The name to open: the one settled on, or else the device that is there. *)
Target(b) == IF port[b] # NoPort THEN port[b] ELSE plugged

(* Mutant: the port is not opened exclusively.                             *)
OpensShared(b) == Target(b) # NoPort /\ Target(b) = plugged

(* The open succeeds: the device is there and no other process has it.     *)
Opens(b) ==
  /\ Target(b) # NoPort
  /\ Target(b) = plugged
  /\ \A c \in Brokers \ {b} : handle[c] # "open"

(* Mutant: a handle that failed a write is kept.                           *)
SendKeepsHandle(b) ==
  IF handle[b] = "closed" /\ ~Opens(b)
    THEN UNCHANGED <<port, handle, shown>>
    ELSE /\ port' = [port EXCEPT ![b] = IF handle[b] = "closed" THEN Target(b) ELSE @]
         /\ handle' = [handle EXCEPT ![b] = IF @ = "closed" THEN "open" ELSE @]
         /\ shown' = IF handle[b] = "dead" \/ wedged THEN shown ELSE b

(* send: the port is opened when it is not, and settled on then; a write   *)
(* that fails or times out closes it.                                      *)
Send(b) ==
  LET written == handle[b] # "dead" /\ ~wedged IN
  IF handle[b] = "closed" /\ ~Opens(b)
    THEN UNCHANGED <<port, handle, shown>>
    ELSE /\ port' = [port EXCEPT ![b] = IF handle[b] = "closed" THEN Target(b) ELSE @]
         /\ handle' = [handle EXCEPT ![b] = IF written THEN "open" ELSE "closed"]
         /\ shown' = IF written THEN b ELSE shown

(* An event of a hook or of the watcher, or the snapshot heartbeat.        *)
Pushes(b) ==
  /\ b \in Starting \cup Serving \cup Stopping
  /\ Send(b)
  /\ UNCHANGED <<vars, deviceVars>>

(***************************************************************************)
(* The process                                                             *)
(***************************************************************************)

(* Each step of the process, and its transport: made when it starts, and   *)
(* closed by transport.close() or by the system when it ends.              *)
Starts(b) ==
  /\ Start(b) \/ StartAgain(b)
  /\ port' = [port EXCEPT ![b] = Configured]
  /\ UNCHANGED <<handle, shown, deviceVars>>

Guards(b) ==
  /\ SocketExists(b) \/ SocketAbsent(b) \/ FindsLeftover(b) \/ Closes(b)
  /\ UNCHANGED linkVars

(* The bind is followed by the first frame, of an empty table.             *)
Serves(b) ==
  /\ Binds(b)
  /\ Send(b)
  /\ UNCHANGED deviceVars

Ends(b) ==
  /\ Refuses(b) \/ ClearsLeftover(b) \/ Unlinks(b) \/ Crashes(b)
  /\ handle' = IF pc'[b] = "binding" THEN handle ELSE [handle EXCEPT ![b] = "closed"]
  /\ UNCHANGED <<port, shown, deviceVars>>

(***************************************************************************)
(* The device                                                              *)
(***************************************************************************)

(* Powered anew, it shows nothing.                                         *)
Plugs(p) ==
  /\ plugged = NoPort
  /\ plugged' = p
  /\ wedged' = FALSE
  /\ shown' = Nobody
  /\ UNCHANGED <<vars, port, handle>>

(* What was open stays so in the process until a write fails.              *)
Unplugs ==
  /\ plugged # NoPort
  /\ plugged' = NoPort
  /\ handle' = [b \in Brokers |-> IF handle[b] = "open" THEN "dead" ELSE handle[b]]
  /\ UNCHANGED <<vars, port, wedged, shown>>

Wedges ==
  /\ plugged # NoPort
  /\ wedged' = ~wedged
  /\ UNCHANGED <<vars, port, handle, plugged, shown>>

Device == Unplugs \/ Wedges \/ \E p \in Ports : Plugs(p)

LinkNext ==
  \/ \E b \in Brokers : Starts(b) \/ Guards(b) \/ Serves(b) \/ Ends(b) \/ Pushes(b)
  \/ Device

(* The processes are as fair as before, and a broker that serves pushes a  *)
(* frame every 30 s while its ring is populated.  A process that will be   *)
(* refused is gone within a second, so that it does not hold the port at   *)
(* every push of the one that serves.                                      *)
PushFairness ==
  \A b \in Brokers :
    /\ WF_allVars(b \in Serving /\ Pushes(b))
    /\ SF_allVars(b \in Serving /\ Opens(b) /\ Pushes(b))

SerialSpec == LinkInit /\ [][LinkNext]_allVars

FairSerialSpec == SerialSpec /\ Fairness /\ PushFairness

(***************************************************************************)
(* Properties                                                              *)
(***************************************************************************)

(* While the broker that serves has the port, no other process paints the  *)
(* device: a second one that has started its watcher but will be refused   *)
(* cannot mix its frames in (the comments on exclusive and on the guard).  *)
ServerKeepsDevice ==
  [][\A b \in Serving : handle[b] = "open" => shown' \in {shown, b}]_allVars

(* The device is there and works.                                          *)
Works(p) == plugged = p /\ ~wedged

(* A device that works again under the name the transport knows shows the  *)
(* frames of the broker that serves, and nobody else's: after an unplug, a *)
(* wedged device or a port that a refused process held for a moment.       *)
DeviceFollowsServer ==
  \A b \in Brokers, p \in Ports :
    <>[](pc[b] = "serving" /\ Works(p) /\ port[b] \in {p, NoPort})
      => <>[](shown = b)

(* The same under whatever name it comes back: "Reconnects automatically   *)
(* if the port disappears (e.g. USB unplug)" (the module comment).         *)
DeviceFoundAgain ==
  \A b \in Brokers, p \in Ports :
    <>[](pc[b] = "serving" /\ Works(p)) => <>[](shown = b)
=============================================================================
