-------------------------- MODULE SerialLinkProofs --------------------------
(***************************************************************************)
(* The start and stop of the broker, and the serial transport beside them, *)
(* proved for any number of broker processes and port names, with a device *)
(* that comes, goes and wedges at any time: the guard keeps one broker,    *)
(* and the exclusive lock on the port keeps the device to the one that     *)
(* serves.                                                                 *)
(***************************************************************************)
EXTENDS SerialLink, TLAPS

(***************************************************************************)
(* The singleton guard, for any number of processes, with crashes at any   *)
(* point, as long as starts overlap neither each other nor a stop: at most *)
(* one broker serves, and it owns the socket file.  The two overlaps are   *)
(* exactly what the runs show to break it.                                 *)
(***************************************************************************)

Moving == Starting \cup Stopping

(* What the guard relies on, beside the two properties: one process is on  *)
(* the move at a time, and by the time a starting broker removes or        *)
(* replaces the socket file, no other serves.                              *)
GuardInv ==
  /\ TypeOK
  /\ \A a, b \in Moving : a = b
  /\ Stopping # {} \/ At("clearing") # {} \/ At("binding") # {} => Serving = {}
  /\ SoleBroker
  /\ ServingReachable

Sequential == ~StartsOverlap /\ ~StopsOverlap

LEMMA InitGuarded == Init => GuardInv
BY DEF Init, GuardInv, TypeOK, SoleBroker, ServingReachable, Moving, Starting,
       Serving, Stopping, At

LEMMA StepGuarded ==
  ASSUME Sequential, GuardInv, [Next]_vars
  PROVE  GuardInv'
<1> USE DEF Goes, GuardInv, TypeOK, Moving, Starting, Serving, Stopping, At,
            SoleBroker, ServingReachable
<1>1. ASSUME NEW b \in Brokers, Start(b) \/ StartAgain(b) PROVE GuardInv'
  BY <1>1 DEF Start, StartAgain, MayStart, Failed, Sequential
<1>2. ASSUME NEW b \in Brokers, SocketExists(b) \/ SocketAbsent(b) PROVE GuardInv'
  BY <1>2, SocketAssumption DEF SocketExists, SocketAbsent
<1>3. ASSUME NEW b \in Brokers, Refuses(b) \/ FindsLeftover(b) PROVE GuardInv'
  BY <1>3 DEF Refuses, FindsLeftover, Answers
<1>4. ASSUME NEW b \in Brokers, ClearsLeftover(b) PROVE GuardInv'
  BY <1>4 DEF ClearsLeftover
<1>5. ASSUME NEW b \in Brokers, Binds(b) PROVE GuardInv'
  BY <1>5 DEF Binds
<1>6. ASSUME NEW b \in Brokers, Closes(b) PROVE GuardInv'
  BY <1>6 DEF Closes, Sequential
<1>7. ASSUME NEW b \in Brokers, Unlinks(b) PROVE GuardInv'
  BY <1>7 DEF Unlinks
<1>8. ASSUME NEW b \in Brokers, Crashes(b) PROVE GuardInv'
  BY <1>8 DEF Crashes
<1>9. CASE UNCHANGED vars
  BY <1>9 DEF vars
<1> QED
  BY <1>1, <1>2, <1>3, <1>4, <1>5, <1>6, <1>7, <1>8, <1>9 DEF Next, StartUp

LEMMA AlwaysGuarded ==
  ASSUME Sequential
  PROVE  Spec => []GuardInv
<1>1. GuardInv /\ [Next]_vars => GuardInv'
  BY StepGuarded
<1> QED
  BY <1>1, InitGuarded, PTL DEF Spec

(* When brokers start and stop one at a time, no two of them ever serve at *)
(* once, whatever crashes and whatever socket files are left behind.       *)
THEOREM GuardKeepsOneBroker ==
  ASSUME Sequential
  PROVE  Spec => []SoleBroker
<1>1. GuardInv => SoleBroker
  BY DEF GuardInv
<1> QED
  BY <1>1, AlwaysGuarded, PTL

(* ... and the hooks reach the one that serves.                            *)
THEOREM GuardKeepsSocket ==
  ASSUME Sequential
  PROVE  Spec => []ServingReachable
<1>1. GuardInv => ServingReachable
  BY DEF GuardInv
<1> QED
  BY <1>1, AlwaysGuarded, PTL

(***************************************************************************)
(* The transports of the processes.                                        *)
(***************************************************************************)

(* The lock: one process has the device open.                              *)
OneOpen == \A a, b \in Brokers : handle[a] = "open" /\ handle[b] = "open" => a = b

(* A process that is not in _run has no handle.                            *)
EndedClosed ==
  \A b \in Brokers : pc[b] \in {"down", "crashed", "refused"} => handle[b] = "closed"

LinkInv == TypeOK /\ LinkTypeOK /\ OneOpen /\ EndedClosed

LEMMA LinkInitHolds == LinkInit => LinkInv
BY PortAssumption DEF LinkInit, Init, LinkInv, TypeOK, LinkTypeOK, OneOpen, EndedClosed

(* A step of a process is one of _run.                                     *)
LEMMA ProcessSteps ==
  ASSUME NEW b \in Brokers, Starts(b) \/ Guards(b) \/ Serves(b) \/ Ends(b)
  PROVE  Next
BY DEF Starts, Guards, Serves, Ends, Next, StartUp

LEMMA LifecycleTyped ==
  ASSUME TypeOK, [Next]_vars
  PROVE  TypeOK'
<1> USE DEF TypeOK, Goes
<1>1. ASSUME NEW b \in Brokers, Start(b) \/ StartAgain(b) \/ Crashes(b) PROVE TypeOK'
  BY <1>1 DEF Start, StartAgain, Crashes
<1>2. ASSUME NEW b \in Brokers, SocketExists(b) \/ SocketAbsent(b) PROVE TypeOK'
  BY <1>2 DEF SocketExists, SocketAbsent
<1>3. ASSUME NEW b \in Brokers,
             Refuses(b) \/ FindsLeftover(b) \/ ClearsLeftover(b) \/ Binds(b)
      PROVE  TypeOK'
  BY <1>3 DEF Refuses, FindsLeftover, ClearsLeftover, Binds
<1>4. ASSUME NEW b \in Brokers, Closes(b) \/ Unlinks(b) PROVE TypeOK'
  BY <1>4 DEF Closes, Unlinks
<1>5. CASE UNCHANGED vars
  BY <1>5 DEF vars
<1> QED
  BY <1>1, <1>2, <1>3, <1>4, <1>5 DEF Next, StartUp

(* Sending keeps the lock, and paints the device only with the frame of a  *)
(* process that has it.                                                    *)
LEMMA SendKeeps ==
  ASSUME LinkTypeOK, OneOpen, NEW b \in Brokers, Send(b), UNCHANGED deviceVars
  PROVE  /\ LinkTypeOK' /\ OneOpen'
         /\ shown' # shown => shown' = b /\ handle'[b] = "open"
         /\ \A c \in Brokers \ {b} : handle'[c] = handle[c]
<1> USE DEF LinkTypeOK, OneOpen, deviceVars
<1>1. CASE handle[b] = "closed" /\ ~Opens(b)
  BY <1>1 DEF Send
<1>2. CASE handle[b] = "closed" /\ Opens(b)
  <2>1. /\ Target(b) = plugged /\ plugged # NoPort
        /\ \A c \in Brokers \ {b} : handle[c] # "open"
    BY <1>2 DEF Opens
  <2>2. /\ port' = [port EXCEPT ![b] = plugged]
        /\ handle' = [handle EXCEPT ![b] = IF ~wedged THEN "open" ELSE "closed"]
        /\ shown' = IF ~wedged THEN b ELSE shown
    BY <1>2, <2>1 DEF Send
  <2> QED
    BY <2>1, <2>2
<1>3. CASE handle[b] # "closed"
  <2>1. /\ port' = [port EXCEPT ![b] = port[b]]
        /\ handle' = [handle EXCEPT ![b] =
             IF handle[b] # "dead" /\ ~wedged THEN "open" ELSE "closed"]
        /\ shown' = IF handle[b] # "dead" /\ ~wedged THEN b ELSE shown
    BY <1>3 DEF Send
  <2> QED
    BY <1>3, <2>1
<1> QED
  BY <1>1, <1>2, <1>3

(* A process that starts has no handle yet, so that nothing is open under  *)
(* a name its new transport does not know.                                 *)
LEMMA StartsKeeps ==
  ASSUME LinkInv, NEW b \in Brokers, Starts(b)
  PROVE  LinkInv' /\ shown' = shown
<1>1. /\ port' = [port EXCEPT ![b] = Configured]
      /\ handle' = handle /\ shown' = shown
      /\ plugged' = plugged /\ wedged' = wedged
  BY DEF Starts, deviceVars
<1>2. pc[b] \in {"down", "crashed", "refused"} /\ pc' = [pc EXCEPT ![b] = "guard"]
  BY DEF Starts, Start, StartAgain, Goes, Failed, At
<1>3. handle[b] = "closed"
  BY <1>2 DEF LinkInv, EndedClosed
<1>4. LinkTypeOK' /\ OneOpen'
  BY <1>1, <1>3, PortAssumption DEF LinkInv, LinkTypeOK, OneOpen
<1>5. EndedClosed'
  BY <1>1, <1>2 DEF LinkInv, TypeOK, EndedClosed
<1>6. TypeOK'
  BY ProcessSteps, LifecycleTyped DEF LinkInv
<1> QED
  BY <1>1, <1>4, <1>5, <1>6 DEF LinkInv

LEMMA GuardsKeeps ==
  ASSUME LinkInv, NEW b \in Brokers, Guards(b)
  PROVE  LinkInv' /\ shown' = shown
<1>1. UNCHANGED linkVars
  BY DEF Guards
<1>2. \E to \in {"probing", "binding", "clearing", "closing"} : pc' = [pc EXCEPT ![b] = to]
  BY DEF Guards, SocketExists, SocketAbsent, FindsLeftover, Closes, Goes
<1>3. LinkTypeOK' /\ OneOpen' /\ shown' = shown
  BY <1>1 DEF LinkInv, LinkTypeOK, OneOpen, linkVars, deviceVars
<1>4. EndedClosed'
  BY <1>1, <1>2 DEF LinkInv, TypeOK, EndedClosed, linkVars
<1>5. TypeOK'
  BY ProcessSteps, LifecycleTyped DEF LinkInv
<1> QED
  BY <1>3, <1>4, <1>5 DEF LinkInv

LEMMA EndsKeeps ==
  ASSUME LinkInv, NEW b \in Brokers, Ends(b)
  PROVE  LinkInv' /\ shown' = shown
<1>1. UNCHANGED <<port, shown, plugged, wedged>>
  BY DEF Ends, deviceVars
<1>2. \E to \in {"refused", "binding", "down", "crashed"} : pc' = [pc EXCEPT ![b] = to]
  BY DEF Ends, Refuses, ClearsLeftover, Unlinks, Crashes, Goes
<1>3. handle' = IF pc'[b] = "binding" THEN handle ELSE [handle EXCEPT ![b] = "closed"]
  BY DEF Ends
<1>4. LinkTypeOK' /\ OneOpen'
  BY <1>1, <1>3 DEF LinkInv, LinkTypeOK, OneOpen
<1>5. EndedClosed'
  BY <1>2, <1>3 DEF LinkInv, TypeOK, LinkTypeOK, EndedClosed
<1>6. TypeOK'
  BY ProcessSteps, LifecycleTyped DEF LinkInv
<1> QED
  BY <1>1, <1>4, <1>5, <1>6 DEF LinkInv

(* Serving, a broker sends its first frame; it is in _run then.            *)
LEMMA SendersKeep ==
  ASSUME LinkInv, NEW b \in Brokers, Serves(b) \/ Pushes(b)
  PROVE  LinkInv' /\ (shown' # shown => shown' = b /\ handle'[b] = "open")
<1>1. Send(b) /\ UNCHANGED deviceVars
  BY DEF Serves, Pushes
<1>2. /\ LinkTypeOK' /\ OneOpen'
      /\ shown' # shown => shown' = b /\ handle'[b] = "open"
      /\ \A c \in Brokers \ {b} : handle'[c] = handle[c]
  BY <1>1, SendKeeps DEF LinkInv
<1>3. /\ pc'[b] \notin {"down", "crashed", "refused"}
      /\ \A c \in Brokers \ {b} : pc'[c] = pc[c]
  BY DEF Serves, Pushes, Binds, Goes, Starting, Serving, Stopping, At, vars, LinkInv, TypeOK
<1>4. EndedClosed'
  BY <1>2, <1>3 DEF LinkInv, EndedClosed
<1>5. TypeOK'
  BY ProcessSteps, LifecycleTyped DEF LinkInv, Pushes
<1> QED
  BY <1>2, <1>4, <1>5 DEF LinkInv

LEMMA DeviceKeeps ==
  ASSUME LinkInv, Device
  PROVE  LinkInv' /\ (shown' # shown => plugged = NoPort)
<1>1. UNCHANGED vars
  BY DEF Device, Unplugs, Wedges, Plugs
<1>2. LinkTypeOK' /\ OneOpen' /\ (shown' # shown => plugged = NoPort)
  <2> USE DEF LinkInv, LinkTypeOK, OneOpen
  <2>1. CASE Unplugs
    BY <2>1 DEF Unplugs
  <2>2. CASE Wedges
    BY <2>2 DEF Wedges
  <2>3. ASSUME NEW p \in Ports, Plugs(p)
        PROVE  LinkTypeOK' /\ OneOpen' /\ plugged = NoPort
    BY <2>3, PortAssumption DEF Plugs
  <2> QED
    BY <2>1, <2>2, <2>3 DEF Device
<1>3. \A b \in Brokers : handle[b] = "closed" => handle'[b] = "closed"
  BY DEF Device, Unplugs, Wedges, Plugs, LinkInv, LinkTypeOK
<1>4. TypeOK' /\ EndedClosed'
  BY <1>1, <1>3 DEF vars, LinkInv, TypeOK, EndedClosed
<1> QED
  BY <1>2, <1>4 DEF LinkInv

LEMMA LinkStep ==
  ASSUME LinkInv, [LinkNext]_allVars
  PROVE  LinkInv'
<1>1. CASE UNCHANGED allVars
  BY <1>1 DEF allVars, vars, linkVars, deviceVars, LinkInv, TypeOK, LinkTypeOK,
              OneOpen, EndedClosed
<1> QED
  BY <1>1, StartsKeeps, GuardsKeeps, EndsKeeps, SendersKeep, DeviceKeeps DEF LinkNext

LEMMA LinkAlways == SerialSpec => []LinkInv
<1>1. LinkInv /\ [LinkNext]_allVars => LinkInv'
  BY LinkStep
<1> QED
  BY <1>1, LinkInitHolds, PTL DEF SerialSpec

(* A handle is open only on a device that is plugged in, under the name    *)
(* its transport has settled on, whatever the processes and the device do. *)
THEOREM LinkTypeCorrect == SerialSpec => []LinkTypeOK
<1>1. LinkInv => LinkTypeOK
  BY DEF LinkInv
<1> QED
  BY <1>1, LinkAlways, PTL

(* No other process paints the device while the broker that serves has     *)
(* the port, however starts and stops overlap.                             *)
THEOREM PortIsExclusive == SerialSpec => ServerKeepsDevice
<1> DEFINE Kept == \A b \in Serving : handle[b] = "open" => shown' \in {shown, b}
<1>1. ASSUME LinkInv, LinkInv', [LinkNext]_allVars PROVE [Kept]_allVars
  <2>1. SUFFICES ASSUME NEW b \in Serving, handle[b] = "open", LinkNext,
                        shown' # shown
                 PROVE  shown' = b
    BY <1>1
  <2>2. b \in Brokers /\ plugged # NoPort
    BY <1>1, <2>1 DEF Serving, At, LinkInv, LinkTypeOK
  <2>3. ~Device
    BY <1>1, <2>1, <2>2, DeviceKeeps
  <2>4. PICK c \in Brokers : Serves(c) \/ Pushes(c)
    BY <1>1, <2>1, <2>3, StartsKeeps, GuardsKeeps, EndsKeeps DEF LinkNext
  <2>5. shown' = c /\ handle'[c] = "open"
    BY <1>1, <2>1, <2>4, SendersKeep
  <2>6. c = b
    <3>1. Send(c) /\ UNCHANGED deviceVars
      BY <2>4 DEF Serves, Pushes
    <3>2. c # b => handle'[b] = handle[b]
      BY <1>1, <2>2, <3>1, SendKeeps DEF LinkInv
    <3> QED
      BY <1>1, <2>1, <2>2, <2>5, <3>2 DEF LinkInv, OneOpen
  <2> QED
    BY <2>5, <2>6
<1> QED
  BY <1>1, LinkAlways, PTL DEF SerialSpec, ServerKeepsDevice

(* The processes with their transports are the processes of the guard, so  *)
(* that what the guard promises holds of them as well.                     *)
LEMMA LinkImplementsGuard == SerialSpec => Spec
<1>1. LinkInit => Init
  BY DEF LinkInit
<1>2. [LinkNext]_allVars => [Next]_vars
  <2>1. ASSUME NEW b \in Brokers, Pushes(b) PROVE UNCHANGED vars
    BY <2>1 DEF Pushes
  <2>2. Device => UNCHANGED vars
    BY DEF Device, Unplugs, Wedges, Plugs
  <2> QED
    BY <2>1, <2>2, ProcessSteps DEF LinkNext, allVars
<1> QED
  BY <1>1, <1>2, PTL DEF SerialSpec, Spec

(* One broker at most serves, and so has the port for good, when starts    *)
(* overlap neither each other nor a stop.                                  *)
THEOREM GuardHoldsWithLinks ==
  ASSUME Sequential
  PROVE  SerialSpec => []SoleBroker
BY LinkImplementsGuard, GuardKeepsOneBroker, PTL
=============================================================================
