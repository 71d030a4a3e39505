------------------------------- MODULE Broker -------------------------------
(***************************************************************************)
(* The broker process (notify/broker/server.py): reports from the hooks    *)
(* and from the Vibe watcher change the session table, a periodic sweep    *)
(* evicts dead and silent sessions, and every visible change is pushed to  *)
(* the device as a full snapshot of the ring over a link that can drop it. *)
(*                                                                         *)
(* Every handler runs under Broker._lock, so it is one action.  A tick is  *)
(* the unit of the windows; the sweep is due SweepPeriod ticks after the   *)
(* last one (_ttl_loop) and is assumed to run on time.                     *)
(***************************************************************************)
EXTENDS EventHandling

CONSTANTS Verbs,        \* the verbs the sessions report, heartbeat apart
          SweepPeriod,  \* _ttl_check, in ticks
          Retains,      \* does the transport resend its last frame when the
                        \* link comes back?  (BLE: yes, serial: no)
          Lossy,        \* can the link go down?
          MaxBirths     \* bound: registrations of one life of the broker

ASSUME VerbAssumption == Verbs \subseteq ReportVerbs
ASSUME SweepAssumption == SweepPeriod \in Nat \ {0}
ASSUME LinkAssumption == Retains \in BOOLEAN /\ Lossy \in BOOLEAN
ASSUME BirthAssumption == MaxBirths \in Nat

VARIABLES
  up,           \* the broker process runs
  table,        \* Broker._allocator
  sinceSweep,   \* ticks since the last sweep
  hbWasActive,  \* Broker._hb_was_active: the last sweep left sessions
  pushed,       \* the last frame handed to the transport
  alive,        \* the host pids that exist now
  linkUp,       \* the transport reaches the device
  device        \* the frame the device shows

vars == <<up, table, sinceSweep, hbWasActive, pushed, alive, linkUp, device>>

brokerVars == <<up, table, sinceSweep, hbWasActive>>

Segment == [sid : Sids, state : State, cwd : CwdNames]

(* What the device is told of each session.                                *)
SegmentsOf(t) ==
  [s \in Live(t) |->
     [sid |-> s, state |-> t.sessions[s].state, cwd |-> t.sessions[s].cwd]]

(* The snapshot _push_frame encodes: the segments in ring order.           *)
Frame(t) ==
  LET ring     == ActiveSegments(t)
      segments == SegmentsOf(t)
  IN  [i \in DOMAIN ring |-> segments[ring[i]]]

NoSegments == Frame(EmptyTable)

(* Transport.send: the frame reaches the device when the link is up.       *)
Push(t) ==
  /\ pushed' = Frame(t)
  /\ device' = IF linkUp THEN Frame(t) ELSE device

(* The table holds well-formed records of known sessions, none of them      *)
(* Offline, and every slot is within the ring.                             *)
TypeOK ==
  /\ up \in BOOLEAN
  /\ IsTableOf(table, SessionRecord)
  /\ sinceSweep \in 0 .. SweepPeriod
  /\ hbWasActive \in BOOLEAN
  /\ alive \subseteq HostPids
  /\ linkUp \in BOOLEAN

Init ==
  /\ up = FALSE
  /\ table = EmptyTable
  /\ sinceSweep = 0
  /\ hbWasActive = FALSE
  /\ pushed = NoSegments
  /\ alive \in SUBSET HostPids
  /\ linkUp \in BOOLEAN
  /\ Lossy \/ linkUp
  /\ device = NoSegments

(***************************************************************************)
(* Reports                                                                 *)
(***************************************************************************)

(* The new table of a report is pushed whether it differs or not.          *)
Handled(t) ==
  /\ table' = t
  /\ Push(t)
  /\ UNCHANGED <<up, sinceSweep, hbWasActive, alive, linkUp>>

SessionEnds(s) ==
  /\ up
  /\ Handled(HandleEvent(table, s, "end", NoPid, NoCwd, alive))

SessionStarts(s, pid, cwd) ==
  /\ up
  /\ "start" \in Verbs
  /\ s \in Live(table)
  /\ Handled(HandleEvent(table, s, "start", pid, cwd, alive))

SessionReports(s, verb, pid) ==
  /\ up
  /\ verb \in Verbs \ {"start", "end"}
  /\ s \in Live(table)
  /\ Handled(HandleEvent(table, s, verb, pid, NoCwd, alive))

SessionAppears(s, verb, pid, cwd) ==
  /\ up
  /\ verb \in Verbs \ {"end"}
  /\ s \notin Live(table)
  /\ table.seq < MaxBirths
  /\ Handled(HandleEvent(table, s, verb, pid, cwd, alive))

Heartbeat(s, pid) ==
  /\ up
  /\ s \in Live(table)
  /\ table' = HeartbeatKnown(table, s, pid, alive)
  /\ UNCHANGED <<up, sinceSweep, hbWasActive, pushed, alive, linkUp, device>>

(***************************************************************************)
(* Time and the sweep                                                      *)
(***************************************************************************)

Tick ==
  /\ up
  /\ sinceSweep < SweepPeriod
  /\ sinceSweep' = sinceSweep + 1
  /\ table' = Elapse(table)
  /\ UNCHANGED <<up, hbWasActive, pushed, alive, linkUp, device>>

(* Mutants: no frame for the sweep that empties the table, or a frame only *)
(* when the sweep evicts somebody.                                         *)
SweepWhileActive ==
  LET t      == Swept(table, alive)
      active == Live(t) # {}
  IN  /\ up
      /\ sinceSweep = SweepPeriod
      /\ table' = t
      /\ sinceSweep' = 0
      /\ hbWasActive' = active
      /\ IF active THEN Push(t) ELSE UNCHANGED <<pushed, device>>
      /\ UNCHANGED <<up, alive, linkUp>>

SweepOnEviction ==
  LET t == Swept(table, alive) IN
  /\ up
  /\ sinceSweep = SweepPeriod
  /\ table' = t
  /\ sinceSweep' = 0
  /\ hbWasActive' = (Live(t) # {})
  /\ IF Live(t) # Live(table) THEN Push(t) ELSE UNCHANGED <<pushed, device>>
  /\ UNCHANGED <<up, alive, linkUp>>

(* _sweep_once: a frame is pushed while there are sessions, after an       *)
(* eviction, and once more after the sweep that found the table empty.     *)
Sweep ==
  LET t      == Swept(table, alive)
      active == Live(t) # {}
  IN  /\ up
      /\ sinceSweep = SweepPeriod
      /\ table' = t
      /\ sinceSweep' = 0
      /\ hbWasActive' = active
      /\ IF active \/ Live(t) # Live(table) \/ hbWasActive
           THEN Push(t)
           ELSE UNCHANGED <<pushed, device>>
      /\ UNCHANGED <<up, alive, linkUp>>

(***************************************************************************)
(* The process, the harnesses and the link                                 *)
(***************************************************************************)

(* _run: an empty table and the startup resync push.                       *)
BrokerStarts ==
  /\ ~up
  /\ up' = TRUE
  /\ table' = EmptyTable
  /\ sinceSweep' = 0
  /\ hbWasActive' = FALSE
  /\ Push(EmptyTable)
  /\ UNCHANGED <<alive, linkUp>>

(* A stop or a crash: the table is only in memory.                         *)
BrokerStops ==
  /\ up
  /\ up' = FALSE
  /\ table' = EmptyTable
  /\ sinceSweep' = 0
  /\ hbWasActive' = FALSE
  /\ pushed' = NoSegments
  /\ UNCHANGED <<alive, linkUp, device>>

ProcessStarts(p) ==
  /\ p \notin alive
  /\ alive' = alive \cup {p}
  /\ UNCHANGED <<brokerVars, pushed, linkUp, device>>

ProcessExits(p) ==
  /\ p \in alive
  /\ alive' = alive \ {p}
  /\ UNCHANGED <<brokerVars, pushed, linkUp, device>>

LinkDrops ==
  /\ Lossy
  /\ linkUp
  /\ linkUp' = FALSE
  /\ UNCHANGED <<brokerVars, pushed, alive, device>>

(* The BLE worker writes its mailbox on every connection; the serial port  *)
(* is only reopened by the next frame.                                     *)
LinkReturns ==
  /\ ~linkUp
  /\ linkUp' = TRUE
  /\ device' = IF Retains /\ up THEN pushed ELSE device
  /\ UNCHANGED <<brokerVars, pushed, alive>>

Report ==
  \E s \in Sids :
    \/ SessionEnds(s)
    \/ \E pid \in Pids, cwd \in CwdNames : SessionStarts(s, pid, cwd)
    \/ \E verb \in Verbs, pid \in Pids : SessionReports(s, verb, pid)
    \/ \E verb \in Verbs, pid \in Pids, cwd \in CwdNames :
         SessionAppears(s, verb, pid, cwd)

Beat == \E s \in Sids, pid \in Pids : Heartbeat(s, pid)

Environment ==
  \/ \E p \in HostPids : ProcessStarts(p) \/ ProcessExits(p)
  \/ LinkDrops \/ LinkReturns

Next ==
  \/ Report
  \/ Beat
  \/ Tick
  \/ Sweep
  \/ BrokerStarts
  \/ BrokerStops
  \/ Environment

(* The event loop keeps running: time passes, a due sweep runs, and the    *)
(* service manager starts the broker again.                                *)
Fairness == WF_vars(Tick) /\ WF_vars(Sweep) /\ WF_vars(BrokerStarts)

Spec == Init /\ [][Next]_vars

FairSpec == Spec /\ Fairness

(***************************************************************************)
(* Safety                                                                  *)
(***************************************************************************)

(* The allocator's maps stay consistent through every handler and through  *)
(* both evictions of a sweep: no slot leaks, none is shared, and arrival   *)
(* stamps never repeat within one life of the broker.                      *)
TableOK == TableInv(table)

(* A session that waits for a timer never asks for a human: whatever       *)
(* reaches an armed session, a call to action disarms it, so that a later  *)
(* idle prompt cannot turn a red or amber segment into Done                *)
(* (_resolve_wakeup).                                                      *)
ArmedNeverCTA ==
  \A s \in Live(table) :
    table.sessions[s].wakeup => table.sessions[s].state \notin CTA_STATES

(* However reports, heartbeats and process probes interleave with the      *)
(* sweep, no session outstays the window of the state it shows by more     *)
(* than the time since the last sweep.                                     *)
SilenceBounded ==
  \A s \in Live(table) :
    table.sessions[s].age <= Window(table.sessions[s]) + sinceSweep

(* What the transport was last given is what the table holds: no handler   *)
(* and no eviction changes what the ring should show without a push, and   *)
(* a heartbeat, which does not push, changes nothing that is shown.        *)
PushedCurrent == up => pushed = Frame(table)

Left == Live(table) \ Live(table')

(* A call to action leaves the ring only because its session ended, its    *)
(* process was found dead, the broker stopped, or the whole call-to-action *)
(* window went by in silence: no other session's arrival, no heartbeat and *)
(* no benign window takes it away.                                         *)
HeldForTheHuman ==
  [][\A s \in Left :
       table.sessions[s].state \in CTA_STATES =>
         \/ SessionEnds(s)
         \/ BrokerStops
         \/ s \in DeadSessions(table, alive)
         \/ table.sessions[s].age > CtaTtl]_vars

(* The ring of segments: the table with its bookkeeping forgotten.         *)
ArrivedBefore(t) ==
  {p \in Live(t) \X Live(t) : t.order[p[1]] < t.order[p[2]]}

RingOfSegments ==
  INSTANCE Ring WITH members <- Live(table), before <- ArrivedBefore(table)

(* The broker implements the abstract ring: bounded, in arrival order,     *)
(* newcomers last and displacing nobody, survivors never reshuffled even   *)
(* though capacity slots are recycled lowest first.                        *)
RingSpec == RingOfSegments!Spec

(* Only a pid that was once seen alive in the broker's own namespace makes *)
(* a session a candidate for the dead-process eviction (the comment in     *)
(* _sweep_once).                                                           *)
OnlySeenPidsQualify ==
  \A s \in Live(table) :
    ReaperTrusts(table.sessions[s]) => table.sessions[s].pid \in HostPids

(***************************************************************************)
(* Liveness                                                                *)
(***************************************************************************)

(* An open but idle session cannot pin a segment: once only heartbeats     *)
(* arrive, every resting session leaves the ring unless it waits for a     *)
(* wake-up (RESTING_STATES).                                               *)
IdleAgesOut ==
  <>[][~Report]_vars =>
    <>[](\A s \in Live(table) :
           table.sessions[s].state \in RESTING_STATES => table.sessions[s].wakeup)

(* A harness that was seen alive and is gone for good does not stay on the *)
(* ring, even if reports and heartbeats in its name keep arriving.         *)
NoGhosts ==
  \A s \in Sids : ~<>[](s \in DeadSessions(table, alive))

(* While there are sessions the snapshot heartbeat repairs the device: once*)
(* the link stays up and the ring stays populated, the device shows it.    *)
ActiveRingHeals ==
  <>[](up /\ linkUp /\ Live(table) # {}) => <>[](device = Frame(table))

(* Once the link stays up the device shows the ring again and again: a     *)
(* dropped clear or a missed update is corrected by a later sweep (the     *)
(* comment on the snapshot heartbeat in _sweep_once).                      *)
DroppedFramesHeal == <>[](up /\ linkUp) => []<>(device = Frame(table))
=============================================================================
