---------------------------- MODULE BrokerProofs ----------------------------
(***************************************************************************)
(* The broker, for every value of the constants: its safety invariants     *)
(* follow from one inductive invariant, and every step of it is, once the  *)
(* table's bookkeeping is forgotten, a step of the abstract ring           *)
(* (Ring.tla).                                                             *)
(***************************************************************************)
EXTENDS Broker, EventHandlingProofs, FiniteSetTheorems

(***************************************************************************)
(* The specification.                                                      *)
(***************************************************************************)

(* The inductive invariant.                                                *)
IInv == TypeOK /\ TableGood(table, sinceSweep)

LEMMA InitEstablishes == Init => IInv
<1> SUFFICES ASSUME Init PROVE IInv
  OBVIOUS
<1>1. TableGood(table, 0)
  BY EmptyTableGood DEF Init
<1>2. IsTableOf(table, SessionRecord)
  BY <1>1, TableOfIsTable DEF TableGood
<1>3. sinceSweep \in 0 .. SweepPeriod /\ sinceSweep = 0
  BY SweepAssumption DEF Init
<1>4. up \in BOOLEAN /\ hbWasActive \in BOOLEAN /\ alive \subseteq HostPids
      /\ linkUp \in BOOLEAN
  BY DEF Init
<1>5. TableGood(table, sinceSweep)
  BY <1>1, <1>3
<1> QED
  BY <1>2, <1>3, <1>4, <1>5 DEF IInv, TypeOK

(* A report changes the table by handle_event and nothing else of it.      *)
LEMMA ReportKeepsIInv ==
  ASSUME IInv, Report
  PROVE  IInv'
<1>t. sinceSweep \in Nat /\ TableGood(table, sinceSweep)
  BY SweepAssumption DEF IInv, TypeOK
<1>1. PICK s \in Sids, verb \in ReportVerbs, pid \in Pids, cwd \in CwdNames :
        Handled(HandleEvent(table, s, verb, pid, cwd, alive))
  <2>1. "end" \in ReportVerbs /\ "start" \in ReportVerbs
        /\ NoPid \in Pids /\ NoCwd \in CwdNames
    BY DEF ReportVerbs, Pids, CwdNames
  <2> QED
    BY <2>1, VerbAssumption
       DEF Report, SessionEnds, SessionStarts, SessionReports, SessionAppears
<1>2. /\ table' = HandleEvent(table, s, verb, pid, cwd, alive)
      /\ UNCHANGED <<up, sinceSweep, hbWasActive, alive, linkUp>>
  BY <1>1 DEF Handled
<1>3. TableGood(table', sinceSweep')
  BY <1>t, <1>2, HandleEventKeepsGood
<1>4. IsTableOf(table', SessionRecord)
  BY <1>3, TableOfIsTable DEF TableGood
<1> QED
  BY <1>2, <1>3, <1>4 DEF IInv, TypeOK

LEMMA NextKeepsIInv ==
  ASSUME IInv, [Next]_vars
  PROVE  IInv'
<1>t. sinceSweep \in Nat /\ TableGood(table, sinceSweep)
  BY SweepAssumption DEF IInv, TypeOK
<1>1. CASE Report
  BY <1>1, ReportKeepsIInv
<1>2. CASE Beat
  <2>1. PICK s \in Sids, pid \in Pids : Heartbeat(s, pid)
    BY <1>2 DEF Beat
  <2>2. TableGood(table', sinceSweep')
    BY <1>t, <2>1, HeartbeatKeepsGood DEF Heartbeat
  <2>3. IsTableOf(table', SessionRecord)
    BY <2>2, TableOfIsTable DEF TableGood
  <2> QED
    BY <2>1, <2>2, <2>3 DEF Heartbeat, IInv, TypeOK
<1>3. CASE Tick
  <2>1. TableGood(table', sinceSweep')
    BY <1>t, <1>3, ElapseKeepsGood DEF Tick
  <2>2. IsTableOf(table', SessionRecord)
    BY <2>1, TableOfIsTable DEF TableGood
  <2>3. sinceSweep' \in 0 .. SweepPeriod
    BY <1>t, <1>3, SweepAssumption DEF Tick
  <2> QED
    BY <1>3, <2>1, <2>2, <2>3 DEF Tick, IInv, TypeOK
<1>4. CASE Sweep
  <2>1. /\ table' = Swept(table, alive) /\ sinceSweep' = 0
        /\ hbWasActive' = (Live(Swept(table, alive)) # {})
        /\ UNCHANGED <<up, alive, linkUp>>
    BY <1>4 DEF Sweep
  <2>2. TableGood(table', sinceSweep')
    BY <1>t, <2>1, SweepKeepsGood
  <2>3. IsTableOf(table', SessionRecord)
    BY <2>2, TableOfIsTable DEF TableGood
  <2>4. hbWasActive' \in BOOLEAN
    BY <2>1
  <2>5. sinceSweep' \in 0 .. SweepPeriod
    BY <2>1, SweepAssumption
  <2>6. up' \in BOOLEAN /\ alive' \subseteq HostPids /\ linkUp' \in BOOLEAN
    BY <2>1 DEF IInv, TypeOK
  <2> QED
    BY <2>2, <2>3, <2>4, <2>5, <2>6 DEF IInv, TypeOK
<1>5. CASE BrokerStarts \/ BrokerStops
  <2>1. /\ table' = EmptyTable /\ sinceSweep' = 0 /\ up' \in BOOLEAN
        /\ hbWasActive' = FALSE /\ UNCHANGED <<alive, linkUp>>
    BY <1>5 DEF BrokerStarts, BrokerStops
  <2>2. TableGood(table', sinceSweep')
    BY <2>1, EmptyTableGood
  <2>3. IsTableOf(table', SessionRecord)
    BY <2>2, TableOfIsTable DEF TableGood
  <2>4. /\ hbWasActive' \in BOOLEAN /\ alive' \subseteq HostPids
        /\ linkUp' \in BOOLEAN
    BY <2>1 DEF IInv, TypeOK
  <2>5. sinceSweep' \in 0 .. SweepPeriod
    BY <2>1, SweepAssumption
  <2> QED
    BY <2>1, <2>2, <2>3, <2>4, <2>5 DEF IInv, TypeOK
<1>6. CASE Environment
  <2>1. /\ UNCHANGED brokerVars
        /\ alive' \subseteq HostPids
        /\ linkUp' \in BOOLEAN
    BY <1>6 DEF Environment, ProcessStarts, ProcessExits, LinkDrops, LinkReturns,
                IInv, TypeOK
  <2> QED
    BY <1>t, <2>1 DEF IInv, TypeOK, brokerVars
<1>7. CASE UNCHANGED vars
  BY <1>7 DEF vars, IInv, TypeOK
<1> QED
  BY <1>1, <1>2, <1>3, <1>4, <1>5, <1>6, <1>7 DEF Next

LEMMA IInvHolds == Spec => []IInv
BY InitEstablishes, NextKeepsIInv, PTL DEF Spec

(* The broker's variables keep their types.                                *)
THEOREM TypeCorrect == Spec => []TypeOK
BY IInvHolds, PTL DEF IInv

(* For any number of sessions and slots, no interleaving of reports and    *)
(* sweeps leaks or shares a slot or repeats an arrival stamp.              *)
THEOREM TableConsistent == Spec => []TableOK
<1>1. IInv => TableOK
  BY DEF IInv, TableGood, TableOK
<1> QED
  BY <1>1, IInvHolds, PTL

(* A session that waits for a timer never asks for a human.                *)
THEOREM ArmedIsQuiet == Spec => []ArmedNeverCTA
<1>1. IInv => ArmedNeverCTA
  BY DEF IInv, TableGood, RecordGood, ArmedNeverCTA
<1> QED
  BY <1>1, IInvHolds, PTL

(* No session outstays its window by more than one sweep period, whatever  *)
(* the windows, the period and the reports.                                *)
THEOREM NobodyOverstays == Spec => []SilenceBounded
<1>1. IInv => SilenceBounded
  BY DEF IInv, TableGood, RecordGood, SilenceBounded
<1> QED
  BY <1>1, IInvHolds, PTL

(***************************************************************************)
(* What is pushed, and who leaves.                                         *)
(***************************************************************************)

(* A broker that is down has no sessions.                                  *)
DownEmpty == ~up => Live(table) = {}

(* Tables that agree on what is shown have the same frame.                 *)
LEMMA SameFrame ==
  ASSUME NEW t, NEW u, Live(u) = Live(t), u.order = t.order,
         \A x \in Live(t) : /\ u.sessions[x].state = t.sessions[x].state
                            /\ u.sessions[x].cwd = t.sessions[x].cwd
  PROVE  Frame(u) = Frame(t)
<1>1. ActiveSegments(u) = ActiveSegments(t)
  BY DEF ActiveSegments
<1>2. SegmentsOf(u) = SegmentsOf(t)
  BY DEF SegmentsOf
<1> QED
  BY <1>1, <1>2 DEF Frame

(* So have empty tables, whatever became of their other fields.            *)
LEMMA EmptyFrames ==
  ASSUME NEW t \in TableOf(SessionRecord), TableInv(t), Live(t) = {},
         NEW u \in TableOf(SessionRecord), TableInv(u), Live(u) = {}
  PROVE  Frame(u) = Frame(t)
<1>1. \A d, e \in Dict(Sids, Nat) : DOMAIN d = {} /\ DOMAIN e = {} => d = e
  BY DEF Dict
<1>2. u.order = t.order
  BY <1>1 DEF TableInv, SameSessions, TableOf
<1> QED
  BY <1>2, SameFrame

LEMMA NextKeepsPushed ==
  ASSUME IInv, IInv', DownEmpty, PushedCurrent, [Next]_vars
  PROVE  DownEmpty' /\ PushedCurrent'
<1>t. /\ table \in TableOf(SessionRecord) /\ TableInv(table)
      /\ table' \in TableOf(SessionRecord) /\ TableInv(table')
  BY DEF IInv, TableGood
<1> USE DEF DownEmpty, PushedCurrent
<1>1. CASE Report
  <2>1. PICK t : up /\ Handled(t)
    BY <1>1 DEF Report, SessionEnds, SessionStarts, SessionReports, SessionAppears
  <2> QED
    BY <2>1 DEF Handled, Push
<1>2. CASE Beat
  <2>1. PICK s \in Sids, pid \in Pids : Heartbeat(s, pid)
    BY <1>2 DEF Beat
  <2>2. /\ s \in Live(table) /\ table' = HeartbeatKnown(table, s, pid, alive)
        /\ UNCHANGED <<up, pushed>> /\ up
    BY <2>1 DEF Heartbeat
  <2>3. Frame(table') = Frame(table)
    BY <1>t, <2>2, HeartbeatEffect, SameFrame
  <2> QED
    BY <2>2, <2>3
<1>3. CASE Tick
  <2>1. Frame(table') = Frame(table)
    BY <1>t, <1>3, ElapseEffect, SameFrame DEF Tick
  <2> QED
    BY <1>3, <2>1 DEF Tick
<1>4. CASE Sweep
  <2>1. up' /\ up /\ table' = Swept(table, alive)
    BY <1>4 DEF Sweep
  <2>2. CASE Push(table')
    BY <2>1, <2>2 DEF Push
  <2>3. CASE ~Push(table')
    <3>1. Live(table') = {} /\ Live(table) = {} /\ pushed' = pushed
      BY <1>4, <2>3 DEF Sweep
    <3>2. Frame(table') = Frame(table)
      BY <1>t, <3>1, EmptyFrames
    <3> QED
      BY <2>1, <3>1, <3>2
  <2> QED
    BY <2>2, <2>3
<1>5. CASE BrokerStarts
  BY <1>5 DEF BrokerStarts, Push
<1>6. CASE BrokerStops
  BY <1>6, EmptyTableOK DEF BrokerStops
<1>7. CASE Environment \/ UNCHANGED vars
  BY <1>7 DEF Environment, ProcessStarts, ProcessExits, LinkDrops, LinkReturns,
              brokerVars, vars
<1> QED
  BY <1>1, <1>2, <1>3, <1>4, <1>5, <1>6, <1>7 DEF Next

LEMMA PushedHolds == Spec => [](DownEmpty /\ PushedCurrent)
<1>1. Init => DownEmpty /\ PushedCurrent
  BY EmptyTableOK DEF Init, DownEmpty, PushedCurrent
<1> QED
  BY <1>1, IInvHolds, NextKeepsPushed, PTL DEF Spec

(* What the transport was last given is what the table holds, whatever     *)
(* reports, heartbeats, evictions and restarts came since: no change of    *)
(* what the ring should show goes without a push.                          *)
THEOREM FrameIsCurrent == Spec => []PushedCurrent
BY PushedHolds, PTL

(* Who is gone after a sweep was found dead or was silent for its window.  *)
LEMMA SweepTakesTheDeadAndSilent ==
  ASSUME IInv, Sweep, NEW s \in Live(table) \ Live(table'),
         table.sessions[s].state \in CTA_STATES
  PROVE  s \in DeadSessions(table, alive) \/ table.sessions[s].age > CtaTtl
<1>1. table \in TableOf(SessionRecord) /\ TableInv(table)
  BY DEF IInv, TableGood
<1>2. table' = Swept(table, alive)
  BY DEF Sweep
<1>3. Live(table') = Live(table) \ (DeadSessions(table, alive) \cup Stale(table))
  BY <1>1, <1>2, SweptEffect
<1>4. Window(table.sessions[s]) = CtaTtl
  BY DEF Window, CTA_STATES
<1> QED
  BY <1>3, <1>4 DEF Stale

(* Of the reports only the session's own end takes it away.                *)
LEMMA ReportTakesTheEnded ==
  ASSUME IInv, Report, NEW s \in Live(table) \ Live(table')
  PROVE  SessionEnds(s)
<1>t. table \in TableOf(SessionRecord) /\ TableInv(table) /\ s \in Sids
  BY RecordsOfTable DEF IInv, TableGood
<1>p. /\ "end" \in ReportVerbs /\ "start" \in ReportVerbs
      /\ NoPid \in Pids /\ NoCwd \in CwdNames
  BY DEF ReportVerbs, Pids, CwdNames
<1>1. PICK x \in Sids, verb \in ReportVerbs, pid \in Pids, cwd \in CwdNames :
        /\ table' = HandleEvent(table, x, verb, pid, cwd, alive)
        /\ verb = "end" => SessionEnds(x)
  BY <1>p, VerbAssumption
     DEF Report, SessionEnds, SessionStarts, SessionReports, SessionAppears, Handled
<1>2. x = s /\ verb = "end"
  BY <1>t, <1>1, HandleEventEffect
<1> QED
  BY <1>1, <1>2

(* A call to action leaves the ring only because its session ended, its    *)
(* process was found dead, the broker stopped, or its whole window went by *)
(* in silence, for any number of sessions, windows and slots.              *)
THEOREM HumanIsWaitedFor == Spec => HeldForTheHuman
<1> DEFINE Held ==
      \A s \in Left :
        table.sessions[s].state \in CTA_STATES =>
          \/ SessionEnds(s)
          \/ BrokerStops
          \/ s \in DeadSessions(table, alive)
          \/ table.sessions[s].age > CtaTtl
<1>1. ASSUME IInv, DownEmpty, [Next]_vars PROVE [Held]_vars
  <2>1. SUFFICES ASSUME NEW s \in Live(table) \ Live(table'),
                        table.sessions[s].state \in CTA_STATES, Next
                 PROVE  \/ SessionEnds(s)
                        \/ BrokerStops
                        \/ s \in DeadSessions(table, alive)
                        \/ table.sessions[s].age > CtaTtl
    BY <1>1 DEF Left
  <2>t. table \in TableOf(SessionRecord) /\ TableInv(table)
    BY <1>1 DEF IInv, TableGood
  <2>2. CASE Report
    BY <1>1, <2>1, <2>2, ReportTakesTheEnded
  <2>3. CASE Beat
    <3>1. PICK x \in Live(table), pid \in Pids :
            table' = HeartbeatKnown(table, x, pid, alive)
      BY <2>3 DEF Beat, Heartbeat
    <3>2. Live(table') = Live(table)
      BY <2>t, <3>1, HeartbeatEffect
    <3> QED
      BY <2>1, <3>2
  <2>4. CASE Tick
    <3>1. Live(table') = Live(table)
      BY <2>t, <2>4, ElapseEffect DEF Tick
    <3> QED
      BY <2>1, <3>1
  <2>5. CASE Sweep
    BY <1>1, <2>1, <2>5, SweepTakesTheDeadAndSilent
  <2>6. CASE BrokerStarts
    BY <1>1, <2>1, <2>6 DEF BrokerStarts, DownEmpty
  <2>7. CASE BrokerStops
    BY <2>7
  <2>8. CASE Environment
    BY <2>1, <2>8 DEF Environment, ProcessStarts, ProcessExits, LinkDrops, LinkReturns,
                      brokerVars
  <2> QED
    BY <2>1, <2>2, <2>3, <2>4, <2>5, <2>6, <2>7, <2>8 DEF Next
<1> QED
  BY <1>1, IInvHolds, PushedHolds, PTL DEF Spec, HeldForTheHuman

(***************************************************************************)
(* The broker implements the ring: every step of it is a session joining   *)
(* at the end, some sessions leaving, or nothing.                          *)
(***************************************************************************)

Ringed(t) == <<Live(t), ArrivedBefore(t)>>

(* What the ring sees of the steps of a table.                             *)
TableUnmoved(t, u) == Ringed(u) = Ringed(t)

TableJoined(t, u, s) ==
  /\ s \notin Live(t)
  /\ Cardinality(Live(t)) < MaxSegs
  /\ Live(u) = Live(t) \cup {s}
  /\ ArrivedBefore(u) = ArrivedBefore(t) \cup (Live(t) \X {s})

TableLeft(t, u, S) ==
  /\ S \in SUBSET Live(t)
  /\ Live(u) = Live(t) \ S
  /\ ArrivedBefore(u) = ArrivedBefore(t) \cap (Live(u) \X Live(u))

RingStep(t, u) ==
  \/ TableUnmoved(t, u)
  \/ \E s \in Sids : TableJoined(t, u, s)
  \/ \E S \in SUBSET Live(t) : TableLeft(t, u, S)

(* Each live session holds a slot of its own, so a free slot means that    *)
(* the ring has room.                                                      *)
LEMMA FreeSlotMeansRoom ==
  ASSUME NEW t \in TableOf(SessionRecord), TableInv(t), ~Full(t)
  PROVE  Cardinality(Live(t)) < MaxSegs
<1> DEFINE slots == t.used
<1>1. t.index \in Injection(Live(t), slots)
  <2>1. DOMAIN t.index = Live(t)
    BY DEF TableInv, SameSessions
  <2>2. t.index \in [Live(t) -> slots]
    BY <2>1 DEF TableInv, SlotsOwned, TableOf, Dict
  <2> QED
    BY <2>1, <2>2 DEF TableInv, SlotsOwned, Injection, IsInjective
<1>2. IsFiniteSet(Slots) /\ Cardinality(Slots) = MaxSegs
  <2>1. 0 \in Int /\ MaxSegs - 1 \in Int /\ ~(0 > MaxSegs - 1)
    BY CapacityAssumption
  <2>2. IsFiniteSet(0 .. MaxSegs - 1)
        /\ Cardinality(0 .. MaxSegs - 1) = MaxSegs - 1 - 0 + 1
    BY <2>1, FS_Interval
  <2> QED
    BY <2>2, CapacityAssumption DEF Slots
<1>3. slots \in SUBSET Slots /\ slots # Slots
  BY NextFreeIsFree DEF TableOf
<1>4. IsFiniteSet(slots) /\ Cardinality(slots) < Cardinality(Slots)
  <2>1. /\ IsFiniteSet(slots)
        /\ Cardinality(slots) <= Cardinality(Slots)
        /\ Cardinality(Slots) = Cardinality(slots) => Slots = slots
    BY <1>2, <1>3, FS_Subset
  <2>2. Cardinality(slots) \in Nat /\ Cardinality(Slots) \in Nat
    BY <1>2, <2>1, FS_CardinalityType
  <2> QED
    BY <1>3, <2>1, <2>2
<1>5. IsFiniteSet(Live(t)) /\ Cardinality(Live(t)) <= Cardinality(slots)
  <2> DEFINE sessions == Live(t)
             holds    == t.index
  <2>1. holds \in Injection(sessions, slots) /\ IsFiniteSet(slots)
    BY <1>1, <1>4
  <2> HIDE DEF slots, sessions, holds
  <2>2. IsFiniteSet(sessions) /\ Cardinality(sessions) <= Cardinality(slots)
    BY <2>1, FS_Injection
  <2> QED
    BY <2>2 DEF sessions
<1>6. Cardinality(Live(t)) \in Nat /\ Cardinality(slots) \in Nat
  BY <1>4, <1>5, FS_CardinalityType
<1> QED
  BY <1>2, <1>4, <1>5, <1>6, CapacityAssumption

(* Freeing sessions, those that are on the table, leaves the others as     *)
(* they were.                                                              *)
LEMMA FreeLeaves ==
  ASSUME NEW t \in TableOf(SessionRecord), TableInv(t), NEW S
  PROVE  TableLeft(t, Free(t, S), S \cap Live(t))
<1> DEFINE u == Free(t, S)
<1>1. /\ Live(u) = Live(t) \ S
      /\ \A x \in Live(t) \ S : u.order[x] = t.order[x]
  BY FreeKeepsTable
<1> HIDE DEF u
<1>2. ArrivedBefore(u) = ArrivedBefore(t) \cap (Live(u) \X Live(u))
  BY <1>1 DEF ArrivedBefore
<1>3. Live(u) = Live(t) \ (S \cap Live(t))
  BY <1>1
<1> QED
  BY <1>2, <1>3 DEF TableLeft, u

LEMMA SetRecordUnmoved ==
  ASSUME NEW t \in TableOf(SessionRecord), TableInv(t), NEW s \in Live(t),
         NEW rec \in SessionRecord, rec.segment = t.sessions[s].segment
  PROVE  TableUnmoved(t, SetRecord(t, s, rec))
<1> DEFINE u == SetRecord(t, s, rec)
<1>1. Live(u) = Live(t) /\ u.order = t.order
  BY SetRecordKeepsTable
<1> QED
  BY <1>1 DEF TableUnmoved, Ringed, ArrivedBefore

LEMMA RegisterJoins ==
  ASSUME NEW t \in TableOf(SessionRecord), TableInv(t), NEW s \in Sids, NEW rec
  PROVE  RingStep(t, Register(t, s, rec))
<1>1. CASE s \in DOMAIN t.index \/ Full(t)
  BY <1>1 DEF Register, RingStep, TableUnmoved
<1>2. CASE s \notin DOMAIN t.index /\ ~Full(t)
  <2> DEFINE u == Register(t, s, rec)
  <2>1. /\ u.sessions = Put(t.sessions, s, [rec EXCEPT !.segment = NextFree(t)])
        /\ u.order = Put(t.order, s, t.seq + 1)
    BY <1>2 DEF Register
  <2> HIDE DEF u
  <2>2. DOMAIN t.order = Live(t) /\ s \notin Live(t)
    BY <1>2 DEF TableInv, SameSessions
  <2>3. Live(u) = Live(t) \cup {s}
    BY <2>1 DEF Put, Live
  <2>4. \A x \in Live(t) : u.order[x] = t.order[x] /\ t.order[x] < u.order[s]
    <3>1. \A x \in Live(t) : t.order[x] \in Nat /\ t.order[x] <= t.seq
      BY <2>2 DEF TableInv, StampsDistinct, TableOf, Dict
    <3>2. t.seq \in Nat
      BY DEF TableOf
    <3>3. u.order[s] = t.seq + 1 /\ \A x \in Live(t) : u.order[x] = t.order[x]
      BY <2>1, <2>2 DEF Put
    <3> QED
      BY <3>1, <3>2, <3>3
  <2>5. u.order[s] \in Nat /\ \A x \in Live(t) : t.order[x] \in Nat
    <3>1. t.seq \in Nat /\ u.order[s] = t.seq + 1
      BY <2>1, <2>2 DEF Put, TableOf
    <3> QED
      BY <2>2, <3>1 DEF TableOf, Dict
  <2>6. ArrivedBefore(u) = ArrivedBefore(t) \cup (Live(t) \X {s})
    <3>1. ASSUME NEW a, NEW b
          PROVE  <<a, b>> \in ArrivedBefore(u)
                   <=> <<a, b>> \in ArrivedBefore(t) \cup (Live(t) \X {s})
      BY <2>2, <2>3, <2>4, <2>5 DEF ArrivedBefore
    <3>2. \A p \in ArrivedBefore(u) : \E a, b : p = <<a, b>>
      BY DEF ArrivedBefore
    <3>3. \A p \in ArrivedBefore(t) \cup (Live(t) \X {s}) : \E a, b : p = <<a, b>>
      BY DEF ArrivedBefore
    <3> QED
      BY <3>1, <3>2, <3>3
  <2>7. Cardinality(Live(t)) < MaxSegs
    BY <1>2, FreeSlotMeansRoom
  <2> QED
    BY <2>2, <2>3, <2>6, <2>7 DEF RingStep, TableJoined, u
<1> QED
  BY <1>1, <1>2

(***************************************************************************)
(* Every handler is a step of the ring.                                    *)
(***************************************************************************)

LEMMA HandleEventIsRingStep ==
  ASSUME NEW t \in TableOf(SessionRecord), TableInv(t), NEW s \in Sids,
         NEW verb \in ReportVerbs, NEW pid \in Pids, NEW cwd \in CwdNames, NEW here
  PROVE  RingStep(t, HandleEvent(t, s, verb, pid, cwd, here))
<1>1. VerbToState(verb) = "Offline" <=> verb = "end"
  BY DEF VerbToState, ReportVerbs, RunningVerbs, DoneVerbs, ErrorVerbs, ApprovalVerbs,
         InputVerbs, UnmappedConsentVerbs, UnmappedNotifyVerbs, UnmappedVerbs
<1>2. CASE verb = "end"
  <2>1. HandleEvent(t, s, verb, pid, cwd, here) = Free(t, {s})
    BY <1>1, <1>2 DEF HandleEvent
  <2>2. TableLeft(t, Free(t, {s}), {s} \cap Live(t))
    BY FreeLeaves
  <2> QED
    BY <2>1, <2>2 DEF RingStep
<1>3. CASE verb # "end" /\ s \notin Live(t)
  <2>1. HandleEvent(t, s, verb, pid, cwd, here) = ReportNew(t, s, verb, pid, cwd, here)
    BY <1>1, <1>3 DEF HandleEvent
  <2>2. \A rec : RingStep(t, Register(t, s, rec))
    BY RegisterJoins
  <2>3. RingStep(t, t)
    BY DEF RingStep, TableUnmoved
  <2> QED
    BY <2>1, <2>2, <2>3 DEF ReportNew
<1>4. CASE verb # "end" /\ s \in Live(t)
  <2> DEFINE r == t.sessions[s]
  <2>1. r \in SessionRecord
    BY <1>4, RecordsOfTable
  <2>2. CASE verb = "start"
    <3> DEFINE q == [r EXCEPT !.age = 0, !.wakeup = FALSE,
                              !.cwd = IF @ = NoCwd THEN cwd ELSE @]
    <3>1. HandleEvent(t, s, verb, pid, cwd, here) = SetRecord(t, s, Probe(q, pid, here))
      BY <1>1, <1>4, <2>2 DEF HandleEvent, StartKnown
    <3>2. q \in SessionRecord /\ q.segment = r.segment
      BY <2>1 DEF SessionRecord
    <3> HIDE DEF q
    <3>3. /\ Probe(q, pid, here) \in SessionRecord
          /\ Probe(q, pid, here).segment = r.segment
      BY <3>2, ProbeProperties
    <3>4. TableUnmoved(t, SetRecord(t, s, Probe(q, pid, here)))
      BY <1>4, <3>3, SetRecordUnmoved
    <3> QED
      BY <3>1, <3>4 DEF RingStep
  <2>3. CASE verb # "start"
    <3> DEFINE e  == Resolved(t, s, verb)
               q  == [r EXCEPT !.state = e.state, !.age = 0]
               t1 == SetRecord(t, s, q)
               w  == [q EXCEPT !.wakeup = e.wakeup]
    <3>1. HandleEvent(t, s, verb, pid, cwd, here) = ReportKnown(t, s, verb, pid, here)
      BY <1>1, <1>4, <2>3 DEF HandleEvent
    <3>2. ReportKnown(t, s, verb, pid, here) =
            SetRecord(t1, s, Probe([t1.sessions[s] EXCEPT !.wakeup = e.wakeup], pid, here))
      BY <1>4 DEF ReportKnown, Update, NewRecord
    <3>3. e.state \in State \ {"Offline"} /\ e.wakeup \in BOOLEAN
      BY <1>4, ResolvedRecord
    <3> HIDE DEF e, r
    <3>4. /\ q \in SessionRecord /\ q.segment = r.segment
          /\ w \in SessionRecord /\ w.segment = r.segment
      BY <2>1, <3>3 DEF SessionRecord
    <3> HIDE DEF q, w
    <3>5. /\ t1 \in TableOf(SessionRecord) /\ TableInv(t1) /\ Live(t1) = Live(t)
          /\ t1.sessions[s] = q
      BY <1>4, <3>4, SetRecordKeepsTable DEF r
    <3>6. TableUnmoved(t, t1)
      BY <1>4, <3>4, SetRecordUnmoved DEF r
    <3>7. /\ Probe(w, pid, here) \in SessionRecord
          /\ Probe(w, pid, here).segment = q.segment
      BY <3>4, ProbeProperties
    <3> HIDE DEF t1
    <3>8. TableUnmoved(t1, SetRecord(t1, s, Probe(w, pid, here)))
      BY <1>4, <3>5, <3>7, SetRecordUnmoved
    <3>9. TableUnmoved(t, HandleEvent(t, s, verb, pid, cwd, here))
      BY <3>1, <3>2, <3>5, <3>6, <3>8 DEF TableUnmoved, w
    <3> QED
      BY <3>9 DEF RingStep
  <2> QED
    BY <2>2, <2>3
<1> QED
  BY <1>2, <1>3, <1>4

(* A sweep lets the dead and then the stale leave, at once.                *)
LEMMA SweepIsRingStep ==
  ASSUME NEW t \in TableOf(SessionRecord), TableInv(t), NEW here
  PROVE  RingStep(t, Swept(t, here))
<1> DEFINE D  == DeadSessions(t, here)
           t1 == Free(t, D)
           S  == Stale(t1)
           u  == Free(t1, S)
<1>1. t1 \in TableOf(SessionRecord) /\ TableInv(t1)
  BY FreeKeepsTable
<1>2. TableLeft(t, t1, D \cap Live(t))
  BY FreeLeaves
<1> HIDE DEF t1, D
<1>3. TableLeft(t1, u, S \cap Live(t1))
  BY <1>1, FreeLeaves
<1> HIDE DEF u, S
<1>4. TableLeft(t, u, (D \cap Live(t)) \cup (S \cap Live(t1)))
  BY <1>2, <1>3 DEF TableLeft
<1>5. Swept(t, here) = u
  BY DEF Swept, EvictStale, u, S, t1, D
<1> QED
  BY <1>4, <1>5 DEF RingStep, TableLeft

LEMMA ElapseUnmoved ==
  ASSUME NEW t
  PROVE  TableUnmoved(t, Elapse(t)) \/ ~(t \in TableOf(SessionRecord))
<1> SUFFICES ASSUME t \in TableOf(SessionRecord) PROVE TableUnmoved(t, Elapse(t))
  OBVIOUS
<1>1. Live(Elapse(t)) = Live(t) /\ Elapse(t).order = t.order
  BY DEF Elapse, Live, TableOf
<1> QED
  BY <1>1 DEF TableUnmoved, Ringed, ArrivedBefore

LEMMA StopIsRingStep ==
  ASSUME NEW t
  PROVE  RingStep(t, EmptyTable)
<1>1. Live(EmptyTable) = {}
  BY EmptyTableOK
<1>2. ArrivedBefore(EmptyTable) = {}
  BY <1>1 DEF ArrivedBefore
<1>3. TableLeft(t, EmptyTable, Live(t))
  BY <1>1, <1>2 DEF TableLeft
<1> QED
  BY <1>3 DEF RingStep

(* Every step of the broker is a step of the ring, or leaves it unmoved.   *)
LEMMA NextIsRingStep ==
  ASSUME IInv, [Next]_vars
  PROVE  RingStep(table, table')
<1>t. table \in TableOf(SessionRecord) /\ TableInv(table)
  BY DEF IInv, TableGood
<1>u. TableUnmoved(table, table)
  BY DEF TableUnmoved
<1>1. CASE Report
  <2>1. PICK s \in Sids, verb \in ReportVerbs, pid \in Pids, cwd \in CwdNames :
          Handled(HandleEvent(table, s, verb, pid, cwd, alive))
    <3>1. "end" \in ReportVerbs /\ "start" \in ReportVerbs
          /\ NoPid \in Pids /\ NoCwd \in CwdNames
      BY DEF ReportVerbs, Pids, CwdNames
    <3> QED
      BY <1>1, <3>1, VerbAssumption
         DEF Report, SessionEnds, SessionStarts, SessionReports, SessionAppears
  <2>2. table' = HandleEvent(table, s, verb, pid, cwd, alive)
    BY <2>1 DEF Handled
  <2> QED
    BY <1>t, <2>2, HandleEventIsRingStep
<1>2. CASE Beat
  <2>1. PICK s \in Sids, pid \in Pids : Heartbeat(s, pid)
    BY <1>2 DEF Beat
  <2> DEFINE r == table.sessions[s]
             q == IF r.state \notin RESTING_STATES \/ r.wakeup
                    THEN [r EXCEPT !.age = 0] ELSE r
  <2>2. s \in Live(table) /\ table' = SetRecord(table, s, Probe(q, pid, alive))
    BY <2>1 DEF Heartbeat, HeartbeatKnown
  <2>3. r \in SessionRecord
    BY <1>t, <2>2, RecordsOfTable
  <2> HIDE DEF r
  <2>4. q \in SessionRecord /\ q.segment = r.segment
    BY <2>3 DEF SessionRecord
  <2> HIDE DEF q
  <2>5. /\ Probe(q, pid, alive) \in SessionRecord
        /\ Probe(q, pid, alive).segment = r.segment
    BY <2>4, ProbeProperties
  <2> QED
    BY <1>t, <2>2, <2>5, SetRecordUnmoved DEF RingStep, r
<1>3. CASE Tick
  BY <1>t, <1>3, ElapseUnmoved DEF Tick, RingStep
<1>4. CASE Sweep
  BY <1>t, <1>4, SweepIsRingStep DEF Sweep
<1>5. CASE BrokerStarts \/ BrokerStops
  BY <1>5, StopIsRingStep DEF BrokerStarts, BrokerStops
<1>6. CASE Environment \/ UNCHANGED vars
  <2>1. table' = table
    BY <1>6 DEF Environment, ProcessStarts, ProcessExits, LinkDrops, LinkReturns,
                brokerVars, vars
  <2> QED
    BY <1>u, <2>1 DEF RingStep
<1> QED
  BY <1>1, <1>2, <1>3, <1>4, <1>5, <1>6 DEF Next

(* The broker implements the ring: at most MaxSegs segments, in arrival    *)
(* order, newcomers behind everyone and displacing nobody.                 *)
THEOREM BrokerImplementsRing == Spec => RingSpec
<1>1. Init => RingOfSegments!Init
  <2> SUFFICES ASSUME Init PROVE RingOfSegments!Init
    OBVIOUS
  <2>1. Live(table) = {}
    BY EmptyTableOK DEF Init
  <2> QED
    BY <2>1 DEF RingOfSegments!Init, ArrivedBefore
<1>2. IInv /\ [Next]_vars => [RingOfSegments!Next]_(RingOfSegments!vars)
  <2> SUFFICES ASSUME IInv, [Next]_vars
               PROVE  [RingOfSegments!Next]_(RingOfSegments!vars)
    OBVIOUS
  <2>1. RingStep(table, table')
    BY NextIsRingStep
  <2>2. CASE TableUnmoved(table, table')
    BY <2>2 DEF TableUnmoved, Ringed, RingOfSegments!vars, ArrivedBefore, Live
  <2>3. CASE \E s \in Sids : TableJoined(table, table', s)
    BY <2>3 DEF TableJoined, RingOfSegments!Next, RingOfSegments!Join,
                RingOfSegments!Cardinality, Cardinality
  <2>4. CASE \E S \in SUBSET Live(table) : TableLeft(table, table', S)
    BY <2>4 DEF TableLeft, RingOfSegments!Next, RingOfSegments!Leave
  <2> QED
    BY <2>1, <2>2, <2>3, <2>4 DEF RingStep
<1> QED
  BY <1>1, <1>2, IInvHolds, PTL DEF Spec, RingSpec, RingOfSegments!Spec
=============================================================================
