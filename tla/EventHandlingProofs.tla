------------------------- MODULE EventHandlingProofs -------------------------
(***************************************************************************)
(* What the operations of the session table, the handlers and the sweep    *)
(* made of them preserve.  They are stated about tables, so that the       *)
(* broker, the Vibe watcher and the hooks, which share the table, can each *)
(* be reasoned about with them.                                            *)
(***************************************************************************)
EXTENDS EventHandling, TLAPS

LOCAL INSTANCE WellFoundedInduction

(* The dictionaries from a part of S to T, and the well-typed tables, as   *)
(* sets.                                                                   *)
Dict(S, T) == UNION {[D -> T] : D \in SUBSET S}

TableOf(Record) ==
  [sessions : Dict(Sids, Record), index : Dict(Sids, Slots),
   used : SUBSET Slots, order : Dict(Sids, Nat), seq : Nat]

LEMMA TableOfIsTable ==
  ASSUME NEW Record, NEW t \in TableOf(Record)
  PROVE  IsTableOf(t, Record)
<1>1. ASSUME NEW T, NEW d \in Dict(Sids, T)
      PROVE  IsDict(d, Sids, T)
  <2>1. PICK D \in SUBSET Sids : d \in [D -> T]
    BY <1>1 DEF Dict
  <2> QED
    BY <2>1 DEF IsDict
<1>2. /\ t.sessions \in Dict(Sids, Record) /\ t.index \in Dict(Sids, Slots)
      /\ t.used \subseteq Slots /\ t.order \in Dict(Sids, Nat) /\ t.seq \in Nat
  BY DEF TableOf
<1>3. DOMAIN t = {"sessions", "index", "used", "order", "seq"}
  BY DEF TableOf
<1> QED
  BY <1>1, <1>2, <1>3 DEF IsTableOf

(* A non-empty set of naturals has a least element.                        *)
LEMMA LeastNatural ==
  ASSUME NEW S \in SUBSET Nat, S # {}
  PROVE  \E i \in S : \A j \in S : i <= j
<1> DEFINE Less == {p \in Nat \X Nat : p[1] < p[2]}
<1>1. IsWellFoundedOn(Less, Nat)
  BY NatLessThanWellFounded DEF OpToRel
<1> HIDE DEF Less
<1>2. PICK i \in S : \A j \in S : <<j, i>> \notin Less
  BY <1>1, WFMin
<1>3. \A j \in S : ~(j < i)
  BY <1>2 DEF Less
<1> QED
  BY <1>3

(* _next_free answers a free slot unless the table is full.                *)
LEMMA NextFreeIsFree ==
  ASSUME NEW t, ~Full(t)
  PROVE  NextFree(t) \in Slots \ t.used
<1> DEFINE free == Slots \ t.used
<1>1. free # {}
  BY DEF Full, NextFree
<1>2. free \in SUBSET Nat
  BY CapacityAssumption DEF Slots
<1>3. \E i \in free : \A j \in free : i <= j
  BY <1>1, <1>2, LeastNatural
<1>4. NextFree(t) = CHOOSE i \in free : \A j \in free : i <= j
  BY <1>1 DEF NextFree
<1> QED
  BY <1>3, <1>4

(* A dictionary keeps its type when a key is added, and when keys are      *)
(* dropped.                                                                *)
LEMMA DictPut ==
  ASSUME NEW S, NEW T, NEW f \in Dict(S, T), NEW s \in S, NEW v \in T
  PROVE  Put(f, s, v) \in Dict(S, T)
<1>1. PICK D \in SUBSET S : f \in [D -> T]
  BY DEF Dict
<1>2. Put(f, s, v) \in [D \cup {s} -> T]
  BY <1>1 DEF Put
<1> QED
  BY <1>2 DEF Dict

LEMMA DictDrop ==
  ASSUME NEW S, NEW T, NEW f \in Dict(S, T), NEW K
  PROVE  Drop(f, K) \in Dict(S, T)
<1>1. PICK D \in SUBSET S : f \in [D -> T]
  BY DEF Dict
<1>2. Drop(f, K) \in [D \ K -> T]
  BY <1>1 DEF Drop, Restrict
<1> QED
  BY <1>2 DEF Dict

(***************************************************************************)
(* Each operation keeps the table well typed and well formed.              *)
(***************************************************************************)

LEMMA RegisterKeepsTable ==
  ASSUME NEW Record, NEW t \in TableOf(Record), TableInv(t),
         NEW s \in Sids, NEW rec,
         \A slot \in Slots : [rec EXCEPT !.segment = slot] \in Record,
         \A slot \in Slots : [rec EXCEPT !.segment = slot].segment = slot
  PROVE  /\ Register(t, s, rec) \in TableOf(Record)
         /\ TableInv(Register(t, s, rec))
<1>1. CASE s \in DOMAIN t.index \/ Full(t)
  BY <1>1 DEF Register
<1>2. CASE s \notin DOMAIN t.index /\ ~Full(t)
  <2> DEFINE slot == NextFree(t)
             r    == [rec EXCEPT !.segment = slot]
             u    == Register(t, s, rec)
  <2>1. slot \in Slots \ t.used
    BY <1>2, NextFreeIsFree
  <2>2. u = [sessions |-> Put(t.sessions, s, r), index |-> Put(t.index, s, slot),
             used |-> t.used \cup {slot}, order |-> Put(t.order, s, t.seq + 1),
             seq |-> t.seq + 1]
    BY <1>2 DEF Register
  <2>3. r \in Record /\ r.segment = slot
    BY <2>1
  <2> HIDE DEF slot, r, u
  <2>t. /\ t.sessions \in Dict(Sids, Record)
        /\ t.index \in Dict(Sids, Slots)
        /\ t.used \in SUBSET Slots
        /\ t.order \in Dict(Sids, Nat)
        /\ t.seq \in Nat
    BY DEF TableOf
  <2>p. /\ u.sessions = Put(t.sessions, s, r)
        /\ u.index = Put(t.index, s, slot)
        /\ u.order = Put(t.order, s, t.seq + 1)
        /\ u.used = t.used \cup {slot}
        /\ u.seq = t.seq + 1
    BY <2>2
  <2>4. /\ u.sessions \in Dict(Sids, Record)
        /\ DOMAIN u.sessions = Live(t) \cup {s}
        /\ \A x \in Live(t) \cup {s} :
             u.sessions[x] = IF x = s THEN r ELSE t.sessions[x]
    <3>1. u.sessions \in Dict(Sids, Record)
      BY <2>p, <2>3, <2>t, DictPut
    <3> QED
      BY ONLY <3>1, <2>p DEF Put, Live
  <2>5. /\ u.index \in Dict(Sids, Slots)
        /\ DOMAIN u.index = DOMAIN t.index \cup {s}
        /\ \A x \in DOMAIN t.index \cup {s} :
             u.index[x] = IF x = s THEN slot ELSE t.index[x]
    <3>1. u.index \in Dict(Sids, Slots)
      BY <2>p, <2>1, <2>t, DictPut
    <3> QED
      BY ONLY <3>1, <2>p DEF Put
  <2>6. /\ u.order \in Dict(Sids, Nat)
        /\ DOMAIN u.order = DOMAIN t.order \cup {s}
        /\ \A x \in DOMAIN t.order \cup {s} :
             u.order[x] = IF x = s THEN t.seq + 1 ELSE t.order[x]
    <3>1. t.seq + 1 \in Nat
      BY <2>t
    <3>2. u.order \in Dict(Sids, Nat)
      BY <3>1, <2>p, <2>t, DictPut
    <3> QED
      BY ONLY <3>2, <2>p DEF Put
  <2>7. u \in TableOf(Record)
    BY <2>1, <2>2, <2>p, <2>t, <2>4, <2>5, <2>6 DEF TableOf
  <2>8. SameSessions(u)
    BY <2>4, <2>5, <2>6 DEF SameSessions, TableInv, Live
  <2>9. SlotsOwned(u)
    <3>1. u.used = {u.index[x] : x \in DOMAIN u.index}
      BY <2>p, <2>5, <1>2 DEF TableInv, SlotsOwned
    <3>2. \A x, y \in DOMAIN u.index : u.index[x] = u.index[y] => x = y
      BY <2>1, <2>5, <1>2 DEF TableInv, SlotsOwned
    <3>3. \A x \in Live(u) : u.sessions[x].segment = u.index[x]
      BY <2>3, <2>4, <2>5, <1>2 DEF TableInv, SlotsOwned, SameSessions, Live
    <3> QED
      BY <3>1, <3>2, <3>3 DEF SlotsOwned
  <2>10. StampsDistinct(u)
    <3>1. \A x \in DOMAIN t.order : t.order[x] \in Nat
      BY <2>t DEF Dict
    <3> QED
      BY <3>1, <2>p, <2>t, <2>6 DEF TableInv, StampsDistinct
  <2> QED
    BY <2>7, <2>8, <2>9, <2>10 DEF TableInv, u
<1> QED
  BY <1>1, <1>2

LEMMA FreeKeepsTable ==
  ASSUME NEW Record, NEW t \in TableOf(Record), TableInv(t), NEW S
  PROVE  /\ Free(t, S) \in TableOf(Record)
         /\ TableInv(Free(t, S))
         /\ Live(Free(t, S)) = Live(t) \ S
         /\ \A x \in Live(t) \ S : /\ Free(t, S).sessions[x] = t.sessions[x]
                                   /\ Free(t, S).order[x] = t.order[x]
         /\ Free(t, S).seq = t.seq
<1> DEFINE u == Free(t, S)
<1>t. /\ t.sessions \in Dict(Sids, Record)
      /\ t.index \in Dict(Sids, Slots)
      /\ t.used \in SUBSET Slots
      /\ t.order \in Dict(Sids, Nat)
      /\ t.seq \in Nat
  BY DEF TableOf
<1>1. u = [sessions |-> Drop(t.sessions, S),
           index |-> Drop(t.index, S),
           used |-> t.used \ {t.index[s] : s \in S \cap DOMAIN t.index},
           order |-> Drop(t.order, S),
           seq |-> t.seq]
  BY DEF Free
<1> HIDE DEF u
<1>p. /\ u.sessions = Drop(t.sessions, S)
      /\ u.index = Drop(t.index, S)
      /\ u.order = Drop(t.order, S)
  BY <1>1
<1>2. /\ u.sessions \in Dict(Sids, Record)
      /\ DOMAIN u.sessions = Live(t) \ S
      /\ \A x \in Live(t) \ S : u.sessions[x] = t.sessions[x]
  <2>1. u.sessions \in Dict(Sids, Record)
    BY <1>p, <1>t, DictDrop
  <2> QED
    BY ONLY <2>1, <1>p DEF Drop, Restrict, Live
<1>3. /\ u.index \in Dict(Sids, Slots)
      /\ DOMAIN u.index = DOMAIN t.index \ S
      /\ \A x \in DOMAIN t.index \ S : u.index[x] = t.index[x]
  <2>1. u.index \in Dict(Sids, Slots)
    BY <1>p, <1>t, DictDrop
  <2> QED
    BY ONLY <2>1, <1>p DEF Drop, Restrict
<1>4. /\ u.order \in Dict(Sids, Nat)
      /\ DOMAIN u.order = DOMAIN t.order \ S
      /\ \A x \in DOMAIN t.order \ S : u.order[x] = t.order[x]
  <2>1. u.order \in Dict(Sids, Nat)
    BY <1>p, <1>t, DictDrop
  <2> QED
    BY ONLY <2>1, <1>p DEF Drop, Restrict
<1>5. u \in TableOf(Record)
  BY <1>1, <1>t, <1>2, <1>3, <1>4 DEF TableOf
<1>6. SameSessions(u)
  BY <1>2, <1>3, <1>4 DEF SameSessions, TableInv, Live
<1>7. SlotsOwned(u)
  <2>1. u.used = {u.index[x] : x \in DOMAIN u.index}
    BY <1>1, <1>3 DEF TableInv, SlotsOwned
  <2>2. \A x, y \in DOMAIN u.index : u.index[x] = u.index[y] => x = y
    BY <1>3 DEF TableInv, SlotsOwned
  <2>3. \A x \in Live(u) : u.sessions[x].segment = u.index[x]
    BY <1>2, <1>3 DEF TableInv, SlotsOwned, SameSessions, Live
  <2> QED
    BY <2>1, <2>2, <2>3 DEF SlotsOwned
<1>8. StampsDistinct(u)
  BY <1>1, <1>4 DEF TableInv, StampsDistinct
<1>9. Live(u) = Live(t) \ S
  BY <1>2 DEF Live
<1>10. \A x \in Live(t) \ S : u.sessions[x] = t.sessions[x] /\ u.order[x] = t.order[x]
  BY <1>2, <1>4 DEF TableInv, SameSessions
<1>11. u.seq = t.seq
  BY <1>1
<1>12. TableInv(u)
  BY <1>6, <1>7, <1>8 DEF TableInv
<1> QED
  BY <1>5, <1>9, <1>10, <1>11, <1>12 DEF u

(* Replacing the record of a session by one with the same segment.         *)
LEMMA SetRecordKeepsTable ==
  ASSUME NEW Record, NEW t \in TableOf(Record), TableInv(t),
         NEW s \in Live(t), NEW rec \in Record,
         rec.segment = t.sessions[s].segment
  PROVE  /\ SetRecord(t, s, rec) \in TableOf(Record)
         /\ TableInv(SetRecord(t, s, rec))
         /\ Live(SetRecord(t, s, rec)) = Live(t)
         /\ SetRecord(t, s, rec).sessions[s] = rec
         /\ \A x \in Live(t) \ {s} : SetRecord(t, s, rec).sessions[x] = t.sessions[x]
         /\ SetRecord(t, s, rec).order = t.order
         /\ SetRecord(t, s, rec).seq = t.seq
<1> DEFINE u == SetRecord(t, s, rec)
<1>t. t.sessions \in Dict(Sids, Record)
  BY DEF TableOf
<1>1. /\ u.sessions = [t.sessions EXCEPT ![s] = rec]
      /\ u.index = t.index /\ u.used = t.used
      /\ u.order = t.order /\ u.seq = t.seq
      /\ u = [sessions |-> u.sessions, index |-> u.index, used |-> u.used,
              order |-> u.order, seq |-> u.seq]
  BY DEF SetRecord, TableOf
<1> HIDE DEF u
<1>2. u.sessions \in Dict(Sids, Record)
  <2>1. PICK D \in SUBSET Sids : t.sessions \in [D -> Record]
    BY <1>t DEF Dict
  <2>2. u.sessions \in [D -> Record]
    BY <1>1, <2>1
  <2> QED
    BY <2>2 DEF Dict
<1>3. u \in TableOf(Record)
  BY <1>1, <1>2 DEF TableOf
<1>4. Live(u) = Live(t) /\ u.sessions[s] = rec
  BY <1>1 DEF Live
<1>5. \A x \in Live(t) \ {s} : u.sessions[x] = t.sessions[x]
  BY <1>1 DEF Live
<1>6. TableInv(u)
  <2>1. SameSessions(u)
    BY <1>1, <1>4 DEF TableInv, SameSessions
  <2>2. \A x \in Live(u) : u.sessions[x].segment = u.index[x]
    BY <1>1, <1>4, <1>5 DEF TableInv, SlotsOwned
  <2>3. SlotsOwned(u)
    BY <1>1, <2>2 DEF TableInv, SlotsOwned
  <2>4. StampsDistinct(u)
    BY <1>1 DEF TableInv, StampsDistinct
  <2> QED
    BY <2>1, <2>3, <2>4 DEF TableInv
<1> QED
  BY <1>1, <1>3, <1>4, <1>5, <1>6 DEF u

(* Time passing for every record.                                          *)
LEMMA ElapseKeepsTable ==
  ASSUME NEW Record, NEW t \in TableOf(Record), TableInv(t),
         \A r \in Record : Older(r) \in Record /\ Older(r).segment = r.segment
  PROVE  /\ Elapse(t) \in TableOf(Record)
         /\ TableInv(Elapse(t))
         /\ Live(Elapse(t)) = Live(t)
         /\ \A x \in Live(t) : Elapse(t).sessions[x] = Older(t.sessions[x])
         /\ Elapse(t).order = t.order
<1> DEFINE u == Elapse(t)
<1>1. PICK D \in SUBSET Sids : t.sessions \in [D -> Record]
  BY DEF TableOf, Dict
<1>2. /\ u.sessions = [s \in Live(t) |-> Older(t.sessions[s])]
      /\ u.index = t.index /\ u.used = t.used
      /\ u.order = t.order /\ u.seq = t.seq
      /\ u = [sessions |-> u.sessions, index |-> u.index, used |-> u.used,
              order |-> u.order, seq |-> u.seq]
  BY DEF Elapse, TableOf
<1> HIDE DEF u
<1>3. u.sessions \in [D -> Record]
  BY <1>1, <1>2 DEF Live
<1>4. u \in TableOf(Record)
  BY <1>2, <1>3 DEF TableOf, Dict
<1>5. /\ Live(u) = Live(t)
      /\ \A x \in Live(t) : u.sessions[x] = Older(t.sessions[x])
  BY <1>2 DEF Live
<1>6. \A x \in Live(u) : u.sessions[x].segment = t.sessions[x].segment
  BY <1>1, <1>5 DEF Live
<1>7. TableInv(u)
  <2>1. SameSessions(u) /\ StampsDistinct(u)
    BY <1>2, <1>5 DEF TableInv, SameSessions, StampsDistinct
  <2>2. SlotsOwned(u)
    BY <1>2, <1>5, <1>6 DEF TableInv, SlotsOwned
  <2> QED
    BY <2>1, <2>2 DEF TableInv
<1> QED
  BY <1>2, <1>4, <1>5, <1>7 DEF u

LEMMA EmptyTableOK ==
  ASSUME NEW Record
  PROVE  EmptyTable \in TableOf(Record) /\ TableInv(EmptyTable) /\ Live(EmptyTable) = {}
<1> DEFINE none == [s \in {} |-> 0]
<1>1. \A T : none \in Dict(Sids, T)
  <2> SUFFICES ASSUME NEW T PROVE none \in [{} -> T]
    BY DEF Dict
  <2> QED
    OBVIOUS
<1>2. /\ EmptyTable.sessions = none /\ EmptyTable.index = none
      /\ EmptyTable.order = none /\ EmptyTable.used = {} /\ EmptyTable.seq = 0
      /\ EmptyTable = [sessions |-> none, index |-> none, used |-> {},
                       order |-> none, seq |-> 0]
  BY DEF EmptyTable
<1>3. DOMAIN none = {}
  OBVIOUS
<1> HIDE DEF none
<1>4. EmptyTable \in TableOf(Record)
  BY <1>1, <1>2 DEF TableOf
<1> QED
  BY <1>2, <1>3, <1>4
     DEF TableInv, SameSessions, SlotsOwned, StampsDistinct, Live

(***************************************************************************)
(* The handlers.  The argument is one inductive invariant over tables,     *)
(* TableGood(t, n): the table is well typed and well formed, and every     *)
(* record in it keeps its own promises (RecordGood), n being the ticks     *)
(* since the last sweep.  Each operator that a handler is made of          *)
(* preserves it.                                                           *)
(***************************************************************************)

(* An armed record does not call for a human, and no record is older than  *)
(* its window by more than n ticks.                                        *)
RecordGood(rec, n) ==
  /\ rec.wakeup => rec.state \notin CTA_STATES
  /\ rec.age <= Window(rec) + n

TableGood(t, n) ==
  /\ t \in TableOf(SessionRecord)
  /\ TableInv(t)
  /\ \A s \in Live(t) : RecordGood(t.sessions[s], n)

(* Every window is a number of ticks, at least the benign one.             *)
LEMMA WindowBounds ==
  ASSUME NEW rec
  PROVE  Window(rec) \in Nat /\ Window(rec) >= SessionTtl
BY WindowAssumption DEF Window, CtaTtl, LiveTtl

LEMMA RecordsOfTable ==
  ASSUME NEW t \in TableOf(SessionRecord), NEW s \in Live(t)
  PROVE  s \in Sids /\ t.sessions[s] \in SessionRecord
BY DEF TableOf, Dict, Live

(* A fresh record, before it has a segment.                                *)
FreshRecord ==
  [state : State \ {"Offline"}, age : {0}, pid : Pids, pidAliveSeen : BOOLEAN,
   wakeup : BOOLEAN, cwd : CwdNames, segment : {NoSegment}]

(* _probe_pid changes nothing but the pid and whether it was seen alive,   *)
(* and can only lengthen the window.                                       *)
LEMMA ProbeProperties ==
  ASSUME NEW Record, Record \in {SessionRecord, FreshRecord},
         NEW rec \in Record, NEW pid \in Pids, NEW here
  PROVE  /\ Probe(rec, pid, here) \in Record
         /\ Probe(rec, pid, here).state = rec.state
         /\ Probe(rec, pid, here).age = rec.age
         /\ Probe(rec, pid, here).wakeup = rec.wakeup
         /\ Probe(rec, pid, here).segment = rec.segment
         /\ Probe(rec, pid, here).cwd = rec.cwd
         /\ rec.pidAliveSeen => Probe(rec, pid, here).pidAliveSeen
<1>1. CASE pid = NoPid
  BY <1>1 DEF Probe
<1>2. CASE pid # NoPid
  <2> DEFINE seen == rec.pidAliveSeen \/ pid \in here
  <2>1. seen \in BOOLEAN /\ (rec.pidAliveSeen => seen)
    OBVIOUS
  <2>2. Probe(rec, pid, here) = [rec EXCEPT !.pid = pid, !.pidAliveSeen = seen]
    BY <1>2 DEF Probe
  <2> HIDE DEF seen
  <2>3. CASE Record = SessionRecord
    BY <2>1, <2>2, <2>3 DEF SessionRecord
  <2>4. CASE Record = FreshRecord
    BY <2>1, <2>2, <2>4 DEF FreshRecord
  <2> QED
    BY <2>3, <2>4
<1> QED
  BY <1>1, <1>2

LEMMA ProbePid ==
  ASSUME NEW rec \in SessionRecord \cup FreshRecord, NEW pid \in Pids, NEW here
  PROVE  Probe(rec, pid, here).pid = IF pid = NoPid THEN rec.pid ELSE pid
BY DEF Probe, SessionRecord, FreshRecord

LEMMA ProbeKeepsGood ==
  ASSUME NEW n \in Nat, NEW rec \in SessionRecord, RecordGood(rec, n),
         NEW pid \in Pids, NEW here
  PROVE  RecordGood(Probe(rec, pid, here), n)
<1> DEFINE p == Probe(rec, pid, here)
<1>1. /\ p.state = rec.state /\ p.age = rec.age /\ p.wakeup = rec.wakeup
      /\ rec.pidAliveSeen => p.pidAliveSeen
  BY ProbeProperties
<1> HIDE DEF p
<1>2. Window(rec) <= Window(p)
  <2>1. CASE rec.state \in CTA_STATES
    BY <1>1, <2>1, WindowAssumption DEF Window, CtaTtl, CTA_STATES
  <2>2. CASE rec.state \notin CTA_STATES /\ rec.state = "Running" /\ rec.pidAliveSeen
    BY <1>1, <2>2, WindowAssumption DEF Window, LiveTtl
  <2>3. CASE rec.state \notin CTA_STATES /\ ~(rec.state = "Running" /\ rec.pidAliveSeen)
    BY <2>3, WindowBounds DEF Window
  <2> QED
    BY <2>1, <2>2, <2>3
<1>3. Window(p) \in Nat /\ Window(rec) \in Nat /\ rec.age \in Nat
  BY WindowBounds DEF SessionRecord
<1>4. rec.age <= Window(p) + n
  BY <1>2, <1>3 DEF RecordGood
<1> QED
  BY <1>1, <1>4 DEF RecordGood, p

(* _resolve_wakeup never arms a session that calls for a human.            *)
LEMMA ResolveWakeupDisarms ==
  ASSUME NEW verb \in ReportVerbs, verb # "end", NEW prior \in BOOLEAN
  PROVE  LET e == ResolveWakeup(verb, VerbToState(verb), prior) IN
         /\ e.state \in State \ {"Offline"}
         /\ e.wakeup \in BOOLEAN
         /\ e.wakeup => e.state \notin CTA_STATES
<1> USE DEF ReportVerbs, RunningVerbs, DoneVerbs, ErrorVerbs, ApprovalVerbs,
            InputVerbs, UnmappedConsentVerbs, UnmappedNotifyVerbs, UnmappedVerbs
<1>1. VerbToState(verb) \in State \ {"Offline"}
  BY DEF VerbToState, State
<1>2. prior => ~(verb = "notify:idle_prompt" /\ ~prior)
  OBVIOUS
<1>3. verb = "notify:idle_prompt" => VerbToState(verb) = "WaitingInput"
  BY DEF VerbToState
<1> QED
  BY <1>1, <1>3
     DEF ResolveWakeup, CTA_STATES, WAKEUP_VERBS, ACTIVITY_VERBS, State

(***************************************************************************)
(* Every handler and every eviction preserves TableGood.                   *)
(***************************************************************************)

LEMMA SetRecordKeepsGood ==
  ASSUME NEW n \in Nat, NEW t, TableGood(t, n), NEW s \in Live(t),
         NEW rec \in SessionRecord, rec.segment = t.sessions[s].segment,
         RecordGood(rec, n)
  PROVE  TableGood(SetRecord(t, s, rec), n)
<1> DEFINE u == SetRecord(t, s, rec)
<1>1. t \in TableOf(SessionRecord) /\ TableInv(t)
  BY DEF TableGood
<1>2. /\ u \in TableOf(SessionRecord) /\ TableInv(u)
      /\ Live(u) = Live(t) /\ u.sessions[s] = rec
      /\ \A x \in Live(t) \ {s} : u.sessions[x] = t.sessions[x]
  BY <1>1, SetRecordKeepsTable
<1> HIDE DEF u
<1>3. \A x \in Live(u) : RecordGood(u.sessions[x], n)
  BY <1>2 DEF TableGood
<1> QED
  BY <1>2, <1>3 DEF TableGood, u

LEMMA FreeKeepsGood ==
  ASSUME NEW n \in Nat, NEW t, TableGood(t, n), NEW S
  PROVE  TableGood(Free(t, S), n)
<1>1. t \in TableOf(SessionRecord) /\ TableInv(t)
  BY DEF TableGood
<1>2. /\ Free(t, S) \in TableOf(SessionRecord) /\ TableInv(Free(t, S))
      /\ Live(Free(t, S)) = Live(t) \ S
      /\ \A x \in Live(t) \ S : Free(t, S).sessions[x] = t.sessions[x]
  BY <1>1, FreeKeepsTable
<1> QED
  BY <1>2 DEF TableGood

LEMMA RegisterKeepsGood ==
  ASSUME NEW n \in Nat, NEW t, TableGood(t, n), NEW s \in Sids,
         NEW rec \in FreshRecord, rec.wakeup => rec.state \notin CTA_STATES
  PROVE  TableGood(Register(t, s, rec), n)
<1> DEFINE u == Register(t, s, rec)
<1>1. t \in TableOf(SessionRecord) /\ TableInv(t)
  BY DEF TableGood
<1>2. \A slot \in Slots : [rec EXCEPT !.segment = slot] \in SessionRecord
  BY DEF FreshRecord, SessionRecord
<1>3. \A slot \in Slots : [rec EXCEPT !.segment = slot].segment = slot
  BY DEF FreshRecord
<1>4. u \in TableOf(SessionRecord) /\ TableInv(u)
  BY <1>1, <1>2, <1>3, RegisterKeepsTable
<1>5. \A x \in Live(u) : RecordGood(u.sessions[x], n)
  <2>1. CASE s \in DOMAIN t.index \/ Full(t)
    BY <2>1 DEF Register, TableGood
  <2>2. CASE s \notin DOMAIN t.index /\ ~Full(t)
    <3> DEFINE r == [rec EXCEPT !.segment = NextFree(t)]
    <3>1. u.sessions = Put(t.sessions, s, r)
      BY <2>2 DEF Register
    <3>2. NextFree(t) \in Slots
      BY <2>2, NextFreeIsFree
    <3>3. /\ r \in SessionRecord /\ r.age = 0
          /\ r.wakeup => r.state \notin CTA_STATES
      BY <1>2, <3>2 DEF FreshRecord
    <3> HIDE DEF r, u
    <3>4. RecordGood(r, n)
      BY <3>3, WindowBounds, WindowAssumption DEF RecordGood
    <3>5. \A x \in Live(u) :
             u.sessions[x] = r \/ (x \in Live(t) /\ u.sessions[x] = t.sessions[x])
      BY <3>1 DEF Put, Live
    <3> QED
      BY <3>4, <3>5 DEF TableGood
  <2> QED
    BY <2>1, <2>2
<1> QED
  BY <1>4, <1>5 DEF TableGood

LEMMA StartKeepsGood ==
  ASSUME NEW n \in Nat, NEW t, TableGood(t, n), NEW s \in Live(t),
         NEW pid \in Pids, NEW cwd \in CwdNames, NEW here
  PROVE  TableGood(StartKnown(t, s, pid, cwd, here), n)
<1> DEFINE r == t.sessions[s]
           q == [r EXCEPT !.age = 0, !.wakeup = FALSE,
                          !.cwd = IF @ = NoCwd THEN cwd ELSE @]
<1>1. r \in SessionRecord
  BY RecordsOfTable DEF TableGood
<1> HIDE DEF r
<1>2. q \in SessionRecord /\ q.segment = r.segment /\ q.age = 0 /\ ~q.wakeup
  BY <1>1 DEF SessionRecord
<1> HIDE DEF q
<1>3. RecordGood(q, n)
  BY <1>2, WindowBounds, WindowAssumption DEF RecordGood
<1>4. /\ Probe(q, pid, here) \in SessionRecord
      /\ Probe(q, pid, here).segment = t.sessions[s].segment
  BY <1>2, ProbeProperties DEF r
<1>5. RecordGood(Probe(q, pid, here), n)
  BY <1>2, <1>3, ProbeKeepsGood
<1>6. StartKnown(t, s, pid, cwd, here) = SetRecord(t, s, Probe(q, pid, here))
  BY DEF StartKnown, q, r
<1> QED
  BY <1>4, <1>5, <1>6, SetRecordKeepsGood

LEMMA HeartbeatKeepsGood ==
  ASSUME NEW n \in Nat, NEW t, TableGood(t, n), NEW s \in Live(t),
         NEW pid \in Pids, NEW here
  PROVE  TableGood(HeartbeatKnown(t, s, pid, here), n)
<1> DEFINE r == t.sessions[s]
           q == IF r.state \notin RESTING_STATES \/ r.wakeup
                  THEN [r EXCEPT !.age = 0] ELSE r
<1>1. r \in SessionRecord /\ RecordGood(r, n)
  BY RecordsOfTable DEF TableGood
<1> HIDE DEF r
<1>2. /\ q \in SessionRecord /\ q.segment = r.segment
      /\ q.state = r.state /\ q.wakeup = r.wakeup
      /\ q.age = 0 \/ q = r
  BY <1>1 DEF SessionRecord
<1> HIDE DEF q
<1>3. RecordGood(q, n)
  BY <1>1, <1>2, WindowBounds, WindowAssumption DEF RecordGood
<1>4. /\ Probe(q, pid, here) \in SessionRecord
      /\ Probe(q, pid, here).segment = t.sessions[s].segment
  BY <1>2, ProbeProperties DEF r
<1>5. RecordGood(Probe(q, pid, here), n)
  BY <1>2, <1>3, ProbeKeepsGood
<1>6. HeartbeatKnown(t, s, pid, here) = SetRecord(t, s, Probe(q, pid, here))
  BY DEF HeartbeatKnown, q, r
<1> QED
  BY <1>4, <1>5, <1>6, SetRecordKeepsGood

(* What a report resolves to is a fresh, unconfirmed record that keeps the *)
(* wake-up promise.                                                        *)
LEMMA ResolvedRecord ==
  ASSUME NEW t, t \in TableOf(SessionRecord), NEW s \in Sids,
         NEW verb \in ReportVerbs, verb # "end"
  PROVE  /\ Resolved(t, s, verb).state \in State \ {"Offline"}
         /\ Resolved(t, s, verb).wakeup \in BOOLEAN
         /\ Resolved(t, s, verb).wakeup => Resolved(t, s, verb).state \notin CTA_STATES
<1> DEFINE prior == s \in Live(t) /\ t.sessions[s].wakeup
<1>1. prior \in BOOLEAN
  OBVIOUS
<1>2. Resolved(t, s, verb) = ResolveWakeup(verb, VerbToState(verb), prior)
  BY DEF Resolved
<1> HIDE DEF prior
<1> QED
  BY <1>1, <1>2, ResolveWakeupDisarms

LEMMA ReportNewKeepsGood ==
  ASSUME NEW n \in Nat, NEW t, TableGood(t, n), NEW s \in Sids,
         NEW verb \in ReportVerbs, verb # "end",
         NEW pid \in Pids, NEW cwd \in CwdNames, NEW here
  PROVE  TableGood(ReportNew(t, s, verb, pid, cwd, here), n)
<1> DEFINE e == Resolved(t, s, verb)
           q == NewRecord(e.state, e.wakeup, cwd)
<1>1. /\ e.state \in State \ {"Offline"} /\ e.wakeup \in BOOLEAN
      /\ e.wakeup => e.state \notin CTA_STATES
  BY ResolvedRecord DEF TableGood
<1> HIDE DEF e
<1>2. /\ q \in FreshRecord
      /\ q.wakeup => q.state \notin CTA_STATES
  BY <1>1 DEF NewRecord, FreshRecord, Pids
<1> HIDE DEF q
<1>3. /\ Probe(q, pid, here) \in FreshRecord
      /\ Probe(q, pid, here).wakeup => Probe(q, pid, here).state \notin CTA_STATES
  BY <1>2, ProbeProperties
<1>4. TableGood(Register(t, s, Probe(q, pid, here)), n)
  BY <1>3, RegisterKeepsGood
<1> QED
  BY <1>4 DEF ReportNew, q, e

LEMMA ReportKnownKeepsGood ==
  ASSUME NEW n \in Nat, NEW t, TableGood(t, n), NEW s \in Live(t),
         NEW verb \in ReportVerbs, verb # "end", NEW pid \in Pids, NEW here
  PROVE  TableGood(ReportKnown(t, s, verb, pid, here), n)
<1> DEFINE e  == Resolved(t, s, verb)
           r  == t.sessions[s]
           q  == [r EXCEPT !.state = e.state, !.age = 0]
           t1 == SetRecord(t, s, q)
           w  == [q EXCEPT !.wakeup = e.wakeup]
<1>1. r \in SessionRecord /\ s \in Sids /\ t \in TableOf(SessionRecord) /\ TableInv(t)
  BY RecordsOfTable DEF TableGood
<1>2. /\ e.state \in State \ {"Offline"} /\ e.wakeup \in BOOLEAN
      /\ e.wakeup => e.state \notin CTA_STATES
  BY <1>1, ResolvedRecord
<1>3. ReportKnown(t, s, verb, pid, here) =
        SetRecord(t1, s, Probe([t1.sessions[s] EXCEPT !.wakeup = e.wakeup], pid, here))
  BY DEF ReportKnown, Update, NewRecord
<1> HIDE DEF e, r
<1>4. q \in SessionRecord /\ q.segment = r.segment
  BY <1>1, <1>2 DEF SessionRecord
<1>5. /\ w \in SessionRecord /\ w.segment = r.segment /\ w.age = 0
      /\ w.wakeup => w.state \notin CTA_STATES
  BY <1>1, <1>2 DEF SessionRecord
<1> HIDE DEF q, w
<1>6. /\ t1 \in TableOf(SessionRecord) /\ TableInv(t1) /\ Live(t1) = Live(t)
      /\ t1.sessions[s] = q
      /\ \A x \in Live(t) \ {s} : t1.sessions[x] = t.sessions[x]
  BY <1>1, <1>4, SetRecordKeepsTable DEF r
<1>7. RecordGood(w, n)
  BY <1>5, WindowBounds, WindowAssumption DEF RecordGood
<1>8. Probe(w, pid, here) \in SessionRecord /\ Probe(w, pid, here).segment = q.segment
  BY <1>4, <1>5, ProbeProperties
<1>9. RecordGood(Probe(w, pid, here), n)
  BY <1>5, <1>7, ProbeKeepsGood
<1> DEFINE u == SetRecord(t1, s, Probe(w, pid, here))
<1> HIDE DEF t1
<1>10. /\ u \in TableOf(SessionRecord) /\ TableInv(u) /\ Live(u) = Live(t)
       /\ u.sessions[s] = Probe(w, pid, here)
       /\ \A x \in Live(t) \ {s} : u.sessions[x] = t.sessions[x]
  BY <1>6, <1>8, SetRecordKeepsTable
<1> HIDE DEF u
<1>11. \A x \in Live(u) : RecordGood(u.sessions[x], n)
  BY <1>9, <1>10 DEF TableGood
<1>12. ReportKnown(t, s, verb, pid, here) = u
  BY <1>3, <1>6 DEF u, w
<1> QED
  BY <1>10, <1>11, <1>12 DEF TableGood

(* handle_event as a whole.                                                *)
LEMMA HandleEventKeepsGood ==
  ASSUME NEW n \in Nat, NEW t, TableGood(t, n), NEW s \in Sids,
         NEW verb \in ReportVerbs, NEW pid \in Pids, NEW cwd \in CwdNames, NEW here
  PROVE  TableGood(HandleEvent(t, s, verb, pid, cwd, here), n)
<1>1. VerbToState(verb) = "Offline" <=> verb = "end"
  BY DEF VerbToState, ReportVerbs, RunningVerbs, DoneVerbs, ErrorVerbs, ApprovalVerbs,
         InputVerbs, UnmappedConsentVerbs, UnmappedNotifyVerbs, UnmappedVerbs
<1>2. VerbToState("start") # "Offline"
  BY DEF VerbToState
<1>3. CASE verb = "end"
  <2>1. HandleEvent(t, s, verb, pid, cwd, here) = Free(t, {s})
    BY <1>1, <1>3 DEF HandleEvent
  <2> QED
    BY <2>1, FreeKeepsGood
<1>4. CASE verb # "end" /\ s \notin Live(t)
  <2>1. HandleEvent(t, s, verb, pid, cwd, here) = ReportNew(t, s, verb, pid, cwd, here)
    BY <1>1, <1>4 DEF HandleEvent
  <2> QED
    BY <2>1, <1>4, ReportNewKeepsGood
<1>5. CASE verb = "start" /\ s \in Live(t)
  <2>1. HandleEvent(t, s, verb, pid, cwd, here) = StartKnown(t, s, pid, cwd, here)
    BY <1>2, <1>5 DEF HandleEvent
  <2> QED
    BY <2>1, <1>5, StartKeepsGood
<1>6. CASE verb \notin {"start", "end"} /\ s \in Live(t)
  <2>1. HandleEvent(t, s, verb, pid, cwd, here) = ReportKnown(t, s, verb, pid, here)
    BY <1>1, <1>6 DEF HandleEvent
  <2> QED
    BY <2>1, <1>6, ReportKnownKeepsGood
<1> QED
  BY <1>3, <1>4, <1>5, <1>6

(* Time passes: every record and the allowance grow by one tick.           *)
LEMMA ElapseKeepsGood ==
  ASSUME NEW n \in Nat, NEW t, TableGood(t, n)
  PROVE  TableGood(Elapse(t), n + 1)
<1>1. t \in TableOf(SessionRecord) /\ TableInv(t)
  BY DEF TableGood
<1>2. ASSUME NEW r \in SessionRecord
      PROVE  /\ Older(r) \in SessionRecord
             /\ Older(r).segment = r.segment
             /\ Older(r).state = r.state
             /\ Older(r).pidAliveSeen = r.pidAliveSeen
             /\ Older(r).wakeup = r.wakeup
             /\ Older(r).age = r.age + 1
  BY DEF Older, SessionRecord
<1>3. /\ Elapse(t) \in TableOf(SessionRecord) /\ TableInv(Elapse(t))
      /\ Live(Elapse(t)) = Live(t)
      /\ \A x \in Live(t) : Elapse(t).sessions[x] = Older(t.sessions[x])
  BY <1>1, <1>2, ElapseKeepsTable
<1>4. ASSUME NEW r \in SessionRecord, RecordGood(r, n)
      PROVE  RecordGood(Older(r), n + 1)
  <2>1. Window(Older(r)) = Window(r)
    BY <1>2 DEF Window
  <2>2. Window(r) \in Nat /\ r.age \in Nat
    BY WindowBounds DEF SessionRecord
  <2> QED
    BY <1>2, <1>4, <2>1, <2>2 DEF RecordGood
<1>5. \A x \in Live(t) : t.sessions[x] \in SessionRecord
  BY <1>1, RecordsOfTable
<1>6. \A x \in Live(Elapse(t)) : RecordGood(Elapse(t).sessions[x], n + 1)
  BY <1>3, <1>4, <1>5 DEF TableGood
<1> QED
  BY <1>3, <1>6 DEF TableGood

(* A sweep leaves no record older than its window.                         *)
LEMMA SweepKeepsGood ==
  ASSUME NEW n \in Nat, NEW t, TableGood(t, n), NEW here
  PROVE  TableGood(Swept(t, here), 0)
<1> DEFINE t1 == Free(t, DeadSessions(t, here))
           u  == Free(t1, Stale(t1))
<1>1. TableGood(t1, n)
  BY FreeKeepsGood
<1> HIDE DEF t1
<1>2. t1 \in TableOf(SessionRecord) /\ TableInv(t1)
  BY <1>1 DEF TableGood
<1>3. /\ u \in TableOf(SessionRecord) /\ TableInv(u)
      /\ Live(u) = Live(t1) \ Stale(t1)
      /\ \A x \in Live(t1) \ Stale(t1) : u.sessions[x] = t1.sessions[x]
  BY <1>2, FreeKeepsTable
<1> HIDE DEF u
<1>4. ASSUME NEW x \in Live(u)
      PROVE  RecordGood(u.sessions[x], 0)
  <2>1. x \in Live(t1) \ Stale(t1) /\ u.sessions[x] = t1.sessions[x]
    BY <1>3
  <2>2. t1.sessions[x] \in SessionRecord
    BY <1>2, <2>1, RecordsOfTable
  <2>3. ~(t1.sessions[x].age > Window(t1.sessions[x]))
    BY <2>1 DEF Stale
  <2>4. Window(t1.sessions[x]) \in Nat /\ t1.sessions[x].age \in Nat
    BY <2>2, WindowBounds DEF SessionRecord
  <2>5. t1.sessions[x].age <= Window(t1.sessions[x]) + 0
    BY <2>3, <2>4
  <2>6. t1.sessions[x].wakeup => t1.sessions[x].state \notin CTA_STATES
    BY <1>1, <2>1 DEF TableGood, RecordGood
  <2> QED
    BY <2>1, <2>5, <2>6 DEF RecordGood
<1>5. Swept(t, here) = u
  BY DEF Swept, EvictStale, u, t1
<1> QED
  BY <1>3, <1>4, <1>5 DEF TableGood

(* A sweep and a tick of the clock keep no record for more than a tick     *)
(* past its window, since the clock waits for the sweep.                   *)
LEMMA TableStaysGood ==
  ASSUME NEW t, TableGood(t, 1)
  PROVE  /\ \A here : TableGood(Swept(t, here), 1)
         /\ Stale(t) = {} => TableGood(Elapse(t), 1)
<1>1. ASSUME NEW u, TableGood(u, 0) PROVE TableGood(u, 1)
  <2>1. ASSUME NEW x \in Live(u) PROVE RecordGood(u.sessions[x], 1)
    <3>1. RecordGood(u.sessions[x], 0) /\ u.sessions[x] \in SessionRecord
      BY <1>1, <2>1, RecordsOfTable DEF TableGood
    <3> QED
      BY <3>1, WindowBounds DEF RecordGood, SessionRecord
  <2> QED
    BY <1>1, <2>1 DEF TableGood
<1>2. \A here : TableGood(Swept(t, here), 0)
  BY SweepKeepsGood
<1>3. ASSUME Stale(t) = {} PROVE TableGood(Elapse(t), 1)
  <2>1. ASSUME NEW x \in Live(t) PROVE RecordGood(t.sessions[x], 0)
    <3>1. RecordGood(t.sessions[x], 1) /\ t.sessions[x] \in SessionRecord
      BY <2>1, RecordsOfTable DEF TableGood
    <3>2. ~(t.sessions[x].age > Window(t.sessions[x]))
      BY <1>3, <2>1 DEF Stale
    <3> QED
      BY <3>1, <3>2, WindowBounds DEF RecordGood, SessionRecord
  <2>2. TableGood(t, 0)
    BY <2>1 DEF TableGood
  <2> QED
    BY <2>2, ElapseKeepsGood
<1> QED
  BY <1>1, <1>2, <1>3

LEMMA EmptyTableGood == TableGood(EmptyTable, 0)
BY EmptyTableOK DEF TableGood

(***************************************************************************)
(* What the handlers do to the sessions of a table.                        *)
(***************************************************************************)

(* A registration concerns the newcomer only, who gets the record that it  *)
(* brings and a segment.                                                   *)
LEMMA RegisterEffect ==
  ASSUME NEW t \in TableOf(SessionRecord), TableInv(t), NEW s \in Sids \ Live(t),
         NEW rec \in FreshRecord
  PROVE  LET u == Register(t, s, rec) IN
         /\ u = t \/ Live(u) = Live(t) \cup {s}
         /\ \A x \in Live(t) : u.sessions[x] = t.sessions[x]
         /\ s \in Live(u) => /\ u.sessions[s].state = rec.state
                             /\ u.sessions[s].wakeup = rec.wakeup
                             /\ u.sessions[s].age = 0
                             /\ u.sessions[s].pid = rec.pid
<1>1. CASE s \in DOMAIN t.index \/ Full(t)
  BY <1>1 DEF Register
<1>2. CASE s \notin DOMAIN t.index /\ ~Full(t)
  <2> DEFINE u == Register(t, s, rec)
             r == [rec EXCEPT !.segment = NextFree(t)]
  <2>1. u.sessions = Put(t.sessions, s, r)
    BY <1>2 DEF Register
  <2>2. r.state = rec.state /\ r.wakeup = rec.wakeup /\ r.age = 0 /\ r.pid = rec.pid
    BY DEF FreshRecord
  <2> HIDE DEF u, r
  <2>3. Live(u) = Live(t) \cup {s} /\ u.sessions[s] = r
        /\ \A x \in Live(t) : u.sessions[x] = t.sessions[x]
    BY <2>1 DEF Put, Live
  <2> QED
    BY <2>2, <2>3 DEF u
<1> QED
  BY <1>1, <1>2

(* A report concerns its own session only.  The session is there afterwards*)
(* if it was before and has not ended; a start leaves it as it was, and    *)
(* every other report shows what the verb resolves to.  Every report but   *)
(* the end is a sign of life, and brings a pid if it names one.            *)
LEMMA HandleEventEffect ==
  ASSUME NEW t \in TableOf(SessionRecord), TableInv(t), NEW s \in Sids,
         NEW verb \in ReportVerbs, NEW pid \in Pids, NEW cwd \in CwdNames, NEW here
  PROVE  LET u == HandleEvent(t, s, verb, pid, cwd, here) IN
         /\ Live(u) \ {s} = Live(t) \ {s}
         /\ \A x \in Live(t) \ {s} : u.sessions[x] = t.sessions[x]
         /\ verb = "end" => s \notin Live(u)
         /\ verb # "end" /\ s \in Live(t) => s \in Live(u)
         /\ verb = "hitl_inferred" /\ s \notin Live(t) => s \notin Live(u)
         /\ verb = "start" /\ s \in Live(t) =>
              u.sessions[s].state = t.sessions[s].state /\ ~u.sessions[s].wakeup
         /\ verb # "end" /\ s \in Live(u) /\ ~(verb = "start" /\ s \in Live(t)) =>
              /\ u.sessions[s].state = Resolved(t, s, verb).state
              /\ u.sessions[s].wakeup = Resolved(t, s, verb).wakeup
         /\ s \in Live(u) =>
              /\ u.sessions[s].age = 0
              /\ u.sessions[s].pid = IF pid # NoPid THEN pid
                                     ELSE IF s \in Live(t) THEN t.sessions[s].pid
                                     ELSE NoPid
<1> DEFINE u == HandleEvent(t, s, verb, pid, cwd, here)
<1>1. VerbToState(verb) = "Offline" <=> verb = "end"
  BY DEF VerbToState, ReportVerbs, RunningVerbs, DoneVerbs, ErrorVerbs, ApprovalVerbs,
         InputVerbs, UnmappedConsentVerbs, UnmappedNotifyVerbs, UnmappedVerbs
<1>2. CASE verb = "end"
  <2>1. u = Free(t, {s})
    BY <1>1, <1>2 DEF HandleEvent
  <2> HIDE DEF u
  <2>2. Live(u) = Live(t) \ {s} /\ \A x \in Live(t) \ {s} : u.sessions[x] = t.sessions[x]
    BY <2>1, FreeKeepsTable
  <2> QED
    BY <1>2, <2>2 DEF u
<1>3. CASE verb # "end" /\ s \notin Live(t)
  <2> DEFINE e == Resolved(t, s, verb)
             q == NewRecord(e.state, e.wakeup, cwd)
             p == Probe(q, pid, here)
  <2>1. u = IF verb = "hitl_inferred" THEN t ELSE Register(t, s, p)
    BY <1>1, <1>3 DEF HandleEvent, ReportNew
  <2>2. e.state \in State \ {"Offline"} /\ e.wakeup \in BOOLEAN
    BY <1>3, ResolvedRecord
  <2> HIDE DEF e
  <2>3. /\ q \in FreshRecord /\ q.state = e.state /\ q.wakeup = e.wakeup
        /\ q.pid = NoPid
    BY <2>2 DEF NewRecord, FreshRecord, Pids
  <2> HIDE DEF q
  <2>4. /\ p \in FreshRecord /\ p.state = e.state /\ p.wakeup = e.wakeup
        /\ p.pid = IF pid # NoPid THEN pid ELSE NoPid
    BY <2>3, ProbeProperties, ProbePid
  <2> HIDE DEF p, u
  <2>5. /\ u = t \/ Live(u) = Live(t) \cup {s}
        /\ \A x \in Live(t) : u.sessions[x] = t.sessions[x]
        /\ s \in Live(u) => /\ u.sessions[s].state = e.state
                            /\ u.sessions[s].wakeup = e.wakeup
                            /\ u.sessions[s].age = 0
                            /\ u.sessions[s].pid = IF pid # NoPid THEN pid ELSE NoPid
    BY <1>3, <2>1, <2>4, RegisterEffect
  <2>6. verb = "hitl_inferred" => u = t
    BY <2>1
  <2> QED
    BY <1>3, <2>5, <2>6 DEF u, e
<1>4. CASE verb # "end" /\ s \in Live(t)
  <2> DEFINE r == t.sessions[s]
  <2>1. r \in SessionRecord
    BY <1>4, RecordsOfTable
  <2>2. CASE verb = "start"
    <3> DEFINE q == [r EXCEPT !.age = 0, !.wakeup = FALSE,
                              !.cwd = IF @ = NoCwd THEN cwd ELSE @]
               p == Probe(q, pid, here)
    <3>1. u = SetRecord(t, s, p)
      BY <1>1, <1>4, <2>2 DEF HandleEvent, StartKnown
    <3> HIDE DEF u
    <3>2. /\ q \in SessionRecord /\ q.segment = r.segment
          /\ q.state = r.state /\ ~q.wakeup /\ q.age = 0 /\ q.pid = r.pid
      BY <2>1 DEF SessionRecord
    <3> HIDE DEF q
    <3>3. /\ p \in SessionRecord /\ p.segment = r.segment
          /\ p.state = r.state /\ p.wakeup = q.wakeup /\ p.age = 0
          /\ p.pid = IF pid # NoPid THEN pid ELSE r.pid
      BY <3>2, ProbeProperties, ProbePid
    <3>w. ~p.wakeup
      BY <3>2, <3>3
    <3> HIDE DEF p
    <3>4. /\ Live(u) = Live(t) /\ u.sessions[s] = p
          /\ \A x \in Live(t) \ {s} : u.sessions[x] = t.sessions[x]
      BY <1>4, <3>1, <3>3, SetRecordKeepsTable
    <3> QED
      BY <1>4, <2>2, <3>3, <3>w, <3>4 DEF u
  <2>3. CASE verb # "start"
    <3> DEFINE e  == Resolved(t, s, verb)
               q  == [r EXCEPT !.state = e.state, !.age = 0]
               t1 == SetRecord(t, s, q)
               w  == [q EXCEPT !.wakeup = e.wakeup]
               p  == Probe(w, pid, here)
    <3>1. u = ReportKnown(t, s, verb, pid, here)
      BY <1>1, <1>4, <2>3 DEF HandleEvent
    <3>2. ReportKnown(t, s, verb, pid, here) =
            SetRecord(t1, s, Probe([t1.sessions[s] EXCEPT !.wakeup = e.wakeup], pid, here))
      BY <1>4 DEF ReportKnown, Update, NewRecord
    <3>3. e.state \in State \ {"Offline"} /\ e.wakeup \in BOOLEAN
      BY <1>4, ResolvedRecord
    <3> HIDE DEF e, r, u
    <3>4. /\ q \in SessionRecord /\ q.segment = r.segment
          /\ w \in SessionRecord /\ w.segment = r.segment
          /\ w.state = e.state /\ w.wakeup = e.wakeup /\ w.age = 0 /\ w.pid = r.pid
      BY <2>1, <3>3 DEF SessionRecord
    <3> HIDE DEF q
    <3>5. /\ t1 \in TableOf(SessionRecord) /\ TableInv(t1) /\ Live(t1) = Live(t)
          /\ t1.sessions[s] = q
          /\ \A x \in Live(t) \ {s} : t1.sessions[x] = t.sessions[x]
      BY <1>4, <3>4, SetRecordKeepsTable DEF r
    <3> HIDE DEF t1
    <3>6. u = SetRecord(t1, s, p)
      BY <3>1, <3>2, <3>5
    <3> HIDE DEF w
    <3>7. /\ p \in SessionRecord /\ p.segment = q.segment
          /\ p.state = e.state /\ p.wakeup = e.wakeup /\ p.age = 0
          /\ p.pid = IF pid # NoPid THEN pid ELSE r.pid
      BY <3>4, ProbeProperties, ProbePid
    <3> HIDE DEF p
    <3>8. /\ Live(u) = Live(t) /\ u.sessions[s] = p
          /\ \A x \in Live(t) \ {s} : u.sessions[x] = t.sessions[x]
      BY <1>4, <3>5, <3>6, <3>7, SetRecordKeepsTable
    <3> QED
      BY <1>4, <2>3, <3>7, <3>8 DEF u, e, r
  <2> QED
    BY <2>2, <2>3
<1> QED
  BY <1>2, <1>3, <1>4

(* A heartbeat changes nothing that is shown, and is a sign of life of a   *)
(* session that is not at rest.                                            *)
LEMMA HeartbeatEffect ==
  ASSUME NEW t \in TableOf(SessionRecord), TableInv(t), NEW s \in Live(t),
         NEW pid \in Pids, NEW here
  PROVE  LET u == HeartbeatKnown(t, s, pid, here) IN
         /\ Live(u) = Live(t) /\ u.order = t.order
         /\ \A x \in Live(t) : /\ u.sessions[x].state = t.sessions[x].state
                               /\ u.sessions[x].wakeup = t.sessions[x].wakeup
                               /\ u.sessions[x].cwd = t.sessions[x].cwd
         /\ \A x \in Live(t) \ {s} : u.sessions[x] = t.sessions[x]
         /\ t.sessions[s].state \notin RESTING_STATES => u.sessions[s].age = 0
         /\ u.sessions[s].pid = IF pid # NoPid THEN pid ELSE t.sessions[s].pid
<1> DEFINE r == t.sessions[s]
           q == IF r.state \notin RESTING_STATES \/ r.wakeup
                  THEN [r EXCEPT !.age = 0] ELSE r
           p == Probe(q, pid, here)
           u == HeartbeatKnown(t, s, pid, here)
<1>1. r \in SessionRecord
  BY RecordsOfTable
<1>2. u = SetRecord(t, s, p)
  BY DEF HeartbeatKnown
<1> HIDE DEF r, u
<1>3. /\ q \in SessionRecord /\ q.segment = r.segment
      /\ q.state = r.state /\ q.wakeup = r.wakeup /\ q.cwd = r.cwd
      /\ q.pid = r.pid /\ (r.state \notin RESTING_STATES => q.age = 0)
  BY <1>1 DEF SessionRecord
<1> HIDE DEF q
<1>4. /\ p \in SessionRecord /\ p.segment = r.segment
      /\ p.state = r.state /\ p.wakeup = r.wakeup /\ p.cwd = r.cwd
      /\ p.pid = IF pid # NoPid THEN pid ELSE r.pid
      /\ r.state \notin RESTING_STATES => p.age = 0
  BY <1>3, ProbeProperties, ProbePid
<1> HIDE DEF p
<1>5. /\ Live(u) = Live(t) /\ u.order = t.order /\ u.sessions[s] = p
      /\ \A x \in Live(t) \ {s} : u.sessions[x] = t.sessions[x]
  BY <1>2, <1>4, SetRecordKeepsTable DEF r
<1> QED
  BY <1>4, <1>5 DEF r, u

(* Nor does the passing of time.                                           *)
LEMMA ElapseEffect ==
  ASSUME NEW t \in TableOf(SessionRecord), TableInv(t)
  PROVE  LET u == Elapse(t) IN
         /\ Live(u) = Live(t) /\ u.order = t.order
         /\ \A x \in Live(t) : /\ u.sessions[x].state = t.sessions[x].state
                               /\ u.sessions[x].wakeup = t.sessions[x].wakeup
                               /\ u.sessions[x].cwd = t.sessions[x].cwd
                               /\ u.sessions[x].pid = t.sessions[x].pid
                               /\ u.sessions[x].age = t.sessions[x].age + 1
<1> DEFINE u == Elapse(t)
<1>1. ASSUME NEW r \in SessionRecord
      PROVE  /\ Older(r) \in SessionRecord /\ Older(r).segment = r.segment
             /\ Older(r).state = r.state /\ Older(r).wakeup = r.wakeup
             /\ Older(r).cwd = r.cwd /\ Older(r).pid = r.pid
             /\ Older(r).age = r.age + 1
  BY DEF Older, SessionRecord
<1>2. /\ Live(u) = Live(t) /\ u.order = t.order
      /\ \A x \in Live(t) : u.sessions[x] = Older(t.sessions[x])
  BY <1>1, ElapseKeepsTable
<1>3. \A x \in Live(t) : t.sessions[x] \in SessionRecord
  BY RecordsOfTable
<1> HIDE DEF u
<1> QED
  BY <1>1, <1>2, <1>3 DEF u

(* A sweep takes away the dead and the stale, and touches nobody else.     *)
LEMMA SweptEffect ==
  ASSUME NEW t \in TableOf(SessionRecord), TableInv(t), NEW here
  PROVE  LET u == Swept(t, here) IN
         /\ Live(u) = Live(t) \ (DeadSessions(t, here) \cup Stale(t))
         /\ \A x \in Live(u) : u.sessions[x] = t.sessions[x] /\ u.order[x] = t.order[x]
<1> DEFINE t1 == Free(t, DeadSessions(t, here))
           u  == Swept(t, here)
<1>1. /\ t1 \in TableOf(SessionRecord) /\ TableInv(t1)
      /\ Live(t1) = Live(t) \ DeadSessions(t, here)
      /\ \A x \in Live(t1) : t1.sessions[x] = t.sessions[x] /\ t1.order[x] = t.order[x]
  BY FreeKeepsTable
<1>2. u = Free(t1, Stale(t1))
  BY DEF Swept, EvictStale
<1> HIDE DEF t1, u
<1>3. /\ Live(u) = Live(t1) \ Stale(t1)
      /\ \A x \in Live(u) : u.sessions[x] = t1.sessions[x] /\ u.order[x] = t1.order[x]
  BY <1>1, <1>2, FreeKeepsTable
<1>4. Stale(t1) = Stale(t) \ DeadSessions(t, here)
  BY <1>1 DEF Stale
<1> QED
  BY <1>1, <1>3, <1>4 DEF u
=============================================================================
