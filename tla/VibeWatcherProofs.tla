-------------------------- MODULE VibeWatcherProofs --------------------------
(***************************************************************************)
(* The Vibe watcher, proved for every number of runs and keys and every    *)
(* interleaving of the two threads: its types, its timers, what an         *)
(* inference may do to the table, and what keeps the segment of an open    *)
(* session on the ring.                                                    *)
(***************************************************************************)
EXTENDS VibeWatcher, EventHandlingProofs

(* Put and Drop change the keys of a dict as their names say.              *)
LEMMA DictKeys ==
  ASSUME NEW d, NEW k, NEW v, NEW S
  PROVE  DOMAIN Put(d, k, v) = DOMAIN d \cup {k} /\ DOMAIN Drop(d, S) = DOMAIN d \ S
BY DEF Put, Drop, Restrict

(* A hook keeps the two sides in step: it adds a timer for the call it     *)
(* opens, and drops the timer of the key whose call or turn it ends.       *)
LEMMA HookKeepsTimers ==
  ASSUME NEW r \in Runs, NEW verb \in HookVerbs, TimersAreCalls, HookArrives(r, verb)
  PROVE  TimersAreCalls'
<1>1. CASE verb = "pre_tool"
  <2>1. busy' = busy \cup {r} /\ timers' = Put(timers, KeyOf[r], 0)
    BY <1>1 DEF HookArrives, Feeds
  <2>2. DOMAIN timers' = DOMAIN timers \cup {KeyOf[r]}
    BY <2>1, DictKeys
  <2> QED
    BY <2>1, <2>2 DEF TimersAreCalls, Unanswered
<1>2. CASE verb # "pre_tool"
  <2>1. busy' = busy \ {r} /\ timers' = Drop(timers, {KeyOf[r]})
    BY <1>2 DEF HookArrives, Feeds
  <2>2. DOMAIN timers' = DOMAIN timers \ {KeyOf[r]}
    BY <2>1, DictKeys
  <2> QED
    BY <2>1, <2>2 DEF TimersAreCalls, Unanswered
<1> QED
  BY <1>1, <1>2

(* Every other step adds no timer and answers no call.                     *)
LEMMA OtherStepsAddNoTimer ==
  ASSUME [Next]_vars, \A r \in Runs, verb \in HookVerbs : ~HookArrives(r, verb)
  PROVE  DOMAIN timers' \subseteq DOMAIN timers /\ busy' = busy
<1>1. CASE Sessions
  BY <1>1 DEF Sessions, SessionOpens, MetaLands, MetaNames, SessionCloses, DirVanishes
<1>2. CASE HookApplies \/ Sweep
  BY <1>2 DEF HookApplies, Sweep, sessionVars
<1>3. CASE Pass
  <2>1. CASE ScanLeases \/ EndFrees
    BY <2>1 DEF ScanLeases, EndFrees, sessionVars
  <2>d. \A S : DOMAIN Drop(timers, S) \subseteq DOMAIN timers
    <3> TAKE S
    <3>1. DOMAIN Drop(timers, S) = DOMAIN timers \ S
      BY DEF Drop, Restrict
    <3> QED
      BY <3>1
  <2>2. CASE EndClears
    <3>1. timers' = Drop(timers, {ending.key}) /\ busy' = busy
      BY <2>2 DEF EndClears, sessionVars
    <3> QED
      BY <2>d, <3>1
  <2>3. CASE CheckTimeouts
    <3>1. /\ timers' = Drop(timers, {k \in DOMAIN timers : timers[k] > HitlTimeout})
          /\ busy' = busy
      BY <2>3 DEF CheckTimeouts, sessionVars
    <3> QED
      BY <2>d, <3>1
  <2>4. ASSUME NEW k \in Sids, EndKey(k)
        PROVE  DOMAIN timers' \subseteq DOMAIN timers /\ busy' = busy
    <3>1. timers' = Drop(timers, {k}) /\ busy' = busy
      BY <2>4 DEF EndKey, Feeds, sessionVars
    <3> QED
      BY <2>d, <3>1
  <2>5. ASSUME NEW k \in Sids, StartKey(k) \/ BeatKey(k) \/ InferApproval(k)
        PROVE  DOMAIN timers' \subseteq DOMAIN timers /\ busy' = busy
    BY <2>5 DEF StartKey, BeatKey, InferApproval, sessionVars
  <2>6. ASSUME NEW torn, ScanDirs(torn)
        PROVE  DOMAIN timers' \subseteq DOMAIN timers /\ busy' = busy
    BY <2>6 DEF ScanDirs, sessionVars
  <2>7. ASSUME NEW r \in Legacy, StartDir(r) \/ EndDir(r)
        PROVE  DOMAIN timers' \subseteq DOMAIN timers /\ busy' = busy
    <3>1. (timers' = timers \/ timers' = Drop(timers, {KeyOf[r]})) /\ busy' = busy
      BY <2>7 DEF StartDir, EndDir, Feeds, sessionVars
    <3> QED
      BY <2>d, <3>1
  <2> QED
    BY <1>3, <2>1, <2>2, <2>3, <2>4, <2>5, <2>6, <2>7 DEF Pass
<1>4. CASE Tick
  BY <1>4 DEF Tick, sessionVars
<1>5. CASE UNCHANGED vars
  BY <1>5 DEF vars, sessionVars
<1> QED
  BY <1>1, <1>2, <1>3, <1>4, <1>5 DEF Next

(* Whatever the interleaving of the event loop and the watcher, a timer    *)
(* runs only for a tool call that is neither answered nor followed by the  *)
(* end of its turn: the denied tool of record_after_tool leaves none.      *)
THEOREM TimersFollowCalls == Spec => []TimersAreCalls
<1>1. Init => TimersAreCalls
  BY DEF Init, TimersAreCalls, NoEntries
<1>2. TimersAreCalls /\ [Next]_vars => TimersAreCalls'
  <2> SUFFICES ASSUME TimersAreCalls, [Next]_vars PROVE TimersAreCalls'
    OBVIOUS
  <2>1. CASE \E r \in Runs, verb \in HookVerbs : HookArrives(r, verb)
    BY <2>1, HookKeepsTimers
  <2>2. CASE \A r \in Runs, verb \in HookVerbs : ~HookArrives(r, verb)
    <3>1. DOMAIN timers' \subseteq DOMAIN timers /\ busy' = busy
      BY <2>2, OtherStepsAddNoTimer
    <3> QED
      BY <3>1 DEF TimersAreCalls, Unanswered
  <2> QED
    BY <2>1, <2>2
<1> QED
  BY <1>1, <1>2, PTL DEF Spec

(***************************************************************************)
(* The types.  Typed is TypeOK with the table of EventHandlingProofs, and  *)
(* with what the passes of the watcher owe each other: whatever a pass has *)
(* still to start or to heartbeat has a slot, whatever it heartbeats is in *)
(* _lease_cwd and is not about to end, and no timer is left over its       *)
(* timeout when the pass is through.                                       *)
(***************************************************************************)

Passing ==
  /\ fresh \cup still \subseteq DOMAIN slots
  /\ still \subseteq DOMAIN leases
  /\ gone \cap still = {}

Timed ==
  /\ timers \in Dict(Sids, 0 .. HitlTimeout + 1)
  /\ phase = "checked" => \A k \in DOMAIN timers : timers[k] <= HitlTimeout

Shaped ==
  /\ hook = Nothing \/ hook \in [key : Sids, verb : HookVerbs, pid : Runs \cup {NoPid}]
  /\ phase \in {"asleep", "leases", "dirs", "checked"}
  /\ ending = Nothing \/ ending \in [key : Sids, step : {"free", "clear"}]
  /\ leases \in Dict(Sids, BOOLEAN)
  /\ leased \subseteq Runs
  /\ slots \in Dict(Sids, Runs)
  /\ gone \cup fresh \cup still \cup late \subseteq Sids
  /\ primed \in BOOLEAN
  /\ ended \cup settled \subseteq known /\ known \cup saved \cup unread \subseteq Legacy
  /\ appeared \cup renamed \cup missing \subseteq known
  /\ open \cup closed \cup named \cup busy \subseteq Runs
  /\ open \cap closed = {}

Typed == TableGood(table, 1) /\ Timed /\ Shaped /\ Passing

LEMMA InitTyped == Init => Typed
<1> SUFFICES ASSUME Init PROVE Typed
  OBVIOUS
<1>1. \A T : NoEntries \in Dict(Sids, T) /\ DOMAIN NoEntries = {}
  <2> SUFFICES ASSUME NEW T PROVE NoEntries \in [{} -> T]
    BY DEF Dict
  <2> QED
    BY DEF NoEntries
<1>2. TableGood(table, 1)
  BY EmptyTableOK DEF Init, TableGood
<1>3. timers = NoEntries /\ leases = NoEntries /\ slots = NoEntries
  BY DEF Init
<1>4. /\ timers \in Dict(Sids, 0 .. HitlTimeout + 1)
      /\ leases \in Dict(Sids, BOOLEAN) /\ slots \in Dict(Sids, Runs)
  BY <1>1, <1>3
<1> QED
  BY <1>1, <1>2, <1>3, <1>4 DEF Init, Typed, Timed, Shaped, Passing

(* What a report of the event loop or of the watcher does to the table.    *)
LEMMA ReportKeepsGood ==
  ASSUME TableGood(table, 1), NEW k \in Sids, NEW verb \in ReportVerbs,
         NEW pid \in Runs \cup {NoPid}
  PROVE  TableGood(HandleEvent(table, k, verb, pid, NoCwd, open), 1)
<1>1. pid \in Pids /\ NoCwd \in CwdNames
  BY DEF Runs, Pids, CwdNames
<1> QED
  BY <1>1, HandleEventKeepsGood

LEMMA WatchedVerbs ==
  HookVerbs \cup {"start", "end", "hitl_inferred"} \subseteq ReportVerbs
BY DEF HookVerbs, ReportVerbs, RunningVerbs, DoneVerbs, ErrorVerbs, ApprovalVerbs

LEMMA LegacyKeys == \A r \in Legacy : r \in Runs /\ KeyOf[r] \in Sids
BY KeyAssumption DEF Legacy

(* What the pass does to the table for a key that is new or still live.    *)
LEMMA StartedBeaten ==
  ASSUME NEW t, TableGood(t, 1), NEW k \in DOMAIN slots, Shaped
  PROVE  /\ TableGood(Started(t, k), 1) /\ TableGood(Beaten(t, k), 1)
         /\ k \in Sids /\ slots[k] \in Runs /\ slots[k] \in Pids /\ NoCwd \in CwdNames
<1>1. k \in Sids /\ slots[k] \in Runs
  BY DEF Shaped, Dict
<1>2. slots[k] \in Pids /\ NoCwd \in CwdNames
  BY <1>1 DEF Runs, Pids, CwdNames
<1>3. TableGood(Started(t, k), 1)
  BY <1>1, <1>2, WatchedVerbs, HandleEventKeepsGood DEF Started
<1>4. TableGood(Beaten(t, k), 1)
  BY <1>2, HeartbeatKeepsGood DEF Beaten
<1> QED
  BY <1>1, <1>2, <1>3, <1>4

LEMMA TableStepsKeepGood ==
  ASSUME Typed, [Next]_vars
  PROVE  TableGood(table', 1)
<1>t. TableGood(table, 1) /\ Shaped /\ Passing
  BY DEF Typed
<1>1. CASE Sessions \/ UNCHANGED vars
  BY <1>t, <1>1 DEF Sessions, SessionOpens, MetaLands, MetaNames, SessionCloses, DirVanishes,
         HookArrives, vars
<1>2. CASE HookApplies
  <2>1. hook.key \in Sids /\ hook.verb \in ReportVerbs /\ hook.pid \in Runs \cup {NoPid}
    BY <1>t, <1>2, WatchedVerbs DEF HookApplies, Shaped
  <2> QED
    BY <1>t, <1>2, <2>1, ReportKeepsGood DEF HookApplies
<1>3. CASE Sweep
  BY <1>t, <1>3, TableStaysGood DEF Sweep
<1>4. CASE ScanLeases \/ EndClears \/ CheckTimeouts \/ \E k \in Sids : EndKey(k)
  BY <1>t, <1>4 DEF ScanLeases, EndClears, CheckTimeouts, EndKey
<1>5. CASE EndFrees
  <2>1. ending.key \in Sids
    BY <1>t, <1>5 DEF EndFrees, Shaped
  <2> QED
    BY <1>t, <1>5, <2>1, WatchedVerbs, ReportKeepsGood DEF EndFrees
<1>6. ASSUME NEW k \in Sids, StartKey(k) PROVE TableGood(table', 1)
  <2>1. k \in DOMAIN slots /\ table' = Started(table, k)
    BY <1>t, <1>6 DEF StartKey, Passing
  <2> QED
    BY <1>t, <2>1, StartedBeaten
<1>7. ASSUME NEW k \in Sids, BeatKey(k) PROVE TableGood(table', 1)
  <2>1. k \in DOMAIN slots
    BY <1>t, <1>7 DEF BeatKey, Passing
  <2>2. \/ table' = Beaten(table, k)
        \/ table' = Beaten(Started(table, k), k)
    BY <1>7 DEF BeatKey
  <2>3. TableGood(Started(table, k), 1)
    BY <1>t, <2>1, StartedBeaten
  <2> QED
    BY <1>t, <2>1, <2>2, <2>3, StartedBeaten
<1>8. ASSUME NEW k \in Sids, InferApproval(k) PROVE TableGood(table', 1)
  BY <1>t, <1>8, WatchedVerbs, ReportKeepsGood DEF InferApproval
<1>9. CASE Tick
  BY <1>t, <1>9, TableStaysGood DEF Tick
<1>10. ASSUME NEW torn, ScanDirs(torn) PROVE TableGood(table', 1)
  BY <1>t, <1>10 DEF ScanDirs
<1>11. ASSUME NEW r \in Legacy, StartDir(r) \/ EndDir(r) PROVE TableGood(table', 1)
  <2>1. \/ table' = table
        \/ table' = HandleEvent(table, KeyOf[r], "start", NoPid, NoCwd, open)
    BY <1>11 DEF StartDir, EndDir
  <2> QED
    BY <1>t, <2>1, LegacyKeys, WatchedVerbs, ReportKeepsGood
<1> QED
  BY <1>1, <1>2, <1>3, <1>4, <1>5, <1>6, <1>7, <1>8, <1>9, <1>10, <1>11 DEF Next, Pass

LEMMA TimerFacts ==
  ASSUME timers \in Dict(Sids, 0 .. HitlTimeout + 1)
  PROVE  /\ \A k \in DOMAIN timers : timers[k] \in 0 .. HitlTimeout + 1
         /\ \A S : /\ Drop(timers, S) \in Dict(Sids, 0 .. HitlTimeout + 1)
                   /\ DOMAIN Drop(timers, S) = DOMAIN timers \ S
                   /\ \A k \in DOMAIN timers \ S : Drop(timers, S)[k] = timers[k]
         /\ \A k \in Sids : /\ Put(timers, k, 0) \in Dict(Sids, 0 .. HitlTimeout + 1)
                            /\ DOMAIN Put(timers, k, 0) = DOMAIN timers \cup {k}
                            /\ \A x \in DOMAIN timers \cup {k} :
                                 Put(timers, k, 0)[x] = IF x = k THEN 0 ELSE timers[x]
<1>0. 0 \in 0 .. HitlTimeout + 1
  BY TimeoutAssumption
<1>1. \A k \in DOMAIN timers : timers[k] \in 0 .. HitlTimeout + 1
  BY DEF Dict
<1>2. ASSUME NEW S
      PROVE  /\ Drop(timers, S) \in Dict(Sids, 0 .. HitlTimeout + 1)
             /\ DOMAIN Drop(timers, S) = DOMAIN timers \ S
             /\ \A k \in DOMAIN timers \ S : Drop(timers, S)[k] = timers[k]
  <2>1. Drop(timers, S) \in Dict(Sids, 0 .. HitlTimeout + 1)
    BY DictDrop
  <2> QED
    BY <2>1 DEF Drop, Restrict
<1>3. ASSUME NEW k \in Sids
      PROVE  /\ Put(timers, k, 0) \in Dict(Sids, 0 .. HitlTimeout + 1)
             /\ DOMAIN Put(timers, k, 0) = DOMAIN timers \cup {k}
             /\ \A x \in DOMAIN timers \cup {k} :
                  Put(timers, k, 0)[x] = IF x = k THEN 0 ELSE timers[x]
  <2>1. Put(timers, k, 0) \in Dict(Sids, 0 .. HitlTimeout + 1)
    BY <1>0, DictPut
  <2> QED
    BY <2>1 DEF Put
<1> QED
  BY <1>1, <1>2, <1>3

(* No timer is more than a period over its timeout, and none is over it    *)
(* when the pass has checked them.                                         *)
LEMMA TimedStep ==
  ASSUME Typed, [Next]_vars
  PROVE  Timed'
<1>t. /\ timers \in Dict(Sids, 0 .. HitlTimeout + 1) /\ Shaped
      /\ phase = "checked" => \A k \in DOMAIN timers : timers[k] <= HitlTimeout
  BY DEF Typed, Timed
<1>f. ASSUME timers' = timers, phase' = phase \/ phase' # "checked"
      PROVE  Timed'
  BY <1>t, <1>f DEF Timed
<1>d. ASSUME NEW S, timers' = Drop(timers, S), phase' = phase
      PROVE  Timed'
  BY <1>t, <1>d, TimerFacts DEF Timed
<1>1. ASSUME NEW r \in Runs, NEW verb \in HookVerbs, HookArrives(r, verb)
      PROVE  Timed'
  <2>1. KeyOf[r] \in Sids /\ phase' = phase
    BY <1>1, KeyAssumption DEF HookArrives, watcherVars
  <2>2. CASE verb = "pre_tool"
    <3>1. timers' = Put(timers, KeyOf[r], 0)
      BY <1>1, <2>2 DEF HookArrives, Feeds
    <3>2. 0 <= HitlTimeout
      BY TimeoutAssumption
    <3>3. /\ timers' \in Dict(Sids, 0 .. HitlTimeout + 1)
          /\ DOMAIN timers' = DOMAIN timers \cup {KeyOf[r]}
          /\ \A x \in DOMAIN timers \cup {KeyOf[r]} :
               timers'[x] = IF x = KeyOf[r] THEN 0 ELSE timers[x]
      BY <1>t, <2>1, <3>1, TimerFacts
    <3> QED
      BY <1>t, <2>1, <3>2, <3>3 DEF Timed
  <2>3. CASE verb # "pre_tool"
    <3>1. timers' = Drop(timers, {KeyOf[r]})
      BY <1>1, <2>3 DEF HookArrives, Feeds
    <3> QED
      BY <1>d, <2>1, <3>1
  <2> QED
    BY <2>2, <2>3
<1>2. CASE Sessions
  <2>1. CASE \E r \in Runs : \/ SessionOpens(r) \/ MetaLands(r) \/ MetaNames(r)
                             \/ SessionCloses(r) \/ DirVanishes(r)
    BY <1>f, <2>1 DEF SessionOpens, MetaLands, MetaNames, SessionCloses, DirVanishes,
                      watcherVars
  <2> QED
    BY <1>1, <1>2, <2>1 DEF Sessions
<1>3. CASE HookApplies \/ Sweep \/ UNCHANGED vars
  BY <1>f, <1>3 DEF HookApplies, Sweep, watcherVars, vars
<1>4. CASE ScanLeases \/ EndFrees
  BY <1>f, <1>4 DEF ScanLeases, EndFrees
<1>5. CASE EndClears
  BY <1>d, <1>5 DEF EndClears
<1>6. ASSUME NEW k \in Sids, EndKey(k) PROVE Timed'
  BY <1>d, <1>6 DEF EndKey, Feeds
<1>7. ASSUME NEW k \in Sids, StartKey(k) \/ BeatKey(k) \/ InferApproval(k) PROVE Timed'
  BY <1>f, <1>7 DEF StartKey, BeatKey, InferApproval
<1>8. CASE CheckTimeouts
  <2>1. timers' = Drop(timers, {k \in DOMAIN timers : timers[k] > HitlTimeout})
    BY <1>8 DEF CheckTimeouts
  <2>2. \A k \in DOMAIN timers : timers[k] \in Nat
    BY <1>t, TimerFacts
  <2>3. \A k \in DOMAIN timers : ~(timers[k] > HitlTimeout) => timers[k] <= HitlTimeout
    BY <2>2, TimeoutAssumption
  <2> QED
    BY <1>t, <2>1, <2>3, TimerFacts DEF Timed
<1>9. CASE Tick
  <2>1. /\ timers' = [k \in DOMAIN timers |-> timers[k] + 1]
        /\ phase' = "asleep" /\ \A k \in DOMAIN timers : timers[k] <= HitlTimeout
    BY <1>t, <1>9 DEF Tick
  <2>2. PICK D \in SUBSET Sids : timers \in [D -> 0 .. HitlTimeout + 1]
    BY <1>t DEF Dict
  <2>3. \A k \in D : timers[k] + 1 \in 0 .. HitlTimeout + 1
    BY <2>1, <2>2, TimeoutAssumption
  <2>4. timers' \in [D -> 0 .. HitlTimeout + 1]
    BY <2>1, <2>2, <2>3
  <2> QED
    BY <2>1, <2>4 DEF Timed, Dict
<1>10. ASSUME NEW torn, ScanDirs(torn) PROVE Timed'
  BY <1>f, <1>10 DEF ScanDirs
<1>11. ASSUME NEW r \in Legacy, StartDir(r) PROVE Timed'
  BY <1>f, <1>11 DEF StartDir
<1>12. ASSUME NEW r \in Legacy, EndDir(r) PROVE Timed'
  BY <1>d, <1>12 DEF EndDir, Feeds
<1> QED
  BY <1>2, <1>3, <1>4, <1>5, <1>6, <1>7, <1>8, <1>9, <1>10, <1>11, <1>12 DEF Next, Pass

(* The scan finds the keys of its leases, and gives each one a pid.        *)
LEMMA ScanFinds ==
  ASSUME Shaped, ScanLeases
  PROVE  /\ slots' \in Dict(Sids, Runs) /\ DOMAIN slots' = fresh' \cup still'
         /\ still' \subseteq DOMAIN leases /\ gone' \cap still' = {}
         /\ gone' \subseteq DOMAIN leases /\ fresh' \cup still' \subseteq Sids
         /\ leased' \subseteq Runs
         /\ \A k \in DOMAIN slots' : /\ slots'[k] \in open /\ KeyOf[slots'[k]] = k
                                     /\ slots'[k] \in Unified => slots'[k] \in named
         /\ \A k \in gone' : \A r \in open :
              KeyOf[r] = k /\ HasLeases => r \in Unified \ named
         /\ \A r \in open : HasLeases /\ (r \in Unified => r \in named) =>
              KeyOf[r] \in fresh' \cup still'
<1> DEFINE seen == IF HasLeases THEN open \ (Unified \ named) ELSE {}
           live == {KeyOf[r] : r \in seen}
<1>1. PICK holder \in [live -> seen] :
        (\A k \in live : KeyOf[holder[k]] = k) /\ slots' = holder
  BY DEF ScanLeases
<1>2. /\ leased' = seen /\ gone' = DOMAIN leases \ live
      /\ fresh' = live \ DOMAIN leases /\ still' = live \cap DOMAIN leases
  BY DEF ScanLeases
<1>3. seen \subseteq open /\ seen \subseteq Runs
  BY DEF Shaped
<1>4. live \in SUBSET Sids
  BY <1>3, KeyAssumption
<1>5. slots' \in [live -> Runs]
  BY <1>1, <1>3
<1>6. slots' \in Dict(Sids, Runs)
  BY <1>4, <1>5 DEF Dict
<1>7. \A k \in live : slots'[k] \in seen /\ KeyOf[slots'[k]] = k
  BY <1>1
<1>8. \A r \in open : HasLeases /\ (r \in Unified => r \in named) => KeyOf[r] \in live
  OBVIOUS
<1>9. \A r \in seen : r \in open /\ (r \in Unified => r \in named)
  OBVIOUS
<1> HIDE DEF seen, live
<1> QED
  BY <1>2, <1>3, <1>4, <1>5, <1>6, <1>7, <1>8, <1>9

LEMMA LeaseFacts ==
  ASSUME Shaped
  PROVE  /\ DOMAIN leases \subseteq Sids /\ DOMAIN slots \subseteq Sids
         /\ \A k \in DOMAIN slots : slots[k] \in Runs
         /\ \A k \in DOMAIN leases : leases[k] \in BOOLEAN
         /\ \A S : /\ Drop(leases, S) \in Dict(Sids, BOOLEAN)
                   /\ DOMAIN Drop(leases, S) = DOMAIN leases \ S
         /\ \A k \in Sids, b \in BOOLEAN :
              /\ Put(leases, k, b) \in Dict(Sids, BOOLEAN)
              /\ DOMAIN Put(leases, k, b) = DOMAIN leases \cup {k}
         /\ NoEntries \in Dict(Sids, Runs) /\ DOMAIN NoEntries = {}
<1>t. leases \in Dict(Sids, BOOLEAN) /\ slots \in Dict(Sids, Runs)
  BY DEF Shaped
<1>1. /\ DOMAIN leases \subseteq Sids /\ DOMAIN slots \subseteq Sids
      /\ \A k \in DOMAIN slots : slots[k] \in Runs
      /\ \A k \in DOMAIN leases : leases[k] \in BOOLEAN
  BY <1>t DEF Dict
<1>2. ASSUME NEW S PROVE /\ Drop(leases, S) \in Dict(Sids, BOOLEAN)
                         /\ DOMAIN Drop(leases, S) = DOMAIN leases \ S
  <2>1. DOMAIN Drop(leases, S) = DOMAIN leases \ S
    BY DEF Drop, Restrict
  <2> QED
    BY <1>t, <2>1, DictDrop
<1>3. ASSUME NEW k \in Sids, NEW b \in BOOLEAN
      PROVE  /\ Put(leases, k, b) \in Dict(Sids, BOOLEAN)
             /\ DOMAIN Put(leases, k, b) = DOMAIN leases \cup {k}
  <2>1. DOMAIN Put(leases, k, b) = DOMAIN leases \cup {k}
    BY DEF Put
  <2> QED
    BY <1>t, <2>1, DictPut
<1>4. NoEntries \in Dict(Sids, Runs) /\ DOMAIN NoEntries = {}
  <2>1. NoEntries \in [{} -> Runs] /\ DOMAIN NoEntries = {}
    BY DEF NoEntries
  <2> QED
    BY <2>1 DEF Dict
<1> QED
  BY <1>1, <1>2, <1>3, <1>4

(* A start and a heartbeat put their key into _lease_cwd.                  *)
LEMMA LeaseStep ==
  ASSUME Typed, NEW k \in Sids, StartKey(k) \/ BeatKey(k)
  PROVE  /\ k \in DOMAIN slots /\ slots[k] \in Runs
         /\ leases' \in Dict(Sids, BOOLEAN) /\ DOMAIN leases' = DOMAIN leases \cup {k}
<1>t. Shaped /\ Passing
  BY DEF Typed
<1>1. k \in DOMAIN slots
  BY <1>t DEF StartKey, BeatKey, Passing
<1>2. CASE StartKey(k)
  <2> DEFINE b == slots[k] \in named
  <2>1. leases' = Put(leases, k, b) /\ b \in BOOLEAN
    BY <1>2 DEF StartKey
  <2> HIDE DEF b
  <2> QED
    BY <1>t, <1>1, <2>1, LeaseFacts
<1>3. CASE BeatKey(k)
  <2> DEFINE b == leases[k] \/ (slots[k] \in named /\ ~leases[k])
  <2>1. leases' = Put(leases, k, b) /\ b \in BOOLEAN
    BY <1>3 DEF BeatKey
  <2> HIDE DEF b
  <2> QED
    BY <1>t, <1>1, <2>1, LeaseFacts
<1> QED
  BY <1>2, <1>3

LEMMA ShapedStep ==
  ASSUME Typed, [Next]_vars
  PROVE  Shaped' /\ Passing'
<1>t. Shaped /\ Passing
  BY DEF Typed
<1>1. ASSUME NEW r \in Runs, \/ SessionOpens(r) \/ MetaLands(r) \/ MetaNames(r)
                              \/ SessionCloses(r) \/ DirVanishes(r)
      PROVE  Shaped' /\ Passing'
  BY <1>t, <1>1 DEF SessionOpens, MetaLands, MetaNames, SessionCloses, DirVanishes,
                    watcherVars, passVars, dirVars, Shaped, Passing
<1>2. ASSUME NEW r \in Runs, NEW verb \in HookVerbs, HookArrives(r, verb)
      PROVE  Shaped' /\ Passing'
  <2>1. /\ hook' = [key |-> KeyOf[r], verb |-> verb, pid |-> HookPid(r)]
        /\ KeyOf[r] \in Sids /\ HookPid(r) \in Runs \cup {NoPid}
        /\ busy' = busy \cup {r} \/ busy' = busy \ {r}
    BY <1>2, KeyAssumption DEF HookArrives, HookPid
  <2>2. UNCHANGED <<watcherVars, open, closed, saved, named>>
    BY <1>2 DEF HookArrives
  <2>3. /\ hook' \in [key : Sids, verb : HookVerbs, pid : Runs \cup {NoPid}]
        /\ busy' \subseteq Runs
    BY <1>t, <2>1 DEF Shaped
  <2> QED
    BY <1>t, <2>2, <2>3 DEF watcherVars, passVars, dirVars, Shaped, Passing
<1>3. CASE HookApplies
  BY <1>t, <1>3 DEF HookApplies, watcherVars, passVars, dirVars, sessionVars, Shaped, Passing
<1>4. CASE Sweep \/ UNCHANGED vars
  BY <1>t, <1>4 DEF Sweep, vars, watcherVars, passVars, dirVars, sessionVars, Shaped, Passing
<1>5. CASE ScanLeases
  <2>1. UNCHANGED <<hook, ending, leases, late, dirVars, sessionVars>> /\ phase' = "leases"
    BY <1>5 DEF ScanLeases
  <2>2. gone' \subseteq Sids
    BY <1>t, <1>5, ScanFinds, LeaseFacts
  <2> QED
    BY <1>t, <1>5, <2>1, <2>2, ScanFinds DEF dirVars, sessionVars, Shaped, Passing
<1>6. ASSUME NEW k \in Sids, EndKey(k) PROVE Shaped' /\ Passing'
  <2>1. /\ leases' = Drop(leases, {k}) /\ gone' = gone \ {k} /\ k \in gone
        /\ ending' = [key |-> k, step |-> "free"]
        /\ UNCHANGED <<hook, phase, leased, slots, fresh, still, late, dirVars, sessionVars>>
    BY <1>6 DEF EndKey
  <2>2. ending' \in [key : Sids, step : {"free", "clear"}]
    BY <2>1
  <2>3. leases' \in Dict(Sids, BOOLEAN) /\ DOMAIN leases' = DOMAIN leases \ {k}
    BY <1>t, <2>1, LeaseFacts
  <2> QED
    BY <1>t, <2>1, <2>2, <2>3 DEF dirVars, sessionVars, Shaped, Passing
<1>7. CASE EndFrees \/ EndClears
  <2>1. /\ ending \in [key : Sids, step : {"free", "clear"}]
        /\ ending' = Nothing \/ ending' = [ending EXCEPT !.step = "clear"]
        /\ UNCHANGED <<hook, phase, leases, leased, passVars, dirVars, sessionVars>>
    BY <1>t, <1>7 DEF EndFrees, EndClears, Shaped
  <2>2. ending' = Nothing \/ ending' \in [key : Sids, step : {"free", "clear"}]
    BY <2>1
  <2> QED
    BY <1>t, <2>1, <2>2 DEF passVars, dirVars, sessionVars, Shaped, Passing
<1>8. ASSUME NEW k \in Sids, StartKey(k) \/ BeatKey(k) PROVE Shaped' /\ Passing'
  <2>1. /\ leases' \in Dict(Sids, BOOLEAN) /\ DOMAIN leases \subseteq DOMAIN leases'
    BY <1>8, LeaseStep
  <2>2. /\ fresh' \subseteq fresh /\ still' \subseteq still
        /\ UNCHANGED <<hook, phase, ending, leased, slots, gone, late, dirVars, sessionVars>>
    BY <1>8 DEF StartKey, BeatKey
  <2> QED
    BY <1>t, <2>1, <2>2 DEF dirVars, sessionVars, Shaped, Passing
<1>9. CASE CheckTimeouts
  <2>1. /\ late' = {k \in DOMAIN timers : timers[k] > HitlTimeout}
        /\ phase' = "checked" /\ unread' = {}
        /\ UNCHANGED <<hook, ending, leases, leased, slots, gone, fresh, still, primed,
                       known, ended, settled, appeared, renamed, missing, sessionVars>>
    BY <1>9 DEF CheckTimeouts
  <2>2. DOMAIN timers \subseteq Sids
    BY DEF Typed, Timed, Dict
  <2>3. late' \subseteq Sids
    BY <2>1, <2>2
  <2> QED
    BY <1>t, <2>1, <2>3 DEF sessionVars, Shaped, Passing
<1>10. ASSUME NEW k \in Sids, InferApproval(k) PROVE Shaped' /\ Passing'
  BY <1>t, <1>10 DEF InferApproval, dirVars, sessionVars, Shaped, Passing
<1>11. CASE Tick
  BY <1>t, <1>11 DEF Tick, passVars, dirVars, sessionVars, Shaped, Passing
<1>12. ASSUME NEW torn \in SUBSET (open \cap saved), ScanDirs(torn)
       PROVE  Shaped' /\ Passing'
  <2>1. /\ phase' = "dirs" /\ slots' = NoEntries /\ primed' = TRUE /\ unread' = torn
        /\ known \subseteq known' /\ known' \subseteq known \cup saved
        /\ settled' \subseteq known' \cup settled
        /\ appeared' \cup renamed' \cup missing' \subseteq known'
        /\ fresh = {} /\ still = {}
        /\ UNCHANGED <<hook, ending, leases, leased, gone, fresh, still, late, ended,
                       sessionVars>>
    BY <1>12 DEF ScanDirs
  <2>2. slots' \in Dict(Sids, Runs)
    BY <1>t, <2>1, LeaseFacts
  <2>3. torn \subseteq Legacy
    BY <1>t, <1>12 DEF Shaped
  <2> QED
    BY <1>t, <2>1, <2>2, <2>3 DEF sessionVars, Shaped, Passing
<1>13. ASSUME NEW r \in Legacy, StartDir(r) PROVE Shaped' /\ Passing'
  BY <1>t, <1>13 DEF StartDir, passVars, sessionVars, Shaped, Passing
<1>14. ASSUME NEW r \in Legacy, EndDir(r) PROVE Shaped' /\ Passing'
  <2>1. /\ ending' = [key |-> KeyOf[r], step |-> "free"] /\ r \in missing
        /\ missing' = missing \ {r} /\ ended' = ended \cup {r}
        /\ UNCHANGED <<hook, phase, leases, leased, passVars, primed, known, settled,
                       unread, appeared, renamed, sessionVars>>
    BY <1>14 DEF EndDir
  <2>2. ending' \in [key : Sids, step : {"free", "clear"}]
    BY <2>1, LegacyKeys
  <2> QED
    BY <1>t, <2>1, <2>2 DEF passVars, sessionVars, Shaped, Passing
<1> QED
  BY <1>1, <1>2, <1>3, <1>4, <1>5, <1>6, <1>7, <1>8, <1>9, <1>10, <1>11, <1>12, <1>13,
     <1>14
     DEF Next, Sessions, Pass

LEMMA TypedHolds == Spec => []Typed
<1>1. Typed /\ [Next]_vars => Typed'
  BY TableStepsKeepGood, TimedStep, ShapedStep DEF Typed
<1> QED
  BY <1>1, InitTyped, PTL DEF Spec

(* The types of the code hold whatever the two threads do: no timer runs   *)
(* more than a period past its timeout, and what a pass has still to do is *)
(* about keys of the table.                                                *)
THEOREM WatcherTypeCorrect == Spec => []TypeOK
<1>1. Typed => TypeOK
  <2>1. TableGood(table, 1) => IsTableOf(table, SessionRecord)
    BY TableOfIsTable DEF TableGood
  <2>2. \A S, T : \A d \in Dict(S, T) : IsDict(d, S, T)
    BY DEF Dict, IsDict
  <2> QED
    BY <2>1, <2>2 DEF Typed, Timed, Shaped, TypeOK
<1> QED
  BY <1>1, TypedHolds, PTL

(***************************************************************************)
(* What an inference may do.                                               *)
(***************************************************************************)

(* No hook and no start makes a session that awaits an approval.           *)
LEMMA OnlyInferencesAwait ==
  ASSUME NEW t, NEW s, NEW verb \in HookVerbs \cup {"start"}
  PROVE  Resolved(t, s, verb).state # "AwaitingApproval"
<1> DEFINE prior == s \in Live(t) /\ t.sessions[s].wakeup
<1>1. VerbToState(verb) \in {"Idle", "Running", "Error", "Done"}
  BY DEF VerbToState, HookVerbs, RunningVerbs, DoneVerbs, ErrorVerbs, ApprovalVerbs,
         InputVerbs, UnmappedConsentVerbs, UnmappedNotifyVerbs
<1>2. Resolved(t, s, verb) = ResolveWakeup(verb, VerbToState(verb), prior)
  BY DEF Resolved
<1> HIDE DEF prior
<1>3. verb \notin WAKEUP_VERBS
  BY DEF WAKEUP_VERBS, HookVerbs
<1>4. \A base \in {"Idle", "Running", "Error", "Done"} :
        ResolveWakeup(verb, base, prior).state # "AwaitingApproval"
  BY <1>3 DEF ResolveWakeup, CTA_STATES, ACTIVITY_VERBS, HookVerbs
<1> QED
  BY <1>1, <1>2, <1>4

(* So whoever enters the table awaits none, unless the report is an        *)
(* inference, and that one registers nobody.                               *)
LEMMA NewcomersAwaitNothing ==
  ASSUME NEW t, TableGood(t, 1), NEW s \in Sids,
         NEW verb \in HookVerbs \cup {"start", "end", "hitl_inferred"},
         NEW pid \in Runs \cup {NoPid}
  PROVE  LET u == HandleEvent(t, s, verb, pid, NoCwd, open) IN
         \A k \in Live(u) \ Live(t) : u.sessions[k].state # "AwaitingApproval"
<1> DEFINE u == HandleEvent(t, s, verb, pid, NoCwd, open)
<1>1. /\ t \in TableOf(SessionRecord) /\ TableInv(t) /\ verb \in ReportVerbs
      /\ pid \in Pids /\ NoCwd \in CwdNames
  BY WatchedVerbs DEF TableGood, Runs, Pids, CwdNames
<1>2. /\ Live(u) \ {s} = Live(t) \ {s}
      /\ verb = "end" => s \notin Live(u)
      /\ verb = "hitl_inferred" /\ s \notin Live(t) => s \notin Live(u)
      /\ s \in Live(u) /\ verb # "end" /\ s \notin Live(t) =>
           u.sessions[s].state = Resolved(t, s, verb).state
  BY <1>1, HandleEventEffect
<1> HIDE DEF u
<1>3. verb \notin {"end", "hitl_inferred"} =>
        Resolved(t, s, verb).state # "AwaitingApproval"
  BY OnlyInferencesAwait
<1> QED
  BY <1>2, <1>3 DEF u

LEMMA TableNewcomers ==
  ASSUME Typed, [Next]_vars
  PROVE  \A k \in Live(table') \ Live(table) :
           table'.sessions[k].state # "AwaitingApproval"
<1>t. TableGood(table, 1) /\ Shaped /\ Passing
  BY DEF Typed
<1>g. table \in TableOf(SessionRecord) /\ TableInv(table)
  BY <1>t DEF TableGood
<1> DEFINE Fine == \A k \in Live(table') \ Live(table) :
                     table'.sessions[k].state # "AwaitingApproval"
<1>1. CASE Sessions \/ UNCHANGED vars
  BY <1>1 DEF Sessions, SessionOpens, MetaLands, MetaNames, SessionCloses, DirVanishes,
         HookArrives, vars
<1>2. CASE HookApplies
  <2>1. hook.key \in Sids /\ hook.verb \in HookVerbs /\ hook.pid \in Runs \cup {NoPid}
    BY <1>t, <1>2 DEF HookApplies, Shaped
  <2> QED
    BY <1>t, <1>2, <2>1, NewcomersAwaitNothing DEF HookApplies
<1>3. CASE Sweep
  <2>1. Live(table') \subseteq Live(table)
    BY <1>g, <1>3, SweptEffect DEF Sweep
  <2> QED
    BY <2>1
<1>4. CASE ScanLeases \/ EndClears \/ CheckTimeouts \/ \E k \in Sids : EndKey(k)
  BY <1>4 DEF ScanLeases, EndClears, CheckTimeouts, EndKey
<1>5. CASE EndFrees
  <2>1. ending.key \in Sids
    BY <1>t, <1>5 DEF EndFrees, Shaped
  <2> QED
    BY <1>t, <1>5, <2>1, NewcomersAwaitNothing DEF EndFrees
<1>s. ASSUME NEW t, TableGood(t, 1), NEW k \in DOMAIN slots
      PROVE  \A x \in Live(Started(t, k)) \ Live(t) :
               Started(t, k).sessions[x].state # "AwaitingApproval"
  <2>1. k \in Sids /\ slots[k] \in Runs
    BY <1>t, <1>s, StartedBeaten
  <2> QED
    BY <1>s, <2>1, NewcomersAwaitNothing DEF Started
<1>b. ASSUME NEW t, TableGood(t, 1), NEW k \in DOMAIN slots
      PROVE  /\ Live(Beaten(t, k)) = Live(t)
             /\ \A x \in Live(t) :
                  Beaten(t, k).sessions[x].state = t.sessions[x].state
  <2>1. slots[k] \in Pids /\ t \in TableOf(SessionRecord) /\ TableInv(t)
    BY <1>t, <1>b, StartedBeaten DEF TableGood
  <2> QED
    BY <2>1, HeartbeatEffect DEF Beaten
<1>6. ASSUME NEW k \in Sids, StartKey(k) PROVE Fine
  <2>1. k \in DOMAIN slots /\ table' = Started(table, k)
    BY <1>t, <1>6 DEF StartKey, Passing
  <2> QED
    BY <1>t, <1>s, <2>1
<1>7. ASSUME NEW k \in Sids, BeatKey(k) PROVE Fine
  <2>1. k \in DOMAIN slots
    BY <1>t, <1>7 DEF BeatKey, Passing
  <2>2. PICK t : t \in {table, Started(table, k)} /\ table' = Beaten(t, k)
    BY <1>7 DEF BeatKey
  <2>3. /\ TableGood(t, 1)
        /\ \A x \in Live(t) \ Live(table) : t.sessions[x].state # "AwaitingApproval"
    BY <1>t, <1>s, <2>1, <2>2, StartedBeaten
  <2>4. /\ Live(table') = Live(t)
        /\ \A x \in Live(t) : table'.sessions[x].state = t.sessions[x].state
    BY <1>b, <2>1, <2>2, <2>3
  <2> QED
    BY <2>3, <2>4
<1>8. ASSUME NEW k \in Sids, InferApproval(k) PROVE Fine
  BY <1>t, <1>8, NewcomersAwaitNothing DEF InferApproval
<1>9. CASE Tick
  <2>1. Live(table') = Live(table)
    BY <1>g, <1>9, ElapseEffect DEF Tick
  <2> QED
    BY <2>1
<1>10. ASSUME NEW torn, ScanDirs(torn) PROVE Fine
  BY <1>10 DEF ScanDirs
<1>11. ASSUME NEW r \in Legacy, StartDir(r) \/ EndDir(r) PROVE Fine
  <2>1. \/ table' = table
        \/ table' = HandleEvent(table, KeyOf[r], "start", NoPid, NoCwd, open)
    BY <1>11 DEF StartDir, EndDir
  <2> QED
    BY <1>t, <2>1, LegacyKeys, NewcomersAwaitNothing
<1> QED
  BY <1>1, <1>2, <1>3, <1>4, <1>5, <1>6, <1>7, <1>8, <1>9, <1>10, <1>11 DEF Next, Pass

(* However late a timer fires and whatever the sweep or an end did in the  *)
(* meantime, the inference of _check_hitl_timeouts brings no session back: *)
(* nobody enters the table as one that waits for an approval.              *)
THEOREM LateInferenceIsDropped == Spec => InferenceNeverRegisters
<1> DEFINE Fine == \A k \in Live(table') \ Live(table) :
                     table'.sessions[k].state # "AwaitingApproval"
<1>1. Typed /\ [Next]_vars => [Fine]_vars
  BY TableNewcomers
<1> QED
  BY <1>1, TypedHolds, PTL DEF Spec, InferenceNeverRegisters

(***************************************************************************)
(* What keeps the segment of an open session on the ring, when Vibe leases *)
(* its sessions and each of them has a segment of its own.  The argument   *)
(* is one inductive invariant.  Whatever the table, the leases and the     *)
(* threads hold is about a session that the scan has been able to see.     *)
(* What is about to end is over, or its meta.json is one that this pass    *)
(* could not read: a directory that the watcher knows is still there or    *)
(* its session is over.  And a session with a turn in flight is            *)
(* heartbeated in every pass: it has been silent for no tick, or for one   *)
(* and the pass has still to come to it.                                   *)
(***************************************************************************)

(* A run of key k has been open, and a unified one has named its directory.*)
Known(k) ==
  \E r \in open \cup closed : KeyOf[r] = k /\ (r \in Unified => r \in named)

Over(k) == \E r \in closed : KeyOf[r] = k

IsRunOf(p, k) == p \in open \cup closed /\ KeyOf[p] = k

OwnTable(t) ==
  \A k \in Live(t) :
    Known(k) /\ (t.sessions[k].pid # NoPid => IsRunOf(t.sessions[k].pid, k))

(* The keys that the pass has still to come to.                            *)
Due ==
  CASE phase = "asleep" -> Sids
    [] phase = "leases" -> fresh \cup still
    [] OTHER -> {}

Silent(rec, n) == rec.state \notin RESTING_STATES => rec.age <= n

Beating(t, due) ==
  \A k \in Live(t) : IsOpen(k) => Silent(t.sessions[k], IF k \in due THEN 1 ELSE 0)

OwnPass ==
  /\ \A k \in DOMAIN leases : Known(k)
  /\ hook # Nothing => /\ Known(hook.key)
                       /\ hook.pid # NoPid => IsRunOf(hook.pid, hook.key)
  /\ \A k \in DOMAIN slots :
       IsRunOf(slots[k], k) /\ (slots[k] \in Unified => slots[k] \in named)
  /\ \A k \in gone : Over(k)
  /\ ending # Nothing => Over(ending.key) \/ Unread(ending.key)

(* What the scan of the directories owes its sessions.                     *)
OwnDirs ==
  /\ saved \subseteq open \cup closed
  /\ known \subseteq closed \cup saved
  /\ missing \subseteq closed \cup unread

Own == OwnTable(table) /\ Beating(table, Due) /\ OwnPass /\ OwnDirs

OwnKeys == \A r, q \in Runs : KeyOf[r] = KeyOf[q] => r = q

(* A report keeps the table, and is a sign of life of its session.         *)
LEMMA ReportKeepsOwn ==
  ASSUME NEW t, TableGood(t, 1), OwnTable(t), NEW D, Beating(t, D),
         NEW k \in Sids, NEW verb \in ReportVerbs, NEW pid \in Runs \cup {NoPid},
         pid # NoPid => IsRunOf(pid, k),
         Known(k) \/ verb \in {"end", "hitl_inferred"}
  PROVE  LET u == HandleEvent(t, k, verb, pid, NoCwd, open) IN
         /\ TableGood(u, 1) /\ OwnTable(u) /\ Beating(u, D \ {k})
         /\ Live(t) \ {k} \subseteq Live(u)
         /\ verb # "end" => Live(t) \subseteq Live(u)
<1> DEFINE u == HandleEvent(t, k, verb, pid, NoCwd, open)
<1>1. /\ t \in TableOf(SessionRecord) /\ TableInv(t)
      /\ pid \in Pids /\ NoCwd \in CwdNames
  BY DEF TableGood, Runs, Pids, CwdNames
<1>2. TableGood(u, 1)
  BY <1>1, HandleEventKeepsGood
<1>3. /\ Live(u) \ {k} = Live(t) \ {k}
      /\ \A x \in Live(t) \ {k} : u.sessions[x] = t.sessions[x]
      /\ verb = "end" => k \notin Live(u)
      /\ verb # "end" /\ k \in Live(t) => k \in Live(u)
      /\ verb = "hitl_inferred" /\ k \notin Live(t) => k \notin Live(u)
  BY <1>1, HandleEventEffect
<1>4. k \in Live(u) => /\ u.sessions[k].age = 0
                       /\ u.sessions[k].pid = IF pid # NoPid THEN pid
                                              ELSE IF k \in Live(t) THEN t.sessions[k].pid
                                              ELSE NoPid
  BY <1>1, HandleEventEffect
<1> HIDE DEF u
<1>5. k \in Live(u) => Known(k)
  BY <1>3 DEF OwnTable
<1>6. OwnTable(u)
  BY <1>3, <1>4, <1>5 DEF OwnTable
<1>7. Beating(u, D \ {k})
  BY <1>3, <1>4 DEF Beating, Silent
<1> QED
  BY <1>2, <1>3, <1>6, <1>7 DEF u

(* The second start and the heartbeat of the pass.                         *)
LEMMA PassKeepsOwn ==
  ASSUME NEW t, TableGood(t, 1), OwnTable(t), NEW D, Beating(t, D),
         Shaped, OwnPass, NEW k \in DOMAIN slots
  PROVE  /\ TableGood(Started(t, k), 1) /\ OwnTable(Started(t, k))
         /\ Beating(Started(t, k), D \ {k}) /\ Live(t) \subseteq Live(Started(t, k))
         /\ OwnTable(Beaten(t, k)) /\ Beating(Beaten(t, k), D \ {k})
         /\ Live(Beaten(t, k)) = Live(t)
<1>1. /\ k \in Sids /\ slots[k] \in Runs /\ slots[k] \in Pids
      /\ IsRunOf(slots[k], k) /\ Known(k) /\ "start" \in ReportVerbs
  BY StartedBeaten, WatchedVerbs DEF OwnPass, Known, IsRunOf
<1>2. /\ TableGood(Started(t, k), 1) /\ OwnTable(Started(t, k))
      /\ Beating(Started(t, k), D \ {k}) /\ Live(t) \subseteq Live(Started(t, k))
  BY <1>1, ReportKeepsOwn DEF Started
<1>3. /\ OwnTable(Beaten(t, k)) /\ Beating(Beaten(t, k), D \ {k})
      /\ Live(Beaten(t, k)) = Live(t)
  <2>1. CASE k \notin Live(t)
    BY <2>1 DEF Beaten, Beating
  <2>2. CASE k \in Live(t)
    <3> DEFINE u == HeartbeatKnown(t, k, slots[k], open)
    <3>1. t \in TableOf(SessionRecord) /\ TableInv(t)
      BY DEF TableGood
    <3>2. /\ Live(u) = Live(t)
          /\ \A x \in Live(t) : u.sessions[x].state = t.sessions[x].state
          /\ \A x \in Live(t) \ {k} : u.sessions[x] = t.sessions[x]
          /\ t.sessions[k].state \notin RESTING_STATES => u.sessions[k].age = 0
          /\ u.sessions[k].pid = IF slots[k] # NoPid THEN slots[k]
                                 ELSE t.sessions[k].pid
      BY <1>1, <2>2, <3>1, HeartbeatEffect
    <3>3. Beaten(t, k) = u
      BY <2>2 DEF Beaten
    <3> HIDE DEF u
    <3>4. OwnTable(u)
      BY <1>1, <3>2 DEF OwnTable
    <3>5. Beating(u, D \ {k})
      BY <2>2, <3>2 DEF Beating, Silent
    <3> QED
      BY <3>2, <3>3, <3>4, <3>5
  <2> QED
    BY <2>1, <2>2
<1> QED
  BY <1>2, <1>3

(* A pass of the watcher changes no session.                               *)
LEMMA PassLeavesSessions == Pass => UNCHANGED sessionVars
<1>1. CASE ScanLeases \/ EndFrees \/ EndClears \/ CheckTimeouts
  BY <1>1 DEF ScanLeases, EndFrees, EndClears, CheckTimeouts
<1>2. ASSUME NEW k \in Sids, EndKey(k) \/ StartKey(k) \/ BeatKey(k) \/ InferApproval(k)
      PROVE  UNCHANGED sessionVars
  BY <1>2 DEF EndKey, StartKey, BeatKey, InferApproval
<1>3. ASSUME NEW torn, ScanDirs(torn) PROVE UNCHANGED sessionVars
  BY <1>3 DEF ScanDirs
<1>4. ASSUME NEW r \in Legacy, StartDir(r) \/ EndDir(r) PROVE UNCHANGED sessionVars
  BY <1>4 DEF StartDir, EndDir
<1> QED
  BY <1>1, <1>2, <1>3, <1>4 DEF Pass

(* What has been known stays known, and what is over stays over.           *)
LEMMA KnownStays ==
  ASSUME [Next]_vars
  PROVE  /\ open \cup closed \subseteq open' \cup closed'
         /\ closed \subseteq closed' /\ named \subseteq named'
         /\ \A k : Known(k) => Known(k)'
         /\ \A k : Over(k) => Over(k)'
         /\ \A r, k : IsRunOf(r, k) => IsRunOf(r, k)'
<1>1. /\ open \cup closed \subseteq open' \cup closed'
      /\ closed \subseteq closed' /\ named \subseteq named'
  <2>1. CASE Sessions
    BY <2>1 DEF Sessions, SessionOpens, MetaLands, MetaNames, SessionCloses, DirVanishes,
         HookArrives
  <2>2. CASE HookApplies \/ Sweep \/ Tick \/ UNCHANGED vars
    BY <2>2 DEF HookApplies, Sweep, Tick, vars, sessionVars
  <2>3. CASE Pass
    BY <2>3, PassLeavesSessions DEF sessionVars
  <2> QED
    BY <2>1, <2>2, <2>3 DEF Next
<1> QED
  BY <1>1 DEF Known, Over, IsRunOf

(* A directory that the watcher knows is there, or its session is over; and*)
(* one that it takes for missing is there only when it could not be read.  *)
LEMMA DirsKeepOwn ==
  ASSUME Typed, OwnDirs, [Next]_vars
  PROVE  OwnDirs'
<1>1. CASE Sessions
  BY <1>1 DEF Sessions, SessionOpens, MetaLands, MetaNames, SessionCloses, DirVanishes,
              HookArrives, watcherVars, dirVars, OwnDirs
<1>2. CASE HookApplies \/ Sweep \/ Tick \/ UNCHANGED vars
  BY <1>2 DEF HookApplies, Sweep, Tick, vars, sessionVars, watcherVars, dirVars, OwnDirs
<1>3. CASE Pass
  <2>1. UNCHANGED <<open, closed, saved>>
    BY <1>3, PassLeavesSessions DEF sessionVars
  <2>2. CASE ScanLeases \/ EndFrees \/ EndClears
    BY <2>1, <2>2 DEF ScanLeases, EndFrees, EndClears, dirVars, OwnDirs
  <2>3. CASE CheckTimeouts
    BY <2>1, <2>3 DEF CheckTimeouts, OwnDirs
  <2>4. ASSUME NEW k \in Sids,
               EndKey(k) \/ StartKey(k) \/ BeatKey(k) \/ InferApproval(k)
        PROVE  OwnDirs'
    BY <2>1, <2>4 DEF EndKey, StartKey, BeatKey, InferApproval, dirVars, OwnDirs
  <2>5. ASSUME NEW torn \in SUBSET (open \cap saved), ScanDirs(torn)
        PROVE  OwnDirs'
    <3> DEFINE current == saved \ torn
    <3>1. /\ known' = known \cup current /\ unread' = torn
          /\ missing' \subseteq known \ current
      BY <2>5 DEF ScanDirs
    <3>2. known \subseteq Legacy
      BY DEF Typed, Shaped
    <3> QED
      BY <2>1, <3>1, <3>2 DEF OwnDirs
  <2>6. ASSUME NEW r \in Legacy, StartDir(r) \/ EndDir(r)
        PROVE  OwnDirs'
    BY <2>1, <2>6 DEF StartDir, EndDir, OwnDirs
  <2> QED
    BY <1>3, <2>2, <2>3, <2>4, <2>5, <2>6 DEF Pass
<1> QED
  BY <1>1, <1>2, <1>3 DEF Next

(* A session that is over has no open run.                                 *)
LEMMA OverIsNotOpen ==
  ASSUME Shaped, OwnKeys, NEW k, Over(k)
  PROVE  ~IsOpen(k)
<1> SUFFICES ASSUME NEW r \in closed, NEW q \in open, KeyOf[r] = k, KeyOf[q] = k
             PROVE  FALSE
  BY DEF Over, IsOpen
<1>1. r = q
  BY DEF Shaped, OwnKeys
<1> QED
  BY <1>1 DEF Shaped

(* The sessions and their hooks.                                           *)
LEMMA SessionsKeepOwn ==
  ASSUME Typed, Own, OwnKeys, Sessions
  PROVE  Own' /\ table' = table
<1>n. [Next]_vars
  BY DEF Next
<1>k. /\ \A k : Known(k) => Known(k)'
      /\ \A k : Over(k) => Over(k)'
      /\ \A r, k : IsRunOf(r, k) => IsRunOf(r, k)'
      /\ named \subseteq named'
  BY <1>n, KnownStays
<1>w. table' = table /\ watcherVars' = watcherVars
  BY DEF Sessions, SessionOpens, MetaLands, MetaNames, SessionCloses, DirVanishes,
         HookArrives
<1>1. (hook # Nothing => /\ Known(hook.key)
                         /\ hook.pid # NoPid => IsRunOf(hook.pid, hook.key))'
  <2>1. CASE hook' = hook
    BY <1>k, <2>1 DEF Own, OwnPass
  <2>2. ASSUME NEW r \in Runs, NEW verb \in HookVerbs, HookArrives(r, verb)
        PROVE  (Known(hook.key) /\ (hook.pid # NoPid => IsRunOf(hook.pid, hook.key)))'
    <3>1. /\ hook'.key = KeyOf[r] /\ hook'.pid \in {r, NoPid}
          /\ r \in open' /\ (r \in Unified => r \in named')
      BY <2>2 DEF HookArrives, HookPid
    <3> QED
      BY <3>1 DEF Known, IsRunOf
  <2> QED
    BY <2>1, <2>2 DEF Sessions, SessionOpens, MetaLands, MetaNames, SessionCloses, DirVanishes
<1>2. OwnPass'
  BY <1>1, <1>k, <1>w DEF Own, OwnPass, Unread, watcherVars, passVars, dirVars
<1>3. OwnTable(table)'
  BY <1>k, <1>w DEF Own, OwnTable
<1>4. \A k \in Live(table) : IsOpen(k)' => IsOpen(k)
  <2> SUFFICES ASSUME NEW k \in Live(table), NEW r \in open', KeyOf[r] = k PROVE IsOpen(k)
    BY DEF IsOpen
  <2>1. PICK q \in open \cup closed : KeyOf[q] = k
    BY DEF Own, OwnTable, Known
  <2>2. r \in Runs /\ q \in Runs
    BY <1>n, <2>1, ShapedStep DEF Typed, Shaped
  <2>3. q = r
    BY <2>1, <2>2 DEF OwnKeys
  <2>4. CASE r \in open
    BY <2>4 DEF IsOpen
  <2>5. CASE r \in closed
    <3>1. r \in closed'
      BY <1>n, <2>5, KnownStays
    <3> QED
      BY <1>n, <3>1, ShapedStep DEF Shaped
  <2> QED
    BY <2>1, <2>3, <2>4, <2>5
<1>5. Beating(table, Due)'
  <2>1. Due' = Due
    BY <1>w DEF Due, watcherVars, passVars
  <2> QED
    BY <1>4, <1>w, <2>1 DEF Own, Beating
<1>6. OwnDirs'
  BY <1>n, DirsKeepOwn DEF Own
<1> QED
  BY <1>2, <1>3, <1>5, <1>6, <1>w DEF Own

(* When no session opens or closes, it is enough to look at the new table. *)
LEMMA SettledOwn ==
  ASSUME Typed, Own, [Next]_vars, UNCHANGED sessionVars, NEW D, D \subseteq Due',
         TableGood(table', 1), OwnTable(table'), Beating(table', D), OwnPass'
  PROVE  Own'
<1>d. OwnDirs'
  BY DirsKeepOwn DEF Own
<1>1. open' = open /\ closed' = closed /\ named' = named
  BY DEF sessionVars
<1>2. OwnTable(table)'
  BY <1>1 DEF OwnTable, Known, IsRunOf
<1>3. Beating(table, Due)'
  <2> SUFFICES ASSUME NEW k \in Live(table'), IsOpen(k)'
               PROVE  Silent(table'.sessions[k], IF k \in Due' THEN 1 ELSE 0)
    BY DEF Beating, Silent
  <2>1. IsOpen(k)
    BY <1>1 DEF IsOpen
  <2>2. Silent(table'.sessions[k], IF k \in D THEN 1 ELSE 0)
    BY <2>1 DEF Beating
  <2>3. CASE k \in D
    BY <2>2, <2>3 DEF Silent
  <2>4. CASE k \notin D
    <3>1. table'.sessions[k].state \notin RESTING_STATES => table'.sessions[k].age <= 0
      BY <2>2, <2>4 DEF Silent
    <3>2. table'.sessions[k].age \in Nat
      BY RecordsOfTable DEF TableGood, SessionRecord
    <3> QED
      BY <3>1, <3>2 DEF Silent
  <2> QED
    BY <2>3, <2>4
<1> QED
  BY <1>d, <1>2, <1>3 DEF Own

(* A step that leaves the pass and the hook alone.                         *)
LEMMA SamePass ==
  ASSUME [Next]_vars, OwnPass, UNCHANGED <<leases, slots, gone, unread>>,
         hook' \in {hook, Nothing}, ending' = ending \/ ending' = Nothing
  PROVE  OwnPass'
<1>k. /\ \A k : Known(k) => Known(k)'
      /\ \A k : Over(k) => Over(k)'
      /\ \A r, k : IsRunOf(r, k) => IsRunOf(r, k)'
      /\ named \subseteq named'
  BY KnownStays
<1>1. (hook # Nothing => /\ Known(hook.key)
                         /\ hook.pid # NoPid => IsRunOf(hook.pid, hook.key))'
  BY <1>k DEF OwnPass
<1>2. (ending # Nothing => Over(ending.key) \/ Unread(ending.key))'
  BY <1>k DEF OwnPass, Unread
<1> QED
  BY <1>1, <1>2, <1>k DEF OwnPass

(* The event loop, the sweep and the clock.                                *)
LEMMA LoopKeepsOwn ==
  ASSUME Typed, Own, OwnKeys, HookApplies \/ Sweep \/ Tick
  PROVE  Own'
<1>n. [Next]_vars
  BY DEF Next
<1>t. TableGood(table, 1) /\ Shaped /\ TableGood(table', 1)
  BY <1>n, TableStepsKeepGood DEF Typed
<1>o. OwnTable(table) /\ Beating(table, Due) /\ OwnPass
  BY DEF Own
<1>s. UNCHANGED sessionVars
  BY DEF HookApplies, Sweep, Tick
<1>p. OwnPass'
  <2>1. /\ UNCHANGED <<leases, slots, gone, ending, unread>>
        /\ hook' \in {hook, Nothing}
    BY DEF HookApplies, Sweep, Tick, watcherVars, passVars, dirVars
  <2> QED
    BY <1>n, <1>o, <2>1, SamePass
<1>g. table \in TableOf(SessionRecord) /\ TableInv(table)
  BY <1>t DEF TableGood
<1>1. CASE HookApplies
  <2>1. PICK k, verb, pid : k = hook.key /\ verb = hook.verb /\ pid = hook.pid
    OBVIOUS
  <2>2. /\ k \in Sids /\ verb \in ReportVerbs /\ Known(k)
        /\ pid \in Runs \cup {NoPid} /\ (pid # NoPid => IsRunOf(pid, k))
    BY <1>t, <1>o, <1>1, <2>1, WatchedVerbs DEF HookApplies, Shaped, OwnPass
  <2>3. /\ table' = HandleEvent(table, k, verb, pid, NoCwd, open)
        /\ UNCHANGED watcherVars
    BY <1>1, <2>1 DEF HookApplies
  <2>4. Due' = Due
    BY <2>3 DEF Due, watcherVars, passVars
  <2>5. OwnTable(table') /\ Beating(table', Due \ {k})
    BY <1>t, <1>o, <2>2, <2>3, ReportKeepsOwn
  <2>6. Due \ {k} \subseteq Due'
    BY <2>4
  <2> QED
    BY <1>n, <1>s, <1>t, <1>p, <2>5, <2>6, SettledOwn
<1>2. CASE Sweep
  <2>1. /\ Live(table') \subseteq Live(table)
        /\ \A x \in Live(table') : table'.sessions[x] = table.sessions[x]
    BY <1>g, <1>2, SweptEffect DEF Sweep
  <2>2. Due' = Due
    BY <1>2 DEF Sweep, Due, watcherVars, passVars
  <2>3. OwnTable(table') /\ Beating(table', Due)
    BY <1>o, <2>1 DEF OwnTable, Beating
  <2>4. Due \subseteq Due'
    BY <2>2
  <2> QED
    BY <1>n, <1>s, <1>t, <1>p, <2>3, <2>4, SettledOwn
<1>3. CASE Tick
  <2>1. /\ Live(table') = Live(table)
        /\ \A x \in Live(table) : /\ table'.sessions[x].state = table.sessions[x].state
                                  /\ table'.sessions[x].pid = table.sessions[x].pid
                                  /\ table'.sessions[x].age = table.sessions[x].age + 1
    BY <1>g, <1>3, ElapseEffect DEF Tick
  <2>2. Due = {} /\ Due' = Sids
    BY <1>3 DEF Tick, Due
  <2>3. OwnTable(table')
    BY <1>o, <2>1 DEF OwnTable
  <2>4. ASSUME NEW k \in Live(table'), IsOpen(k)
        PROVE  Silent(table'.sessions[k], IF k \in Sids THEN 1 ELSE 0)
    <3>1. k \in Sids /\ table.sessions[k].age \in Nat
      BY <1>g, <2>1, RecordsOfTable DEF SessionRecord
    <3>2. Silent(table.sessions[k], 0)
      BY <1>o, <2>1, <2>2, <2>4 DEF Beating
    <3> QED
      BY <2>1, <3>1, <3>2 DEF Silent
  <2>5. Beating(table', Sids)
    BY <2>4 DEF Beating
  <2>6. Sids \subseteq Due'
    BY <2>2
  <2> QED
    BY <1>n, <1>s, <1>t, <1>p, <2>3, <2>5, <2>6, SettledOwn
<1> QED
  BY <1>1, <1>2, <1>3

(* The scan finds every session that is on the table and open, so that the *)
(* pass will come to it; and a lease that it does not find again is over.  *)
LEMMA ScanKeepsOwn ==
  ASSUME Typed, Own, OwnKeys, HasLeases, ScanLeases
  PROVE  Own'
<1>n. [Next]_vars
  BY DEF Next, Pass
<1>t. TableGood(table, 1) /\ Shaped /\ TableGood(table', 1)
  BY <1>n, TableStepsKeepGood DEF Typed
<1>o. OwnTable(table) /\ Beating(table, Due) /\ OwnPass
  BY DEF Own
<1>s. /\ UNCHANGED sessionVars /\ UNCHANGED <<table, hook, ending, leases, unread>>
      /\ phase = "asleep" /\ phase' = "leases"
  BY DEF ScanLeases, dirVars
<1>r. UNCHANGED <<open, closed, named>>
  BY <1>s DEF sessionVars
<1>1. ASSUME NEW k \in gone' PROVE Over(k)'
  <2>1. PICK q \in open \cup closed : KeyOf[q] = k /\ (q \in Unified => q \in named)
    BY <1>o, <1>t, <1>1, ScanFinds DEF OwnPass, Known
  <2>2. q \notin open
    BY <1>t, <1>1, <2>1, ScanFinds
  <2> QED
    BY <1>r, <2>1, <2>2 DEF Over
<1>2. ASSUME NEW k \in DOMAIN slots'
      PROVE  (IsRunOf(slots[k], k) /\ (slots[k] \in Unified => slots[k] \in named))'
  BY <1>t, <1>r, <1>2, ScanFinds DEF IsRunOf
<1>3. OwnPass'
  <2>1. \A k : Known(k) => Known(k)'
    BY <1>r DEF Known
  <2>2. (hook # Nothing => /\ Known(hook.key)
                           /\ hook.pid # NoPid => IsRunOf(hook.pid, hook.key))'
    BY <1>s, <1>o, <1>r, <2>1 DEF OwnPass, IsRunOf
  <2>3. (ending # Nothing => Over(ending.key) \/ Unread(ending.key))'
    BY <1>s, <1>o, <1>r DEF OwnPass, Over, Unread
  <2> QED
    BY <1>s, <1>o, <1>1, <1>2, <2>1, <2>2, <2>3 DEF OwnPass, IsRunOf
<1>4. ASSUME NEW k \in Live(table'), IsOpen(k) PROVE k \in fresh' \cup still'
  <2>1. PICK q \in open \cup closed : KeyOf[q] = k /\ (q \in Unified => q \in named)
    BY <1>o, <1>s, <1>4 DEF OwnTable, Known
  <2>2. PICK r \in open : KeyOf[r] = k
    BY <1>4 DEF IsOpen
  <2>3. q = r
    BY <1>t, <2>1, <2>2 DEF OwnKeys, Shaped
  <2> QED
    BY <1>t, <2>1, <2>2, <2>3, ScanFinds
<1>5. Due = Sids /\ Due' = fresh' \cup still'
  BY <1>s DEF Due
<1>6. Beating(table', fresh' \cup still')
  <2>1. \A k \in Live(table) : k \in Sids
    BY <1>t, RecordsOfTable DEF TableGood
  <2> QED
    BY <1>o, <1>s, <1>4, <1>5, <2>1 DEF Beating
<1>7. OwnTable(table') /\ fresh' \cup still' \subseteq Due'
  BY <1>o, <1>s, <1>5
<1> QED
  BY <1>n, <1>s, <1>t, <1>3, <1>6, <1>7, SettledOwn

(* The scan of the directories: a session that it finds or ends has been   *)
(* open, and what it ends is over or could not be read.                    *)
LEMMA DirStepsKeepOwn ==
  ASSUME Typed, Own, OwnKeys, Pass,
         \/ \E torn : ScanDirs(torn)
         \/ \E r \in Legacy : StartDir(r) \/ EndDir(r)
  PROVE  Own'
<1>n. [Next]_vars
  BY DEF Next
<1>t. TableGood(table, 1) /\ Shaped /\ TableGood(table', 1)
  BY <1>n, TableStepsKeepGood DEF Typed
<1>o. OwnTable(table) /\ Beating(table, Due) /\ OwnPass /\ OwnDirs
  BY DEF Own
<1>s. UNCHANGED sessionVars
  BY PassLeavesSessions
<1>k. /\ \A k : Known(k)' <=> Known(k)
      /\ \A k : Over(k)' <=> Over(k)
      /\ \A r, k : IsRunOf(r, k)' <=> IsRunOf(r, k)
      /\ named' = named
  BY <1>s DEF sessionVars, Known, Over, IsRunOf
<1>1. ASSUME NEW torn, ScanDirs(torn) PROVE Own'
  <2>1. /\ UNCHANGED <<table, hook, ending, leases, gone>>
        /\ slots' = NoEntries /\ phase = "leases" /\ phase' = "dirs"
        /\ fresh = {} /\ still = {} /\ ending = Nothing
    BY <1>1 DEF ScanDirs
  <2>2. DOMAIN slots' = {}
    BY <1>t, <2>1, LeaseFacts
  <2>3. (hook # Nothing => /\ Known(hook.key)
                           /\ hook.pid # NoPid => IsRunOf(hook.pid, hook.key))'
    BY <1>k, <1>o, <2>1 DEF OwnPass
  <2>4. OwnPass'
    BY <1>k, <1>o, <2>1, <2>2, <2>3 DEF OwnPass
  <2>5. Due = {}
    BY <2>1 DEF Due
  <2>6. OwnTable(table') /\ Beating(table', {}) /\ {} \subseteq Due'
    BY <1>o, <2>1, <2>5
  <2> QED
    BY <1>n, <1>s, <1>t, <2>4, <2>6, SettledOwn
<1>2. ASSUME NEW r \in Legacy, StartDir(r) PROVE Own'
  <2>1. /\ table' = HandleEvent(table, KeyOf[r], "start", NoPid, NoCwd, open)
        /\ UNCHANGED <<hook, phase, ending, leases, passVars, unread>>
        /\ r \in appeared \cup renamed
    BY <1>2 DEF StartDir
  <2>2. KeyOf[r] \in Sids /\ Known(KeyOf[r])
    <3>1. r \in open \cup closed
      BY <1>t, <1>o, <2>1 DEF Shaped, OwnDirs
    <3> QED
      BY <3>1, LegacyKeys DEF Known, Legacy
  <2>3. OwnPass' /\ Due' = Due
    BY <1>n, <1>o, <2>1, SamePass DEF passVars, Due
  <2>4. OwnTable(table') /\ Beating(table', Due \ {KeyOf[r]})
    BY <1>t, <1>o, <2>1, <2>2, WatchedVerbs, ReportKeepsOwn
  <2>5. Due \ {KeyOf[r]} \subseteq Due'
    BY <2>3
  <2> QED
    BY <1>n, <1>s, <1>t, <2>3, <2>4, <2>5, SettledOwn
<1>3. ASSUME NEW r \in Legacy, EndDir(r) PROVE Own'
  <2>1. /\ ending' = [key |-> KeyOf[r], step |-> "free"] /\ r \in missing
        /\ UNCHANGED <<table, hook, phase, leases, passVars, unread>>
    BY <1>3 DEF EndDir
  <2>2. (Over(ending.key) \/ Unread(ending.key))'
    <3>1. ending'.key = KeyOf[r]
      BY <2>1
    <3>2. Over(KeyOf[r]) \/ Unread(KeyOf[r])
      BY <1>o, <2>1 DEF OwnDirs, Over, Unread
    <3>3. Unread(KeyOf[r])' <=> \E q \in unread : KeyOf[q] = ending'.key
      BY <2>1, <3>1 DEF Unread
    <3> QED
      BY <1>k, <2>1, <3>1, <3>2, <3>3 DEF Unread
  <2>3. (hook # Nothing => /\ Known(hook.key)
                           /\ hook.pid # NoPid => IsRunOf(hook.pid, hook.key))'
    BY <1>k, <1>o, <2>1 DEF OwnPass
  <2>4. OwnPass'
    BY <1>k, <1>o, <2>1, <2>2, <2>3 DEF OwnPass, passVars
  <2>5. Due' = Due
    BY <2>1 DEF Due, passVars
  <2>6. OwnTable(table') /\ Beating(table', Due) /\ Due \subseteq Due'
    BY <1>o, <2>1, <2>5
  <2> QED
    BY <1>n, <1>s, <1>t, <2>4, <2>6, SettledOwn
<1> QED
  BY <1>1, <1>2, <1>3

(* The rest of the pass.                                                   *)
LEMMA PassStepsKeepOwn ==
  ASSUME Typed, Own, OwnKeys, HasLeases, Pass
  PROVE  Own'
<1>n. [Next]_vars
  BY DEF Next
<1>t. TableGood(table, 1) /\ Shaped /\ Passing /\ TableGood(table', 1)
  BY <1>n, TableStepsKeepGood DEF Typed
<1>o. OwnTable(table) /\ Beating(table, Due) /\ OwnPass
  BY DEF Own
<1>s. UNCHANGED sessionVars
  BY PassLeavesSessions
<1>r. UNCHANGED <<open, closed, named>>
  BY <1>s DEF sessionVars
<1>k. /\ \A k : Known(k)' <=> Known(k)
      /\ \A k : Over(k)' <=> Over(k)
      /\ \A r, k : IsRunOf(r, k)' <=> IsRunOf(r, k)
  BY <1>r DEF Known, Over, IsRunOf
<1>1. CASE ScanLeases
  BY <1>1, ScanKeepsOwn
<1>2. ASSUME NEW k \in Sids, EndKey(k) PROVE Own'
  <2>1. /\ UNCHANGED <<table, hook, phase, slots, fresh, still, dirVars>>
        /\ leases' = Drop(leases, {k}) /\ gone' = gone \ {k} /\ k \in gone
        /\ ending' = [key |-> k, step |-> "free"]
    BY <1>2 DEF EndKey
  <2>2. DOMAIN leases' \subseteq DOMAIN leases /\ ending'.key = k /\ Over(k)
    BY <1>t, <1>o, <2>1, LeaseFacts DEF OwnPass
  <2>3. (hook # Nothing => /\ Known(hook.key)
                           /\ hook.pid # NoPid => IsRunOf(hook.pid, hook.key))'
    BY <1>k, <1>o, <2>1 DEF OwnPass
  <2>4. (ending # Nothing => Over(ending.key) \/ Unread(ending.key))'
    BY <1>k, <2>2
  <2>5. OwnPass'
    BY <1>k, <1>o, <1>r, <2>1, <2>2, <2>3, <2>4 DEF OwnPass
  <2>6. Due' = Due
    BY <2>1 DEF Due
  <2>7. OwnTable(table') /\ Beating(table', Due) /\ Due \subseteq Due'
    BY <1>o, <2>1, <2>6
  <2> QED
    BY <1>n, <1>s, <1>t, <2>5, <2>7, SettledOwn
<1>3. CASE EndFrees
  <2>1. PICK k : k = ending.key
    OBVIOUS
  <2>2. /\ k \in Sids /\ table' = HandleEvent(table, k, "end", NoPid, NoCwd, open)
        /\ UNCHANGED <<hook, phase, leases, passVars, dirVars>> /\ ending # Nothing
        /\ ending' = [ending EXCEPT !.step = "clear"]
    BY <1>t, <1>3, <2>1 DEF EndFrees, Shaped
  <2>3. ending'.key = ending.key
    BY <1>t, <2>2 DEF Shaped
  <2>4. (ending # Nothing => Over(ending.key) \/ Unread(ending.key))'
    BY <1>k, <1>o, <2>2, <2>3 DEF OwnPass, Unread, dirVars
  <2>5. (hook # Nothing => /\ Known(hook.key)
                           /\ hook.pid # NoPid => IsRunOf(hook.pid, hook.key))'
    BY <1>k, <1>o, <2>2 DEF OwnPass
  <2>6. OwnPass' /\ Due' = Due
    BY <1>k, <1>o, <1>r, <2>2, <2>4, <2>5 DEF OwnPass, Due, passVars
  <2>7. OwnTable(table') /\ Beating(table', Due \ {k})
    BY <1>t, <1>o, <2>2, WatchedVerbs, ReportKeepsOwn
  <2>8. Due \ {k} \subseteq Due'
    BY <2>6
  <2> QED
    BY <1>n, <1>s, <1>t, <2>6, <2>7, <2>8, SettledOwn
<1>4. CASE EndClears
  <2>1. /\ UNCHANGED <<table, hook, phase, leases, passVars, unread>>
        /\ ending' = Nothing
    BY <1>4 DEF EndClears, dirVars
  <2>2. OwnPass'
    BY <1>n, <1>o, <2>1, SamePass DEF passVars
  <2>3. Due' = Due
    BY <2>1 DEF Due, passVars
  <2>4. OwnTable(table') /\ Beating(table', Due) /\ Due \subseteq Due'
    BY <1>o, <2>1, <2>3
  <2> QED
    BY <1>n, <1>s, <1>t, <2>2, <2>4, SettledOwn
<1>5. ASSUME NEW k \in Sids, StartKey(k) \/ BeatKey(k) PROVE Own'
  <2>1. /\ k \in DOMAIN slots /\ DOMAIN leases' = DOMAIN leases \cup {k}
        /\ UNCHANGED <<hook, ending, slots, gone, phase, unread>> /\ phase = "leases"
    BY <1>5, LeaseStep DEF StartKey, BeatKey, dirVars
  <2>2. Known(k)
    BY <1>o, <2>1 DEF OwnPass, IsRunOf, Known
  <2>3. (ending # Nothing => Over(ending.key) \/ Unread(ending.key))'
    BY <1>k, <1>o, <2>1 DEF OwnPass, Unread
  <2>4. (hook # Nothing => /\ Known(hook.key)
                           /\ hook.pid # NoPid => IsRunOf(hook.pid, hook.key))'
    BY <1>k, <1>o, <2>1 DEF OwnPass
  <2>5. OwnPass'
    BY <1>k, <1>o, <1>r, <2>1, <2>2, <2>3, <2>4 DEF OwnPass
  <2>6. Due = fresh \cup still /\ Due \ {k} \subseteq Due'
    BY <1>5, <2>1 DEF Due, StartKey, BeatKey
  <2>7. /\ TableGood(Started(table, k), 1) /\ OwnTable(Started(table, k))
        /\ Beating(Started(table, k), Due \ {k})
    BY <1>t, <1>o, <2>1, PassKeepsOwn
  <2>8. CASE StartKey(k)
    <3>1. table' = Started(table, k)
      BY <2>8 DEF StartKey
    <3> QED
      BY <1>n, <1>s, <1>t, <2>5, <2>6, <2>7, <3>1, SettledOwn
  <2>9. CASE BeatKey(k)
    <3>1. \/ table' = Beaten(table, k)
          \/ table' = Beaten(Started(table, k), k)
      BY <2>9 DEF BeatKey
    <3>2. OwnTable(Beaten(table, k)) /\ Beating(Beaten(table, k), Due \ {k})
      BY <1>t, <1>o, <2>1, PassKeepsOwn
    <3>3. /\ OwnTable(Beaten(Started(table, k), k))
          /\ Beating(Beaten(Started(table, k), k), (Due \ {k}) \ {k})
      BY <1>t, <1>o, <2>1, <2>7, PassKeepsOwn
    <3>4. (Due \ {k}) \ {k} = Due \ {k}
      OBVIOUS
    <3>5. OwnTable(table') /\ Beating(table', Due \ {k})
      BY <3>1, <3>2, <3>3, <3>4
    <3> QED
      BY <1>n, <1>s, <1>t, <2>5, <2>6, <3>5, SettledOwn
  <2> QED
    BY <1>5, <2>8, <2>9
<1>6. CASE CheckTimeouts
  <2>1. /\ UNCHANGED <<table, hook, ending, leases, gone, slots>>
        /\ phase = "dirs" /\ phase' = "checked" /\ ending = Nothing
    BY <1>6 DEF CheckTimeouts
  <2>2. (hook # Nothing => /\ Known(hook.key)
                           /\ hook.pid # NoPid => IsRunOf(hook.pid, hook.key))'
    BY <1>k, <1>o, <2>1 DEF OwnPass
  <2>3. OwnPass'
    BY <1>k, <1>o, <1>r, <2>1, <2>2 DEF OwnPass
  <2>4. Due' = Due
    BY <2>1 DEF Due
  <2>5. OwnTable(table') /\ Beating(table', Due) /\ Due \subseteq Due'
    BY <1>o, <2>1, <2>4
  <2> QED
    BY <1>n, <1>s, <1>t, <2>3, <2>5, SettledOwn
<1>7. ASSUME NEW k \in Sids, InferApproval(k) PROVE Own'
  <2>1. /\ table' = HandleEvent(table, k, "hitl_inferred", NoPid, NoCwd, open)
        /\ UNCHANGED <<hook, phase, ending, leases, slots, gone, fresh, still, unread>>
    BY <1>7 DEF InferApproval, dirVars
  <2>2. OwnPass'
    BY <1>n, <1>o, <2>1, SamePass
  <2>3. Due' = Due
    BY <2>1 DEF Due
  <2>4. OwnTable(table') /\ Beating(table', Due \ {k})
    BY <1>t, <1>o, <2>1, WatchedVerbs, ReportKeepsOwn
  <2>5. Due \ {k} \subseteq Due'
    BY <2>3
  <2> QED
    BY <1>n, <1>s, <1>t, <2>2, <2>4, <2>5, SettledOwn
<1>8. CASE (\E torn : ScanDirs(torn)) \/ \E r \in Legacy : StartDir(r) \/ EndDir(r)
  BY <1>8, DirStepsKeepOwn
<1> QED
  BY <1>1, <1>2, <1>3, <1>4, <1>5, <1>6, <1>7, <1>8 DEF Pass

LEMMA InitOwn == Init => Own
<1> SUFFICES ASSUME Init PROVE Own
  OBVIOUS
<1>1. /\ Live(table) = {} /\ DOMAIN leases = {} /\ DOMAIN slots = {} /\ gone = {}
      /\ hook = Nothing /\ ending = Nothing /\ saved = {} /\ known = {} /\ missing = {}
  BY EmptyTableOK DEF Init, NoEntries
<1> QED
  BY <1>1 DEF Own, OwnTable, Beating, OwnPass, OwnDirs

LEMMA OwnHolds ==
  ASSUME HasLeases, OwnKeys
  PROVE  Spec => []Own
<1>1. Typed /\ Own /\ [Next]_vars => Own'
  <2> SUFFICES ASSUME Typed, Own, [Next]_vars PROVE Own'
    OBVIOUS
  <2>1. CASE UNCHANGED vars
    <3>1. /\ UNCHANGED sessionVars /\ UNCHANGED <<table, hook, watcherVars>>
      BY <2>1 DEF vars
    <3>2. UNCHANGED <<open, closed, saved, named>>
      BY <3>1 DEF sessionVars
    <3>3. UNCHANGED <<phase, ending, leases, passVars, known, unread, missing>>
      BY <3>1 DEF watcherVars, dirVars
    <3> QED
      BY <3>1, <3>2, <3>3 DEF passVars, Own, OwnTable, Beating, OwnPass, OwnDirs, Due,
                              Known, Over, IsRunOf, IsOpen, Unread
  <2> QED
    BY <2>1, SessionsKeepOwn, LoopKeepsOwn, PassStepsKeepOwn DEF Next
<1> QED
  BY <1>1, InitOwn, TypedHolds, PTL DEF Spec

(* Who leaves the table: the key that the watcher ends, which is over or   *)
(* could not be read, and in a sweep those whose process is dead or who    *)
(* have been silent for too long.                                          *)
LEMMA Leavers ==
  ASSUME Typed, Own, [Next]_vars, NEW k \in Live(table) \ Live(table')
  PROVE  \/ Over(k)
         \/ k \in Stale(table)
         \/ EndsUnread(k)
<1>n. TableGood(table, 1) /\ Shaped /\ Passing
  BY DEF Typed
<1>o. OwnTable(table) /\ Beating(table, Due) /\ OwnPass
  BY DEF Own
<1>g. table \in TableOf(SessionRecord) /\ TableInv(table)
  BY <1>n DEF TableGood
<1>1. CASE Sessions \/ UNCHANGED vars
  BY <1>1 DEF Sessions, SessionOpens, MetaLands, MetaNames, SessionCloses, DirVanishes,
         HookArrives, vars
<1>2. CASE HookApplies
  <2>1. PICK s, verb, pid : s = hook.key /\ verb = hook.verb /\ pid = hook.pid
    OBVIOUS
  <2>2. /\ s \in Sids /\ verb \in ReportVerbs /\ verb # "end" /\ Known(s)
        /\ pid \in Runs \cup {NoPid} /\ (pid # NoPid => IsRunOf(pid, s))
        /\ table' = HandleEvent(table, s, verb, pid, NoCwd, open)
    BY <1>n, <1>o, <1>2, <2>1, WatchedVerbs DEF HookApplies, Shaped, OwnPass, HookVerbs
  <2>3. Live(table) \subseteq Live(table')
    BY <1>n, <1>o, <2>2, ReportKeepsOwn
  <2> QED
    BY <2>3
<1>3. CASE Sweep
  <2>1. k \in DeadSessions(table, open) \cup Stale(table)
    BY <1>g, <1>3, SweptEffect DEF Sweep
  <2>2. CASE k \in DeadSessions(table, open)
    <3>1. table.sessions[k].pid # NoPid /\ table.sessions[k].pid \notin open
      BY <2>2 DEF DeadSessions, ReaperTrusts
    <3>2. IsRunOf(table.sessions[k].pid, k)
      BY <1>o, <3>1 DEF OwnTable
    <3> QED
      BY <3>1, <3>2 DEF IsRunOf, Over
  <2> QED
    BY <2>1, <2>2
<1>4. CASE ScanLeases \/ EndClears \/ CheckTimeouts \/ \E x \in Sids : EndKey(x)
  BY <1>4 DEF ScanLeases, EndClears, CheckTimeouts, EndKey
<1>5. CASE EndFrees
  <2>1. PICK s : s = ending.key
    OBVIOUS
  <2>2. /\ s \in Sids /\ (Over(s) \/ EndsUnread(s))
        /\ table' = HandleEvent(table, s, "end", NoPid, NoCwd, open)
    BY <1>n, <1>o, <1>5, <2>1 DEF EndFrees, Shaped, OwnPass, EndsUnread
  <2>3. Live(table) \ {s} \subseteq Live(table')
    BY <1>n, <1>o, <2>2, WatchedVerbs, ReportKeepsOwn
  <2> QED
    BY <2>2, <2>3
<1>6. ASSUME NEW s \in Sids, StartKey(s) \/ BeatKey(s)
      PROVE  Live(table) \subseteq Live(table')
  <2>1. s \in DOMAIN slots
    BY <1>6, LeaseStep
  <2>2. /\ TableGood(Started(table, s), 1) /\ OwnTable(Started(table, s))
        /\ Beating(Started(table, s), Due \ {s})
        /\ Live(table) \subseteq Live(Started(table, s))
        /\ Live(Beaten(table, s)) = Live(table)
    BY <1>n, <1>o, <2>1, PassKeepsOwn
  <2>3. Live(Beaten(Started(table, s), s)) = Live(Started(table, s))
    BY <1>n, <1>o, <2>1, <2>2, PassKeepsOwn
  <2>4. \/ table' = Started(table, s)
        \/ table' = Beaten(table, s)
        \/ table' = Beaten(Started(table, s), s)
    BY <1>6 DEF StartKey, BeatKey
  <2> QED
    BY <2>2, <2>3, <2>4
<1>7. ASSUME NEW s \in Sids, InferApproval(s)
      PROVE  Live(table) \subseteq Live(table')
  <2>1. table' = HandleEvent(table, s, "hitl_inferred", NoPid, NoCwd, open)
    BY <1>7 DEF InferApproval
  <2> QED
    BY <1>n, <1>o, <2>1, WatchedVerbs, ReportKeepsOwn
<1>8. CASE Tick
  BY <1>g, <1>8, ElapseEffect DEF Tick
<1>9. ASSUME NEW torn, ScanDirs(torn)
      PROVE  Live(table) \subseteq Live(table')
  BY <1>9 DEF ScanDirs
<1>10. ASSUME NEW r \in Legacy, StartDir(r) \/ EndDir(r)
       PROVE  Live(table) \subseteq Live(table')
  <2>1. CASE EndDir(r)
    BY <2>1 DEF EndDir
  <2>2. CASE StartDir(r)
    <3>1. /\ table' = HandleEvent(table, KeyOf[r], "start", NoPid, NoCwd, open)
          /\ r \in appeared \cup renamed
      BY <2>2 DEF StartDir
    <3>2. KeyOf[r] \in Sids /\ Known(KeyOf[r])
      <4>1. r \in open \cup closed
        BY <1>n, <3>1 DEF Shaped, Own, OwnDirs
      <4> QED
        BY <4>1, LegacyKeys DEF Known, Legacy
    <3> QED
      BY <1>n, <1>o, <3>1, <3>2, WatchedVerbs, ReportKeepsOwn
  <2> QED
    BY <1>10, <2>1, <2>2
<1> QED
  BY <1>1, <1>2, <1>3, <1>4, <1>5, <1>6, <1>7, <1>8, <1>9, <1>10 DEF Next, Pass

(* Where Vibe leases its sessions and each one has a segment of its own,   *)
(* however the hooks, both scans of the watcher and the broker's sweep     *)
(* interleave: the segment of an open session leaves the ring only by      *)
(* ageing out at rest, or because the scan of the directories ends a       *)
(* legacy session whose meta.json it could not read in this pass.          *)
THEOREM OwnSegmentStays ==
  ASSUME HasLeases, OwnKeys
  PROVE  Spec => OpenSessionKeepsSegment
<1> DEFINE Kept == \A k \in Live(table) \ Live(table') :
                     IsOpen(k) => AgesOutAtRest(k) \/ EndsUnread(k)
<1>1. Typed /\ Own /\ [Next]_vars => [Kept]_vars
  <2> SUFFICES ASSUME Typed, Own, [Next]_vars,
                      NEW k \in Live(table) \ Live(table'), IsOpen(k), ~EndsUnread(k)
               PROVE  AgesOutAtRest(k)
    OBVIOUS
  <2>1. ~Over(k)
    BY OverIsNotOpen DEF Typed
  <2>2. k \in Stale(table)
    BY <2>1, Leavers
  <2>3. table.sessions[k].age \in Nat
    BY RecordsOfTable DEF Typed, TableGood, SessionRecord
  <2>4. Window(table.sessions[k]) \in Nat /\ Window(table.sessions[k]) >= 1
    BY WindowBounds, WindowAssumption
  <2>5. table.sessions[k].age > 1
    BY <2>2, <2>3, <2>4 DEF Stale
  <2>6. Silent(table.sessions[k], IF k \in Due THEN 1 ELSE 0)
    BY DEF Own, Beating
  <2>7. table.sessions[k].state \in RESTING_STATES
    BY <2>3, <2>5, <2>6 DEF Silent
  <2> QED
    BY <2>2, <2>7 DEF AgesOutAtRest
<1> QED
  BY <1>1, TypedHolds, OwnHolds, PTL DEF Spec, OpenSessionKeepsSegment
=============================================================================
