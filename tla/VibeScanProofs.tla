--------------------------- MODULE VibeScanProofs ---------------------------
(***************************************************************************)
(* The two scans of the Vibe watcher, proved for any number of sessions,   *)
(* legacy and unified, with and without leases, whatever they write, leave *)
(* behind and whichever of their files cannot be read.  A unified session  *)
(* makes its directory before it takes its lock (~LockFirst);              *)
(* MCVibe_scanwide.cfg with LockFirst = TRUE shows what depends on that.   *)
(***************************************************************************)
EXTENDS VibeScan, TLAPS

(* The files of a session in each part of its life.                        *)
FilesOK ==
  \A s \in Sessions :
    /\ life[s] = "new" => lock[s] = "none" /\ meta[s] = "none"
    /\ leases /\ life[s] = "open" => lock[s] \in {"bare", "pid"}
    /\ lock[s] = "stale" => life[s] = "closed"
    /\ s \in unified /\ (life[s] = "open" \/ lock[s] = "bare") => meta[s] # "none"

(* A lease is kept under the key that the hooks of its session have.       *)
KeysOK == \A s \in DOMAIN keyBySid : s \in Sessions /\ keyBySid[s].key = Key(s)

(* What was over at the start is not on the ring, and once the baseline is *)
(* taken, whatever there is of it is known.                                *)
HistoryOK ==
  \A s \in history :
    /\ life[s] = "closed" /\ lock[s] # "bare"
    /\ s \notin unified => s \notin ring
    /\ primed /\ s \notin unified /\ meta[s] \in {"unnamed", "named"} => s \in known
    /\ primed /\ s \notin unified /\ meta[s] = "named" => s \in settled

ScanInv == TypeOK /\ FilesOK /\ KeysOK /\ HookKeysOnly /\ HistoryOK

(* A watcher that starts remembers nothing of an earlier one.              *)
LEMMA NothingKept ==
  ASSUME NEW k, NEW i, k = [e \in {} |-> FALSE], i = [e \in {} |-> FALSE]
  PROVE  /\ DOMAIN k = {} /\ DOMAIN i = {}
         /\ \A S : k \in [DOMAIN k -> S] /\ i \in [DOMAIN i -> S]
         /\ DOMAIN k = {i[s].key : s \in DOMAIN i}
OBVIOUS

LEMMA ScanInit == Init => ScanInv
<1> SUFFICES ASSUME Init PROVE ScanInv
  OBVIOUS
<1>1. unified \subseteq Sessions /\ leases \in BOOLEAN
  BY KeyAssumption DEF Init
<1>2. /\ DOMAIN leaseCwd = {} /\ DOMAIN keyBySid = {}
      /\ \A S : leaseCwd \in [DOMAIN leaseCwd -> S] /\ keyBySid \in [DOMAIN keyBySid -> S]
      /\ DOMAIN leaseCwd = {keyBySid[s].key : s \in DOMAIN keyBySid}
  BY NothingKept DEF Init, NothingScanned
<1>3. TypeOK
  BY <1>1, <1>2 DEF Init, NothingScanned, TypeOK, Keys
<1>4. FilesOK /\ KeysOK /\ HookKeysOnly /\ HistoryOK
  BY <1>2 DEF Init, NothingScanned, FilesOK, KeysOK, HookKeysOnly, HistoryOK
<1> QED
  BY <1>3, <1>4 DEF ScanInv

(***************************************************************************)
(* The files change under the watcher                                      *)
(***************************************************************************)

LEMMA FilesKeep ==
  ASSUME ~LockFirst, ScanInv, Files
  PROVE  ScanInv' /\ ring' = ring
<1> PICK s \in Sessions :
      \/ Opens(s) \/ NamesProcess(s) \/ GracePasses(s)
      \/ \E how \in {"unnamed", "named"} : Saves(s, how)
      \/ Exits(s) \/ Crashes(s) \/ Deletes(s)
  BY DEF Files
<1> USE DEF Open
<1>1. UNCHANGED <<unified, leases, scanVars, ring, history>>
  BY DEF Opens, NamesProcess, GracePasses, Saves, Exits, Crashes, Deletes
<1>2. /\ life' \in [Sessions -> {"new", "open", "closed"}]
      /\ lock' \in [Sessions -> {"none", "bare", "stale", "pid"}]
      /\ meta' \in [Sessions -> {"none", "empty", "unnamed", "named"}]
      /\ \A r \in Sessions \ {s} :
           life'[r] = life[r] /\ lock'[r] = lock[r] /\ meta'[r] = meta[r]
  BY DEF ScanInv, TypeOK, Opens, NamesProcess, GracePasses, Saves, Exits, Crashes, Deletes
<1>3. FilesOK'
  <2>1. CASE Opens(s)
    BY <1>1, <1>2, <2>1 DEF ScanInv, TypeOK, FilesOK, Opens
  <2>2. CASE NamesProcess(s) \/ GracePasses(s)
    BY <1>1, <1>2, <2>2 DEF ScanInv, TypeOK, FilesOK, NamesProcess, GracePasses
  <2>3. ASSUME NEW how \in {"unnamed", "named"}, Saves(s, how) PROVE FilesOK'
    BY <1>1, <1>2, <2>3 DEF ScanInv, TypeOK, FilesOK, Saves
  <2>4. CASE Exits(s)
    BY <1>1, <1>2, <2>4 DEF ScanInv, TypeOK, FilesOK, Exits
  <2>5. CASE Crashes(s)
    BY <1>1, <1>2, <2>5 DEF ScanInv, TypeOK, FilesOK, Crashes
  <2>6. CASE Deletes(s)
    BY <1>1, <1>2, <2>6 DEF ScanInv, TypeOK, FilesOK, Deletes
  <2> QED
    BY <2>1, <2>2, <2>3, <2>4, <2>5, <2>6
<1>4. HistoryOK'
  <2>1. CASE s \notin history
    BY <1>1, <1>2, <2>1 DEF ScanInv, TypeOK, HistoryOK, scanVars
  <2>2. CASE s \in history
    <3>1. life[s] = "closed" /\ lock[s] # "bare"
      BY <2>2 DEF ScanInv, HistoryOK
    <3>2. Deletes(s)
      BY <3>1 DEF Opens, NamesProcess, GracePasses, Saves, Exits, Crashes
    <3> QED
      BY <1>1, <1>2, <3>2 DEF ScanInv, TypeOK, HistoryOK, scanVars, Deletes
  <2> QED
    BY <2>1, <2>2
<1>5. KeysOK' /\ HookKeysOnly'
  BY <1>1 DEF ScanInv, KeysOK, Key, HookKeysOnly, scanVars
<1>6. TypeOK'
  BY <1>1, <1>2 DEF ScanInv, TypeOK, scanVars, Keys
<1> QED
  BY <1>1, <1>3, <1>4, <1>5, <1>6 DEF ScanInv

(***************************************************************************)
(* The lease scan                                                          *)
(***************************************************************************)

(* What a scan may not be able to read.                                    *)
Reading(tornLock, old) ==
  tornLock \subseteq Open /\ old \subseteq tornLock \cap MayBeOld

SeenNow(torn, tornLock, old) == {s \in LiveLeases(tornLock, old) : ~Defers(s, torn)}

(* A lease that counts is of a session that is open or left it bare, which *)
(* has its directory then and resolves to the key of its hooks.            *)
LEMMA LiveResolves ==
  ASSUME ScanInv, NEW torn, NEW tornLock \in SUBSET Open, NEW old,
         NEW s \in LiveLeases(tornLock, old)
  PROVE  /\ s \in Sessions
         /\ life[s] = "open" \/ lock[s] = "bare"
         /\ IsUnified(s) <=> s \in unified
         /\ ResolveLease(s, torn).key = Key(s)
         /\ ResolveLease(s, torn) \in [key : Keys, cwd : BOOLEAN]
<1>1. s \in Sessions /\ lock[s] \in {"bare", "pid"}
  BY DEF LiveLeases, ScanInv, TypeOK
<1>2. life[s] = "open" \/ lock[s] = "bare"
  BY <1>1 DEF LiveLeases, LeasePid, Open
<1>3. IsUnified(s) <=> s \in unified
  BY <1>1, <1>2 DEF IsUnified, ScanInv, FilesOK
<1>4. ResolveLease(s, torn).key = Key(s)
  BY <1>1, <1>3 DEF ResolveLease, Key, ScanInv, KeysOK
<1>5. Named(s, torn) \in BOOLEAN
  BY DEF Named
<1>6. ResolveLease(s, torn) \in [key : Keys, cwd : BOOLEAN]
  <2>1. CASE IsUnified(s) /\ ~Named(s, torn) /\ s \in DOMAIN keyBySid
    BY <2>1 DEF ResolveLease, ScanInv, TypeOK
  <2>2. CASE ~(IsUnified(s) /\ ~Named(s, torn) /\ s \in DOMAIN keyBySid)
    <3>1. (IF IsUnified(s) THEN DirKey ELSE s) \in Keys
      BY <1>1 DEF Keys
    <3> QED
      BY <1>5, <2>2, <3>1 DEF ResolveLease
  <2> QED
    BY <2>1, <2>2
<1> QED
  BY <1>1, <1>2, <1>3, <1>4, <1>6

(* What a scan keeps, and what it does to the ring.                        *)
LEMMA LeaseScanResult ==
  ASSUME ScanInv, NEW torn, NEW tornLock \in SUBSET Open, NEW old,
         leases, ScanLeases(torn, tornLock, old)
  PROVE  /\ DOMAIN keyBySid' = SeenNow(torn, tornLock, old)
         /\ SeenNow(torn, tornLock, old) \subseteq Sessions
         /\ keyBySid' \in [DOMAIN keyBySid' -> [key : Keys, cwd : BOOLEAN]]
         /\ \A s \in DOMAIN keyBySid' : keyBySid'[s].key = Key(s)
         /\ DOMAIN leaseCwd' = {Key(s) : s \in DOMAIN keyBySid'}
         /\ DOMAIN leaseCwd' = {keyBySid'[s].key : s \in DOMAIN keyBySid'}
         /\ leaseCwd' \in [DOMAIN leaseCwd' -> BOOLEAN]
         /\ ring \ ring' \subseteq DOMAIN leaseCwd \ DOMAIN leaseCwd'
         /\ ring' \subseteq ring \cup DOMAIN leaseCwd'
         /\ pidBySid' \subseteq Sessions
         /\ phase' = "dirs"
         /\ UNCHANGED <<fileVars, primed, known, ended, settled, history>>
<1> DEFINE seen  == SeenNow(torn, tornLock, old)
           found == [s \in seen |-> ResolveLease(s, torn)]
           live  == {found[s].key : s \in seen}
           cwd   == {found[s].key : s \in {r \in seen : found[r].cwd}}
           sent  == {k \in DOMAIN leaseCwd : leaseCwd[k]}
<1>1. /\ keyBySid' = found
      /\ leaseCwd' = [k \in live |-> k \in cwd \cup sent]
      /\ ring' = (ring \ (DOMAIN leaseCwd \ live)) \cup (live \ DOMAIN leaseCwd)
                   \cup (cwd \ sent)
      /\ pidBySid' \subseteq LiveLeases(tornLock, old)
      /\ phase' = "dirs"
      /\ UNCHANGED <<fileVars, primed, known, ended, settled, history>>
  BY DEF ScanLeases, SeenNow
<1>2. \A s \in seen : /\ s \in Sessions
                      /\ found[s].key = Key(s)
                      /\ found[s] \in [key : Keys, cwd : BOOLEAN]
  BY LiveResolves DEF SeenNow
<1>3. cwd \subseteq live /\ live = {Key(s) : s \in seen}
  BY <1>2
<1>4. DOMAIN keyBySid' = seen /\ DOMAIN leaseCwd' = live
  BY <1>1
<1>5. keyBySid' \in [seen -> [key : Keys, cwd : BOOLEAN]]
      /\ \A s \in seen : keyBySid'[s] = found[s]
  BY <1>1, <1>2
<1>6. leaseCwd' \in [live -> BOOLEAN]
  BY <1>1
<1>7. ring \ ring' \subseteq DOMAIN leaseCwd \ live /\ ring' \subseteq ring \cup live
  BY <1>1, <1>3
<1>8. pidBySid' \subseteq Sessions
  BY <1>1 DEF LiveLeases
<1>9. live = {keyBySid'[s].key : s \in seen}
  BY <1>5
<1> HIDE DEF seen, found, live, cwd, sent
<1>10. seen = SeenNow(torn, tornLock, old)
  BY DEF seen
<1> QED
  BY <1>1, <1>2, <1>3, <1>4, <1>5, <1>6, <1>7, <1>8, <1>9, <1>10

LEMMA LeaseScanKeeps ==
  ASSUME ~LockFirst, ScanInv, NEW torn, NEW tornLock \in SUBSET Open, NEW old,
         ScanLeases(torn, tornLock, old)
  PROVE  ScanInv'
<1>1. CASE ~leases
  <2>1. /\ phase' = "dirs"
        /\ UNCHANGED <<fileVars, primed, known, ended, settled, history,
                        pidBySid, keyBySid, leaseCwd, ring>>
    BY <1>1 DEF ScanLeases
  <2> QED
    BY <2>1 DEF ScanInv, TypeOK, FilesOK, KeysOK, Key, HookKeysOnly, HistoryOK, fileVars,
                Keys
<1>2. CASE leases
  <2> DEFINE seen == SeenNow(torn, tornLock, old)
  <2>1. /\ DOMAIN keyBySid' = seen
        /\ seen \subseteq Sessions
        /\ keyBySid' \in [DOMAIN keyBySid' -> [key : Keys, cwd : BOOLEAN]]
        /\ \A s \in DOMAIN keyBySid' : keyBySid'[s].key = Key(s)
        /\ DOMAIN leaseCwd' = {Key(s) : s \in seen}
        /\ DOMAIN leaseCwd' = {keyBySid'[s].key : s \in DOMAIN keyBySid'}
        /\ leaseCwd' \in [DOMAIN leaseCwd' -> BOOLEAN]
        /\ ring' \subseteq ring \cup DOMAIN leaseCwd'
        /\ pidBySid' \subseteq Sessions
        /\ phase' = "dirs"
        /\ UNCHANGED <<fileVars, primed, known, ended, settled, history>>
    BY <1>2, LeaseScanResult
  <2>2. \A s \in seen : life[s] = "open" \/ lock[s] = "bare"
    BY LiveResolves DEF SeenNow
  <2> HIDE DEF seen
  <2>3. TypeOK'
    <3>1. \A s \in seen : Key(s) \in Keys
      BY <2>1 DEF Key, Keys
    <3>2. DOMAIN leaseCwd' \subseteq Keys /\ ring' \subseteq Keys
      BY <2>1, <3>1 DEF ScanInv, TypeOK
    <3>3. pidBySid' \subseteq DOMAIN lock'
      BY <2>1 DEF ScanInv, TypeOK, fileVars
    <3> QED
      BY <2>1, <3>2, <3>3 DEF ScanInv, TypeOK, fileVars, Keys
  <2>4. FilesOK'
    BY <2>1 DEF ScanInv, FilesOK, fileVars
  <2>5. KeysOK'
    BY <2>1 DEF KeysOK, Key, fileVars
  <2>6. HookKeysOnly'
    <3>1. \A s \in seen : Key(s) \notin unified
      BY <2>1, KeyAssumption DEF Key, ScanInv, TypeOK
    <3> QED
      BY <2>1, <3>1 DEF ScanInv, HookKeysOnly, fileVars
  <2>7. HistoryOK'
    <3>1. ASSUME NEW s \in history, s \notin unified PROVE s \notin ring'
      <4>1. life[s] = "closed" /\ lock[s] # "bare" /\ s \notin ring /\ s \in Sessions
        BY <3>1 DEF ScanInv, HistoryOK, TypeOK
      <4>2. s \notin seen
        BY <2>2, <4>1
      <4>3. \A r \in seen : Key(r) # s
        BY <2>1, <4>1, <4>2, KeyAssumption DEF Key
      <4> QED
        BY <2>1, <4>1, <4>3
    <3> QED
      BY <2>1, <3>1 DEF ScanInv, HistoryOK, fileVars
  <2> QED
    BY <2>3, <2>4, <2>5, <2>6, <2>7 DEF ScanInv
<1> QED
  BY <1>1, <1>2

(* An open session whose lease was seen keeps it: a process id that cannot *)
(* be read is remembered, a lock that has none yet is still fresh, and a   *)
(* directory that cannot be read is, too.                                  *)
LEMMA OpenLeaseStays ==
  ASSUME ~LockFirst, ScanInv, leases, NEW torn, NEW tornLock, NEW old,
         Reading(tornLock, old), NEW s \in Open, s \in DOMAIN keyBySid
  PROVE  s \in SeenNow(torn, tornLock, old)
<1>1. s \in Sessions /\ lock[s] \in {"bare", "pid"}
  BY DEF Open, ScanInv, FilesOK
<1>2. LeasePid(s, tornLock) \/ s \notin old
  BY DEF Reading, MayBeOld, LeasePid
<1> QED
  BY <1>1, <1>2 DEF SeenNow, LiveLeases, Defers

LEMMA LeaseScanEnds ==
  ASSUME ~LockFirst, ScanInv, NEW torn, NEW tornLock, NEW old,
         Reading(tornLock, old), ScanLeases(torn, tornLock, old),
         NEW s \in Open \cap Seen
  PROVE  Key(s) \notin ring \ ring'
<1>1. CASE ~leases
  BY <1>1 DEF ScanLeases
<1>2. CASE leases
  <2>1. tornLock \in SUBSET Open
    BY DEF Reading
  <2>2. /\ DOMAIN keyBySid' = SeenNow(torn, tornLock, old)
        /\ DOMAIN leaseCwd' = {Key(r) : r \in DOMAIN keyBySid'}
        /\ ring \ ring' \subseteq DOMAIN leaseCwd \ DOMAIN leaseCwd'
    BY <1>2, <2>1, LeaseScanResult
  <2>3. CASE s \in DOMAIN keyBySid
    BY <1>2, <2>2, <2>3, OpenLeaseStays
  <2>4. CASE s \notin DOMAIN keyBySid
    <3>1. s \in Sessions \ unified
      BY <2>4 DEF Seen, ScanInv, TypeOK
    <3>2. \A r \in DOMAIN keyBySid : keyBySid[r].key # s
      BY <2>4, <3>1, KeyAssumption DEF ScanInv, KeysOK, Key
    <3>3. s \notin DOMAIN leaseCwd
      BY <3>2 DEF ScanInv, TypeOK
    <3> QED
      BY <2>2, <3>1, <3>3 DEF Key
  <2> QED
    BY <2>3, <2>4
<1> QED
  BY <1>1, <1>2

(***************************************************************************)
(* The scan of the directories, and a restart                              *)
(***************************************************************************)

LEMMA DirScanKeeps ==
  ASSUME ScanInv, NEW torn \in SUBSET Open, ScanSessions(torn)
  PROVE  ScanInv'
<1> DEFINE current == SessionDirs(torn)
           named   == {s \in current : Named(s, torn)}
           gone    == (known \ ended) \ current
<1>1. /\ phase' = "leases" /\ primed' = TRUE
      /\ known' = known \cup current
      /\ settled' = settled \cup named
      /\ ended' \in {ended, ended \cup gone}
      /\ ring' \in {ring, (ring \cup (current \ known) \cup (named \ settled)) \ gone}
      /\ ~primed => ring' = ring
      /\ UNCHANGED <<fileVars, leaseCwd, keyBySid, pidBySid, history>>
  BY DEF ScanSessions, Baseline
<1>2. current \subseteq Sessions \ unified /\ named \subseteq current
  BY DEF SessionDirs
<1>3. ring' \subseteq ring \cup current
  BY <1>1, <1>2
<1>4. TypeOK'
  BY <1>1, <1>2, <1>3 DEF ScanInv, TypeOK, fileVars, Keys
<1>5. FilesOK' /\ KeysOK' /\ HookKeysOnly'
  BY <1>1, <1>2, <1>3 DEF ScanInv, FilesOK, KeysOK, Key, HookKeysOnly, fileVars
<1>6. HistoryOK'
  <2>1. SUFFICES ASSUME NEW s \in history, s \notin unified
                 PROVE  /\ s \notin ring'
                        /\ meta[s] \in {"unnamed", "named"} => s \in known'
                        /\ meta[s] = "named" => s \in settled'
    BY <1>1 DEF ScanInv, HistoryOK, fileVars
  <2>2. s \in Sessions /\ s \notin torn /\ s \notin ring
    BY <2>1 DEF ScanInv, HistoryOK, TypeOK, Open
  <2>3. meta[s] \in {"unnamed", "named"} <=> s \in current
    BY <2>1, <2>2 DEF SessionDirs
  <2>4. meta[s] = "named" <=> s \in named
    BY <2>2, <2>3 DEF Named
  <2>5. primed => (s \in current => s \in known) /\ (s \in named => s \in settled)
    BY <2>1, <2>3, <2>4 DEF ScanInv, HistoryOK
  <2>6. s \notin ring'
    BY <1>1, <2>2, <2>5, <1>2
  <2> QED
    BY <1>1, <2>3, <2>4, <2>6
<1> QED
  BY <1>4, <1>5, <1>6 DEF ScanInv

LEMMA RestartKeeps ==
  ASSUME ScanInv, Restarts
  PROVE  ScanInv'
<1>1. /\ DOMAIN leaseCwd' = {} /\ DOMAIN keyBySid' = {}
      /\ \A S : /\ leaseCwd' \in [DOMAIN leaseCwd' -> S]
                /\ keyBySid' \in [DOMAIN keyBySid' -> S]
      /\ DOMAIN leaseCwd' = {keyBySid'[s].key : s \in DOMAIN keyBySid'}
  BY NothingKept DEF Restarts
<1>2. /\ phase' = "leases" /\ primed' = FALSE
      /\ known' = {} /\ ended' = {} /\ settled' = {} /\ pidBySid' = {} /\ ring' = {}
      /\ history' = {s \in Sessions : life[s] = "closed" /\ lock[s] # "bare"}
      /\ UNCHANGED fileVars
  BY DEF Restarts
<1>3. TypeOK'
  BY <1>1, <1>2 DEF ScanInv, TypeOK, fileVars, Keys
<1>4. FilesOK' /\ KeysOK' /\ HookKeysOnly' /\ HistoryOK'
  BY <1>1, <1>2 DEF ScanInv, FilesOK, KeysOK, HookKeysOnly, HistoryOK, fileVars
<1> QED
  BY <1>3, <1>4 DEF ScanInv

(***************************************************************************)
(* The theorems                                                            *)
(***************************************************************************)

LEMMA ScanStep ==
  ASSUME ~LockFirst, ScanInv, [Next]_vars
  PROVE  ScanInv'
<1>1. CASE Scan
  <2>1. PICK torn \in SUBSET Open :
          \/ \E tornLock \in SUBSET Open : \E old : ScanLeases(torn, tornLock, old)
          \/ ScanSessions(torn)
    BY <1>1 DEF Scan, ScanReading
  <2> QED
    BY <2>1, LeaseScanKeeps, DirScanKeeps
<1>2. CASE UNCHANGED vars
  BY <1>2 DEF vars, fileVars, scanVars, ScanInv, TypeOK, Keys, FilesOK, KeysOK, Key,
              HookKeysOnly, HistoryOK
<1> QED
  BY <1>1, <1>2, FilesKeep, RestartKeeps DEF Next

LEMMA ScanAlways ==
  ASSUME ~LockFirst
  PROVE  Spec => []ScanInv
<1>1. ScanInv /\ [Next]_vars => ScanInv'
  BY ScanStep
<1> QED
  BY <1>1, ScanInit, PTL DEF Spec

(* A unified session is never on the ring under another key than the one   *)
(* its hooks have, so that it is never there twice.                        *)
THEOREM NoSecondKey ==
  ASSUME ~LockFirst
  PROVE  Spec => []HookKeysOnly
<1>1. ScanInv => HookKeysOnly
  BY DEF ScanInv
<1> QED
  BY <1>1, ScanAlways, PTL

(* Sessions that were over when the watcher started are never started.     *)
THEOREM PastStaysDark ==
  ASSUME ~LockFirst
  PROVE  Spec => []HistoryStaysDark
<1>1. ScanInv => HistoryStaysDark
  BY DEF ScanInv, HistoryOK, HistoryStaysDark
<1> QED
  BY <1>1, ScanAlways, PTL

(* The lease scan ends no open session that it or the other scan has seen, *)
(* whatever it cannot read.                                                *)
THEOREM EndIsNeverGuessed ==
  ASSUME ~LockFirst
  PROVE  Spec => EndMeansGone
<1> DEFINE Meant == phase = "leases" => \A s \in Open \cap Seen : ~Ended(s)
<1>1. ASSUME ScanInv, [Next]_vars PROVE [Meant]_vars
  <2>1. SUFFICES ASSUME Next, phase = "leases", NEW s \in Open \cap Seen, ~Restarts
                 PROVE  Key(s) \notin ring \ ring'
    BY <1>1 DEF Ended
  <2>2. CASE Files
    BY <1>1, <2>2, FilesKeep
  <2>3. CASE Scan
    <3>1. PICK torn \in SUBSET Open :
            \/ \E tornLock \in SUBSET Open : \E old \in SUBSET (tornLock \cap MayBeOld) :
                 ScanLeases(torn, tornLock, old)
            \/ ScanSessions(torn)
      BY <2>3 DEF Scan, ScanReading
    <3>2. ~ScanSessions(torn)
      BY <2>1 DEF ScanSessions
    <3>3. PICK tornLock \in SUBSET Open :
            \E old \in SUBSET (tornLock \cap MayBeOld) : ScanLeases(torn, tornLock, old)
      BY <3>1, <3>2
    <3>4. PICK old \in SUBSET (tornLock \cap MayBeOld) : ScanLeases(torn, tornLock, old)
      BY <3>3
    <3>5. Reading(tornLock, old)
      BY <3>4 DEF Reading
    <3> QED
      BY <1>1, <3>4, <3>5, LeaseScanEnds
  <2> QED
    BY <2>1, <2>2, <2>3 DEF Next
<1>2. ScanInv /\ [Next]_vars => [Meant]_vars
  BY <1>1
<1> QED
  BY <1>2, ScanAlways, PTL DEF Spec, EndMeansGone
=============================================================================
