------------------------------ MODULE VibeScan ------------------------------
(***************************************************************************)
(* The two directory scans of the Vibe watcher (_scan_leases and           *)
(* _scan_sessions in notify/harness/vibe.py): how the files that Vibe      *)
(* sessions write, rewrite and leave behind become starts and ends.        *)
(*                                                                         *)
(* A legacy session has a session_* directory with its meta.json, a        *)
(* unified one (Vibe >= 2.25) a directory below unified/.  With leases     *)
(* (>= 2.25) a session holds a lock whose sidecar names its process.       *)
(* Files are read while they are written: each scan cannot read a meta.json *)
(* or a sidecar of some open sessions (torn, tornLock), as it pleases.     *)
(*                                                                         *)
(* The unified sessions run in one directory and so share a key; a legacy  *)
(* session is its own key, and stands for its directory too.  VibeWatcher  *)
(* has the calls of both scans one by one, beside hooks and sweeps; here a *)
(* scan is one action and what counts is what it reads.                    *)
(***************************************************************************)
EXTENDS FiniteSets, Functions

CONSTANTS Sessions,   \* sessions, by their id
          DirKey,     \* the key of the directory of the unified sessions
          Setups,     \* what Vibe may be: with leases, and which sessions unified
          LockFirst   \* can a unified lock be there before its directory?

ASSUME KeyAssumption ==
  /\ DirKey \notin Sessions
  /\ Setups \subseteq [leases : BOOLEAN, unified : SUBSET Sessions]
  /\ \A v \in Setups : v.unified # {} => v.leases
  /\ LockFirst \in BOOLEAN

VARIABLES
  unified,   \* the sessions of the unified harness
  leases,    \* Vibe keeps a lease directory
  life,      \* session -> new, open or closed
  lock,      \* session -> its lock file: none, bare (without a process id yet),
             \* stale (bare, and older than _LEASE_PID_GRACE_S) or pid
  meta       \* session -> its directory: none, empty (no meta.json that can
             \* be read), unnamed (one without a working directory) or named

fileVars == <<unified, leases, life, lock, meta>>

VARIABLES
  phase,      \* the scan that comes next
  primed,     \* _primed
  known,      \* _known
  ended,      \* _ended
  settled,    \* the directories whose _cwd_by_dir names one
  leaseCwd,   \* _lease_cwd: key -> was its directory sent
  keyBySid,   \* _lease_key_by_sid
  pidBySid,   \* _lease_pid_by_sid
  ring,       \* the keys that were started and not ended since
  history     \* the sessions that were over when the watcher started

scanVars == <<phase, primed, known, ended, settled, leaseCwd, keyBySid, pidBySid>>

vars == <<fileVars, scanVars, ring, history>>

Keys == Sessions \cup {DirKey}

Open == {s \in Sessions : life[s] = "open"}

Key(s) == IF s \in unified THEN DirKey ELSE s

(* What is kept of a lease or a directory is about one that was read.      *)
TypeOK ==
  /\ unified \subseteq Sessions /\ leases \in BOOLEAN
  /\ life \in [Sessions -> {"new", "open", "closed"}]
  /\ lock \in [Sessions -> {"none", "bare", "stale", "pid"}]
  /\ meta \in [Sessions -> {"none", "empty", "unnamed", "named"}]
  /\ phase \in {"leases", "dirs"} /\ primed \in BOOLEAN
  /\ ended \cup settled \subseteq known /\ known \subseteq Sessions \ unified
  /\ DOMAIN leaseCwd \subseteq Keys /\ leaseCwd \in [DOMAIN leaseCwd -> BOOLEAN]
  /\ keyBySid \in [DOMAIN keyBySid -> [key : Keys, cwd : BOOLEAN]]
  /\ pidBySid \subseteq DOMAIN lock
  /\ DOMAIN leaseCwd = {keyBySid[s].key : s \in DOMAIN keyBySid}
  /\ ring \subseteq Keys /\ history \subseteq Sessions

NothingScanned ==
  /\ phase = "leases" /\ primed = FALSE
  /\ known = {} /\ ended = {} /\ settled = {}
  /\ leaseCwd = [k \in {} |-> FALSE]
  /\ keyBySid = [s \in {} |-> FALSE]
  /\ pidBySid = {}
  /\ ring = {}

Init ==
  /\ \E v \in Setups : leases = v.leases /\ unified = v.unified
  /\ life = [s \in Sessions |-> "new"]
  /\ lock = [s \in Sessions |-> "none"]
  /\ meta = [s \in Sessions |-> "none"]
  /\ NothingScanned
  /\ history = {}

(***************************************************************************)
(* The sessions and their files                                            *)
(***************************************************************************)

Opens(s) ==
  /\ life[s] = "new"
  /\ life' = [life EXCEPT ![s] = "open"]
  /\ lock' = [lock EXCEPT ![s] = IF leases THEN "bare" ELSE "none"]
  /\ meta' = [meta EXCEPT ![s] = IF s \in unified /\ ~LockFirst THEN "empty" ELSE @]
  /\ UNCHANGED <<unified, leases, scanVars, ring, history>>

NamesProcess(s) ==
  /\ s \in Open
  /\ lock[s] = "bare"
  /\ lock' = [lock EXCEPT ![s] = "pid"]
  /\ UNCHANGED <<unified, leases, life, meta, scanVars, ring, history>>

(* The watcher looks every 2 s, so one of its looks within the 30 s finds  *)
(* the process id of a session that goes on: only what a crash leaves bare *)
(* gets stale.                                                             *)
GracePasses(s) ==
  /\ life[s] = "closed"
  /\ lock[s] = "bare"
  /\ lock' = [lock EXCEPT ![s] = "stale"]
  /\ UNCHANGED <<unified, leases, life, meta, scanVars, ring, history>>

(* The working directory may be named by the first save or a later one.    *)
Saves(s, how) ==
  /\ s \in Open
  /\ meta[s] # "named"
  /\ meta' = [meta EXCEPT ![s] = how]
  /\ UNCHANGED <<unified, leases, life, lock, scanVars, ring, history>>

(* A clean exit releases the lock.                                         *)
Exits(s) ==
  /\ s \in Open
  /\ life' = [life EXCEPT ![s] = "closed"]
  /\ lock' = [lock EXCEPT ![s] = "none"]
  /\ UNCHANGED <<unified, leases, meta, scanVars, ring, history>>

(* A crash leaves every file as it is, or for ever unreadable.             *)
Crashes(s) ==
  /\ s \in Open
  /\ life' = [life EXCEPT ![s] = "closed"]
  /\ lock' \in {lock, [lock EXCEPT ![s] = IF @ = "pid" THEN "bare" ELSE @]}
  /\ meta' \in {meta, [meta EXCEPT ![s] = IF @ = "none" THEN @ ELSE "empty"]}
  /\ UNCHANGED <<unified, leases, scanVars, ring, history>>

(* The directory of a session that is over is cleaned up some time later.  *)
Deletes(s) ==
  /\ life[s] = "closed"
  /\ lock[s] # "bare"
  /\ meta[s] # "none"
  /\ meta' = [meta EXCEPT ![s] = "none"]
  /\ UNCHANGED <<unified, leases, life, lock, scanVars, ring, history>>

(***************************************************************************)
(* Tier 2: the lease scan                                                  *)
(***************************************************************************)

(* Does meta.json name the working directory?                              *)
Named(s, torn) == meta[s] = "named" /\ s \notin torn

(* Mutant: a process id is not remembered.                                 *)
LeasePidForgetful(s, tornLock) == lock[s] = "pid" /\ s \notin tornLock

(* The process id of a lock is read, or remembered from an earlier scan.   *)
LeasePid(s, tornLock) == (lock[s] = "pid" /\ s \notin tornLock) \/ s \in pidBySid

(* Mutant: whether the holder lives is not asked.                          *)
LiveLeasesByFile(tornLock, old) ==
  {s \in Sessions :
     /\ lock[s] \notin {"none", "stale"}
     /\ LeasePid(s, tornLock) \/ s \notin old}

(* _live_leases: the holder is alive, or there is none yet and the lock is *)
(* fresh.                                                                  *)
LiveLeases(tornLock, old) ==
  {s \in Sessions :
     /\ lock[s] \notin {"none", "stale"}
     /\ IF LeasePid(s, tornLock) THEN s \in Open ELSE s \notin old}

(* is_unified of _resolve_lease: there is a directory below unified/.      *)
IsUnified(s) == s \in unified /\ meta[s] # "none"

(* Mutant: a unified lease is put off whatever its meta.json names.        *)
DefersAlways(s, torn) == IsUnified(s) /\ s \notin DOMAIN keyBySid

Defers(s, torn) == IsUnified(s) /\ ~Named(s, torn) /\ s \notin DOMAIN keyBySid

(* Mutant: the key of a lease is not remembered.                           *)
ResolveForgetful(s, torn) ==
  [key |-> IF IsUnified(s) /\ Named(s, torn) THEN DirKey ELSE s, cwd |-> Named(s, torn)]

(* The key and the directory of a lease that is not put off: a unified one *)
(* that cannot be read now keeps what it was resolved to before.           *)
ResolveLease(s, torn) ==
  IF IsUnified(s) /\ ~Named(s, torn) /\ s \in DOMAIN keyBySid
    THEN keyBySid[s]
    ELSE [key |-> IF IsUnified(s) THEN DirKey ELSE s, cwd |-> Named(s, torn)]

(* _scan_leases: vanished keys end, new ones start, and one whose          *)
(* directory has only just been named starts once more.                    *)
ScanLeases(torn, tornLock, old) ==
  LET seen  == {s \in LiveLeases(tornLock, old) : ~Defers(s, torn)}
      found == [s \in seen |-> ResolveLease(s, torn)]
      live  == {found[s].key : s \in seen}
      cwd   == {found[s].key : s \in {r \in seen : found[r].cwd}}
      sent  == {k \in DOMAIN leaseCwd : leaseCwd[k]}
      gone  == DOMAIN leaseCwd \ live
      fresh == live \ DOMAIN leaseCwd
  IN  /\ phase = "leases"
      /\ phase' = "dirs"
      /\ IF leases
           THEN /\ pidBySid' = {s \in LiveLeases(tornLock, old) : LeasePid(s, tornLock)}
                /\ keyBySid' = found
                /\ leaseCwd' = [k \in live |-> k \in cwd \cup sent]
                /\ ring' = (ring \ gone) \cup fresh \cup (cwd \ sent)
           ELSE UNCHANGED <<pidBySid, keyBySid, leaseCwd, ring>>
      /\ UNCHANGED <<fileVars, primed, known, ended, settled, history>>

(***************************************************************************)
(* Tier 1: the scan of the session directories                             *)
(***************************************************************************)

(* _iter_session_dirs: the session directories whose meta.json is read.    *)
SessionDirs(torn) ==
  {s \in Sessions \ (unified \cup torn) : meta[s] \in {"unnamed", "named"}}

(* Mutant: the first scan is not a baseline.                               *)
BaselineNever == FALSE

Baseline == ~primed

(* _scan_sessions: a new directory starts its session, once more when its  *)
(* working directory is named, and one that is not found any more ends it  *)
(* for good.                                                               *)
ScanSessions(torn) ==
  LET current == SessionDirs(torn)
      named   == {s \in current : Named(s, torn)}
      gone    == (known \ ended) \ current
  IN  /\ phase = "dirs"
      /\ phase' = "leases"
      /\ primed' = TRUE
      /\ known' = known \cup current
      /\ settled' = settled \cup named
      /\ IF Baseline
           THEN UNCHANGED <<ended, ring>>
           ELSE /\ ended' = ended \cup gone
                /\ ring' = (ring \cup (current \ known) \cup (named \ settled)) \ gone
      /\ UNCHANGED <<fileVars, leaseCwd, keyBySid, pidBySid, history>>

(* The broker is restarted, and the watcher with it.                       *)
Restarts ==
  /\ phase' = "leases" /\ primed' = FALSE
  /\ known' = {} /\ ended' = {} /\ settled' = {}
  /\ leaseCwd' = [k \in {} |-> FALSE]
  /\ keyBySid' = [s \in {} |-> FALSE]
  /\ pidBySid' = {}
  /\ ring' = {}
  /\ history' = {s \in Sessions : life[s] = "closed" /\ lock[s] # "bare"}
  /\ UNCHANGED fileVars

Files ==
  \E s \in Sessions :
    \/ Opens(s) \/ NamesProcess(s) \/ GracePasses(s)
    \/ \E how \in {"unnamed", "named"} : Saves(s, how)
    \/ Exits(s) \/ Crashes(s) \/ Deletes(s)

(* A lock that was seen is old only when its process id was read in time.  *)
MayBeOld == pidBySid \cup (Sessions \ DOMAIN keyBySid)

ScanReading(read) ==
  \E torn \in SUBSET (Open \ read) :
    \/ \E tornLock \in SUBSET (Open \ read) :
         \E old \in SUBSET (tornLock \cap MayBeOld) : ScanLeases(torn, tornLock, old)
    \/ ScanSessions(torn)

Scan == ScanReading({})

Next == Files \/ Scan \/ Restarts

(* The watcher goes on, a rewrite does not hit every look that the lease   *)
(* scan takes at a file, and a lock that is left gets old.                 *)
Fairness ==
  /\ WF_vars(Scan)
  /\ \A s \in Sessions :
       /\ SF_vars(phase = "leases" /\ ScanReading({s}))
       /\ WF_vars(GracePasses(s))

Spec == Init /\ [][Next]_vars

FairSpec == Spec /\ Fairness

(***************************************************************************)
(* Safety                                                                  *)
(***************************************************************************)

Seen == DOMAIN keyBySid \cup known

Ended(s) == Key(s) \in ring \ ring' /\ ~Restarts

(* The lease scan ends the segment of no open session that was seen:       *)
(* neither a sidecar or a meta.json that cannot be read, nor the exit of   *)
(* another session in the same directory does it.                          *)
EndMeansGone == [][phase = "leases" => \A s \in Open \cap Seen : ~Ended(s)]_vars

(* The scan of the directories does not, either: only a directory that     *)
(* genuinely disappeared ends its session (the comment in _scan_sessions). *)
OnlyGoneDirsEnd == [][phase = "dirs" => \A s \in Open \cap Seen : ~Ended(s)]_vars

(* A unified session is on the ring under the key its hooks have and no    *)
(* other: no duplicate under its lease's id while its files are incomplete *)
(* or unreadable.                                                          *)
HookKeysOnly == ring \cap unified = {}

(* After a restart of the broker the sessions of the past stay dark: what  *)
(* was over then is started by neither scan, whatever its files look like  *)
(* and however often they are read.                                        *)
HistoryStaysDark == \A s \in history \ unified : s \notin ring

(* Where leases tell when a session ends, the scan of the directories      *)
(* starts none that is over (the precise signal, in the comment of         *)
(* VibeWatcher).                                                           *)
OverStaysOver ==
  [][leases /\ phase = "dirs" =>
       \A s \in Sessions \ ring : life[s] = "closed" => s \notin ring']_vars

(***************************************************************************)
(* Liveness                                                                *)
(***************************************************************************)

(* The ring follows the leases: a directory in which an open session has   *)
(* named its process and its directory gets on it, unless they end first,  *)
(* and one in which every session is over leaves it, crashed sessions with *)
(* or without a process id in their locks included.                        *)
Settled == {s \in unified \cap Open : lock[s] = "pid" /\ meta[s] = "named"}

OpenIsSeen == Settled # {} ~> Settled = {} \/ DirKey \in ring

ClosedIsEnded ==
  unified \cap Open = {} ~> DirKey \notin ring \/ unified \cap Open # {}
=============================================================================
