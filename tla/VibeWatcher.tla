----------------------------- MODULE VibeWatcher -----------------------------
(***************************************************************************)
(* Mistral Vibe inside the broker (notify/harness/vibe.py): the watcher    *)
(* thread, which turns session leases and session directories into starts, *)
(* ends and heartbeats and infers a pending approval from a tool call that *)
(* does not come back, runs beside the event loop, which handles the hooks *)
(* of the same sessions.  The threads share two objects, each behind a     *)
(* lock of its own: the broker's table and the watcher's timers            *)
(* (_pending_tool).  Every locked section is one action, so that the       *)
(* threads interleave between them as they can in the code.                *)
(*                                                                         *)
(* A run is one Vibe session; it stands for the process that holds its     *)
(* lease.  Sids are the keys of the table: unified runs of one directory   *)
(* share a key (_synth_session_key), a legacy run has its own, and a       *)
(* session_* directory.  What the lease scan cannot read it remembers, so  *)
(* that VibeScan has its unreadable files; the scan of the directories     *)
(* remembers nothing, and meets them here.  A tick is the watcher's        *)
(* period, and the threads get through within one.                         *)
(***************************************************************************)
EXTENDS EventHandling

CONSTANTS KeyOf,        \* run -> the key of its segment
          Unified,      \* the runs of the unified harness
          HasLeases,    \* Vibe >= 2.25: there is a lease directory
          HitlTimeout,  \* HITL_TIMEOUT_S, in ticks
          Nothing,      \* a thread is between two calls of handle_event
          MaxBirths     \* bound: registrations

Runs == HostPids

Legacy == Runs \ Unified

ASSUME KeyAssumption ==
  /\ KeyOf \in [Runs -> Sids]
  /\ Unified \subseteq Runs
  /\ \A r, q \in Runs : r # q /\ KeyOf[r] = KeyOf[q] => {r, q} \subseteq Unified

ASSUME TimeoutAssumption ==
  HitlTimeout \in Nat /\ MaxBirths \in Nat /\ HasLeases \in BOOLEAN

VARIABLES
  table,    \* Broker._allocator
  timers,   \* _pending_tool: key -> ticks since its last pre_tool
  hook,     \* the hook the event loop handles, between the two locks
  phase,    \* where the watcher is in its pass
  ending,   \* the key the watcher ends, and how far it is
  leases,   \* _lease_cwd: key -> was its directory sent
  leased,   \* _lease_key_by_sid: the runs whose lease the last scan resolved
  slots,    \* live_keys: the keys this pass found, each with one of its runs
  gone,     \* the keys this pass has still to end
  fresh,    \* ... to start
  still,    \* ... to heartbeat
  late,     \* the keys whose timer expired and that are not reported yet
  primed,   \* _primed
  known,    \* _known: the legacy runs whose directory was found
  ended,    \* _ended
  settled,  \* the runs whose _cwd_by_dir names one
  unread,   \* the runs whose meta.json this pass could not read
  appeared, \* the runs whose directory this pass has still to start
  renamed,  \* ... to start once more, as its working directory is named
  missing,  \* ... to end
  open,     \* the runs whose session is open
  closed,   \* the runs whose session is over
  saved,    \* the legacy runs that have a directory with a meta.json
  named,    \* the runs whose meta.json names their working directory
  busy      \* the runs whose last pre_tool was followed by no post_tool and
            \* no turn end

passVars    == <<slots, gone, fresh, still, late>>
dirVars     == <<primed, known, ended, settled, unread, appeared, renamed, missing>>
sessionVars == <<open, closed, saved, named, busy>>
watcherVars == <<phase, ending, leases, leased, passVars, dirVars>>

vars == <<table, timers, hook, watcherVars, sessionVars>>

HookVerbs  == {"pre_tool", "post_tool:success", "post_tool:failure",
               "post_tool:cancelled", "post_agent"}

(* Timers never run past their timeout by more than a period, and what a   *)
(* pass has still to do is about keys of the table.                        *)
TypeOK ==
  /\ IsTableOf(table, SessionRecord)
  /\ IsDict(timers, Sids, 0 .. HitlTimeout + 1)
  /\ hook = Nothing \/ hook \in [key : Sids, verb : HookVerbs, pid : Runs \cup {NoPid}]
  /\ phase \in {"asleep", "leases", "dirs", "checked"}
  /\ ending = Nothing \/ ending \in [key : Sids, step : {"free", "clear"}]
  /\ IsDict(leases, Sids, BOOLEAN)
  /\ leased \subseteq Runs
  /\ IsDict(slots, Sids, Runs)
  /\ gone \cup fresh \cup still \cup late \subseteq Sids
  /\ primed \in BOOLEAN
  /\ ended \cup settled \subseteq known /\ known \cup saved \cup unread \subseteq Legacy
  /\ appeared \cup renamed \cup missing \subseteq known
  /\ open \cup closed \cup named \cup busy \subseteq Runs
  /\ open \cap closed = {}

NoEntries == [k \in {} |-> 0]

Init ==
  /\ table = EmptyTable
  /\ timers = NoEntries
  /\ hook = Nothing
  /\ phase = "asleep"
  /\ ending = Nothing
  /\ leases = NoEntries
  /\ leased = {}
  /\ slots = NoEntries
  /\ gone = {} /\ fresh = {} /\ still = {} /\ late = {}
  /\ primed = FALSE /\ known = {} /\ ended = {} /\ settled = {} /\ unread = {}
  /\ appeared = {} /\ renamed = {} /\ missing = {}
  /\ open = {} /\ closed = {} /\ saved = {} /\ named = {} /\ busy = {}

(***************************************************************************)
(* The sessions                                                            *)
(***************************************************************************)

SessionOpens(r) ==
  /\ r \notin open \cup closed
  /\ open' = open \cup {r}
  /\ UNCHANGED <<table, timers, hook, watcherVars, closed, saved, named, busy>>

(* A save of a legacy session that does not name the working directory.    *)
MetaLands(r) ==
  /\ r \in (open \cap Legacy) \ saved
  /\ saved' = saved \cup {r}
  /\ UNCHANGED <<table, timers, hook, watcherVars, open, closed, named, busy>>

(* meta.json lands after the lock.                                         *)
MetaNames(r) ==
  /\ r \in open \ named
  /\ named' = named \cup {r}
  /\ saved' = saved \cup ({r} \cap Legacy)
  /\ UNCHANGED <<table, timers, hook, watcherVars, open, closed, busy>>

(* A clean exit releases the lease, a crash leaves it with a dead holder:  *)
(* to the watcher both are a lease that is no longer live.                 *)
SessionCloses(r) ==
  /\ r \in open
  /\ open' = open \ {r}
  /\ closed' = closed \cup {r}
  /\ UNCHANGED <<table, timers, hook, watcherVars, saved, named, busy>>

(* The directory of a session that is over is cleaned up, or was left with *)
(* half a meta.json by a crash.                                            *)
DirVanishes(r) ==
  /\ r \in closed \cap saved
  /\ saved' = saved \ {r}
  /\ UNCHANGED <<table, timers, hook, watcherVars, open, closed, named, busy>>

(***************************************************************************)
(* The event loop                                                          *)
(***************************************************************************)

(* Mutant: only a post_tool drops the timer, so a denied call keeps it.    *)
FeedsToolsOnly(verb, key) ==
  timers' = CASE verb = "pre_tool" -> Put(timers, key, 0)
              [] verb \in {"post_agent", "end"} -> timers
              [] OTHER -> Drop(timers, {key})

(* handle_event before it takes the broker's lock: a pre_tool starts the   *)
(* timer of its key, everything that ends a call or a turn drops it.       *)
Feeds(verb, key) ==
  timers' = IF verb = "pre_tool" THEN Put(timers, key, 0) ELSE Drop(timers, {key})

(* The hooks pass --pid $PPID, which a shell expands to the process of     *)
(* Vibe; the unified harness has no shell and led-report drops it.         *)
HookPid(r) == IF r \in Unified THEN NoPid ELSE r

(* A unified run has saved its meta.json before its first tool call.       *)
HookArrives(r, verb) ==
  /\ hook = Nothing
  /\ r \in open
  /\ r \in Unified => r \in named
  /\ KeyOf[r] \in Live(table) \/ table.seq < MaxBirths
  /\ IF verb = "pre_tool"
       THEN r \notin busy /\ busy' = busy \cup {r}
       ELSE (r \in busy \/ verb = "post_agent") /\ busy' = busy \ {r}
  /\ Feeds(verb, KeyOf[r])
  /\ hook' = [key |-> KeyOf[r], verb |-> verb, pid |-> HookPid(r)]
  /\ UNCHANGED <<table, watcherVars, open, closed, saved, named>>

(* handle_event under the broker's lock.                                   *)
HookApplies ==
  /\ hook # Nothing
  /\ table' = HandleEvent(table, hook.key, hook.verb, hook.pid, NoCwd, open)
  /\ hook' = Nothing
  /\ UNCHANGED <<timers, watcherVars, sessionVars>>

Sweep ==
  /\ hook = Nothing
  /\ table' = Swept(table, open)
  /\ UNCHANGED <<timers, hook, watcherVars, sessionVars>>

(***************************************************************************)
(* The watcher thread                                                      *)
(***************************************************************************)

(* _scan_leases up to its callbacks.  A unified lease whose directory is   *)
(* not named yet is deferred; of the runs that share a key one gives the   *)
(* slot its pid.                                                           *)
ScanLeases ==
  LET seen   == IF HasLeases THEN open \ (Unified \ named) ELSE {}
      live   == {KeyOf[r] : r \in seen}
      before == DOMAIN leases
  IN  /\ phase = "asleep"
      /\ phase' = "leases"
      /\ \E holder \in [live -> seen] :
           /\ \A k \in live : KeyOf[holder[k]] = k
           /\ slots' = holder
      /\ leased' = seen
      /\ gone' = before \ live
      /\ fresh' = live \ before
      /\ still' = live \cap before
      /\ UNCHANGED <<table, timers, hook, ending, leases, late, dirVars, sessionVars>>

(* A vanished key.  The end goes through handle_event, which drops the     *)
(* timer and then frees the segment; the watcher drops the timer again.    *)
EndKey(k) ==
  /\ phase = "leases"
  /\ ending = Nothing
  /\ k \in gone
  /\ gone' = gone \ {k}
  /\ leases' = Drop(leases, {k})
  /\ Feeds("end", k)
  /\ ending' = [key |-> k, step |-> "free"]
  /\ UNCHANGED <<table, hook, phase, leased, slots, fresh, still, late, dirVars,
                 sessionVars>>

EndFrees ==
  /\ ending # Nothing
  /\ ending.step = "free"
  /\ table' = HandleEvent(table, ending.key, "end", NoPid, NoCwd, open)
  /\ ending' = [ending EXCEPT !.step = "clear"]
  /\ UNCHANGED <<timers, hook, phase, leases, leased, passVars, dirVars, sessionVars>>

EndClears ==
  /\ ending # Nothing
  /\ ending.step = "clear"
  /\ timers' = Drop(timers, {ending.key})
  /\ ending' = Nothing
  /\ UNCHANGED <<table, hook, phase, leases, leased, passVars, dirVars, sessionVars>>

Started(t, k) == HandleEvent(t, k, "start", slots[k], NoCwd, open)

Beaten(t, k) ==
  IF k \in Live(t) THEN HeartbeatKnown(t, k, slots[k], open) ELSE t

(* A key that was not live in the last pass.                               *)
StartKey(k) ==
  /\ phase = "leases"
  /\ ending = Nothing /\ gone = {}
  /\ k \in fresh
  /\ fresh' = fresh \ {k}
  /\ leases' = Put(leases, k, slots[k] \in named)
  /\ table' = Started(table, k)
  /\ UNCHANGED <<timers, hook, phase, ending, leased, slots, gone, still, late,
                 dirVars, sessionVars>>

(* A key that is still live is heartbeated, after a second start when its  *)
(* directory has only just been named.                                     *)
BeatKey(k) ==
  LET settles == slots[k] \in named /\ ~leases[k] IN
  /\ phase = "leases"
  /\ ending = Nothing /\ gone = {} /\ fresh = {}
  /\ k \in still
  /\ still' = still \ {k}
  /\ leases' = Put(leases, k, leases[k] \/ settles)
  /\ table' = Beaten(IF settles THEN Started(table, k) ELSE table, k)
  /\ UNCHANGED <<timers, hook, phase, ending, leased, slots, gone, fresh, late,
                 dirVars, sessionVars>>

(* _scan_sessions up to its callbacks: it reads every directory once, but  *)
(* none of a meta.json that is being rewritten (torn).  The first scan is  *)
(* a baseline.                                                             *)
ScanDirs(torn) ==
  LET current == saved \ torn
      names   == (current \cap named) \ settled
  IN  /\ phase = "leases"
      /\ ending = Nothing /\ gone = {} /\ fresh = {} /\ still = {}
      /\ phase' = "dirs"
      /\ slots' = NoEntries
      /\ primed' = TRUE
      /\ known' = known \cup current
      /\ settled' = settled \cup names
      /\ unread' = torn
      /\ appeared' = IF primed THEN current \ known ELSE {}
      /\ renamed' = IF primed THEN names \cap known ELSE {}
      /\ missing' = IF primed THEN (known \ ended) \ current ELSE {}
      /\ UNCHANGED <<table, timers, hook, ending, leases, leased, gone, fresh, still,
                     late, ended, sessionVars>>

(* _fire_start.  The new directories come before those whose working       *)
(* directory has only just been named.                                     *)
StartDir(r) ==
  /\ phase = "dirs"
  /\ r \in appeared \/ (appeared = {} /\ r \in renamed)
  /\ appeared' = appeared \ {r}
  /\ renamed' = renamed \ {r}
  /\ table' = HandleEvent(table, KeyOf[r], "start", NoPid, NoCwd, open)
  /\ UNCHANGED <<timers, hook, phase, ending, leases, leased, passVars, primed, known,
                 ended, settled, unread, missing, sessionVars>>

(* _fire_end_dir: a directory that is not found any more ends its session, *)
(* in the steps of a lease that has vanished, and for good.                *)
EndDir(r) ==
  /\ phase = "dirs"
  /\ ending = Nothing /\ appeared = {} /\ renamed = {}
  /\ r \in missing
  /\ missing' = missing \ {r}
  /\ ended' = ended \cup {r}
  /\ Feeds("end", KeyOf[r])
  /\ ending' = [key |-> KeyOf[r], step |-> "free"]
  /\ UNCHANGED <<table, hook, phase, leases, leased, passVars, primed, known, settled,
                 unread, appeared, renamed, sessionVars>>

(* Mutant: an expired timer is dropped and not reported.                   *)
CheckTimeoutsDropsFirst ==
  /\ phase = "dirs"
  /\ ending = Nothing /\ appeared = {} /\ renamed = {} /\ missing = {}
  /\ phase' = "checked"
  /\ timers' = Drop(timers, {k \in DOMAIN timers : timers[k] > HitlTimeout})
  /\ unread' = {}
  /\ UNCHANGED <<table, hook, ending, leases, leased, passVars, primed, known, ended,
                 settled, appeared, renamed, missing, sessionVars>>

(* _check_hitl_timeouts, under the watcher's lock ...                      *)
CheckTimeouts ==
  LET expired == {k \in DOMAIN timers : timers[k] > HitlTimeout} IN
  /\ phase = "dirs"
  /\ ending = Nothing /\ appeared = {} /\ renamed = {} /\ missing = {}
  /\ phase' = "checked"
  /\ timers' = Drop(timers, expired)
  /\ late' = expired
  /\ unread' = {}
  /\ UNCHANGED <<table, hook, ending, leases, leased, slots, gone, fresh, still, primed,
                 known, ended, settled, appeared, renamed, missing, sessionVars>>

(* ... and, after it is released, the report of one expired key.           *)
InferApproval(k) ==
  /\ phase = "checked"
  /\ k \in late
  /\ late' = late \ {k}
  /\ table' = HandleEvent(table, k, "hitl_inferred", NoPid, NoCwd, open)
  /\ UNCHANGED <<timers, hook, phase, ending, leases, leased, slots, gone, fresh,
                 still, dirVars, sessionVars>>

(* One period: the watcher wakes up again.  The sweep evicts a session     *)
(* before it has been stale for a tick.                                    *)
Tick ==
  /\ phase = "checked" /\ late = {}
  /\ hook = Nothing
  /\ Stale(table) = {}
  /\ phase' = "asleep"
  /\ table' = Elapse(table)
  /\ timers' = [k \in DOMAIN timers |-> timers[k] + 1]
  /\ UNCHANGED <<hook, ending, leases, leased, passVars, dirVars, sessionVars>>

Sessions ==
  \E r \in Runs :
    \/ SessionOpens(r) \/ MetaLands(r) \/ MetaNames(r)
    \/ SessionCloses(r) \/ DirVanishes(r)
    \/ \E verb \in HookVerbs : HookArrives(r, verb)

Pass ==
  \/ ScanLeases
  \/ EndFrees
  \/ EndClears
  \/ CheckTimeouts
  \/ \E k \in Sids : EndKey(k) \/ StartKey(k) \/ BeatKey(k) \/ InferApproval(k)
  \/ \E torn \in SUBSET (open \cap saved) : ScanDirs(torn)
  \/ \E r \in Legacy : StartDir(r) \/ EndDir(r)

Next ==
  \/ Sessions
  \/ HookApplies
  \/ Sweep
  \/ Pass
  \/ Tick

(* Neither thread stops and time passes.  The event loop serves its sweep  *)
(* timer between two hooks however many hooks arrive, and no number of     *)
(* hooks stops the clock, hence the strong fairness.                       *)
Fairness ==
  WF_vars(HookApplies) /\ WF_vars(Pass) /\ SF_vars(Sweep) /\ SF_vars(Tick)

Spec == Init /\ [][Next]_vars

FairSpec == Spec /\ Fairness

(***************************************************************************)
(* Safety                                                                  *)
(***************************************************************************)

Unanswered(k) == \E r \in busy : KeyOf[r] = k

IsOpen(k) == \E r \in open : KeyOf[r] = k

(* A timer runs only for a tool call that is neither answered nor followed *)
(* by the end of its turn: a denied tool, which fires no post_tool, leaves *)
(* no timer behind that could turn the finished session amber.             *)
TimersAreCalls == \A k \in DOMAIN timers : Unanswered(k)

(* An inference never creates a session: whatever a timer and the watcher  *)
(* still hold for a session that is gone, no session enters the table as   *)
(* one that waits for an approval.                                         *)
InferenceNeverRegisters ==
  [][\A k \in Live(table') \ Live(table) :
       table'.sessions[k].state # "AwaitingApproval"]_vars

AgesOutAtRest(k) == k \in Stale(table) /\ table.sessions[k].state \in RESTING_STATES

Unread(k) == \E r \in unread : KeyOf[r] = k

(* The watcher is at the end of a session whose meta.json it could not read*)
(* in this pass.                                                           *)
EndsUnread(k) == ending # Nothing /\ ending.key = k /\ Unread(k)

(* The segment of an open session leaves the ring in two ways only: it     *)
(* ages out at rest, or the scan of the directories could not read its     *)
(* meta.json at this look (a legacy session; the code then ends it).  No   *)
(* heartbeat comes too late for a turn in flight, and no other end and no  *)
(* dead process takes the segment away, whatever the threads are at.       *)
OpenSessionKeepsSegment ==
  [][\A k \in Live(table) \ Live(table') :
       IsOpen(k) => AgesOutAtRest(k) \/ EndsUnread(k)]_vars

(* A segment shared by unified sessions of one directory ends only when    *)
(* the last lease is released, ageing out apart (docs/protocol.md and the  *)
(* comment in VibeWatcher.__init__).                                       *)
LastLeaseEnds ==
  [][\A k \in Live(table) \ Live(table') :
       (\E r \in open \cap leased : KeyOf[r] = k) => k \in Stale(table)]_vars

(* An inferred approval is shown only while a tool call is unanswered, or  *)
(* while the hook that answers it is being handled (the comment on the     *)
(* tracker in handle_event).                                               *)
AmberMeansUnanswered ==
  \A k \in Live(table) :
    table.sessions[k].state = "AwaitingApproval" =>
      Unanswered(k) \/ (hook # Nothing /\ hook.key = k)

(***************************************************************************)
(* Liveness                                                                *)
(***************************************************************************)

Stalled(r) == r \in open \cap busy

(* A tool call that never comes back is shown as a pending approval,       *)
(* unless it is answered or its session closes first.                      *)
StalledToolShows ==
  \A r \in Runs :
    Stalled(r) ~> \/ ~Stalled(r)
                  \/ /\ KeyOf[r] \in Live(table)
                     /\ table.sessions[KeyOf[r]].state = "AwaitingApproval"
=============================================================================
