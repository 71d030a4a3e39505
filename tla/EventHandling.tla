--------------------------- MODULE EventHandling ---------------------------
(***************************************************************************)
(* What Broker.handle_event and Broker._handle_heartbeat                   *)
(* (notify/broker/server.py) do to the session table while they hold the   *)
(* broker's lock, as operators from a table to a table.                    *)
(*                                                                         *)
(* A session record keeps, of SessionRecord, the fields that some branch   *)
(* reads or the ring shows.  The harness name is left out: it is fixed at  *)
(* registration and only labels the segment.                               *)
(***************************************************************************)
EXTENDS SegmentAllocator

CONSTANTS HostPids,      \* process ids that can exist in the broker's namespace
          ForeignPids,   \* process ids of harnesses in another namespace
          NoPid,         \* the report carries no process id (0)
          Cwds,          \* working directories
          NoCwd          \* the report names no directory ("")

ASSUME PidAssumption ==
  HostPids \cap ForeignPids = {} /\ NoPid \notin HostPids \cup ForeignPids

ASSUME CwdAssumption == NoCwd \notin Cwds

Pids     == HostPids \cup ForeignPids \cup {NoPid}
CwdNames == Cwds \cup {NoCwd}

NoSegment == -1

SessionRecord ==
  [state : State \ {"Offline"}, age : Nat, pid : Pids, pidAliveSeen : BOOLEAN,
   wakeup : BOOLEAN, cwd : CwdNames, segment : Slots]

(* _probe_pid: the pid is recorded, and its having been seen alive is      *)
(* latched when it resolves in the broker's namespace.                     *)
Probe(rec, pid, alive) ==
  IF pid = NoPid
    THEN rec
    ELSE [rec EXCEPT !.pid = pid, !.pidAliveSeen = @ \/ pid \in alive]

NewRecord(state, wakeup, cwd) ==
  [state |-> state, age |-> 0, pid |-> NoPid, pidAliveSeen |-> FALSE,
   wakeup |-> wakeup, cwd |-> cwd, segment |-> NoSegment]

Resolved(t, s, verb) ==
  ResolveWakeup(verb, VerbToState(verb), s \in Live(t) /\ t.sessions[s].wakeup)

(* A report other than start and end from a session on the table.  The     *)
(* record is updated in place: it keeps its directory and its segment.     *)
ReportKnown(t, s, verb, pid, alive) ==
  LET effect == Resolved(t, s, verb)
      t1 == Update(t, s, NewRecord(effect.state, effect.wakeup, NoCwd))
  IN  SetRecord(t1, s, Probe([t1.sessions[s] EXCEPT !.wakeup = effect.wakeup],
                             pid, alive))

(* Mutant: an inferred approval registers like any other report.           *)
ReportNewInferred(t, s, verb, pid, cwd, alive) ==
  LET effect == Resolved(t, s, verb) IN
  Register(t, s, Probe(NewRecord(effect.state, effect.wakeup, cwd), pid, alive))

(* A report from a session that is not on the table registers it, whatever *)
(* the verb: only an inferred approval never creates a session.            *)
ReportNew(t, s, verb, pid, cwd, alive) ==
  LET effect == Resolved(t, s, verb) IN
  IF verb = "hitl_inferred"
    THEN t
    ELSE Register(t, s, Probe(NewRecord(effect.state, effect.wakeup, cwd),
                              pid, alive))

(* A start from a session on the table keeps its state, ends a wake-up     *)
(* wait and names a directory that was not known.                          *)
StartKnown(t, s, pid, cwd, alive) ==
  LET started == [t.sessions[s] EXCEPT !.age = 0, !.wakeup = FALSE,
                                       !.cwd = IF @ = NoCwd THEN cwd ELSE @]
  IN  SetRecord(t, s, Probe(started, pid, alive))

(* Mutants: a heartbeat extends every session, or only a call to action.   *)
HeartbeatExtendsAll(t, s, pid, alive) ==
  SetRecord(t, s, Probe([t.sessions[s] EXCEPT !.age = 0], pid, alive))

HeartbeatExtendsCTA(t, s, pid, alive) ==
  LET rec    == t.sessions[s]
      beaten == IF rec.state \in CTA_STATES THEN [rec EXCEPT !.age = 0] ELSE rec
  IN  SetRecord(t, s, Probe(beaten, pid, alive))

(* _handle_heartbeat: a sign of life, which protects a turn in flight, a   *)
(* pending call to action or an armed wake-up, and nothing else.           *)
HeartbeatKnown(t, s, pid, alive) ==
  LET rec    == t.sessions[s]
      beaten == IF rec.state \notin RESTING_STATES \/ rec.wakeup
                  THEN [rec EXCEPT !.age = 0]
                  ELSE rec
  IN  SetRecord(t, s, Probe(beaten, pid, alive))

(* handle_event as a whole, for a report that names its session.           *)
HandleEvent(t, s, verb, pid, cwd, alive) ==
  CASE VerbToState(verb) = "Offline"       -> Free(t, {s})
    [] verb = "start" /\ s \in Live(t)     -> StartKnown(t, s, pid, cwd, alive)
    [] VerbToState(verb) # "Offline" /\ verb # "start" /\ s \in Live(t) ->
         ReportKnown(t, s, verb, pid, alive)
    [] VerbToState(verb) # "Offline" /\ s \notin Live(t) ->
         ReportNew(t, s, verb, pid, cwd, alive)

(***************************************************************************)
(* The sweep's dead-process check.                                         *)
(***************************************************************************)

(* The reaper trusts a recorded pid once it has been seen alive.           *)
ReaperTrusts(rec) == rec.pid # NoPid /\ rec.pidAliveSeen

DeadSessions(t, alive) ==
  {s \in Live(t) : ReaperTrusts(t.sessions[s]) /\ t.sessions[s].pid \notin alive}

(* Mutants: a sweep with only one of its evictions.                        *)
SweptDead(t, alive) == Free(t, DeadSessions(t, alive))
SweptSilent(t, alive) == EvictStale(t)

(* _sweep_once's two evictions, the dead before the stale.                 *)
Swept(t, alive) == EvictStale(Free(t, DeadSessions(t, alive)))
=============================================================================
