---------------------------- MODULE HookDelivery ----------------------------
(***************************************************************************)
(* How what a coding agent does becomes what the ring shows: the agent     *)
(* fires a hook (CLAUDE_HOOKS and CODEX_HOOKS in notify/cli/install.py),   *)
(* every hook is a led-report process that connects to the broker, sends   *)
(* one line and ends (notify/cli/led_report.py), and the broker's event    *)
(* loop serves the connections (_handle_client in notify/broker/server.py).*)
(*                                                                         *)
(* Codex waits for a hook before it goes on.  Claude's hooks are installed *)
(* as asynchronous: several are under way at once, and one that was fired  *)
(* later may connect earlier.  A hook that finds no broker is dropped      *)
(* without a word.  An agent may be killed, which fires no hook.           *)
(*                                                                         *)
(* A Claude session stands for its process too, whose id its hooks carry   *)
(* (--pid $PPID); Codex's hooks carry none.                                *)
(***************************************************************************)
EXTENDS EventHandling, Sequences

CONSTANT MaxHooks   \* bound: hooks fired

Claude == HostPids

ASSUME HarnessAssumption == Claude \subseteq Sids /\ MaxHooks \in Nat

VARIABLES
  up,       \* the broker runs and listens
  table,    \* Broker._allocator
  backlog,  \* the connections the event loop has not served yet
  stage,    \* session -> what its agent is doing
  hooks,    \* session -> its led-report processes that have not connected
            \* (which order they were fired in, their numbers tell)
  fired,    \* session -> number of the hook it fired last
  heard     \* session -> number of the hook its segment shows, 0 for none

vars == <<up, table, backlog, stage, hooks, fired, heard>>

Stages == {"off", "idle", "working", "asking", "answered", "handed",
           "prompted", "failed", "over", "killed"}

Gone == {"over", "killed"}

HookProcess == [verb : ReportVerbs, number : Nat \ {0}]

(* Reports are under way for known sessions only, each with a number.      *)
TypeOK ==
  /\ up \in BOOLEAN
  /\ IsTableOf(table, SessionRecord)
  /\ stage \in [Sids -> Stages]
  /\ DOMAIN hooks = Sids /\ \A s \in Sids : hooks[s] \subseteq HookProcess
  /\ backlog \in Seq([sid : Sids, hook : HookProcess])
  /\ fired \in [Sids -> Nat]
  /\ heard \in [Sids -> Nat]

Init ==
  /\ up \in BOOLEAN
  /\ table = EmptyTable
  /\ backlog = <<>>
  /\ stage = [s \in Sids |-> "off"]
  /\ hooks = [s \in Sids |-> {}]
  /\ fired = [s \in Sids |-> 0]
  /\ heard = [s \in Sids |-> 0]

(***************************************************************************)
(* The agents and their hooks                                              *)
(***************************************************************************)

(* The verb each wired event reports.                                      *)
CLAUDE_HOOKS ==
  [SessionStart |-> "start", UserPromptSubmit |-> "running",
   PreToolUse |-> "running", PostToolUse |-> "wakeup", Notification |-> "notify",
   Stop |-> "done", StopFailure |-> "error", SessionEnd |-> "end"]

CODEX_HOOKS ==
  [SessionStart |-> "start", UserPromptSubmit |-> "running",
   PreToolUse |-> "running", PermissionRequest |-> "approval",
   Stop |-> "done", SessionEnd |-> "end"]

HooksOf(s) == IF s \in Claude THEN CLAUDE_HOOKS ELSE CODEX_HOOKS

NotifyVerb == [permission_prompt |-> "notify:permission_prompt",
               idle_prompt       |-> "notify:idle_prompt"]

(* Mutant: a plan that waits for its approval is a finished turn.          *)
BuildEventAsDone(s, event, body) ==
  IF event = "Notification" THEN NotifyVerb[body] ELSE HooksOf(s)[event]

(* build_event of the adapters, and the broker's folding of the kind of a  *)
(* notification into the verb: the body of the hook may change the verb.   *)
BuildEvent(s, event, body) ==
  CASE event = "Notification" -> NotifyVerb[body]
    [] s \notin Claude /\ event = "Stop" /\ body = "plan" -> "plan_pending"
    [] OTHER -> HooksOf(s)[event]

Event(name, body, from, to) ==
  [name |-> name, body |-> body, from |-> from, to |-> to]

(* What an agent can do that fires a hook, and what it is doing then.      *)
Turns ==
  {Event("SessionStart", "", {"off"}, "idle"),
   Event("UserPromptSubmit", "",
         {"idle", "asking", "answered", "handed", "prompted", "failed"}, "working"),
   Event("PreToolUse", "", {"working", "answered", "handed"}, "working"),
   Event("PostToolUse", "", {"working", "answered"}, "handed"),
   Event("PermissionRequest", "", {"working"}, "asking"),
   Event("Notification", "permission_prompt", {"working"}, "asking"),
   Event("Notification", "idle_prompt", {"idle"}, "prompted"),
   Event("Notification", "idle_prompt", {"handed"}, "handed"),
   Event("Stop", "", {"working", "answered", "handed"}, "idle"),
   Event("Stop", "plan", {"working"}, "asking"),
   Event("StopFailure", "", {"working", "answered"}, "failed"),
   Event("SessionEnd", "", Stages \ ({"off"} \cup Gone), "over")}

(* A context that is compacted starts the session anew, whatever it does.  *)
Restarts == {Event("SessionStart", "", {p}, p) : p \in {"idle", "working"}}

EventsOf(s) ==
  {e \in Turns : e.name \in DOMAIN HooksOf(s) /\ (s \in Claude => e.body # "plan")}
    \cup IF s \in Claude THEN Restarts ELSE {}

Alive == {s \in Claude : stage[s] \notin {"off"} \cup Gone}

(* Mutant: nothing waits for a hook. *)
MayFireAnyway(s) == TRUE

(* A synchronous hook holds its agent up until the process has ended.      *)
MayFire(s) == s \in Claude \/ hooks[s] = {}

AllFired == FoldFunction(+, 0, fired)

Fires(s) ==
  /\ MayFire(s)
  /\ AllFired < MaxHooks
  /\ \E e \in EventsOf(s) :
    /\ stage[s] \in e.from
    /\ fired' = [fired EXCEPT ![s] = @ + 1]
    /\ stage' = [stage EXCEPT ![s] = e.to]
    /\ hooks' = [hooks EXCEPT ![s] =
                   @ \cup {[verb   |-> BuildEvent(s, e.name, e.body),
                            number |-> fired[s] + 1]}]
    /\ UNCHANGED <<up, table, backlog, heard>>

(* The human answers, which fires no hook.                                 *)
Answered(s) ==
  /\ stage[s] = "asking"
  /\ stage' = [stage EXCEPT ![s] = "answered"]
  /\ UNCHANGED <<up, table, backlog, hooks, fired, heard>>

(* The agent is killed or its terminal closed: no SessionEnd.              *)
Killed(s) ==
  /\ stage[s] \notin {"off"} \cup Gone
  /\ stage' = [stage EXCEPT ![s] = "killed"]
  /\ UNCHANGED <<up, table, backlog, hooks, fired, heard>>

(***************************************************************************)
(* led-report                                                              *)
(***************************************************************************)

(* _send: the line is in the broker's hands once it is written.            *)
Sends(s, hook) ==
  /\ up
  /\ backlog' = Append(backlog, [sid |-> s, hook |-> hook])
  /\ hooks' = [hooks EXCEPT ![s] = @ \ {hook}]
  /\ UNCHANGED <<up, table, stage, fired, heard>>

(* ... an OSError is passed over in silence: there is no broker, or the    *)
(* agent ends a hook that takes too long.                                  *)
GivesUp(s, hook) ==
  /\ hooks' = [hooks EXCEPT ![s] = @ \ {hook}]
  /\ UNCHANGED <<up, table, backlog, stage, fired, heard>>

(***************************************************************************)
(* The broker                                                              *)
(***************************************************************************)

(* What these verbs show depends on what was reported before.              *)
Contextual == {"start", "notify:idle_prompt"}

(* The number of the hook that segment s shows after that hook is handled, *)
(* 0 when the segment is refused or the hook came out of its context.      *)
Hears(s, hook, t) ==
  IF \/ hook.verb # "end" /\ s \notin Live(t)
     \/ hook.verb \in Contextual /\ heard[s] + 1 # hook.number
    THEN 0
    ELSE hook.number

(* _handle_client: one line is read and handled.                           *)
HandleClient ==
  LET s    == Head(backlog).sid
      hook == Head(backlog).hook
      pid  == IF s \in Claude THEN s ELSE NoPid
      t    == HandleEvent(table, s, hook.verb, pid, NoCwd, Alive)
  IN  /\ up
      /\ backlog # <<>>
      /\ backlog' = Tail(backlog)
      /\ table' = t
      /\ heard' = [heard EXCEPT ![s] = Hears(s, hook, t)]
      /\ UNCHANGED <<up, stage, hooks, fired>>

Sweep ==
  LET t == Swept(table, Alive) IN
  /\ up
  /\ table' = t
  /\ heard' = [s \in Sids |-> IF s \in Live(table) \ Live(t) THEN 0 ELSE heard[s]]
  /\ UNCHANGED <<up, backlog, stage, hooks, fired>>

(* The sweep is on time.                                                   *)
Tick ==
  /\ up
  /\ Stale(table) = {}
  /\ table' = Elapse(table)
  /\ UNCHANGED <<up, backlog, stage, hooks, fired, heard>>

(* A stop or a crash takes the table and the unserved connections away.    *)
BrokerStops ==
  /\ up
  /\ up' = FALSE
  /\ table' = EmptyTable
  /\ backlog' = <<>>
  /\ heard' = [s \in Sids |-> 0]
  /\ UNCHANGED <<stage, hooks, fired>>

BrokerStarts ==
  /\ ~up
  /\ up' = TRUE
  /\ UNCHANGED <<table, backlog, stage, hooks, fired, heard>>

Agents == \E s \in Sids : Fires(s) \/ Answered(s) \/ Killed(s)

Processes == \E s \in Sids : \E hook \in hooks[s] : Sends(s, hook) \/ GivesUp(s, hook)

Works == Processes \/ HandleClient \/ Sweep \/ Tick \/ BrokerStarts

Next ==
  \/ Agents
  \/ Works
  \/ BrokerStops

(* A hook process ends, the event loop serves its connections and its      *)
(* sweep timer, time passes and the supervisor starts the broker; the      *)
(* model needs no more than that they do not all stand still.              *)
Fairness == WF_vars(Works)

Spec == Init /\ [][Next]_vars

FairSpec == Spec /\ Fairness

(***************************************************************************)
(* Properties                                                              *)
(***************************************************************************)

(* What the ring may show of an agent that is doing this.  An answer fires *)
(* no hook, so that the call for the human stays until the next report.    *)
Shows(place) ==
  CASE place = "idle"                   -> RESTING_STATES
    [] place = "working"                -> {"Running"}
    [] place \in {"asking", "answered"} -> {"AwaitingApproval", "WaitingInput"}
    [] place = "handed"                 -> {"Done"}
    [] place = "prompted"               -> {"WaitingInput"}
    [] place = "failed"                 -> {"Error"}

Truthful(s) ==
  CASE stage[s] = "killed"        -> TRUE
    [] stage[s] \in {"off", "over"} -> s \notin Live(table)
    [] OTHER -> s \in Live(table) /\ table.sessions[s].state \in Shows(stage[s])

(* A session whose last report reached its segment is shown as what its    *)
(* agent is doing: after a restart of the broker, a lost or overtaken hook,*)
(* an eviction or a refusal for lack of a slot, the next report that needs *)
(* no context sets the ring right.                                         *)
RingCatchesUp ==
  \A s \in Sids : up /\ heard[s] = fired[s] => Truthful(s)

KeepsOrder(s) == heard'[s] # 0 => heard'[s] >= heard[s]

(* The reports of a session take effect in the order in which its agent    *)
(* fired them, however many hooks of other sessions are under way: Codex   *)
(* waits for a hook, and the event loop serves connections as they come.   *)
SyncReportsKeepOrder == [][\A s \in Sids \ Claude : KeepsOrder(s)]_vars

(* The same of every session: the ring's "needs you" signal cannot vanish  *)
(* while pending (the comment in Broker.__init__).                         *)
ReportsKeepOrder == [][\A s \in Sids : KeepsOrder(s)]_vars

(* A session that is over leaves the ring for good: a report that comes    *)
(* after its end registers it again, but it is neither revived by it nor   *)
(* does it stay, be it killed, ended or forgotten by a restarted broker.   *)
EndedSessionsLeave ==
  \A s \in Sids : stage[s] \in Gone ~> [](s \notin Live(table))
=============================================================================
