------------------------- MODULE HookDeliveryProofs -------------------------
(***************************************************************************)
(* The hooks and the broker, proved for any number of Claude and Codex     *)
(* sessions, slots, windows and hooks under way, whichever of them are     *)
(* lost, overtaken or refused, and with agents that are killed and brokers *)
(* that stop at any time.                                                  *)
(***************************************************************************)
EXTENDS HookDelivery, EventHandlingProofs

Report == [sid : Sids, hook : HookProcess]

Typed ==
  /\ up \in BOOLEAN
  /\ TableGood(table, 1)
  /\ stage \in [Sids -> Stages]
  /\ hooks \in [Sids -> SUBSET HookProcess]
  /\ backlog \in Seq(Report)
  /\ fired \in [Sids -> Nat]
  /\ heard \in [Sids -> Nat]

(* The reports of a session that are under way.                            *)
Waits(s, hook) == \E i \in 1 .. Len(backlog) : backlog[i] = [sid |-> s, hook |-> hook]

UnderWay(s) == {hook \in HookProcess : hook \in hooks[s] \/ Waits(s, hook)}

(* No number is under way twice.                                           *)
Numbered ==
  \A s \in Sids :
    /\ heard[s] <= fired[s]
    /\ \A hook \in UnderWay(s) : hook.number <= fired[s]
    /\ \A g, h \in hooks[s] : g.number = h.number => g = h
    /\ \A h \in hooks[s], i \in 1 .. Len(backlog) :
         backlog[i].sid = s => backlog[i].hook.number # h.number
    /\ \A i, j \in 1 .. Len(backlog) :
         backlog[i].sid = s /\ backlog[j].sid = s
           /\ backlog[i].hook.number = backlog[j].hook.number => i = j

(***************************************************************************)
(* The history of a session: what its agent was doing after each hook.  It *)
(* is not a variable of the specification; the invariant says that there   *)
(* is one that fits what is under way and what the ring shows.             *)
(***************************************************************************)

Places == Stages \ {"answered", "killed"}

(* A hook with this verb can have taken the agent from p to q.             *)
Leads(verb, p, q) ==
  \/ verb = "running" /\ q = "working"
  \/ verb = "wakeup" /\ q = "handed"
  \/ verb = "done" /\ q = "idle"
  \/ verb = "error" /\ q = "failed"
  \/ verb = "end" /\ q = "over"
  \/ verb = "approval" /\ q = "asking"
  \/ verb = "notify:permission_prompt" /\ q = "asking"
  \/ verb = "plan_pending" /\ q = "asking"
  \/ verb = "start" /\ p = "off" /\ q = "idle"
  \/ verb = "start" /\ p = "idle" /\ q = "idle"
  \/ verb = "start" /\ p = "working" /\ q = "working"
  \/ verb = "notify:idle_prompt" /\ p = "idle" /\ q = "prompted"
  \/ verb = "notify:idle_prompt" /\ p = "handed" /\ q = "handed"

(* The table shows s as an agent at p; an agent that is idle is not armed  *)
(* and one that handed its turn over to a timer is.                        *)
ShownIn(t, s, p) ==
  IF p \in {"off", "over"}
    THEN s \notin Live(t)
    ELSE /\ s \in Live(t)
         /\ t.sessions[s].state \in Shows(p)
         /\ p = "idle" => ~t.sessions[s].wakeup
         /\ p = "handed" => t.sessions[s].wakeup

(* Every hook from number n on is still under way.                         *)
Unbroken(s, n) ==
  \A k \in n .. fired[s] : \E hook \in UnderWay(s) : hook.number = k

Follows(s, place) ==
  \/ stage[s] = place
  \/ stage[s] = "answered" /\ place = "asking"
  \/ stage[s] = "killed"

Told(s, H) ==
  /\ H[0] = "off"
  /\ Follows(s, H[fired[s]])
  /\ \A hook \in UnderWay(s) : Leads(hook.verb, H[hook.number - 1], H[hook.number])
  /\ Unbroken(s, heard[s] + 1) => ShownIn(table, s, H[heard[s]])

Histories == \A s \in Sids : \E H \in [Nat -> Places] : Told(s, H)

(* The reports of a session whose agent waits for them are in order.       *)
SyncOrdered ==
  \A s \in Sids \ Claude :
    /\ \A h \in hooks[s] : h.number > heard[s] /\ \A g \in hooks[s] : g = h
    /\ \A i \in 1 .. Len(backlog) :
         backlog[i].sid = s =>
           /\ backlog[i].hook.number > heard[s]
           /\ \A h \in hooks[s] : h.number > backlog[i].hook.number
           /\ \A j \in 1 .. Len(backlog) :
                i < j /\ backlog[j].sid = s
                  => backlog[i].hook.number < backlog[j].hook.number

(***************************************************************************)
(* Verbs and what they show.                                               *)
(***************************************************************************)

(* The verbs of the hooks resolve as the table of session.py says; only a  *)
(* prompt that an idle agent sends depends on what was reported before.    *)
LEMMA ResolvedVerbs ==
  ASSUME NEW t, NEW s
  PROVE  /\ Resolved(t, s, "running").state = "Running"
         /\ Resolved(t, s, "wakeup") = [state |-> "Done", wakeup |-> TRUE]
         /\ Resolved(t, s, "done") = [state |-> "Done", wakeup |-> FALSE]
         /\ Resolved(t, s, "start") = [state |-> "Idle", wakeup |-> FALSE]
         /\ Resolved(t, s, "error").state = "Error"
         /\ \A verb \in {"approval", "notify:permission_prompt", "plan_pending"} :
              Resolved(t, s, verb).state \in {"AwaitingApproval", "WaitingInput"}
         /\ LET prior == s \in Live(t) /\ t.sessions[s].wakeup IN
              Resolved(t, s, "notify:idle_prompt") =
                IF prior THEN [state |-> "Done", wakeup |-> TRUE]
                         ELSE [state |-> "WaitingInput", wakeup |-> FALSE]
<1> DEFINE prior == s \in Live(t) /\ t.sessions[s].wakeup
<1>1. \A verb : Resolved(t, s, verb) = ResolveWakeup(verb, VerbToState(verb), prior)
  BY DEF Resolved
<1>2. prior \in BOOLEAN
  OBVIOUS
<1> HIDE DEF prior
<1>3. /\ VerbToState("running") = "Running" /\ VerbToState("wakeup") = "Done"
      /\ VerbToState("done") = "Done" /\ VerbToState("start") = "Idle"
      /\ VerbToState("error") = "Error"
      /\ VerbToState("notify:idle_prompt") = "WaitingInput"
      /\ \A verb \in {"approval", "notify:permission_prompt"} :
           VerbToState(verb) = "AwaitingApproval"
      /\ VerbToState("plan_pending") = "WaitingInput"
  BY DEF VerbToState, DoneVerbs, ErrorVerbs, ApprovalVerbs, InputVerbs,
         UnmappedConsentVerbs, UnmappedNotifyVerbs
<1> USE DEF ResolveWakeup, WAKEUP_VERBS, ACTIVITY_VERBS, CTA_STATES
<1>4. Resolved(t, s, "running").state = "Running"
  BY <1>1, <1>3
<1>5. Resolved(t, s, "wakeup") = [state |-> "Done", wakeup |-> TRUE]
  BY <1>1, <1>3
<1>6. Resolved(t, s, "done") = [state |-> "Done", wakeup |-> FALSE]
  BY <1>1, <1>3
<1>7. Resolved(t, s, "start") = [state |-> "Idle", wakeup |-> FALSE]
  BY <1>1, <1>3
<1>8. Resolved(t, s, "error").state = "Error"
  BY <1>1, <1>3
<1>9. \A verb \in {"approval", "notify:permission_prompt", "plan_pending"} :
        Resolved(t, s, verb).state \in {"AwaitingApproval", "WaitingInput"}
  BY <1>1, <1>3
<1>10. Resolved(t, s, "notify:idle_prompt") =
         IF prior THEN [state |-> "Done", wakeup |-> TRUE]
                  ELSE [state |-> "WaitingInput", wakeup |-> FALSE]
  <2>1. CASE prior
    BY <1>1, <1>3, <2>1
  <2>2. CASE ~prior
    <3>1. prior = FALSE
      BY <1>2, <2>2
    <3> QED
      BY <1>1, <1>3, <3>1
  <2> QED
    BY <2>1, <2>2
<1> QED
  BY <1>4, <1>5, <1>6, <1>7, <1>8, <1>9, <1>10 DEF prior

(* The verb that each wired event reports, harness by harness.             *)
LEMMA BuiltVerbs ==
  ASSUME NEW s
  PROVE  /\ BuildEvent(s, "SessionStart", "") = "start"
         /\ BuildEvent(s, "UserPromptSubmit", "") = "running"
         /\ BuildEvent(s, "PreToolUse", "") = "running"
         /\ BuildEvent(s, "Notification", "permission_prompt") = "notify:permission_prompt"
         /\ BuildEvent(s, "Notification", "idle_prompt") = "notify:idle_prompt"
         /\ BuildEvent(s, "Stop", "") = "done"
         /\ BuildEvent(s, "SessionEnd", "") = "end"
         /\ s \in Claude => /\ BuildEvent(s, "PostToolUse", "") = "wakeup"
                            /\ BuildEvent(s, "StopFailure", "") = "error"
         /\ s \notin Claude => /\ BuildEvent(s, "PermissionRequest", "") = "approval"
                               /\ BuildEvent(s, "Stop", "plan") = "plan_pending"
<1>1. CASE s \in Claude
  <2>1. HooksOf(s) = CLAUDE_HOOKS
    BY <1>1 DEF HooksOf
  <2> QED
    BY <1>1, <2>1 DEF BuildEvent, CLAUDE_HOOKS, NotifyVerb
<1>2. CASE s \notin Claude
  <2>1. HooksOf(s) = CODEX_HOOKS
    BY <1>2 DEF HooksOf
  <2> QED
    BY <1>2, <2>1 DEF BuildEvent, CODEX_HOOKS, NotifyVerb
<1> QED
  BY <1>1, <1>2

(* What an agent fires fits what it was doing and what it does then.       *)
LEMMA FiresLeads ==
  ASSUME Typed, NEW s \in Sids, Fires(s)
  PROVE  /\ MayFire(s)
         /\ \E hook \in HookProcess, q \in Places :
              /\ hook.number = fired[s] + 1
              /\ Leads(hook.verb, stage[s], q)
              /\ stage[s] # "killed"
              /\ hook.verb \in Contextual => stage[s] # "answered"
              /\ stage' = [stage EXCEPT ![s] = q]
              /\ fired' = [fired EXCEPT ![s] = @ + 1]
              /\ hooks' = [hooks EXCEPT ![s] = @ \cup {hook}]
              /\ UNCHANGED <<up, table, backlog, heard>>
<1>1. PICK e \in EventsOf(s) :
        /\ stage[s] \in e.from
        /\ fired' = [fired EXCEPT ![s] = @ + 1]
        /\ stage' = [stage EXCEPT ![s] = e.to]
        /\ hooks' = [hooks EXCEPT ![s] =
                       @ \cup {[verb   |-> BuildEvent(s, e.name, e.body),
                                number |-> fired[s] + 1]}]
        /\ UNCHANGED <<up, table, backlog, heard>>
  BY DEF Fires
<1> DEFINE verb == BuildEvent(s, e.name, e.body)
           Fits == /\ verb \in ReportVerbs /\ e.to \in Places
                   /\ Leads(verb, stage[s], e.to) /\ stage[s] # "killed"
                   /\ verb \in Contextual => stage[s] # "answered"
<1>2. verb = BuildEvent(s, e.name, e.body) /\ stage[s] \in e.from
  BY <1>1
<1> HIDE DEF verb
<1>3. /\ \A name \in {"PermissionRequest"} : name \notin DOMAIN CLAUDE_HOOKS
      /\ \A name \in {"PostToolUse", "Notification", "StopFailure"} :
           name \notin DOMAIN CODEX_HOOKS
  BY DEF CLAUDE_HOOKS, CODEX_HOOKS
<1>4. /\ s \in Claude => HooksOf(s) = CLAUDE_HOOKS
      /\ s \notin Claude => HooksOf(s) = CODEX_HOOKS
  BY DEF HooksOf
<1>5. /\ {"start", "running", "notify:permission_prompt", "notify:idle_prompt", "done",
          "end", "wakeup", "error", "approval", "plan_pending"} \subseteq ReportVerbs
      /\ {"off", "idle", "working", "asking", "handed", "prompted", "failed", "over"}
           \subseteq Places
      /\ "killed" \notin Places
  BY DEF ReportVerbs, RunningVerbs, DoneVerbs, ErrorVerbs, ApprovalVerbs, InputVerbs,
         UnmappedConsentVerbs, UnmappedNotifyVerbs, UnmappedVerbs, Places, Stages
<1>6. ASSUME e \in Turns, e.name \in DOMAIN HooksOf(s), s \in Claude => e.body # "plan"
      PROVE  Fits
  <2>1. CASE e = Event("SessionStart", "", {"off"}, "idle")
    <3>0. /\ e.name = "SessionStart" /\ e.body = "" /\ e.to = "idle"
          /\ e.from = {"off"}
      BY <2>1 DEF Event
    <3>1. /\ e.to = "idle" /\ verb = "start"
          /\ stage[s] \in {"off"}
      BY <1>2, <3>0, BuiltVerbs
    <3>2. Leads(verb, stage[s], e.to)
      BY <3>1 DEF Leads
    <3>3. verb \in Contextual => stage[s] # "answered"
      BY <3>1 DEF Contextual
    <3> QED
      BY <1>5, <3>1, <3>2, <3>3
  <2>2. CASE e = Event("UserPromptSubmit", "",
         {"idle", "asking", "answered", "handed", "prompted", "failed"}, "working")
    <3>0. /\ e.name = "UserPromptSubmit" /\ e.body = "" /\ e.to = "working"
          /\ e.from = {"idle", "asking", "answered", "handed", "prompted", "failed"}
      BY <2>2 DEF Event
    <3>1. /\ e.to = "working" /\ verb = "running"
          /\ stage[s] \in {"idle", "asking", "answered", "handed", "prompted", "failed"}
      BY <1>2, <3>0, BuiltVerbs
    <3>2. Leads(verb, stage[s], e.to)
      BY <3>1 DEF Leads
    <3>3. verb \in Contextual => stage[s] # "answered"
      BY <3>1 DEF Contextual
    <3> QED
      BY <1>5, <3>1, <3>2, <3>3
  <2>3. CASE e = Event("PreToolUse", "", {"working", "answered", "handed"}, "working")
    <3>0. /\ e.name = "PreToolUse" /\ e.body = "" /\ e.to = "working"
          /\ e.from = {"working", "answered", "handed"}
      BY <2>3 DEF Event
    <3>1. /\ e.to = "working" /\ verb = "running"
          /\ stage[s] \in {"working", "answered", "handed"}
      BY <1>2, <3>0, BuiltVerbs
    <3>2. Leads(verb, stage[s], e.to)
      BY <3>1 DEF Leads
    <3>3. verb \in Contextual => stage[s] # "answered"
      BY <3>1 DEF Contextual
    <3> QED
      BY <1>5, <3>1, <3>2, <3>3
  <2>4. CASE e = Event("PostToolUse", "", {"working", "answered"}, "handed")
    <3>0. /\ e.name = "PostToolUse" /\ e.body = "" /\ e.to = "handed"
          /\ e.from = {"working", "answered"}
      BY <2>4 DEF Event
    <3>1. /\ e.to = "handed" /\ verb = "wakeup"
          /\ stage[s] \in {"working", "answered"}
      BY <1>2, <1>3, <1>4, <1>6, <3>0, BuiltVerbs
    <3>2. Leads(verb, stage[s], e.to)
      BY <3>1 DEF Leads
    <3>3. verb \in Contextual => stage[s] # "answered"
      BY <3>1 DEF Contextual
    <3> QED
      BY <1>5, <3>1, <3>2, <3>3
  <2>5. CASE e = Event("PermissionRequest", "", {"working"}, "asking")
    <3>0. /\ e.name = "PermissionRequest" /\ e.body = "" /\ e.to = "asking"
          /\ e.from = {"working"}
      BY <2>5 DEF Event
    <3>1. /\ e.to = "asking" /\ verb = "approval"
          /\ stage[s] \in {"working"}
      BY <1>2, <1>3, <1>4, <1>6, <3>0, BuiltVerbs
    <3>2. Leads(verb, stage[s], e.to)
      BY <3>1 DEF Leads
    <3>3. verb \in Contextual => stage[s] # "answered"
      BY <3>1 DEF Contextual
    <3> QED
      BY <1>5, <3>1, <3>2, <3>3
  <2>6. CASE e = Event("Notification", "permission_prompt", {"working"}, "asking")
    <3>0. /\ e.name = "Notification" /\ e.body = "permission_prompt" /\ e.to = "asking"
          /\ e.from = {"working"}
      BY <2>6 DEF Event
    <3>1. /\ e.to = "asking" /\ verb = "notify:permission_prompt"
          /\ stage[s] \in {"working"}
      BY <1>2, <3>0, BuiltVerbs
    <3>2. Leads(verb, stage[s], e.to)
      BY <3>1 DEF Leads
    <3>3. verb \in Contextual => stage[s] # "answered"
      BY <3>1 DEF Contextual
    <3> QED
      BY <1>5, <3>1, <3>2, <3>3
  <2>7. CASE e = Event("Notification", "idle_prompt", {"idle"}, "prompted")
    <3>0. /\ e.name = "Notification" /\ e.body = "idle_prompt" /\ e.to = "prompted"
          /\ e.from = {"idle"}
      BY <2>7 DEF Event
    <3>1. /\ e.to = "prompted" /\ verb = "notify:idle_prompt"
          /\ stage[s] \in {"idle"}
      BY <1>2, <3>0, BuiltVerbs
    <3>2. Leads(verb, stage[s], e.to)
      BY <3>1 DEF Leads
    <3>3. verb \in Contextual => stage[s] # "answered"
      BY <3>1 DEF Contextual
    <3> QED
      BY <1>5, <3>1, <3>2, <3>3
  <2>8. CASE e = Event("Notification", "idle_prompt", {"handed"}, "handed")
    <3>0. /\ e.name = "Notification" /\ e.body = "idle_prompt" /\ e.to = "handed"
          /\ e.from = {"handed"}
      BY <2>8 DEF Event
    <3>1. /\ e.to = "handed" /\ verb = "notify:idle_prompt"
          /\ stage[s] \in {"handed"}
      BY <1>2, <3>0, BuiltVerbs
    <3>2. Leads(verb, stage[s], e.to)
      BY <3>1 DEF Leads
    <3>3. verb \in Contextual => stage[s] # "answered"
      BY <3>1 DEF Contextual
    <3> QED
      BY <1>5, <3>1, <3>2, <3>3
  <2>9. CASE e = Event("Stop", "", {"working", "answered", "handed"}, "idle")
    <3>0. /\ e.name = "Stop" /\ e.body = "" /\ e.to = "idle"
          /\ e.from = {"working", "answered", "handed"}
      BY <2>9 DEF Event
    <3>1. /\ e.to = "idle" /\ verb = "done"
          /\ stage[s] \in {"working", "answered", "handed"}
      BY <1>2, <3>0, BuiltVerbs
    <3>2. Leads(verb, stage[s], e.to)
      BY <3>1 DEF Leads
    <3>3. verb \in Contextual => stage[s] # "answered"
      BY <3>1 DEF Contextual
    <3> QED
      BY <1>5, <3>1, <3>2, <3>3
  <2>10. CASE e = Event("Stop", "plan", {"working"}, "asking")
    <3>0. /\ e.name = "Stop" /\ e.body = "plan" /\ e.to = "asking"
          /\ e.from = {"working"}
      BY <2>10 DEF Event
    <3>1. /\ e.to = "asking" /\ verb = "plan_pending"
          /\ stage[s] \in {"working"}
      BY <1>2, <1>6, <3>0, BuiltVerbs
    <3>2. Leads(verb, stage[s], e.to)
      BY <3>1 DEF Leads
    <3>3. verb \in Contextual => stage[s] # "answered"
      BY <3>1 DEF Contextual
    <3> QED
      BY <1>5, <3>1, <3>2, <3>3
  <2>11. CASE e = Event("StopFailure", "", {"working", "answered"}, "failed")
    <3>0. /\ e.name = "StopFailure" /\ e.body = "" /\ e.to = "failed"
          /\ e.from = {"working", "answered"}
      BY <2>11 DEF Event
    <3>1. /\ e.to = "failed" /\ verb = "error"
          /\ stage[s] \in {"working", "answered"}
      BY <1>2, <1>3, <1>4, <1>6, <3>0, BuiltVerbs
    <3>2. Leads(verb, stage[s], e.to)
      BY <3>1 DEF Leads
    <3>3. verb \in Contextual => stage[s] # "answered"
      BY <3>1 DEF Contextual
    <3> QED
      BY <1>5, <3>1, <3>2, <3>3
  <2>12. CASE e = Event("SessionEnd", "", Stages \ ({"off"} \cup Gone), "over")
    <3>0. /\ e.name = "SessionEnd" /\ e.body = "" /\ e.to = "over"
          /\ e.from = Stages \ ({"off"} \cup Gone)
      BY <2>12 DEF Event
    <3>1. /\ e.to = "over" /\ verb = "end"
          /\ stage[s] # "killed"
      BY <1>2, <3>0, BuiltVerbs DEF Gone
    <3>2. Leads(verb, stage[s], e.to)
      BY <3>1 DEF Leads
    <3>3. verb \in Contextual => stage[s] # "answered"
      BY <3>1 DEF Contextual
    <3> QED
      BY <1>5, <3>1, <3>2, <3>3
  <2> QED
    BY <1>6, <2>1, <2>2, <2>3, <2>4, <2>5, <2>6, <2>7, <2>8, <2>9, <2>10, <2>11, <2>12
       DEF Turns
<1>7. ASSUME e \in Restarts PROVE Fits
  <2>1. PICK p \in {"idle", "working"} : e = Event("SessionStart", "", {p}, p)
    BY <1>7 DEF Restarts
  <2>2. e.to = p /\ verb = "start" /\ stage[s] = p
    <3>1. e.name = "SessionStart" /\ e.body = "" /\ e.to = p /\ e.from = {p}
      BY <2>1 DEF Event
    <3> QED
      BY <1>2, <3>1, BuiltVerbs
  <2>3. Leads(verb, stage[s], e.to)
    BY <2>2 DEF Leads
  <2> QED
    BY <1>5, <2>1, <2>2, <2>3
<1>8. Fits
  BY <1>6, <1>7 DEF EventsOf
<1> DEFINE hook == [verb |-> verb, number |-> fired[s] + 1]
<1>9. hook \in HookProcess
  BY <1>8 DEF HookProcess, Typed
<1>10. hook.number = fired[s] + 1 /\ hook.verb = verb
  OBVIOUS
<1>11. hooks' = [hooks EXCEPT ![s] = @ \cup {hook}]
  BY <1>1 DEF verb
<1> HIDE DEF hook
<1> QED
  BY <1>1, <1>8, <1>9, <1>10, <1>11 DEF Fires

(* A report that comes in its context, or needs none, makes the table show *)
(* what its agent does then.                                               *)
LEMMA ReportShows ==
  ASSUME NEW t \in TableOf(SessionRecord), TableInv(t), NEW s \in Sids,
         NEW verb \in ReportVerbs, NEW p \in Places, NEW q \in Places, Leads(verb, p, q),
         verb \in Contextual => ShownIn(t, s, p),
         NEW pid \in Pids, NEW here,
         verb # "end" => s \in Live(HandleEvent(t, s, verb, pid, NoCwd, here))
  PROVE  ShownIn(HandleEvent(t, s, verb, pid, NoCwd, here), s, q)
<1> DEFINE u == HandleEvent(t, s, verb, pid, NoCwd, here)
           e == Resolved(t, s, verb)
<1>1. /\ verb = "end" => s \notin Live(u)
      /\ verb = "start" /\ s \in Live(t) =>
           u.sessions[s].state = t.sessions[s].state /\ ~u.sessions[s].wakeup
      /\ verb # "end" /\ ~(verb = "start" /\ s \in Live(t)) =>
           u.sessions[s].state = e.state /\ u.sessions[s].wakeup = e.wakeup
  <2>1. NoCwd \in CwdNames
    BY DEF CwdNames
  <2> QED
    BY <2>1, HandleEventEffect
<1>2. verb # "end" => s \in Live(u)
  OBVIOUS
<1>3. /\ verb = "running" => e.state = "Running"
      /\ verb = "wakeup" => e.state = "Done" /\ e.wakeup = TRUE
      /\ verb = "done" => e.state = "Done" /\ e.wakeup = FALSE
      /\ verb = "start" => e.state = "Idle" /\ e.wakeup = FALSE
      /\ verb = "error" => e.state = "Error"
      /\ verb \in {"approval", "notify:permission_prompt", "plan_pending"} =>
           e.state \in {"AwaitingApproval", "WaitingInput"}
  <2>1. /\ Resolved(t, s, "running").state = "Running"
        /\ Resolved(t, s, "wakeup") = [state |-> "Done", wakeup |-> TRUE]
        /\ Resolved(t, s, "done") = [state |-> "Done", wakeup |-> FALSE]
        /\ Resolved(t, s, "start") = [state |-> "Idle", wakeup |-> FALSE]
        /\ Resolved(t, s, "error").state = "Error"
        /\ \A v \in {"approval", "notify:permission_prompt", "plan_pending"} :
             Resolved(t, s, v).state \in {"AwaitingApproval", "WaitingInput"}
    BY ResolvedVerbs
  <2> QED
    BY <2>1
<1>4. /\ verb = "notify:idle_prompt" /\ s \in Live(t) /\ t.sessions[s].wakeup =>
           e.state = "Done" /\ e.wakeup = TRUE
      /\ verb = "notify:idle_prompt" /\ ~(s \in Live(t) /\ t.sessions[s].wakeup) =>
           e.state = "WaitingInput"
  <2>1. Resolved(t, s, "notify:idle_prompt") =
          IF s \in Live(t) /\ t.sessions[s].wakeup
            THEN [state |-> "Done", wakeup |-> TRUE]
            ELSE [state |-> "WaitingInput", wakeup |-> FALSE]
    BY ResolvedVerbs
  <2> QED
    BY <2>1
<1> HIDE DEF u, e
<1> SUFFICES ShownIn(u, s, q)
  BY DEF u
<1>5. \A w : /\ s \notin Live(w) => ShownIn(w, s, "over")
             /\ s \in Live(w) =>
                  /\ ShownIn(w, s, "idle") <=> /\ w.sessions[s].state \in {"Idle", "Done"}
                                               /\ ~w.sessions[s].wakeup
                  /\ ShownIn(w, s, "working") <=> w.sessions[s].state = "Running"
                  /\ ShownIn(w, s, "asking") <=>
                       w.sessions[s].state \in {"AwaitingApproval", "WaitingInput"}
                  /\ ShownIn(w, s, "handed") <=> /\ w.sessions[s].state = "Done"
                                                 /\ w.sessions[s].wakeup
                  /\ ShownIn(w, s, "prompted") <=> w.sessions[s].state = "WaitingInput"
                  /\ ShownIn(w, s, "failed") <=> w.sessions[s].state = "Error"
  BY DEF ShownIn, Shows, RESTING_STATES
<1>6. /\ ShownIn(t, s, "off") => s \notin Live(t)
      /\ \A x \in {"idle", "working", "handed"} : ShownIn(t, s, x) => s \in Live(t)
  BY DEF ShownIn
<1>7. CASE verb = "end" /\ q = "over"
  BY <1>1, <1>5, <1>7
<1>8. CASE \/ verb = "running" /\ q = "working"
           \/ verb = "error" /\ q = "failed"
           \/ /\ verb \in {"approval", "notify:permission_prompt", "plan_pending"}
              /\ q = "asking"
  BY <1>1, <1>2, <1>3, <1>5, <1>8
<1>9. CASE \/ verb = "wakeup" /\ q = "handed"
           \/ verb = "done" /\ q = "idle"
  BY <1>1, <1>2, <1>3, <1>5, <1>9
<1>10. CASE verb = "start" /\ p = "off" /\ q = "idle"
  BY <1>1, <1>2, <1>3, <1>5, <1>6, <1>10 DEF Contextual
<1>11. CASE verb = "start" /\ p = q /\ q \in {"idle", "working"}
  BY <1>1, <1>2, <1>5, <1>6, <1>11 DEF Contextual
<1>12. CASE verb = "notify:idle_prompt" /\ p = "idle" /\ q = "prompted"
  BY <1>1, <1>2, <1>4, <1>5, <1>6, <1>12 DEF Contextual
<1>13. CASE verb = "notify:idle_prompt" /\ p = "handed" /\ q = "handed"
  BY <1>1, <1>2, <1>4, <1>5, <1>6, <1>13 DEF Contextual
<1> QED
  BY <1>7, <1>8, <1>9, <1>10, <1>11, <1>12, <1>13 DEF Leads

(***************************************************************************)
(* The backlog.                                                            *)
(***************************************************************************)

LEMMA AppendFacts ==
  ASSUME NEW R, NEW b \in Seq(R), NEW r \in R
  PROVE  /\ Append(b, r) \in Seq(R)
         /\ Len(Append(b, r)) = Len(b) + 1 /\ Len(b) \in Nat
         /\ \A i \in 1 .. Len(b) : Append(b, r)[i] = b[i]
         /\ Append(b, r)[Len(b) + 1] = r
OBVIOUS

LEMMA TailFacts ==
  ASSUME NEW R, NEW b \in Seq(R), b # <<>>
  PROVE  /\ Head(b) = b[1] /\ Head(b) \in R
         /\ Tail(b) \in Seq(R)
         /\ Len(Tail(b)) = Len(b) - 1 /\ Len(b) \in Nat \ {0}
         /\ \A i \in 1 .. Len(b) - 1 : Tail(b)[i] = b[i + 1]
OBVIOUS

(***************************************************************************)
(* The table and the types.                                                *)
(***************************************************************************)

(* The report at the head of the backlog.                                  *)
LEMMA HeadReport ==
  ASSUME Typed, backlog # <<>>
  PROVE  LET s    == Head(backlog).sid
             hook == Head(backlog).hook
         IN  /\ backlog[1] = [sid |-> s, hook |-> hook] /\ backlog[1].sid = s
             /\ backlog[1].hook = hook
             /\ s \in Sids /\ hook \in HookProcess
             /\ hook.verb \in ReportVerbs /\ hook.number \in Nat \ {0}
             /\ (IF s \in Claude THEN s ELSE NoPid) \in Pids
             /\ NoCwd \in CwdNames
<1>1. Head(backlog) = backlog[1] /\ Head(backlog) \in Report
  BY TailFacts DEF Typed
<1>2. Claude \subseteq Pids /\ NoPid \in Pids /\ NoCwd \in CwdNames
  BY DEF Claude, Pids, CwdNames
<1> QED
  BY <1>1, <1>2 DEF Report, HookProcess

LEMMA InitTyped == Init => Typed
<1> SUFFICES ASSUME Init PROVE Typed
  OBVIOUS
<1>1. TableGood(EmptyTable, 1)
  BY EmptyTableOK DEF TableGood
<1>2. "off" \in Stages /\ {} \in SUBSET HookProcess /\ 0 \in Nat
  BY DEF Stages
<1>3. /\ stage \in [Sids -> Stages] /\ hooks \in [Sids -> SUBSET HookProcess]
      /\ fired \in [Sids -> Nat] /\ heard \in [Sids -> Nat]
  BY <1>2 DEF Init
<1>4. up \in BOOLEAN
  BY DEF Init
<1> QED
  BY <1>1, <1>3, <1>4 DEF Init, Typed

LEMMA NextKeepsTyped ==
  ASSUME Typed, [Next]_vars
  PROVE  Typed'
<1>t. /\ up \in BOOLEAN /\ TableGood(table, 1) /\ stage \in [Sids -> Stages]
      /\ hooks \in [Sids -> SUBSET HookProcess] /\ backlog \in Seq(Report)
      /\ fired \in [Sids -> Nat] /\ heard \in [Sids -> Nat]
  BY DEF Typed
<1>1. ASSUME NEW s \in Sids, Fires(s) PROVE Typed'
  <2>1. PICK hook \in HookProcess, q \in Places :
          /\ stage' = [stage EXCEPT ![s] = q]
          /\ fired' = [fired EXCEPT ![s] = @ + 1]
          /\ hooks' = [hooks EXCEPT ![s] = @ \cup {hook}]
          /\ UNCHANGED <<up, table, backlog, heard>>
    BY <1>1, FiresLeads
  <2>2. q \in Stages
    BY DEF Places
  <2>3. stage' \in [Sids -> Stages] /\ fired' \in [Sids -> Nat]
    BY <1>t, <2>1, <2>2
  <2>4. hooks[s] \cup {hook} \in SUBSET HookProcess
    BY <1>t
  <2>5. hooks' \in [Sids -> SUBSET HookProcess]
    BY <1>t, <2>1, <2>4
  <2> QED
    BY <1>t, <2>1, <2>3, <2>5 DEF Typed
<1>2. ASSUME NEW s \in Sids, Answered(s) \/ Killed(s) PROVE Typed'
  <2>1. stage' \in [Sids -> Stages]
    BY <1>t, <1>2 DEF Answered, Killed, Stages
  <2> QED
    BY <1>t, <1>2, <2>1 DEF Answered, Killed, Typed
<1>3. ASSUME NEW s \in Sids, NEW hook \in hooks[s], Sends(s, hook) \/ GivesUp(s, hook)
      PROVE  Typed'
  <2>1. hooks[s] \ {hook} \in SUBSET HookProcess /\ hook \in HookProcess
    BY <1>t
  <2>2. hooks' = [hooks EXCEPT ![s] = @ \ {hook}]
    BY <1>3 DEF Sends, GivesUp
  <2>3. hooks' \in [Sids -> SUBSET HookProcess]
    BY <1>t, <2>1, <2>2
  <2>4. [sid |-> s, hook |-> hook] \in Report
    BY <2>1 DEF Report
  <2>5. backlog' \in Seq(Report)
    <3>1. CASE Sends(s, hook)
      <4>1. backlog' = Append(backlog, [sid |-> s, hook |-> hook])
        BY <3>1 DEF Sends
      <4> QED
        BY <1>t, <2>4, <4>1, AppendFacts
    <3>2. CASE GivesUp(s, hook)
      BY <1>t, <3>2 DEF GivesUp
    <3> QED
      BY <1>3, <3>1, <3>2
  <2> QED
    BY <1>t, <1>3, <2>3, <2>5 DEF Sends, GivesUp, Typed
<1>4. ASSUME HandleClient PROVE Typed'
  <2> DEFINE s    == Head(backlog).sid
             hook == Head(backlog).hook
             pid  == IF s \in Claude THEN s ELSE NoPid
             t    == HandleEvent(table, s, hook.verb, pid, NoCwd, Alive)
  <2>1. /\ s \in Sids /\ hook.verb \in ReportVerbs /\ hook.number \in Nat
        /\ pid \in Pids /\ NoCwd \in CwdNames
    BY <1>4, HeadReport DEF HandleClient
  <2>2. /\ backlog' = Tail(backlog) /\ backlog # <<>> /\ table' = t
        /\ heard' = [heard EXCEPT ![s] = Hears(s, hook, t)]
        /\ UNCHANGED <<up, stage, hooks, fired>>
    BY <1>4 DEF HandleClient
  <2>3. Hears(s, hook, t) \in Nat
    BY <2>1 DEF Hears
  <2>4. TableGood(t, 1)
    BY <1>t, <2>1, HandleEventKeepsGood
  <2> HIDE DEF s, hook, pid, t
  <2>5. heard' \in [Sids -> Nat]
    BY <1>t, <2>1, <2>2, <2>3
  <2>6. backlog' \in Seq(Report)
    BY <1>t, <2>2, TailFacts
  <2> QED
    BY <1>t, <2>2, <2>4, <2>5, <2>6 DEF Typed
<1>5. ASSUME Sweep PROVE Typed'
  <2>1. TableGood(table', 1)
    BY <1>t, <1>5, TableStaysGood DEF Sweep
  <2>2. heard' \in [Sids -> Nat]
    BY <1>t, <1>5 DEF Sweep
  <2> QED
    BY <1>t, <1>5, <2>1, <2>2 DEF Sweep, Typed
<1>6. ASSUME Tick PROVE Typed'
  <2>1. TableGood(table', 1)
    BY <1>t, <1>6, TableStaysGood DEF Tick
  <2> QED
    BY <1>t, <1>6, <2>1 DEF Tick, Typed
<1>7. ASSUME BrokerStops PROVE Typed'
  <2>1. TableGood(EmptyTable, 1)
    BY EmptyTableOK DEF TableGood
  <2>2. heard' \in [Sids -> Nat] /\ up' \in BOOLEAN
    BY <1>7 DEF BrokerStops
  <2> QED
    BY <1>t, <1>7, <2>1, <2>2 DEF BrokerStops, Typed
<1>8. CASE BrokerStarts \/ UNCHANGED vars
  BY <1>t, <1>8 DEF BrokerStarts, vars, Typed
<1> QED
  BY <1>1, <1>2, <1>3, <1>4, <1>5, <1>6, <1>7, <1>8
     DEF Next, Agents, Works, Processes

LEMMA TypedHolds == Spec => []Typed
BY InitTyped, NextKeepsTyped, PTL DEF Spec

(* The code's own types hold for every number of hooks and sessions.       *)
THEOREM HookTypeCorrect == Spec => []TypeOK
<1>1. Typed => TypeOK
  <2>1. TableGood(table, 1) => IsTableOf(table, SessionRecord)
    BY TableOfIsTable DEF TableGood
  <2>2. Seq(Report) = Seq([sid : Sids, hook : HookProcess])
    BY DEF Report
  <2> QED
    BY <2>1, <2>2 DEF Typed, TypeOK
<1> QED
  BY <1>1, TypedHolds, PTL

(***************************************************************************)
(* What is under way.                                                      *)
(***************************************************************************)

(* A report that is sent or given up is nowhere it was not before.         *)
LEMMA ProcessEnds ==
  ASSUME Typed, NEW s \in Sids, NEW hook \in hooks[s],
         Sends(s, hook) \/ GivesUp(s, hook)
  PROVE  \A x \in Sids : UnderWay(x)' \subseteq UnderWay(x)
<1>t. /\ hooks \in [Sids -> SUBSET HookProcess] /\ backlog \in Seq(Report)
      /\ hook \in HookProcess
  BY DEF Typed
<1>1. \A x \in Sids : hooks'[x] \subseteq hooks[x]
  BY <1>t DEF Sends, GivesUp
<1>2. ASSUME NEW x \in Sids, NEW g \in HookProcess, Waits(x, g)'
      PROVE  g \in hooks[x] \/ Waits(x, g)
  <2>1. CASE Sends(s, hook)
    <3>1. [sid |-> s, hook |-> hook] \in Report
      BY <1>t DEF Report
    <3>2. /\ Len(backlog') = Len(backlog) + 1 /\ Len(backlog) \in Nat
          /\ \A i \in 1 .. Len(backlog) : backlog'[i] = backlog[i]
          /\ backlog'[Len(backlog) + 1] = [sid |-> s, hook |-> hook]
      BY <1>t, <2>1, <3>1, AppendFacts DEF Sends
    <3>3. PICK i \in 1 .. Len(backlog) + 1 : backlog'[i] = [sid |-> x, hook |-> g]
      BY <1>2, <3>2 DEF Waits
    <3>4. CASE i = Len(backlog) + 1
      <4>1. [sid |-> s, hook |-> hook] = [sid |-> x, hook |-> g]
        BY <3>2, <3>3, <3>4
      <4>2. s = x /\ hook = g
        BY <4>1
      <4> QED
        BY <4>2
    <3>5. CASE i \in 1 .. Len(backlog)
      BY <3>2, <3>3, <3>5 DEF Waits
    <3> QED
      BY <3>2, <3>4, <3>5
  <2>2. CASE GivesUp(s, hook)
    <3>1. backlog' = backlog
      BY <2>2 DEF GivesUp
    <3> QED
      BY <1>2, <3>1 DEF Waits
  <2> QED
    BY <2>1, <2>2
<1> QED
  BY <1>1, <1>2 DEF UnderWay

(* The report that is served was under way and none with its number is     *)
(* then.                                                                   *)
LEMMA ServedIsOver ==
  ASSUME Typed, Numbered, HandleClient,
         NEW s \in Sids, NEW hook \in HookProcess,
         s = Head(backlog).sid, hook = Head(backlog).hook
  PROVE  /\ \A x \in Sids : UnderWay(x)' \subseteq UnderWay(x)
         /\ hook \in UnderWay(s)
         /\ \A g \in UnderWay(s)' : g.number # hook.number
<1>1. /\ backlog[1] = [sid |-> s, hook |-> hook] /\ backlog[1].sid = s
      /\ backlog[1].hook = hook
  BY HeadReport DEF HandleClient
<1>2. /\ Len(backlog') = Len(backlog) - 1 /\ Len(backlog) \in Nat \ {0}
      /\ \A i \in 1 .. Len(backlog) - 1 : backlog'[i] = backlog[i + 1]
      /\ hooks' = hooks
  BY TailFacts DEF HandleClient, Typed
<1>3. ASSUME NEW x \in Sids, NEW g \in HookProcess, Waits(x, g)'
      PROVE  \E i \in 2 .. Len(backlog) : backlog[i] = [sid |-> x, hook |-> g]
  <2>1. PICK i \in 1 .. Len(backlog) - 1 : backlog'[i] = [sid |-> x, hook |-> g]
    BY <1>2, <1>3 DEF Waits
  <2>2. i + 1 \in 2 .. Len(backlog) /\ backlog[i + 1] = [sid |-> x, hook |-> g]
    BY <1>2, <2>1
  <2> QED
    BY <2>2
<1>4. \A x \in Sids : UnderWay(x)' \subseteq UnderWay(x)
  BY <1>2, <1>3 DEF UnderWay, Waits
<1>5. hook \in UnderWay(s)
  BY <1>1, <1>2 DEF UnderWay, Waits
<1>6. ASSUME NEW g \in UnderWay(s)' PROVE g.number # hook.number
  <2>1. CASE g \in hooks[s]
    BY <1>1, <1>2, <2>1 DEF Numbered
  <2>0. g \in HookProcess /\ (g \in hooks'[s] \/ Waits(s, g)')
    BY <1>6 DEF UnderWay, Waits
  <2>2. ASSUME Waits(s, g)' PROVE g.number # hook.number
    <3>1. PICK i \in 2 .. Len(backlog) : backlog[i] = [sid |-> s, hook |-> g]
      BY <1>1, <1>3, <2>0, <2>2
    <3>2. backlog[i].sid = s /\ backlog[i].hook = g /\ i # 1 /\ i \in 1 .. Len(backlog)
      BY <1>2, <3>1
    <3>3. 1 \in 1 .. Len(backlog)
      BY <1>2
    <3>4. backlog[i].hook.number = backlog[1].hook.number => i = 1
      BY <1>1, <3>2, <3>3 DEF Numbered
    <3> QED
      BY <1>1, <3>2, <3>4
  <2> QED
    BY <1>2, <2>0, <2>1, <2>2
<1> QED
  BY <1>4, <1>5, <1>6

(* A hook that is fired is the only one that is under way anew.            *)
LEMMA FiredIsUnderWay ==
  ASSUME Typed, NEW s \in Sids, NEW hook,
         hooks' = [hooks EXCEPT ![s] = @ \cup {hook}], UNCHANGED backlog
  PROVE  /\ \A x \in Sids \ {s} : UnderWay(x)' \subseteq UnderWay(x)
         /\ UnderWay(s)' \subseteq UnderWay(s) \cup {hook}
<1>1. hooks'[s] = hooks[s] \cup {hook} /\ \A x \in Sids \ {s} : hooks'[x] = hooks[x]
  BY DEF Typed
<1> QED
  BY <1>1 DEF UnderWay, Waits

(* The numbers stay distinct: a new hook has a number of its own, and a    *)
(* report is in one place at a time.                                       *)
LEMMA NextKeepsNumbered ==
  ASSUME Typed, Numbered, [Next]_vars
  PROVE  Numbered'
<1>t. /\ hooks \in [Sids -> SUBSET HookProcess] /\ backlog \in Seq(Report)
      /\ fired \in [Sids -> Nat] /\ heard \in [Sids -> Nat]
      /\ \A hook \in HookProcess : hook.number \in Nat
  BY DEF Typed, HookProcess
<1>n. ASSUME NEW x \in Sids
      PROVE  /\ heard[x] <= fired[x]
             /\ \A hook \in UnderWay(x) : hook.number <= fired[x]
             /\ \A g, h \in hooks[x] : g.number = h.number => g = h
             /\ \A h \in hooks[x], i \in 1 .. Len(backlog) :
                  backlog[i].sid = x => backlog[i].hook.number # h.number
             /\ \A i, j \in 1 .. Len(backlog) :
                  backlog[i].sid = x /\ backlog[j].sid = x
                    /\ backlog[i].hook.number = backlog[j].hook.number => i = j
  BY DEF Numbered
<1>u. ASSUME NEW x \in Sids
      PROVE  /\ hooks[x] \subseteq UnderWay(x)
             /\ \A i \in 1 .. Len(backlog) :
                  backlog[i].sid = x => backlog[i].hook \in UnderWay(x)
  <2>1. ASSUME NEW i \in 1 .. Len(backlog), backlog[i].sid = x
        PROVE  backlog[i].hook \in UnderWay(x)
    <3>1. backlog[i] \in Report
      BY <1>t
    <3>2. /\ backlog[i].hook \in HookProcess
          /\ backlog[i] = [sid |-> x, hook |-> backlog[i].hook]
      BY <2>1, <3>1 DEF Report
    <3> QED
      BY <3>2 DEF UnderWay, Waits
  <2> QED
    BY <1>t, <2>1 DEF UnderWay
<1>1. ASSUME NEW s \in Sids, Fires(s) PROVE Numbered'
  <2>1. PICK hook \in HookProcess :
          /\ hook.number = fired[s] + 1
          /\ fired' = [fired EXCEPT ![s] = @ + 1]
          /\ hooks' = [hooks EXCEPT ![s] = @ \cup {hook}]
          /\ UNCHANGED <<backlog, heard>>
    BY <1>1, FiresLeads
  <2>2. /\ \A x \in Sids \ {s} : UnderWay(x)' \subseteq UnderWay(x)
        /\ UnderWay(s)' \subseteq UnderWay(s) \cup {hook}
    BY <2>1, FiredIsUnderWay
  <2>3. /\ fired'[s] = fired[s] + 1 /\ hooks'[s] = hooks[s] \cup {hook}
        /\ \A x \in Sids \ {s} : fired'[x] = fired[x] /\ hooks'[x] = hooks[x]
    BY <1>t, <2>1
  <2>4. ASSUME NEW x \in Sids
        PROVE  heard'[x] <= fired'[x] /\ \A g \in UnderWay(x)' : g.number <= fired'[x]
    <3>1. \A g \in UnderWay(x) : g.number \in Nat
      BY <1>t DEF UnderWay
    <3> QED
      BY <1>t, <1>n, <2>1, <2>2, <2>3, <3>1
  <2>5. ASSUME NEW x \in Sids, NEW g \in hooks'[x], NEW h \in hooks'[x], g.number = h.number
        PROVE  g = h
    BY <1>t, <1>n, <1>u, <2>1, <2>3, <2>5
  <2>6. ASSUME NEW x \in Sids, NEW h \in hooks'[x], NEW i \in 1 .. Len(backlog),
               backlog[i].sid = x
        PROVE  backlog[i].hook.number # h.number
    BY <1>t, <1>n, <1>u, <2>1, <2>3, <2>6
  <2> QED
    BY <1>n, <2>1, <2>4, <2>5, <2>6 DEF Numbered
<1>2. ASSUME NEW s \in Sids, NEW hook \in hooks[s], Sends(s, hook) \/ GivesUp(s, hook)
      PROVE  Numbered'
  <2>1. \A x \in Sids : UnderWay(x)' \subseteq UnderWay(x)
    BY <1>2, ProcessEnds
  <2>2. /\ \A x \in Sids : hooks'[x] \subseteq hooks[x]
        /\ hook \notin hooks'[s] /\ fired' = fired /\ heard' = heard
    BY <1>t, <1>2 DEF Sends, GivesUp
  <2>3. CASE GivesUp(s, hook)
    BY <1>n, <2>1, <2>2, <2>3 DEF GivesUp, Numbered
  <2>4. CASE Sends(s, hook)
    <3> DEFINE n == Len(backlog)
    <3>1. [sid |-> s, hook |-> hook] \in Report
      BY <1>t DEF Report
    <3>2. /\ Len(backlog') = n + 1 /\ n \in Nat
          /\ \A i \in 1 .. n : backlog'[i] = backlog[i]
          /\ backlog'[n + 1] = [sid |-> s, hook |-> hook]
      BY <1>t, <2>4, <3>1, AppendFacts DEF Sends
    <3>3. backlog'[n + 1].sid = s /\ backlog'[n + 1].hook = hook
      BY <3>2
    <3> HIDE DEF n
    <3>4. \A i \in 1 .. n + 1 : i = n + 1 \/ (i \in 1 .. n /\ backlog'[i] = backlog[i])
      BY <3>2
    <3>5. ASSUME NEW x \in Sids, NEW h \in hooks'[x], NEW i \in 1 .. n + 1,
                 backlog'[i].sid = x
          PROVE  backlog'[i].hook.number # h.number
      BY <1>n, <2>2, <3>3, <3>4, <3>5 DEF n
    <3>6. ASSUME NEW x \in Sids, NEW i \in 1 .. n + 1, NEW j \in 1 .. n + 1,
                 backlog'[i].sid = x, backlog'[j].sid = x,
                 backlog'[i].hook.number = backlog'[j].hook.number
          PROVE  i = j
      BY <1>n, <3>3, <3>4, <3>6 DEF n
    <3>7. \A x \in Sids : \A g \in UnderWay(x)' : g.number <= fired'[x]
      BY <1>n, <2>1, <2>2
    <3> QED
      BY <1>n, <2>2, <3>2, <3>5, <3>6, <3>7 DEF Numbered
  <2> QED
    BY <1>2, <2>3, <2>4
<1>3. ASSUME HandleClient PROVE Numbered'
  <2>1. PICK s \in Sids, hook \in HookProcess :
          s = Head(backlog).sid /\ hook = Head(backlog).hook
    BY <1>3, HeadReport DEF HandleClient
  <2>2. (\A x \in Sids : UnderWay(x)' \subseteq UnderWay(x)) /\ hook \in UnderWay(s)
    BY <1>3, <2>1, ServedIsOver
  <2>3. /\ hooks' = hooks /\ fired' = fired
        /\ \A x \in Sids : heard'[x] \in {0, heard[x]} \/ (x = s /\ heard'[x] = hook.number)
    <3>1. PICK n \in {0, hook.number} : heard' = [heard EXCEPT ![s] = n]
      BY <1>3, <2>1 DEF HandleClient, Hears
    <3> QED
      BY <1>t, <1>3, <3>1 DEF HandleClient
  <2>4. /\ Len(backlog') = Len(backlog) - 1 /\ Len(backlog) \in Nat \ {0}
        /\ \A i \in 1 .. Len(backlog) - 1 : backlog'[i] = backlog[i + 1]
    BY <1>3, TailFacts DEF HandleClient, Typed
  <2>5. \A i \in 1 .. Len(backlog) - 1 : i + 1 \in 1 .. Len(backlog)
    BY <2>4
  <2>6. ASSUME NEW x \in Sids
        PROVE  heard'[x] <= fired'[x] /\ \A g \in UnderWay(x)' : g.number <= fired'[x]
    <3>1. hook.number <= fired[s] /\ 0 <= fired[x]
      BY <1>t, <1>n, <2>2
    <3> QED
      BY <1>n, <2>2, <2>3, <3>1
  <2>7. ASSUME NEW x \in Sids, NEW i \in 1 .. Len(backlog) - 1,
               NEW j \in 1 .. Len(backlog) - 1,
               backlog'[i].sid = x, backlog'[j].sid = x,
               backlog'[i].hook.number = backlog'[j].hook.number
        PROVE  i = j
    <3>1. i + 1 = j + 1
      BY <1>n, <2>4, <2>5, <2>7
    <3> QED
      BY <3>1
  <2>8. ASSUME NEW x \in Sids, NEW h \in hooks[x], NEW i \in 1 .. Len(backlog) - 1,
               backlog'[i].sid = x
        PROVE  backlog'[i].hook.number # h.number
    BY <1>n, <2>4, <2>5, <2>8
  <2> QED
    BY <1>n, <2>3, <2>4, <2>6, <2>7, <2>8 DEF Numbered
<1>4. ASSUME Sweep \/ BrokerStops PROVE Numbered'
  <2>1. /\ hooks' = hooks /\ fired' = fired /\ backlog' \in {backlog, <<>>}
        /\ \A x \in Sids : heard'[x] \in {0, heard[x]}
    BY <1>4 DEF Sweep, BrokerStops
  <2>2. \A x \in Sids : UnderWay(x)' \subseteq UnderWay(x)
    <3>1. CASE backlog' = backlog
      BY <2>1, <3>1 DEF UnderWay, Waits
    <3>2. CASE backlog' = <<>>
      <4>1. Len(backlog') = 0
        BY <3>2
      <4> QED
        BY <2>1, <4>1 DEF UnderWay, Waits
    <3> QED
      BY <2>1, <3>1, <3>2
  <2>3. ASSUME NEW x \in Sids
        PROVE  heard'[x] <= fired'[x] /\ \A g \in UnderWay(x)' : g.number <= fired'[x]
    <3>1. 0 <= fired[x]
      BY <1>t
    <3> QED
      BY <1>n, <2>1, <2>2, <3>1
  <2>4. backlog' = backlog \/ Len(backlog') = 0
    BY <2>1
  <2> QED
    BY <1>n, <2>1, <2>3, <2>4 DEF Numbered
<1>5. ASSUME NEW s \in Sids, Answered(s) \/ Killed(s) PROVE Numbered'
  <2>1. UNCHANGED <<hooks, backlog, fired, heard>>
    BY <1>5 DEF Answered, Killed
  <2> QED
    BY <2>1 DEF Numbered, UnderWay, Waits
<1>6. CASE Tick \/ BrokerStarts \/ UNCHANGED vars
  <2>1. UNCHANGED <<hooks, backlog, fired, heard>>
    BY <1>6 DEF Tick, BrokerStarts, vars
  <2> QED
    BY <2>1 DEF Numbered, UnderWay, Waits
<1> QED
  BY <1>1, <1>2, <1>3, <1>4, <1>5, <1>6 DEF Next, Agents, Works, Processes

(***************************************************************************)
(* An agent that waits for its hooks has one at a time, and the event loop *)
(* serves the connections in the order in which they came.                 *)
(***************************************************************************)

LEMMA NextKeepsSyncOrdered ==
  ASSUME Typed, Numbered, SyncOrdered, [Next]_vars
  PROVE  SyncOrdered'
<1>t. /\ hooks \in [Sids -> SUBSET HookProcess] /\ backlog \in Seq(Report)
      /\ fired \in [Sids -> Nat] /\ heard \in [Sids -> Nat]
      /\ \A hook \in HookProcess : hook.number \in Nat \ {0}
      /\ \A i \in 1 .. Len(backlog) : backlog[i].hook \in HookProcess
  <2>1. ASSUME NEW i \in 1 .. Len(backlog) PROVE backlog[i].hook \in HookProcess
    <3>1. backlog[i] \in Report
      BY DEF Typed
    <3> QED
      BY <3>1 DEF Report
  <2> QED
    BY <2>1 DEF Typed, HookProcess
<1>o. ASSUME NEW x \in Sids \ Claude
      PROVE  /\ \A h \in hooks[x] : h.number > heard[x] /\ \A g \in hooks[x] : g = h
             /\ \A i \in 1 .. Len(backlog) :
                  backlog[i].sid = x =>
                    /\ backlog[i].hook.number > heard[x]
                    /\ \A h \in hooks[x] : h.number > backlog[i].hook.number
                    /\ \A j \in 1 .. Len(backlog) :
                         i < j /\ backlog[j].sid = x
                           => backlog[i].hook.number < backlog[j].hook.number
  BY DEF SyncOrdered
<1>1. ASSUME NEW s \in Sids, Fires(s) PROVE SyncOrdered'
  <2>1. PICK hook \in HookProcess :
          /\ hook.number = fired[s] + 1
          /\ hooks' = [hooks EXCEPT ![s] = @ \cup {hook}]
          /\ UNCHANGED <<backlog, heard>>
    BY <1>1, FiresLeads
  <2>2. /\ hooks'[s] = hooks[s] \cup {hook}
        /\ \A x \in Sids \ {s} : hooks'[x] = hooks[x]
    BY <1>t, <2>1
  <2>3. ASSUME s \notin Claude
        PROVE  /\ hooks'[s] = {hook} /\ hook.number > heard[s]
               /\ \A i \in 1 .. Len(backlog) :
                    backlog[i].sid = s => hook.number > backlog[i].hook.number
    <3>1. hooks[s] = {}
      BY <1>1, <2>3, FiresLeads DEF MayFire
    <3>2. hook.number > heard[s]
      BY <1>t, <2>1 DEF Numbered
    <3>3. ASSUME NEW i \in 1 .. Len(backlog), backlog[i].sid = s
          PROVE  hook.number > backlog[i].hook.number
      <4>1. backlog[i] \in Report
        BY <1>t
      <4>2. backlog[i] = [sid |-> s, hook |-> backlog[i].hook]
        BY <3>3, <4>1 DEF Report
      <4>3. backlog[i].hook \in UnderWay(s)
        BY <1>t, <4>2 DEF UnderWay, Waits
      <4>4. backlog[i].hook.number <= fired[s]
        BY <4>3 DEF Numbered
      <4> QED
        BY <1>t, <2>1, <4>4
    <3> QED
      BY <2>2, <3>1, <3>2, <3>3
  <2> QED
    BY <1>o, <2>1, <2>2, <2>3 DEF SyncOrdered
<1>2. ASSUME NEW s \in Sids, NEW hook \in hooks[s], Sends(s, hook) PROVE SyncOrdered'
  <2> DEFINE n == Len(backlog)
  <2>1. [sid |-> s, hook |-> hook] \in Report
    BY <1>t DEF Report
  <2>2. /\ Len(backlog') = n + 1 /\ n \in Nat
        /\ \A i \in 1 .. n : backlog'[i] = backlog[i]
        /\ backlog'[n + 1] = [sid |-> s, hook |-> hook]
    BY <1>t, <1>2, <2>1, AppendFacts DEF Sends
  <2>3. backlog'[n + 1].sid = s /\ backlog'[n + 1].hook = hook
    BY <2>2
  <2> HIDE DEF n
  <2>4. \A i \in 1 .. n + 1 : i = n + 1 \/ (i \in 1 .. n /\ backlog'[i] = backlog[i])
    BY <2>2
  <2>5. /\ hooks'[s] = hooks[s] \ {hook} /\ heard' = heard
        /\ \A x \in Sids : hooks'[x] \subseteq hooks[x]
    BY <1>t, <1>2 DEF Sends
  <2>6. ASSUME NEW x \in Sids \ Claude, NEW i \in 1 .. n + 1, backlog'[i].sid = x
        PROVE  /\ backlog'[i].hook.number > heard[x]
               /\ \A h \in hooks'[x] : h.number > backlog'[i].hook.number
    <3>1. CASE i = n + 1
      <4>1. x = s /\ backlog'[i].hook = hook
        BY <2>3, <2>6, <3>1
      <4> QED
        BY <1>o, <2>5, <4>1
    <3>2. CASE i \in 1 .. n /\ backlog'[i] = backlog[i]
      BY <1>o, <2>5, <2>6, <3>2 DEF n
    <3> QED
      BY <2>4, <3>1, <3>2
  <2>7. ASSUME NEW x \in Sids \ Claude, NEW i \in 1 .. n + 1, NEW j \in 1 .. n + 1,
               backlog'[i].sid = x, backlog'[j].sid = x, i < j
        PROVE  backlog'[i].hook.number < backlog'[j].hook.number
    <3>1. i \in 1 .. n /\ backlog'[i] = backlog[i]
      BY <2>2, <2>4, <2>7
    <3>2. CASE j = n + 1
      <4>1. x = s /\ backlog'[j].hook = hook
        BY <2>3, <2>7, <3>2
      <4>2. hook.number > backlog[i].hook.number
        BY <1>o, <2>7, <3>1, <4>1 DEF n
      <4> QED
        BY <1>t, <3>1, <4>1, <4>2 DEF n
    <3>3. CASE j \in 1 .. n /\ backlog'[j] = backlog[j]
      BY <1>o, <2>7, <3>1, <3>3 DEF n
    <3> QED
      BY <2>4, <3>2, <3>3
  <2> QED
    BY <1>o, <2>2, <2>5, <2>6, <2>7 DEF SyncOrdered
<1>3. ASSUME NEW s \in Sids, NEW hook \in hooks[s], GivesUp(s, hook) PROVE SyncOrdered'
  <2>1. \A x \in Sids : hooks'[x] \subseteq hooks[x]
    BY <1>t, <1>3 DEF GivesUp
  <2>2. UNCHANGED <<backlog, heard>>
    BY <1>3 DEF GivesUp
  <2> QED
    BY <1>o, <2>1, <2>2 DEF SyncOrdered
<1>4. ASSUME HandleClient PROVE SyncOrdered'
  <2>1. PICK s \in Sids, hook \in HookProcess :
          /\ s = Head(backlog).sid /\ hook = Head(backlog).hook
          /\ backlog[1].sid = s /\ backlog[1].hook = hook
    BY <1>4, HeadReport DEF HandleClient
  <2>2. PICK n \in {0, hook.number} : heard' = [heard EXCEPT ![s] = n]
    BY <1>4, <2>1 DEF HandleClient, Hears
  <2>3. /\ heard'[s] = n /\ \A x \in Sids \ {s} : heard'[x] = heard[x]
    BY <1>t, <2>2
  <2>4. /\ Len(backlog') = Len(backlog) - 1 /\ Len(backlog) \in Nat \ {0}
        /\ \A i \in 1 .. Len(backlog) - 1 : backlog'[i] = backlog[i + 1]
        /\ hooks' = hooks
    BY <1>4, TailFacts DEF HandleClient, Typed
  <2>5. /\ 1 \in 1 .. Len(backlog)
        /\ \A i \in 1 .. Len(backlog) - 1 : i + 1 \in 1 .. Len(backlog) /\ 1 < i + 1
    BY <2>4
  <2>6. ASSUME NEW x \in Sids \ Claude
        PROVE  /\ \A h \in hooks[x] : h.number > heard'[x]
               /\ \A i \in 1 .. Len(backlog) - 1 :
                    backlog'[i].sid = x => backlog'[i].hook.number > heard'[x]
    <3>1. CASE x = s
      <4>1. /\ \A h \in hooks[s] : h.number > hook.number /\ h.number > 0
            /\ \A i \in 1 .. Len(backlog) - 1 :
                 backlog'[i].sid = s =>
                   backlog'[i].hook.number > hook.number /\ backlog'[i].hook.number > 0
        <5>1. ASSUME NEW h \in hooks[s] PROVE h.number > hook.number /\ h.number > 0
          <6>1. h.number \in Nat \ {0}
            BY <1>t
          <6> QED
            BY <1>o, <2>1, <2>5, <3>1, <6>1
        <5>2. ASSUME NEW i \in 1 .. Len(backlog) - 1, backlog'[i].sid = s
              PROVE  backlog'[i].hook.number > hook.number /\ backlog'[i].hook.number > 0
          <6>1. /\ i + 1 \in 1 .. Len(backlog) /\ 1 < i + 1
                /\ backlog[i + 1].sid = s /\ backlog'[i] = backlog[i + 1]
            BY <2>4, <2>5, <5>2
          <6>2. backlog[1].hook.number < backlog[i + 1].hook.number
            BY <1>o, <2>1, <2>5, <3>1, <6>1
          <6>3. backlog[i + 1].hook.number \in Nat \ {0} /\ hook.number \in Nat
            BY <1>t, <6>1
          <6> QED
            BY <2>1, <6>1, <6>2, <6>3
        <5> QED
          BY <5>1, <5>2
      <4> QED
        BY <2>2, <2>3, <3>1, <4>1
    <3>2. CASE x # s
      <4>1. \A i \in 1 .. Len(backlog) - 1 :
              i + 1 \in 1 .. Len(backlog) /\ backlog'[i] = backlog[i + 1]
        BY <2>4, <2>5
      <4> QED
        BY <1>o, <2>3, <3>2, <4>1
    <3> QED
      BY <3>1, <3>2
  <2>7. ASSUME NEW x \in Sids \ Claude, NEW i \in 1 .. Len(backlog) - 1,
               backlog'[i].sid = x
        PROVE  /\ \A h \in hooks[x] : h.number > backlog'[i].hook.number
               /\ \A j \in 1 .. Len(backlog) - 1 :
                    i < j /\ backlog'[j].sid = x
                      => backlog'[i].hook.number < backlog'[j].hook.number
    <3>1. /\ i + 1 \in 1 .. Len(backlog) /\ backlog'[i] = backlog[i + 1]
          /\ backlog[i + 1].sid = x
      BY <2>4, <2>5, <2>7
    <3>2. ASSUME NEW j \in 1 .. Len(backlog) - 1, i < j, backlog'[j].sid = x
          PROVE  backlog'[i].hook.number < backlog'[j].hook.number
      <4>1. /\ j + 1 \in 1 .. Len(backlog) /\ backlog'[j] = backlog[j + 1]
            /\ i + 1 < j + 1
        BY <2>4, <2>5, <3>2
      <4> QED
        BY <1>o, <3>1, <3>2, <4>1
    <3> QED
      BY <1>o, <3>1, <3>2
  <2> QED
    BY <1>o, <2>4, <2>6, <2>7 DEF SyncOrdered
<1>5. ASSUME Sweep \/ BrokerStops PROVE SyncOrdered'
  <2>1. /\ hooks' = hooks /\ (backlog' = backlog \/ Len(backlog') = 0)
        /\ \A x \in Sids : heard'[x] \in {0, heard[x]}
    <3>1. Len(<<>>) = 0
      OBVIOUS
    <3> QED
      BY <1>5, <3>1 DEF Sweep, BrokerStops
  <2>2. ASSUME NEW x \in Sids \ Claude
        PROVE  /\ \A h \in hooks[x] : h.number > heard'[x]
               /\ \A i \in 1 .. Len(backlog) :
                    backlog[i].sid = x => backlog[i].hook.number > heard'[x]
    BY <1>t, <1>o, <2>1
  <2> QED
    BY <1>o, <2>1, <2>2 DEF SyncOrdered
<1>6. ASSUME NEW s \in Sids, Answered(s) \/ Killed(s) PROVE SyncOrdered'
  <2>1. UNCHANGED <<hooks, backlog, heard>>
    BY <1>6 DEF Answered, Killed
  <2> QED
    BY <2>1 DEF SyncOrdered
<1>7. CASE Tick \/ BrokerStarts \/ UNCHANGED vars
  <2>1. UNCHANGED <<hooks, backlog, heard>>
    BY <1>7 DEF Tick, BrokerStarts, vars
  <2> QED
    BY <2>1 DEF SyncOrdered
<1> QED
  BY <1>1, <1>2, <1>3, <1>4, <1>5, <1>6, <1>7 DEF Next, Agents, Works, Processes

LEMMA SyncHolds == Spec => [](Typed /\ Numbered /\ SyncOrdered)
<1>1. Init => Typed /\ Numbered /\ SyncOrdered
  <2> SUFFICES ASSUME Init PROVE Typed /\ Numbered /\ SyncOrdered
    OBVIOUS
  <2>1. Len(backlog) = 0 /\ \A x \in Sids : hooks[x] = {} /\ heard[x] = 0 /\ fired[x] = 0
    BY DEF Init
  <2>2. Numbered /\ SyncOrdered
    BY <2>1 DEF Numbered, SyncOrdered, UnderWay, Waits
  <2> QED
    BY <2>2, InitTyped
<1>2. Typed /\ Numbered /\ SyncOrdered /\ [Next]_vars
        => (Typed /\ Numbered /\ SyncOrdered)'
  BY NextKeepsTyped, NextKeepsNumbered, NextKeepsSyncOrdered
<1> QED
  BY <1>1, <1>2, PTL DEF Spec

(* The reports of an agent that waits for its hooks take effect in the     *)
(* order in which it fired them.                                           *)
THEOREM SyncInOrder == Spec => SyncReportsKeepOrder
<1>1. ASSUME Typed, Numbered, SyncOrdered, [Next]_vars, NEW x \in Sids \ Claude
      PROVE  KeepsOrder(x)
  <2>t. heard \in [Sids -> Nat]
    BY <1>1 DEF Typed
  <2>1. CASE HandleClient
    <3>1. PICK s \in Sids, hook \in HookProcess :
            /\ s = Head(backlog).sid /\ hook = Head(backlog).hook
            /\ backlog[1].sid = s /\ backlog[1].hook = hook
      BY <1>1, <2>1, HeadReport DEF HandleClient
    <3>2. PICK n \in {0, hook.number} : heard' = [heard EXCEPT ![s] = n]
      BY <2>1, <3>1 DEF HandleClient, Hears
    <3>3. 1 \in 1 .. Len(backlog)
      BY <1>1, <2>1, TailFacts DEF HandleClient, Typed
    <3>4. CASE x = s
      <4>1. hook.number > heard[s] /\ heard'[s] = n /\ hook.number \in Nat
        BY <1>1, <2>t, <3>1, <3>2, <3>3, <3>4 DEF SyncOrdered, HookProcess
      <4> QED
        BY <2>t, <3>2, <3>4, <4>1 DEF KeepsOrder
    <3>5. CASE x # s
      BY <1>1, <2>t, <3>2, <3>5 DEF KeepsOrder
    <3> QED
      BY <3>4, <3>5
  <2>2. CASE Sweep \/ BrokerStops
    <3>1. heard'[x] \in {0, heard[x]}
      BY <1>1, <2>2 DEF Sweep, BrokerStops
    <3> QED
      BY <1>1, <2>t, <3>1 DEF KeepsOrder
  <2>3. CASE ~(HandleClient \/ Sweep \/ BrokerStops)
    <3>1. heard' = heard
      BY <1>1, <2>3 DEF Next, Agents, Works, Processes, Fires, Answered, Killed, Sends,
                        GivesUp, Tick, BrokerStarts, vars
    <3> QED
      BY <1>1, <2>t, <3>1 DEF KeepsOrder
  <2> QED
    BY <2>1, <2>2, <2>3
<1>2. Typed /\ Numbered /\ SyncOrdered /\ [Next]_vars
        => \A s \in Sids \ Claude : KeepsOrder(s)
  BY <1>1
<1> QED
  BY <1>2, SyncHolds, PTL DEF Spec, SyncReportsKeepOrder

(***************************************************************************)
(* The history of a session outlives every step: a hook that is fired adds *)
(* the place to which it takes the agent, a report that is served in its   *)
(* context makes the ring show the place of its number, and one that is    *)
(* lost or served out of turn leaves a gap after what the ring shows.      *)
(***************************************************************************)

(* What is shown of a session depends on its record only.                  *)
LEMMA ShownAlike ==
  ASSUME NEW t, NEW u, NEW s, NEW p,
         s \in Live(u) <=> s \in Live(t),
         s \in Live(t) => /\ u.sessions[s].state = t.sessions[s].state
                         /\ u.sessions[s].wakeup = t.sessions[s].wakeup,
         ShownIn(t, s, p)
  PROVE  ShownIn(u, s, p)
<1>1. CASE p \in {"off", "over"}
  BY <1>1 DEF ShownIn
<1>2. CASE p \notin {"off", "over"}
  BY <1>2 DEF ShownIn
<1> QED
  BY <1>1, <1>2

(* A step that fires and serves no hook of s.                              *)
LEMMA ToldStays ==
  ASSUME Typed, NEW s \in Sids, NEW H \in [Nat -> Places], Told(s, H),
         fired'[s] = fired[s], heard'[s] = heard[s],
         UnderWay(s)' \subseteq UnderWay(s),
         \A p \in Places : Follows(s, p) => Follows(s, p)',
         \A p \in Places : ShownIn(table, s, p) => ShownIn(table', s, p)
  PROVE  Told(s, H)'
<1>1. /\ fired[s] \in Nat /\ heard[s] \in Nat
      /\ H[fired[s]] \in Places /\ H[heard[s]] \in Places
  BY DEF Typed
<1>2. H[0] = "off" /\ Follows(s, H[fired[s]])'
  <2>1. Follows(s, H[fired[s]])
    BY DEF Told
  <2> QED
    BY <1>1, <2>1 DEF Told, Follows
<1>3. \A hook \in UnderWay(s)' : Leads(hook.verb, H[hook.number - 1], H[hook.number])
  BY DEF Told
<1>4. Unbroken(s, heard[s] + 1)' => Unbroken(s, heard[s] + 1)
  BY DEF Unbroken
<1>5. Unbroken(s, heard[s] + 1)' => ShownIn(table', s, H[heard'[s]])
  BY <1>1, <1>4 DEF Told
<1> QED
  BY <1>2, <1>3, <1>5 DEF Told

(* A step after which s is not on the table, and shows nothing.            *)
LEMMA ToldGone ==
  ASSUME Typed, NEW s \in Sids, NEW H \in [Nat -> Places], Told(s, H),
         fired'[s] = fired[s], stage'[s] = stage[s], heard'[s] = 0,
         UnderWay(s)' \subseteq UnderWay(s),
         s \notin Live(table') \/ ~Unbroken(s, 1)'
  PROVE  Told(s, H)'
<1>1. H[0] = "off" /\ Follows(s, H[fired[s]])'
  BY DEF Told, Follows
<1>2. \A hook \in UnderWay(s)' : Leads(hook.verb, H[hook.number - 1], H[hook.number])
  BY DEF Told
<1>3. s \notin Live(table') => ShownIn(table', s, H[heard'[s]])
  BY <1>1 DEF ShownIn
<1>4. Unbroken(s, heard[s] + 1)' => Unbroken(s, 1)'
  BY DEF Unbroken
<1> QED
  BY <1>1, <1>2, <1>3, <1>4 DEF Told

LEMMA FiresKeepsTold ==
  ASSUME Typed, Numbered, Histories, NEW s \in Sids, Fires(s)
  PROVE  Histories'
<1>t. /\ fired \in [Sids -> Nat] /\ heard \in [Sids -> Nat] /\ stage \in [Sids -> Stages]
      /\ \A g \in HookProcess : g.number \in Nat \ {0}
  BY DEF Typed, HookProcess
<1>1. PICK hook \in HookProcess, q \in Places :
        /\ hook.number = fired[s] + 1
        /\ Leads(hook.verb, stage[s], q)
        /\ stage[s] # "killed"
        /\ hook.verb \in Contextual => stage[s] # "answered"
        /\ stage' = [stage EXCEPT ![s] = q]
        /\ fired' = [fired EXCEPT ![s] = @ + 1]
        /\ hooks' = [hooks EXCEPT ![s] = @ \cup {hook}]
        /\ UNCHANGED <<up, table, backlog, heard>>
  BY FiresLeads
<1>2. /\ \A x \in Sids \ {s} : UnderWay(x)' \subseteq UnderWay(x)
      /\ UnderWay(s)' \subseteq UnderWay(s) \cup {hook}
  BY <1>1, FiredIsUnderWay
<1>3. ASSUME NEW x \in Sids \ {s} PROVE \E H \in [Nat -> Places] : Told(x, H)'
  <2>1. PICK H \in [Nat -> Places] : Told(x, H)
    BY DEF Histories
  <2>2. fired'[x] = fired[x] /\ heard'[x] = heard[x] /\ stage'[x] = stage[x]
    BY <1>t, <1>1
  <2>3. \A p \in Places : Follows(x, p) => Follows(x, p)'
    BY <2>2 DEF Follows
  <2>4. Told(x, H)'
    BY <1>1, <1>2, <2>1, <2>2, <2>3, ToldStays
  <2> QED
    BY <2>4
<1>4. \E H \in [Nat -> Places] : Told(s, H)'
  <2>1. PICK H \in [Nat -> Places] : Told(s, H)
    BY DEF Histories
  <2>2. PICK n \in Nat : n = fired[s]
    BY <1>t
  <2> DEFINE J == [H EXCEPT ![n + 1] = q]
  <2>3. /\ J \in [Nat -> Places] /\ J[n + 1] = q
        /\ \A k \in 0 .. n : J[k] = H[k]
    OBVIOUS
  <2> HIDE DEF J
  <2>4. /\ fired'[s] = n + 1 /\ heard'[s] = heard[s] /\ stage'[s] = q
        /\ heard[s] \in 0 .. n
    BY <1>t, <1>1, <2>2 DEF Numbered
  <2>5. J[0] = "off" /\ Follows(s, J[fired[s]])'
    BY <2>1, <2>3, <2>4 DEF Told, Follows
  <2>6. Leads(hook.verb, J[n], J[n + 1])
    <3>1. Follows(s, H[n])
      BY <2>1, <2>2 DEF Told
    <3>2. CASE stage[s] = H[n]
      BY <1>1, <2>3, <3>2
    <3>3. CASE stage[s] = "answered"
      <4>1. hook.verb \notin {"start", "notify:idle_prompt"}
        BY <1>1, <3>3 DEF Contextual
      <4> QED
        BY <1>1, <2>3, <4>1 DEF Leads
    <3> QED
      BY <1>1, <3>1, <3>2, <3>3 DEF Follows
  <2>7. ASSUME NEW g \in UnderWay(s)'
        PROVE  Leads(g.verb, J[g.number - 1], J[g.number])
    <3>1. CASE g = hook
      BY <1>1, <2>2, <2>6, <3>1
    <3>2. CASE g \in UnderWay(s)
      <4>1. g.number \in Nat \ {0} /\ g.number <= n
        BY <1>t, <2>2, <3>2 DEF UnderWay, Numbered
      <4>2. g.number \in 0 .. n /\ g.number - 1 \in 0 .. n
        BY <4>1
      <4>3. Leads(g.verb, H[g.number - 1], H[g.number])
        BY <2>1, <3>2 DEF Told
      <4> QED
        BY <2>3, <4>2, <4>3
    <3> QED
      BY <1>2, <3>1, <3>2
  <2>8. ASSUME Unbroken(s, heard[s] + 1)' PROVE Unbroken(s, heard[s] + 1)
    <3>1. ASSUME NEW k \in heard[s] + 1 .. n PROVE \E g \in UnderWay(s) : g.number = k
      <4>1. k \in heard'[s] + 1 .. fired'[s]
        BY <1>t, <2>4
      <4>2. PICK g \in UnderWay(s)' : g.number = k
        BY <2>8, <4>1 DEF Unbroken
      <4>3. g # hook
        BY <1>t, <1>1, <2>2, <4>2
      <4> QED
        BY <1>2, <4>2, <4>3
    <3> QED
      BY <2>2, <3>1 DEF Unbroken
  <2>9. Unbroken(s, heard[s] + 1)' => ShownIn(table', s, J[heard'[s]])
    BY <1>1, <2>1, <2>3, <2>4, <2>8 DEF Told
  <2>10. Told(s, J)'
    BY <2>5, <2>7, <2>9 DEF Told
  <2> QED
    BY <2>3, <2>10
<1> QED
  BY <1>3, <1>4 DEF Histories

LEMMA HandleClientKeepsTold ==
  ASSUME Typed, Numbered, Histories, HandleClient
  PROVE  Histories'
<1>1. PICK s \in Sids, hook \in HookProcess :
        s = Head(backlog).sid /\ hook = Head(backlog).hook
  BY HeadReport DEF HandleClient
<1>2. PICK pid \in Pids : pid = IF s \in Claude THEN s ELSE NoPid
  BY <1>1, HeadReport DEF HandleClient
<1> DEFINE t == HandleEvent(table, s, hook.verb, pid, NoCwd, Alive)
<1>3. /\ table' = t /\ heard' = [heard EXCEPT ![s] = Hears(s, hook, t)]
      /\ UNCHANGED <<up, stage, hooks, fired>>
  BY <1>1, <1>2 DEF HandleClient
<1>t. /\ fired \in [Sids -> Nat] /\ heard \in [Sids -> Nat]
      /\ table \in TableOf(SessionRecord) /\ TableInv(table)
      /\ hook.verb \in ReportVerbs /\ hook.number \in Nat \ {0}
      /\ NoCwd \in CwdNames
  BY DEF Typed, TableGood, HookProcess, CwdNames
<1>4. /\ \A x \in Sids : UnderWay(x)' \subseteq UnderWay(x)
      /\ hook \in UnderWay(s)
      /\ \A g \in UnderWay(s)' : g.number # hook.number
  BY <1>1, ServedIsOver
<1>5. /\ Live(t) \ {s} = Live(table) \ {s}
      /\ \A x \in Live(table) \ {s} : t.sessions[x] = table.sessions[x]
  BY <1>t, HandleEventEffect
<1>6. /\ heard'[s] = Hears(s, hook, t)
      /\ \A x \in Sids \ {s} : heard'[x] = heard[x]
  BY <1>t, <1>3
<1>7. hook.number \in 1 .. fired[s]
  BY <1>t, <1>4 DEF Numbered
<1>8. ASSUME NEW x \in Sids \ {s} PROVE \E H \in [Nat -> Places] : Told(x, H)'
  <2>1. PICK H \in [Nat -> Places] : Told(x, H)
    BY DEF Histories
  <2>2. fired'[x] = fired[x] /\ heard'[x] = heard[x]
    BY <1>3, <1>6
  <2>3. \A p \in Places : Follows(x, p) => Follows(x, p)'
    BY <1>3 DEF Follows
  <2>4. /\ x \in Live(t) <=> x \in Live(table)
        /\ x \in Live(table) => t.sessions[x] = table.sessions[x]
    BY <1>5
  <2> HIDE DEF t
  <2>5. \A p \in Places : ShownIn(table, x, p) => ShownIn(table', x, p)
    BY <1>3, <2>4, ShownAlike
  <2>6. Told(x, H)'
    BY <1>4, <2>1, <2>2, <2>3, <2>5, ToldStays
  <2> QED
    BY <2>6
<1>9. \E H \in [Nat -> Places] : Told(s, H)'
  <2>1. PICK H \in [Nat -> Places] : Told(s, H)
    BY DEF Histories
  <2>2. ~Unbroken(s, 1)'
    BY <1>3, <1>4, <1>7 DEF Unbroken
  <2>3. CASE Hears(s, hook, t) = 0
    <3>1. Told(s, H)'
      BY <1>3, <1>4, <1>6, <2>1, <2>2, <2>3, ToldGone
    <3> QED
      BY <3>1
  <2>4. CASE /\ hook.verb = "end" \/ s \in Live(t)
             /\ hook.verb \in Contextual => heard[s] + 1 = hook.number
    <3>1. heard'[s] = hook.number
      BY <1>6, <2>4 DEF Hears
    <3>2. PICK k \in Nat \ {0} : k = hook.number
      BY <1>t
    <3>3. /\ H[k] \in Places /\ H[k - 1] \in Places
          /\ Leads(hook.verb, H[k - 1], H[k])
      BY <1>4, <2>1, <3>2 DEF Told
    <3>4. ASSUME Unbroken(s, heard[s] + 1)', hook.verb \in Contextual
          PROVE  ShownIn(table, s, H[k - 1])
      <4>1. heard[s] = k - 1 /\ heard'[s] = k
        BY <1>t, <2>4, <3>1, <3>2, <3>4
      <4>2. ASSUME NEW j \in k .. fired[s] PROVE \E g \in UnderWay(s) : g.number = j
        <5>1. CASE j = k
          BY <1>4, <3>2, <5>1
        <5>2. CASE j # k
          <6>1. j \in heard'[s] + 1 .. fired'[s]
            BY <1>3, <1>t, <4>1, <5>2
          <6>2. PICK g \in UnderWay(s)' : g.number = j
            BY <3>4, <6>1 DEF Unbroken
          <6> QED
            BY <1>4, <6>2
        <5> QED
          BY <5>1, <5>2
      <4>3. Unbroken(s, heard[s] + 1)
        BY <4>1, <4>2 DEF Unbroken
      <4> QED
        BY <2>1, <4>1, <4>3 DEF Told
    <3>5. Unbroken(s, heard[s] + 1)' => ShownIn(t, s, H[k])
      BY <1>t, <2>4, <3>3, <3>4, ReportShows
    <3> HIDE DEF t
    <3>6. Unbroken(s, heard[s] + 1)' => ShownIn(table', s, H[heard'[s]])
      BY <1>3, <3>1, <3>2, <3>5
    <3>7. /\ H[0] = "off" /\ Follows(s, H[fired[s]])'
          /\ \A g \in UnderWay(s)' : Leads(g.verb, H[g.number - 1], H[g.number])
      BY <1>3, <1>4, <2>1 DEF Told, Follows
    <3>8. Told(s, H)'
      BY <3>6, <3>7 DEF Told
    <3> QED
      BY <3>8
  <2> QED
    BY <2>3, <2>4 DEF Hears
<1> QED
  BY <1>8, <1>9 DEF Histories

LEMMA NextKeepsHistories ==
  ASSUME Typed, Numbered, Histories, [Next]_vars
  PROVE  Histories'
<1>t. /\ table \in TableOf(SessionRecord) /\ TableInv(table)
      /\ heard \in [Sids -> Nat]
  BY DEF Typed, TableGood
<1>k. ASSUME UNCHANGED <<fired, heard>>,
             \A x \in Sids : UnderWay(x)' \subseteq UnderWay(x),
             \A x \in Sids, p \in Places : Follows(x, p) => Follows(x, p)',
             \A x \in Sids, p \in Places : ShownIn(table, x, p) => ShownIn(table', x, p)
      PROVE  Histories'
  <2>1. ASSUME NEW x \in Sids PROVE \E H \in [Nat -> Places] : Told(x, H)'
    <3>1. PICK H \in [Nat -> Places] : Told(x, H)
      BY DEF Histories
    <3>2. Told(x, H)'
      BY <1>k, <3>1, ToldStays
    <3> QED
      BY <3>2
  <2> QED
    BY <2>1 DEF Histories
<1>1. ASSUME NEW s \in Sids, Fires(s) PROVE Histories'
  BY <1>1, FiresKeepsTold
<1>2. ASSUME NEW s \in Sids, Answered(s) \/ Killed(s) PROVE Histories'
  <2>1. /\ UNCHANGED <<table, backlog, hooks, fired, heard>>
        /\ \/ stage[s] = "asking" /\ stage' = [stage EXCEPT ![s] = "answered"]
           \/ stage' = [stage EXCEPT ![s] = "killed"]
    BY <1>2 DEF Answered, Killed
  <2>2. ASSUME NEW x \in Sids, NEW p \in Places, Follows(x, p) PROVE Follows(x, p)'
    <3>1. \/ stage'[x] = stage[x]
          \/ stage[x] = "asking" /\ stage'[x] = "answered"
          \/ stage'[x] = "killed"
      BY <2>1 DEF Typed
    <3> QED
      BY <2>2, <3>1 DEF Follows
  <2>3. \A x \in Sids : UnderWay(x)' \subseteq UnderWay(x)
    BY <2>1 DEF UnderWay, Waits
  <2> QED
    BY <1>k, <2>1, <2>2, <2>3
<1>3. ASSUME NEW s \in Sids, NEW hook \in hooks[s], Sends(s, hook) \/ GivesUp(s, hook)
      PROVE  Histories'
  <2>1. UNCHANGED <<table, stage, fired, heard>>
    BY <1>3 DEF Sends, GivesUp
  <2>2. \A x \in Sids : UnderWay(x)' \subseteq UnderWay(x)
    BY <1>3, ProcessEnds
  <2>3. \A x \in Sids, p \in Places : Follows(x, p) => Follows(x, p)'
    BY <2>1 DEF Follows
  <2> QED
    BY <1>k, <2>1, <2>2, <2>3
<1>4. CASE HandleClient
  BY <1>4, HandleClientKeepsTold
<1>5. CASE Sweep
  <2> DEFINE t == Swept(table, Alive)
  <2>1. /\ table' = t /\ UNCHANGED <<backlog, stage, hooks, fired>>
        /\ \A x \in Sids : heard'[x] = IF x \in Live(table) \ Live(t) THEN 0 ELSE heard[x]
    BY <1>5 DEF Sweep
  <2>2. /\ Live(t) \subseteq Live(table)
        /\ \A x \in Live(t) : t.sessions[x] = table.sessions[x]
    BY <1>t, SweptEffect
  <2> HIDE DEF t
  <2>3. \A x \in Sids : UnderWay(x)' \subseteq UnderWay(x)
    BY <2>1 DEF UnderWay, Waits
  <2>4. ASSUME NEW x \in Sids PROVE \E H \in [Nat -> Places] : Told(x, H)'
    <3>1. PICK H \in [Nat -> Places] : Told(x, H)
      BY DEF Histories
    <3>2. CASE x \in Live(table) \ Live(t)
      <4>1. Told(x, H)'
        BY <2>1, <2>3, <3>1, <3>2, ToldGone
      <4> QED
        BY <4>1
    <3>3. CASE x \notin Live(table) \ Live(t)
      <4>1. \A p \in Places : ShownIn(table, x, p) => ShownIn(table', x, p)
        BY <2>1, <2>2, <3>3, ShownAlike
      <4>2. \A p \in Places : Follows(x, p) => Follows(x, p)'
        BY <2>1 DEF Follows
      <4>3. fired'[x] = fired[x] /\ heard'[x] = heard[x]
        BY <2>1, <3>3
      <4>4. Told(x, H)'
        BY <2>3, <3>1, <4>1, <4>2, <4>3, ToldStays
      <4> QED
        BY <4>4
    <3> QED
      BY <3>2, <3>3
  <2> QED
    BY <2>4 DEF Histories
<1>6. CASE Tick
  <2>1. table' = Elapse(table) /\ UNCHANGED <<backlog, stage, hooks, fired, heard>>
    BY <1>6 DEF Tick
  <2> DEFINE t == Elapse(table)
  <2>2. /\ Live(t) = Live(table)
        /\ \A x \in Live(table) : /\ t.sessions[x].state = table.sessions[x].state
                                 /\ t.sessions[x].wakeup = table.sessions[x].wakeup
    BY <1>t, ElapseEffect
  <2> HIDE DEF t
  <2>3. \A x \in Sids, p \in Places : ShownIn(table, x, p) => ShownIn(t, x, p)
    BY <2>2, ShownAlike
  <2>4. \A x \in Sids : UnderWay(x)' \subseteq UnderWay(x)
    BY <2>1 DEF UnderWay, Waits
  <2>5. \A x \in Sids, p \in Places : Follows(x, p) => Follows(x, p)'
    BY <2>1 DEF Follows
  <2> QED
    BY <1>k, <2>1, <2>3, <2>4, <2>5 DEF t
<1>7. CASE BrokerStops
  <2>1. /\ table' = EmptyTable /\ backlog' = <<>> /\ UNCHANGED <<stage, hooks, fired>>
        /\ \A x \in Sids : heard'[x] = 0
    BY <1>7 DEF BrokerStops
  <2>2. Live(table') = {}
    BY <2>1, EmptyTableOK
  <2>3. Len(backlog') = 0
    BY <2>1
  <2>4. \A x \in Sids : UnderWay(x)' \subseteq UnderWay(x)
    BY <2>1, <2>3 DEF UnderWay, Waits
  <2>5. ASSUME NEW x \in Sids PROVE \E H \in [Nat -> Places] : Told(x, H)'
    <3>1. PICK H \in [Nat -> Places] : Told(x, H)
      BY DEF Histories
    <3>2. Told(x, H)'
      BY <2>1, <2>2, <2>4, <3>1, ToldGone
    <3> QED
      BY <3>2
  <2> QED
    BY <2>5 DEF Histories
<1>8. CASE BrokerStarts \/ UNCHANGED vars
  <2>1. UNCHANGED <<table, backlog, stage, hooks, fired, heard>>
    BY <1>8 DEF BrokerStarts, vars
  <2>2. \A x \in Sids : UnderWay(x)' \subseteq UnderWay(x)
    BY <2>1 DEF UnderWay, Waits
  <2>3. \A x \in Sids, p \in Places : Follows(x, p) => Follows(x, p)'
    BY <2>1 DEF Follows
  <2> QED
    BY <1>k, <2>1, <2>2, <2>3
<1> QED
  BY <1>1, <1>2, <1>3, <1>4, <1>5, <1>6, <1>7, <1>8
     DEF Next, Agents, Works, Processes

LEMMA HistoriesHold == Spec => [](Typed /\ Numbered /\ Histories)
<1>1. Init => Typed /\ Numbered /\ Histories
  <2> SUFFICES ASSUME Init PROVE Typed /\ Numbered /\ Histories
    OBVIOUS
  <2>1. /\ Len(backlog) = 0 /\ Live(table) = {}
        /\ \A x \in Sids : /\ hooks[x] = {} /\ heard[x] = 0 /\ fired[x] = 0
                          /\ stage[x] = "off"
    <3>1. table = EmptyTable /\ Len(<<>>) = 0
      BY DEF Init
    <3>2. Live(table) = {}
      BY <3>1, EmptyTableOK
    <3> QED
      BY <3>1, <3>2 DEF Init
  <2>2. Numbered
    BY <2>1 DEF Numbered, UnderWay, Waits
  <2> DEFINE H == [n \in Nat |-> "off"]
  <2>3. H \in [Nat -> Places] /\ H[0] = "off"
    BY DEF Places, Stages
  <2> HIDE DEF H
  <2>4. ASSUME NEW x \in Sids PROVE Told(x, H)
    <3>1. UnderWay(x) = {}
      BY <2>1 DEF UnderWay, Waits
    <3>2. H[fired[x]] = "off" /\ H[heard[x]] = "off" /\ stage[x] = "off"
      BY <2>1, <2>3
    <3>3. Follows(x, H[fired[x]]) /\ ShownIn(table, x, H[heard[x]])
      BY <2>1, <3>2 DEF Follows, ShownIn
    <3> QED
      BY <2>3, <3>1, <3>3 DEF Told
  <2>5. Histories
    BY <2>3, <2>4 DEF Histories
  <2> QED
    BY <2>2, <2>5, InitTyped
<1>2. Typed /\ Numbered /\ Histories /\ [Next]_vars
        => (Typed /\ Numbered /\ Histories)'
  BY NextKeepsTyped, NextKeepsNumbered, NextKeepsHistories
<1> QED
  BY <1>1, <1>2, PTL DEF Spec

(* A session whose last hook reached its segment is shown as what its      *)
(* agent is doing, whatever was lost, overtaken, refused or evicted before *)
(* and however often the broker was restarted.                             *)
THEOREM RingShowsTheTruth == Spec => []RingCatchesUp
<1>1. ASSUME Typed, Histories, NEW s \in Sids, heard[s] = fired[s] PROVE Truthful(s)
  <2>1. PICK H \in [Nat -> Places] : Told(s, H)
    BY <1>1 DEF Histories
  <2>2. fired[s] \in Nat
    BY <1>1 DEF Typed
  <2>3. Unbroken(s, heard[s] + 1)
    BY <1>1, <2>2 DEF Unbroken
  <2>4. ShownIn(table, s, H[fired[s]]) /\ Follows(s, H[fired[s]])
    BY <1>1, <2>1, <2>3 DEF Told
  <2>5. stage[s] \in Stages
    BY <1>1 DEF Typed
  <2>6. CASE stage[s] = "killed"
    BY <2>6 DEF Truthful
  <2>7. CASE stage[s] \in {"off", "over"}
    BY <2>4, <2>7 DEF Truthful, ShownIn, Follows
  <2>8. CASE stage[s] = "answered"
    <3>1. H[fired[s]] = "asking" /\ Shows("asking") = Shows("answered")
      <4>1. H[fired[s]] \in Places
        BY <2>2
      <4> QED
        BY <2>4, <2>8, <4>1 DEF Follows, Shows, Places
    <3> QED
      BY <2>4, <2>8, <3>1 DEF Truthful, ShownIn
  <2>9. CASE stage[s] \notin {"killed", "off", "over", "answered"}
    <3>1. H[fired[s]] = stage[s]
      BY <2>4, <2>9 DEF Follows
    <3> QED
      BY <2>4, <2>9, <3>1 DEF Truthful, ShownIn
  <2> QED
    BY <2>6, <2>7, <2>8, <2>9
<1>2. Typed /\ Numbered /\ Histories => RingCatchesUp
  BY <1>1 DEF RingCatchesUp
<1> QED
  BY <1>2, HistoriesHold, PTL
=============================================================================
