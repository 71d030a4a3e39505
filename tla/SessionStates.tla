--------------------------- MODULE SessionStates ---------------------------
(***************************************************************************)
(* The vocabulary of the broker: the states a session can show            *)
(* (notify/state.py), the verbs a hook can report and the state each verb  *)
(* stands for (notify/broker/session.py), and the resolution of a          *)
(* scheduled wake-up (notify/broker/server.py, _resolve_wakeup).           *)
(*                                                                         *)
(* Verbs are the canonical strings of the code.  The verbs of which the    *)
(* code knows only the shape are represented by one member each:           *)
(* "notify:consent" (an unmapped notification whose subtype hints at a     *)
(* permission), "notify:question" (any other unmapped notification) and    *)
(* "subagent_stop" (any other unmapped verb).                              *)
(***************************************************************************)
EXTENDS Naturals

State == {"Idle", "Running", "WaitingInput", "AwaitingApproval", "Done",
          "Error", "Offline"}

(* States in which a human (or a failure) is waiting to be noticed.        *)
CTA_STATES == {"WaitingInput", "AwaitingApproval", "Error"}

(* No turn in flight and nobody waiting.                                   *)
RESTING_STATES == {"Idle", "Done"}

WAKEUP_VERBS == {"wakeup"}

(* Verbs that prove that the session resumed work, or finished a turn.     *)
ACTIVITY_VERBS ==
  {"start", "running", "done", "pre_tool", "post_tool:success", "post_agent"}

RunningVerbs ==
  {"running", "pre_tool", "post_tool:success", "post_tool:cancelled",
   "notify:auth_success", "notify:elicitation_complete"}

DoneVerbs == {"done", "post_agent", "wakeup"}

ErrorVerbs == {"error", "post_tool:failure"}

ApprovalVerbs == {"approval", "notify:permission_prompt", "hitl_inferred"}

InputVerbs == {"notify:elicitation_dialog", "notify:idle_prompt", "plan_pending"}

(* Notifications that are not in the table, with and without a permission  *)
(* hint in their subtype.                                                  *)
UnmappedConsentVerbs == {"notify:consent"}
UnmappedNotifyVerbs  == {"notify:question"}

UnmappedVerbs == {"subagent_stop"}

(* Every verb that handle_event maps to a state: all but the heartbeat.    *)
ReportVerbs ==
  {"start", "end"} \cup RunningVerbs \cup DoneVerbs \cup ErrorVerbs
    \cup ApprovalVerbs \cup InputVerbs \cup UnmappedConsentVerbs
    \cup UnmappedNotifyVerbs \cup UnmappedVerbs

(* verb_to_state: an unknown verb is Running, an unknown notification      *)
(* always wants the human.                                                 *)
VerbToState(verb) ==
  CASE verb = "start"                                -> "Idle"
    [] verb = "end"                                  -> "Offline"
    [] verb \in DoneVerbs                            -> "Done"
    [] verb \in ErrorVerbs                           -> "Error"
    [] verb \in ApprovalVerbs \cup UnmappedConsentVerbs -> "AwaitingApproval"
    [] verb \in InputVerbs \cup UnmappedNotifyVerbs  -> "WaitingInput"
    [] OTHER                                         -> "Running"

(* Mutant: a call to action leaves the session armed.                      *)
ResolveWakeupStaysArmed(verb, base, prior) ==
  LET As(state, flag) == [state |-> state, wakeup |-> flag] IN
  CASE verb \in WAKEUP_VERBS -> As("Done", TRUE)
    [] verb = "notify:idle_prompt" /\ prior -> As("Done", TRUE)
    [] verb \in ACTIVITY_VERBS -> As(base, FALSE)
    [] OTHER -> As(base, prior)

(* _resolve_wakeup(verb, base_state, prior_flag): the state a report sets  *)
(* and whether the session is left awaiting a scheduled wake-up.           *)
ResolveWakeup(verb, base, prior) ==
  LET As(state, flag) == [state |-> state, wakeup |-> flag] IN
  CASE verb \in WAKEUP_VERBS -> As("Done", TRUE)
    [] verb \notin WAKEUP_VERBS /\ base \in CTA_STATES
         /\ verb # "notify:idle_prompt" -> As(base, FALSE)
    [] verb = "notify:idle_prompt" /\ prior -> As("Done", TRUE)
    [] verb \in ACTIVITY_VERBS -> As(base, FALSE)
    [] OTHER -> As(base, prior)
=============================================================================
