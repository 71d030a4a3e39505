---------------------------- MODULE SettingsFile ----------------------------
(***************************************************************************)
(* What the installer does to a JSON configuration (notify/cli/install.py, *)
(* _merge_hooks_block and _merge_allow_rules): it appends its hook groups  *)
(* and its permission rules to what is there.                              *)
(*                                                                         *)
(* The file is what json.loads makes of it: the arrays of groups that      *)
(* "hooks" has for some events, and the list "permissions.allow".  What    *)
(* has the wrong shape anywhere is Malformed.  The hooks.json of Codex is  *)
(* merged by the same code.                                                *)
(***************************************************************************)
EXTENDS Lists

CONSTANTS HookEvents,  \* the events of CLAUDE_HOOKS or CODEX_HOOKS
          AllowRules,  \* CLAUDE_ALLOW_RULES, a list
          Malformed    \* a value that is no object or list where one must be

ASSUME SettingsAssumption ==
  AllowRules \in Seq(Elements(AllowRules)) /\ Malformed \notin Elements(AllowRules)

NoSettings == [hooks |-> [e \in {} |-> <<>>], allow |-> <<>>]

(* A group of ours, whose command starts with led-report <harness>.        *)
Ours == "ours"

GroupIsOurs(group) == group = Ours

(* Is an event left alone?                                                 *)
Skipped(groups) ==
  groups = Malformed \/ \E i \in 1..Len(groups) : GroupIsOurs(groups[i])

MergedGroups(groups) == IF Skipped(groups) THEN groups ELSE Append(groups, Ours)

GroupsOf(hooks, e) == IF e \in DOMAIN hooks THEN hooks[e] ELSE <<>>

(* _merge_hooks_block, on an object whose hooks are one.                   *)
MergeHooks(hooks) ==
  [e \in DOMAIN hooks \cup HookEvents |->
     IF e \in HookEvents THEN MergedGroups(GroupsOf(hooks, e)) ELSE hooks[e]]

(* _merge_allow_rules: the rules that are missing, in their order.         *)
MergeAllow(allow, rules) == allow \o Without(rules, Elements(allow))

(***************************************************************************)
(* What is promised of it                                                  *)
(***************************************************************************)

(* The groups and rules of the user.                                       *)
UserGroups(groups) ==
  IF groups = Malformed THEN groups ELSE Without(groups, {Ours})

UserHooks(hooks) ==
  [e \in {d \in DOMAIN hooks : UserGroups(hooks[d]) # <<>>} |-> UserGroups(hooks[e])]

UserRules(allow) == Without(allow, Elements(AllowRules))

(* Every event has a group of ours, unless its value cannot be appended to.*)
HooksWired(hooks) ==
  \A e \in HookEvents :
    e \in DOMAIN hooks /\ (hooks[e] # Malformed => Ours \in Elements(hooks[e]))

RulesWired(allow) == Elements(AllowRules) \subseteq Elements(allow)
=============================================================================
