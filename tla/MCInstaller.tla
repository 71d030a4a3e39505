---------------------------- MODULE MCInstaller -----------------------------
(***************************************************************************)
(* Instances of the installer for TLC.                                     *)
(***************************************************************************)
EXTENDS Installer

MCAllowRules == <<"r1", "r2">>

CONSTANTS MaxLines  \* bound: the lines of a file before the first command

GroupLists == {<<>>, <<"user">>, <<Ours>>, <<"user", Ours>>, Malformed}

HookMaps == UNION {[events -> GroupLists] : events \in SUBSET HookEvents}

RuleLists == {<<>>, <<"own">>, <<"r1">>, <<"own", "r2">>, Malformed}

AllKinds ==
  [f \in {"hooks.toml", "config.toml"} |->
     IF f = "hooks.toml"
       THEN {"hooks", "section", "new", "old", "user", "note", "blank"}
       ELSE {"section", "flag", "tight", "noted", "key", "blank"}]

MCLineKinds ==
  [f \in {"hooks.toml", "config.toml"} |->
     IF f = "hooks.toml" THEN {"new", "note"} ELSE {"section"}]

MCOriginals ==
  [f \in Files |->
     {Absent, Blank} \cup
       IF f = "settings.json"
         THEN {Invalid, Malformed} \cup [hooks : HookMaps \cup {Malformed}, allow : RuleLists]
         ELSE UNION {[1..n -> AllKinds[f]] : n \in 0..MaxLines}]
=============================================================================
