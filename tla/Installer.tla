----------------------------- MODULE Installer ------------------------------
(***************************************************************************)
(* nimbus-notify install-hooks and install-allow-rules                     *)
(* (notify/cli/install.py): a job reads a configuration file, merges, and, *)
(* if that changes anything, copies the file to its .bak, writes a .tmp    *)
(* beside it and moves that into place.  The process can be killed         *)
(* anywhere.  The user and the agents write the same file.                 *)
(*                                                                         *)
(* install-hooks has one job for Claude, one for Codex and two for Vibe,   *)
(* each on a file of its own, so that one file at a time is looked at.  A  *)
(* write truncates its file first.  What an earlier job left behind as     *)
(* .bak or .tmp is written anew before it is used, and is not kept.  Dry   *)
(* runs write nothing and are left out, as are doctor and status, which    *)
(* only read.                                                              *)
(***************************************************************************)
EXTENDS SettingsFile, VibeFiles

CONSTANTS Absent,     \* there is no such file
          Blank,      \* a file that was truncated and not written yet
          Invalid,    \* a settings.json that is no JSON
          Originals,  \* file -> what it may hold before the first job
          LineKinds,  \* file -> the lines that a user may add to it
          MaxEdits,   \* bound: how often the user changes the file
          Racing      \* may the user do so while a job is at it?

ASSUME ContentAssumption == Cardinality({Absent, Blank, Invalid, Malformed}) = 4
ASSUME EditsAssumption == MaxEdits \in Nat /\ Racing \in BOOLEAN

Files == {"settings.json", "hooks.toml", "config.toml"}

(* The jobs on a file: merging hooks and permissions, the blocks with the  *)
(* names since and before Vibe 2.21, and the flag that the old ones need.  *)
JobsOf(f) ==
  CASE f = "settings.json" -> {"hooks", "allow"}
    [] f = "hooks.toml"    -> {"new", "old"}
    [] f = "config.toml"   -> {"flag", "unflag"}

VARIABLES
  file,    \* the file that is looked at
  disk,    \* its content
  bak,     \* its .bak
  tmp,     \* its .tmp
  job,     \* the job at it, or none
  stage,   \* what the job does next
  read,    \* what the job read
  settled, \* the jobs that were done since the user changed the file
  user,    \* the file as the user left it last
  edits    \* how often the user changed it

vars == <<file, disk, bak, tmp, job, stage, read, settled, user, edits>>

(* What a job takes a content for: an empty text if there is no file.      *)
Text(content) ==
  IF content \in {Absent, Blank}
    THEN IF file = "settings.json" THEN NoSettings ELSE <<>>
    ELSE content

(* The merge raises an exception, which ends the command: hooks is no      *)
(* object.                                                                 *)
Raises(text) ==
  job = "hooks" /\ text # Invalid /\ (text # Malformed => text.hooks = Malformed)

(* The job refuses to touch the file.                                      *)
Refuses(text) ==
  text # Invalid => job = "allow" /\ (text # Malformed => text.allow = Malformed)

Mergeable(text) == ~Refuses(text) /\ ~Raises(text)

(* What a job makes of a file.                                             *)
After(j, text) ==
  CASE j = "hooks"          -> [text EXCEPT !.hooks = MergeHooks(@)]
    [] j = "allow"          -> [text EXCEPT !.allow = MergeAllow(@, AllowRules)]
    [] j \in {"new", "old"} -> ComposeVibeHooks(text, j)
    [] j = "flag"           -> InsertVibeFlag(text)
    [] j = "unflag"         -> RemoveVibeFlag(text)

TypeOK ==
  /\ file \in Files
  /\ job \in JobsOf(file) \cup {"none"}
  /\ stage \in {"read", "bak", "copy", "tmp", "write", "replace"}
  /\ stage = "read" => <<read, bak, tmp>> = <<Absent, Absent, Absent>>
  /\ job = "none" => stage = "read"
  /\ settled \subseteq JobsOf(file)
  /\ edits \in 0..MaxEdits

Init ==
  /\ file \in Files
  /\ disk \in Originals[file]
  /\ job = "none" /\ stage = "read"
  /\ read = Absent /\ bak = Absent /\ tmp = Absent
  /\ settled = {}
  /\ user = disk
  /\ edits = 0

(***************************************************************************)
(* The installer                                                           *)
(***************************************************************************)

Begins(j) ==
  /\ job = "none"
  /\ job' = j
  /\ UNCHANGED <<file, disk, bak, tmp, stage, read, settled, user, edits>>

(* What lies beside the file stays there, out of sight.                    *)
Ends ==
  /\ job' = "none" /\ stage' = "read"
  /\ read' = Absent /\ bak' = Absent /\ tmp' = Absent

Settles ==
  settled' = IF file = "settings.json" THEN settled \cup {job} ELSE {job}

GivesUp ==
  /\ job # "none" /\ stage = "read"
  /\ ~Mergeable(Text(disk))
  /\ Ends
  /\ UNCHANGED <<file, disk, settled, user, edits>>

(* The file is as it should be.                                            *)
FindsCurrent ==
  /\ job # "none" /\ stage = "read"
  /\ Mergeable(Text(disk))
  /\ After(job, Text(disk)) = Text(disk)
  /\ Settles
  /\ Ends
  /\ UNCHANGED <<file, disk, user, edits>>

(* Mutant: the file is written without a copy.                             *)
FirstStageUnbacked == "tmp"

(* A file that is there is copied first.                                   *)
FirstStage == IF disk = Absent THEN "tmp" ELSE "bak"

Reads ==
  /\ job # "none" /\ stage = "read"
  /\ Mergeable(Text(disk))
  /\ After(job, Text(disk)) # Text(disk)
  /\ read' = disk
  /\ stage' = FirstStage
  /\ UNCHANGED <<file, disk, bak, tmp, job, settled, user, edits>>

OpensBackup ==
  /\ stage = "bak"
  /\ bak' = Blank
  /\ stage' = "copy"
  /\ UNCHANGED <<file, disk, tmp, job, read, settled, user, edits>>

(* The JSON file is read again for its copy, a TOML file is not.           *)
Copies ==
  /\ stage = "copy"
  /\ bak' = IF file = "settings.json" THEN disk ELSE read
  /\ stage' = "tmp"
  /\ UNCHANGED <<file, disk, tmp, job, read, settled, user, edits>>

OpensTmp ==
  /\ stage = "tmp"
  /\ tmp' = Blank
  /\ stage' = "write"
  /\ UNCHANGED <<file, disk, bak, job, read, settled, user, edits>>

WritesTmp ==
  /\ stage = "write"
  /\ tmp' = After(job, Text(read))
  /\ stage' = "replace"
  /\ UNCHANGED <<file, disk, bak, job, read, settled, user, edits>>

Replaces ==
  /\ stage = "replace"
  /\ disk' = tmp
  /\ Settles
  /\ Ends
  /\ UNCHANGED <<file, user, edits>>

Killed ==
  /\ job # "none"
  /\ Ends
  /\ UNCHANGED <<file, disk, settled, user, edits>>

(***************************************************************************)
(* The user, and the agents, which keep their permissions there            *)
(***************************************************************************)

SettingsEdits(text) ==
  IF text \in {Invalid, Malformed} THEN {NoSettings}
  ELSE {[text EXCEPT !.allow = <<"own">>]} \cup
       {[text EXCEPT !.hooks = [e \in HookEvents |-> groups]] :
          groups \in {<<>>, <<"user">>, <<Ours, "user">>}}

LineEdits(lines) ==
  {RemoveAt(lines, i) : i \in 1..Len(lines)} \cup
  {InsertAt(lines, i, l) : i \in 1..(Len(lines) + 1), l \in LineKinds[file]}

UserEdits ==
  /\ edits < MaxEdits
  /\ Racing \/ job = "none"
  /\ \E content \in IF file = "settings.json" THEN SettingsEdits(Text(disk))
                                               ELSE LineEdits(Text(disk)) :
       disk' = content /\ user' = content
  /\ settled' = {}
  /\ edits' = edits + 1
  /\ UNCHANGED <<file, bak, tmp, job, stage, read>>

Next ==
  \/ \E j \in JobsOf(file) : Begins(j)
  \/ GivesUp \/ FindsCurrent \/ Reads
  \/ OpensBackup \/ Copies \/ OpensTmp \/ WritesTmp \/ Replaces
  \/ Killed
  \/ UserEdits

Spec == Init /\ [][Next]_vars

(***************************************************************************)
(* Safety                                                                  *)
(***************************************************************************)

(* What a file has of the user's.                                          *)
OfUser(text) ==
  CASE text \in {Invalid, Malformed} -> <<text>>
    [] file = "settings.json" /\ text \notin {Invalid, Malformed} ->
         <<IF text.hooks = Malformed THEN Malformed ELSE UserHooks(text.hooks),
           IF text.allow = Malformed THEN Malformed ELSE UserRules(text.allow)>>
    [] OTHER -> <<UserBlocks(text), UserLines(text)>>

(* Whatever jobs run, whatever of ours is there already, whenever one is   *)
(* killed: the hooks, permissions and lines of the user stay as the user   *)
(* left them and in their order, none is lost, none comes back, and the    *)
(* file is never cut off or emptied.                                       *)
UsersKept == OfUser(Text(disk)) = OfUser(Text(user))

(* When a file is replaced its .bak is a whole copy of it, so that what a  *)
(* merge got wrong can be recovered.                                       *)
BackupFirst ==
  [][stage = "replace" /\ disk # Absent /\ disk' # disk => bak = disk]_vars

Wired(j, text) ==
  CASE j = "hooks"          -> HooksWired(text.hooks)
    [] j = "allow"          -> RulesWired(text.allow)
    [] j \in {"new", "old"} -> BlocksWired(text, j)
    [] j = "unflag"         -> FlagGone(text)
    [] OTHER                -> TRUE

(* A file that a job has gone through, whatever it found there, an upgrade *)
(* of the other names included, is wired once, and the same job finds      *)
(* nothing to do until the user changes the file.                          *)
RerunIsNoop ==
  \A j \in settled : After(j, Text(disk)) = Text(disk) /\ Wired(j, Text(disk))

(* The comments of the user stay, too (the docstring of                    *)
(* _strip_ns_hook_blocks).                                                 *)
CommentsKept == file = "hooks.toml" => Comments(Text(disk)) = Comments(Text(user))

(* After install-hooks --vibe-legacy the flag is set.                      *)
LegacyFlagSet == "flag" \in settled => FlagSet(Text(disk))

(* A malformed file is refused, and the command goes on to the next one.   *)
MalformedRefused == job # "none" /\ stage = "read" => ~Raises(Text(disk))
=============================================================================
