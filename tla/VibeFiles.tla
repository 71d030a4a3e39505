----------------------------- MODULE VibeFiles ------------------------------
(***************************************************************************)
(* What the installer does to the TOML files of Vibe                       *)
(* (notify/cli/install.py): it takes its own [[hooks]] blocks out of       *)
(* hooks.toml, appends its template, and manages one flag in config.toml.  *)
(* It knows no TOML: it goes through the lines.                            *)
(*                                                                         *)
(* A file is the sequence of its lines, each one told by its kind:         *)
(*   hooks   [[hooks]]           section  any other line that opens with [ *)
(*   new     command = "led-report vibe ...", with the names of 2.21       *)
(*   old     the same with the names before 2.21                           *)
(*   user    any other command, a wrapper that calls led-report included   *)
(*   note    a comment           key      any other line                   *)
(*   blank   an empty line                                                 *)
(*   flag    enable_experimental_hooks = true                              *)
(*   tight   the flag with other blanks around its =                       *)
(*   noted   a comment that has the flag in it                             *)
(***************************************************************************)
EXTENDS Lists, SequencesExt

Headers == {"hooks", "section"}

Commands == {"new", "old", "user"}

OurCommands == {"new", "old"}

Kinds == Headers \cup Commands \cup {"note", "key", "blank", "flag", "tight", "noted"}

(* VIBE_HOOKS_TOML and VIBE_HOOKS_TOML_LEGACY: two blocks stand for three. *)
Template(names) == <<"hooks", names, "blank", "hooks", names>>

(* The command that a block runs: the first one in it.                     *)
CommandOf(block) ==
  LET commands == {i \in 1..Len(block) : block[i] \in Commands}
  IN  IF commands = {} THEN "none" ELSE block[Min(commands)]

(* Mutant: a block is ours when any of its lines mentions led-report.      *)
BlockMentionsUs(block) == \E i \in 1..Len(block) : block[i] \in Commands

(* _block_is_ours: the command of the block is led-report itself.          *)
BlockIsOurs(block) == CommandOf(block) \in OurCommands

(* The lines without the blank ones at the end.                            *)
TrimEnd(lines) ==
  LET full == {i \in 1..Len(lines) : lines[i] # "blank"}
  IN  SubSeq(lines, 1, IF full = {} THEN 0 ELSE Max(full))

(* The lines that stay, and the [[hooks]] block that is being read.        *)
Parts == [out : Seq(Kinds), block : Seq(Kinds)]

(* A block that has been read stays, or goes with the blank lines before   *)
(* it.                                                                     *)
CloseBlock(parts) ==
  [out   |-> IF BlockIsOurs(parts.block) THEN TrimEnd(parts.out)
             ELSE parts.out \o parts.block,
   block |-> <<>>]

TakeLine[line \in Kinds] == [parts \in Parts |->
  IF parts.block # <<>> /\ line \notin Headers
    THEN [parts EXCEPT !.block = Append(@, line)]
    ELSE IF line = "hooks" THEN [CloseBlock(parts) EXCEPT !.block = <<line>>]
    ELSE [CloseBlock(parts) EXCEPT !.out = Append(@, line)]]

NoParts == [out |-> <<>>, block |-> <<>>]

(* _strip_ns_hook_blocks                                                   *)
StripNsHookBlocks(lines) == CloseBlock(Fold(TakeLine, NoParts, lines)).out

(* Mutant: a file that names us is left as it is.                          *)
ComposeIfUnwired(lines, names) ==
  IF \E i \in 1..Len(lines) : lines[i] \in OurCommands THEN lines
  ELSE TrimEnd(lines) \o <<"blank">> \o Template(names)

(* _compose_vibe_hooks                                                     *)
ComposeVibeHooks(lines, names) ==
  LET base == TrimEnd(StripNsHookBlocks(lines))
  IN  IF base = <<>> THEN Template(names)
      ELSE base \o <<"blank">> \o Template(names)

(* _insert_vibe_flag: before the first line that opens with [.             *)
InsertVibeFlag(lines) ==
  LET heads == {i \in 1..Len(lines) : lines[i] \in Headers}
  IN  IF \E i \in 1..Len(lines) : lines[i] \in {"flag", "noted"} THEN lines
      ELSE IF heads # {} THEN InsertAt(lines, Min(heads), "flag")
      ELSE Append(TrimEnd(lines), "flag")

(* _remove_vibe_flag                                                       *)
RemoveVibeFlag(lines) == Without(lines, {"flag", "tight"})

(***************************************************************************)
(* What is promised of it                                                  *)
(***************************************************************************)

(* What a reader of the file has seen: the commands of the [[hooks]] blocks*)
(* behind it, the command of the block it is in (out: it is in none), and  *)
(* the lines that are in no such block, blank ones and the flag apart.     *)
Views == [behind : Seq(Commands \cup {"none"}),
          within : Commands \cup {"none", "out"},
          own    : Seq(Kinds)]

(* The hooks that Vibe loads: the command of every [[hooks]] block.        *)
Loads(view) ==
  IF view.within = "out" THEN view.behind ELSE Append(view.behind, view.within)

SeeLine[line \in Kinds] == [view \in Views |->
  IF line \in Headers
    THEN [behind |-> Loads(view),
          within |-> IF line = "hooks" THEN "none" ELSE "out",
          own    |-> IF line = "hooks" THEN view.own ELSE Append(view.own, line)]
  ELSE IF view.within = "out" /\ line \notin {"blank", "flag", "tight"}
    THEN [view EXCEPT !.own = Append(@, line)]
  ELSE IF view.within = "none" /\ line \in Commands THEN [view EXCEPT !.within = line]
  ELSE view]

View(lines) ==
  Fold(SeeLine, [behind |-> <<>>, within |-> "out", own |-> <<>>], lines)

Loaded(lines) == Loads(View(lines))

UserBlocks(lines) == Without(Loaded(lines), OurCommands)

UserLines(lines) == View(lines).own

Comments(lines) == SelectSeq(lines, LAMBDA l : l \in {"note", "noted"})

(* The blocks of the template are there once, and none of other names.     *)
BlocksWired(lines, names) ==
  LET loaded == Loaded(lines)
      ours   == {i \in 1..Len(loaded) : loaded[i] \in OurCommands}
  IN  Cardinality(ours) = 2 /\ \A i \in ours : loaded[i] = names

(* The flag is set before the first section.                               *)
FlagSet(lines) ==
  \E i \in 1..Len(lines) :
    lines[i] \in {"flag", "tight"} /\ \A j \in 1..i : lines[j] \notin Headers

FlagGone(lines) == \A i \in 1..Len(lines) : lines[i] \notin {"flag", "tight"}
=============================================================================
