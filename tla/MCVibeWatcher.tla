--------------------------- MODULE MCVibeWatcher ---------------------------
(***************************************************************************)
(* Instances of the Vibe watcher for TLC.                                  *)
(***************************************************************************)
EXTENDS VibeWatcher, TLC

CONSTANTS r1, r2, k1, k2

(* Two unified runs in one directory, two runs with a segment each.        *)
SharedKey == r1 :> k1 @@ r2 :> k1
OwnKey    == r1 :> k1 @@ r2 :> k2

(* A single run. *)
OneKey == r1 :> k1
=============================================================================
