----------------------------- MODULE MCVibeScan -----------------------------
(***************************************************************************)
(* Instances of the Vibe watcher's scans for TLC.                          *)
(***************************************************************************)
EXTENDS VibeScan, TLC

CONSTANTS s1, s2

Symmetry == Permutations(Sessions)

(* Without leases, and with them legacy and unified sessions in any mix.   *)
AnySetup ==
  {[leases |-> FALSE, unified |-> {}]} \cup [leases : {TRUE}, unified : SUBSET Sessions]

(* Two unified sessions in one directory, and one of each kind.            *)
TwoSetups == {[leases |-> TRUE, unified |-> {s1, s2}], [leases |-> TRUE, unified |-> {s1}]}
=============================================================================
