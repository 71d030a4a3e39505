-------------------------------- MODULE Ring --------------------------------
(***************************************************************************)
(* What the ring of segments promises to the person who looks at it        *)
(* (the rules at the top of notify/broker/segments.py and the comment on   *)
(* SegmentAllocator._order): a bounded set of sessions in arrival order.   *)
(* A newcomer takes the last place and displaces nobody; when sessions     *)
(* leave, the others keep their order.                                     *)
(***************************************************************************)
EXTENDS Naturals, FiniteSets

CONSTANTS Sids, MaxSegs

VARIABLES members,   \* the sessions on the ring
          before     \* <<a, b>> : a arrived before b

vars == <<members, before>>

Init == members = {} /\ before = {}

(* A session joins a ring that has room, behind everyone there.            *)
Join(s) ==
  /\ s \notin members
  /\ Cardinality(members) < MaxSegs
  /\ members' = members \cup {s}
  /\ before' = before \cup (members \X {s})

(* Some sessions leave; the places of the others do not move.              *)
Leave(S) ==
  /\ members' = members \ S
  /\ before' = before \cap (members' \X members')

Next ==
  \/ \E s \in Sids : Join(s)
  \/ \E S \in SUBSET members : Leave(S)

Spec == Init /\ [][Next]_vars
=============================================================================
