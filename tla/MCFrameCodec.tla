---------------------------- MODULE MCFrameCodec ----------------------------
(***************************************************************************)
(* Instances of the frame codec for TLC: rings in which the first sessions *)
(* have one kind of title and the others another, of every length at which *)
(* the room for titles changes.                                            *)
(***************************************************************************)
EXTENDS FrameCodec, TLC

Times(n, width) == [i \in 1 .. n |-> width]

(* No title, one below the cap, one that the cap cuts, one that it cuts    *)
(* inside a codepoint, and one of widest codepoints that it does not cut.  *)
Titles == {<<>>, Times(5, 1), Times(25, 1), <<1>> \o Times(9, 3), Times(23, 1) \o <<2>>,
           Times(6, 4)}

(* The states go round, so that neighbours differ.                         *)
RingOf(n, k, first, rest, harness) ==
  [i \in 1 .. n |-> [state |-> i % 6, harness |-> IF harness THEN i % 4 ELSE 0,
                     title |-> IF i <= k THEN first ELSE rest]]

(* One or two sessions, with and without a harness; eight, whose titles    *)
(* always fit, nine, whose titles do not always fit; a full ring.          *)
MCRings ==
  {RingOf(n, 1, first, rest, harness) :
     n \in 0 .. 2, first \in Titles, rest \in Titles, harness \in BOOLEAN}
  \cup {RingOf(n, 6, first, rest, TRUE) :
     n \in {8, 9, 16}, first \in Titles, rest \in Titles}
=============================================================================
