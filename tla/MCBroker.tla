------------------------------ MODULE MCBroker ------------------------------
(***************************************************************************)
(* Instances of the broker for TLC.                                        *)
(***************************************************************************)
EXTENDS Broker, TLC

Symmetry == Permutations(Sids)

(* A start or a resume, work, a call for a human, the end of a turn, and a  *)
(* wake-up window.                                                         *)
LiveVerbs == {"start", "running", "approval", "done", "wakeup"}

(* ... that the idle prompt falls into.                                    *)
SafetyVerbs == LiveVerbs \cup {"notify:idle_prompt"}

(* A benign and a human-facing report.                                     *)
FewVerbs == {"start", "running", "approval", "done"}

(* A session that starts and calls for a human.                            *)
TwoVerbs == {"start", "approval"}
=============================================================================
