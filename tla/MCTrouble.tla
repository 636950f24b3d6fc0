----------------------------- MODULE MCTrouble -----------------------------
(* Instances of Trouble for TLC. *)
EXTENDS Trouble

CONSTANTS oom     \* a kind of event

MCOneKind == {oom}
=============================================================================
