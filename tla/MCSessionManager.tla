-------------------------- MODULE MCSessionManager --------------------------
(* SessionManager for TLC: a preset without a tool list and one with.      *)
EXTENDS SessionManager, TLC

CONSTANTS Free, Strict

MCSetting == [p \in Presets |-> IF p = Free THEN "empty" ELSE "some"]
MCBefore == {[preset |-> p, tools |-> "empty"] : p \in Presets}
CallSymmetry == Permutations(Calls)
=============================================================================
