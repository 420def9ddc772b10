--------------------------- MODULE MCSessionPipe ---------------------------
(***************************************************************************)
(* Instances of SessionPipe.                                               *)
(***************************************************************************)
EXTENDS SessionPipe, TLC

Symmetry == Permutations(Prompts) \cup Permutations(Commands) \cup Permutations(Closers)
=============================================================================
