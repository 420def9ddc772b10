--------------------------- MODULE SessionStatus ---------------------------
(***************************************************************************)
(* What a client is told of one session: that it is up, once; that it is   *)
(* down, once, after that, and only when the core is really over; and that *)
(* it is told so, sooner or later.                                         *)
(***************************************************************************)
EXTENDS Sequences

VARIABLES
  over,   \* the core has said so itself, or its stdout has come to an end
  said    \* the core-status events broadcast
vars == <<over, said>>

Init == over = FALSE /\ said = <<>>

Up == said = <<>> /\ said' = <<"up">> /\ UNCHANGED over
\* A session that never started may never be over.
Over == ~over /\ over' = TRUE /\ UNCHANGED said
Down == over /\ said = <<"up">> /\ said' = <<"up", "down">> /\ UNCHANGED over

Next == Up \/ Over \/ Down
Safety == Init /\ [][Next]_vars
Spec == Safety /\ WF_vars(Down)
=============================================================================
