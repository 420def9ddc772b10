--------------------------- MODULE MCBackendWaits ---------------------------
(* BackendWaits for TLC: one call lists the models, the other is another   *)
(* command; set differs from sync only in leaving the cache alone.         *)
EXTENDS BackendWaits

CONSTANTS m1, m2

MCMay == [c \in Callers |-> IF c = m1 THEN {"list"} ELSE Commands \ {"list", "set"}]
=============================================================================
