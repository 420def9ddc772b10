--------------------------- MODULE MCPlanCascade ---------------------------
(***************************************************************************)
(* Instances of PlanCascade: plans 1, 2, 3, node sessions and the session  *)
(* of the user.                                                            *)
(***************************************************************************)
EXTENDS PlanCascade, TLC
CONSTANTS top, other, s1, s2, f1, f2, a, b

\* Node 2 depends on node 1, which delegates.
Line == 1 :> {} @@ 2 :> {1}
Single == 1 :> {}
Once == [n \in Node |-> 1]
Fresh1 == 1 :> f1
Fresh2 == 1 :> f1 @@ 2 :> f2

\* One plan; two unrelated ones; a plan and its sub-plan; three levels.
Alone == 1 :> top
Apart == 1 :> top @@ 2 :> other
Pair == 1 :> s1 @@ 2 :> top
Chain3 == 1 :> s1 @@ 2 :> s2 @@ 3 :> top
AloneHost == top :> None
ApartHost == top :> None @@ other :> None
PairHost == s1 :> <<2, 1>> @@ top :> None
Chain3Host == s1 :> <<2, 1>> @@ s2 :> <<3, 1>> @@ top :> None

AllOps == {"Run", "Open", "OpenSession", "Close", "Stop", "Create", "CloseSession", "Restart",
           "Chat", "Cancel"}
\* How often the user does what; 0 unless named.
Times(f) == [op \in AllOps |-> IF op \in DOMAIN f THEN f[op] ELSE 0]
Solo == Times("Run" :> 2 @@ "Open" :> 1 @@ "Close" :> 1 @@ "CloseSession" :> 1
              @@ "Stop" :> 1 @@ "Restart" :> 1 @@ "Create" :> 1)
Rerun == Times("Run" :> 1 @@ "Open" :> 2 @@ "OpenSession" :> 1 @@ "Cancel" :> 1)
Thrice == Times("Run" :> 3 @@ "Open" :> 1 @@ "Cancel" :> 1)
Racing == Times("Run" :> 3 @@ "Open" :> 1 @@ "Cancel" :> 1 @@ "Create" :> 1)
Late == Times("Run" :> 1 @@ "Open" :> 2 @@ "OpenSession" :> 1 @@ "Close" :> 1 @@ "Cancel" :> 1)
Tall == Times("Run" :> 1 @@ "Open" :> 3 @@ "OpenSession" :> 2 @@ "Restart" :> 1)
Shutting == Times("Close" :> 1 @@ "CloseSession" :> 1 @@ "Stop" :> 1 @@ "Restart" :> 1 @@ "OpenSession" :> 1
                  @@ "Chat" :> 1)
=============================================================================
