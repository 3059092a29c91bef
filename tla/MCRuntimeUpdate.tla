-------------------------- MODULE MCRuntimeUpdate --------------------------
(* An instance of RuntimeUpdate for TLC: a proxy p1 with a monitor, a tool *)
(* call and its close, and a runtime command e1.  The third bundle has     *)
(* another tool catalogue than the first two.                              *)
EXTENDS RuntimeUpdate, TLC

CONSTANTS v1, v2, v3, p1, e1, m1, c1, x1, run1

ThreadProcs == [t \in Threads |-> IF t = run1 THEN e1 ELSE p1]
ThreadKinds == (m1 :> "monitor") @@ (c1 :> "call") @@ (x1 :> "close") @@ (run1 :> "exec")
Versions == [b \in Bundles |-> IF b = v1 THEN 1 ELSE 2]
Catalogs == [b \in Bundles |-> IF b = v3 THEN 2 ELSE 1]
AllFromFirst == [p \in Procs |-> v1]
=============================================================================
