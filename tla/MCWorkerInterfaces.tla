------------------------- MODULE MCWorkerInterfaces -------------------------
(***************************************************************************)
(* Instances of WorkerInterfaces for TLC.                                  *)
(***************************************************************************)
EXTENDS WorkerInterfaces, TLC

DefaultLimits ==
  "total" :> 3 @@ "read_only" :> 2 @@ "write_sensitive" :> 1 @@
  "verification" :> 1 @@ "integration" :> 1 @@ "review" :> 2

\* A task, and one that needs its result.
ChainDeps == 1 :> {} @@ 2 :> {1}
ChainClass == [t \in 1 .. 2 |-> "read_only"]
ChainPaths == [t \in 1 .. 2 |-> {}]

\* Bounds on what all tasks together use.
TwoLeases == Cardinality({l \in Lease : lease[l] # "absent"}) <= 2
ThreeAttempts == \A t \in Task \ {1} : attempts[t] + attempts[1] <= 3
=============================================================================
