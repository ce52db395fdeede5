---------------------------- MODULE MCTaskRuntime ----------------------------
(***************************************************************************)
(* Instances of TaskRuntime for TLC.                                       *)
(***************************************************************************)
EXTENDS TaskRuntime, TLC

\* The default limits of the scheduler.
DefaultLimits ==
  "total" :> 3 @@ "read_only" :> 2 @@ "write_sensitive" :> 1 @@
  "verification" :> 1 @@ "integration" :> 1 @@ "review" :> 2

\* Limits a mission raised, so that writers may run side by side.
WideLimits == [DefaultLimits EXCEPT !["write_sensitive"] = 2]

\* One writer.
SoloDeps == 1 :> {}
SoloClass == 1 :> "write_sensitive"
SoloPaths == 1 :> {<<"src">>}

\* Two writers of overlapping paths: a pattern of one matches a file of the other.
WriterDeps == [t \in 1 .. 2 |-> {}]
WriterClass == [t \in 1 .. 2 |-> "write_sensitive"]
WriterPaths == 1 :> {<<"src", "*.py">>} @@ 2 :> {<<"docs">>, <<"src", "app.py">>}
Sources == {<<"src", "app.py">>, <<"docs", "index.md">>}

\* A reader, a writer that needs its result.
ChainDeps == 1 :> {} @@ 2 :> {1}
ChainClass == 1 :> "read_only" @@ 2 :> "write_sensitive"
ChainPaths == 1 :> {} @@ 2 :> {<<"src">>}

\* Two readers and a writer, and limits that admit any two of them.
TrioDeps == [t \in 1 .. 3 |-> {}]
TrioClass == 1 :> "read_only" @@ 2 :> "write_sensitive" @@ 3 :> "read_only"
TrioPaths == 1 :> {} @@ 2 :> {<<"src">>} @@ 3 :> {}
TightLimits == [DefaultLimits EXCEPT !["total"] = 2]

\* Bounds on what all tasks together use.
ThreeAssignments == Cardinality({a \in Assignment : status[a] # "absent"}) <= 3
OneLease == Cardinality({l \in Lease : lease[l] # "absent"}) <= 1

Workers == Permutations(Worker)
Others == Permutations(Worker \ CanImplement)
=============================================================================
