------------------------------ MODULE MCDesktop ------------------------------
(***************************************************************************)
(* Instances of Desktop for TLC.                                           *)
(***************************************************************************)
EXTENDS Desktop, TLC

DefaultLimits ==
  "total" :> 3 @@ "read_only" :> 2 @@ "write_sensitive" :> 1 @@
  "verification" :> 1 @@ "integration" :> 1 @@ "review" :> 2

\* DEFAULT_LIMITS of the coordinator.
DefaultSlots ==
  "read_only" :> 2 @@ "write_sensitive" :> 1 @@
  "verification" :> 1 @@ "integration" :> 1 @@ "review" :> 1

\* One writer.
SoloDeps == 1 :> {}
SoloClass == 1 :> "write_sensitive"
SoloPaths == 1 :> {<<"src">>}

\* One reader.
ReaderClass == 1 :> "read_only"

Devices == Permutations(Device)
=============================================================================
