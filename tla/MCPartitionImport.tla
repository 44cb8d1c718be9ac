------------------------ MODULE MCPartitionImport ------------------------
(* Instances of PartitionImport for TLC.                                   *)
EXTENDS PartitionImport, TLC
CONSTANTS j1, j2, p1, p2, w1, w2, id1, a, b

(* Two sources: they differ on p1, and hold the same bytes but declare     *)
(* other metadata on p2.                                                   *)
OverlapManifest == (j1 :> (p1 :> a @@ p2 :> b)) @@ (j2 :> (p1 :> b @@ p2 :> b))
TwoLevels == (j1 :> 1) @@ (j2 :> 2)
OneScope == (j1 :> "all") @@ (j2 :> "all")

(* The same bytes twice, declared with different order scopes.             *)
RepeatedManifest == [j \in {j1, j2} |-> p1 :> a]
OneLevel == (j1 :> 1) @@ (j2 :> 1)
TwoScopes == (j1 :> "all") @@ (j2 :> "settled")

(* Both executions run under one worker id: a loop that was restarted      *)
(* after an error keeps its ids while the calls it started still run.      *)
OneId == (w1 :> id1) @@ (w2 :> id1)

(* The executions are then interchangeable.                                *)
Interchangeable == Permutations(Executions)
=============================================================================
