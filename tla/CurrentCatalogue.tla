-------------------------- MODULE CurrentCatalogue --------------------------
(***************************************************************************)
(* What the partition catalogue promises its readers (ADR 0026): one       *)
(* uploaded source is published as a whole or not at all, it is published  *)
(* at most once, and where two sources name the same store and day the     *)
(* last one published is the one that is read.  Nothing else ever changes  *)
(* what a reader sees.                                                     *)
(*                                                                         *)
(* PartitionImport is shown to implement this specification; all the       *)
(* leases, retries, object keys and garbage of the real pipeline are its   *)
(* implementation detail.                                                  *)
(***************************************************************************)
CONSTANTS Jobs,      \* accepted partition uploads
          Parts,     \* partition identities: enterprise, dataset, store, day
          Manifest,  \* Manifest[j][p]: the content source j holds for p
          NoSum,     \* source j holds nothing for p
          Level,     \* Level[j]: the display and confidentiality metadata of j
          Scope      \* Scope[j]: the order scope that upload j declared

VARIABLES current,   \* current[p]: what a reader of p sees
          done       \* the sources already published

Nothing == [sum |-> NoSum]

CatalogueInit ==
    /\ current = [p \in Parts |-> Nothing]
    /\ done = {}

(* Source j becomes current, in one step, for every partition it holds.    *)
PublishWhole(j) ==
    /\ j \notin done
    /\ done' = done \cup {j}
    /\ current' = [p \in Parts |->
                     IF Manifest[j][p] = NoSum
                     THEN current[p]
                     ELSE [sum |-> Manifest[j][p], level |-> Level[j], scope |-> Scope[j]]]

CatalogueNext == \E j \in Jobs : PublishWhole(j)

CatalogueSpec == CatalogueInit /\ [][CatalogueNext]_<<current, done>>
=============================================================================
