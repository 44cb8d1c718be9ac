----------------------- MODULE MCPartitionDownload -----------------------
(* Instances of PartitionDownload for TLC.                                 *)
EXTENDS PartitionDownload
CONSTANTS e1, r1, p1, w1, w2

OneOwner == [r \in Requests |-> e1]
AllParts == [r \in Requests |-> Parts]
=============================================================================
