----------------------- MODULE MCDocumentPipeline -----------------------
(* Instances of DocumentPipeline for TLC.                                  *)
EXTENDS DocumentPipeline, TLC
CONSTANTS s1, s2, s3, e1, v1, w1, w2

(* Three imports: s2 repeats the call of s1, s3 brings another file for    *)
(* the same window.                                                        *)
RepeatedKey == (s1 :> "k1") @@ (s2 :> "k1") @@ (s3 :> "k3")
RepeatedPrint == (s1 :> "f1") @@ (s2 :> "f1") @@ (s3 :> "f3")
NoReceipt == [d \in {s1, s2, s3} |-> None]
OneWindow == [d \in {s1, s2, s3} |-> v1]

NoWindow == [d \in Docs |-> None]

(* Evidence has none of these.                                             *)
Nothings == [d \in Docs |-> None]

(* The executions are interchangeable.                                     *)
Interchangeable == Permutations(Executions)
=============================================================================
