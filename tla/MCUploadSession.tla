------------------------- MODULE MCUploadSession -------------------------
(* Instances of UploadSession for TLC.                                     *)
EXTENDS UploadSession
CONSTANTS u1, u2, key1, c1, c2, k1

(* Both create calls use one idempotency key: a replayed request.          *)
SameKey == [u \in Uploads |-> key1]
=============================================================================
