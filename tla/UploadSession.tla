--------------------------- MODULE UploadSession ---------------------------
(***************************************************************************)
(* The upload session of a partition source, from its creation until it    *)
(* is accepted for import or given up:                                     *)
(*                                                                         *)
(*   apps/api/src/routes/structured-partitions/routes.ts  the three calls  *)
(*   packages/db/src/structured-partitions.ts   reserve, queue, finish     *)
(*   apps/worker/src/partition-import.ts        cleanupExpiredUploads      *)
(*                                                                         *)
(* Creating, completing and cancelling are API calls that may run at the   *)
(* same time, for one upload too, next to the worker's sweep of expired    *)
(* sessions.  Every action is one statement, transaction or storage call;  *)
(* the parts themselves go straight from the launcher to storage.          *)
(***************************************************************************)
EXTENDS Naturals, FiniteSets

CONSTANTS
    Uploads,      \* create calls; each has a job id and a staging key of its own
    KeyOf,        \* KeyOf[u]: the idempotency key the call was made with
    Completions,  \* concurrent calls of .../complete
    Cancels,      \* concurrent DELETE calls
    Resized,      \* uploads whose bytes are not as many as was declared
    Altered,      \* uploads of as many bytes as declared, but other ones
    FaultKinds,   \* which faults happen: subset of {"storage", "crash", "refusal"}
    MaxFaults,    \* bound: how many faults happen in a behaviour
    None          \* no job

ASSUME SessionAssumption ==
    /\ Resized \subseteq Uploads
    /\ Altered \subseteq Uploads \ Resized
    /\ None \notin Uploads
    /\ MaxFaults \in Nat
    /\ FaultKinds \subseteq {"storage", "crash", "refusal"}

VARIABLES
    jobStatus,   \* partition_import_jobs.status, "absent" without a row
    uploadId,    \* partition_import_jobs.multipartUploadId is not null
    runs,        \* processing_runs rows of the job
    expired,     \* expiresAt <= now
    multipart,   \* the multipart upload in storage
    staged,      \* the assembled source object exists
    upc,         \* where each create call is
    cpc, cjob,   \* where each complete call is, and its job
    kpc, kjob,   \* where each cancel call is, and its job
    spc, sjob,   \* where the sweep is, and its job
    faults       \* faults so far

rowVars     == <<jobStatus, uploadId, runs>>
storageVars == <<multipart, staged>>
callVars    == <<upc, cpc, cjob, kpc, kjob, spc, sjob>>
vars == <<rowVars, expired, storageVars, callVars, faults>>

Status == {"absent", "uploading", "queued", "rejected", "cancelled", "expired"}

Fault(kinds) ==
    /\ kinds \cap FaultKinds # {}
    /\ faults < MaxFaults
    /\ faults' = faults + 1

Init ==
    /\ jobStatus = [u \in Uploads |-> "absent"]
    /\ uploadId = [u \in Uploads |-> FALSE]
    /\ runs = [u \in Uploads |-> 0]
    /\ expired = [u \in Uploads |-> FALSE]
    /\ multipart = [u \in Uploads |-> "none"]
    /\ staged = [u \in Uploads |-> FALSE]
    /\ upc = [u \in Uploads |-> "start"]
    /\ cpc = [c \in Completions |-> "idle"]
    /\ cjob = [c \in Completions |-> None]
    /\ kpc = [k \in Cancels |-> "idle"]
    /\ kjob = [k \in Cancels |-> None]
    /\ spc = "idle"
    /\ sjob = None
    /\ faults = 0

(* Mutant of FinishUpload: the status is set whatever it is.               *)
FinishUploadBlindly(u, status) ==
    jobStatus' = [jobStatus EXCEPT ![u] = status]

(* finishJob without a lease: a compare-and-set on uploading.              *)
FinishUpload(u, status) ==
    jobStatus' = [jobStatus EXCEPT ![u] = IF @ = "uploading" THEN status ELSE @]

(* abortMultipartUpload: NoSuchUpload once it was completed or aborted.    *)
AbortMultipart(u) ==
    multipart' = [multipart EXCEPT ![u] = IF @ = "open" THEN "aborted" ELSE @]

-----------------------------------------------------------------------------
(* POST /v1/structured/partition-uploads                                   *)

CreateMultipart(u) ==
    /\ upc[u] = "start"
    /\ multipart' = [multipart EXCEPT ![u] = "open"]
    /\ upc' = [upc EXCEPT ![u] = "reserve"]
    /\ UNCHANGED <<rowVars, expired, staged, cpc, cjob, kpc, kjob, spc, sjob, faults>>

Reserved(u) == \E v \in Uploads : KeyOf[v] = KeyOf[u] /\ jobStatus[v] # "absent"

(* reserveUpload: the row is created unless its idempotency key is taken,  *)
(* in which case the caller's own multipart upload is of no use.  It is    *)
(* aborted too when signing the part URLs fails after the row was created. *)
Reserve(u) ==
    /\ upc[u] = "reserve"
    /\ \/ /\ ~Reserved(u)
          /\ jobStatus' = [jobStatus EXCEPT ![u] = "uploading"]
          /\ uploadId' = [uploadId EXCEPT ![u] = TRUE]
          /\ \/ upc' = [upc EXCEPT ![u] = "done"] /\ UNCHANGED faults
             \/ upc' = [upc EXCEPT ![u] = "abort"] /\ Fault({"storage"})
       \/ /\ Reserved(u)
          /\ upc' = [upc EXCEPT ![u] = "abort"]
          /\ UNCHANGED <<jobStatus, uploadId, faults>>
       \/ /\ Fault({"refusal"})
          /\ upc' = [upc EXCEPT ![u] = "abort"]
          /\ UNCHANGED <<jobStatus, uploadId>>
    /\ UNCHANGED <<runs, expired, storageVars, cpc, cjob, kpc, kjob, spc, sjob>>

AbortOwnMultipart(u) ==
    /\ upc[u] = "abort"
    /\ \/ AbortMultipart(u) /\ UNCHANGED faults
       \/ Fault({"storage"}) /\ UNCHANGED multipart
    /\ upc' = [upc EXCEPT ![u] = "done"]
    /\ UNCHANGED <<rowVars, expired, staged, cpc, cjob, kpc, kjob, spc, sjob>>

CreateDies(u) ==
    /\ upc[u] \in {"reserve", "abort"}
    /\ Fault({"crash"})
    /\ upc' = [upc EXCEPT ![u] = "done"]
    /\ UNCHANGED <<rowVars, expired, storageVars, cpc, cjob, kpc, kjob, spc, sjob>>

(* Time passes expiresAt.                                                  *)
SessionExpires(u) ==
    /\ jobStatus[u] # "absent"
    /\ ~expired[u]
    /\ expired' = [expired EXCEPT ![u] = TRUE]
    /\ UNCHANGED <<rowVars, storageVars, callVars, faults>>

-----------------------------------------------------------------------------
(* POST /v1/structured/partition-uploads/:jobId/complete                   *)

CompleteAt(c, step) ==
    /\ cpc' = [cpc EXCEPT ![c] = step]
    /\ cjob' = [cjob EXCEPT ![c] = IF step = "idle" THEN None ELSE @]

OthersThanComplete == <<upc, kpc, kjob, spc, sjob>>

(* The job is read once; expiry is checked against this reading.           *)
CompleteCheck(c, u) ==
    /\ cpc[c] = "idle"
    /\ jobStatus[u] = "uploading"
    /\ uploadId[u]
    /\ ~expired[u]
    /\ cpc' = [cpc EXCEPT ![c] = "stat"]
    /\ cjob' = [cjob EXCEPT ![c] = u]
    /\ UNCHANGED <<rowVars, expired, storageVars, OthersThanComplete, faults>>

(* statObject of an assembled source in OSS: the size is that of its       *)
(* bytes; the hash is the metadata the multipart upload was created with,  *)
(* which is the declared checksum, whatever the bytes are.                 *)
StatOf(u) ==
    [size |-> IF u \in Resized THEN "other" ELSE "declared", hash |-> "declared"]

(* What complete compares it with.                                         *)
Verified(u) ==
    IF StatOf(u) = [size |-> "declared", hash |-> "declared"] THEN "queue" ELSE "discard"

(* Mutant of CompleteStat: an object that is already there is trusted.     *)
CompleteStatTrusts(c) ==
    /\ cpc[c] = "stat"
    /\ CompleteAt(c, IF staged[cjob[c]] THEN "queue" ELSE "assemble")
    /\ UNCHANGED <<rowVars, expired, storageVars, OthersThanComplete, faults>>

(* findCompletedSource: an earlier call may have assembled the object.     *)
CompleteStat(c) ==
    /\ cpc[c] = "stat"
    /\ CompleteAt(c, IF staged[cjob[c]] THEN Verified(cjob[c]) ELSE "assemble")
    /\ UNCHANGED <<rowVars, expired, storageVars, OthersThanComplete, faults>>

CompleteAssemble(c) ==
    /\ cpc[c] = "assemble"
    /\ \/ /\ multipart[cjob[c]] = "open"
          /\ multipart' = [multipart EXCEPT ![cjob[c]] = "completed"]
          /\ staged' = [staged EXCEPT ![cjob[c]] = TRUE]
          /\ CompleteAt(c, "restat")
       \/ /\ multipart[cjob[c]] # "open"
          /\ CompleteAt(c, "idle")
          /\ UNCHANGED storageVars
    /\ UNCHANGED <<rowVars, expired, OthersThanComplete, faults>>

CompleteRestat(c) ==
    /\ cpc[c] = "restat"
    /\ CompleteAt(c, IF staged[cjob[c]] THEN Verified(cjob[c]) ELSE "idle")
    /\ UNCHANGED <<rowVars, expired, storageVars, OthersThanComplete, faults>>

(* A mismatch: the object is deleted (an error is swallowed) ...           *)
CompleteDiscard(c) ==
    /\ cpc[c] = "discard"
    /\ \/ staged' = [staged EXCEPT ![cjob[c]] = FALSE] /\ UNCHANGED faults
       \/ Fault({"storage"}) /\ UNCHANGED staged
    /\ CompleteAt(c, "refuse")
    /\ UNCHANGED <<rowVars, expired, multipart, OthersThanComplete>>

(* ... and the job is rejected.                                            *)
CompleteRefuse(c) ==
    /\ cpc[c] = "refuse"
    /\ FinishUpload(cjob[c], "rejected")
    /\ CompleteAt(c, "idle")
    /\ UNCHANGED <<uploadId, runs, expired, storageVars, OthersThanComplete, faults>>

(* queueCompletedUpload reads the row without a lock ...                   *)
QueueRead(c) ==
    /\ cpc[c] = "queue"
    /\ \/ CompleteAt(c, IF jobStatus[cjob[c]] = "uploading" THEN "queueWrite" ELSE "idle")
          /\ UNCHANGED faults
       \/ Fault({"refusal"}) /\ CompleteAt(c, "idle")
    /\ UNCHANGED <<rowVars, expired, storageVars, OthersThanComplete>>

(* ... and writes it by id alone.  The unique job key of the processing    *)
(* run rolls a second transaction back.                                    *)
QueueWrite(c) ==
    LET u == cjob[c] IN
    /\ cpc[c] = "queueWrite"
    /\ \/ /\ runs[u] = 0
          /\ jobStatus' = [jobStatus EXCEPT ![u] = "queued"]
          /\ uploadId' = [uploadId EXCEPT ![u] = FALSE]
          /\ runs' = [runs EXCEPT ![u] = @ + 1]
       \/ /\ runs[u] # 0
          /\ UNCHANGED rowVars
    /\ CompleteAt(c, "idle")
    /\ UNCHANGED <<expired, storageVars, OthersThanComplete, faults>>

(* The API process dies in the middle of the call.                         *)
CompleteDies(c) ==
    /\ cpc[c] # "idle"
    /\ Fault({"crash"})
    /\ CompleteAt(c, "idle")
    /\ UNCHANGED <<rowVars, expired, storageVars, OthersThanComplete>>

-----------------------------------------------------------------------------
(* DELETE /v1/structured/partition-uploads/:jobId                          *)

OthersThanCancel == <<upc, cpc, cjob, spc, sjob>>

CancelAt(k, step) ==
    /\ kpc' = [kpc EXCEPT ![k] = step]
    /\ kjob' = [kjob EXCEPT ![k] = IF step = "idle" THEN None ELSE @]

CancelCheck(k, u) ==
    /\ kpc[k] = "idle"
    /\ jobStatus[u] = "uploading"
    /\ kpc' = [kpc EXCEPT ![k] = "finish"]
    /\ kjob' = [kjob EXCEPT ![k] = u]
    /\ UNCHANGED <<rowVars, expired, storageVars, OthersThanCancel, faults>>

CancelFinish(k) ==
    /\ kpc[k] = "finish"
    /\ FinishUpload(kjob[k], "cancelled")
    /\ CancelAt(k, IF jobStatus[kjob[k]] = "uploading" THEN "abort" ELSE "idle")
    /\ UNCHANGED <<uploadId, runs, expired, storageVars, OthersThanCancel, faults>>

(* Errors are swallowed: an upload that was completed stays in storage.    *)
CancelAbort(k) ==
    /\ kpc[k] = "abort"
    /\ \/ AbortMultipart(kjob[k]) /\ UNCHANGED faults
       \/ Fault({"storage"}) /\ UNCHANGED multipart
    /\ CancelAt(k, "idle")
    /\ UNCHANGED <<rowVars, expired, staged, OthersThanCancel>>

CancelDies(k) ==
    /\ kpc[k] # "idle"
    /\ Fault({"crash"})
    /\ CancelAt(k, "idle")
    /\ UNCHANGED <<rowVars, expired, storageVars, OthersThanCancel>>

-----------------------------------------------------------------------------
(* cleanupExpiredUploads                                                   *)

OthersThanSweep == <<upc, cpc, cjob, kpc, kjob>>

SweepAt(step) ==
    /\ spc' = step
    /\ sjob' = IF step = "idle" THEN None ELSE sjob

SweepPick(u) ==
    /\ spc = "idle"
    /\ jobStatus[u] = "uploading"
    /\ expired[u]
    /\ uploadId[u]
    /\ spc' = "abort"
    /\ sjob' = u
    /\ UNCHANGED <<rowVars, expired, storageVars, OthersThanSweep, faults>>

(* Aborting works only on an open upload; on any error the object is next. *)
SweepAbort ==
    /\ spc = "abort"
    /\ \/ /\ multipart[sjob] = "open"
          /\ AbortMultipart(sjob)
          /\ SweepAt("finish")
          /\ UNCHANGED faults
       \/ /\ multipart[sjob] # "open"
          /\ SweepAt("noUpload")
          /\ UNCHANGED <<multipart, faults>>
       \/ /\ Fault({"storage"})
          /\ SweepAt("abortError")
          /\ UNCHANGED multipart
    /\ UNCHANGED <<rowVars, expired, staged, OthersThanSweep>>

(* Mutant of SweepDelete: a missing object is always an error.             *)
SweepDeleteInsists ==
    /\ spc \in {"noUpload", "abortError"}
    /\ staged' = [staged EXCEPT ![sjob] = FALSE]
    /\ SweepAt(IF staged[sjob] THEN "finish" ELSE "idle")
    /\ UNCHANGED <<rowVars, expired, multipart, OthersThanSweep, faults>>

(* statObject and deleteObject.  A missing object counts as cleaned only   *)
(* when the multipart upload is missing too.                               *)
SweepDelete ==
    /\ spc \in {"noUpload", "abortError"}
    /\ \/ /\ staged[sjob]
          /\ staged' = [staged EXCEPT ![sjob] = FALSE]
          /\ SweepAt("finish")
          /\ UNCHANGED faults
       \/ /\ ~staged[sjob]
          /\ SweepAt(IF spc = "noUpload" THEN "finish" ELSE "idle")
          /\ UNCHANGED <<staged, faults>>
       \/ /\ Fault({"storage"})
          /\ SweepAt("idle")
          /\ UNCHANGED staged
    /\ UNCHANGED <<rowVars, expired, multipart, OthersThanSweep>>

SweepFinish ==
    /\ spc = "finish"
    /\ FinishUpload(sjob, "expired")
    /\ SweepAt("idle")
    /\ UNCHANGED <<uploadId, runs, expired, storageVars, OthersThanSweep, faults>>

(* The worker process dies in the middle of the sweep.                     *)
SweepDies ==
    /\ spc # "idle"
    /\ Fault({"crash"})
    /\ SweepAt("idle")
    /\ UNCHANGED <<rowVars, expired, storageVars, OthersThanSweep>>

-----------------------------------------------------------------------------
CreateStep(u) == CreateMultipart(u) \/ Reserve(u) \/ AbortOwnMultipart(u)

CompleteStep(c) ==
    \/ CompleteStat(c) \/ CompleteAssemble(c) \/ CompleteRestat(c)
    \/ CompleteDiscard(c) \/ CompleteRefuse(c) \/ QueueRead(c) \/ QueueWrite(c)

CancelStep(k) == CancelFinish(k) \/ CancelAbort(k)

SweepStep == SweepAbort \/ SweepDelete \/ SweepFinish

Next ==
    \/ \E u \in Uploads : CreateStep(u) \/ CreateDies(u) \/ SessionExpires(u) \/ SweepPick(u)
    \/ \E c \in Completions, u \in Uploads : CompleteCheck(c, u)
    \/ \E c \in Completions : CompleteStep(c) \/ CompleteDies(c)
    \/ \E k \in Cancels, u \in Uploads : CancelCheck(k, u)
    \/ \E k \in Cancels : CancelStep(k) \/ CancelDies(k)
    \/ SweepStep \/ SweepDies

Spec == Init /\ [][Next]_vars

-----------------------------------------------------------------------------
(* Properties.                                                             *)

(* Every variable keeps to the values its column or local can hold.        *)
TypeOK ==
    /\ jobStatus \in [Uploads -> Status]
    /\ uploadId \in [Uploads -> BOOLEAN]
    /\ runs \in [Uploads -> Nat]
    /\ expired \in [Uploads -> BOOLEAN]
    /\ multipart \in [Uploads -> {"none", "open", "completed", "aborted"}]
    /\ staged \in [Uploads -> BOOLEAN]
    /\ upc \in [Uploads -> {"start", "reserve", "abort", "done"}]
    /\ cpc \in [Completions -> {"idle", "stat", "assemble", "restat", "discard",
                                "refuse", "queue", "queueWrite"}]
    /\ cjob \in [Completions -> Uploads \cup {None}]
    /\ kpc \in [Cancels -> {"idle", "finish", "abort"}]
    /\ kjob \in [Cancels -> Uploads \cup {None}]
    /\ spc \in {"idle", "abort", "noUpload", "abortError", "finish"}
    /\ sjob \in Uploads \cup {None}
    /\ \A c \in Completions : cjob[c] = None <=> cpc[c] = "idle"
    /\ \A k \in Cancels : kjob[k] = None <=> kpc[k] = "idle"
    /\ sjob = None <=> spc = "idle"
    /\ faults \in 0..MaxFaults

(* routes.test.ts: an accepted import is not cancelled.  Neither a cancel  *)
(* call nor the sweep that read the job before it was accepted undoes the  *)
(* acceptance.                                                             *)
AcceptanceIsFinal ==
    [][\A u \in Uploads : jobStatus[u] = "queued" => jobStatus'[u] = "queued"]_vars

(* A source that is not as long as was declared is never accepted, however *)
(* its calls overlap and whatever an earlier one left in storage.          *)
WrongSizeNeverQueued == \A u \in Resized : jobStatus[u] # "queued"

(* What the refusal says, "Uploaded source checksum did not match.": a     *)
(* source whose bytes are not the declared ones is never accepted.  The    *)
(* code does accept it when its length is right: see the README.           *)
CorruptNeverQueued == \A u \in Resized \cup Altered : jobStatus[u] # "queued"

-----------------------------------------------------------------------------
(* Calls that are being served go on, time passes and the sweep runs on    *)
(* its timer.  Nobody has to complete or cancel an upload.                 *)
Fairness ==
    /\ \A u \in Uploads :
         WF_vars(CreateStep(u)) /\ WF_vars(SessionExpires(u)) /\ WF_vars(SweepPick(u))
    /\ \A c \in Completions : WF_vars(CompleteStep(c))
    /\ \A k \in Cancels : WF_vars(CancelStep(k))
    /\ WF_vars(SweepStep)

FairSpec == Spec /\ Fairness

(* No session stays open: each create call ends with a session that is     *)
(* accepted, refused, cancelled or expired, or with none.                  *)
SessionEnds ==
    \A u \in Uploads : <>[](jobStatus[u] # "uploading")
=============================================================================
