-------------------------- MODULE PartitionImport --------------------------
(***************************************************************************)
(* The worker side of a partition import: claiming a processing run under  *)
(* a lease, the importer's steps, the transaction that publishes a source, *)
(* the failure and retry path, and the collection of garbage objects.      *)
(*                                                                         *)
(*   apps/worker/src/worker.ts               claim, complete, fail         *)
(*   apps/worker/src/partition-import.ts     process, cleanup, maintain    *)
(*   packages/db/src/structured-partitions.ts  finishJob, publish          *)
(*   packages/db/src/storage-garbage.ts      the garbage queue             *)
(*                                                                         *)
(* Every action is one database transaction or one storage call of the     *)
(* code, so that the executions interleave where the code awaits.          *)
(*                                                                         *)
(* Time.  Timestamps are kept as what the code asks of them: live[j] says  *)
(* lockedUntil > now, due[j] says availableAt <= now.  The fenced updates  *)
(* of complete and fail compare lockedUntil with a time sampled before     *)
(* the transaction; fresh[w] is the answer at the time of that sample.  An *)
(* expired lease is never extended (heartbeats demand a live one), so the  *)
(* answer for one attempt can only go from live to lapsed and the sample   *)
(* is all that matters.                                                    *)
(***************************************************************************)
EXTENDS Naturals, FiniteSets

CONSTANTS
    Jobs,         \* accepted uploads; job j and its processing run are 1:1
    Executions,   \* concurrent calls of runWorkerOnce
    Parts,        \* partition identities
    Sums,         \* checksums of canonical content
    NoSum,        \* "the source has nothing for this partition"
    Manifest,     \* Manifest[j][p]: checksum of p in source j, or NoSum
    Level,        \* Level[j]: metadata of upload j other than its order scope
    Scope,        \* Scope[j]: order scope of upload j
    WorkerIds,    \* values of lockedBy
    IdOf,         \* IdOf[w]: the worker id execution w runs under
    MaxAttempts,  \* workerMaxAttempts
    FaultKinds,   \* which faults happen: subset of {"crash","lapse","storage","db"}
    MaxFaults,    \* bound: how many faults happen in a behaviour
    None          \* null

(* A source holding nothing stands for one that cannot be exported or that *)
(* has a business date outside the declared range: both are rejected.      *)
ASSUME ConstantsAssumption ==
    /\ NoSum \notin Sums
    /\ Manifest \in [Jobs -> [Parts -> Sums \cup {NoSum}]]
    /\ IdOf \in [Executions -> WorkerIds]
    /\ None \notin Jobs \cup Parts \cup WorkerIds
    /\ None \notin Jobs \X Nat \X (Parts \cup {None})
    /\ MaxAttempts \in Nat \ {0}
    /\ MaxFaults \in Nat
    /\ FaultKinds \subseteq {"crash", "lapse", "storage", "db"}

VARIABLES
    jobStatus,    \* partition_import_jobs.status
    tempKey,      \* partition_import_jobs.temporaryObjectKey is not null
    runStatus,    \* processing_runs.status
    attempt,      \* processing_runs.attemptNumber
    lockedBy,     \* processing_runs.lockedBy
    live,         \* processing_runs.lockedUntil > now
    due,          \* processing_runs.availableAt <= now
    object,       \* structured_partitions.objectKey, None without a row
    writer,       \* structured_partitions.publishedByJobId
    version,      \* structured_partitions.version
    objects,      \* keys present in object storage
    garbage,      \* keys in storage_garbage
    pc, wjob, watt, uploaded, err, fresh,   \* locals of each execution
    gc, gcPc,     \* the key maintenance is deleting, and how far it is
    faults,       \* faults so far
    publishedAt   \* history: the attempt that published j, 0 if none did

jobVars     == <<jobStatus, tempKey>>
runVars     == <<runStatus, attempt, lockedBy, live, due>>
catalogVars == <<object, writer, version, publishedAt>>
storeVars   == <<objects, garbage>>
DatabaseVars == <<jobVars, runVars, catalogVars>>
workerVars  == <<pc, wjob, watt, uploaded, err, fresh>>
gcVars      == <<gc, gcPc>>
vars == <<jobVars, runVars, catalogVars, storeVars, workerVars, gcVars, faults>>

-----------------------------------------------------------------------------
(* Object keys.  A candidate's key holds a random id, so each attempt has  *)
(* keys of its own; the staging key is one per job.                        *)

CandidateKey(j, n, p) == <<j, n, p>>
SourceKey(j) == <<j, 0, None>>
Keys == Jobs \X Nat \X (Parts \cup {None})
SourceKeys == {SourceKey(j) : j \in Jobs}

Candidates(j) == {p \in Parts : Manifest[j][p] # NoSum}

JobStatus == {"queued", "processing", "published", "rejected", "failed", "purged"}
TerminalJob == {"published", "rejected", "failed", "purged"}
RunStatus == {"queued", "running", "succeeded", "failed", "retry_scheduled"}
Steps == {"idle", "takeUp", "takeOver", "download", "upload", "publish", "publishing",
          "readBack", "abandon", "reject", "rejecting", "cleanSource", "complete",
          "fail", "cleanTerminal"}

(* An execution whose claim has committed; one that is still claiming has  *)
(* only read the run, and watt is the attempt number it read.              *)
Working(w) == pc[w] \notin {"idle", "takeUp", "takeOver"}

(* The run row is locked from the lease check of the transaction that ends *)
(* the job until that transaction commits; of these, the ones that publish *)
(* also hold the organization's authorization state, one at a time.        *)
RunLocked(j) == \E w \in Executions : wjob[w] = j /\ pc[w] \in {"publishing", "rejecting"}
NobodyPublishes == \A w \in Executions : pc[w] # "publishing"

Fault(kinds) ==
    /\ kinds \cap FaultKinds # {}
    /\ faults < MaxFaults
    /\ faults' = faults + 1

(* The execution has an error in hand and has nothing left to undo.        *)
AfterError(e) == CASE e = "scope" -> "reject"
                   [] e = "lost"  -> "idle"
                   [] OTHER       -> "fail"

(* Execution w moves to step s with the candidates u and the error e in    *)
(* its locals; they are gone once the call has returned.  complete and     *)
(* fail take their time sample before their transaction starts.            *)
MoveTo(w, s, u, e) ==
    LET Local(value, gone) == IF s = "idle" THEN gone ELSE value IN
    /\ pc' = [pc EXCEPT ![w] = s]
    /\ wjob' = [wjob EXCEPT ![w] = Local(wjob[w], None)]
    /\ watt' = [watt EXCEPT ![w] = Local(watt[w], 0)]
    /\ uploaded' = [uploaded EXCEPT ![w] = Local(u, {})]
    /\ err' = [err EXCEPT ![w] = Local(e, "none")]
    /\ fresh' = [fresh EXCEPT ![w] = s \in {"complete", "fail"} /\ live[wjob[w]]]

Goto(w, s) == MoveTo(w, s, uploaded[w], err[w])
GotoWith(w, s, e) == MoveTo(w, s, uploaded[w], e)

(* Mutant of HoldsLease: the attempt number is not compared.               *)
HoldsLeaseAnyAttempt(w) ==
    LET j == wjob[w] IN
    /\ runStatus[j] = "running"
    /\ lockedBy[j] = IdOf[w]
    /\ live[j]

(* requirePartitionImportLease: the time is read after the row is locked.  *)
HoldsLease(w) ==
    LET j == wjob[w] IN
    /\ runStatus[j] = "running"
    /\ lockedBy[j] = IdOf[w]
    /\ attempt[j] = watt[w]
    /\ live[j]

(* activeLeaseWhere: the time was sampled by the caller.                   *)
HeldLeaseAtSample(w) ==
    LET j == wjob[w] IN
    /\ runStatus[j] = "running"
    /\ lockedBy[j] = IdOf[w]
    /\ attempt[j] = watt[w]
    /\ fresh[w]

(* deleteOrEnqueue returns: the object is gone, or its key is queued.      *)
DeleteOrEnqueue(k) ==
    \/ /\ objects' = objects \ {k}
       /\ garbage' = garbage \ {k}
       /\ UNCHANGED faults
    \/ /\ Fault({"storage", "db"})
       /\ objects' \in {objects, objects \ {k}}
       /\ garbage' = garbage \cup {k}

(* deleteOrEnqueue throws: queueing the key failed as well.                *)
DeleteOrEnqueueThrows(k) ==
    /\ Fault({"db"})
    /\ objects' \in {objects, objects \ {k}}
    /\ UNCHANGED garbage
-----------------------------------------------------------------------------
(* Uploads arrive queued.  The source object may already be missing: the   *)
(* sweep of expired uploads can delete it while the upload is completed    *)
(* (module UploadSession).                                                 *)
Init ==
    /\ jobStatus = [j \in Jobs |-> "queued"]
    /\ tempKey = [j \in Jobs |-> TRUE]
    /\ runStatus = [j \in Jobs |-> "queued"]
    /\ attempt = [j \in Jobs |-> 0]
    /\ lockedBy = [j \in Jobs |-> None]
    /\ live = [j \in Jobs |-> FALSE]
    /\ due = [j \in Jobs |-> TRUE]
    /\ object = [p \in Parts |-> None]
    /\ writer = [p \in Parts |-> None]
    /\ version = [p \in Parts |-> 0]
    /\ publishedAt = [j \in Jobs |-> 0]
    /\ objects \in SUBSET SourceKeys
    /\ garbage = {}
    /\ pc = [w \in Executions |-> "idle"]
    /\ wjob = [w \in Executions |-> None]
    /\ watt = [w \in Executions |-> 0]
    /\ uploaded = [w \in Executions |-> {}]
    /\ err = [w \in Executions |-> "none"]
    /\ fresh = [w \in Executions |-> FALSE]
    /\ gc = None
    /\ gcPc = "idle"
    /\ faults = 0

-----------------------------------------------------------------------------
(* The lease.                                                              *)

(* Mutant of Claimable: a run left running is not taken up again.          *)
ClaimableOnlyWaiting(j) ==
    /\ jobStatus[j] \in {"queued", "processing"}
    /\ runStatus[j] \in {"queued", "retry_scheduled"}
    /\ due[j]

Claimable(j) ==
    /\ jobStatus[j] \in {"queued", "processing"}
    /\ \/ runStatus[j] \in {"queued", "retry_scheduled"} /\ due[j]
       \/ runStatus[j] = "running" /\ ~live[j]

(* claimNextProcessingRun is a transaction that reads run and job in one   *)
(* snapshot and later updates the run only where it is as it was read.  A  *)
(* claimable run whose job has no temporary key in the snapshot makes the  *)
(* transaction throw and roll back: it is not read to any effect.          *)
ClaimRead(w, j) ==
    /\ pc[w] = "idle"
    /\ Claimable(j)
    /\ tempKey[j]
    /\ pc' = [pc EXCEPT ![w] = IF runStatus[j] = "running" THEN "takeOver" ELSE "takeUp"]
    /\ wjob' = [wjob EXCEPT ![w] = j]
    /\ watt' = [watt EXCEPT ![w] = attempt[j]]
    /\ UNCHANGED <<DatabaseVars, storeVars, uploaded, err, fresh, gcVars, faults>>

(* The run is as the claim of w has read it.                               *)
AsRead(w) ==
    LET j == wjob[w] IN
    /\ attempt[j] = watt[w]
    /\ \/ pc[w] = "takeUp" /\ runStatus[j] \in {"queued", "retry_scheduled"}
       \/ pc[w] = "takeOver" /\ runStatus[j] = "running" /\ ~live[j]

(* The update waits for the row's lock.  The job is then set to processing *)
(* by its id, whatever has become of it since it was read.                 *)
ClaimWrite(w) ==
    LET j == wjob[w] IN
    /\ pc[w] \in {"takeUp", "takeOver"}
    /\ ~RunLocked(j)
    /\ AsRead(w)
    /\ runStatus' = [runStatus EXCEPT ![j] = "running"]
    /\ attempt' = [attempt EXCEPT ![j] = @ + 1]
    /\ lockedBy' = [lockedBy EXCEPT ![j] = IdOf[w]]
    /\ live' = [live EXCEPT ![j] = TRUE]
    /\ jobStatus' = [jobStatus EXCEPT ![j] = "processing"]
    /\ pc' = [pc EXCEPT ![w] = "download"]
    /\ watt' = [watt EXCEPT ![w] = @ + 1]
    /\ UNCHANGED <<tempKey, due, catalogVars, storeVars, wjob, uploaded, err, fresh, gcVars, faults>>

(* Another claim or the end of the run came first, or the transaction      *)
(* fails: the call returns without a run.                                  *)
ClaimMisses(w) ==
    /\ pc[w] \in {"takeUp", "takeOver"}
    /\ ~RunLocked(wjob[w])
    /\ \/ ~AsRead(w) /\ UNCHANGED faults
       \/ Fault({"db"})
    /\ Goto(w, "idle")
    /\ UNCHANGED <<DatabaseVars, storeVars, gcVars>>

Attended(j) == \E w \in Executions : Working(w) /\ wjob[w] = j /\ watt[w] = attempt[j]

(* Time passes lockedUntil: a lease nobody is left to extend runs out.     *)
LeaseLapses(j) ==
    /\ live[j]
    /\ ~Attended(j)
    /\ live' = [live EXCEPT ![j] = FALSE]
    /\ UNCHANGED <<jobVars, runStatus, attempt, lockedBy, due, catalogVars,
                   storeVars, workerVars, gcVars, faults>>

(* heartbeatProcessingRun keeps the lease of a running execution alive by  *)
(* extending it every third of its length.  It runs out all the same when  *)
(* the heartbeats fail or the process is paused; the execution goes on.    *)
HeartbeatsFail(j) ==
    /\ live[j]
    /\ Attended(j)
    /\ Fault({"lapse"})
    /\ live' = [live EXCEPT ![j] = FALSE]
    /\ UNCHANGED <<jobVars, runStatus, attempt, lockedBy, due, catalogVars,
                   storeVars, workerVars, gcVars>>

(* Time passes availableAt: the backoff of a scheduled retry is over.      *)
RetryFallsDue(j) ==
    /\ ~due[j]
    /\ due' = [due EXCEPT ![j] = TRUE]
    /\ UNCHANGED <<jobVars, runStatus, attempt, lockedBy, live, catalogVars,
                   storeVars, workerVars, gcVars, faults>>

-----------------------------------------------------------------------------
(* The importer: createPartitionImporter().process.                        *)

(* The claim returned a job without a temporary key: its source has been   *)
(* published since the claim read it.  runWorkerOnce throws an error that  *)
(* is not retried.                                                         *)
Unusable(w) ==
    /\ pc[w] = "download"
    /\ ~tempKey[wjob[w]]
    /\ GotoWith(w, "fail", "unusable")
    /\ UNCHANGED <<DatabaseVars, storeVars, gcVars, faults>>

(* downloadObjectToFile and exportStructuredPartitions.                    *)
Download(w) ==
    /\ pc[w] = "download"
    /\ tempKey[wjob[w]]
    /\ \/ /\ SourceKey(wjob[w]) \in objects
          /\ Goto(w, IF Candidates(wjob[w]) = {} THEN "reject" ELSE "upload")
          /\ UNCHANGED faults
       \/ /\ SourceKey(wjob[w]) \notin objects
          /\ Goto(w, "fail")
          /\ UNCHANGED faults
       \/ /\ Fault({"storage"})
          /\ Goto(w, "fail")
    /\ UNCHANGED <<DatabaseVars, storeVars, gcVars>>

(* putObjectAtKey and statObject of one candidate.                         *)
Upload(w, p) ==
    /\ pc[w] = "upload"
    /\ p \in Candidates(wjob[w]) \ uploaded[w]
    /\ objects' = objects \cup {CandidateKey(wjob[w], watt[w], p)}
    /\ LET u == uploaded[w] \cup {p} IN
         MoveTo(w, IF u = Candidates(wjob[w]) THEN "publish" ELSE "upload", u, err[w])
    /\ UNCHANGED <<DatabaseVars, garbage, gcVars, faults>>

(* The put fails (the object may be there all the same, but its key is not *)
(* in uploadedKeys) or the verification after it does (it is).             *)
UploadFails(w, p) ==
    /\ pc[w] = "upload"
    /\ p \in Candidates(wjob[w]) \ uploaded[w]
    /\ Fault({"storage"})
    /\ \/ /\ objects' \in {objects, objects \cup {CandidateKey(wjob[w], watt[w], p)}}
          /\ GotoWith(w, IF uploaded[w] = {} THEN "fail" ELSE "abandon", "retry")
       \/ /\ objects' = objects \cup {CandidateKey(wjob[w], watt[w], p)}
          /\ MoveTo(w, "abandon", uploaded[w] \cup {p}, "retry")
    /\ UNCHANGED <<DatabaseVars, garbage, gcVars>>

(* finishJob(rejected) under the lease, after an export error or an order  *)
(* scope conflict: the lease is checked first, the job updated later in    *)
(* the same transaction.                                                   *)
BeginReject(w) ==
    /\ pc[w] = "reject"
    /\ \/ HoldsLease(w) /\ Goto(w, "rejecting") /\ UNCHANGED faults
       \/ ~HoldsLease(w) /\ Goto(w, "idle") /\ UNCHANGED faults
       \/ Fault({"db"}) /\ Goto(w, "fail")
    /\ UNCHANGED <<DatabaseVars, storeVars, gcVars>>

Reject(w) ==
    /\ pc[w] = "rejecting"
    /\ \/ /\ jobStatus' = [jobStatus EXCEPT ![wjob[w]] =
                             IF @ = "processing" THEN "rejected" ELSE @]
          /\ \/ Goto(w, "cleanSource") /\ UNCHANGED faults
             \/ Fault({"db"}) /\ Goto(w, "fail")
       \/ /\ Fault({"db"})
          /\ Goto(w, "fail")
          /\ UNCHANGED jobStatus
    /\ UNCHANGED <<tempKey, runVars, catalogVars, storeVars, gcVars>>

(* cleanupPartitionSource.  An error here reaches the failure path although*)
(* the job is already published or rejected.                               *)
CleanSource(w) ==
    /\ pc[w] = "cleanSource"
    /\ \/ DeleteOrEnqueue(SourceKey(wjob[w])) /\ Goto(w, "complete")
       \/ DeleteOrEnqueueThrows(SourceKey(wjob[w])) /\ Goto(w, "fail")
    /\ UNCHANGED <<DatabaseVars, gcVars>>

-----------------------------------------------------------------------------
(* Publishing: publishSourceAtomically.                                    *)

CurrentSum(p) == Manifest[object[p][1]][p]

(* Mutant of Decision: equal content is kept whatever the metadata says.   *)
DecisionBySum(j, p) ==
    IF object[p] = None THEN "insert"
    ELSE IF CurrentSum(p) # Manifest[j][p] THEN "replace" ELSE "keep"

(* decidePartitionReplacement, for a candidate of job j.                   *)
Decision(j, p) ==
    IF object[p] = None THEN "insert"
    ELSE IF CurrentSum(p) # Manifest[j][p] THEN "replace"
    ELSE IF Level[writer[p]] = Level[j] /\ Scope[writer[p]] = Scope[j] THEN "keep"
    ELSE "update_metadata"

(* A current row of another order scope, and no confirmed transition.      *)
ScopeConflict(j) ==
    \E p \in Candidates(j) : object[p] # None /\ Scope[writer[p]] # Scope[j]

(* Mutant of Retired: the replaced object is not queued.                   *)
RetiredWithoutReplaced(j, n) ==
    {CandidateKey(j, n, p) :
        p \in {q \in Candidates(j) : Decision(j, q) \in {"keep", "update_metadata"}}}
    \cup (IF tempKey[j] THEN {SourceKey(j)} ELSE {})

(* The keys the transaction enqueues: replaced objects, candidates that    *)
(* are not needed, and the source.                                         *)
Retired(j, n) ==
    {object[p] : p \in {q \in Candidates(j) : Decision(j, q) = "replace"}}
    \cup {CandidateKey(j, n, p) :
            p \in {q \in Candidates(j) : Decision(j, q) \in {"keep", "update_metadata"}}}
    \cup (IF tempKey[j] THEN {SourceKey(j)} ELSE {})

MarkPublished(j, n) ==
    /\ jobStatus' = [jobStatus EXCEPT ![j] = "published"]
    /\ publishedAt' = [publishedAt EXCEPT ![j] = n]
    /\ tempKey' = [tempKey EXCEPT ![j] = FALSE]

(* The transaction's effects when attempt n of job j commits.              *)
CommitPublication(j, n) ==
    LET New == {p \in Candidates(j) : Decision(j, p) \in {"insert", "replace"}}
        Written == {p \in Candidates(j) : Decision(j, p) # "keep"} IN
    /\ object' = [p \in Parts |-> IF p \in New THEN CandidateKey(j, n, p) ELSE object[p]]
    /\ writer' = [p \in Parts |-> IF p \in Written THEN j ELSE writer[p]]
    /\ version' = [p \in Parts |-> IF p \in Written THEN version[p] + 1 ELSE version[p]]
    /\ garbage' = garbage \cup Retired(j, n)
    /\ MarkPublished(j, n)

(* The transaction reads the job, takes the organization's lock and checks *)
(* the lease; nothing is visible to others before it commits, and the run  *)
(* row stays locked, although the lease may run out meanwhile.             *)
BeginPublish(w) ==
    /\ pc[w] = "publish"
    /\ jobStatus[wjob[w]] = "processing"
    /\ NobodyPublishes
    /\ HoldsLease(w)
    /\ ~ScopeConflict(wjob[w])
    /\ Goto(w, "publishing")
    /\ UNCHANGED <<DatabaseVars, storeVars, gcVars, faults>>

(* The transaction commits; its acknowledgement may be lost.               *)
Publish(w) ==
    /\ pc[w] = "publishing"
    /\ CommitPublication(wjob[w], watt[w])
    /\ \/ Goto(w, "cleanSource") /\ UNCHANGED faults
       \/ Fault({"db"}) /\ GotoWith(w, "readBack", "retry")
    /\ UNCHANGED <<runVars, objects, gcVars>>

(* The transaction throws and has no effect.                               *)
PublishThrows(w) ==
    LET j == wjob[w] IN
    /\ \/ /\ pc[w] = "publish"
          /\ jobStatus[j] # "processing"
          /\ GotoWith(w, "readBack", "retry")
          /\ UNCHANGED faults
       \/ /\ pc[w] = "publish"
          /\ jobStatus[j] = "processing"
          /\ ~HoldsLease(w)
          /\ GotoWith(w, "readBack", "lost")
          /\ UNCHANGED faults
       \/ /\ pc[w] = "publish"
          /\ jobStatus[j] = "processing"
          /\ NobodyPublishes
          /\ HoldsLease(w)
          /\ ScopeConflict(j)
          /\ GotoWith(w, "readBack", "scope")
          /\ UNCHANGED faults
       \/ /\ pc[w] \in {"publish", "publishing"}
          /\ Fault({"db"})
          /\ GotoWith(w, "readBack", "retry")
    /\ UNCHANGED <<DatabaseVars, storeVars, gcVars>>

(* Mutant of ReadBack: the candidates are deleted whatever the answer is.  *)
ReadBackUnasked(w) ==
    /\ pc[w] = "readBack"
    /\ Goto(w, "abandon")
    /\ UNCHANGED <<DatabaseVars, storeVars, gcVars, faults>>

(* After any error the importer asks the database what became of the job:  *)
(* published counts as success, processing makes it safe to delete the     *)
(* candidates, anything else leaves them alone.                            *)
ReadBack(w) ==
    /\ pc[w] = "readBack"
    /\ \/ /\ jobStatus[wjob[w]] = "published"
          /\ Goto(w, "cleanSource")
          /\ UNCHANGED faults
       \/ /\ jobStatus[wjob[w]] = "processing"
          /\ Goto(w, "abandon")
          /\ UNCHANGED faults
       \/ /\ jobStatus[wjob[w]] \notin {"published", "processing"}
          /\ Goto(w, AfterError(err[w]))
          /\ UNCHANGED faults
       \/ /\ Fault({"db"})
          /\ GotoWith(w, "fail", "retry")
    /\ UNCHANGED <<DatabaseVars, storeVars, gcVars>>

(* deleteOrEnqueue of one uploaded candidate; after the last one the error *)
(* takes its course.                                                       *)
Abandon(w, p) ==
    LET k == CandidateKey(wjob[w], watt[w], p) IN
    /\ pc[w] = "abandon"
    /\ p \in uploaded[w]
    /\ \/ /\ DeleteOrEnqueue(k)
          /\ LET u == uploaded[w] \ {p} IN
               MoveTo(w, IF u = {} THEN AfterError(err[w]) ELSE "abandon", u, err[w])
       \/ /\ DeleteOrEnqueueThrows(k)
          /\ GotoWith(w, "fail", "retry")
    /\ UNCHANGED <<DatabaseVars, gcVars>>

-----------------------------------------------------------------------------
(* The end of an attempt.                                                  *)

(* The run is released in a transaction of its own, in status s.           *)
Release(j, s) ==
    /\ runStatus' = [runStatus EXCEPT ![j] = s]
    /\ lockedBy' = [lockedBy EXCEPT ![j] = None]
    /\ live' = [live EXCEPT ![j] = FALSE]
    /\ due' = [due EXCEPT ![j] = s # "retry_scheduled"]
    /\ UNCHANGED attempt

(* completePartitionProcessing.  An error (with or without the commit)     *)
(* reaches the failure path, which asks for the lease again.               *)
Complete(w) ==
    /\ pc[w] = "complete"
    /\ \/ /\ HeldLeaseAtSample(w)
          /\ Release(wjob[w], "succeeded")
          /\ \/ Goto(w, "idle") /\ UNCHANGED faults
             \/ Fault({"db"}) /\ Goto(w, "fail")
       \/ /\ ~HeldLeaseAtSample(w)
          /\ Goto(w, "idle")
          /\ UNCHANGED <<runVars, faults>>
       \/ /\ Fault({"db"})
          /\ Goto(w, "fail")
          /\ UNCHANGED runVars
    /\ UNCHANGED <<jobVars, catalogVars, storeVars, gcVars>>

WillRetry(w) == err[w] # "unusable" /\ watt[w] < MaxAttempts

(* Where a failed attempt goes on: cleanupTerminal has nothing to clean    *)
(* for a job without a temporary key.                                      *)
AfterFail(w) == IF WillRetry(w) \/ err[w] = "unusable" THEN "idle" ELSE "cleanTerminal"

(* failProcessingRun.  The job's status is overwritten whatever it is.  A  *)
(* lost acknowledgement skips the terminal cleanup.                        *)
Fail(w) ==
    LET j == wjob[w] IN
    /\ pc[w] = "fail"
    /\ \/ /\ HeldLeaseAtSample(w)
          /\ Release(j, IF WillRetry(w) THEN "retry_scheduled" ELSE "failed")
          /\ jobStatus' = [jobStatus EXCEPT ![j] = IF WillRetry(w) THEN "queued" ELSE "failed"]
          /\ \/ Goto(w, AfterFail(w)) /\ UNCHANGED faults
             \/ Fault({"db"}) /\ Goto(w, "idle")
       \/ /\ ~HeldLeaseAtSample(w)
          /\ Goto(w, "idle")
          /\ UNCHANGED <<runVars, jobStatus, faults>>
       \/ /\ Fault({"db"})
          /\ Goto(w, "idle")
          /\ UNCHANGED <<runVars, jobStatus>>
    /\ UNCHANGED <<tempKey, catalogVars, storeVars, gcVars>>

(* cleanupTerminal: its errors are swallowed.                              *)
CleanTerminal(w) ==
    /\ pc[w] = "cleanTerminal"
    /\ DeleteOrEnqueue(SourceKey(wjob[w])) \/ DeleteOrEnqueueThrows(SourceKey(wjob[w]))
    /\ Goto(w, "idle")
    /\ UNCHANGED <<DatabaseVars, gcVars>>

(* The process dies; whatever was in memory is gone.                       *)
Crash(w) ==
    /\ pc[w] # "idle"
    /\ Fault({"crash"})
    /\ Goto(w, "idle")
    /\ UNCHANGED <<DatabaseVars, storeVars, gcVars>>

-----------------------------------------------------------------------------
(* Maintenance: one garbage key at a time.                                 *)

(* listDueGarbage and canDeleteGarbage.  Keys of partitions carry no       *)
(* processing run, so no lease protects them.                              *)
GcPick(k) ==
    /\ gcPc = "idle"
    /\ k \in garbage
    /\ gc' = k
    /\ gcPc' = "delete"
    /\ UNCHANGED <<DatabaseVars, storeVars, workerVars, faults>>

(* Mutant of GcDelete: a storage error is taken for success.               *)
GcDeleteSwallowsError ==
    /\ gcPc = "delete"
    /\ \/ objects' = objects \ {gc} /\ UNCHANGED faults
       \/ Fault({"storage"}) /\ UNCHANGED objects
    /\ gcPc' = "forget"
    /\ UNCHANGED <<gc, DatabaseVars, garbage, workerVars>>

(* storage.deleteObject; an error postpones the row.                       *)
GcDelete ==
    /\ gcPc = "delete"
    /\ \/ /\ objects' = objects \ {gc}
          /\ gcPc' = "forget"
          /\ UNCHANGED <<gc, faults>>
       \/ /\ Fault({"storage"})
          /\ gc' = None
          /\ gcPc' = "idle"
          /\ UNCHANGED objects
    /\ UNCHANGED <<DatabaseVars, garbage, workerVars>>

(* deleteGarbage; when it fails or the process dies the row stays.         *)
GcForget ==
    /\ gcPc = "forget"
    /\ \/ garbage' = garbage \ {gc} /\ UNCHANGED faults
       \/ Fault({"db", "crash"}) /\ UNCHANGED garbage
    /\ gc' = None
    /\ gcPc' = "idle"
    /\ UNCHANGED <<DatabaseVars, objects, workerVars>>

(* deleteTerminalJobs.  The retention is days: no execution is still at    *)
(* work on a job that old.  The processing run goes with the job.          *)
Purge(j) ==
    /\ jobStatus[j] \in {"published", "rejected", "failed"}
    /\ \A w \in Executions : wjob[w] # j
    /\ jobStatus' = [jobStatus EXCEPT ![j] = "purged"]
    /\ live' = [live EXCEPT ![j] = FALSE]
    /\ UNCHANGED <<tempKey, runStatus, attempt, lockedBy, due, catalogVars,
                   storeVars, workerVars, gcVars, faults>>

-----------------------------------------------------------------------------
WorkerStep(w) ==
    \/ ClaimWrite(w) \/ ClaimMisses(w) \/ Unusable(w) \/ Download(w)
    \/ \E p \in Parts : Upload(w, p) \/ UploadFails(w, p) \/ Abandon(w, p)
    \/ BeginPublish(w) \/ Publish(w) \/ PublishThrows(w) \/ ReadBack(w)
    \/ BeginReject(w) \/ Reject(w) \/ CleanSource(w)
    \/ Complete(w) \/ Fail(w) \/ CleanTerminal(w)

Next ==
    \/ \E w \in Executions : WorkerStep(w) \/ Crash(w)
    \/ \E w \in Executions, j \in Jobs : ClaimRead(w, j)
    \/ \E j \in Jobs : LeaseLapses(j) \/ HeartbeatsFail(j) \/ RetryFallsDue(j) \/ Purge(j)
    \/ \E k \in garbage : GcPick(k)
    \/ GcDelete \/ GcForget

Spec == Init /\ [][Next]_vars

-----------------------------------------------------------------------------
(* Properties.                                                             *)

(* Every variable keeps to the values its column or local can hold.        *)
TypeOK ==
    /\ jobStatus \in [Jobs -> JobStatus]
    /\ tempKey \in [Jobs -> BOOLEAN]
    /\ runStatus \in [Jobs -> RunStatus]
    /\ attempt \in [Jobs -> Nat]
    /\ lockedBy \in [Jobs -> WorkerIds \cup {None}]
    /\ live \in [Jobs -> BOOLEAN]
    /\ due \in [Jobs -> BOOLEAN]
    /\ object \in [Parts -> Keys \cup {None}]
    /\ writer \in [Parts -> Jobs \cup {None}]
    /\ version \in [Parts -> Nat]
    /\ publishedAt \in [Jobs -> Nat]
    /\ objects \subseteq Keys
    /\ garbage \subseteq Keys
    /\ pc \in [Executions -> Steps]
    /\ wjob \in [Executions -> Jobs \cup {None}]
    /\ \A w \in Executions : wjob[w] = None <=> pc[w] = "idle"
    /\ watt \in [Executions -> Nat]
    /\ uploaded \in [Executions -> SUBSET Parts]
    /\ err \in [Executions -> {"none", "retry", "scope", "lost", "unusable"}]
    /\ fresh \in [Executions -> BOOLEAN]
    /\ gc \in Keys \cup {None}
    /\ gcPc \in {"idle", "delete", "forget"}
    /\ faults \in 0..MaxFaults

(* A claim that had read the run before its attempt published took it over *)
(* afterwards: the job is at an attempt past the published one.            *)
Overtaken(j) == publishedAt[j] # 0 /\ attempt[j] > publishedAt[j]

(* The attempt number is the fence.  An execution is at work on one job,   *)
(* under an attempt no other execution has and the row has not passed; the *)
(* one that is ending its job has the newest; nobody is about to publish a *)
(* source that its own or an earlier attempt published; and the execution  *)
(* that did publish it finds that out when the acknowledgement is lost,    *)
(* and keeps its candidates, unless it was overtaken.                      *)
LeaseFencing ==
    /\ \A w \in Executions :
         /\ Working(w) => watt[w] \in 1..attempt[wjob[w]]
         /\ pc[w] # "idle" => watt[w] <= attempt[wjob[w]]
         /\ pc[w] \in {"publishing", "rejecting"} => watt[w] = attempt[wjob[w]]
    /\ \A v, w \in Executions :
         v # w /\ Working(v) /\ Working(w) /\ wjob[v] = wjob[w] => watt[v] # watt[w]
    /\ \A j \in Jobs :
         publishedAt[j] # 0 => publishedAt[j] <= attempt[j] /\ ~tempKey[j]
    /\ \A w \in Executions :
         LET j == wjob[w] IN
         /\ pc[w] = "download" => publishedAt[j] # watt[w]
         /\ pc[w] \in {"upload", "publish", "publishing"} =>
               publishedAt[j] = 0 \/ watt[w] < publishedAt[j]
         /\ pc[w] = "abandon" => publishedAt[j] # watt[w] \/ Overtaken(j)
         /\ pc[w] = "readBack" =>
               publishedAt[j] # watt[w] \/ Overtaken(j) \/ jobStatus[j] = "published"

(* Who may delete what.  Garbage belongs to attempts that have begun and   *)
(* never to one that may still publish; the candidates of an attempt about *)
(* to publish are all in storage; current objects are those of the attempt *)
(* that published their job, and neither in the queue nor in the hands of  *)
(* the collector, unless that attempt was overtaken; and a key the         *)
(* collector is about to forget is gone.                                   *)
StorageAccounting ==
    /\ \A k \in garbage \cup {gc} : k # None => k[2] <= attempt[k[1]]
    /\ \A w \in Executions :
         /\ ~Working(w) \/ pc[w] = "download" => uploaded[w] = {}
         /\ pc[w] \in {"download", "upload", "publish", "publishing"} =>
               \A p \in Parts : CandidateKey(wjob[w], watt[w], p) \notin garbage \cup {gc}
         /\ pc[w] \in {"upload", "publish", "publishing"} =>
               \A p \in uploaded[w] : CandidateKey(wjob[w], watt[w], p) \in objects
         /\ pc[w] \in {"publish", "publishing"} => uploaded[w] = Candidates(wjob[w])
    /\ \A p \in Parts : object[p] # None =>
         /\ object[p] = CandidateKey(object[p][1], publishedAt[object[p][1]], p)
         /\ publishedAt[object[p][1]] # 0
         /\ \/ object[p] \in objects /\ object[p] \notin garbage \cup {gc}
            \/ Overtaken(object[p][1])
    /\ gcPc = "forget" => gc \notin objects
    /\ gcPc = "idle" <=> gc = None

(* What readers are pointed at is there: the object of a current partition *)
(* is deleted neither by an importer that takes its own commit for a       *)
(* failure nor by garbage collection, whatever lapses, crashes and lost    *)
(* acknowledgements come in between, as long as no claim that had read the *)
(* run before the publication takes it over after it.                      *)
CurrentObjectsExist ==
    \A p \in Parts :
        object[p] # None /\ ~Overtaken(object[p][1]) => object[p] \in objects

(* What the design promises without that condition: losing the lease never *)
(* costs the data that is current.  The code breaks it: see the README.    *)
LostLeaseKeepsCurrentData ==
    \A p \in Parts : object[p] # None => object[p] \in objects

(* No object that was published and is no longer current is lost track of: *)
(* it stays in the garbage queue until it is gone from storage.            *)
SupersededIsGarbage ==
    \A j \in Jobs, p \in Parts :
        LET k == CandidateKey(j, publishedAt[j], p) IN
        /\ publishedAt[j] > 0
        /\ p \in Candidates(j)
        /\ k \in objects
        => k = object[p] \/ k \in garbage

(* A job is moved out of processing only by the execution of its newest    *)
(* attempt: one that was overtaken decides nothing any more, even when it  *)
(* runs under the same worker id as its successor.                         *)
NewestAttemptDecides ==
    [][\A j \in Jobs :
         jobStatus[j] = "processing" /\ jobStatus'[j] # "processing" =>
           \E w \in Executions :
              Working(w) /\ wjob[w] = j /\ watt[w] = attempt[j] /\ pc'[w] # pc[w]]_vars

(* A source is published at most once: the attempt that published it is    *)
(* never replaced by a later one, not even by one that overtook it.        *)
PublishedOnce ==
    [][\A j \in Jobs : publishedAt[j] # 0 => publishedAt'[j] = publishedAt[j]]_vars

(* What a reader of partition p sees in this state.                        *)
Visible(p) ==
    IF object[p] = None THEN [sum |-> NoSum]
    ELSE [sum |-> CurrentSum(p), level |-> Level[writer[p]], scope |-> Scope[writer[p]]]

Catalogue == INSTANCE CurrentCatalogue
               WITH current <- [p \in Parts |-> Visible(p)],
                    done <- {j \in Jobs : publishedAt[j] # 0}

(* The pipeline implements the catalogue readers are promised: whole       *)
(* sources, at most once each, the last published one wins.                *)
ImplementsCatalogue == Catalogue!CatalogueSpec

-----------------------------------------------------------------------------
(* Liveness.  Executions that are alive go on, idle ones poll, time passes,*)
(* and maintenance runs on its timer.  Nothing makes a fault happen.       *)
Fairness ==
    /\ \A w \in Executions : WF_vars(WorkerStep(w))
    /\ \A j \in Jobs :
         /\ WF_vars(\E w \in Executions : ClaimRead(w, j))
         /\ WF_vars(LeaseLapses(j))
         /\ WF_vars(RetryFallsDue(j))
    /\ WF_vars(\E k \in garbage : GcPick(k))
    /\ WF_vars(GcDelete)
    /\ WF_vars(GcForget)

FairSpec == Spec /\ Fairness

(* A run that every poll finds and no claim can take: its job is waiting   *)
(* or processing, and its source was published before.  The polls order    *)
(* the runs, so a run in this state also keeps those behind it waiting.    *)
Stuck(j) == Claimable(j) /\ ~tempKey[j]

(* Every accepted upload comes to an end and stays there, unless a run     *)
(* whose publication was overtaken or followed by an error is stuck.       *)
AcceptedUploadSettles ==
    \A j \in Jobs : <>[](jobStatus[j] \in TerminalJob \/ \E i \in Jobs : Stuck(i))

=============================================================================
