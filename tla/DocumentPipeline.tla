-------------------------- MODULE DocumentPipeline --------------------------
(***************************************************************************)
(* Documents that are processed as a whole: structured row imports and     *)
(* evidence documents, from the upload call to the published document.     *)
(*                                                                         *)
(*   apps/api/src/routes/structured-import/routes.ts  the structured call  *)
(*   apps/api/src/structured-imports.ts     reserve, enqueue               *)
(*   apps/api/src/routes/evidence.ts        the evidence call              *)
(*   apps/api/src/documents.ts              create, archive                *)
(*   apps/worker/src/worker.ts              claim, apply, index, fail      *)
(*   scripts/reindex-evidence.ts            reindexing                     *)
(*                                                                         *)
(* Every action is one statement, transaction or storage call.  Two        *)
(* transactions read a document without locking it and write it later:     *)
(* the worker's claim and the end of an evidence run.  Each is an action   *)
(* for its reading and one for its commit, so that a document can be       *)
(* archived in between.  The transactions that apply and archive a         *)
(* structured import lock the organization's row first and are atomic.     *)
(*                                                                         *)
(* A lease is kept as in PartitionImport: live[r] says lockedUntil > now,  *)
(* fresh[w] is the answer when w sampled the time for its fenced update.   *)
(* Each claim is a new attempt, so the attempt number stands for lockedBy  *)
(* as well.                                                                *)
(***************************************************************************)
EXTENDS Naturals, FiniteSets

CONSTANTS
    Docs,         \* upload calls; each has a document id of its own
    Evidence,     \* the calls that upload evidence; the others import rows
    KeyOf,        \* KeyOf[d]: the idempotency key of the call
    PrintOf,      \* PrintOf[d]: its request fingerprint
    ReceiptOf,    \* ReceiptOf[d]: the natural key of a delivery ledger, or None
    WindowOf,     \* WindowOf[d]: dataset and dates of a windowed import, or None
    Windows,      \* the values of WindowOf other than None
    Invalid,      \* calls whose file does not pass validation
    Executions,   \* concurrent calls of runWorkerOnce
    MaxAttempts,  \* workerMaxAttempts
    FaultKinds,   \* subset of {"crash", "lapse", "storage", "db", "model"}
    MaxFaults,    \* bound: how many faults happen in a behaviour
    None          \* null

Structured == Docs \ Evidence

ASSUME PipelineAssumption ==
    /\ Evidence \subseteq Docs
    /\ Invalid \subseteq Docs
    /\ None \notin Docs
    /\ None \notin Windows
    /\ WindowOf \in [Docs -> Windows \cup {None}]
    /\ MaxAttempts \in Nat \ {0}
    /\ MaxFaults \in Nat
    /\ FaultKinds \subseteq {"crash", "lapse", "storage", "db", "model"}

(* Processing runs: the first one of a document, and the one that indexes  *)
(* evidence again for another retrieval configuration.                     *)
First(d) == <<d, "first">>
Again(d) == <<d, "reindex">>
Runs == {First(d) : d \in Docs} \cup {Again(d) : d \in Evidence}
DocOf(r) == r[1]
IsReindex(r) == r[2] = "reindex"
NoRun == <<None, "none">>

VARIABLES
    docStatus,   \* documents.status, "absent" without a row
    archived,    \* documents.archivedAt is not null
    batch,       \* import_batches.status, "absent" without a row
    claim,       \* import_window_claims: the document whose batch has the window
    runStatus,   \* processing_runs.status, "absent" without a row
    attempt,     \* processing_runs.attemptNumber
    live,        \* processing_runs.lockedUntil > now
    due,         \* processing_runs.availableAt <= now
    source,      \* documents whose source object is in storage
    points,      \* runs whose vectors are in the collection
    ready,       \* runs whose document index is ready
    upc, target, again,            \* locals of each upload call
    pc, wrun, watt, seen, fresh, retry,   \* locals of each execution
    faults       \* faults so far

docVars    == <<docStatus, archived>>
batchVars  == <<batch, claim>>
runVars    == <<runStatus, attempt, live, due>>
dbVars     == <<docVars, batchVars, runVars, ready>>
callVars   == <<upc, target, again>>
workerVars == <<pc, wrun, watt, seen, fresh, retry>>
vars == <<dbVars, source, points, callVars, workerVars, faults>>

DocStatus == {"absent", "uploading", "pending_processing", "processing",
              "active", "processing_failed", "archived"}
OpenBatch == {"pending", "validating", "applying", "failed"}
BatchStatus == OpenBatch \cup {"absent", "applied", "rejected"}
RunStatus == {"absent", "queued", "running", "succeeded", "failed", "retry_scheduled"}
CallSteps == {"key", "claim", "release", "releaseAny", "reserve", "put", "enqueue",
              "create", "undo", "answered", "refused"}
Steps == {"idle", "claim", "read", "index", "check", "complete", "begin", "apply",
          "reject", "fail"}
Fenced == {"check", "complete", "begin", "apply", "reject", "fail"}

Nothing == [run |-> "absent", active |-> FALSE]

Fault(kinds) ==
    /\ kinds \cap FaultKinds # {}
    /\ faults < MaxFaults
    /\ faults' = faults + 1

Init ==
    /\ docStatus = [d \in Docs |-> "absent"]
    /\ archived = [d \in Docs |-> FALSE]
    /\ batch = [d \in Docs |-> "absent"]
    /\ claim = [v \in Windows |-> None]
    /\ runStatus = [r \in Runs |-> "absent"]
    /\ attempt = [r \in Runs |-> 0]
    /\ live = [r \in Runs |-> FALSE]
    /\ due = [r \in Runs |-> TRUE]
    /\ source = {}
    /\ points = {}
    /\ ready = {}
    /\ upc = [d \in Docs |-> IF d \in Evidence THEN "put" ELSE "key"]
    /\ target = [d \in Docs |-> IF d \in Evidence THEN d ELSE None]
    /\ again = [d \in Docs |-> FALSE]
    /\ pc = [w \in Executions |-> "idle"]
    /\ wrun = [w \in Executions |-> NoRun]
    /\ watt = [w \in Executions |-> 0]
    /\ seen = [w \in Executions |-> Nothing]
    /\ fresh = [w \in Executions |-> FALSE]
    /\ retry = [w \in Executions |-> FALSE]
    /\ faults = 0

-----------------------------------------------------------------------------
(* POST /v1/structured/imports                                             *)

CallAt(c, step, d, raced) ==
    /\ upc' = [upc EXCEPT ![c] = step]
    /\ target' = [target EXCEPT ![c] = d]
    /\ again' = [again EXCEPT ![c] = raced]

SameKey(c) == {d \in Structured : batch[d] # "absent" /\ KeyOf[d] = KeyOf[c]}
SameReceipt(c) == {d \in Structured : batch[d] # "absent" /\ ReceiptOf[c] # None
                                         /\ ReceiptOf[d] = ReceiptOf[c]}

(* The document that has the call's window, None if it is free or the call *)
(* has none.                                                               *)
Holder(c) == IF WindowOf[c] = None THEN None ELSE claim[WindowOf[c]]

(* What a call makes of the batch of document d that has its key or its    *)
(* receipt: a different request is a conflict, one with a run is answered, *)
(* and one without is taken up where its own call left it.                 *)
JoinExisting(c, d) ==
    CallAt(c, IF PrintOf[d] # PrintOf[c] THEN "refused"
              ELSE IF runStatus[First(d)] # "absent" THEN "answered" ELSE "put", d, again[c])

(* resolveExistingReservation found nothing: the first time the call goes  *)
(* on to reserve, after a lost race its unique violation is thrown again.  *)
NothingExists(c) ==
    CallAt(c, IF again[c] THEN "refused" ELSE "reserve", None, again[c])

(* resolveExistingReservation: by idempotency key.                         *)
ResolveKey(c) ==
    /\ upc[c] = "key"
    /\ \/ \E d \in SameKey(c) : JoinExisting(c, d)
       \/ SameKey(c) = {} /\ CallAt(c, "claim", None, again[c])
    /\ UNCHANGED <<dbVars, source, points, workerVars, faults>>

(* Mutant of ResolveClaim: whatever holds the window gives way.            *)
ResolveClaimTakesOver(c) ==
    /\ upc[c] = "claim"
    /\ IF Holder(c) = None THEN NothingExists(c)
                           ELSE CallAt(c, "releaseAny", Holder(c), again[c])
    /\ UNCHANGED <<dbVars, source, points, workerVars, faults>>

(* resolveExistingReservation: by receipt, then by window.  The window of  *)
(* an applied import is free again once its source is archived, and that   *)
(* of an import that failed or was rejected at once.                       *)
ResolveClaim(c) ==
    /\ upc[c] = "claim"
    /\ \/ \E d \in SameReceipt(c) : JoinExisting(c, d)
       \/ /\ SameReceipt(c) = {}
          /\ Holder(c) = None
          /\ NothingExists(c)
       \/ /\ SameReceipt(c) = {}
          /\ Holder(c) # None
          /\ LET d == Holder(c) IN
               CallAt(c, CASE batch[d] = "applied" /\ docStatus[d] = "archived" -> "releaseAny"
                           [] batch[d] \in {"rejected", "failed"} -> "release"
                           [] OTHER -> "refused", d, again[c])
    /\ UNCHANGED <<dbVars, source, points, workerVars, faults>>

(* The claim that was read is deleted.  delete throws when another call    *)
(* did it first, deleteMany does not mind.                                 *)
ReleaseClaim(c) ==
    /\ upc[c] \in {"release", "releaseAny"}
    /\ \/ /\ Holder(c) = target[c]
          /\ claim' = [claim EXCEPT ![WindowOf[c]] = None]
          /\ NothingExists(c)
       \/ /\ Holder(c) # target[c]
          /\ IF upc[c] = "releaseAny" THEN NothingExists(c)
                                      ELSE CallAt(c, "refused", None, again[c])
          /\ UNCHANGED claim
    /\ UNCHANGED <<docVars, batch, runVars, ready, source, points, workerVars, faults>>

(* What the unique indexes of import_batches and import_window_claims and  *)
(* the claim's own row stand for.                                          *)
Unique(c) ==
    /\ SameKey(c) = {}
    /\ SameReceipt(c) = {}
    /\ Holder(c) = None

ReserveRows(c) ==
    /\ docStatus' = [docStatus EXCEPT ![c] = "uploading"]
    /\ batch' = [batch EXCEPT ![c] = "pending"]
    /\ claim' = [v \in Windows |-> IF v = WindowOf[c] THEN c ELSE claim[v]]

(* reserveStructuredImport: the document, its batch and the claim on its   *)
(* window in one transaction.  A unique violation is resolved once more;   *)
(* a transient error, after the commit too, starts the operation again.    *)
Reserve(c) ==
    /\ upc[c] = "reserve"
    /\ \/ Unique(c) /\ ReserveRows(c) /\ CallAt(c, "put", c, FALSE) /\ UNCHANGED faults
       \/ /\ ~Unique(c)
          /\ CallAt(c, "key", None, TRUE)
          /\ UNCHANGED <<docStatus, batchVars, faults>>
       \/ /\ Fault({"db"})
          /\ CallAt(c, "key", None, FALSE)
          /\ \/ Unique(c) /\ ReserveRows(c)
             \/ UNCHANGED <<docStatus, batchVars>>
    /\ UNCHANGED <<archived, runVars, ready, source, points, workerVars>>

(* putObject, and for a structured import the verification after it.  An   *)
(* object that was put may be there although the call failed.              *)
PutObject(c) ==
    /\ upc[c] = "put"
    /\ \/ /\ source' = source \cup {target[c]}
          /\ CallAt(c, IF c \in Evidence THEN "create" ELSE "enqueue", target[c], again[c])
          /\ UNCHANGED faults
       \/ /\ Fault({"storage"})
          /\ source' \in {source, source \cup {target[c]}}
          /\ CallAt(c, "refused", target[c], again[c])
    /\ UNCHANGED <<dbVars, points, workerVars>>

QueueRun(r, n) ==
    /\ runStatus' = [runStatus EXCEPT ![r] = "queued"]
    /\ attempt' = [attempt EXCEPT ![r] = n]

(* enqueueReservedStructuredImport: the first call to get here creates the *)
(* run, whatever became of the document since.                             *)
Enqueue(c) ==
    LET d == target[c]
        Queue == /\ runStatus[First(d)] = "absent"
                 /\ QueueRun(First(d), 0)
                 /\ docStatus' = [docStatus EXCEPT ![d] = "pending_processing"] IN
    /\ upc[c] = "enqueue"
    /\ \/ Queue /\ CallAt(c, "answered", d, again[c]) /\ UNCHANGED faults
       \/ /\ runStatus[First(d)] # "absent"
          /\ CallAt(c, "answered", d, again[c])
          /\ UNCHANGED <<docStatus, runStatus, attempt, faults>>
       \/ /\ Fault({"db"})
          /\ Queue \/ UNCHANGED <<docStatus, runStatus, attempt>>
          /\ UNCHANGED callVars
    /\ UNCHANGED <<archived, batchVars, live, due, ready, source, points, workerVars>>

-----------------------------------------------------------------------------
(* POST /v1/documents/evidence                                             *)

(* createUploadedDocument.  An error makes the call delete the object,     *)
(* after a commit whose answer was lost as well.  The first attempt counts *)
(* before it is made.                                                      *)
CreateEvidence(c) ==
    LET Create == /\ docStatus' = [docStatus EXCEPT ![c] = "pending_processing"]
                  /\ QueueRun(First(c), 1) IN
    /\ upc[c] = "create"
    /\ \/ Create /\ CallAt(c, "answered", c, again[c]) /\ UNCHANGED faults
       \/ /\ Fault({"db"})
          /\ Create \/ UNCHANGED <<docStatus, runStatus, attempt>>
          /\ CallAt(c, "undo", c, again[c])
    /\ UNCHANGED <<archived, batchVars, live, due, ready, source, points, workerVars>>

UndoPut(c) ==
    /\ upc[c] = "undo"
    /\ \/ source' = source \ {c} /\ UNCHANGED faults
       \/ Fault({"storage"}) /\ UNCHANGED source
    /\ CallAt(c, "refused", c, again[c])
    /\ UNCHANGED <<dbVars, points, workerVars>>

(* The process that serves a call ends, or an error reaches the client.    *)
CallDies(c) ==
    /\ upc[c] \notin {"answered", "refused"}
    /\ Fault({"crash"})
    /\ CallAt(c, "refused", target[c], again[c])
    /\ UNCHANGED <<dbVars, source, points, workerVars>>

CallStep(c) ==
    \/ ResolveKey(c)
    \/ ResolveClaim(c)
    \/ ReleaseClaim(c)
    \/ Reserve(c)
    \/ PutObject(c)
    \/ Enqueue(c)
    \/ CreateEvidence(c)
    \/ UndoPut(c)

-----------------------------------------------------------------------------
(* archiveDocument, and the script that indexes evidence again.            *)

Archive(d) ==
    /\ docStatus[d] \notin {"absent", "archived"}
    /\ ~archived[d]
    /\ docStatus' = [docStatus EXCEPT ![d] = "archived"]
    /\ archived' = [archived EXCEPT ![d] = TRUE]
    /\ UNCHANGED <<batchVars, runVars, ready, source, points, callVars, workerVars, faults>>

Reindex(d) ==
    /\ d \in Evidence
    /\ docStatus[d] = "active"
    /\ ~archived[d]
    /\ runStatus[Again(d)] = "absent"
    /\ QueueRun(Again(d), 0)
    /\ UNCHANGED <<docVars, batchVars, live, due, ready, source, points, callVars,
                   workerVars, faults>>

-----------------------------------------------------------------------------
(* The worker.                                                             *)

WorkerAt(w, r, n, step, saw, willRetry) ==
    /\ pc' = [pc EXCEPT ![w] = step]
    /\ wrun' = [wrun EXCEPT ![w] = r]
    /\ watt' = [watt EXCEPT ![w] = n]
    /\ seen' = [seen EXCEPT ![w] = saw]
    /\ fresh' = [fresh EXCEPT ![w] = step \in Fenced /\ live[r]]
    /\ retry' = [retry EXCEPT ![w] = willRetry]

Goto(w, step) == WorkerAt(w, wrun[w], watt[w], step, Nothing, FALSE)
Return(w) == WorkerAt(w, NoRun, 0, "idle", Nothing, FALSE)

(* An error: another attempt follows unless it is the last or the error is *)
(* deterministic.                                                          *)
GoFail(w, retryable) ==
    WorkerAt(w, wrun[w], watt[w], "fail", Nothing, retryable /\ watt[w] < MaxAttempts)

(* The document a run may be claimed for.                                  *)
Workable(r) ==
    \/ docStatus[DocOf(r)] \in {"pending_processing", "processing"}
    \/ IsReindex(r) /\ docStatus[DocOf(r)] = "active" /\ ~archived[DocOf(r)]

(* Mutant of RunClaimable: a run left running is not taken up again.       *)
RunWaiting(r) == runStatus[r] \in {"queued", "retry_scheduled"} /\ due[r]

RunClaimable(r) ==
    \/ runStatus[r] \in {"queued", "retry_scheduled"} /\ due[r]
    \/ runStatus[r] = "running" /\ ~live[r]

(* claimNextProcessingRun, the select: what it read decides the rest.      *)
ClaimRead(w, r) ==
    /\ pc[w] = "idle"
    /\ RunClaimable(r)
    /\ Workable(r)
    /\ WorkerAt(w, r, attempt[r], "claim",
                [run |-> runStatus[r], active |-> docStatus[DocOf(r)] = "active"], FALSE)
    /\ UNCHANGED <<dbVars, source, points, callVars, faults>>

(* The compare-and-set on the run as it was read.                          *)
Unclaimed(w) ==
    /\ runStatus[wrun[w]] = seen[w].run
    /\ attempt[wrun[w]] = watt[w]
    /\ RunClaimable(wrun[w])

(* claimNextProcessingRun, the writes.  The document is set by its id, so  *)
(* one archived since the select becomes processing again; archivedAt      *)
(* stays.  A batch that is not open makes the transaction throw.           *)
ClaimCommit(w) ==
    LET r == wrun[w]
        d == DocOf(r)
        ok == Unclaimed(w) /\ (d \in Structured => batch[d] \in OpenBatch) IN
    /\ pc[w] = "claim"
    /\ \/ /\ ok
          /\ runStatus' = [runStatus EXCEPT ![r] = "running"]
          /\ attempt' = [attempt EXCEPT ![r] = @ + 1]
          /\ live' = [live EXCEPT ![r] = TRUE]
          /\ docStatus' = [docStatus EXCEPT ![d] =
                             IF IsReindex(r) /\ seen[w].active THEN @ ELSE "processing"]
          /\ batch' = [batch EXCEPT ![d] = IF d \in Structured THEN "validating" ELSE @]
          /\ WorkerAt(w, r, watt[w] + 1, "read", Nothing, FALSE)
       \/ ~ok /\ Return(w) /\ UNCHANGED <<runStatus, attempt, live, docStatus, batch>>
    /\ UNCHANGED <<archived, claim, due, ready, source, points, callVars, faults>>

Attended(r) == \E w \in Executions : pc[w] \notin {"idle", "claim"}
                                       /\ wrun[w] = r /\ watt[w] = attempt[r]

(* Time passes lockedUntil when nobody extends the lease any more.         *)
LeaseLapses(r) ==
    /\ live[r]
    /\ ~Attended(r)
    /\ live' = [live EXCEPT ![r] = FALSE]
    /\ UNCHANGED <<docVars, batchVars, runStatus, attempt, due, ready, source, points,
                   callVars, workerVars, faults>>

(* The heartbeats of a running execution fail, or its process is paused.   *)
HeartbeatsFail(r) ==
    /\ live[r]
    /\ Attended(r)
    /\ Fault({"lapse"})
    /\ live' = [live EXCEPT ![r] = FALSE]
    /\ UNCHANGED <<docVars, batchVars, runStatus, attempt, due, ready, source, points,
                   callVars, workerVars>>

(* Time passes availableAt.                                                *)
RetryFallsDue(r) ==
    /\ ~due[r]
    /\ due' = [due EXCEPT ![r] = TRUE]
    /\ UNCHANGED <<docVars, batchVars, runStatus, attempt, live, ready, source, points,
                   callVars, workerVars, faults>>

(* activeLeaseWhere, with the time the caller sampled.                     *)
HoldsLease(w) ==
    /\ runStatus[wrun[w]] = "running"
    /\ attempt[wrun[w]] = watt[w]
    /\ fresh[w]

(* The run ends: succeeded, failed, or due again after a backoff.          *)
EndRun(w, status) ==
    /\ runStatus' = [runStatus EXCEPT ![wrun[w]] = status]
    /\ live' = [live EXCEPT ![wrun[w]] = FALSE]
    /\ due' = [due EXCEPT ![wrun[w]] = status # "retry_scheduled"]
    /\ UNCHANGED attempt

(* readDocumentContent and the parser.                                     *)
ReadSource(w) ==
    LET d == DocOf(wrun[w]) IN
    /\ pc[w] = "read"
    /\ \/ /\ d \in source
          /\ CASE d \in Structured -> Goto(w, IF d \in Invalid THEN "reject" ELSE "begin")
               [] d \in Evidence \cap Invalid -> GoFail(w, FALSE)
               [] OTHER -> Goto(w, "index")
          /\ UNCHANGED faults
       \/ d \notin source /\ GoFail(w, TRUE) /\ UNCHANGED faults
       \/ Fault({"storage"}) /\ GoFail(w, TRUE)
    /\ UNCHANGED <<dbVars, source, points, callVars>>

(* indexDocument: embedding, then the points.                              *)
IndexPoints(w) ==
    /\ pc[w] = "index"
    /\ \/ /\ points' = points \cup {wrun[w]}
          /\ Goto(w, "check")
          /\ UNCHANGED faults
       \/ /\ Fault({"model"})
          /\ points' \in {points, points \cup {wrun[w]}}
          /\ GoFail(w, TRUE)
    /\ UNCHANGED <<dbVars, source, callVars>>

(* completeEvidenceIndexing up to its reading of the document.             *)
CheckEvidence(w) ==
    LET d == DocOf(wrun[w]) IN
    /\ pc[w] = "check"
    /\ \/ ~HoldsLease(w) /\ Return(w)
       \/ HoldsLease(w) /\ (docStatus[d] = "archived" \/ archived[d]) /\ GoFail(w, TRUE)
       \/ /\ HoldsLease(w) /\ docStatus[d] # "archived" /\ ~archived[d]
          /\ pc' = [pc EXCEPT ![w] = "complete"]
          /\ UNCHANGED <<wrun, watt, seen, fresh, retry>>
    /\ UNCHANGED <<dbVars, source, points, callVars, faults>>

(* Mutant of CompleteEvidence: the run ends before the index is recorded.  *)
CompleteEvidenceLate(w) ==
    LET r == wrun[w]  d == DocOf(r) IN
    /\ pc[w] = "complete"
    /\ \/ /\ HoldsLease(w)
          /\ EndRun(w, "succeeded")
          /\ docStatus' = [docStatus EXCEPT ![d] = "active"]
          /\ UNCHANGED <<ready, faults>>
       \/ ~HoldsLease(w) /\ UNCHANGED <<runVars, docStatus, ready, faults>>
       \/ Fault({"db"}) /\ UNCHANGED <<runVars, docStatus, ready>>
    /\ Return(w)
    /\ UNCHANGED <<archived, batchVars, source, points, callVars>>

(* completeEvidenceIndexing, its writes.  The document is set by its id.   *)
(* A lost answer leads to failProcessingRun, whose fence then fails.       *)
CompleteEvidence(w) ==
    LET r == wrun[w]
        d == DocOf(r)
        Publish == /\ EndRun(w, "succeeded")
                   /\ ready' = ready \cup {r}
                   /\ docStatus' = [docStatus EXCEPT ![d] = "active"] IN
    /\ pc[w] = "complete"
    /\ \/ HoldsLease(w) /\ Publish /\ Return(w) /\ UNCHANGED faults
       \/ ~HoldsLease(w) /\ Return(w) /\ UNCHANGED <<runVars, docStatus, ready, faults>>
       \/ /\ Fault({"db"})
          /\ (HoldsLease(w) /\ Publish) \/ UNCHANGED <<runVars, docStatus, ready>>
          /\ GoFail(w, TRUE)
    /\ UNCHANGED <<archived, batchVars, source, points, callVars>>

(* beginStructuredImportApply.                                             *)
BeginApply(w) ==
    LET d == DocOf(wrun[w]) IN
    /\ pc[w] = "begin"
    /\ \/ ~HoldsLease(w) /\ Return(w) /\ UNCHANGED <<batch, faults>>
       \/ /\ HoldsLease(w)
          /\ batch[d] = "validating"
          /\ batch' = [batch EXCEPT ![d] = "applying"]
          /\ Goto(w, "apply")
          /\ UNCHANGED faults
       \/ /\ HoldsLease(w) /\ batch[d] # "validating"
          /\ GoFail(w, TRUE)
          /\ UNCHANGED <<batch, faults>>
       \/ Fault({"db"}) /\ GoFail(w, TRUE) /\ UNCHANGED batch
    /\ UNCHANGED <<docVars, claim, runVars, ready, source, points, callVars>>

(* Mutant of Apply: a source archived in the meantime is published.        *)
ApplyArchived(w) ==
    LET d == DocOf(wrun[w]) IN
    /\ pc[w] = "apply"
    /\ \/ /\ HoldsLease(w)
          /\ EndRun(w, "succeeded")
          /\ batch' = [batch EXCEPT ![d] = "applied"]
          /\ docStatus' = [docStatus EXCEPT ![d] = "active"]
       \/ ~HoldsLease(w) /\ UNCHANGED <<runVars, batch, docStatus>>
    /\ Return(w)
    /\ UNCHANGED <<archived, claim, ready, source, points, callVars, faults>>

(* completeStructuredImport, under the organization's lock: the rows, the  *)
(* batch and the document in one transaction.  The retry of a transaction  *)
(* whose answer was lost finds the lease gone.                             *)
Apply(w) ==
    LET d == DocOf(wrun[w])
        ok == batch[d] = "applying" /\ docStatus[d] # "archived" /\ ~archived[d]
        Publish == /\ EndRun(w, "succeeded")
                   /\ batch' = [batch EXCEPT ![d] = "applied"]
                   /\ docStatus' = [docStatus EXCEPT ![d] = "active"] IN
    /\ pc[w] = "apply"
    /\ \/ HoldsLease(w) /\ ok /\ Publish /\ Return(w) /\ UNCHANGED faults
       \/ ~HoldsLease(w) /\ Return(w) /\ UNCHANGED <<runVars, batch, docStatus, faults>>
       \/ /\ HoldsLease(w) /\ ~ok
          /\ GoFail(w, TRUE)
          /\ UNCHANGED <<runVars, batch, docStatus, faults>>
       \/ /\ Fault({"db"})
          /\ \/ HoldsLease(w) /\ ok /\ Publish /\ Return(w)
             \/ GoFail(w, TRUE) /\ UNCHANGED <<runVars, batch, docStatus>>
    /\ UNCHANGED <<archived, claim, ready, source, points, callVars>>

(* rejectStructuredImport.                                                 *)
RejectImport(w) ==
    LET d == DocOf(wrun[w])
        ok == batch[d] \in {"validating", "applying"} IN
    /\ pc[w] = "reject"
    /\ \/ /\ HoldsLease(w) /\ ok
          /\ EndRun(w, "failed")
          /\ batch' = [batch EXCEPT ![d] = "rejected"]
          /\ docStatus' = [docStatus EXCEPT ![d] = "processing_failed"]
          /\ Return(w)
          /\ UNCHANGED faults
       \/ ~HoldsLease(w) /\ Return(w) /\ UNCHANGED <<runVars, batch, docStatus, faults>>
       \/ /\ HoldsLease(w) /\ ~ok /\ GoFail(w, TRUE)
          /\ UNCHANGED <<runVars, batch, docStatus, faults>>
       \/ Fault({"db"}) /\ GoFail(w, TRUE) /\ UNCHANGED <<runVars, batch, docStatus>>
    /\ UNCHANGED <<archived, claim, ready, source, points, callVars>>

(* Mutant of DocAfterFailure: reindexing is not told apart.                *)
DocAfterAnyFailure(w) ==
    IF retry[w] THEN "pending_processing" ELSE "processing_failed"

(* The document after a failure: reindexing leaves an active one alone.    *)
DocAfterFailure(w) ==
    LET r == wrun[w] IN
    IF IsReindex(r) /\ docStatus[DocOf(r)] = "active" THEN "active"
    ELSE IF retry[w] THEN "pending_processing" ELSE "processing_failed"

(* failProcessingRun.  An error here leaves the run to its lease.          *)
FailRun(w) ==
    LET d == DocOf(wrun[w]) IN
    /\ pc[w] = "fail"
    /\ \/ /\ HoldsLease(w)
          /\ EndRun(w, IF retry[w] THEN "retry_scheduled" ELSE "failed")
          /\ batch' = [batch EXCEPT ![d] =
                         IF @ \in OpenBatch THEN IF retry[w] THEN "pending" ELSE "failed"
                                            ELSE @]
          /\ docStatus' = [docStatus EXCEPT ![d] = DocAfterFailure(w)]
          /\ UNCHANGED faults
       \/ ~HoldsLease(w) /\ UNCHANGED <<runVars, batch, docStatus, faults>>
       \/ Fault({"db"}) /\ UNCHANGED <<runVars, batch, docStatus>>
    /\ Return(w)
    /\ UNCHANGED <<archived, claim, ready, source, points, callVars>>

Crash(w) ==
    /\ pc[w] # "idle"
    /\ Fault({"crash"})
    /\ Return(w)
    /\ UNCHANGED <<dbVars, source, points, callVars>>

WorkerStep(w) ==
    \/ ClaimCommit(w)
    \/ ReadSource(w)
    \/ IndexPoints(w)
    \/ CheckEvidence(w)
    \/ CompleteEvidence(w)
    \/ BeginApply(w)
    \/ Apply(w)
    \/ RejectImport(w)
    \/ FailRun(w)

Next ==
    \/ \E c \in Docs : CallStep(c) \/ CallDies(c) \/ Archive(c) \/ Reindex(c)
    \/ \E w \in Executions, r \in Runs : ClaimRead(w, r)
    \/ \E w \in Executions : WorkerStep(w) \/ Crash(w)
    \/ \E r \in Runs : LeaseLapses(r) \/ HeartbeatsFail(r) \/ RetryFallsDue(r)

Spec == Init /\ [][Next]_vars

(* Workers poll until they find a run and leases run out; a call is served *)
(* to its end unless the process dies.  Nobody has to archive or reindex.  *)
Fairness ==
    /\ \A c \in Docs : WF_vars(CallStep(c))
    /\ \A w \in Executions : WF_vars(WorkerStep(w))
    /\ \A r \in Runs :
         /\ WF_vars(\E w \in Executions : ClaimRead(w, r))
         /\ WF_vars(LeaseLapses(r))
         /\ WF_vars(RetryFallsDue(r))

FairSpec == Spec /\ Fairness

-----------------------------------------------------------------------------
(* Every variable ranges over the values the code can give it.             *)
TypeOK ==
    /\ docStatus \in [Docs -> DocStatus]
    /\ archived \in [Docs -> BOOLEAN]
    /\ batch \in [Docs -> BatchStatus]
    /\ claim \in [Windows -> Structured \cup {None}]
    /\ runStatus \in [Runs -> RunStatus]
    /\ attempt \in [Runs -> Nat]
    /\ live \in [Runs -> BOOLEAN]
    /\ due \in [Runs -> BOOLEAN]
    /\ source \subseteq Docs
    /\ points \subseteq Runs
    /\ ready \subseteq Runs
    /\ upc \in [Docs -> CallSteps]
    /\ target \in [Docs -> Docs \cup {None}]
    /\ again \in [Docs -> BOOLEAN]
    /\ pc \in [Executions -> Steps]
    /\ wrun \in [Executions -> Runs \cup {NoRun}]
    /\ watt \in [Executions -> Nat]
    /\ seen \in [Executions -> [run : RunStatus, active : BOOLEAN]]
    /\ fresh \in [Executions -> BOOLEAN]
    /\ retry \in [Executions -> BOOLEAN]
    /\ faults \in 0..MaxFaults

(* The publish gates: a document is active only with what its readers need *)
(* (an import that was applied, an index that is ready over points that    *)
(* were written), and an applied import is active until it is archived.    *)
PublishGate ==
    \A d \in Docs :
      /\ docStatus[d] = "active" /\ d \in Structured => batch[d] = "applied"
      /\ docStatus[d] = "active" /\ d \in Evidence =>
           /\ First(d) \in ready
           /\ ready \subseteq points
      /\ batch[d] = "applied" => docStatus[d] = "active" \/ archived[d]

(* An import that may still be applied, or was and is not archived, has    *)
(* the claim on its window, so no other import of the window gets there.   *)
ClaimHeld ==
    \A d \in Structured :
      WindowOf[d] # None
      /\ (\/ batch[d] \in {"pending", "validating", "applying"}
          \/ batch[d] = "applied" /\ docStatus[d] # "archived")
      => claim[WindowOf[d]] = d

(* A call that was answered 202 has its run, and has it on a file that is  *)
(* in storage, even when it was another call that reserved or queued it.   *)
AnsweredIsQueued ==
    \A c \in Docs : upc[c] = "answered" =>
      /\ runStatus[First(target[c])] # "absent"
      /\ target[c] \in source

(* What a call was promised when it was answered is kept: its import has a *)
(* run and a file, and holds its window while it is open or current.       *)
AcceptedIsKept == ClaimHeld /\ AnsweredIsQueued

(* A structured import archived before, while or after it is applied is    *)
(* never shown as active: archiving and applying exclude each other.       *)
ArchivedIsNotActive ==
    \A d \in Structured : archived[d] => docStatus[d] # "active"

(* A document that is being served goes out of service only by being       *)
(* archived, whatever happens to the runs that index it again.             *)
ServiceIsKept ==
    [][\A d \in Docs :
         docStatus[d] = "active" /\ ~archived[d] =>
           docStatus'[d] = "active" \/ archived'[d]]_vars

Settled(d) ==
    /\ docStatus[d] \in {"active", "processing_failed"}
    /\ runStatus[First(d)] \in {"succeeded", "failed"}
    /\ d \in Structured => batch[d] \in {"applied", "rejected", "failed"}

(* A document whose upload was answered is processed to an outcome, unless *)
(* it is archived first: crashes, lost leases and errors do not leave it   *)
(* processing for ever.                                                    *)
AnsweredSettles ==
    \A d \in Docs :
      (\E c \in Docs : upc[c] = "answered" /\ target[c] = d) ~> (Settled(d) \/ archived[d])
=============================================================================
