------------------------- MODULE PartitionDownload -------------------------
(***************************************************************************)
(* Partition download packages: a request pins a manifest of the readable  *)
(* partitions, a worker builds one ZIP from it under a lease, publishes it *)
(* for a bounded time, and signs links to it after checking again that the *)
(* sources are current and readable.                                       *)
(*                                                                         *)
(*   packages/db/src/partition-downloads.ts    requests, fenced updates    *)
(*   apps/worker/src/partition-download/*.ts   the build and maintenance   *)
(*   apps/api/src/routes/structured-partitions/downloads.ts   the routes   *)
(*   packages/db/src/storage-garbage.ts        candidates and their GC     *)
(*   scripts/partition-store-cleanup-support.ts  the operator's cleanup    *)
(*                                                                         *)
(* Every action is one transaction or one storage call.  live[r] says that *)
(* the run's lockedUntil > now, past[r] that the request's expiresAt <=    *)
(* now.  attemptNumber grows with every claim, so the attempt in a lease   *)
(* names the execution and lockedBy tells nothing more.                    *)
(***************************************************************************)
EXTENDS Naturals, FiniteSets

CONSTANTS
    Requests,     \* (requester, idempotencyKey) pairs
    Requesters,   \* employees
    OwnerOf,      \* OwnerOf[r]: the requester of r
    ScopeOf,      \* ScopeOf[r]: the partitions r's scope selects
    Parts,        \* partition identities
    CleanupScope, \* the partitions the operator's cleanup selects
    Executions,   \* concurrent calls of runWorkerOnce
    MaxAttempts,  \* workerMaxAttempts
    MaxEntries,   \* partitionDownloadMaxPartitions
    MaxActive,    \* partitionDownloadMaxActivePerRequester
    MaxActiveOrg, \* partitionDownloadMaxActivePerOrg
    MaxVersion,   \* bound: publications of one partition
    FaultKinds,   \* subset of {"crash", "lapse", "storage", "invalid", "abort"}
    MaxFaults,    \* bound: how many faults happen in a behaviour
    None

ASSUME ConstantsAssumption ==
    /\ OwnerOf \in [Requests -> Requesters]
    /\ ScopeOf \in [Requests -> SUBSET Parts]
    /\ CleanupScope \subseteq Parts
    /\ IsFiniteSet(Parts)
    /\ {MaxAttempts, MaxVersion} \subseteq Nat \ {0}
    /\ {MaxEntries, MaxActive, MaxActiveOrg, MaxFaults} \subseteq Nat
    /\ None \notin Requests \cup (Requests \X Nat)

VARIABLES
    part,      \* structured_partitions: the version of each row, 0 without a row
    sources,   \* <<p, v>>: partition objects in storage
    may,       \* the partitions each requester's grants and clearance reach;
               \* none when disabled or when the organization is suspended
    status,    \* partition_download_requests.status, "none" without a row
    manifest,  \* partition_download_requests.manifest: version per entry, 0 if absent
    progress,  \* partition_download_requests.completedPartitionCount
    artifact,  \* the attempt whose object the request names, 0 for null
    past,      \* partition_download_requests.expiresAt <= now
    run,       \* processing_runs.status, "none" without a run
    attempt,   \* processing_runs.attemptNumber
    live,      \* processing_runs.lockedUntil > now
    zips,      \* <<r, n>>: package objects in storage, by request and attempt
    garbage,   \* storage_garbage row of each package key
    late,      \* package keys whose write was given up and may still land
    pc, wreq, watt, done,   \* locals of each execution
    gc,        \* the key maintenance has found due and is about to delete
    links,     \* package keys for which a link was signed
    inventory, \* the operator's saved inventory
    cleaned,   \* history: the rows <<p, v>> the cleanup deleted
    faults

sourceVars  == <<part, sources>>
requestVars == <<status, manifest, progress, artifact, past>>
runVars     == <<run, attempt, live>>
storeVars   == <<zips, garbage, late>>
workerVars  == <<pc, wreq, watt, done>>
opsVars     == <<inventory, cleaned>>
vars == <<sourceVars, may, requestVars, runVars, storeVars, workerVars,
          gc, opsVars, links, faults>>

Active == {"queued", "running"}
OpenRun == {"queued", "running", "retry_scheduled"}
ZipKeys == Requests \X (1..(MaxAttempts + MaxFaults))
Entries(r) == {p \in Parts : manifest[r][p] # 0}
NoEntries == [p \in Parts |-> 0]

(* readablePartitionScope.                                                 *)
Readable(e) == {p \in may[e] : part[p] # 0}

Fault(kinds) ==
    /\ kinds \cap FaultKinds # {}
    /\ faults < MaxFaults
    /\ faults' = faults + 1

Init ==
    /\ part = [p \in Parts |-> 1]
    /\ sources = Parts \X {1}
    /\ may = [e \in Requesters |-> Parts]
    /\ status = [r \in Requests |-> "none"]
    /\ manifest = [r \in Requests |-> NoEntries]
    /\ progress = [r \in Requests |-> 0]
    /\ artifact = [r \in Requests |-> 0]
    /\ past = [r \in Requests |-> FALSE]
    /\ run = [r \in Requests |-> "none"]
    /\ attempt = [r \in Requests |-> 0]
    /\ live = [r \in Requests |-> FALSE]
    /\ zips = {}
    /\ garbage = [k \in ZipKeys |-> "none"]
    /\ late = {}
    /\ pc = [w \in Executions |-> "idle"]
    /\ wreq = [w \in Executions |-> None]
    /\ watt = [w \in Executions |-> 0]
    /\ done = [w \in Executions |-> 0]
    /\ gc = None
    /\ links = {}
    /\ inventory = NoEntries
    /\ cleaned = {}
    /\ faults = 0

-----------------------------------------------------------------------------
(* The world around the requests.                                          *)

(* A partition import publishes a newer version (or a row again); the      *)
(* object it replaces is queued as garbage.  See module PartitionImport.   *)
Republish(p) ==
    LET used == {part[p]} \cup {v \in 1..MaxVersion : <<p, v>> \in cleaned} IN
    /\ \E latest \in used :
         /\ \A n \in used : n <= latest
         /\ latest < MaxVersion
         /\ part' = [part EXCEPT ![p] = latest + 1]
         /\ sources' = sources \cup {<<p, latest + 1>>}
    /\ UNCHANGED <<may, requestVars, runVars, storeVars, workerVars,
                   gc, opsVars, links, faults>>

(* Garbage collection of a partition object no row refers to.              *)
SourceCollected(p, v) ==
    /\ <<p, v>> \in sources
    /\ part[p] # v
    /\ sources' = sources \ {<<p, v>>}
    /\ UNCHANGED <<part, may, requestVars, runVars, storeVars,
                   workerVars, gc, opsVars, links, faults>>

(* Grants, clearance, the account or the organization's mode change.       *)
AccessChanges(e, ps) ==
    /\ may' = [may EXCEPT ![e] = ps]
    /\ UNCHANGED <<sourceVars, requestVars, runVars, storeVars, workerVars,
                   gc, opsVars, links, faults>>

(* The retention of a request runs out.                                    *)
Elapses(r) ==
    /\ status[r] # "none"
    /\ ~past[r]
    /\ past' = [past EXCEPT ![r] = TRUE]
    /\ UNCHANGED <<status, manifest, progress, artifact, sourceVars, may,
                   runVars, storeVars, workerVars, gc, opsVars, links, faults>>

-----------------------------------------------------------------------------
(* Ending a request.                                                       *)

(* terminate, for each request of rs: the object becomes garbage, an open  *)
(* run fails, the row loses its object.                                    *)
Terminated(rs, s) ==
    /\ status' = [r \in Requests |-> IF r \in rs THEN s ELSE status[r]]
    /\ artifact' = [r \in Requests |-> IF r \in rs THEN 0 ELSE artifact[r]]
    /\ run' = [r \in Requests |->
                 IF r \in rs /\ run[r] \in OpenRun THEN "failed" ELSE run[r]]
    /\ live' = [r \in Requests |-> r \notin rs /\ live[r]]
    /\ garbage' = [k \in ZipKeys |->
                     IF k[1] \in rs /\ artifact[k[1]] = k[2] THEN "due" ELSE garbage[k]]

MustExpire(r) == status[r] \notin {"none", "expired"} /\ past[r]

(* expireRow as the status read, a repeated prepare and maintenance's      *)
(* expire reach it.                                                        *)
Expire(r) ==
    /\ MustExpire(r)
    /\ Terminated({r}, "expired")
    /\ UNCHANGED <<manifest, progress, past, attempt, sourceVars, may,
                   zips, late, workerVars, gc, opsVars, links, faults>>

(* contentCurrent: every entry still is the current version of its row.    *)
ContentCurrent(r) == \A p \in Entries(r) : part[p] = manifest[r][p]

-----------------------------------------------------------------------------
(* The API.                                                                *)

Open == {r \in Requests : status[r] \in Active /\ ~past[r]}

(* The idempotency key has no request yet; otherwise prepare answers with  *)
(* the request there is, or with a conflict when the scope differs.        *)
Unused(r) == status[r] = "none"

(* prepare: the manifest is pinned, an empty one is a success at once.     *)
(* The organization row is locked, so the quotas are counted in isolation. *)
Prepare(r) ==
    LET e == OwnerOf[r]
        entries == ScopeOf[r] \cap Readable(e) IN
    /\ Unused(r)
    /\ Cardinality(entries) <= MaxEntries
    /\ entries # {} => /\ Cardinality(Open) < MaxActiveOrg
                       /\ Cardinality({q \in Open : OwnerOf[q] = e}) < MaxActive
    /\ manifest' = [manifest EXCEPT ![r] =
                      [p \in Parts |-> IF p \in entries THEN part[p] ELSE 0]]
    /\ status' = [status EXCEPT ![r] = IF entries = {} THEN "succeeded" ELSE "queued"]
    /\ run' = [run EXCEPT ![r] = IF entries = {} THEN "none" ELSE "queued"]
    /\ UNCHANGED <<progress, artifact, past, attempt, live, sourceVars,
                   may, storeVars, workerVars, gc, opsVars, links, faults>>

(* issueCurrent with the route's signing inside: the link lives no longer  *)
(* than the request.  A request past its time expires instead: Expire.     *)
IssueLink(r) ==
    /\ status[r] = "succeeded"
    /\ ~past[r]
    /\ ContentCurrent(r)
    /\ Entries(r) \subseteq Readable(OwnerOf[r])
    /\ artifact[r] # 0
    /\ links' = links \cup {<<r, artifact[r]>>}
    /\ UNCHANGED <<sourceVars, may, requestVars, runVars, storeVars,
                   workerVars, gc, opsVars, faults>>

-----------------------------------------------------------------------------
(* The worker.                                                             *)

Goto(w, s) ==
    /\ pc' = [pc EXCEPT ![w] = s]
    /\ wreq' = [wreq EXCEPT ![w] = IF s = "idle" THEN None ELSE @]
    /\ watt' = [watt EXCEPT ![w] = IF s = "idle" THEN 0 ELSE @]
    /\ done' = [done EXCEPT ![w] = IF s = "idle" THEN 0 ELSE @]

(* claimNextProcessingRun for this job type.                               *)
Claim(w, r) ==
    /\ pc[w] = "idle"
    /\ status[r] \in Active /\ ~past[r]
    /\ \/ run[r] \in {"queued", "retry_scheduled"}
       \/ run[r] = "running" /\ ~live[r]
    /\ run' = [run EXCEPT ![r] = "running"]
    /\ attempt' = [attempt EXCEPT ![r] = @ + 1]
    /\ live' = [live EXCEPT ![r] = TRUE]
    /\ pc' = [pc EXCEPT ![w] = "mark"]
    /\ wreq' = [wreq EXCEPT ![w] = r]
    /\ watt' = [watt EXCEPT ![w] = attempt[r] + 1]
    /\ UNCHANGED <<done, requestVars, sourceVars, may, storeVars,
                   gc, opsVars, links, faults>>

(* Mutant of HoldsLease: a lapsed lease still fences.                      *)
HoldsLeaseLapsed(w) ==
    LET r == wreq[w] IN
    /\ run[r] = "running" /\ attempt[r] = watt[w]
    /\ status[r] \in Active

(* fenced: the lease is live and the request open.  The lease is looked at *)
(* again before the commit, so the answer is the one at the commit.        *)
HoldsLease(w) ==
    LET r == wreq[w] IN
    /\ run[r] = "running" /\ attempt[r] = watt[w] /\ live[r]
    /\ status[r] \in Active

At(w, s) == pc[w] = s

(* A fenced call that finds its lease gone answers false, and one that     *)
(* finds the request past its time expires it and answers false.           *)
FencedOut(w) ==
    /\ pc[w] \in {"mark", "read", "register", "publish", "failed"}
    /\ \/ /\ ~HoldsLease(w)
          /\ UNCHANGED <<status, artifact, run, live, garbage>>
       \/ /\ HoldsLease(w)
          /\ past[wreq[w]]
          /\ Terminated({wreq[w]}, "expired")
    /\ Goto(w, "idle")
    /\ UNCHANGED <<manifest, progress, past, attempt, sourceVars, may,
                   zips, late, gc, opsVars, links, faults>>

Fenced(w, s) == At(w, s) /\ HoldsLease(w) /\ ~past[wreq[w]]

(* checkContent finds a source that changed: the request is stale.         *)
Stale(w) ==
    LET r == wreq[w] IN
    /\ Fenced(w, "mark") \/ Fenced(w, "publish")
    /\ ~ContentCurrent(r)
    /\ Terminated({r}, "failed")
    /\ Goto(w, "idle")
    /\ UNCHANGED <<manifest, progress, past, attempt, sourceVars, may,
                   zips, late, gc, opsVars, links, faults>>

(* markRunning.                                                            *)
MarkRunning(w) ==
    LET r == wreq[w] IN
    /\ Fenced(w, "mark")
    /\ ContentCurrent(r)
    /\ status' = [status EXCEPT ![r] = "running"]
    /\ Goto(w, "read")
    /\ UNCHANGED <<manifest, progress, artifact, past, runVars, sourceVars,
                   may, storeVars, gc, opsVars, links, faults>>

(* One entry is streamed into the ZIP and verified against the manifest,   *)
(* then recordProgress: a later attempt starts over and must not report    *)
(* less than an earlier one did.                                           *)
ReadEntry(w) ==
    LET r == wreq[w] n == done[w] + 1 IN
    /\ Fenced(w, "read")
    /\ n <= Cardinality(Entries(r))
    /\ \A p \in Entries(r) : <<p, manifest[r][p]>> \in sources
    /\ progress' = [progress EXCEPT ![r] = IF n > @ THEN n ELSE @]
    /\ pc' = [pc EXCEPT ![w] = IF n = Cardinality(Entries(r)) THEN "register" ELSE "read"]
    /\ done' = [done EXCEPT ![w] = n]
    /\ UNCHANGED <<wreq, watt, status, manifest, artifact, past, runVars,
                   sourceVars, may, storeVars, gc, opsVars, links, faults>>

(* A source that is gone is an I/O error: the run is retried.  One whose   *)
(* bytes do not match the manifest fails the request.                      *)
ReadFails(w) ==
    LET r == wreq[w] IN
    /\ At(w, "read")
    /\ \/ /\ \E p \in Entries(r) : <<p, manifest[r][p]>> \notin sources
          /\ Goto(w, "retry")
          /\ UNCHANGED faults
       \/ Fault({"storage"}) /\ Goto(w, "retry")
       \/ Fault({"invalid"}) /\ Goto(w, "failed")
    /\ UNCHANGED <<requestVars, runVars, sourceVars, may, storeVars,
                   gc, opsVars, links>>

(* registerCandidate: the key is in the garbage queue before it is         *)
(* written, protected by the run's live lease.                             *)
RegisterCandidate(w) ==
    /\ Fenced(w, "register")
    /\ garbage' = [garbage EXCEPT ![<<wreq[w], watt[w]>>] = "candidate"]
    /\ Goto(w, "put")
    /\ UNCHANGED <<zips, late, requestVars, runVars, sourceVars, may,
                   gc, opsVars, links, faults>>

(* putObjectAtKey.                                                         *)
Put(w) ==
    /\ At(w, "put")
    /\ \/ zips' = zips \cup {<<wreq[w], watt[w]>>} /\ Goto(w, "publish") /\ UNCHANGED faults
       \/ Fault({"storage"}) /\ Goto(w, "retry") /\ UNCHANGED zips
    /\ UNCHANGED <<garbage, late, requestVars, runVars, sourceVars, may,
                   gc, opsVars, links>>

(* publish: the run succeeds, the request names the object, and the        *)
(* candidate's row becomes one that is due when the request expires.  The  *)
(* answer may be lost: the caller then goes on to the retry path.          *)
Publish(w) ==
    LET r == wreq[w] k == <<r, watt[w]>> IN
    /\ Fenced(w, "publish")
    /\ ContentCurrent(r)
    /\ garbage[k] = "candidate"
    /\ run' = [run EXCEPT ![r] = "succeeded"]
    /\ live' = [live EXCEPT ![r] = FALSE]
    /\ status' = [status EXCEPT ![r] = "succeeded"]
    /\ progress' = [progress EXCEPT ![r] = Cardinality(Entries(r))]
    /\ artifact' = [artifact EXCEPT ![r] = watt[w]]
    /\ garbage' = [garbage EXCEPT ![k] = "atExpiry"]
    /\ \/ Goto(w, "idle") /\ UNCHANGED faults
       \/ Fault({"abort"}) /\ Goto(w, "retry")
    /\ UNCHANGED <<manifest, past, attempt, zips, late, sourceVars, may,
                   gc, opsVars, links>>

(* A failed heartbeat, the deadline or a shutdown aborts the build.        *)
(* Storage calls cannot be cancelled: the write may land afterwards.       *)
Abort(w) ==
    /\ pc[w] \in {"mark", "read", "register", "put", "publish"}
    /\ Fault({"abort"})
    /\ late' = IF At(w, "put") THEN late \cup {<<wreq[w], watt[w]>>} ELSE late
    /\ Goto(w, "retry")
    /\ UNCHANGED <<zips, garbage, requestVars, runVars, sourceVars, may,
                   gc, opsVars, links>>

LateWrite(k) ==
    /\ k \in late
    /\ zips' = zips \cup {k}
    /\ late' = late \ {k}
    /\ UNCHANGED <<garbage, requestVars, runVars, sourceVars, may,
                   workerVars, gc, opsVars, links, faults>>

(* repository.fail after a deterministic error.                            *)
FailRequest(w) ==
    /\ Fenced(w, "failed")
    /\ Terminated({wreq[w]}, "failed")
    /\ Goto(w, "idle")
    /\ UNCHANGED <<manifest, progress, past, attempt, sourceVars, may,
                   zips, late, gc, opsVars, links, faults>>

(* failProcessingRun.  Before the last attempt the run is scheduled again, *)
(* by an update whose time was sampled before: it may still count a lease  *)
(* that lapsed since.  The last attempt goes through repository.fail.      *)
Retry(w) ==
    LET r == wreq[w] mine == run[r] = "running" /\ attempt[r] = watt[w] IN
    /\ At(w, "retry")
    /\ \/ /\ watt[w] < MaxAttempts
          /\ mine
          /\ run' = [run EXCEPT ![r] = "retry_scheduled"]
          /\ live' = [live EXCEPT ![r] = FALSE]
          /\ Goto(w, "idle")
       \/ /\ watt[w] < MaxAttempts
          /\ ~(mine /\ live[r])
          /\ Goto(w, "idle")
          /\ UNCHANGED <<run, live>>
       \/ /\ watt[w] >= MaxAttempts
          /\ Goto(w, "failed")
          /\ UNCHANGED <<run, live>>
    /\ UNCHANGED <<attempt, requestVars, sourceVars, may, storeVars,
                   gc, opsVars, links, faults>>

(* The process dies; a write in flight may still land.                     *)
Crash(w) ==
    /\ pc[w] # "idle"
    /\ Fault({"crash"})
    /\ late' = IF At(w, "put") THEN late \cup {<<wreq[w], watt[w]>>} ELSE late
    /\ Goto(w, "idle")
    /\ UNCHANGED <<zips, garbage, requestVars, runVars, sourceVars, may,
                   gc, opsVars, links>>

Served(r) == \E w \in Executions : wreq[w] = r /\ watt[w] = attempt[r]

(* A lease nobody renews lapses; one that is renewed lapses as a fault.    *)
LeaseLapses(r) ==
    /\ run[r] = "running" /\ live[r]
    /\ \/ ~Served(r) /\ UNCHANGED faults
       \/ Served(r) /\ Fault({"lapse"})
    /\ live' = [live EXCEPT ![r] = FALSE]
    /\ UNCHANGED <<run, attempt, requestVars, sourceVars, may, storeVars,
                   workerVars, gc, opsVars, links>>

-----------------------------------------------------------------------------
(* Garbage collection of package objects.                                  *)

(* Mutant of Due: the candidates of a run that succeeded are protected.    *)
DueUnlessSucceeded(k) ==
    /\ garbage[k] # "none"
    /\ garbage[k] = "atExpiry" => past[k[1]]
    /\ garbage[k] = "candidate" => run[k[1]] \notin {"running", "succeeded"}

(* listDueStorageGarbage and canDeleteStorageGarbage: a candidate of a run *)
(* with a live lease is not touched.                                       *)
Due(k) ==
    /\ garbage[k] # "none"
    /\ garbage[k] = "atExpiry" => past[k[1]]
    /\ garbage[k] = "candidate" => ~(run[k[1]] = "running" /\ live[k[1]])

GcPick(k) ==
    /\ gc = None
    /\ Due(k)
    /\ gc' = k
    /\ UNCHANGED <<sourceVars, may, requestVars, runVars, storeVars,
                   workerVars, opsVars, links, faults>>

(* Mutant of GcDelete: tombstones of candidates are removed too.           *)
GcDeleteForgets ==
    /\ gc # None
    /\ zips' = zips \ {gc}
    /\ garbage' = [garbage EXCEPT ![gc] = "none"]
    /\ gc' = None
    /\ UNCHANGED <<late, sourceVars, may, requestVars, runVars,
                   workerVars, opsVars, links, faults>>

(* storage.deleteObject and deleteGarbage: the row of a candidate stays,   *)
(* to be due again a day later, because a paused upload can still finish.  *)
GcDelete ==
    /\ gc # None
    /\ zips' = zips \ {gc}
    /\ garbage' = [garbage EXCEPT ![gc] = IF @ = "candidate" THEN @ ELSE "none"]
    /\ gc' = None
    /\ UNCHANGED <<late, sourceVars, may, requestVars, runVars,
                   workerVars, opsVars, links, faults>>

-----------------------------------------------------------------------------
(* The operator's store cleanup; it is run once in a behaviour.            *)

Targets == [p \in Parts |-> IF p \in CleanupScope THEN part[p] ELSE 0]

(* buildStoreCleanupInventory: the dry run, saved to a file.               *)
BuildInventory ==
    /\ inventory = NoEntries /\ cleaned = {}
    /\ Targets # NoEntries
    /\ inventory' = Targets
    /\ UNCHANGED <<cleaned, sourceVars, may, requestVars, runVars,
                   storeVars, workerVars, gc, links, faults>>

(* Mutant of Inventoried: the rows are not compared with the inventory.    *)
InventoriedUnchecked == inventory # NoEntries
Inventoried == inventory # NoEntries /\ Targets = inventory

(* invalidatePartitionDownloadsForPartitions: by row, whatever the status. *)
Affected ==
    {r \in Requests : status[r] # "none" /\ \E p \in Entries(r) : inventory[p] # 0}

(* executeStoreCleanup: one transaction with the fingerprint compared.     *)
ExecuteCleanup ==
    /\ Inventoried
    /\ Terminated(Affected, "failed")
    /\ part' = [p \in Parts |-> IF Targets[p] # 0 THEN 0 ELSE part[p]]
    /\ cleaned' = {<<p, Targets[p]>> : p \in {q \in Parts : Targets[q] # 0}}
    /\ inventory' = NoEntries
    /\ UNCHANGED <<sources, may, manifest, progress, past, attempt, zips,
                   late, workerVars, gc, links, faults>>

-----------------------------------------------------------------------------
WorkerStep(w) ==
    \/ FencedOut(w) \/ Stale(w) \/ MarkRunning(w) \/ ReadEntry(w) \/ ReadFails(w)
    \/ RegisterCandidate(w) \/ Put(w) \/ Publish(w) \/ FailRequest(w) \/ Retry(w)

Next ==
    \/ \E p \in Parts : Republish(p)
    \/ \E s \in sources : SourceCollected(s[1], s[2])
    \/ \E e \in Requesters, ps \in SUBSET Parts : AccessChanges(e, ps)
    \/ \E r \in Requests : Prepare(r) \/ Elapses(r) \/ Expire(r) \/ IssueLink(r) \/ LeaseLapses(r)
    \/ \E w \in Executions : WorkerStep(w) \/ Abort(w) \/ Crash(w)
    \/ \E w \in Executions, r \in Requests : Claim(w, r)
    \/ \E k \in ZipKeys : LateWrite(k) \/ GcPick(k)
    \/ GcDelete
    \/ BuildInventory \/ ExecuteCleanup

Spec == Init /\ [][Next]_vars

(* Workers poll and finish what they start, time passes, and maintenance   *)
(* expires requests and drains the queue on every tick.                    *)
Fairness ==
    /\ \A w \in Executions : WF_vars(WorkerStep(w))
    /\ \A r \in Requests : WF_vars(Elapses(r)) /\ WF_vars(Expire(r)) /\ WF_vars(LeaseLapses(r))
    /\ \A k \in ZipKeys : WF_vars(LateWrite(k)) /\ SF_vars(GcPick(k))
    /\ WF_vars(GcDelete)

FairSpec == Spec /\ Fairness

-----------------------------------------------------------------------------
(* Properties.                                                             *)

(* Every variable keeps to the values its column or local can hold.        *)
TypeOK ==
    /\ part \in [Parts -> 0..MaxVersion]
    /\ sources \subseteq Parts \X (1..MaxVersion)
    /\ may \in [Requesters -> SUBSET Parts]
    /\ status \in [Requests -> Active \cup {"none", "succeeded", "failed", "expired"}]
    /\ manifest \in [Requests -> [Parts -> 0..MaxVersion]]
    /\ progress \in [Requests -> 0..MaxEntries]
    /\ artifact \in [Requests -> 0..(MaxAttempts + MaxFaults)]
    /\ past \in [Requests -> BOOLEAN]
    /\ run \in [Requests -> OpenRun \cup {"none", "succeeded", "failed"}]
    /\ attempt \in [Requests -> 0..(MaxAttempts + MaxFaults)]
    /\ live \in [Requests -> BOOLEAN]
    /\ zips \subseteq ZipKeys /\ late \subseteq ZipKeys /\ links \subseteq ZipKeys
    /\ garbage \in [ZipKeys -> {"none", "candidate", "atExpiry", "due"}]
    /\ pc \in [Executions -> {"idle", "mark", "read", "register", "put", "publish",
                              "retry", "failed"}]
    /\ wreq \in [Executions -> Requests \cup {None}]
    /\ watt \in [Executions -> 0..(MaxAttempts + MaxFaults)]
    /\ done \in [Executions -> 0..MaxEntries]
    /\ \A w \in Executions : wreq[w] = None <=> pc[w] = "idle"
    /\ gc \in ZipKeys \cup {None}
    /\ inventory \in [Parts -> 0..MaxVersion]
    /\ cleaned \subseteq Parts \X (1..MaxVersion)
    /\ faults \in 0..MaxFaults

(* A link that is within its lifetime, and whose request no cleanup has    *)
(* ended, leads to an object: neither a lapsed lease, a crash, a late      *)
(* write nor garbage collection takes away the package publish has named.  *)
LinkServes ==
    /\ \A r \in Requests : artifact[r] # 0 /\ ~past[r] => <<r, artifact[r]>> \in zips
    /\ \A k \in links : status[k[1]] = "succeeded" => artifact[k[1]] = k[2]

(* The cleanup deletes the rows the operator has seen, not rows that were  *)
(* published after the inventory was taken.                                *)
CleanupIsExact ==
    [][\A p \in Parts : part[p] # 0 /\ part'[p] = 0 => part[p] = inventory[p]]_vars

PackagesAreCollected == \A k \in ZipKeys : k \in zips ~> k \notin zips
=============================================================================
