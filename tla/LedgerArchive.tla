--------------------------- MODULE LedgerArchive ---------------------------
(***************************************************************************)
(* The ledger PDF archive.  A cell is one store on one date.  Every change *)
(* of a cell's sources raises its revision; the daily scan and the         *)
(* operator's CLI reserve generations; workers render a generation from a  *)
(* snapshot and publish it if it is still the newest and its sources are   *)
(* unchanged; employees open a PDF or ask for a ZIP of it.                 *)
(*                                                                         *)
(*   packages/ledger-archive/src/changes.ts         revisions              *)
(*   packages/ledger-archive/src/repository.ts      reservations           *)
(*   packages/ledger-archive/src/reconciliation.ts  the daily scan         *)
(*   packages/ledger-archive/src/publication.ts     registration, publish  *)
(*   packages/ledger-archive/src/delivery.ts        facts, ZIP requests    *)
(*   apps/worker/src/ledger-pdf/*.ts                the three jobs         *)
(*   apps/worker/src/worker.ts                      claim and failure      *)
(*                                                                         *)
(* Each action is one transaction or one storage call.  Publications,      *)
(* reservations and source changes lock the organization's row, so they    *)
(* are atomic to each other.  live says that a run's lockedUntil > now.    *)
(***************************************************************************)
EXTENDS Naturals, FiniteSets, Sequences, SequencesExt

CONSTANTS
    Cells,        \* the cells, in the order of their names
    Zips,         \* (requester, idempotencyKey) pairs of ZIP requests
    Clis,         \* runs of the operator's CLI with one request key
    Executions,   \* concurrent calls of runWorkerOnce
    MaxAttempts,  \* workerMaxAttempts
    PageSize,     \* LEDGER_PAGE_SIZE, and the limit of a scan's page
    MaxChanges,   \* bound: changes of sources, catalogues and modes
    MaxGen,       \* bound: generations of one cell
    FaultKinds,   \* subset of {"crash", "lapse", "storage", "render"}
    MaxFaults,    \* bound: faults in a behaviour
    None

Keys == ToSet(Cells)
Page(s, i) == SubSeq(s, i, Min({Len(s), i + PageSize - 1}))
Gens == 1..MaxGen

(* What a PDF was rendered from and by which attempt, and the ZIPs: a ZIP  *)
(* is named by its request, attempt and try.                               *)
Fingerprints == [src : Nat, mode : {"legacy", "enabled"}]
PdfObjects == [cell : Keys, gen : Gens, att : Nat, rev : Nat, fp : Fingerprints, supplier : Nat]
ZipObjects == [zip : Zips, att : Nat, try : Nat]

ASSUME ConstantsAssumption ==
    /\ Cells \in Seq(Keys) /\ IsInjective(Cells) /\ Len(Cells) > 0
    /\ MaxAttempts \in Nat \ {0} /\ PageSize \in Nat \ {0}
    /\ {MaxChanges, MaxGen, MaxFaults} \subseteq Nat
    /\ None \notin PdfObjects \cup ZipObjects

VARIABLES
    facts,    \* per cell: the version of its ledger rows and photos, rows or none
    catalog,  \* supplier catalogues: the newest and the archived ones
    mode,     \* business_authorization_states.mode: selects the photos that count
    cell,     \* ledger_pdf_partitions
    item,     \* ledger_artifact_request_items: one per cell and generation
    request,  \* the operator's ledger_artifact_requests row
    cli,      \* the enumeration cursor each CLI run has seen
    scan,     \* ledger_pdf_reconciliation_runs of today, and the cells it has reserved
    zip,      \* ledger_artifact_requests of kind download
    run,      \* processing_runs
    stored,   \* objects in storage
    late,     \* ZIP keys whose write was given up and may still land
    garbage,  \* storage_garbage: object -> kind of row
    exec,     \* locals of each execution
    gc,       \* the object maintenance is about to delete
    changes, faults

sourceVars == <<facts, catalog, mode>>
jobVars    == <<item, request, scan, zip, run>>
storeVars  == <<stored, late, garbage>>
vars == <<sourceVars, cell, jobVars, cli, storeVars, exec, gc, changes, faults>>

(* The processing runs by what they are for.                               *)
Pdf(c, g) == [kind |-> "pdf", of |-> c, gen |-> g]
Pack(z)   == [kind |-> "zip", of |-> z, gen |-> 0]
Scan      == [kind |-> "scan", of |-> None, gen |-> 0]
Jobs == {Pdf(c, g) : c \in Keys, g \in Gens} \cup {Pack(z) : z \in Zips} \cup {Scan}

NoRun == [status |-> "none", attempt |-> 0, live |-> FALSE]
Queued == [status |-> "queued", attempt |-> 0, live |-> FALSE]
Idle == [job |-> None, att |-> 0, pc |-> "idle", seen |-> None, todo |-> <<>>, next |-> 0, tries |-> 0, bad |-> 0]
NoItem == [status |-> "none", rev |-> 0, owner |-> None]
Pending == {"queued", "running"}
Claimable == {"queued", "running", "retry_scheduled"}

(* readLedgerSourceMetadata: what the metadata of a cell's sources hashes  *)
(* to.  Supplier values are not part of it; which photos count is decided  *)
(* by the authorization mode.                                              *)
Fingerprint(c) == [src |-> facts[c].src, mode |-> mode]

(* findReadableCurrentSupplierCatalog: the newest that is not archived, 0  *)
(* without one.                                                            *)
CurrentCatalog == Max({0} \cup ((1..catalog.newest) \ catalog.archived))

(* readLedgerSnapshot: one repeatable-read transaction.                    *)
Snapshot(c) ==
    [rev |-> cell[c].rev, fp |-> Fingerprint(c), rows |-> facts[c].rows,
     supplier |-> CurrentCatalog]

(* sourcesAreCurrent for what a snapshot used: its supplier catalogue is   *)
(* not archived.  (Ledger rows and photos are never archived without       *)
(* raising the revision, which is compared as well.)                       *)
SourcesAreCurrent(s) == s.supplier \notin catalog.archived

Fault(kinds) ==
    /\ kinds \cap FaultKinds # {}
    /\ faults < MaxFaults
    /\ faults' = faults + 1

Change ==
    /\ changes < MaxChanges
    /\ changes' = changes + 1

(* enqueueStorageGarbage for an object that is not null.                   *)
WithGarbage(o, row) ==
    IF o = None THEN garbage ELSE {x \in garbage : x.obj # o} \cup {[obj |-> o, row |-> row]}
GarbageRow(o) == {x \in garbage : x.obj = o}

Init ==
    /\ facts = [c \in Keys |-> [src |-> 1, rows |-> TRUE]]
    /\ catalog = [newest |-> 1, archived |-> {}]
    /\ mode = "legacy"
    /\ cell = [c \in Keys |-> [rev |-> 1, req |-> 0, pubRev |-> 0, pub |-> 0,
                               fp |-> None, obj |-> None, err |-> FALSE]]
    /\ item = [c \in Keys |-> [g \in Gens |-> NoItem]]
    /\ request = [status |-> "none", cursor |-> 0]
    /\ cli = [k \in Clis |-> None]
    /\ scan = [status |-> "none", cursor |-> 0, failed |-> 0, own |-> {}]
    /\ zip = [z \in Zips |-> [status |-> "none", pdf |-> None, key |-> None, past |-> FALSE]]
    /\ run = [j \in Jobs |-> NoRun]
    /\ stored = {}
    /\ late = {}
    /\ garbage = {}
    /\ exec = [w \in Executions |-> Idle]
    /\ gc = None
    /\ changes = 0
    /\ faults = 0

-----------------------------------------------------------------------------
(* Sources.                                                                *)

(* markLedgerPartitionsChanged, in the transaction of the change.          *)
MarkLedgerPartitionsChanged(cs) ==
    cell' = [c \in Keys |-> IF c \in cs THEN [cell[c] EXCEPT !.rev = @ + 1] ELSE cell[c]]

(* An import applies rows of the cell, a photo is added, replaced or       *)
(* withdrawn, or a ledger document is archived.                            *)
SourceChanges(c, rows) ==
    /\ Change
    /\ facts' = [facts EXCEPT ![c] = [src |-> @.src + 1, rows |-> rows]]
    /\ MarkLedgerPartitionsChanged({c})
    /\ UNCHANGED <<catalog, mode, jobVars, cli, storeVars, exec, gc, faults>>

(* A supplier catalogue is imported: no revision changes.                  *)
CatalogReplaced ==
    /\ Change
    /\ catalog' = [catalog EXCEPT !.newest = @ + 1]
    /\ UNCHANGED <<facts, mode, cell, jobVars, cli, storeVars, exec, gc, faults>>

(* archiveDocument of a catalogue marks the cells whose published PDF used *)
(* it, by ledger_pdf_sources.                                              *)
CatalogArchived(d) ==
    /\ Change
    /\ d \in (1..catalog.newest) \ catalog.archived
    /\ catalog' = [catalog EXCEPT !.archived = @ \cup {d}]
    /\ MarkLedgerPartitionsChanged(
           {c \in Keys : cell[c].obj # None /\ cell[c].obj.supplier = d})
    /\ UNCHANGED <<facts, mode, jobVars, cli, storeVars, exec, gc, faults>>

(* The organization's authorization mode changes, and with it the photos   *)
(* photoStoreFilter lets through.  (A suspended organization publishes     *)
(* nothing; the suspension is left out here.)                              *)
ModeChanges ==
    /\ Change
    /\ mode' = IF mode = "legacy" THEN "enabled" ELSE "legacy"
    /\ UNCHANGED <<facts, catalog, cell, jobVars, cli, storeVars, exec, gc, faults>>

-----------------------------------------------------------------------------
(* Leases.                                                                 *)

Goto(w, s) == exec' = [exec EXCEPT ![w] = IF s = "idle" THEN Idle ELSE [@ EXCEPT !.pc = s]]
At(w, s) == exec[w].pc = s

(* The status of what a run is for.                                        *)
OwnerStatus(j) ==
    CASE j.kind = "pdf"  -> item[j.of][j.gen].status
      [] j.kind = "zip"  -> zip[j.of].status
      [] j.kind = "scan" -> scan.status

SetOwner(j, s) ==
    CASE j.kind = "pdf"  -> item' = [item EXCEPT ![j.of][j.gen].status = s] /\ UNCHANGED <<zip, scan>>
      [] j.kind = "zip"  -> zip' = [zip EXCEPT ![j.of].status = s] /\ UNCHANGED <<item, scan>>
      [] j.kind = "scan" -> scan' = [scan EXCEPT !.status = s] /\ UNCHANGED <<item, zip>>

Free(j) ==
    \/ run[j].status \in {"queued", "retry_scheduled"}
    \/ run[j].status = "running" /\ ~run[j].live

(* claimNextProcessingRun for the three job types.  Claiming counts an     *)
(* attempt but does not limit them.                                        *)
Claim(w, j) ==
    /\ At(w, "idle")
    /\ OwnerStatus(j) \in Pending
    /\ Free(j)
    /\ run' = [run EXCEPT ![j] = [status |-> "running", attempt |-> @.attempt + 1, live |-> TRUE]]
    /\ SetOwner(j, "running")
    /\ exec' = [exec EXCEPT ![w] = [Idle EXCEPT !.job = j, !.att = run[j].attempt + 1, !.pc =
                  CASE j.kind = "pdf" -> "read" [] j.kind = "zip" -> "select" [] OTHER -> "list"]]
    /\ UNCHANGED <<sourceVars, cell, request, cli, storeVars, gc, changes, faults>>

(* The run is this claim's, also if its lease has lapsed.                  *)
HoldsClaim(w) ==
    LET r == run[exec[w].job] IN r.status = "running" /\ r.attempt = exec[w].att

(* lockLease, assertLease and fenced: the attempt names the claim.         *)
HoldsLease(w) == HoldsClaim(w) /\ run[exec[w].job].live

Served(j) == \E w \in Executions : exec[w].job = j /\ exec[w].att = run[j].attempt

(* A lease nobody renews lapses; one that is renewed lapses as a fault.    *)
LeaseLapses(j) ==
    /\ run[j].status = "running" /\ run[j].live
    /\ \/ ~Served(j) /\ UNCHANGED faults
       \/ Served(j) /\ Fault({"lapse"})
    /\ run' = [run EXCEPT ![j].live = FALSE]
    /\ UNCHANGED <<sourceVars, cell, item, request, scan, zip, cli, storeVars, exec, gc, changes>>

(* The key of the object an execution writes: a fresh one per attempt.     *)
PdfKey(w) ==
    [cell |-> exec[w].job.of, gen |-> exec[w].job.gen, att |-> exec[w].att,
     rev |-> exec[w].seen.rev, fp |-> exec[w].seen.fp, supplier |-> exec[w].seen.supplier]
ZipKey(w) == [zip |-> exec[w].job.of, att |-> exec[w].att, try |-> exec[w].tries]

(* The process dies; an upload of a ZIP may still land.                    *)
Crash(w) ==
    /\ ~At(w, "idle")
    /\ Fault({"crash"})
    /\ late' = IF At(w, "zput") THEN late \cup {ZipKey(w)} ELSE late
    /\ Goto(w, "idle")
    /\ UNCHANGED <<sourceVars, cell, jobVars, cli, stored, garbage, gc, changes>>

(* A call that finds its lease gone gives up; what it wrote stays          *)
(* registered.                                                             *)
LeaseLost(w) ==
    /\ exec[w].pc \in {"register", "publish", "list", "reserve", "checkpoint", "select", "complete", "zfail"}
    /\ ~HoldsLease(w)
    /\ Goto(w, "idle")
    /\ UNCHANGED <<sourceVars, cell, jobVars, cli, storeVars, gc, changes, faults>>

(* reduceLedgerRequestStatus over the items of the operator's request.     *)
Reduced(ss) ==
    IF ss \subseteq {"empty", "succeeded"} THEN "succeeded"
    ELSE IF ss = {"queued"} THEN "queued"
    ELSE IF ss \cap Pending # {} THEN "running"
    ELSE IF ss \cap {"empty", "succeeded"} # {} THEN "partial_failed"
    ELSE "failed"

(* updateLedgerRefreshRequestStatus: running until the enumeration is      *)
(* complete, then the reduction of the items' statuses.                    *)
RequestStatus(items, cur) ==
    IF cur <= Len(Cells) THEN "running"
    ELSE Reduced(UNION {{items[c][g].status : g \in {h \in Gens : items[c][h].owner = "cli"}} : c \in Keys})

ItemDone(j, rec) ==
    /\ item' = [item EXCEPT ![j.of][j.gen] = rec]
    /\ request' = IF rec.owner = "cli"
                  THEN [request EXCEPT !.status = RequestStatus(item', request.cursor)] ELSE request

(* failProcessingRun for a retryable or a final error: its time is sampled *)
(* before the transaction, so it may count a lease that lapsed since.  The *)
(* last attempt is the one that MaxAttempts allows.                        *)
FailRun(w) ==
    LET j == exec[w].job
        again == At(w, "retry") /\ exec[w].att < MaxAttempts
        s == IF again THEN "queued" ELSE "failed" IN
    /\ exec[w].pc \in {"retry", "fail"}
    /\ HoldsClaim(w)
    /\ run' = [run EXCEPT ![j] = [@ EXCEPT !.status = IF again THEN "retry_scheduled" ELSE "failed",
                                           !.live = FALSE]]
    /\ CASE j.kind = "pdf" ->
              /\ ItemDone(j, [item[j.of][j.gen] EXCEPT !.status = s])
              /\ cell' = [cell EXCEPT ![j.of].err = @ \/ cell[j.of].req = j.gen]
              /\ UNCHANGED <<zip, scan>>
         [] OTHER -> SetOwner(j, s) /\ UNCHANGED <<cell, request>>
    /\ Goto(w, "idle")
    /\ UNCHANGED <<sourceVars, cli, storeVars, gc, changes, faults>>

FailLost(w) ==
    /\ exec[w].pc \in {"retry", "fail"}
    /\ ~HoldsLease(w)
    /\ Goto(w, "idle")
    /\ UNCHANGED <<sourceVars, cell, jobVars, cli, storeVars, gc, changes, faults>>

-----------------------------------------------------------------------------
(* Rendering and publishing one generation: processLedgerPdf.              *)

ReadSnapshot(w) ==
    LET s == Snapshot(exec[w].job.of) IN
    /\ At(w, "read")
    /\ exec' = [exec EXCEPT ![w] = [@ EXCEPT !.seen = s, !.pc = IF s.rows THEN "register" ELSE "publish"]]
    /\ UNCHANGED <<sourceVars, cell, jobVars, cli, storeVars, gc, changes, faults>>

(* A certificate cannot be read or the renderer is stopped: retried.  A    *)
(* limit, a certificate or a PDF that is invalid: final.                   *)
RenderFails(w) ==
    /\ At(w, "register") /\ exec[w].job.kind = "pdf"
    /\ \/ Fault({"storage"}) /\ Goto(w, "retry")
       \/ Fault({"render"}) /\ Goto(w, "fail")
    /\ UNCHANGED <<sourceVars, cell, jobVars, cli, storeVars, gc, changes>>

(* registerCandidate: the key is queued as garbage before it is written.   *)
RegisterCandidate(w) ==
    /\ At(w, "register") /\ exec[w].job.kind = "pdf"
    /\ HoldsLease(w)
    /\ garbage' = WithGarbage(PdfKey(w), "candidate")
    /\ Goto(w, "put")
    /\ UNCHANGED <<sourceVars, cell, jobVars, cli, stored, late, gc, changes, faults>>

(* putObjectAtKey and headObject: an upload that is aborted fails.         *)
Put(w) ==
    /\ At(w, "put")
    /\ \/ stored' = stored \cup {PdfKey(w)} /\ Goto(w, "publish") /\ UNCHANGED faults
       \/ Fault({"storage"}) /\ Goto(w, "retry") /\ UNCHANGED stored
    /\ UNCHANGED <<sourceVars, cell, jobVars, cli, late, garbage, gc, changes>>

(* Mutant of Unchanged: only the revision is compared.                     *)
UnchangedRevision(c, s) == cell[c].rev = s.rev

(* Nothing the snapshot used has changed: the revision, and whether its    *)
(* sources are current.                                                    *)
Unchanged(c, s) == cell[c].rev = s.rev /\ SourcesAreCurrent(s)

(* A newer generation has been requested.                                  *)
Superseded(j) == cell[j.of].req # j.gen

RunSucceeded(j) == run' = [run EXCEPT ![j] = [@ EXCEPT !.status = "succeeded", !.live = FALSE]]

(* publishLedgerPdf of a generation that is still the newest: the object   *)
(* it replaces becomes garbage, the candidate stops being garbage.  The    *)
(* answer may be lost; then the caller goes on to the retry path.          *)
Publish(w) ==
    LET j == exec[w].job s == exec[w].seen
        old == cell[j.of].obj
        new == IF s.rows THEN PdfKey(w) ELSE None IN
    /\ At(w, "publish")
    /\ HoldsLease(w)
    /\ ~Superseded(j)
    /\ Unchanged(j.of, s)
    /\ new # None => GarbageRow(new) # {}
    /\ garbage' = WithGarbage(old, "replaced") \ GarbageRow(new)
    /\ cell' = [cell EXCEPT ![j.of] =
                  [@ EXCEPT !.pub = j.gen, !.pubRev = s.rev, !.fp = s.fp, !.obj = new, !.err = FALSE]]
    /\ RunSucceeded(j)
    /\ ItemDone(j, [item[j.of][j.gen] EXCEPT !.status = IF s.rows THEN "succeeded" ELSE "empty",
                                             !.rev = s.rev])
    /\ \/ Goto(w, "idle") /\ UNCHANGED faults
       \/ Fault({"storage"}) /\ Goto(w, "retry")
    /\ UNCHANGED <<sourceVars, scan, zip, cli, stored, late, gc, changes>>

(* publishLedgerPdf of an overtaken generation: nothing is published, the  *)
(* candidate stays garbage.                                                *)
PublishSuperseded(w) ==
    LET j == exec[w].job IN
    /\ At(w, "publish")
    /\ HoldsLease(w)
    /\ Superseded(j)
    /\ RunSucceeded(j)
    /\ ItemDone(j, [item[j.of][j.gen] EXCEPT !.status = "superseded", !.rev = exec[w].seen.rev])
    /\ Goto(w, "idle")
    /\ UNCHANGED <<sourceVars, cell, scan, zip, cli, storeVars, gc, changes, faults>>

(* LEDGER_SOURCE_CHANGED: retried.                                         *)
PublishRefused(w) ==
    LET j == exec[w].job IN
    /\ At(w, "publish")
    /\ HoldsLease(w)
    /\ ~Superseded(j)
    /\ ~Unchanged(j.of, exec[w].seen)
    /\ Goto(w, "retry")
    /\ UNCHANGED <<sourceVars, cell, jobVars, cli, storeVars, gc, changes, faults>>

-----------------------------------------------------------------------------
(* The daily scan.                                                         *)

Marked(c) == cell[c].pubRev # cell[c].rev \/ cell[c].err

(* ensureDailyReconciliation of the first day, and of the next one when    *)
(* this day's scan has ended: a new row and a new run.  An execution of the *)
(* old run has lost its lease, it is dropped with it.                      *)
EnsureDailyReconciliation ==
    /\ scan.status \notin Pending
    /\ \E c \in Keys : Marked(c)    \* bound: days on which nothing is found are left out
    /\ scan' = [status |-> "queued", cursor |-> 0, failed |-> 0, own |-> {}]
    /\ run' = [run EXCEPT ![Scan] = Queued]
    /\ exec' = [w \in Executions |-> IF exec[w].job = Scan THEN Idle ELSE exec[w]]
    /\ UNCHANGED <<sourceVars, cell, item, request, zip, cli, storeVars, gc, changes, faults>>

(* getState and listKeys: the marked cells after the cursor, one page.     *)
ListPage(w) ==
    LET found == SelectSeq([i \in 1..Len(Cells) |-> i], LAMBDA i : i > scan.cursor /\ Marked(Cells[i]))
        page == Page(found, 1) IN
    /\ At(w, "list")
    /\ HoldsLease(w)
    /\ exec' = [exec EXCEPT ![w] = [@ EXCEPT !.todo = page, !.tries = 0,
                  !.next = IF Len(found) > PageSize THEN Last(page) ELSE 0,
                  !.pc = IF page = <<>> THEN "checkpoint" ELSE "observe"]]
    /\ UNCHANGED <<sourceVars, cell, jobVars, cli, storeVars, gc, changes, faults>>

(* The locals for the next key of the page, with the keys that have failed *)
(* counted.                                                                *)
NextKey(e, failed) ==
    [e EXCEPT !.bad = @ + failed, !.tries = 0, !.todo = Tail(@), !.seen = None,
              !.pc = IF Len(e.todo) = 1 THEN "checkpoint" ELSE "observe"]

(* observe and headObject: the row, the fingerprint, and whether the       *)
(* object is there.  A failing check is counted, never repaired blindly.   *)
Observe(w) ==
    LET c == Cells[Head(exec[w].todo)] IN
    /\ At(w, "observe")
    /\ \/ /\ exec' = [exec EXCEPT ![w] = [@ EXCEPT !.pc = "reserve", !.seen =
                     [row |-> cell[c], fp |-> Fingerprint(c), rows |-> facts[c].rows,
                      there |-> cell[c].obj \in stored]]]
          /\ UNCHANGED faults
       \/ /\ Fault({"storage"})
          /\ exec' = [exec EXCEPT ![w] = NextKey(exec[w], 1)]
    /\ UNCHANGED <<sourceVars, cell, jobVars, cli, storeVars, gc, changes>>

(* ledgerNeedsRepair.                                                      *)
NeedsRepair(o) ==
    \/ o.row.err \/ o.row.pubRev # o.row.rev \/ o.row.fp # o.fp
    \/ IF o.rows THEN o.row.obj = None \/ ~o.there ELSE o.row.obj # None

(* Mutant of Inflight: one that has failed counts too.                     *)
InflightEver(c) == cell[c].req > 0 /\ item[c][cell[c].req].rev = cell[c].rev

(* A reservation under way for the cell's present generation and revision. *)
Inflight(c) ==
    LET g == cell[c].req IN
    /\ g > 0
    /\ item[c][g].status \in Pending /\ item[c][g].rev = cell[c].rev
    /\ run[Pdf(c, g)].status \in Claimable

(* requestedGeneration is raised and enqueuePartitions creates an item and *)
(* a run for each cell.                                                    *)
Enqueue(cs, owner) ==
    /\ \A c \in cs : cell[c].req < MaxGen
    /\ cell' = [c \in Keys |-> IF c \in cs THEN [cell[c] EXCEPT !.req = @ + 1] ELSE cell[c]]
    /\ item' = [c \in Keys |-> [g \in Gens |->
                  IF c \in cs /\ g = cell[c].req + 1
                  THEN [status |-> "queued", rev |-> cell[c].rev, owner |-> owner] ELSE item[c][g]]]
    /\ run' = [j \in Jobs |-> IF j.kind = "pdf" /\ j.of \in cs /\ j.gen = cell[j.of].req + 1
                              THEN Queued ELSE run[j]]

(* What was observed is compared under the organization's lock.            *)
ObservationCurrent(c, o) == cell[c] = o.row /\ Fingerprint(c) = o.fp

(* reserveRepair: reserveRefresh with an observation.  A cell this scan    *)
(* has reserved before, or whose reservation is under way, is tracked.     *)
ReserveRepair(w) ==
    LET c == Cells[Head(exec[w].todo)] o == exec[w].seen IN
    /\ At(w, "reserve")
    /\ HoldsLease(w)
    /\ ObservationCurrent(c, o)
    /\ IF c \in scan.own \/ Inflight(c) \/ ~NeedsRepair(o)
       THEN UNCHANGED <<cell, item, run, scan>>
       ELSE Enqueue({c}, "scan") /\ scan' = [scan EXCEPT !.own = @ \cup {c}]
    /\ exec' = [exec EXCEPT ![w] = NextKey(exec[w], 0)]
    /\ UNCHANGED <<sourceVars, request, zip, cli, storeVars, gc, changes, faults>>

(* LEDGER_OBSERVATION_STALE: observed once more, then counted as failed.   *)
ReserveStale(w) ==
    LET c == Cells[Head(exec[w].todo)] e == exec[w] IN
    /\ At(w, "reserve")
    /\ HoldsLease(w)
    /\ ~ObservationCurrent(c, exec[w].seen)
    /\ exec' = [exec EXCEPT ![w] =
          IF e.tries = 0 THEN [e EXCEPT !.tries = 1, !.seen = None, !.pc = "observe"] ELSE NextKey(e, 1)]
    /\ UNCHANGED <<sourceVars, cell, jobVars, cli, storeVars, gc, changes, faults>>

(* checkpoint: the cursor moves, and the run ends or is queued again.      *)
Checkpoint(w) ==
    LET failed == scan.failed + exec[w].bad
        done == exec[w].next = 0 IN
    /\ At(w, "checkpoint")
    /\ HoldsLease(w)
    /\ scan' = [status |-> IF ~done THEN "running" ELSE IF failed > 0 THEN "partial_failed" ELSE "succeeded",
                cursor |-> exec[w].next, failed |-> failed, own |-> scan.own]
    /\ run' = [run EXCEPT ![Scan] = [@ EXCEPT !.status = IF done THEN "succeeded" ELSE "queued", !.live = FALSE]]
    /\ Goto(w, "idle")
    /\ UNCHANGED <<sourceVars, cell, item, request, zip, cli, storeVars, gc, changes, faults>>

-----------------------------------------------------------------------------
(* The operator's CLI: a refresh of every cell, page by page, which any    *)
(* number of runs with the same key may drive.                             *)

(* beginInternalRefresh.                                                   *)
BeginInternalRefresh(k) ==
    /\ cli[k] = None
    /\ request' = IF request.status = "none" THEN [status |-> "queued", cursor |-> 1] ELSE request
    /\ cli' = [cli EXCEPT ![k] = request'.cursor]
    /\ UNCHANGED <<sourceVars, cell, item, scan, zip, run, storeVars, exec, gc, changes, faults>>

(* The page is the one the request waits for.                              *)
PageWanted(k) == cli[k] = request.cursor

(* listPartitionKeys and appendInternalRefreshPage: a page another run has *)
(* committed is not added again, the caller resumes after it.              *)
AppendInternalRefreshPage(k) ==
    LET page == Page(Cells, cli[k])
        fresh == {c \in ToSet(page) : \A g \in Gens : item[c][g].owner # "cli"} IN
    /\ cli[k] # None /\ cli[k] <= Len(Cells)
    /\ IF PageWanted(k)
       THEN /\ Enqueue(fresh, "cli")
            /\ request' = [cursor |-> cli[k] + Len(page),
                           status |-> RequestStatus(item', cli[k] + Len(page))]
       ELSE UNCHANGED <<cell, item, run, request>>
    /\ cli' = [cli EXCEPT ![k] = request'.cursor]
    /\ UNCHANGED <<sourceVars, scan, zip, storeVars, exec, gc, changes, faults>>

-----------------------------------------------------------------------------
(* ZIP requests of employees; each is for one cell.                        *)

(* readFact: a PDF is ready when it was published at the cell's revision   *)
(* with the sources of now, none of them archived, and is in storage.      *)
Ready(c) ==
    /\ facts[c].rows
    /\ cell[c].pub > 0 /\ cell[c].pubRev = cell[c].rev /\ cell[c].fp = Fingerprint(c)
    /\ cell[c].obj # None
    /\ SourcesAreCurrent(cell[c].obj)
    /\ cell[c].obj \in stored

(* ledgerBundleContentCurrent of the PDF a ZIP request has captured.       *)
BundleContentCurrent(pdf) ==
    LET c == cell[pdf.cell] IN
    /\ c.obj = pdf /\ c.rev = pdf.rev /\ c.pubRev = pdf.rev
    /\ c.fp = pdf.fp /\ pdf.fp = Fingerprint(pdf.cell)
    /\ SourcesAreCurrent(pdf)

(* requestLedgerBundle and reserveBundle: the manifest captures what is    *)
(* ready.  A repeated key answers with the request there is.               *)
ReserveBundle(z, c) ==
    /\ zip[z].status = "none"
    /\ Ready(c)
    /\ BundleContentCurrent(cell[c].obj)
    /\ zip' = [zip EXCEPT ![z] = [status |-> "queued", pdf |-> cell[c].obj, key |-> None, past |-> FALSE]]
    /\ run' = [run EXCEPT ![Pack(z)] = Queued]
    /\ UNCHANGED <<sourceVars, cell, item, request, scan, cli, storeVars, exec, gc, changes, faults>>

Bundled(w) == zip[exec[w].job.of].pdf
Captured(w) == BundleContentCurrent(Bundled(w)) /\ Bundled(w) \in stored

(* select and registerCandidate.  What was captured never changes, so a    *)
(* selection that is not current fails the request.                        *)
SelectBundle(w) ==
    /\ At(w, "select")
    /\ HoldsLease(w)
    /\ IF Captured(w)
       THEN garbage' = WithGarbage(ZipKey(w), "candidate") /\ Goto(w, "zput")
       ELSE Goto(w, "zfail") /\ UNCHANGED garbage
    /\ UNCHANGED <<sourceVars, cell, jobVars, cli, stored, late, gc, changes, faults>>

(* The PDFs are read and the ZIP is written and uploaded, with a selection *)
(* before and after the upload.                                            *)
PutBundle(w) ==
    /\ At(w, "zput")
    /\ IF Captured(w)
       THEN stored' = stored \cup {ZipKey(w)} /\ Goto(w, "complete")
       ELSE Goto(w, "zfail") /\ UNCHANGED stored
    /\ UNCHANGED <<sourceVars, cell, jobVars, cli, late, garbage, gc, changes, faults>>

(* A storage error, the deadline, a shutdown or a failed heartbeat ends    *)
(* the request; the upload cannot be cancelled and may still land.         *)
AbortBundle(w) ==
    /\ exec[w].pc \in {"select", "zput", "complete"}
    /\ Fault({"storage"})
    /\ late' = IF At(w, "zput") THEN late \cup {ZipKey(w)} ELSE late
    /\ Goto(w, "zfail")
    /\ UNCHANGED <<sourceVars, cell, jobVars, cli, stored, garbage, gc, changes>>

LateWrite(k) ==
    /\ k \in late
    /\ stored' = stored \cup {k}
    /\ late' = late \ {k}
    /\ UNCHANGED <<sourceVars, cell, jobVars, cli, garbage, exec, gc, changes, faults>>

(* completeBundle: the candidate becomes an object that is due when the    *)
(* request's ZIP expires.                                                  *)
CompleteBundle(w) ==
    LET z == exec[w].job.of IN
    /\ At(w, "complete")
    /\ HoldsLease(w)
    /\ BundleContentCurrent(Bundled(w))
    /\ zip' = [zip EXCEPT ![z] = [@ EXCEPT !.status = "succeeded", !.key = ZipKey(w)]]
    /\ garbage' = WithGarbage(ZipKey(w), "atExpiry")
    /\ RunSucceeded(exec[w].job)
    /\ Goto(w, "idle")
    /\ UNCHANGED <<sourceVars, cell, item, request, scan, cli, stored, late, gc, changes, faults>>

(* The content changed since: two more selections, then the request fails. *)
CompleteStale(w) ==
    LET e == exec[w] IN
    /\ At(w, "complete")
    /\ HoldsLease(w)
    /\ ~BundleContentCurrent(Bundled(w))
    /\ exec' = [exec EXCEPT ![w] = IF e.tries < 2 THEN [e EXCEPT !.tries = @ + 1, !.pc = "select"]
                                   ELSE [e EXCEPT !.pc = "zfail"]]
    /\ UNCHANGED <<sourceVars, cell, jobVars, cli, storeVars, gc, changes, faults>>

(* failBundle.                                                             *)
FailBundle(w) ==
    LET j == exec[w].job IN
    /\ At(w, "zfail")
    /\ HoldsLease(w)
    /\ zip' = [zip EXCEPT ![j.of].status = "failed"]
    /\ run' = [run EXCEPT ![j] = [@ EXCEPT !.status = "failed", !.live = FALSE]]
    /\ Goto(w, "idle")
    /\ UNCHANGED <<sourceVars, cell, item, request, scan, cli, storeVars, gc, changes, faults>>

(* zipExpiresAt passes.                                                    *)
ZipElapses(z) ==
    /\ zip[z].key # None /\ ~zip[z].past
    /\ zip' = [zip EXCEPT ![z].past = TRUE]
    /\ UNCHANGED <<sourceVars, cell, item, request, scan, run, cli, storeVars, exec, gc, changes, faults>>

(* enqueueExpiredLedgerBundles.                                            *)
EnqueueExpiredBundle(z) ==
    /\ zip[z].key # None /\ zip[z].past
    /\ garbage' = WithGarbage(zip[z].key, "replaced")
    /\ zip' = [zip EXCEPT ![z].key = None]
    /\ UNCHANGED <<sourceVars, cell, item, request, scan, run, cli, stored, late, exec, gc, changes, faults>>

-----------------------------------------------------------------------------
(* Garbage collection of PDFs and ZIPs.                                    *)

RunOf(o) == IF "zip" \in DOMAIN o THEN run[Pack(o.zip)] ELSE run[Pdf(o.cell, o.gen)]

(* listDueStorageGarbage and canDeleteStorageGarbage.                      *)
Due(x) ==
    /\ x.row = "atExpiry" => zip[x.obj.zip].past
    /\ x.row = "candidate" => ~(RunOf(x.obj).status = "running" /\ RunOf(x.obj).live)

GcPick(x) ==
    /\ gc = None
    /\ Due(x)
    /\ x.obj \in stored \cup late \/ x.row # "candidate"   \* bound: else a deletion finds nothing
    /\ gc' = x
    /\ UNCHANGED <<sourceVars, cell, jobVars, cli, storeVars, exec, changes, faults>>

(* Mutant of GcDelete: the row of a candidate is removed too.              *)
GcDeleteForgets ==
    /\ gc # None
    /\ stored' = stored \ {gc.obj}
    /\ garbage' = garbage \ GarbageRow(gc.obj)
    /\ gc' = None
    /\ UNCHANGED <<sourceVars, cell, jobVars, cli, late, exec, changes, faults>>

(* deleteObject and deleteGarbage: a candidate's row stays, to be due      *)
(* again a day later.                                                      *)
GcDelete ==
    /\ gc # None
    /\ stored' = stored \ {gc.obj}
    /\ garbage' = garbage \ {x \in GarbageRow(gc.obj) : x.row # "candidate"}
    /\ gc' = None
    /\ UNCHANGED <<sourceVars, cell, jobVars, cli, late, exec, changes, faults>>

-----------------------------------------------------------------------------
Step(w) ==
    \/ LeaseLost(w) \/ FailRun(w) \/ FailLost(w)
    \/ ReadSnapshot(w) \/ RegisterCandidate(w) \/ Put(w)
    \/ Publish(w) \/ PublishSuperseded(w) \/ PublishRefused(w)
    \/ ListPage(w) \/ Observe(w) \/ ReserveRepair(w) \/ ReserveStale(w) \/ Checkpoint(w)
    \/ SelectBundle(w) \/ PutBundle(w) \/ CompleteBundle(w) \/ CompleteStale(w) \/ FailBundle(w)

Next ==
    \/ \E c \in Keys, rows \in BOOLEAN : SourceChanges(c, rows)
    \/ CatalogReplaced
    \/ \E d \in 1..catalog.newest : CatalogArchived(d)
    \/ ModeChanges
    \/ \E w \in Executions, j \in Jobs : Claim(w, j)
    \/ \E w \in Executions : Step(w) \/ RenderFails(w) \/ AbortBundle(w) \/ Crash(w)
    \/ \E j \in Jobs : LeaseLapses(j)
    \/ EnsureDailyReconciliation
    \/ \E k \in Clis : BeginInternalRefresh(k) \/ AppendInternalRefreshPage(k)
    \/ \E z \in Zips, c \in Keys : ReserveBundle(z, c)
    \/ \E z \in Zips : ZipElapses(z) \/ EnqueueExpiredBundle(z)
    \/ \E k \in late : LateWrite(k)
    \/ \E x \in garbage : GcPick(x)
    \/ GcDelete

Spec == Init /\ [][Next]_vars

(* Workers poll for every job and finish what they start, leases nobody    *)
(* renews lapse, and maintenance schedules the next day's scan.            *)
Fairness ==
    /\ \A w \in Executions : WF_vars(Step(w))
    /\ \A j \in Jobs : SF_vars(\E w \in Executions : Claim(w, j)) /\ WF_vars(LeaseLapses(j))
    /\ WF_vars(EnsureDailyReconciliation)

FairSpec == Spec /\ Fairness

-----------------------------------------------------------------------------
(* Properties.                                                             *)

(* Every variable keeps to the values its column or local can hold.        *)
TypeOK ==
    /\ \A c \in Keys : /\ cell[c].pub <= cell[c].req /\ cell[c].req <= MaxGen
                       /\ cell[c].pubRev <= cell[c].rev
                       /\ \A g \in Gens : item[c][g].status # "none" <=> g <= cell[c].req
    /\ request.cursor \in 0..(Len(Cells) + 1)
    /\ scan.status \in Pending \cup {"none", "failed", "succeeded", "partial_failed"}
    /\ \A j \in Jobs : run[j].status \in Claimable \cup {"none", "failed", "succeeded"}
    /\ \A j \in Jobs : run[j].live => run[j].status = "running"
    /\ \A w \in Executions : exec[w].job = None <=> exec[w].pc = "idle"
    /\ Cardinality({x.obj : x \in garbage}) = Cardinality(garbage)

(* A cell that is not marked shows its sources: its PDF was rendered from  *)
(* the rows of now, and no catalogue that is archived gave it a value.     *)
(* The daily scan looks at marked cells only, so a cell that is wrong and  *)
(* not marked would stay wrong.                                            *)
UnmarkedIsCurrent ==
    \A c \in Keys : ~Marked(c) =>
        /\ cell[c].fp.src = facts[c].src
        /\ (cell[c].obj # None) = facts[c].rows
        /\ cell[c].obj # None => SourcesAreCurrent(cell[c].obj)

(* No object leaks: it is named by a cell or queued as garbage.            *)
ObjectsAccounted ==
    \A o \in stored \cup late : (\E c \in Keys : cell[c].obj = o) \/ GarbageRow(o) # {}

(* A marked cell is rendered in the end: by the generation under way or by *)
(* a later day's scan, also when every attempt of a generation has failed. *)
MarkedCellsAreRendered ==
    \A c \in Keys : Marked(c) ~> ~Marked(c)

=============================================================================
