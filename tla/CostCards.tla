----------------------------- MODULE CostCards -----------------------------
(***************************************************************************)
(* Cost cards: a worker splits an uploaded sheet into cards, writes one    *)
(* object per card that changed, and publishes them together against the   *)
(* catalogue it compared with (apps/worker/src/cost-card-import.ts,        *)
(* packages/structured-ingestion/src/cost-cards.ts, packages/db/src/       *)
(* cost-cards.ts).  The objects of attempts that fail and of replaced      *)
(* cards are collected (packages/db/src/storage-garbage.ts) while          *)
(* manifests of links to the current ones are given out (apps/api/src/     *)
(* cost-cards.ts) and downloaded (apps/mcp-launcher/src/                   *)
(* cost-card-transfer.ts).                                                 *)
(*                                                                         *)
(* Time is abstract: a lease may lapse and a link expire at any step, and  *)
(* the day a replaced object is kept passes only when the links to it,     *)
(* which last a quarter of an hour at most, have expired.  A content hash  *)
(* is the content.                                                         *)
(***************************************************************************)
EXTENDS Naturals, FiniteSets, Sequences

CONSTANTS
  CardRuns, Workers,
  Sheets,        \* the uploaded sheets: sequences of rows
  Standard,      \* the recipes that hold for every store
  Nothing,
  MaxAttempts,
  MaxTroubles    \* crashes, lapsed leases, failed writes, archivings, suspensions

VARIABLES
  uploads,    \* a run: status, its sheet, the number of claims, its lease
  builders,   \* a worker: what its attempt is doing
  catalogue,  \* the cost_cards rows by identity
  stored,     \* objects in storage
  underway,   \* writes of objects that storage has begun
  queue,      \* storage_garbage by object key
  collector,  \* the object the collector may delete, and how far it is
  reader,     \* a download of the launcher and the manifest it is given
  enabled,    \* business authorization is in its enabled mode
  troubles

cardVars == <<uploads, builders, catalogue, stored, underway, queue, collector,
              reader, enabled, troubles>>

-----------------------------------------------------------------------------
(* The sheet *)

RowsOf(sheet) == {sheet[i] : i \in DOMAIN sheet}

RowValid(row) ==
  /\ row.item # Nothing
  /\ (row.recipe \in Standard) = (row.stores = {})

\* compareCommon: rows of a card agree on its fields, rows of a recipe on the
\* recipe's.
RowsAgree(a, b) ==
  a.card = b.card =>
    /\ a.fields = b.fields
    /\ a.recipe = b.recipe => a.details = b.details /\ a.stores = b.stores

\* groupCostCardRows
SheetValid(sheet) ==
  /\ sheet # <<>>
  /\ \A row \in RowsOf(sheet) : RowValid(row)
  /\ \A a, b \in RowsOf(sheet) : RowsAgree(a, b)

CardsOf(sheet) == {row.card : row \in RowsOf(sheet)}

\* canonicalizeCostCard: which rows a card has and how often, in no order.
Content(sheet, c) ==
  [row \in {x \in RowsOf(sheet) : x.card = c} |->
     Cardinality({i \in DOMAIN sheet : sheet[i] = row})]

Cards == UNION {CardsOf(sheet) : sheet \in Sheets}

ObjectOf(r, attempt, c) == <<r, attempt, c>>
Objects == {ObjectOf(r, n, c) : r \in CardRuns, n \in 1..MaxAttempts, c \in Cards}

-----------------------------------------------------------------------------
(* What the rows may hold *)

Contents == UNION {{Content(sheet, c) : c \in CardsOf(sheet)} : sheet \in Sheets}
CardRow == [revision : Nat, content : Contents, object : Objects, archived : BOOLEAN]
QueueRow == [run : {Nothing} \cup CardRuns, due : BOOLEAN]

\* Nothing is neither a run nor a row.
ASSUME CardAssumption ==
  /\ MaxAttempts \in Nat
  /\ Nothing \notin CardRuns /\ Nothing \notin CardRow /\ Nothing \notin QueueRow

-----------------------------------------------------------------------------

Idle == [run |-> Nothing, attempt |-> 0, pc |-> "idle", plan |-> <<>>, done |-> {}]
NoReader == [pc |-> "idle", try |-> 0, entries |-> {}, same |-> FALSE, live |-> FALSE,
             files |-> {}]
Ended == [NoReader EXCEPT !.pc = "failed"]
NoUpload == [status |-> "none", sheet |-> <<>>, attempt |-> 0, by |-> Nothing,
             held |-> FALSE]

CardInit ==
  /\ uploads = [r \in CardRuns |-> NoUpload]
  /\ builders = [w \in Workers |-> Idle]
  /\ catalogue = [c \in Cards |-> Nothing]
  /\ stored = {} /\ underway = {}
  /\ queue = [o \in Objects |-> Nothing]
  /\ collector = [object |-> Nothing, deleted |-> FALSE]
  /\ reader = NoReader
  /\ enabled = TRUE
  /\ troubles = 0

Trouble == troubles < MaxTroubles /\ troubles' = troubles + 1

Upload(r, sheet) ==
  /\ uploads[r].status = "none"
  /\ uploads' = [uploads EXCEPT ![r] = [NoUpload EXCEPT !.status = "queued", !.sheet = sheet]]
  /\ UNCHANGED <<builders, catalogue, stored, underway, queue, collector, reader, enabled, troubles>>

Claim(w, r) ==
  /\ builders[w].pc = "idle"
  /\ \/ uploads[r].status = "queued"
     \/ uploads[r].status = "running" /\ ~uploads[r].held
  /\ uploads[r].attempt < MaxAttempts
  /\ uploads' = [uploads EXCEPT ![r].status = "running", ![r].attempt = @ + 1,
                                ![r].by = w, ![r].held = TRUE]
  /\ builders' = [builders EXCEPT ![w] = [Idle EXCEPT !.run = r,
                    !.attempt = uploads[r].attempt + 1, !.pc = "parse"]]
  /\ UNCHANGED <<catalogue, stored, underway, queue, collector, reader, enabled, troubles>>

CardLeaseLapses(r) ==
  /\ Trouble
  /\ uploads[r].status = "running" /\ uploads[r].held
  /\ uploads' = [uploads EXCEPT ![r].held = FALSE]
  /\ UNCHANGED <<builders, catalogue, stored, underway, queue, collector, reader, enabled>>

Claims(w) ==
  LET b == builders[w] IN
  /\ b.run # Nothing
  /\ uploads[b.run].status = "running"
  /\ uploads[b.run].by = w /\ uploads[b.run].attempt = b.attempt

HoldsLease(w) == Claims(w) /\ uploads[builders[w].run].held

Sheet(w) == uploads[builders[w].run].sheet
Stop(w) == builders' = [builders EXCEPT ![w] = Idle]

\* failProcessingRun; a worker that lost its lease only stops.
Fail(w, retryable) ==
  LET r == builders[w].run IN
  /\ uploads' =
       IF ~HoldsLease(w) THEN uploads
       ELSE [uploads EXCEPT ![r].held = FALSE,
              ![r].status = IF retryable /\ builders[w].attempt < MaxAttempts
                            THEN "queued" ELSE "failed"]
  /\ Stop(w)
  /\ UNCHANGED <<catalogue, stored, underway, queue, collector, reader, enabled>>

\* The worker dies; what it asked of storage may still be done.
Crash(w) ==
  /\ Trouble
  /\ builders[w].pc # "idle"
  /\ Stop(w)
  /\ UNCHANGED <<uploads, catalogue, stored, underway, queue, collector, reader, enabled>>

Parse(w) ==
  /\ builders[w].pc = "parse"
  /\ IF SheetValid(Sheet(w))
     THEN /\ builders' = [builders EXCEPT ![w].pc = "plan"]
          /\ UNCHANGED uploads
     ELSE /\ uploads' = IF HoldsLease(w)
                        THEN [uploads EXCEPT ![builders[w].run].status = "rejected",
                                             ![builders[w].run].held = FALSE]
                        ELSE uploads
          /\ Stop(w)
  /\ UNCHANGED <<catalogue, stored, underway, queue, collector, reader, enabled, troubles>>

\* costCardOperation
Operation(baseline, content) ==
  IF baseline = Nothing THEN "inserted"
  ELSE IF baseline.archived THEN "restored"
  ELSE IF baseline.content = content THEN "unchanged" ELSE "updated"

Planned(w, c) ==
  LET content == Content(Sheet(w), c) IN
  [baseline |-> catalogue[c], content |-> content,
   object |-> IF Operation(catalogue[c], content) = "unchanged" THEN Nothing
              ELSE ObjectOf(builders[w].run, builders[w].attempt, c)]

\* readBaselines, then a key for every card that is not unchanged.
Plan(w) ==
  /\ builders[w].pc = "plan"
  /\ builders' = [builders EXCEPT ![w].pc = "compare",
                    ![w].plan = [c \in CardsOf(Sheet(w)) |-> Planned(w, c)]]
  /\ UNCHANGED <<uploads, catalogue, stored, underway, queue, collector, reader, enabled, troubles>>

\* The replaced versions are read for the summary of changes.
Compare(w) ==
  LET plan == builders[w].plan
      old == {plan[c].baseline.object : c \in
                {d \in DOMAIN plan : /\ plan[d].baseline # Nothing
                                     /\ plan[d].baseline.content # plan[d].content}}
  IN /\ builders[w].pc = "compare"
     /\ IF old \subseteq stored
        THEN /\ builders' = [builders EXCEPT ![w].pc = "put"]
             /\ UNCHANGED <<uploads, catalogue, stored, underway, queue, collector,
                            reader, enabled, troubles>>
        ELSE Fail(w, TRUE) /\ UNCHANGED troubles

ToPut(w) == {c \in DOMAIN builders[w].plan :
               builders[w].plan[c].object # Nothing} \ builders[w].done

\* enqueueStorageGarbage of a candidate: due at once, protected by the lease.
Registered(o, r) == [queue EXCEPT ![o] = [run |-> r, due |-> TRUE]]

\* registerCandidate and the start of the write.
BeginPut(w, c) ==
  LET o == builders[w].plan[c].object IN
  /\ builders[w].pc = "put"
  /\ c \in ToPut(w) /\ o \notin underway
  /\ queue' = Registered(o, builders[w].run)
  /\ underway' = underway \cup {o}
  /\ UNCHANGED <<uploads, builders, catalogue, stored, collector, reader, enabled, troubles>>

\* The write ends and its size and checksum are as expected.
EndPut(w, c) ==
  LET o == builders[w].plan[c].object IN
  /\ builders[w].pc = "put"
  /\ c \in ToPut(w) /\ o \in underway
  /\ underway' = underway \ {o}
  /\ stored' = stored \cup {o}
  /\ builders' = [builders EXCEPT ![w].done = @ \cup {c}]
  /\ UNCHANGED <<uploads, catalogue, queue, collector, reader, enabled, troubles>>

\* A write fails; the attempt ends when those begun have.
PutFails(w) ==
  /\ Trouble
  /\ builders[w].pc = "put"
  /\ ToPut(w) # {}
  /\ \A c \in ToPut(w) : builders[w].plan[c].object \notin underway
  /\ Fail(w, TRUE)

\* A write whose worker is gone reaches storage, or does not.
LateWrite(o, arrives) ==
  /\ o \in underway
  /\ \A w \in Workers : builders[w].pc = "put" =>
       \A c \in ToPut(w) : builders[w].plan[c].object # o
  /\ underway' = underway \ {o}
  /\ stored' = IF arrives THEN stored \cup {o} ELSE stored
  /\ UNCHANGED <<uploads, builders, catalogue, queue, collector, reader, enabled, troubles>>

-----------------------------------------------------------------------------
(* Publication *)

\* costCardBaselineMatches
BaselinesMatch(plan) == \A c \in DOMAIN plan : plan[c].baseline = catalogue[c]

Owned(plan, r) ==
  \A c \in DOMAIN plan : plan[c].object # Nothing =>
    queue[plan[c].object] # Nothing /\ queue[plan[c].object].run = r

Changed(plan) == {c \in DOMAIN plan : plan[c].object # Nothing}

\* The object of a replaced card is kept for a day.
Replaced(o) == [run |-> Nothing, due |-> FALSE]

\* The candidates leave the queue and what they replace enters it.
Requeued(plan) ==
  LET adopted == {plan[c].object : c \in Changed(plan)}
      replaced == {plan[c].baseline.object : c \in
                     {d \in Changed(plan) : plan[d].baseline # Nothing}}
  IN [o \in Objects |-> IF o \in adopted THEN Nothing
                        ELSE IF o \in replaced THEN Replaced(o) ELSE queue[o]]

VersionMoved == reader' = [reader EXCEPT !.same = FALSE]

\* publishCostCards.  When the answer of the commit is lost the repository
\* finds the batch applied, so that too is a success.
Publish(w) ==
  LET b == builders[w]
      plan == b.plan
  IN /\ b.pc = "put" /\ ToPut(w) = {}
     /\ enabled /\ HoldsLease(w)
     /\ BaselinesMatch(plan) /\ Owned(plan, b.run)
     /\ catalogue' = [c \in Cards |->
          IF c \in Changed(plan)
          THEN [revision |-> IF plan[c].baseline = Nothing THEN 1
                             ELSE plan[c].baseline.revision + 1,
                content |-> plan[c].content, object |-> plan[c].object,
                archived |-> FALSE]
          ELSE catalogue[c]]
     /\ queue' = Requeued(plan)
     /\ uploads' = [uploads EXCEPT ![b.run].status = "succeeded", ![b.run].held = FALSE]
     /\ Stop(w)
     /\ VersionMoved
     /\ UNCHANGED <<stored, underway, collector, enabled, troubles>>

\* A baseline that is stale is worth another attempt, the rest is not.
PublishRefused(w) ==
  LET b == builders[w] IN
  /\ b.pc = "put" /\ ToPut(w) = {}
  /\ ~(enabled /\ HoldsLease(w) /\ BaselinesMatch(b.plan) /\ Owned(b.plan, b.run))
  /\ Fail(w, enabled /\ ~BaselinesMatch(b.plan))
  /\ UNCHANGED troubles

ArchiveCostCard(c) ==
  /\ Trouble
  /\ catalogue[c] # Nothing /\ ~catalogue[c].archived
  /\ catalogue' = [catalogue EXCEPT ![c].archived = TRUE, ![c].revision = @ + 1]
  /\ VersionMoved
  /\ UNCHANGED <<uploads, builders, stored, underway, queue, collector, enabled>>

SuspendReads ==
  /\ Trouble
  /\ enabled
  /\ enabled' = FALSE
  /\ VersionMoved
  /\ UNCHANGED <<uploads, builders, catalogue, stored, underway, queue, collector>>

-----------------------------------------------------------------------------
(* Collection *)

Referenced(o) == \E c \in Cards : catalogue[c] # Nothing /\ catalogue[c].object = o

RunLeased(r) == r # Nothing /\ uploads[r].status = "running" /\ uploads[r].held

\* listDueStorageGarbage and canDeleteStorageGarbage, which decides again
\* under the locks of the run and of the entry.
Collectable(o) ==
  /\ queue[o] # Nothing /\ queue[o].due
  /\ ~RunLeased(queue[o].run)
  /\ ~Referenced(o)

CollectStart(o) ==
  /\ collector.object = Nothing
  /\ Collectable(o)
  /\ collector' = [object |-> o, deleted |-> FALSE]
  /\ UNCHANGED <<uploads, builders, catalogue, stored, underway, queue, reader, enabled, troubles>>

CollectDelete ==
  /\ collector.object # Nothing /\ ~collector.deleted
  /\ stored' = stored \ {collector.object}
  /\ collector' = [collector EXCEPT !.deleted = TRUE]
  /\ UNCHANGED <<uploads, builders, catalogue, underway, queue, reader, enabled, troubles>>

TombstoneDropped(o) == Nothing

\* deleteGarbage: the entry of a candidate stays, for writes that arrive late.
Tombstone(o) ==
  IF queue[o] = Nothing \/ queue[o].run = Nothing THEN Nothing
  ELSE [queue[o] EXCEPT !.due = FALSE]

CollectFinish ==
  /\ collector.deleted
  /\ queue' = [queue EXCEPT ![collector.object] = Tombstone(collector.object)]
  /\ collector' = [object |-> Nothing, deleted |-> FALSE]
  /\ UNCHANGED <<uploads, builders, catalogue, stored, underway, reader, enabled, troubles>>

CollectCrash ==
  /\ Trouble
  /\ collector.object # Nothing
  /\ collector' = [object |-> Nothing, deleted |-> FALSE]
  /\ UNCHANGED <<uploads, builders, catalogue, stored, underway, queue, reader, enabled>>

LinkedObjects == IF reader.live THEN {e.object : e \in reader.entries} ELSE {}

DayPasses(o) ==
  /\ queue[o] # Nothing /\ ~queue[o].due
  /\ o \notin LinkedObjects
  /\ queue' = [queue EXCEPT ![o].due = TRUE]
  /\ UNCHANGED <<uploads, builders, catalogue, stored, underway, collector, reader, enabled, troubles>>

-----------------------------------------------------------------------------
(* Manifests and downloads: one of them *)

ReadFrame ==
  UNCHANGED <<uploads, builders, catalogue, stored, underway, queue, collector, enabled,
              troubles>>

Entries == {[card |-> c, revision |-> catalogue[c].revision, object |-> catalogue[c].object] :
              c \in {d \in Cards : catalogue[d] # Nothing /\ ~catalogue[d].archived}}

\* createCostCardManifest: the snapshot, and the links to its objects.
ManifestSnapshot ==
  /\ reader.pc \in {"idle", "again"}
  /\ enabled
  /\ reader' = [reader EXCEPT !.pc = "signed", !.entries = Entries, !.same = TRUE,
                              !.live = TRUE]
  /\ ReadFrame

Expires ==
  /\ reader.live
  /\ reader' = [reader EXCEPT !.live = FALSE]
  /\ ReadFrame

Unchanged == enabled /\ reader.same /\ Entries = reader.entries

\* It is given out when a second snapshot is the same and the links are live.
ManifestAnswer ==
  /\ reader.pc = "signed"
  /\ reader' = IF Unchanged /\ reader.live
               THEN [reader EXCEPT !.pc = "download"] ELSE Ended
  /\ ReadFrame

DownloadFile(e) ==
  /\ reader.pc = "download"
  /\ e \in reader.entries \ reader.files
  /\ reader.live /\ e.object \in stored
  /\ reader' = [reader EXCEPT !.files = {f \in @ : f.card # e.card} \cup {e}]
  /\ ReadFrame

\* The directory of an attempt whose links expired is emptied.
Cleared == {}

\* A link is refused: once, the download starts again with a new manifest.
DownloadRefused ==
  /\ reader.pc = "download" /\ ~reader.live
  /\ reader.entries \ reader.files # {}
  /\ reader' = IF reader.try = 0
               THEN [reader EXCEPT !.pc = "again", !.try = 1, !.files = Cleared]
               ELSE Ended
  /\ ReadFrame

\* Any other error, an object that is not there among them, ends it.
DownloadFails ==
  /\ reader.pc \in {"download", "again"}
  /\ reader' = Ended
  /\ ReadFrame

DownloadEnds ==
  /\ reader.pc = "download" /\ reader.entries \subseteq reader.files
  /\ reader' = [reader EXCEPT !.pc = "complete", !.live = FALSE]
  /\ ReadFrame

-----------------------------------------------------------------------------

BuildStep(w) ==
  \/ \E r \in CardRuns : Claim(w, r)
  \/ Parse(w) \/ Plan(w) \/ Compare(w)
  \/ \E c \in Cards : c \in DOMAIN builders[w].plan /\ (BeginPut(w, c) \/ EndPut(w, c))
  \/ PutFails(w) \/ Publish(w) \/ PublishRefused(w)
  \/ Crash(w)

CollectStep ==
  \/ \E o \in Objects : CollectStart(o) \/ DayPasses(o)
  \/ CollectDelete \/ CollectFinish \/ CollectCrash

ReadStep ==
  \/ ManifestSnapshot \/ ManifestAnswer \/ Expires
  \/ \E e \in reader.entries : DownloadFile(e)
  \/ DownloadRefused \/ DownloadFails \/ DownloadEnds

CardNext ==
  \/ \E r \in CardRuns, sheet \in Sheets : Upload(r, sheet)
  \/ \E r \in CardRuns : CardLeaseLapses(r)
  \/ \E w \in Workers : BuildStep(w)
  \/ \E o \in Objects, arrives \in BOOLEAN : LateWrite(o, arrives)
  \/ \E c \in Cards : ArchiveCostCard(c)
  \/ SuspendReads
  \/ CollectStep
  \/ ReadStep

CardSpec == CardInit /\ [][CardNext]_cardVars

-----------------------------------------------------------------------------
(* Properties *)

\* The object of every card, archived ones included, is in storage, and so is
\* every object a manifest links to until its links expire, whatever attempts
\* lost their lease and whatever the collector was doing (publishCostCards,
\* canDeleteStorageGarbage, COST_CARD_REPLACED_OBJECT_GRACE_SECONDS).
CardsServe ==
  /\ \A c \in Cards : catalogue[c] # Nothing => catalogue[c].object \in stored
  /\ LinkedObjects \subseteq stored

\* Whatever is in storage belongs to a card or is queued for deletion, late
\* writes of workers that are gone included (enqueueStorageGarbage, deleteGarbage).
CandidatesAccounted ==
  \A o \in stored : Referenced(o) \/ queue[o] # Nothing

=============================================================================
