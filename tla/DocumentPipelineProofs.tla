----------------------- MODULE DocumentPipelineProofs -----------------------
(***************************************************************************)
(* Proofs about DocumentPipeline for any documents, windows, executions    *)
(* and faults.                                                             *)
(***************************************************************************)
EXTENDS DocumentPipeline, TLAPS

(* A run is the first one of its document or the one that reindexes it.    *)
LEMMA RunShape ==
    /\ \A d \in Docs : First(d) \in Runs /\ DocOf(First(d)) = d /\ ~IsReindex(First(d))
    /\ \A d \in Evidence : Again(d) \in Runs /\ DocOf(Again(d)) = d /\ IsReindex(Again(d))
    /\ \A r \in Runs :
         /\ DocOf(r) \in Docs
         /\ r = IF IsReindex(r) THEN Again(DocOf(r)) ELSE First(DocOf(r))
         /\ IsReindex(r) => DocOf(r) \in Evidence
    /\ NoRun \notin Runs
<1>1. \A d \in Docs : First(d) \in Runs /\ DocOf(First(d)) = d /\ ~IsReindex(First(d))
  BY DEF First, Runs, DocOf, IsReindex
<1>2. \A d \in Evidence : Again(d) \in Runs /\ DocOf(Again(d)) = d /\ IsReindex(Again(d))
  BY DEF Again, Runs, DocOf, IsReindex
<1>3. ASSUME NEW r \in Runs
      PROVE  /\ DocOf(r) \in Docs
             /\ r = IF IsReindex(r) THEN Again(DocOf(r)) ELSE First(DocOf(r))
             /\ IsReindex(r) => DocOf(r) \in Evidence
  <2>1. (\E d \in Docs : r = First(d)) \/ (\E d \in Evidence : r = Again(d))
    BY DEF Runs
  <2>. QED  BY <1>1, <1>2, <2>1, PipelineAssumption
<1>4. NoRun \notin Runs
  BY PipelineAssumption DEF NoRun, Runs, First, Again
<1>. QED  BY <1>1, <1>2, <1>3, <1>4

(***************************************************************************)
(* The inductive invariant.                                                *)
(***************************************************************************)

(* A call is where its kind of document and the rows it read let it be: in *)
(* particular what it found rejected, failed or archived stays so until    *)
(* it deletes the claim.                                                   *)
CallOK(c) ==
    /\ IF c \in Evidence THEN target[c] = c ELSE target[c] \in Structured \cup {None}
    /\ upc[c] \in {"key", "claim", "release", "releaseAny", "reserve", "enqueue"} => c \in Structured
    /\ upc[c] \in {"create", "undo"} => c \in Evidence
    /\ upc[c] \in {"put", "enqueue", "release", "releaseAny", "answered"} => target[c] \in Docs
    /\ upc[c] \in {"enqueue", "create", "answered"} => target[c] \in source
    /\ upc[c] = "answered" => runStatus[First(target[c])] # "absent"
    /\ upc[c] \in {"put", "create"} /\ c \in Evidence => runStatus[First(c)] = "absent"
    /\ upc[c] = "release" => batch[target[c]] \in {"rejected", "failed"}
    /\ upc[c] = "releaseAny" => batch[target[c]] = "applied" /\ docStatus[target[c]] = "archived"

(* An execution works on a run of the kind its step is for.                *)
WorkerOK(w) ==
    /\ pc[w] # "idle" => wrun[w] \in Runs
    /\ pc[w] \in {"index", "check", "complete"} => DocOf(wrun[w]) \in Evidence
    /\ pc[w] \in {"begin", "apply", "reject"} => DocOf(wrun[w]) \in Structured
    /\ pc[w] \in {"check", "complete"} => wrun[w] \in points
    /\ pc[w] = "claim" /\ IsReindex(wrun[w]) /\ ~seen[w].active => archived[DocOf(wrun[w])]

(* The batch and the index of a document agree with its runs, and a run is *)
(* made for a file that was stored.                                        *)
RunsAgree ==
    /\ \A d \in Evidence : batch[d] = "absent"
    /\ \A d \in Structured :
         /\ batch[d] = "applied" => runStatus[First(d)] = "succeeded"
         /\ batch[d] \in {"failed", "rejected"} => runStatus[First(d)] = "failed"
         /\ runStatus[First(d)] # "absent" => d \in source
    /\ \A r \in ready : runStatus[r] = "succeeded"
    /\ \A d \in Evidence : runStatus[Again(d)] # "absent" =>
         First(d) \in ready /\ (docStatus[d] = "active" \/ archived[d])
    /\ ready \subseteq points

Rows == RunsAgree /\ PublishGate /\ ClaimHeld /\ ArchivedIsNotActive

CallsInv == \A c \in Docs : CallOK(c)
WorkersInv == \A w \in Executions : WorkerOK(w)
PipelineInv == TypeOK /\ CallsInv /\ WorkersInv /\ Rows

(***************************************************************************)
(* What every step keeps, whoever takes it.                                *)
(***************************************************************************)
Stable ==
    /\ \A d \in Docs : archived[d] => archived'[d]
    /\ points \subseteq points'
    /\ source \cap Structured \subseteq source'
    /\ \A r \in Runs : runStatus[r] # "absent" => runStatus'[r] # "absent"
    /\ \A d \in Structured : batch[d] \in {"rejected", "failed"} => batch'[d] \in {"rejected", "failed"}
    /\ \A d \in Structured : batch[d] = "applied" /\ docStatus[d] = "archived" =>
                         batch'[d] = "applied" /\ docStatus'[d] = "archived"

ServiceStep ==
    \A d \in Docs : docStatus[d] = "active" /\ ~archived[d] =>
                      docStatus'[d] = "active" \/ archived'[d]

(* The step leaves what the evidence call of d relies on.                  *)
KeepsUpload(d) ==
    /\ d \in source => d \in source'
    /\ runStatus[First(d)] = "absent" => runStatus'[First(d)] = "absent"

KeepsUploads == \A d \in Evidence : KeepsUpload(d)

RowStep == Rows' /\ Stable /\ ServiceStep

(* A call, or an execution, that does not move stays as it should be.      *)
LEMMA CallKept ==
    ASSUME NEW c \in Docs, CallOK(c), Stable, c \in Evidence => KeepsUpload(c),
           upc'[c] = upc[c], target'[c] = target[c]
    PROVE  CallOK(c)'
<1>1. CASE c \in Evidence
  BY <1>1, RunShape, PipelineAssumption DEF CallOK, Stable, KeepsUpload, Structured
<1>2. CASE c \notin Evidence
  BY <1>2, RunShape, PipelineAssumption DEF CallOK, Stable, Structured
<1>. QED  BY <1>1, <1>2

\* An execution that did not move keeps what it relies on while rows are stable.
LEMMA WorkerKept ==
    ASSUME NEW w \in Executions, WorkerOK(w), Stable, UNCHANGED <<pc[w], wrun[w], seen[w]>>
    PROVE  WorkerOK(w)'
BY RunShape DEF WorkerOK, Stable

(* A document in service, or one that was served, has its first run done.  *)
LEMMA ActiveIsDone ==
    ASSUME Rows, NEW d \in Docs, docStatus[d] = "active" \/ batch[d] = "applied"
    PROVE  runStatus[First(d)] = "succeeded"
BY RunShape DEF Rows, RunsAgree, PublishGate, Structured
(***************************************************************************)
(* The steps that write rows, one lemma for each.                          *)
(***************************************************************************)
RowTypes ==
    /\ docStatus \in [Docs -> DocStatus]
    /\ archived \in [Docs -> BOOLEAN]
    /\ batch \in [Docs -> BatchStatus]
    /\ claim \in [Windows -> Structured \cup {None}]
    /\ runStatus \in [Runs -> RunStatus]

(* Rows that are left alone, while objects or vectors are added.           *)
LEMMA RowsKept ==
    ASSUME Rows, UNCHANGED <<docStatus, archived, batch, claim, runStatus, ready>>,
           source \cap Structured \subseteq source', points \subseteq points'
    PROVE  RowStep
<1>1. RunsAgree'
  BY DEF Rows, RunsAgree, Structured
<1>2. PublishGate' /\ ClaimHeld' /\ ArchivedIsNotActive'
  BY DEF Rows, PublishGate, ClaimHeld, ArchivedIsNotActive
<1>3. Stable /\ ServiceStep
  BY DEF Stable, ServiceStep
<1>. QED  BY <1>1, <1>2, <1>3 DEF RowStep, Rows

(* reserveStructuredImport.                                                *)
LEMMA RowsReserved ==
    ASSUME RowTypes, Rows, NEW c \in Structured, Unique(c), ReserveRows(c),
           UNCHANGED <<archived, runStatus, ready, source, points>>
    PROVE  RowStep
<1>. USE DEF Structured
<1>0. c \in Docs /\ batch[c] = "absent" /\ docStatus[c] # "active"
  BY DEF Unique, SameKey, Rows, PublishGate, RowTypes
<1>1. RunsAgree'
  BY <1>0 DEF Rows, RunsAgree, ReserveRows, RowTypes
<1>2. PublishGate'
  BY <1>0 DEF Rows, PublishGate, ReserveRows, RowTypes
<1>3. ArchivedIsNotActive'
  BY <1>0 DEF Rows, ArchivedIsNotActive, ReserveRows, RowTypes
<1>4. ClaimHeld'
  <2>. SUFFICES ASSUME NEW d \in Structured, WindowOf[d] # None,
                       \/ batch'[d] \in {"pending", "validating", "applying"}
                       \/ batch'[d] = "applied" /\ docStatus'[d] # "archived"
                PROVE  claim'[WindowOf[d]] = d
    BY DEF ClaimHeld
  <2>1. WindowOf[d] \in Windows
    BY PipelineAssumption
  <2>2. CASE d = c
    BY <2>1, <2>2 DEF ReserveRows
  <2>3. CASE d # c
    <3>1. claim[WindowOf[d]] = d
      BY <2>3 DEF ReserveRows, Rows, ClaimHeld, RowTypes
    <3>2. WindowOf[d] # WindowOf[c]
      BY <3>1, PipelineAssumption DEF Unique, Holder
    <3>. QED  BY <2>1, <3>1, <3>2 DEF ReserveRows
  <2>. QED  BY <2>2, <2>3
<1>5. Stable /\ ServiceStep
  BY <1>0 DEF Stable, ServiceStep, ReserveRows, RowTypes
<1>. QED  BY <1>1, <1>2, <1>3, <1>4, <1>5 DEF RowStep, Rows

(* A claim is deleted for an import that does not need it any more.        *)
LEMMA RowsReleased ==
    ASSUME Rows, NEW v, NEW d \in Structured,
           \/ batch[d] \in {"rejected", "failed"}
           \/ batch[d] = "applied" /\ docStatus[d] = "archived",
           claim[v] = d, claim' = [claim EXCEPT ![v] = None],
           RowTypes, v \in Windows,
           UNCHANGED <<docStatus, archived, batch, runStatus, ready, source, points>>
    PROVE  RowStep
<1>1. RunsAgree' /\ PublishGate' /\ ArchivedIsNotActive'
  BY DEF Rows, RunsAgree, PublishGate, ArchivedIsNotActive
<1>2. ClaimHeld'
  BY PipelineAssumption DEF Rows, ClaimHeld, RowTypes, Structured
<1>3. Stable /\ ServiceStep
  BY DEF Stable, ServiceStep
<1>. QED  BY <1>1, <1>2, <1>3 DEF RowStep, Rows

(* The first run of a document is queued.                                  *)
LEMMA RowsQueued ==
    ASSUME RowTypes, Rows, NEW d \in Docs, runStatus[First(d)] = "absent",
           d \in Structured => d \in source,
           docStatus' = [docStatus EXCEPT ![d] = "pending_processing"],
           runStatus' = [runStatus EXCEPT ![First(d)] = "queued"],
           UNCHANGED <<archived, batch, claim, ready, source, points>>
    PROVE  RowStep /\ \A e \in Evidence \ {d} : KeepsUpload(e)
<1>0. docStatus[d] # "active" /\ batch[d] # "applied"
  BY ActiveIsDone
<1>1. RunsAgree'
  BY <1>0, RunShape, PipelineAssumption DEF Rows, RunsAgree, RowTypes, Structured
<1>2. PublishGate' /\ ArchivedIsNotActive'
  BY <1>0 DEF Rows, PublishGate, ArchivedIsNotActive, RowTypes, Structured
<1>3. ClaimHeld'
  BY <1>0 DEF Rows, ClaimHeld, RowTypes, Structured
<1>4. Stable /\ ServiceStep
  BY <1>0, RunShape DEF Stable, ServiceStep, RowTypes, Structured
<1>5. \A e \in Evidence \ {d} : KeepsUpload(e)
  BY RunShape, PipelineAssumption DEF KeepsUpload, RowTypes
<1>. QED  BY <1>1, <1>2, <1>3, <1>4, <1>5 DEF RowStep, Rows

(* Evidence in service is queued to be indexed again.                      *)
LEMMA RowsReindexed ==
    ASSUME RowTypes, Rows, NEW d \in Evidence, runStatus[Again(d)] = "absent", docStatus[d] = "active",
           runStatus' = [runStatus EXCEPT ![Again(d)] = "queued"],
           UNCHANGED <<docStatus, archived, batch, claim, ready, source, points>>
    PROVE  RowStep /\ KeepsUploads
<1>1. RunsAgree'
  BY RunShape, PipelineAssumption DEF Rows, RunsAgree, PublishGate, RowTypes, Structured
<1>2. PublishGate' /\ ArchivedIsNotActive' /\ ClaimHeld'
  BY DEF Rows, PublishGate, ArchivedIsNotActive, ClaimHeld
<1>3. Stable /\ ServiceStep /\ KeepsUploads
  BY RunShape, PipelineAssumption DEF Stable, ServiceStep, KeepsUploads, KeepsUpload, RowTypes, Structured
<1>. QED  BY <1>1, <1>2, <1>3 DEF RowStep, Rows

(* archiveDocument.                                                        *)
LEMMA RowsArchived ==
    ASSUME RowTypes, Rows, NEW d \in Docs,
           docStatus' = [docStatus EXCEPT ![d] = "archived"],
           archived' = [archived EXCEPT ![d] = TRUE],
           UNCHANGED <<batch, claim, runStatus, ready, source, points>>
    PROVE  RowStep
<1>1. RunsAgree'
  BY PipelineAssumption DEF Rows, RunsAgree, RowTypes
<1>2. PublishGate' /\ ArchivedIsNotActive' /\ ClaimHeld'
  BY DEF Rows, PublishGate, ArchivedIsNotActive, ClaimHeld, RowTypes, Structured
<1>3. Stable /\ ServiceStep
  BY DEF Stable, ServiceStep, RowTypes, Structured
<1>. QED  BY <1>1, <1>2, <1>3 DEF RowStep, Rows
(* A run that is not over is of a document that is out of service, unless  *)
(* it reindexes one in service or that was archived.                       *)
LEMMA OpenRuns ==
    ASSUME Rows, NEW r \in Runs, runStatus[r] \in {"queued", "retry_scheduled", "running"}
    PROVE  /\ r \notin ready
           /\ batch[DocOf(r)] # "applied"
           /\ batch[DocOf(r)] \notin {"failed", "rejected"}
           /\ IsReindex(r) => /\ First(DocOf(r)) \in ready
                              /\ docStatus[DocOf(r)] = "active" \/ archived[DocOf(r)]
           /\ ~IsReindex(r) => r = First(DocOf(r)) /\ docStatus[DocOf(r)] # "active"
           /\ DocOf(r) \in Structured => DocOf(r) \in source
<1>1. CASE IsReindex(r)
  BY <1>1, RunShape DEF Rows, RunsAgree, Structured
<1>2. CASE ~IsReindex(r)
  <2>1. r = First(DocOf(r)) /\ DocOf(r) \in Docs
    BY <1>2, RunShape
  <2>2. docStatus[DocOf(r)] # "active" /\ batch[DocOf(r)] # "applied"
    BY <2>1, ActiveIsDone
  <2>. QED  BY <1>2, <2>1, <2>2 DEF Rows, RunsAgree, Structured
<1>. QED  BY <1>1, <1>2

(* What an execution that holds the lease of run r may do to its document, *)
(* short of publishing it: it leaves a reindexed document in service, and  *)
(* closes the batch only together with the run.                            *)
LEMMA RowsWorked ==
    ASSUME RowTypes, Rows, NEW r \in Runs, NEW doc \in DocStatus, NEW import \in BatchStatus,
           NEW run \in RunStatus \ {"absent"},
           runStatus[r] \in {"queued", "retry_scheduled", "running"},
           docStatus' = [docStatus EXCEPT ![DocOf(r)] = doc],
           batch' = [batch EXCEPT ![DocOf(r)] = import],
           runStatus' = [runStatus EXCEPT ![r] = run],
           doc = "active" => docStatus[DocOf(r)] = "active",
           IsReindex(r) => doc = docStatus[DocOf(r)] \/ archived[DocOf(r)],
           DocOf(r) \in Evidence => import = batch[DocOf(r)],
           DocOf(r) \in Structured =>
             /\ import \in {"failed", "rejected"} => run = "failed"
             /\ import # "applied"
             /\ import \in {"pending", "validating", "applying"} =>
                  batch[DocOf(r)] \in {"pending", "validating", "applying"},
           UNCHANGED <<archived, claim, ready, source, points>>
    PROVE  RowStep /\ KeepsUploads
<1>. DEFINE d == DocOf(r)
<1>0. d \in Docs /\ (d \notin Evidence => r = First(d))
  BY RunShape
<1>. HIDE DEF d
<1>1. RunsAgree'
  <2>1. ASSUME NEW e \in Evidence
        PROVE  batch'[e] = "absent"
    BY <1>0 DEF Rows, RunsAgree, RowTypes, d
  <2>2. ASSUME NEW e \in Structured
        PROVE  /\ batch'[e] = "applied" => runStatus'[First(e)] = "succeeded"
               /\ batch'[e] \in {"failed", "rejected"} => runStatus'[First(e)] = "failed"
               /\ runStatus'[First(e)] # "absent" => e \in source'
    <3>1. CASE e = d
      BY <1>0, <3>1, OpenRuns, RunShape DEF RowTypes, Structured, d
    <3>2. CASE e # d
      <4>1. First(e) # r
        BY <3>2, RunShape DEF Structured, d
      <4>. QED  BY <3>2, <4>1, RunShape DEF Rows, RunsAgree, RowTypes, Structured, d
    <3>. QED  BY <3>1, <3>2
  <2>3. ASSUME NEW q \in ready
        PROVE  runStatus'[q] = "succeeded"
    BY OpenRuns DEF Rows, RunsAgree, RowTypes
  <2>4. ASSUME NEW e \in Evidence, runStatus'[Again(e)] # "absent"
        PROVE  First(e) \in ready /\ (docStatus'[e] = "active" \/ archived[e])
    <3>1. CASE e = d
      BY <1>0, <2>4, <3>1, OpenRuns, RunShape DEF Rows, RunsAgree, RowTypes, d
    <3>2. CASE e # d
      <4>1. Again(e) # r
        BY <3>2, RunShape DEF d
      <4>. QED  BY <2>4, <3>2, <4>1, RunShape, PipelineAssumption DEF Rows, RunsAgree, RowTypes, d
    <3>. QED  BY <3>1, <3>2
  <2>. QED  BY <2>1, <2>2, <2>3, <2>4 DEF Rows, RunsAgree
<1>2. PublishGate'
  <2>. SUFFICES ASSUME NEW e \in Docs
                PROVE  /\ docStatus'[e] = "active" /\ e \in Structured => batch'[e] = "applied"
                       /\ docStatus'[e] = "active" /\ e \in Evidence => First(e) \in ready /\ ready \subseteq points
                       /\ batch'[e] = "applied" => docStatus'[e] = "active" \/ archived[e]
    BY DEF PublishGate
  <2>1. CASE e = d
    BY <1>0, <2>1, OpenRuns DEF Rows, PublishGate, RunsAgree, RowTypes, Structured, d
  <2>2. CASE e # d
    BY <2>2 DEF Rows, PublishGate, RowTypes, d
  <2>. QED  BY <2>1, <2>2
<1>3. ArchivedIsNotActive'
  BY DEF Rows, ArchivedIsNotActive, RowTypes, Structured
<1>4. ClaimHeld'
  BY <1>0, OpenRuns DEF Rows, ClaimHeld, RowTypes, BatchStatus, OpenBatch, Structured, d
<1>5. Stable
  BY <1>0, OpenRuns DEF Stable, RowTypes, Structured, d
<1>6. ServiceStep
  BY <1>0, OpenRuns DEF ServiceStep, RowTypes, d
<1>7. KeepsUploads
  BY RunShape, PipelineAssumption DEF KeepsUploads, KeepsUpload, RowTypes
<1>. QED  BY <1>1, <1>2, <1>3, <1>4, <1>5, <1>6, <1>7 DEF RowStep, Rows

(* completeEvidenceIndexing.                                               *)
LEMMA RowsIndexed ==
    ASSUME RowTypes, Rows, NEW r \in Runs, DocOf(r) \in Evidence, r \in points,
           runStatus[r] = "running",
           docStatus' = [docStatus EXCEPT ![DocOf(r)] = "active"],
           runStatus' = [runStatus EXCEPT ![r] = "succeeded"],
           ready' = ready \cup {r},
           UNCHANGED <<archived, batch, claim, source, points>>
    PROVE  RowStep /\ KeepsUploads
<1>. DEFINE d == DocOf(r)
<1>0. d \in Docs /\ d \in Evidence /\ (r = First(d) \/ First(d) \in ready)
  BY OpenRuns, RunShape
<1>. HIDE DEF d
<1>1. RunsAgree'
  BY <1>0, RunShape, PipelineAssumption DEF Rows, RunsAgree, RowTypes, Structured, d
<1>2. PublishGate'
  BY <1>0 DEF Rows, PublishGate, RunsAgree, RowTypes, Structured, d
<1>3. ArchivedIsNotActive' /\ ClaimHeld'
  BY <1>0 DEF Rows, ArchivedIsNotActive, ClaimHeld, RowTypes, Structured, d
<1>4. Stable /\ ServiceStep /\ KeepsUploads
  BY <1>0, RunShape, PipelineAssumption
     DEF Stable, ServiceStep, KeepsUploads, KeepsUpload, RowTypes, Structured, d
<1>. QED  BY <1>1, <1>2, <1>3, <1>4 DEF RowStep, Rows

(* completeStructuredImport.                                               *)
LEMMA RowsApplied ==
    ASSUME RowTypes, Rows, NEW r \in Runs, DocOf(r) \in Structured,
           runStatus[r] = "running", batch[DocOf(r)] = "applying", ~archived[DocOf(r)],
           docStatus' = [docStatus EXCEPT ![DocOf(r)] = "active"],
           batch' = [batch EXCEPT ![DocOf(r)] = "applied"],
           runStatus' = [runStatus EXCEPT ![r] = "succeeded"],
           UNCHANGED <<archived, claim, ready, source, points>>
    PROVE  RowStep /\ KeepsUploads
<1>. DEFINE d == DocOf(r)
<1>0. d \in Docs /\ d \in Structured /\ r = First(d) /\ r \notin ready
  BY OpenRuns, RunShape DEF Structured
<1>. HIDE DEF d
<1>1. RunsAgree'
  BY <1>0, RunShape, PipelineAssumption DEF Rows, RunsAgree, RowTypes, Structured, d
<1>2. PublishGate'
  BY <1>0 DEF Rows, PublishGate, RunsAgree, RowTypes, Structured, d
<1>3. ArchivedIsNotActive' /\ ClaimHeld'
  BY <1>0 DEF Rows, ArchivedIsNotActive, ClaimHeld, RowTypes, Structured, d
<1>4. Stable /\ ServiceStep /\ KeepsUploads
  BY <1>0, RunShape, PipelineAssumption
     DEF Stable, ServiceStep, KeepsUploads, KeepsUpload, RowTypes, Structured, d
<1>. QED  BY <1>1, <1>2, <1>3, <1>4 DEF RowStep, Rows
(***************************************************************************)
(* Types, in parts, and what moving a call or an execution on keeps.       *)
(***************************************************************************)
LeaseTypes == attempt \in [Runs -> Nat] /\ live \in [Runs -> BOOLEAN] /\ due \in [Runs -> BOOLEAN]

StoreTypes == source \subseteq Docs /\ points \subseteq Runs /\ ready \subseteq Runs

CallTypes ==
    /\ upc \in [Docs -> CallSteps]
    /\ target \in [Docs -> Docs \cup {None}]
    /\ again \in [Docs -> BOOLEAN]

Seen == [run : RunStatus, active : BOOLEAN]

WorkerTypes ==
    /\ pc \in [Executions -> Steps]
    /\ wrun \in [Executions -> Runs \cup {NoRun}]
    /\ watt \in [Executions -> Nat]
    /\ seen \in [Executions -> Seen]
    /\ fresh \in [Executions -> BOOLEAN]
    /\ retry \in [Executions -> BOOLEAN]

FaultType == faults \in 0..MaxFaults

\* The type invariant by groups of variables, now and in the next state.
LEMMA TypeParts ==
    TypeOK <=> RowTypes /\ LeaseTypes /\ StoreTypes /\ CallTypes /\ WorkerTypes /\ FaultType
BY DEF TypeOK, RowTypes, LeaseTypes, StoreTypes, CallTypes, WorkerTypes, FaultType, Seen

LEMMA TypePartsNext ==
    TypeOK' <=> RowTypes' /\ LeaseTypes' /\ StoreTypes' /\ CallTypes' /\ WorkerTypes' /\ FaultType'
BY DEF TypeOK, RowTypes, LeaseTypes, StoreTypes, CallTypes, WorkerTypes, FaultType, Seen

\* Faults are counted.
LEMMA FaultCounted ==
    ASSUME FaultType, NEW kinds, Fault(kinds)
    PROVE  FaultType'
BY PipelineAssumption DEF FaultType, Fault

(* The calls, or the executions, that do not move.                         *)
LEMMA CallsKept ==
    ASSUME CallTypes, CallsInv, Stable, KeepsUploads, UNCHANGED callVars
    PROVE  CallTypes' /\ CallsInv'
<1>1. CallTypes'
  BY DEF CallTypes, callVars
<1>2. ASSUME NEW c \in Docs
      PROVE  CallOK(c)'
  <2>1. CallOK(c) /\ (c \in Evidence => KeepsUpload(c)) /\ upc'[c] = upc[c] /\ target'[c] = target[c]
    BY DEF CallsInv, KeepsUploads, callVars
  <2>. QED  BY <2>1, CallKept
<1>. QED  BY <1>1, <1>2 DEF CallsInv

\* All executions, if none moved.
LEMMA WorkersKept ==
    ASSUME WorkerTypes, WorkersInv, Stable, UNCHANGED workerVars
    PROVE  WorkerTypes' /\ WorkersInv'
<1>1. WorkerTypes'
  BY DEF WorkerTypes, workerVars
<1>2. ASSUME NEW w \in Executions
      PROVE  WorkerOK(w)'
  <2>1. WorkerOK(w) /\ UNCHANGED <<pc[w], wrun[w], seen[w]>>
    BY DEF WorkersInv, workerVars
  <2>. QED  BY <2>1, WorkerKept
<1>. QED  BY <1>1, <1>2 DEF WorkersInv

\* One call moves on, the others stay.
LEMMA CallMoved ==
    ASSUME CallTypes, CallsInv, Stable, NEW c \in Docs, NEW step \in CallSteps,
           NEW d \in Docs \cup {None}, NEW raced \in BOOLEAN, CallAt(c, step, d, raced),
           \A e \in Evidence \ {c} : KeepsUpload(e),
           upc'[c] = step /\ target'[c] = d => CallOK(c)'
    PROVE  CallTypes' /\ CallsInv'
<1>1. CallTypes' /\ upc'[c] = step /\ target'[c] = d
  BY DEF CallTypes, CallAt
<1>2. ASSUME NEW e \in Docs \ {c}
      PROVE  CallOK(e)'
  <2>1. CallOK(e) /\ (e \in Evidence => KeepsUpload(e)) /\ upc'[e] = upc[e] /\ target'[e] = target[e]
    BY DEF CallsInv, CallTypes, CallAt
  <2>. QED  BY <2>1, CallKept
<1>. QED  BY <1>1, <1>2 DEF CallsInv

\* One execution moves on, the others stay.
LEMMA WorkerMoved ==
    ASSUME WorkerTypes, WorkersInv, LeaseTypes, Stable, NEW w \in Executions,
           NEW r \in Runs \cup {NoRun}, NEW n \in Nat, NEW step \in Steps, NEW saw \in Seen,
           NEW willRetry \in BOOLEAN, WorkerAt(w, r, n, step, saw, willRetry),
           step \in Fenced => r \in Runs,
           pc'[w] = step /\ wrun'[w] = r /\ seen'[w] = saw => WorkerOK(w)'
    PROVE  WorkerTypes' /\ WorkersInv'
<1>0. (step \in Fenced /\ live[r]) \in BOOLEAN
  BY DEF LeaseTypes
<1>1. WorkerTypes'
  BY <1>0 DEF WorkerTypes, WorkerAt
<1>2. pc'[w] = step /\ wrun'[w] = r /\ seen'[w] = saw
  BY DEF WorkerTypes, WorkerAt
<1>3. ASSUME NEW v \in Executions \ {w}
      PROVE  WorkerOK(v)'
  <2>1. WorkerOK(v) /\ UNCHANGED <<pc[v], wrun[v], seen[v]>>
    BY DEF WorkersInv, WorkerTypes, WorkerAt
  <2>. QED  BY <2>1, WorkerKept
<1>. QED  BY <1>1, <1>2, <1>3 DEF WorkersInv

(* An execution gives up, or goes on to report an error.                   *)
LEMMA WorkerReturns ==
    ASSUME WorkerTypes, WorkersInv, LeaseTypes, Stable, NEW w \in Executions, Return(w)
    PROVE  WorkerTypes' /\ WorkersInv'
<1>1. Nothing \in Seen /\ "idle" \in Steps
  BY DEF Nothing, Seen, RunStatus, Steps
<1>2. "idle" \notin Fenced
  BY DEF Fenced
<1>3. pc'[w] = "idle" /\ wrun'[w] = NoRun /\ seen'[w] = Nothing => WorkerOK(w)'
  BY DEF WorkerOK
<1>. QED  BY <1>1, <1>2, <1>3, WorkerMoved DEF Return

\* An execution gives its run up.
LEMMA WorkerFails ==
    ASSUME WorkerTypes, WorkersInv, LeaseTypes, Stable, NEW w \in Executions,
           NEW retryable \in BOOLEAN, GoFail(w, retryable), pc[w] # "idle"
    PROVE  WorkerTypes' /\ WorkersInv'
<1>1. Nothing \in Seen /\ "fail" \in Steps
  BY DEF Nothing, Seen, RunStatus, Steps
<1>2. wrun[w] \in Runs /\ watt[w] \in Nat /\ (retryable /\ watt[w] < MaxAttempts) \in BOOLEAN
  BY DEF WorkersInv, WorkerOK, WorkerTypes
<1>3. pc'[w] = "fail" /\ wrun'[w] = wrun[w] /\ seen'[w] = Nothing => WorkerOK(w)'
  BY <1>2 DEF WorkerOK
<1>. QED  BY <1>1, <1>2, <1>3, WorkerMoved DEF GoFail
(***************************************************************************)
(* The upload calls.                                                       *)
(***************************************************************************)
Kept == PipelineInv' /\ ServiceStep

\* What a step has to show for the rows, the calls and the executions.
LEMMA KeptBy ==
    ASSUME RowStep, CallTypes', CallsInv', WorkerTypes', WorkersInv', RowTypes', LeaseTypes',
           StoreTypes', FaultType'
    PROVE  Kept
BY TypePartsNext DEF Kept, PipelineInv, RowStep

(* A step of a call that reads rows only.                                  *)
LEMMA CallReads ==
    ASSUME PipelineInv, NEW c \in Docs, NEW step \in CallSteps, NEW d \in Docs \cup {None},
           CallAt(c, step, d, again[c]), upc'[c] = step /\ target'[c] = d => CallOK(c)',
           UNCHANGED <<dbVars, source, points, workerVars>>, FaultType'
    PROVE  Kept
<1>0. RowTypes /\ LeaseTypes /\ StoreTypes /\ CallTypes /\ WorkerTypes /\ CallsInv /\ WorkersInv /\ Rows
  BY TypeParts DEF PipelineInv
<1>1. RowStep
  BY <1>0, RowsKept DEF dbVars, docVars, batchVars, runVars
<1>2. RowTypes' /\ LeaseTypes' /\ StoreTypes'
  BY <1>0 DEF RowTypes, LeaseTypes, StoreTypes, dbVars, docVars, batchVars, runVars
<1>3. \A e \in Evidence \ {c} : KeepsUpload(e)
  BY DEF KeepsUpload, dbVars, runVars
<1>4. CallTypes' /\ CallsInv'
  BY <1>0, <1>1, <1>3, CallMoved DEF RowStep, CallTypes
<1>5. WorkerTypes' /\ WorkersInv'
  BY <1>0, <1>1, WorkersKept DEF RowStep
<1>. QED  BY <1>1, <1>2, <1>4, <1>5, KeptBy

(* Joining the batch of another call, and finding none.                    *)
LEMMA CallJoins ==
    ASSUME PipelineInv, NEW c \in Structured, NEW d \in Structured, JoinExisting(c, d),
           UNCHANGED <<dbVars, source, points, workerVars, faults>>
    PROVE  Kept
<1>1. PICK step \in {"refused", "answered", "put"} :
         /\ CallAt(c, step, d, again[c])
         /\ step = "answered" => runStatus[First(d)] # "absent"
  BY DEF JoinExisting
<1>2. step = "answered" => d \in source
  BY <1>1 DEF PipelineInv, Rows, RunsAgree
<1>3. upc'[c] = step /\ target'[c] = d => CallOK(c)'
  BY <1>1, <1>2 DEF CallOK, Structured, dbVars, runVars
<1>4. c \in Docs /\ d \in Docs \cup {None} /\ step \in CallSteps /\ FaultType'
  BY TypeParts DEF Structured, CallSteps, PipelineInv, FaultType
<1>. QED  BY <1>1, <1>3, <1>4, CallReads

\* A call that finds no earlier request goes on to the next lookup.
LEMMA CallFindsNothing ==
    ASSUME PipelineInv, NEW c \in Structured, NothingExists(c),
           UNCHANGED <<dbVars, source, points, workerVars, faults>>
    PROVE  Kept
<1>1. PICK step \in {"refused", "reserve"} : CallAt(c, step, None, again[c])
  BY DEF NothingExists
<1>2. upc'[c] = step /\ target'[c] = None => CallOK(c)'
  BY <1>1 DEF CallOK, Structured
<1>3. c \in Docs /\ step \in CallSteps /\ FaultType'
  BY TypeParts DEF Structured, CallSteps, PipelineInv, FaultType
<1>. QED  BY <1>1, <1>2, <1>3, CallReads

LEMMA KeyStep ==
    ASSUME PipelineInv, NEW c \in Docs, ResolveKey(c)
    PROVE  Kept
<1>0. c \in Structured
  BY DEF ResolveKey, PipelineInv, CallsInv, CallOK
<1>1. ASSUME NEW d \in SameKey(c), JoinExisting(c, d)
      PROVE  Kept
  BY <1>0, <1>1, CallJoins DEF SameKey, ResolveKey
<1>2. CASE CallAt(c, "claim", None, again[c])
  <2>1. upc'[c] = "claim" /\ target'[c] = None => CallOK(c)'
    BY <1>0 DEF CallOK, Structured
  <2>2. "claim" \in CallSteps /\ FaultType'
    BY TypeParts DEF CallSteps, ResolveKey, PipelineInv, FaultType
  <2>. QED  BY <1>2, <2>1, <2>2, CallReads DEF ResolveKey
<1>. QED  BY <1>1, <1>2 DEF ResolveKey

LEMMA ClaimStep ==
    ASSUME PipelineInv, NEW c \in Docs, ResolveClaim(c)
    PROVE  Kept
<1>0. c \in Structured
  BY DEF ResolveClaim, PipelineInv, CallsInv, CallOK
<1>1. ASSUME NEW d \in SameReceipt(c), JoinExisting(c, d)
      PROVE  Kept
  BY <1>0, <1>1, CallJoins DEF SameReceipt, ResolveClaim
<1>2. CASE NothingExists(c)
  BY <1>0, <1>2, CallFindsNothing DEF ResolveClaim
<1>3. ASSUME NEW step \in {"releaseAny", "release", "refused"}, Holder(c) # None,
             CallAt(c, step, Holder(c), again[c]),
             step = "releaseAny" => batch[Holder(c)] = "applied" /\ docStatus[Holder(c)] = "archived",
             step = "release" => batch[Holder(c)] \in {"rejected", "failed"}
      PROVE  Kept
  <2>1. Holder(c) \in Structured
    BY <1>0, <1>3, TypeParts, PipelineAssumption DEF Holder, PipelineInv, RowTypes, Structured
  <2>2. upc'[c] = step /\ target'[c] = Holder(c) => CallOK(c)'
    BY <1>0, <1>3, <2>1
       DEF CallOK, Structured, ResolveClaim, dbVars, docVars, batchVars, runVars
  <2>3. Holder(c) \in Docs \cup {None} /\ step \in CallSteps /\ FaultType'
    BY <1>3, <2>1, TypeParts DEF CallSteps, ResolveClaim, PipelineInv, FaultType, Structured
  <2>. QED  BY <1>3, <2>2, <2>3, CallReads DEF ResolveClaim
<1>. QED  BY <1>1, <1>2, <1>3 DEF ResolveClaim

LEMMA DiesStep ==
    ASSUME PipelineInv, NEW c \in Docs, CallDies(c)
    PROVE  Kept
<1>1. target[c] \in Docs \cup {None} /\ "refused" \in CallSteps /\ FaultType'
  BY TypeParts, FaultCounted DEF CallTypes, CallSteps, CallDies, PipelineInv
<1>2. upc'[c] = "refused" /\ target'[c] = target[c] => CallOK(c)'
  BY DEF CallOK, PipelineInv, CallsInv
<1>. QED  BY <1>1, <1>2, CallReads DEF CallDies

LEMMA ReleaseStep ==
    ASSUME PipelineInv, NEW c \in Docs, ReleaseClaim(c)
    PROVE  Kept
<1>. DEFINE d == target[c]
<1>0. /\ c \in Structured /\ d \in Structured
      /\ \/ batch[d] \in {"rejected", "failed"}
         \/ batch[d] = "applied" /\ docStatus[d] = "archived"
  BY PipelineAssumption DEF ReleaseClaim, PipelineInv, CallsInv, CallOK, Structured
<1>t. RowTypes /\ LeaseTypes /\ StoreTypes /\ CallTypes /\ WorkerTypes /\ FaultType
  BY TypeParts DEF PipelineInv
<1>1. CASE Holder(c) = d /\ claim' = [claim EXCEPT ![WindowOf[c]] = None] /\ NothingExists(c)
  <2>1. WindowOf[c] \in Windows /\ claim[WindowOf[c]] = d
    BY <1>0, <1>1, PipelineAssumption DEF Holder, Structured
  <2>2. RowStep
    BY <1>0, <1>1, <1>t, <2>1, RowsReleased DEF ReleaseClaim, docVars, runVars, PipelineInv
  <2>3. RowTypes' /\ LeaseTypes' /\ StoreTypes' /\ FaultType'
    BY <1>1, <1>t, <2>1 DEF ReleaseClaim, RowTypes, LeaseTypes, StoreTypes, FaultType, docVars, runVars
  <2>4. \A e \in Evidence \ {c} : KeepsUpload(e)
    BY DEF KeepsUpload, ReleaseClaim, runVars
  <2>5. PICK step \in {"refused", "reserve"} : CallAt(c, step, None, again[c])
    BY <1>1 DEF NothingExists
  <2>6. upc'[c] = step /\ target'[c] = None => CallOK(c)'
    BY <1>0 DEF CallOK, Structured
  <2>7. CallTypes' /\ CallsInv'
    BY <1>t, <2>2, <2>4, <2>5, <2>6, CallMoved DEF RowStep, CallTypes, CallSteps, PipelineInv
  <2>8. WorkerTypes' /\ WorkersInv'
    BY <1>t, <2>2, WorkersKept DEF RowStep, ReleaseClaim, PipelineInv
  <2>. QED  BY <2>2, <2>3, <2>7, <2>8, KeptBy
<1>2. CASE UNCHANGED claim /\ \E step \in {"refused", "reserve"} : CallAt(c, step, None, again[c])
  <2>1. PICK step \in {"refused", "reserve"} : CallAt(c, step, None, again[c])
    BY <1>2
  <2>2. upc'[c] = step /\ target'[c] = None => CallOK(c)'
    BY <1>0 DEF CallOK, Structured
  <2>3. step \in CallSteps /\ FaultType' /\ UNCHANGED <<dbVars, source, points, workerVars>>
    BY <1>2, <1>t DEF CallSteps, ReleaseClaim, FaultType, dbVars, batchVars
  <2>. QED  BY <2>1, <2>2, <2>3, CallReads
<1>. QED  BY <1>1, <1>2 DEF ReleaseClaim, NothingExists
(* A step of a call that writes rows or objects.                           *)
LEMMA CallWrites ==
    ASSUME PipelineInv, RowStep, NEW c \in Docs, NEW step \in CallSteps, NEW d \in Docs \cup {None},
           NEW raced \in BOOLEAN, CallAt(c, step, d, raced), \A e \in Evidence \ {c} : KeepsUpload(e),
           upc'[c] = step /\ target'[c] = d => CallOK(c)',
           RowTypes', LeaseTypes', StoreTypes', FaultType', UNCHANGED workerVars
    PROVE  Kept
<1>1. CallTypes' /\ CallsInv'
  BY TypeParts, CallMoved DEF RowStep, PipelineInv
<1>2. WorkerTypes' /\ WorkersInv'
  BY TypeParts, WorkersKept DEF RowStep, PipelineInv
<1>. QED  BY <1>1, <1>2, KeptBy

LEMMA ReserveStep ==
    ASSUME PipelineInv, NEW c \in Docs, Reserve(c)
    PROVE  Kept
<1>0. c \in Structured
  BY DEF Reserve, PipelineInv, CallsInv, CallOK
<1>t. RowTypes /\ LeaseTypes /\ StoreTypes /\ FaultType /\ Rows
  BY TypeParts DEF PipelineInv
<1>1. LeaseTypes' /\ StoreTypes' /\ FaultType' /\ UNCHANGED workerVars
  <2>1. FaultType'
    BY <1>t, FaultCounted DEF Reserve, FaultType
  <2>. QED  BY <1>t, <2>1 DEF Reserve, LeaseTypes, StoreTypes, runVars
<1>2. PICK step \in {"put", "key"}, d \in {c, None}, raced \in BOOLEAN :
         CallAt(c, step, d, raced) /\ (step = "put" => d = c)
  BY DEF Reserve
<1>3. upc'[c] = step /\ target'[c] = d => CallOK(c)'
  BY <1>0, <1>2 DEF CallOK, Structured
<1>4. \A e \in Evidence \ {c} : KeepsUpload(e)
  BY DEF KeepsUpload, Reserve, runVars
<1>5. CASE Unique(c) /\ ReserveRows(c)
  <2>1. RowStep
    BY <1>0, <1>5, <1>t, RowsReserved DEF Reserve, runVars
  <2>2. RowTypes'
    BY <1>0, <1>5, <1>t DEF Reserve, runVars, RowTypes, ReserveRows, DocStatus, BatchStatus, OpenBatch
  <2>. QED  BY <1>1, <1>2, <1>3, <1>4, <2>1, <2>2, CallWrites DEF CallSteps
<1>6. CASE UNCHANGED <<docStatus, batchVars>>
  <2>1. RowStep
    BY <1>6, <1>t, RowsKept DEF Reserve, runVars, batchVars
  <2>2. RowTypes'
    BY <1>6, <1>t DEF Reserve, runVars, batchVars, RowTypes
  <2>. QED  BY <1>1, <1>2, <1>3, <1>4, <2>1, <2>2, CallWrites DEF CallSteps
<1>. QED  BY <1>5, <1>6 DEF Reserve

LEMMA PutStep ==
    ASSUME PipelineInv, NEW c \in Docs, PutObject(c)
    PROVE  Kept
<1>t. RowTypes /\ LeaseTypes /\ StoreTypes /\ CallTypes /\ FaultType /\ Rows
  BY TypeParts DEF PipelineInv
<1>0. target[c] \in Docs /\ again[c] \in BOOLEAN
  BY <1>t DEF PutObject, PipelineInv, CallsInv, CallOK, CallTypes
<1>1. /\ source \subseteq source' /\ source' \subseteq source \cup {target[c]}
      /\ UNCHANGED <<docStatus, archived, batch, claim, runStatus, attempt, live, due, ready, points>>
      /\ UNCHANGED workerVars
  BY DEF PutObject, dbVars, docVars, batchVars, runVars
<1>2. RowStep
  BY <1>1, <1>t, RowsKept
<1>3. RowTypes' /\ LeaseTypes' /\ StoreTypes'
  BY <1>0, <1>1, <1>t DEF RowTypes, LeaseTypes, StoreTypes
<1>4. FaultType'
  BY <1>t, FaultCounted DEF PutObject, FaultType
<1>5. \A e \in Evidence \ {c} : KeepsUpload(e)
  BY <1>1 DEF KeepsUpload
<1>6. PICK step \in {"create", "enqueue", "refused"} :
         /\ CallAt(c, step, target[c], again[c])
         /\ step = "create" => c \in Evidence
         /\ step = "enqueue" => c \notin Evidence
         /\ step # "refused" => target[c] \in source'
  BY DEF PutObject
<1>7. upc'[c] = step /\ target'[c] = target[c] => CallOK(c)'
  BY <1>0, <1>1, <1>6 DEF CallOK, Structured, PipelineInv, CallsInv, PutObject
<1>. QED  BY <1>0, <1>1, <1>2, <1>3, <1>4, <1>5, <1>6, <1>7, CallWrites DEF CallSteps

LEMMA EnqueueStep ==
    ASSUME PipelineInv, NEW c \in Docs, Enqueue(c)
    PROVE  Kept
<1>. DEFINE d == target[c]
<1>t. RowTypes /\ LeaseTypes /\ StoreTypes /\ CallTypes /\ WorkerTypes /\ FaultType /\ Rows
  BY TypeParts DEF PipelineInv
<1>0. c \in Structured /\ d \in Structured /\ d \in Docs /\ d \in source /\ again[c] \in BOOLEAN
  BY <1>t, PipelineAssumption DEF Enqueue, PipelineInv, CallsInv, CallOK, CallTypes, Structured
<1>1. FaultType'
  BY <1>t, FaultCounted DEF Enqueue, FaultType
<1>2. /\ UNCHANGED <<archived, batch, claim, live, due, ready, source, points>>
      /\ UNCHANGED workerVars
  BY DEF Enqueue, batchVars
<1>. DEFINE Written == RowStep /\ RowTypes' /\ LeaseTypes' /\ StoreTypes' /\ KeepsUploads
<1>3. ASSUME runStatus[First(d)] = "absent", QueueRun(First(d), 0),
             docStatus' = [docStatus EXCEPT ![d] = "pending_processing"]
      PROVE  Written /\ runStatus'[First(d)] # "absent"
  <2>1. RowStep /\ KeepsUploads
    BY <1>0, <1>2, <1>3, <1>t, RowsQueued DEF QueueRun, KeepsUploads, Structured
  <2>2. RowTypes' /\ runStatus'[First(d)] # "absent"
    BY <1>0, <1>2, <1>3, <1>t, RunShape DEF QueueRun, RowTypes, DocStatus, RunStatus
  <2>3. LeaseTypes' /\ StoreTypes'
    BY <1>2, <1>3, <1>t DEF QueueRun, LeaseTypes, StoreTypes
  <2>. QED  BY <2>1, <2>2, <2>3
<1>4. ASSUME UNCHANGED <<docStatus, runStatus, attempt>>
      PROVE  Written
  <2>1. RowStep
    BY <1>2, <1>4, <1>t, RowsKept
  <2>2. RowTypes' /\ LeaseTypes' /\ StoreTypes' /\ KeepsUploads
    BY <1>2, <1>4, <1>t DEF RowTypes, LeaseTypes, StoreTypes, KeepsUploads, KeepsUpload
  <2>. QED  BY <2>1, <2>2
<1>5. CASE CallAt(c, "answered", d, again[c])
  <2>1. Written /\ runStatus'[First(d)] # "absent"
    <3>1. CASE UNCHANGED <<docStatus, runStatus, attempt>> /\ runStatus[First(d)] # "absent"
      BY <1>4, <3>1
    <3>2. CASE /\ runStatus[First(d)] = "absent" /\ QueueRun(First(d), 0)
               /\ docStatus' = [docStatus EXCEPT ![d] = "pending_processing"]
      BY <1>3, <3>2
    <3>3. CASE UNCHANGED callVars
      <4>1. upc'[c] = "answered" /\ upc[c] = "enqueue" /\ upc' = upc
        BY <1>5, <1>t, <3>3 DEF CallAt, CallTypes, callVars, Enqueue
      <4>. QED  BY <4>1
    <3>. QED  BY <3>1, <3>2, <3>3 DEF Enqueue
  <2>2. upc'[c] = "answered" /\ target'[c] = d => CallOK(c)'
    BY <1>0, <1>2, <2>1 DEF CallOK, Structured
  <2>3. \A e \in Evidence \ {c} : KeepsUpload(e)
    BY <2>1 DEF KeepsUploads
  <2>. QED  BY <1>0, <1>1, <1>2, <1>5, <2>1, <2>2, <2>3, CallWrites DEF CallSteps
<1>6. CASE UNCHANGED callVars
  <2>1. Written
    BY <1>3, <1>4 DEF Enqueue
  <2>2. CallTypes' /\ CallsInv' /\ WorkerTypes' /\ WorkersInv'
    BY <1>2, <1>6, <1>t, <2>1, CallsKept, WorkersKept DEF RowStep, PipelineInv
  <2>. QED  BY <1>1, <2>1, <2>2, KeptBy
<1>. QED  BY <1>5, <1>6 DEF Enqueue

LEMMA CreateStep ==
    ASSUME PipelineInv, NEW c \in Docs, CreateEvidence(c)
    PROVE  Kept
<1>t. RowTypes /\ LeaseTypes /\ StoreTypes /\ CallTypes /\ FaultType /\ Rows
  BY TypeParts DEF PipelineInv
<1>0. /\ c \in Evidence /\ c \in source /\ runStatus[First(c)] = "absent" /\ again[c] \in BOOLEAN
  BY <1>t DEF CreateEvidence, PipelineInv, CallsInv, CallOK, CallTypes
<1>1. FaultType'
  BY <1>t, FaultCounted DEF CreateEvidence, FaultType
<1>2. /\ UNCHANGED <<archived, batch, claim, live, due, ready, source, points>>
      /\ UNCHANGED workerVars
  BY DEF CreateEvidence, batchVars
<1>. DEFINE Written == RowStep /\ RowTypes' /\ LeaseTypes' /\ StoreTypes' /\ \A e \in Evidence \ {c} : KeepsUpload(e)
<1>3. ASSUME QueueRun(First(c), 1), docStatus' = [docStatus EXCEPT ![c] = "pending_processing"]
      PROVE  Written /\ runStatus'[First(c)] # "absent"
  <2>1. RowStep /\ \A e \in Evidence \ {c} : KeepsUpload(e)
    BY <1>0, <1>2, <1>3, <1>t, RowsQueued DEF QueueRun, Structured
  <2>2. RowTypes' /\ runStatus'[First(c)] # "absent"
    BY <1>0, <1>2, <1>3, <1>t, RunShape DEF QueueRun, RowTypes, DocStatus, RunStatus
  <2>3. LeaseTypes' /\ StoreTypes'
    BY <1>2, <1>3, <1>t DEF QueueRun, LeaseTypes, StoreTypes
  <2>. QED  BY <2>1, <2>2, <2>3
<1>4. ASSUME UNCHANGED <<docStatus, runStatus, attempt>>
      PROVE  Written
  <2>1. RowStep
    BY <1>2, <1>4, <1>t, RowsKept
  <2>2. RowTypes' /\ LeaseTypes' /\ StoreTypes' /\ \A e \in Evidence \ {c} : KeepsUpload(e)
    BY <1>2, <1>4, <1>t DEF RowTypes, LeaseTypes, StoreTypes, KeepsUpload
  <2>. QED  BY <2>1, <2>2
<1>5. PICK step \in {"answered", "undo"} :
         /\ CallAt(c, step, c, again[c])
         /\ step = "answered" => runStatus'[First(c)] # "absent"
  BY <1>3 DEF CreateEvidence
<1>6. Written
  BY <1>3, <1>4 DEF CreateEvidence
<1>7. upc'[c] = step /\ target'[c] = c => CallOK(c)'
  BY <1>0, <1>2, <1>5 DEF CallOK, Structured
<1>. QED  BY <1>0, <1>1, <1>2, <1>5, <1>6, <1>7, CallWrites DEF CallSteps

LEMMA UndoStep ==
    ASSUME PipelineInv, NEW c \in Docs, UndoPut(c)
    PROVE  Kept
<1>t. RowTypes /\ LeaseTypes /\ StoreTypes /\ CallTypes /\ FaultType /\ Rows
  BY TypeParts DEF PipelineInv
<1>0. c \in Evidence /\ again[c] \in BOOLEAN
  BY <1>t DEF UndoPut, PipelineInv, CallsInv, CallOK, CallTypes
<1>1. /\ source \ {c} \subseteq source' /\ source' \subseteq source
      /\ UNCHANGED <<docStatus, archived, batch, claim, runStatus, attempt, live, due, ready, points>>
      /\ UNCHANGED workerVars
  BY DEF UndoPut, dbVars, docVars, batchVars, runVars
<1>2. RowStep
  <2>1. source \cap Structured \subseteq source'
    BY <1>0, <1>1 DEF Structured
  <2>. QED  BY <1>1, <1>t, <2>1, RowsKept
<1>3. RowTypes' /\ LeaseTypes' /\ StoreTypes'
  BY <1>1, <1>t DEF RowTypes, LeaseTypes, StoreTypes
<1>4. FaultType'
  BY <1>t, FaultCounted DEF UndoPut, FaultType
<1>5. \A e \in Evidence \ {c} : KeepsUpload(e)
  BY <1>1 DEF KeepsUpload
<1>6. upc'[c] = "refused" /\ target'[c] = c => CallOK(c)'
  BY <1>0 DEF CallOK
<1>. QED  BY <1>0, <1>1, <1>2, <1>3, <1>4, <1>5, <1>6, CallWrites DEF CallSteps, UndoPut
(***************************************************************************)
(* Archiving, reindexing and the passing of time.                          *)
(***************************************************************************)
LEMMA RowsStep ==
    ASSUME PipelineInv, RowStep, KeepsUploads, UNCHANGED <<callVars, workerVars>>,
           RowTypes', LeaseTypes', StoreTypes', FaultType'
    PROVE  Kept
<1>1. CallTypes' /\ CallsInv' /\ WorkerTypes' /\ WorkersInv'
  BY TypeParts, CallsKept, WorkersKept DEF PipelineInv, RowStep
<1>. QED  BY <1>1, KeptBy

LEMMA ArchiveStep ==
    ASSUME PipelineInv, NEW d \in Docs, Archive(d)
    PROVE  Kept
<1>t. RowTypes /\ LeaseTypes /\ StoreTypes /\ FaultType /\ Rows
  BY TypeParts DEF PipelineInv
<1>1. RowStep
  BY <1>t, RowsArchived DEF Archive, batchVars, runVars
<1>2. KeepsUploads
  BY DEF KeepsUploads, KeepsUpload, Archive, runVars
<1>3. RowTypes'
  BY <1>t DEF RowTypes, DocStatus, Archive, batchVars, runVars
<1>4. LeaseTypes' /\ StoreTypes' /\ FaultType'
  BY <1>t DEF LeaseTypes, StoreTypes, FaultType, Archive, runVars
<1>. QED  BY <1>1, <1>2, <1>3, <1>4, RowsStep DEF Archive

LEMMA ReindexStep ==
    ASSUME PipelineInv, NEW d \in Docs, Reindex(d)
    PROVE  Kept
<1>t. RowTypes /\ LeaseTypes /\ StoreTypes /\ FaultType /\ Rows
  BY TypeParts DEF PipelineInv
<1>1. RowStep /\ KeepsUploads
  BY <1>t, RowsReindexed DEF Reindex, QueueRun, docVars, batchVars
<1>2. RowTypes'
  BY <1>t, RunShape DEF RowTypes, RunStatus, Reindex, QueueRun, docVars, batchVars
<1>3. LeaseTypes' /\ StoreTypes' /\ FaultType'
  BY <1>t DEF LeaseTypes, StoreTypes, FaultType, Reindex, QueueRun
<1>. QED  BY <1>1, <1>2, <1>3, RowsStep DEF Reindex

LEMMA TimeStep ==
    ASSUME PipelineInv, NEW r \in Runs, LeaseLapses(r) \/ HeartbeatsFail(r) \/ RetryFallsDue(r)
    PROVE  Kept
<1>t. RowTypes /\ LeaseTypes /\ StoreTypes /\ FaultType /\ Rows
  BY TypeParts DEF PipelineInv
<1>. USE DEF LeaseLapses, HeartbeatsFail, RetryFallsDue
<1>1. /\ UNCHANGED <<docStatus, archived, batch, claim, runStatus, ready, source, points>>
      /\ UNCHANGED <<callVars, workerVars>>
  BY DEF docVars, batchVars
<1>2. RowStep /\ KeepsUploads
  BY <1>1, <1>t, RowsKept DEF KeepsUploads, KeepsUpload
<1>3. RowTypes' /\ LeaseTypes' /\ StoreTypes'
  BY <1>1, <1>t DEF RowTypes, LeaseTypes, StoreTypes
<1>4. FaultType'
  BY <1>t, FaultCounted DEF FaultType
<1>. QED  BY <1>1, <1>2, <1>3, <1>4, RowsStep

(***************************************************************************)
(* The worker.                                                             *)
(***************************************************************************)

(* A step of an execution that writes no row.                              *)
LEMMA WorkerReads ==
    ASSUME PipelineInv, UNCHANGED <<dbVars, source, callVars>>,
           points \subseteq points', points' \subseteq Runs, FaultType',
           Stable => WorkerTypes' /\ WorkersInv'
    PROVE  Kept
<1>t. RowTypes /\ LeaseTypes /\ StoreTypes /\ CallTypes /\ CallsInv /\ Rows
  BY TypeParts DEF PipelineInv
<1>1. RowStep /\ KeepsUploads
  BY <1>t, RowsKept DEF KeepsUploads, KeepsUpload, dbVars, docVars, batchVars, runVars
<1>2. CallTypes' /\ CallsInv'
  BY <1>1, <1>t, CallsKept DEF RowStep
<1>3. RowTypes' /\ LeaseTypes' /\ StoreTypes'
  BY <1>t DEF RowTypes, LeaseTypes, StoreTypes, dbVars, docVars, batchVars, runVars
<1>. QED  BY <1>1, <1>2, <1>3, KeptBy DEF RowStep

(* A step of an execution that writes rows.                                *)
LEMMA WorkerWrites ==
    ASSUME PipelineInv, RowStep, KeepsUploads, UNCHANGED callVars,
           RowTypes', LeaseTypes', StoreTypes', FaultType', WorkerTypes', WorkersInv'
    PROVE  Kept
<1>1. CallTypes' /\ CallsInv'
  BY TypeParts, CallsKept DEF RowStep, PipelineInv
<1>. QED  BY <1>1, KeptBy

(* An execution goes on with its run.                                      *)
LEMMA WorkerGoes ==
    ASSUME WorkerTypes, WorkersInv, LeaseTypes, Stable, NEW w \in Executions, NEW step \in Steps,
           Goto(w, step), pc[w] # "idle", step # "claim",
           step \in {"index", "check", "complete"} => DocOf(wrun[w]) \in Evidence,
           step \in {"begin", "apply", "reject"} => DocOf(wrun[w]) \in Structured,
           step \in {"check", "complete"} => wrun[w] \in points'
    PROVE  WorkerTypes' /\ WorkersInv'
<1>1. Nothing \in Seen
  BY DEF Nothing, Seen, RunStatus
<1>2. wrun[w] \in Runs /\ watt[w] \in Nat
  BY DEF WorkersInv, WorkerOK, WorkerTypes
<1>3. pc'[w] = step /\ wrun'[w] = wrun[w] /\ seen'[w] = Nothing => WorkerOK(w)'
  BY <1>2 DEF WorkerOK
<1>. QED  BY <1>1, <1>2, <1>3, WorkerMoved DEF Goto

LEMMA ClaimReadStep ==
    ASSUME PipelineInv, NEW w \in Executions, NEW r \in Runs, ClaimRead(w, r)
    PROVE  Kept
<1>t. RowTypes /\ LeaseTypes /\ StoreTypes /\ WorkerTypes /\ WorkersInv /\ FaultType /\ Rows
  BY TypeParts DEF PipelineInv
<1>. DEFINE saw == [run |-> runStatus[r], active |-> docStatus[DocOf(r)] = "active"]
<1>1. saw \in Seen /\ attempt[r] \in Nat /\ "claim" \in Steps
  BY <1>t DEF Seen, RowTypes, LeaseTypes, Steps
<1>2. IsReindex(r) /\ ~saw.active => archived'[DocOf(r)]
  <2>1. runStatus[r] \in {"queued", "retry_scheduled", "running"} /\ UNCHANGED archived
    BY DEF ClaimRead, RunClaimable, dbVars, docVars
  <2>. QED  BY <1>t, <2>1, OpenRuns
<1>3. pc'[w] = "claim" /\ wrun'[w] = r /\ seen'[w] = saw => WorkerOK(w)'
  BY <1>2 DEF WorkerOK
<1>4. Stable => WorkerTypes' /\ WorkersInv'
  BY <1>1, <1>3, <1>t, WorkerMoved DEF ClaimRead
<1>. QED  BY <1>4, <1>t, WorkerReads DEF ClaimRead, StoreTypes, FaultType
LEMMA ClaimCommitStep ==
    ASSUME PipelineInv, NEW w \in Executions, ClaimCommit(w)
    PROVE  Kept
<1>. DEFINE r == wrun[w]
            d == DocOf(r)
            ok == Unclaimed(w) /\ (d \in Structured => batch[d] \in OpenBatch)
            doc == IF IsReindex(r) /\ seen[w].active THEN docStatus[d] ELSE "processing"
            import == IF d \in Structured THEN "validating" ELSE batch[d]
<1>t. RowTypes /\ LeaseTypes /\ StoreTypes /\ WorkerTypes /\ WorkersInv /\ FaultType /\ Rows
  BY TypeParts DEF PipelineInv
<1>0. r \in Runs /\ d \in Docs /\ pc[w] = "claim" /\ WorkerOK(w)
  BY <1>t, RunShape DEF ClaimCommit, WorkersInv, WorkerOK
<1>1. CASE /\ ok
           /\ runStatus' = [runStatus EXCEPT ![r] = "running"]
           /\ attempt' = [attempt EXCEPT ![r] = @ + 1]
           /\ live' = [live EXCEPT ![r] = TRUE]
           /\ docStatus' = [docStatus EXCEPT ![d] = doc]
           /\ batch' = [batch EXCEPT ![d] = import]
           /\ WorkerAt(w, r, watt[w] + 1, "read", Nothing, FALSE)
  <2>1. runStatus[r] \in {"queued", "retry_scheduled", "running"}
    BY <1>1 DEF Unclaimed, RunClaimable
  <2>2. UNCHANGED <<archived, claim, due, ready, source, points, callVars, faults>>
    BY DEF ClaimCommit
  <2>3. doc \in DocStatus /\ import \in BatchStatus
    BY <1>0, <1>t DEF RowTypes, DocStatus, BatchStatus, OpenBatch
  <2>4. /\ doc = "active" => docStatus[d] = "active"
        /\ IsReindex(r) => doc = docStatus[d] \/ archived[d]
    BY <1>0 DEF WorkerOK
  <2>5. /\ d \in Evidence => import = batch[d]
        /\ d \in Structured =>
             /\ import = "validating"
             /\ batch[d] \in {"pending", "validating", "applying"}
    BY <1>0, <1>1, <1>t, <2>1, OpenRuns DEF OpenBatch, Structured
  <2>6. RowStep /\ KeepsUploads
    <3>. HIDE DEF doc, import
    <3>1. "running" \in RunStatus \ {"absent"}
      BY DEF RunStatus
    <3>. QED  BY <1>0, <1>1, <1>t, <2>1, <2>2, <2>3, <2>4, <2>5, <3>1, RowsWorked
  <2>7. RowTypes' /\ LeaseTypes' /\ StoreTypes' /\ FaultType'
    <3>. HIDE DEF doc, import, ok
    <3>1. RowTypes'
      BY <1>0, <1>1, <1>t, <2>2, <2>3 DEF RowTypes, RunStatus
    <3>2. LeaseTypes' /\ StoreTypes' /\ FaultType'
      BY <1>0, <1>1, <1>t, <2>2 DEF LeaseTypes, StoreTypes, FaultType
    <3>. QED  BY <3>1, <3>2
  <2>8. WorkerTypes' /\ WorkersInv'
    <3>1. Nothing \in Seen /\ watt[w] + 1 \in Nat /\ "read" \in Steps /\ "read" \notin Fenced
      BY <1>t DEF Nothing, Seen, RunStatus, WorkerTypes, Steps, Fenced
    <3>2. pc'[w] = "read" /\ wrun'[w] = r /\ seen'[w] = Nothing => WorkerOK(w)'
      BY <1>0 DEF WorkerOK
    <3>. QED  BY <1>0, <1>1, <1>t, <2>6, <3>1, <3>2, WorkerMoved DEF RowStep
  <2>. QED  BY <2>2, <2>6, <2>7, <2>8, WorkerWrites
<1>2. CASE Return(w) /\ UNCHANGED <<runStatus, attempt, live, docStatus, batch>>
  <2>1. Stable => WorkerTypes' /\ WorkersInv'
    BY <1>2, <1>t, WorkerReturns
  <2>. QED  BY <1>2, <1>t, <2>1, WorkerReads
            DEF ClaimCommit, StoreTypes, FaultType, dbVars, docVars, batchVars, runVars
<1>. QED  BY <1>1, <1>2 DEF ClaimCommit

LEMMA ReadSourceStep ==
    ASSUME PipelineInv, NEW w \in Executions, ReadSource(w)
    PROVE  Kept
<1>. DEFINE d == DocOf(wrun[w])
<1>t. LeaseTypes /\ StoreTypes /\ WorkerTypes /\ WorkersInv /\ FaultType
  BY TypeParts DEF PipelineInv
<1>0. d \in Docs /\ pc[w] # "idle"
  BY <1>t, RunShape DEF ReadSource, WorkersInv, WorkerOK
<1>1. FaultType'
  BY <1>t, FaultCounted DEF ReadSource, FaultType
<1>2. \/ GoFail(w, TRUE) \/ GoFail(w, FALSE)
      \/ d \in Structured /\ (Goto(w, "reject") \/ Goto(w, "begin"))
      \/ d \in Evidence /\ Goto(w, "index")
  BY <1>0 DEF ReadSource, Structured
<1>3. ASSUME Stable
      PROVE  WorkerTypes' /\ WorkersInv'
  <2>1. CASE GoFail(w, TRUE) \/ GoFail(w, FALSE)
    BY <1>0, <1>3, <1>t, <2>1, WorkerFails
  <2>2. CASE d \in Structured /\ (Goto(w, "reject") \/ Goto(w, "begin"))
    BY <1>0, <1>3, <1>t, <2>2, WorkerGoes DEF Steps
  <2>3. CASE d \in Evidence /\ Goto(w, "index")
    BY <1>0, <1>3, <1>t, <2>3, WorkerGoes DEF Steps
  <2>. QED  BY <1>2, <2>1, <2>2, <2>3
<1>. QED  BY <1>1, <1>3, <1>t, WorkerReads DEF ReadSource, StoreTypes

LEMMA IndexStep ==
    ASSUME PipelineInv, NEW w \in Executions, IndexPoints(w)
    PROVE  Kept
<1>t. LeaseTypes /\ StoreTypes /\ WorkerTypes /\ WorkersInv /\ FaultType
  BY TypeParts DEF PipelineInv
<1>0. wrun[w] \in Runs /\ DocOf(wrun[w]) \in Evidence /\ pc[w] # "idle"
  BY <1>t DEF IndexPoints, WorkersInv, WorkerOK
<1>1. FaultType' /\ points \subseteq points' /\ points' \subseteq Runs
  BY <1>0, <1>t, FaultCounted DEF IndexPoints, FaultType, StoreTypes
<1>2. Stable => WorkerTypes' /\ WorkersInv'
  <2>1. CASE GoFail(w, TRUE)
    BY <1>0, <1>t, <2>1, WorkerFails
  <2>2. CASE Goto(w, "check") /\ points' = points \cup {wrun[w]}
    BY <1>0, <1>t, <2>2, WorkerGoes DEF Steps
  <2>. QED  BY <2>1, <2>2 DEF IndexPoints
<1>. QED  BY <1>1, <1>2, WorkerReads DEF IndexPoints

LEMMA CheckStep ==
    ASSUME PipelineInv, NEW w \in Executions, CheckEvidence(w)
    PROVE  Kept
<1>t. LeaseTypes /\ StoreTypes /\ WorkerTypes /\ WorkersInv /\ FaultType
  BY TypeParts DEF PipelineInv
<1>0. pc[w] = "check" /\ WorkerOK(w)
  BY <1>t DEF CheckEvidence, WorkersInv
<1>1. Stable => WorkerTypes' /\ WorkersInv'
  <2>1. CASE Return(w)
    BY <1>t, <2>1, WorkerReturns
  <2>2. CASE GoFail(w, TRUE)
    BY <1>0, <1>t, <2>2, WorkerFails
  <2>3. CASE pc' = [pc EXCEPT ![w] = "complete"] /\ UNCHANGED <<wrun, watt, seen, fresh, retry>>
    <3>1. WorkerTypes'
      BY <1>t, <2>3 DEF WorkerTypes, Steps
    <3>2. Stable => WorkerOK(w)'
      BY <1>0, <1>t, <2>3 DEF WorkerOK, WorkerTypes, Stable
    <3>3. ASSUME Stable, NEW v \in Executions \ {w}
          PROVE  WorkerOK(v)'
      <4>1. WorkerOK(v) /\ UNCHANGED <<pc[v], wrun[v], seen[v]>>
        BY <1>t, <2>3 DEF WorkersInv, WorkerTypes
      <4>. QED  BY <3>3, <4>1, WorkerKept
    <3>. QED  BY <3>1, <3>2, <3>3 DEF WorkersInv
  <2>. QED  BY <2>1, <2>2, <2>3 DEF CheckEvidence
<1>. QED  BY <1>1, <1>t, WorkerReads DEF CheckEvidence, StoreTypes, FaultType

LEMMA CrashStep ==
    ASSUME PipelineInv, NEW w \in Executions, Crash(w)
    PROVE  Kept
<1>t. LeaseTypes /\ StoreTypes /\ WorkerTypes /\ WorkersInv /\ FaultType
  BY TypeParts DEF PipelineInv
<1>1. FaultType' /\ (Stable => WorkerTypes' /\ WorkersInv')
  BY <1>t, FaultCounted, WorkerReturns DEF Crash
<1>. QED  BY <1>1, <1>t, WorkerReads DEF Crash, StoreTypes
(* An execution that ends, or goes on to report an error.                  *)
LEMMA WorkerLeaves ==
    ASSUME PipelineInv, NEW w \in Executions, pc[w] # "idle", Return(w) \/ GoFail(w, TRUE)
    PROVE  /\ Stable => WorkerTypes' /\ WorkersInv'
           /\ UNCHANGED <<dbVars, source, points, callVars>> /\ FaultType' => Kept
<1>t. LeaseTypes /\ StoreTypes /\ WorkerTypes /\ WorkersInv
  BY TypeParts DEF PipelineInv
<1>1. Stable => WorkerTypes' /\ WorkersInv'
  BY <1>t, WorkerReturns, WorkerFails
<1>2. ASSUME UNCHANGED <<dbVars, source, points, callVars>>, FaultType'
      PROVE  Kept
  BY <1>1, <1>2, <1>t, WorkerReads DEF StoreTypes
<1>. QED  BY <1>1, <1>2

(* The end of a run writes its lease.                                      *)
LEMMA RunEnds ==
    ASSUME RowTypes, LeaseTypes, NEW w \in Executions, wrun[w] \in Runs, NEW status \in RunStatus,
           EndRun(w, status)
    PROVE  /\ LeaseTypes'
           /\ runStatus' = [runStatus EXCEPT ![wrun[w]] = status]
           /\ runStatus' \in [Runs -> RunStatus]
<1>1. attempt' \in [Runs -> Nat] /\ live' \in [Runs -> BOOLEAN]
  BY DEF EndRun, LeaseTypes
<1>2. due' \in [Runs -> BOOLEAN]
  BY DEF EndRun, LeaseTypes
<1>. QED  BY <1>1, <1>2 DEF EndRun, LeaseTypes, RowTypes

LEMMA CompleteStep ==
    ASSUME PipelineInv, NEW w \in Executions, CompleteEvidence(w)
    PROVE  Kept
<1>. DEFINE r == wrun[w]
            d == DocOf(r)
<1>t. RowTypes /\ LeaseTypes /\ StoreTypes /\ FaultType /\ Rows
  BY TypeParts DEF PipelineInv
<1>0. r \in Runs /\ d \in Docs /\ d \in Evidence /\ r \in points /\ pc[w] # "idle"
  BY RunShape DEF CompleteEvidence, PipelineInv, WorkersInv, WorkerOK
<1>1. FaultType' /\ (Return(w) \/ GoFail(w, TRUE))
  BY <1>t, FaultCounted DEF CompleteEvidence, FaultType
<1>2. UNCHANGED <<archived, batch, claim, source, points, callVars>>
  BY DEF CompleteEvidence, batchVars
<1>3. CASE /\ HoldsLease(w)
           /\ EndRun(w, "succeeded")
           /\ ready' = ready \cup {r}
           /\ docStatus' = [docStatus EXCEPT ![d] = "active"]
  <2>1. LeaseTypes' /\ runStatus' = [runStatus EXCEPT ![r] = "succeeded"] /\ runStatus' \in [Runs -> RunStatus]
    BY <1>0, <1>3, <1>t, RunEnds DEF RunStatus
  <2>2. runStatus[r] = "running"
    BY <1>3 DEF HoldsLease
  <2>3. RowStep /\ KeepsUploads
    BY <1>0, <1>2, <1>3, <1>t, <2>1, <2>2, RowsIndexed
  <2>4. RowTypes' /\ StoreTypes'
    BY <1>0, <1>2, <1>3, <1>t, <2>1 DEF RowTypes, StoreTypes, DocStatus
  <2>5. WorkerTypes' /\ WorkersInv'
    BY <1>0, <1>1, <2>3, WorkerLeaves DEF RowStep
  <2>. QED  BY <1>1, <1>2, <2>1, <2>3, <2>4, <2>5, WorkerWrites
<1>4. CASE UNCHANGED <<runVars, docStatus, ready>>
  BY <1>0, <1>1, <1>2, <1>4, WorkerLeaves DEF dbVars, docVars, batchVars, runVars
<1>. QED  BY <1>3, <1>4 DEF CompleteEvidence

LEMMA BeginStep ==
    ASSUME PipelineInv, NEW w \in Executions, BeginApply(w)
    PROVE  Kept
<1>. DEFINE r == wrun[w]
            d == DocOf(r)
<1>t. RowTypes /\ LeaseTypes /\ StoreTypes /\ WorkerTypes /\ WorkersInv /\ FaultType /\ Rows
  BY TypeParts DEF PipelineInv
<1>0. r \in Runs /\ d \in Docs /\ d \in Structured /\ pc[w] # "idle"
  BY RunShape DEF BeginApply, PipelineInv, WorkersInv, WorkerOK
<1>1. FaultType'
  BY <1>t, FaultCounted DEF BeginApply, FaultType
<1>2. UNCHANGED <<docStatus, archived, claim, runStatus, attempt, live, due, ready, source, points, callVars>>
  BY DEF BeginApply, docVars, runVars
<1>3. CASE /\ HoldsLease(w) /\ batch[d] = "validating"
           /\ batch' = [batch EXCEPT ![d] = "applying"] /\ Goto(w, "apply")
  <2>1. runStatus[r] = "running" /\ runStatus' = [runStatus EXCEPT ![r] = "running"]
    BY <1>0, <1>2, <1>3, <1>t DEF HoldsLease, RowTypes
  <2>2. docStatus' = [docStatus EXCEPT ![d] = docStatus[d]] /\ docStatus[d] \in DocStatus
    BY <1>0, <1>2, <1>t DEF RowTypes
  <2>3. "applying" \in BatchStatus /\ "running" \in RunStatus \ {"absent"} /\ d \notin Evidence
    BY <1>0 DEF BatchStatus, OpenBatch, RunStatus, Structured
  <2>4. RowStep /\ KeepsUploads
    BY <1>0, <1>2, <1>3, <1>t, <2>1, <2>2, <2>3, RowsWorked
  <2>5. RowTypes' /\ LeaseTypes' /\ StoreTypes'
    BY <1>0, <1>2, <1>3, <1>t, <2>3 DEF RowTypes, LeaseTypes, StoreTypes
  <2>6. WorkerTypes' /\ WorkersInv'
    BY <1>0, <1>3, <1>t, <2>4, WorkerGoes DEF RowStep, Steps
  <2>. QED  BY <1>1, <1>2, <2>4, <2>5, <2>6, WorkerWrites
<1>4. CASE UNCHANGED batch /\ (Return(w) \/ GoFail(w, TRUE))
  BY <1>0, <1>1, <1>2, <1>4, WorkerLeaves DEF dbVars, docVars, batchVars, runVars
<1>. QED  BY <1>3, <1>4 DEF BeginApply

LEMMA ApplyStep ==
    ASSUME PipelineInv, NEW w \in Executions, Apply(w)
    PROVE  Kept
<1>. DEFINE r == wrun[w]
            d == DocOf(r)
<1>t. RowTypes /\ LeaseTypes /\ StoreTypes /\ FaultType /\ Rows
  BY TypeParts DEF PipelineInv
<1>0. r \in Runs /\ d \in Docs /\ d \in Structured /\ pc[w] # "idle"
  BY RunShape DEF Apply, PipelineInv, WorkersInv, WorkerOK
<1>1. FaultType' /\ (Return(w) \/ GoFail(w, TRUE))
  BY <1>t, FaultCounted DEF Apply, FaultType
<1>2. UNCHANGED <<archived, claim, ready, source, points, callVars>>
  BY DEF Apply
<1>3. CASE /\ HoldsLease(w) /\ batch[d] = "applying" /\ docStatus[d] # "archived" /\ ~archived[d]
           /\ EndRun(w, "succeeded")
           /\ batch' = [batch EXCEPT ![d] = "applied"]
           /\ docStatus' = [docStatus EXCEPT ![d] = "active"]
  <2>1. LeaseTypes' /\ runStatus' = [runStatus EXCEPT ![r] = "succeeded"] /\ runStatus' \in [Runs -> RunStatus]
    BY <1>0, <1>3, <1>t, RunEnds DEF RunStatus
  <2>2. runStatus[r] = "running"
    BY <1>3 DEF HoldsLease
  <2>3. RowStep /\ KeepsUploads
    BY <1>0, <1>2, <1>3, <1>t, <2>1, <2>2, RowsApplied
  <2>4. RowTypes' /\ StoreTypes'
    BY <1>0, <1>2, <1>3, <1>t, <2>1 DEF RowTypes, StoreTypes, DocStatus, BatchStatus
  <2>5. WorkerTypes' /\ WorkersInv'
    BY <1>0, <1>1, <2>3, WorkerLeaves DEF RowStep
  <2>. QED  BY <1>1, <1>2, <2>1, <2>3, <2>4, <2>5, WorkerWrites
<1>4. CASE UNCHANGED <<runVars, batch, docStatus>>
  BY <1>0, <1>1, <1>2, <1>4, WorkerLeaves DEF dbVars, docVars, batchVars, runVars
<1>. QED  BY <1>3, <1>4 DEF Apply

LEMMA RejectStep ==
    ASSUME PipelineInv, NEW w \in Executions, RejectImport(w)
    PROVE  Kept
<1>. DEFINE r == wrun[w]
            d == DocOf(r)
<1>t. RowTypes /\ LeaseTypes /\ StoreTypes /\ FaultType /\ Rows
  BY TypeParts DEF PipelineInv
<1>0. r \in Runs /\ d \in Docs /\ d \in Structured /\ d \notin Evidence /\ ~IsReindex(r) /\ pc[w] # "idle"
  BY RunShape DEF RejectImport, PipelineInv, WorkersInv, WorkerOK, Structured
<1>1. FaultType' /\ (Return(w) \/ GoFail(w, TRUE))
  BY <1>t, FaultCounted DEF RejectImport, FaultType
<1>2. UNCHANGED <<archived, claim, ready, source, points, callVars>>
  BY DEF RejectImport
<1>3. CASE /\ HoldsLease(w)
           /\ EndRun(w, "failed")
           /\ batch' = [batch EXCEPT ![d] = "rejected"]
           /\ docStatus' = [docStatus EXCEPT ![d] = "processing_failed"]
  <2>1. LeaseTypes' /\ runStatus' = [runStatus EXCEPT ![r] = "failed"] /\ runStatus' \in [Runs -> RunStatus]
    BY <1>0, <1>3, <1>t, RunEnds DEF RunStatus
  <2>2. runStatus[r] = "running"
    BY <1>3 DEF HoldsLease
  <2>3. "processing_failed" \in DocStatus /\ "rejected" \in BatchStatus /\ "failed" \in RunStatus \ {"absent"}
    BY DEF DocStatus, BatchStatus, RunStatus
  <2>4. RowStep /\ KeepsUploads
    BY <1>0, <1>2, <1>3, <1>t, <2>1, <2>2, <2>3, RowsWorked
  <2>5. RowTypes' /\ StoreTypes'
    BY <1>0, <1>2, <1>3, <1>t, <2>1, <2>3 DEF RowTypes, StoreTypes
  <2>6. WorkerTypes' /\ WorkersInv'
    BY <1>0, <1>1, <2>4, WorkerLeaves DEF RowStep
  <2>. QED  BY <1>1, <1>2, <2>1, <2>4, <2>5, <2>6, WorkerWrites
<1>4. CASE UNCHANGED <<runVars, batch, docStatus>>
  BY <1>0, <1>1, <1>2, <1>4, WorkerLeaves DEF dbVars, docVars, batchVars, runVars
<1>. QED  BY <1>3, <1>4 DEF RejectImport

LEMMA FailStep ==
    ASSUME PipelineInv, NEW w \in Executions, FailRun(w)
    PROVE  Kept
<1>. DEFINE r == wrun[w]
            d == DocOf(r)
            status == IF retry[w] THEN "retry_scheduled" ELSE "failed"
            import == IF batch[d] \in OpenBatch THEN IF retry[w] THEN "pending" ELSE "failed"
                                                ELSE batch[d]
            doc == DocAfterFailure(w)
<1>t. RowTypes /\ LeaseTypes /\ StoreTypes /\ FaultType /\ Rows
  BY TypeParts DEF PipelineInv
<1>0. r \in Runs /\ d \in Docs /\ pc[w] # "idle" /\ Return(w)
  BY RunShape DEF FailRun, PipelineInv, WorkersInv, WorkerOK
<1>1. FaultType'
  BY <1>t, FaultCounted DEF FailRun, FaultType
<1>2. UNCHANGED <<archived, claim, ready, source, points, callVars>>
  BY DEF FailRun
<1>3. CASE /\ HoldsLease(w)
           /\ EndRun(w, status)
           /\ batch' = [batch EXCEPT ![d] = import]
           /\ docStatus' = [docStatus EXCEPT ![d] = doc]
  <2>0. status \in RunStatus \ {"absent"} /\ import \in BatchStatus /\ doc \in DocStatus
    BY <1>0, <1>t DEF RunStatus, BatchStatus, OpenBatch, DocStatus, DocAfterFailure, RowTypes
  <2>1. LeaseTypes' /\ runStatus' = [runStatus EXCEPT ![r] = status] /\ runStatus' \in [Runs -> RunStatus]
    <3>. HIDE DEF status
    <3>. QED  BY <1>0, <1>3, <1>t, <2>0, RunEnds
  <2>2. runStatus[r] = "running"
    BY <1>3 DEF HoldsLease
  <2>3. /\ doc = "active" => docStatus[d] = "active"
        /\ IsReindex(r) => doc = docStatus[d] \/ archived[d]
    BY <1>0, <1>t, <2>2, OpenRuns DEF DocAfterFailure
  <2>4. /\ d \in Evidence => import = batch[d]
        /\ import # "applied"
        /\ import \in {"failed", "rejected"} => status = "failed"
        /\ import \in {"pending", "validating", "applying"} =>
             batch[d] \in {"pending", "validating", "applying"}
    BY <1>0, <1>t, <2>2, OpenRuns DEF OpenBatch, Rows, RunsAgree
  <2>. HIDE DEF status, import, doc
  <2>5. RowStep /\ KeepsUploads
    BY <1>0, <1>2, <1>3, <1>t, <2>0, <2>1, <2>2, <2>3, <2>4, RowsWorked
  <2>6. RowTypes' /\ StoreTypes'
    BY <1>0, <1>2, <1>3, <1>t, <2>0, <2>1 DEF RowTypes, StoreTypes
  <2>7. WorkerTypes' /\ WorkersInv'
    BY <1>0, <2>5, WorkerLeaves DEF RowStep
  <2>. QED  BY <1>1, <1>2, <2>1, <2>5, <2>6, <2>7, WorkerWrites
<1>4. CASE UNCHANGED <<runVars, batch, docStatus>>
  BY <1>0, <1>1, <1>2, <1>4, WorkerLeaves DEF dbVars, docVars, batchVars, runVars
<1>. QED  BY <1>3, <1>4 DEF FailRun

(***************************************************************************)
(* The invariant, and what follows from it.                                *)
(***************************************************************************)
LEMMA PipelineStep ==
    ASSUME PipelineInv, [Next]_vars
    PROVE  Kept
<1>1. CASE UNCHANGED vars
  <2>1. UNCHANGED <<docStatus, archived, batch, claim, runStatus, attempt, live, due, ready, source, points,
                    faults, callVars, workerVars>>
    BY <1>1 DEF vars, dbVars, docVars, batchVars, runVars
  <2>2. RowTypes /\ LeaseTypes /\ StoreTypes /\ FaultType /\ Rows
    BY TypeParts DEF PipelineInv
  <2>3. RowStep /\ KeepsUploads
    BY <2>1, <2>2, RowsKept DEF KeepsUploads, KeepsUpload
  <2>4. RowTypes' /\ LeaseTypes' /\ StoreTypes' /\ FaultType'
    BY <2>1, <2>2 DEF RowTypes, LeaseTypes, StoreTypes, FaultType
  <2>. QED  BY <2>1, <2>3, <2>4, RowsStep
<1>2. ASSUME NEW c \in Docs, CallStep(c) \/ CallDies(c) \/ Archive(c) \/ Reindex(c)
      PROVE  Kept
  BY <1>2, KeyStep, ClaimStep, ReleaseStep, ReserveStep, PutStep, EnqueueStep, CreateStep, UndoStep,
     DiesStep, ArchiveStep, ReindexStep DEF CallStep
<1>3. ASSUME NEW w \in Executions, WorkerStep(w) \/ Crash(w)
      PROVE  Kept
  BY <1>3, ClaimCommitStep, ReadSourceStep, IndexStep, CheckStep, CompleteStep, BeginStep, ApplyStep,
     RejectStep, FailStep, CrashStep DEF WorkerStep
<1>. QED  BY <1>1, <1>2, <1>3, ClaimReadStep, TimeStep DEF Next

(* The invariant holds in every reachable state.                           *)
THEOREM PipelineInvariant == Spec => []PipelineInv
<1>1. Init => PipelineInv
  <2>. SUFFICES ASSUME Init
                PROVE  PipelineInv
    OBVIOUS
  <2>1. RowTypes /\ LeaseTypes /\ StoreTypes /\ CallTypes /\ FaultType
    BY PipelineAssumption DEF Init, RowTypes, LeaseTypes, StoreTypes, CallTypes, FaultType, DocStatus,
       BatchStatus, RunStatus, CallSteps
  <2>2. WorkerTypes
    <3>1. Nothing \in Seen
      BY DEF Nothing, Seen, RunStatus
    <3>. QED  BY <3>1 DEF Init, WorkerTypes, Steps
  <2>3. CallsInv
    BY RunShape, PipelineAssumption DEF Init, CallsInv, CallOK, Structured
  <2>4. WorkersInv
    BY DEF Init, WorkersInv, WorkerOK
  <2>5. Rows
    BY RunShape, PipelineAssumption
       DEF Init, Rows, RunsAgree, PublishGate, ClaimHeld, ArchivedIsNotActive, Structured
  <2>. QED  BY <2>1, <2>2, <2>3, <2>4, <2>5, TypeParts DEF PipelineInv
<1>2. PipelineInv /\ [Next]_vars => PipelineInv'
  BY PipelineStep DEF Kept
<1>. QED  BY <1>1, <1>2, PTL DEF Spec

(* Every row, object, call and execution keeps to the values it can hold.  *)
THEOREM PipelineTypeCorrect == Spec => []TypeOK
<1>1. PipelineInv => TypeOK
  BY DEF PipelineInv
<1>. QED  BY <1>1, PipelineInvariant, PTL

(* A document is active only with what its readers need, and an applied    *)
(* import is active until it is archived.                                  *)
THEOREM PublishedIsComplete == Spec => []PublishGate
<1>1. PipelineInv => PublishGate
  BY DEF PipelineInv, Rows
<1>. QED  BY <1>1, PipelineInvariant, PTL

(* A structured import that was archived is never shown as active again.   *)
THEOREM ArchivedStaysHidden == Spec => []ArchivedIsNotActive
<1>1. PipelineInv => ArchivedIsNotActive
  BY DEF PipelineInv, Rows
<1>. QED  BY <1>1, PipelineInvariant, PTL

(* An answered call has its run on a stored file, and an import that is    *)
(* open or current has its window.                                         *)
THEOREM PromisesAreKept == Spec => []AcceptedIsKept
<1>1. PipelineInv => AcceptedIsKept
  <2>1. PipelineInv => AnsweredIsQueued
    BY DEF PipelineInv, CallsInv, CallOK, AnsweredIsQueued
  <2>. QED  BY <2>1 DEF PipelineInv, Rows, AcceptedIsKept
<1>. QED  BY <1>1, PipelineInvariant, PTL

(* A document in service goes out of service only by being archived.       *)
THEOREM ServedUntilArchived == Spec => ServiceIsKept
<1>1. PipelineInv /\ [Next]_vars =>
        [\A d \in Docs : docStatus[d] = "active" /\ ~archived[d] =>
                           docStatus'[d] = "active" \/ archived'[d]]_vars
  BY PipelineStep DEF Kept, ServiceStep
<1>. QED  BY <1>1, PipelineInvariant, PTL DEF Spec, ServiceIsKept
=============================================================================
