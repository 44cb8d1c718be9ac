---------------------------- MODULE ServicesProofs ----------------------------
(***************************************************************************)
(* Proofs about the services that share no state with one another: upload  *)
(* sessions, the /mcp endpoint, the source scope of order partitions, and  *)
(* the launcher's transfers.                                               *)
(***************************************************************************)
EXTENDS UploadSession, McpGateway, OrderScope, LauncherTransfers, FiniteSetTheorems, TLAPS

(***************************************************************************)
(* Upload sessions, for any number of sessions, of concurrent complete and *)
(* cancel calls and of faults: the types, that a source of another size    *)
(* than was declared is never accepted, that an acceptance is final, and   *)
(* that the processing run stands and falls with it.                       *)
(*                                                                         *)
(* What each kind of step touches.  The steps of the four processes differ *)
(* in the job rows they write; the other rows stay as they are.            *)
(***************************************************************************)
CompleteSteps == {"idle", "stat", "assemble", "restat", "discard", "refuse", "queue", "queueWrite"}

(* Moving a complete call on, or ending it, keeps its program counter and  *)
(* its job in step.                                                        *)
LEMMA CompleteMoves ==
    ASSUME TypeOK, NEW c \in Completions, NEW step \in CompleteSteps,
           cpc[c] # "idle", CompleteAt(c, step)
    PROVE  /\ cpc' \in [Completions -> CompleteSteps]
           /\ cjob' \in [Completions -> Uploads \cup {None}]
           /\ \A d \in Completions : cjob'[d] = None <=> cpc'[d] = "idle"
           /\ \A d \in Completions : d # c => cpc'[d] = cpc[d] /\ cjob'[d] = cjob[d]
           /\ cpc'[c] = step
           /\ step # "idle" => cjob'[c] = cjob[c]
BY DEF TypeOK, CompleteAt, CompleteSteps

\* A cancel call at its next step.
LEMMA CancelMoves ==
    ASSUME TypeOK, NEW k \in Cancels, NEW step \in {"idle", "finish", "abort"},
           kpc[k] # "idle", CancelAt(k, step)
    PROVE  /\ kpc' \in [Cancels -> {"idle", "finish", "abort"}]
           /\ kjob' \in [Cancels -> Uploads \cup {None}]
           /\ \A j \in Cancels : kjob'[j] = None <=> kpc'[j] = "idle"
BY DEF TypeOK, CancelAt

(* A fault keeps to its bound.                                             *)
LEMMA FaultsBounded ==
    ASSUME TypeOK, NEW kinds, Fault(kinds)
    PROVE  faults' \in 0..MaxFaults
BY SessionAssumption DEF TypeOK, Fault

(* The columns and the objects of the uploads.                             *)
RowsOK ==
    /\ jobStatus \in [Uploads -> Status]
    /\ uploadId \in [Uploads -> BOOLEAN]
    /\ runs \in [Uploads -> Nat]
    /\ expired \in [Uploads -> BOOLEAN]
    /\ multipart \in [Uploads -> {"none", "open", "completed", "aborted"}]
    /\ staged \in [Uploads -> BOOLEAN]

CreatesOK == upc \in [Uploads -> {"start", "reserve", "abort", "done"}]

CompletesOK ==
    /\ cpc \in [Completions -> CompleteSteps]
    /\ cjob \in [Completions -> Uploads \cup {None}]
    /\ \A c \in Completions : cjob[c] = None <=> cpc[c] = "idle"

CancelsOK ==
    /\ kpc \in [Cancels -> {"idle", "finish", "abort"}]
    /\ kjob \in [Cancels -> Uploads \cup {None}]
    /\ \A k \in Cancels : kjob[k] = None <=> kpc[k] = "idle"

SweepOK ==
    /\ spc \in {"idle", "abort", "noUpload", "abortError", "finish"}
    /\ sjob \in Uploads \cup {None}
    /\ sjob = None <=> spc = "idle"

\* The type invariant by actors, now and in the next state.
LEMMA TypeParts ==
    TypeOK <=> RowsOK /\ CreatesOK /\ CompletesOK /\ CancelsOK /\ SweepOK /\ faults \in 0..MaxFaults
BY DEF TypeOK, RowsOK, CreatesOK, CompletesOK, CancelsOK, SweepOK, CompleteSteps

LEMMA TypePartsNext ==
    TypeOK' <=> /\ RowsOK' /\ CreatesOK' /\ CompletesOK' /\ CancelsOK' /\ SweepOK'
                /\ faults' \in 0..MaxFaults
BY DEF TypeOK, RowsOK, CreatesOK, CompletesOK, CancelsOK, SweepOK, CompleteSteps

(* A compare-and-set on the status, and aborting, keep the types.          *)
LEMMA RowMoves ==
    ASSUME RowsOK, NEW u \in Uploads
    PROVE  /\ \A s \in Status : FinishUpload(u, s) => jobStatus' \in [Uploads -> Status]
           /\ AbortMultipart(u) => multipart' \in [Uploads -> {"none", "open", "completed", "aborted"}]
BY DEF RowsOK, FinishUpload, AbortMultipart

(* Every row, object and call keeps to the values it can hold.             *)
THEOREM UploadTypeCorrect == Spec => []TypeOK
<1>1. Init => TypeOK
  BY SessionAssumption DEF Init, TypeOK, Status
<1>2. TypeOK /\ [Next]_vars => TypeOK'
  <2>. SUFFICES ASSUME TypeOK, [Next]_vars
                PROVE  TypeOK'
    OBVIOUS
  <2>0. RowsOK /\ CreatesOK /\ CompletesOK /\ CancelsOK /\ SweepOK /\ faults \in 0..MaxFaults
    BY TypeParts
  <2>. USE DEF rowVars, storageVars, callVars
  <2>1. ASSUME NEW u \in Uploads, CreateMultipart(u) \/ AbortOwnMultipart(u) \/ CreateDies(u)
        PROVE  TypeOK'
    <3>1. RowsOK' /\ CreatesOK'
      BY <2>0, <2>1, RowMoves DEF CreateMultipart, AbortOwnMultipart, CreateDies, RowsOK, CreatesOK
    <3>2. CompletesOK' /\ CancelsOK' /\ SweepOK'
      BY <2>0, <2>1 DEF CreateMultipart, AbortOwnMultipart, CreateDies, CompletesOK, CancelsOK, SweepOK
    <3>3. faults' \in 0..MaxFaults
      BY <2>0, <2>1, FaultsBounded DEF CreateMultipart, AbortOwnMultipart, CreateDies
    <3>. QED  BY <3>1, <3>2, <3>3, TypePartsNext
  <2>2. ASSUME NEW u \in Uploads, Reserve(u)
        PROVE  TypeOK'
    <3>1. RowsOK' /\ CreatesOK'
      BY <2>0, <2>2 DEF Reserve, RowsOK, CreatesOK, Status
    <3>2. CompletesOK' /\ CancelsOK' /\ SweepOK'
      BY <2>0, <2>2 DEF Reserve, CompletesOK, CancelsOK, SweepOK
    <3>3. faults' \in 0..MaxFaults
      BY <2>0, <2>2, FaultsBounded DEF Reserve
    <3>. QED  BY <3>1, <3>2, <3>3, TypePartsNext
  <2>3. ASSUME NEW u \in Uploads, SessionExpires(u) \/ SweepPick(u)
        PROVE  TypeOK'
    <3>1. RowsOK'
      BY <2>0, <2>3 DEF SessionExpires, SweepPick, RowsOK
    <3>2. CreatesOK' /\ CompletesOK' /\ CancelsOK'
      BY <2>0, <2>3 DEF SessionExpires, SweepPick, OthersThanSweep, CreatesOK, CompletesOK, CancelsOK
    <3>3. SweepOK' /\ faults' \in 0..MaxFaults
      BY <2>0, <2>3, SessionAssumption DEF SessionExpires, SweepPick, SweepOK
    <3>. QED  BY <3>1, <3>2, <3>3, TypePartsNext
  <2>4. ASSUME NEW c \in Completions, NEW u \in Uploads, CompleteCheck(c, u)
        PROVE  TypeOK'
    <3>1. RowsOK' /\ CreatesOK' /\ CancelsOK' /\ SweepOK' /\ faults' \in 0..MaxFaults
      BY <2>0, <2>4 DEF CompleteCheck, OthersThanComplete, RowsOK, CreatesOK, CancelsOK, SweepOK
    <3>2. CompletesOK'
      BY <2>0, <2>4, SessionAssumption DEF CompleteCheck, CompletesOK, CompleteSteps
    <3>. QED  BY <3>1, <3>2, TypePartsNext
  <2>5. ASSUME NEW c \in Completions, CompleteStep(c) \/ CompleteDies(c)
        PROVE  TypeOK'
    <3>0. cpc[c] # "idle" /\ cjob[c] \in Uploads
      BY <2>0, <2>5 DEF CompleteStep, CompleteDies, CompleteStat, CompleteAssemble, CompleteRestat,
            CompleteDiscard, CompleteRefuse, QueueRead, QueueWrite, CompletesOK
    <3>1. CreatesOK' /\ CancelsOK' /\ SweepOK'
      BY <2>0, <2>5 DEF CompleteStep, CompleteDies, CompleteStat, CompleteAssemble, CompleteRestat,
            CompleteDiscard, CompleteRefuse, QueueRead, QueueWrite, OthersThanComplete,
            CreatesOK, CancelsOK, SweepOK
    <3>2. \E step \in CompleteSteps : CompleteAt(c, step)
      BY <2>5 DEF CompleteStep, CompleteDies, CompleteStat, CompleteAssemble, CompleteRestat,
            CompleteDiscard, CompleteRefuse, QueueRead, QueueWrite, Verified, CompleteSteps
    <3>3. CompletesOK'
      BY <3>0, <3>2, CompleteMoves DEF CompletesOK
    <3>4. faults' \in 0..MaxFaults
      BY <2>0, <2>5, FaultsBounded DEF CompleteStep, CompleteDies, CompleteStat, CompleteAssemble,
            CompleteRestat, CompleteDiscard, CompleteRefuse, QueueRead, QueueWrite
    <3>5. RowsOK'
      <4>1. CASE CompleteStat(c) \/ CompleteRestat(c) \/ QueueRead(c) \/ CompleteDies(c)
        BY <2>0, <4>1 DEF CompleteStat, CompleteRestat, QueueRead, CompleteDies, RowsOK
      <4>2. CASE CompleteAssemble(c)
        BY <2>0, <3>0, <4>2 DEF CompleteAssemble, RowsOK
      <4>5. CASE CompleteDiscard(c)
        BY <2>0, <3>0, <4>5 DEF CompleteDiscard, RowsOK
      <4>3. CASE CompleteRefuse(c)
        BY <2>0, <3>0, <4>3, RowMoves DEF CompleteRefuse, RowsOK, Status
      <4>4. CASE QueueWrite(c)
        <5>1. CASE UNCHANGED rowVars
          BY <2>0, <4>4, <5>1 DEF QueueWrite, RowsOK
        <5>2. CASE runs[cjob[c]] = 0
          <6>. DEFINE u == cjob[c]
          <6>1. /\ [jobStatus EXCEPT ![u] = "queued"] \in [Uploads -> Status]
                /\ [uploadId EXCEPT ![u] = FALSE] \in [Uploads -> BOOLEAN]
            BY <2>0, <3>0 DEF RowsOK, Status
          <6>2. [runs EXCEPT ![u] = runs[u] + 1] \in [Uploads -> Nat]
            BY <2>0, <3>0 DEF RowsOK
          <6>. QED  BY <2>0, <4>4, <5>2, <6>1, <6>2 DEF QueueWrite, RowsOK
        <5>. QED  BY <4>4, <5>1, <5>2 DEF QueueWrite
      <4>. QED  BY <2>5, <4>1, <4>2, <4>3, <4>4, <4>5 DEF CompleteStep
    <3>. QED  BY <3>1, <3>3, <3>4, <3>5, TypePartsNext
  <2>6. ASSUME NEW k \in Cancels, NEW u \in Uploads, CancelCheck(k, u)
        PROVE  TypeOK'
    <3>1. RowsOK' /\ CreatesOK' /\ CompletesOK' /\ SweepOK' /\ faults' \in 0..MaxFaults
      BY <2>0, <2>6 DEF CancelCheck, OthersThanCancel, RowsOK, CreatesOK, CompletesOK, SweepOK
    <3>2. CancelsOK'
      BY <2>0, <2>6, SessionAssumption DEF CancelCheck, CancelsOK
    <3>. QED  BY <3>1, <3>2, TypePartsNext
  <2>7. ASSUME NEW k \in Cancels, CancelStep(k) \/ CancelDies(k)
        PROVE  TypeOK'
    <3>0. kpc[k] # "idle" /\ kjob[k] \in Uploads
      BY <2>0, <2>7 DEF CancelStep, CancelDies, CancelFinish, CancelAbort, CancelsOK
    <3>1. CreatesOK' /\ CompletesOK' /\ SweepOK'
      BY <2>0, <2>7 DEF CancelStep, CancelDies, CancelFinish, CancelAbort, OthersThanCancel,
            CreatesOK, CompletesOK, SweepOK
    <3>2. \E step \in {"idle", "finish", "abort"} : CancelAt(k, step)
      BY <2>7 DEF CancelStep, CancelDies, CancelFinish, CancelAbort
    <3>3. CancelsOK'
      BY <3>0, <3>2, CancelMoves DEF CancelsOK
    <3>4. faults' \in 0..MaxFaults
      BY <2>0, <2>7, FaultsBounded DEF CancelStep, CancelDies, CancelFinish, CancelAbort
    <3>5. RowsOK'
      BY <2>0, <2>7, <3>0, RowMoves DEF CancelStep, CancelDies, CancelFinish, CancelAbort, RowsOK, Status
    <3>. QED  BY <3>1, <3>3, <3>4, <3>5, TypePartsNext
  <2>8. ASSUME SweepStep \/ SweepDies
        PROVE  TypeOK'
    <3>0. spc # "idle" /\ sjob \in Uploads
      BY <2>0, <2>8 DEF SweepStep, SweepDies, SweepAbort, SweepDelete, SweepFinish, SweepOK
    <3>1. CreatesOK' /\ CompletesOK' /\ CancelsOK'
      BY <2>0, <2>8 DEF SweepStep, SweepDies, SweepAbort, SweepDelete, SweepFinish, OthersThanSweep,
            CreatesOK, CompletesOK, CancelsOK
    <3>2. SweepOK'
      BY <2>0, <2>8, <3>0, SessionAssumption
         DEF SweepStep, SweepDies, SweepAbort, SweepDelete, SweepFinish, SweepAt, SweepOK
    <3>3. faults' \in 0..MaxFaults
      BY <2>0, <2>8, FaultsBounded DEF SweepStep, SweepDies, SweepAbort, SweepDelete, SweepFinish
    <3>4. RowsOK'
      BY <2>0, <2>8, <3>0, RowMoves
         DEF SweepStep, SweepDies, SweepAbort, SweepDelete, SweepFinish, RowsOK, Status
    <3>. QED  BY <3>1, <3>2, <3>3, <3>4, TypePartsNext
  <2>9. CASE UNCHANGED vars
    <3>1. RowsOK' /\ CreatesOK' /\ CompletesOK' /\ CancelsOK' /\ SweepOK' /\ faults' \in 0..MaxFaults
      BY <2>0, <2>9 DEF vars, RowsOK, CreatesOK, CompletesOK, CancelsOK, SweepOK
    <3>. QED  BY <3>1, TypePartsNext
  <2>. QED
    BY <2>1, <2>2, <2>3, <2>4, <2>5, <2>6, <2>7, <2>8, <2>9 DEF Next, CreateStep
<1>. QED  BY <1>1, <1>2, PTL DEF Spec

(***************************************************************************)
(* Who writes the rows.  A status changes in three ways only: a create     *)
(* call writes the row of a new session, a complete call queues the job it *)
(* holds, and a compare-and-set ends a session that still uploads.         *)
(***************************************************************************)
Reserves(u) ==
    /\ jobStatus[u] = "absent"
    /\ jobStatus' = [jobStatus EXCEPT ![u] = "uploading"]
    /\ runs' = runs

Accepts(c) ==
    /\ cpc[c] = "queueWrite"
    /\ runs[cjob[c]] = 0
    /\ jobStatus' = [jobStatus EXCEPT ![cjob[c]] = "queued"]
    /\ runs' = [runs EXCEPT ![cjob[c]] = @ + 1]

Finishes(u) ==
    /\ \E s \in Status \ {"queued"} : FinishUpload(u, s)
    /\ runs' = runs

\* The only ways in which a job's row is written: reserved, accepted, ended.
LEMMA RowWriters ==
    ASSUME TypeOK, [Next]_vars
    PROVE  \/ \E u \in Uploads : Reserves(u)
           \/ \E c \in Completions : cjob[c] \in Uploads /\ Accepts(c)
           \/ \E u \in Uploads : Finishes(u)
           \/ UNCHANGED <<jobStatus, runs>>
<1>. USE DEF rowVars
<1>1. ASSUME NEW u \in Uploads, Reserve(u)
      PROVE  Reserves(u) \/ UNCHANGED <<jobStatus, runs>>
  BY <1>1 DEF Reserve, Reserved, Reserves
<1>2. ASSUME NEW u \in Uploads,
             \/ CreateMultipart(u) \/ AbortOwnMultipart(u) \/ CreateDies(u)
             \/ SessionExpires(u) \/ SweepPick(u)
      PROVE  UNCHANGED <<jobStatus, runs>>
  BY <1>2 DEF CreateMultipart, AbortOwnMultipart, CreateDies, SessionExpires, SweepPick
<1>3. ASSUME NEW c \in Completions, CompleteRefuse(c)
      PROVE  cjob[c] \in Uploads /\ Finishes(cjob[c])
  BY <1>3 DEF CompleteRefuse, Finishes, Status, TypeOK
<1>4. ASSUME NEW c \in Completions, QueueWrite(c)
      PROVE  (cjob[c] \in Uploads /\ Accepts(c)) \/ UNCHANGED <<jobStatus, runs>>
  BY <1>4 DEF QueueWrite, Accepts, TypeOK
<1>5. ASSUME NEW c \in Completions,
             \/ CompleteStat(c) \/ CompleteAssemble(c) \/ CompleteRestat(c)
             \/ CompleteDiscard(c) \/ QueueRead(c) \/ CompleteDies(c)
             \/ \E u \in Uploads : CompleteCheck(c, u)
      PROVE  UNCHANGED <<jobStatus, runs>>
  BY <1>5 DEF CompleteStat, CompleteAssemble, CompleteRestat, CompleteDiscard, QueueRead,
              CompleteDies, CompleteCheck
<1>6. ASSUME NEW k \in Cancels, CancelFinish(k)
      PROVE  kjob[k] \in Uploads /\ Finishes(kjob[k])
  BY <1>6 DEF CancelFinish, Finishes, Status, TypeOK
<1>7. ASSUME NEW k \in Cancels,
             CancelAbort(k) \/ CancelDies(k) \/ \E u \in Uploads : CancelCheck(k, u)
      PROVE  UNCHANGED <<jobStatus, runs>>
  BY <1>7 DEF CancelAbort, CancelDies, CancelCheck
<1>8. SweepFinish => sjob \in Uploads /\ Finishes(sjob)
  BY DEF SweepFinish, Finishes, Status, TypeOK
<1>9. SweepAbort \/ SweepDelete \/ SweepDies \/ UNCHANGED vars => UNCHANGED <<jobStatus, runs>>
  BY DEF SweepAbort, SweepDelete, SweepDies, vars
<1>. QED
  BY <1>1, <1>2, <1>3, <1>4, <1>5, <1>6, <1>7, <1>8, <1>9
     DEF Next, CreateStep, CompleteStep, CancelStep, SweepStep

(***************************************************************************)
(* Neither a cancel call nor the sweep that read a session before it was   *)
(* accepted undoes the acceptance: what they write is a compare-and-set,   *)
(* and the one write by id alone, of a complete call, accepts again.       *)
(***************************************************************************)
THEOREM AcceptedStaysAccepted == Spec => AcceptanceIsFinal
<1>1. TypeOK /\ [Next]_vars =>
        [\A u \in Uploads : jobStatus[u] = "queued" => jobStatus'[u] = "queued"]_vars
  <2>. SUFFICES ASSUME TypeOK, [Next]_vars, NEW u \in Uploads, jobStatus[u] = "queued"
                PROVE  jobStatus'[u] = "queued"
    OBVIOUS
  <2>1. ASSUME NEW v \in Uploads, Reserves(v)
        PROVE  jobStatus'[u] = "queued"
    BY <2>1 DEF Reserves, TypeOK
  <2>2. ASSUME NEW c \in Completions, cjob[c] \in Uploads, Accepts(c)
        PROVE  jobStatus'[u] = "queued"
    BY <2>2 DEF Accepts, TypeOK
  <2>3. ASSUME NEW v \in Uploads, Finishes(v)
        PROVE  jobStatus'[u] = "queued"
    BY <2>3 DEF Finishes, FinishUpload, TypeOK
  <2>. QED  BY <2>1, <2>2, <2>3, RowWriters
<1>. QED  BY <1>1, UploadTypeCorrect, PTL DEF Spec, AcceptanceIsFinal

(***************************************************************************)
(* A complete call that is about to queue its job has seen an object of    *)
(* the declared size, whether it assembled the object itself or found the  *)
(* one an earlier call left.                                               *)
(***************************************************************************)
QueuesOnlyRightSize ==
    \A c \in Completions : cpc[c] \in {"queue", "queueWrite"} => cjob[c] \notin Resized

\* What a call verified stays so until it queues it.
LEMMA RightSizeStays ==
    ASSUME TypeOK, [Next]_vars, QueuesOnlyRightSize
    PROVE  QueuesOnlyRightSize'
<1>. SUFFICES ASSUME NEW d \in Completions, cpc'[d] \in {"queue", "queueWrite"}
              PROVE  cjob'[d] \notin Resized
  BY DEF QueuesOnlyRightSize
<1>1. CASE UNCHANGED <<cpc, cjob>>
  BY <1>1 DEF QueuesOnlyRightSize
<1>2. ASSUME NEW c \in Completions, NEW u \in Uploads, CompleteCheck(c, u)
      PROVE  cjob'[d] \notin Resized
  BY <1>2 DEF CompleteCheck, QueuesOnlyRightSize, TypeOK
<1>3. ASSUME NEW c \in Completions, NEW step \in CompleteSteps, cpc[c] # "idle", CompleteAt(c, step),
             step \in {"queue", "queueWrite"} => cjob[c] \notin Resized
      PROVE  cjob'[d] \notin Resized
  BY <1>3, CompleteMoves DEF QueuesOnlyRightSize
<1>4. ASSUME NEW c \in Completions, CompleteStat(c) \/ CompleteRestat(c)
      PROVE  cjob'[d] \notin Resized
  <2>1. PICK step \in CompleteSteps : CompleteAt(c, step) /\ step \in {"assemble", "idle", Verified(cjob[c])}
    BY <1>4 DEF CompleteStat, CompleteRestat, Verified, CompleteSteps
  <2>2. step \in {"queue", "queueWrite"} => cjob[c] \notin Resized
    BY <2>1 DEF Verified, StatOf
  <2>. QED  BY <1>3, <1>4, <2>1, <2>2 DEF CompleteStat, CompleteRestat
<1>5. ASSUME NEW c \in Completions, QueueRead(c)
      PROVE  cjob'[d] \notin Resized
  <2>1. PICK step \in CompleteSteps : CompleteAt(c, step)
    BY <1>5 DEF QueueRead, CompleteSteps
  <2>. QED  BY <1>3, <1>5, <2>1 DEF QueueRead, QueuesOnlyRightSize
<1>6. ASSUME NEW c \in Completions,
             CompleteAssemble(c) \/ CompleteDiscard(c) \/ CompleteRefuse(c) \/ QueueWrite(c) \/ CompleteDies(c)
      PROVE  cjob'[d] \notin Resized
  <2>1. PICK step \in {"restat", "refuse", "idle"} : CompleteAt(c, step)
    BY <1>6 DEF CompleteAssemble, CompleteDiscard, CompleteRefuse, QueueWrite, CompleteDies
  <2>2. cpc[c] # "idle"
    BY <1>6 DEF CompleteAssemble, CompleteDiscard, CompleteRefuse, QueueWrite, CompleteDies
  <2>. QED  BY <1>3, <2>1, <2>2 DEF CompleteSteps
<1>7. ASSUME NEW u \in Uploads, CreateStep(u) \/ CreateDies(u) \/ SessionExpires(u) \/ SweepPick(u)
      PROVE  UNCHANGED <<cpc, cjob>>
  BY <1>7 DEF CreateStep, CreateMultipart, Reserve, AbortOwnMultipart, CreateDies, SessionExpires,
              SweepPick, OthersThanSweep, callVars
<1>8. ASSUME NEW k \in Cancels, CancelStep(k) \/ CancelDies(k) \/ \E u \in Uploads : CancelCheck(k, u)
      PROVE  UNCHANGED <<cpc, cjob>>
  BY <1>8 DEF CancelStep, CancelFinish, CancelAbort, CancelDies, CancelCheck, OthersThanCancel
<1>9. SweepStep \/ SweepDies \/ UNCHANGED vars => UNCHANGED <<cpc, cjob>>
  BY DEF SweepStep, SweepAbort, SweepDelete, SweepFinish, SweepDies, OthersThanSweep, vars, callVars
<1>. QED  BY <1>1, <1>2, <1>4, <1>5, <1>6, <1>7, <1>8, <1>9 DEF Next, CompleteStep

(* An upload that is not as long as was declared is never queued for       *)
(* import, however its complete calls interleave with one another, with    *)
(* cancels, the sweep and crashes.                                         *)
THEOREM OnlyDeclaredSize == Spec => []WrongSizeNeverQueued
<1>. DEFINE Inv == WrongSizeNeverQueued /\ QueuesOnlyRightSize
<1>1. Init => Inv
  BY SessionAssumption DEF Init, WrongSizeNeverQueued, QueuesOnlyRightSize
<1>2. Inv /\ TypeOK /\ [Next]_vars => Inv'
  <2>. SUFFICES ASSUME Inv, TypeOK, [Next]_vars
                PROVE  Inv'
    OBVIOUS
  <2>1. QueuesOnlyRightSize'
    BY RightSizeStays
  <2>2. WrongSizeNeverQueued'
    <3>. SUFFICES ASSUME NEW u \in Resized
                  PROVE  jobStatus'[u] # "queued"
      BY DEF WrongSizeNeverQueued
    <3>0. u \in Uploads /\ jobStatus[u] # "queued"
      BY SessionAssumption DEF WrongSizeNeverQueued
    <3>1. ASSUME NEW v \in Uploads, Reserves(v)
          PROVE  jobStatus'[u] # "queued"
      BY <3>0, <3>1 DEF Reserves, TypeOK
    <3>2. ASSUME NEW c \in Completions, cjob[c] \in Uploads, Accepts(c)
          PROVE  jobStatus'[u] # "queued"
      BY <3>0, <3>2 DEF Accepts, QueuesOnlyRightSize, TypeOK
    <3>3. ASSUME NEW v \in Uploads, Finishes(v)
          PROVE  jobStatus'[u] # "queued"
      BY <3>0, <3>3 DEF Finishes, FinishUpload, TypeOK
    <3>. QED  BY <3>0, <3>1, <3>2, <3>3, RowWriters
  <2>. QED  BY <2>1, <2>2
<1>3. Inv => WrongSizeNeverQueued
  OBVIOUS
<1>. QED  BY <1>1, <1>2, <1>3, UploadTypeCorrect, PTL DEF Spec

(***************************************************************************)
(* A job has its one processing run exactly when it is queued: two complete *)
(* calls for one upload never give it two, and no call that gives a session *)
(* up leaves a run behind for the worker.                                  *)
(***************************************************************************)
RunIffQueued ==
    \A u \in Uploads : runs[u] = IF jobStatus[u] = "queued" THEN 1 ELSE 0

(* Queueing and giving up agree about every session.                       *)
THEOREM OneRunPerAcceptance == Spec => []RunIffQueued
<1>1. Init => RunIffQueued
  BY DEF Init, RunIffQueued
<1>2. RunIffQueued /\ TypeOK /\ [Next]_vars => RunIffQueued'
  <2>. SUFFICES ASSUME RunIffQueued, TypeOK, [Next]_vars, NEW u \in Uploads
                PROVE  runs'[u] = IF jobStatus'[u] = "queued" THEN 1 ELSE 0
    BY DEF RunIffQueued
  <2>0. /\ runs[u] = IF jobStatus[u] = "queued" THEN 1 ELSE 0
        /\ runs \in [Uploads -> Nat] /\ jobStatus \in [Uploads -> Status]
    BY DEF RunIffQueued, TypeOK
  <2>1. ASSUME NEW v \in Uploads, Reserves(v)
        PROVE  runs'[u] = IF jobStatus'[u] = "queued" THEN 1 ELSE 0
    BY <2>0, <2>1 DEF Reserves
  <2>2. ASSUME NEW c \in Completions, cjob[c] \in Uploads, Accepts(c)
        PROVE  runs'[u] = IF jobStatus'[u] = "queued" THEN 1 ELSE 0
    BY <2>0, <2>2 DEF Accepts
  <2>3. ASSUME NEW v \in Uploads, Finishes(v)
        PROVE  runs'[u] = IF jobStatus'[u] = "queued" THEN 1 ELSE 0
    BY <2>0, <2>3 DEF Finishes, FinishUpload
  <2>. QED  BY <2>0, <2>1, <2>2, <2>3, RowWriters
<1>. QED  BY <1>1, <1>2, UploadTypeCorrect, PTL DEF Spec

(***************************************************************************)
(* The /mcp endpoint.                                                      *)
(***************************************************************************)
SlotStages == {"authenticate", "body", "handle", "authorize", "check", "delegate", "answered"}
Stages == SlotStages \cup {"arrived", "thrown", "closed"}
Codes == {"none", "forbidden", "busy", "unauthenticated", "broken", "too_large", "malformed", "internal",
          "admin_required", "cancelled", "upgrade_required", "invalid", "ok", "refused", "failed"}
Roles == {"unknown", "admin", "employee", "revoked"}

GateRequest ==
  [pc : Stages, slot : BOOLEAN, call : Arrivals, role : Roles, aborted : BOOLEAN,
   applied : BOOLEAN, audited : BOOLEAN, answer : Codes, retryable : BOOLEAN]

\* A call that may be handed to a route.
Fits(asked) == Upgraded(asked) /\ (asked.tool \in UploadTools => asked.bytes <= MaxUploadBytes)

\* A slot is held from its acquisition to the answer, and what is known of the
\* call grows with the stages.
Staged(q) ==
  q = NoRequest \/
    /\ q \in GateRequest
    /\ q.slot <=> q.pc \in SlotStages
    /\ q.pc = "delegate" => Fits(q.call)
    /\ q.pc \notin {"answered", "closed"} => ~q.applied /\ q.answer = "none"
    /\ q.applied => Fits(q.call) /\ (q.answer = "ok" \/ q.retryable)
    /\ q.answer = "ok" => q.applied
    /\ q.answer = "too_large" => q.call.bytes > MaxUploadBytes

Slots == {r \in Connections : gate[r].slot}

Limited ==
  /\ active \in Nat /\ active <= MaxConcurrent
  /\ IsFiniteSet(Slots) /\ Cardinality(Slots) = active

GatewayInv ==
  /\ gate \in [Connections -> GateRequest \cup {NoRequest}]
  /\ account \in {"admin", "employee", "revoked"}
  /\ \A r \in Connections : Staged(gate[r])
  /\ Limited

\* The numbers the gateway is configured with.
LEMMA GatewayLimits ==
  /\ MaxConcurrent \in Nat /\ MaxConcurrent # 0 /\ MaxUploadBytes \in Nat
  /\ EnvelopeBytes \in Nat /\ EnvelopeOverhead \in Nat /\ EnvelopeBytes + 2 <= EnvelopeOverhead
BY GatewayAssumption

\* The record of a request and its slot are written together.
LEMMA GateWritten ==
  ASSUME GatewayInv, NEW r \in Connections,
         gate' \in [Connections -> GateRequest \cup {NoRequest}],
         \A q \in Connections \ {r} : gate'[q] = gate[q],
         Staged(gate'[r]), account' \in {"admin", "employee", "revoked"},
         \/ gate'[r].slot = gate[r].slot /\ active' = active
         \/ gate[r].slot = FALSE /\ gate'[r].slot = TRUE /\ active < MaxConcurrent /\ active' = active + 1
         \/ gate[r].slot = TRUE /\ gate'[r].slot = FALSE /\ active' = active - 1
  PROVE  GatewayInv'
<1>0. /\ active \in Nat /\ active <= MaxConcurrent /\ MaxConcurrent \in Nat
      /\ IsFiniteSet(Slots) /\ Cardinality(Slots) = active
  BY GatewayLimits DEF GatewayInv, Limited
<1>1. \A q \in Connections : Staged(gate'[q])
  BY DEF GatewayInv
<1>2. CASE gate'[r].slot = gate[r].slot /\ active' = active
  <2>1. Slots' = Slots
    BY <1>2 DEF Slots
  <2>. QED  BY <1>0, <1>1, <1>2, <2>1 DEF GatewayInv, Limited
<1>3. CASE gate[r].slot = FALSE /\ gate'[r].slot = TRUE /\ active < MaxConcurrent /\ active' = active + 1
  <2>1. Slots' = Slots \cup {r} /\ r \notin Slots
    BY <1>3 DEF Slots
  <2>2. IsFiniteSet(Slots') /\ Cardinality(Slots') = active + 1
    BY <1>0, <2>1, FS_AddElement
  <2>3. active' \in Nat /\ active' <= MaxConcurrent
    BY <1>0, <1>3
  <2>. QED  BY <1>1, <1>3, <2>2, <2>3 DEF GatewayInv, Limited
<1>4. CASE gate[r].slot = TRUE /\ gate'[r].slot = FALSE /\ active' = active - 1
  <2>1. Slots' = Slots \ {r} /\ r \in Slots
    BY <1>4 DEF Slots
  <2>2. IsFiniteSet(Slots') /\ Cardinality(Slots') = active - 1
    BY <1>0, <2>1, FS_RemoveElement
  <2>3. Cardinality(Slots') \in Nat
    BY <2>2, FS_CardinalityType
  <2>4. active' \in Nat /\ active' <= MaxConcurrent
    BY <1>0, <1>4, <2>2, <2>3
  <2>. QED  BY <1>1, <1>4, <2>2, <2>4 DEF GatewayInv, Limited
<1>. QED  BY <1>2, <1>3, <1>4

\* A file within the limit passes the two checks of encoded lengths.
LEMMA EncodedSizes ==
  ASSUME NEW bytes \in Nat, bytes <= MaxUploadBytes
  PROVE  /\ EncodedLength(bytes) <= maxBase64EncodedLength
         /\ EnvelopeBytes + EncodedLength(bytes) <= mcpBodyLimitBytes
<1>1. EncodedLength(bytes) <= maxBase64EncodedLength
  BY GatewayLimits DEF EncodedLength, maxBase64EncodedLength, Ceil
<1>2. maxBase64EncodedLength <= Ceil(MaxUploadBytes * 4, 3) + 2
  BY GatewayLimits DEF maxBase64EncodedLength, Ceil
<1>3. EncodedLength(bytes) \in Int /\ maxBase64EncodedLength \in Int /\ Ceil(MaxUploadBytes * 4, 3) \in Int
  BY GatewayLimits DEF EncodedLength, maxBase64EncodedLength, Ceil
<1>. QED  BY <1>1, <1>2, <1>3, GatewayLimits DEF mcpBodyLimitBytes

\* Each objection to a call is about what the call is, and a call without one fits.
LEMMA ObjectionsAreTrue ==
  ASSUME NEW asked \in Arrivals, NEW aborted \in BOOLEAN
  PROVE  /\ asked.tool \in UploadTools /\ UploadObjection(asked, aborted) = "none" => Fits(asked)
         /\ UploadObjection(asked, aborted) = "too_large" => asked.bytes > MaxUploadBytes
         /\ UploadObjection(asked, aborted) \in Codes \ {"ok"}
         /\ asked.tool \notin UploadTools /\ CallObjection(asked, aborted) = "none" => Fits(asked)
         /\ CallObjection(asked, aborted) \in Codes \ {"ok", "too_large"}
<1>0. asked.bytes \in Nat /\ MaxUploadBytes \in Nat
  BY ArrivalsAssumption, GatewayLimits
<1>1. ~preflightEncodedUploadSize(asked) => asked.bytes > MaxUploadBytes
  BY <1>0, EncodedSizes DEF preflightEncodedUploadSize
<1>2. /\ decodeUploadFile(asked) => asked.bytes <= MaxUploadBytes
      /\ ~decodeUploadFile(asked) => asked.bytes > MaxUploadBytes
  BY <1>0 DEF decodeUploadFile
<1>3. /\ UploadObjection(asked, aborted) \in {"cancelled", "upgrade_required", "too_large", "invalid", "none"}
      /\ UploadObjection(asked, aborted) = "none" => Upgraded(asked) /\ decodeUploadFile(asked)
      /\ UploadObjection(asked, aborted) = "too_large" => ~preflightEncodedUploadSize(asked) \/ ~decodeUploadFile(asked)
  BY DEF UploadObjection
<1>4. /\ CallObjection(asked, aborted) \in {"invalid", "upgrade_required", "cancelled", "none"}
      /\ CallObjection(asked, aborted) = "none" => Upgraded(asked)
  BY DEF CallObjection
<1>. QED  BY <1>1, <1>2, <1>3, <1>4 DEF Fits, Codes

\* A request under way has all the fields of its record.
LEMMA GateOpen ==
  ASSUME GatewayInv, NEW r \in Connections, gate[r].pc # "idle"
  PROVE  gate[r] \in GateRequest /\ gate[r] # NoRequest /\ Staged(gate[r])
BY DEF GatewayInv, NoRequest

\* A step within the call that keeps the slot as it is.
LEMMA GateMoves ==
  ASSUME GatewayInv, NEW r \in Connections, gate[r].pc # "idle",
         NEW x \in GateRequest, gate' = [gate EXCEPT ![r] = x], x.slot = gate[r].slot, Staged(x),
         UNCHANGED <<active, account>>
  PROVE  GatewayInv'
<1>1. /\ gate' \in [Connections -> GateRequest \cup {NoRequest}]
      /\ \A q \in Connections \ {r} : gate'[q] = gate[q]
      /\ gate'[r] = x
  BY DEF GatewayInv
<1>. QED  BY <1>1, GateWritten DEF GatewayInv

\* A call ends and gives its slot back, if it holds one.
LEMMA GateEnds ==
  ASSUME GatewayInv, NEW r \in Connections, gate[r].pc # "idle",
         NEW x \in GateRequest, gate' = [gate EXCEPT ![r] = x], x.slot = FALSE, Staged(x),
         active' = Released(r), UNCHANGED account
  PROVE  GatewayInv'
<1>1. /\ gate' \in [Connections -> GateRequest \cup {NoRequest}]
      /\ \A q \in Connections \ {r} : gate'[q] = gate[q]
      /\ gate'[r] = x
  BY DEF GatewayInv
<1>2. gate[r].slot \in BOOLEAN
  BY GateOpen DEF GateRequest
<1>. QED  BY <1>1, <1>2, GateWritten DEF GatewayInv, Released

LEMMA EndsStep ==
  ASSUME GatewayInv, NEW r \in Connections, NEW code \in Codes, Ends(r, code),
         gate[r].pc \in {"arrived", "authenticate", "body", "thrown"},
         code # "ok", code = "too_large" => gate[r].call.bytes > MaxUploadBytes
  PROVE  GatewayInv'
<1>. DEFINE x == [gate[r] EXCEPT !.pc = "closed", !.slot = FALSE, !.answer = code, !.retryable = FALSE]
<1>1. gate[r].pc # "idle" /\ gate[r] \in GateRequest /\ gate[r] # NoRequest /\ Staged(gate[r])
  BY GateOpen
<1>2. x \in GateRequest /\ x.slot = FALSE
  BY <1>1 DEF GateRequest, Stages
<1>3. Staged(x)
  BY <1>1, <1>2 DEF Staged, GateRequest, SlotStages
<1>4. gate' = [gate EXCEPT ![r] = x]
  BY <1>1 DEF Ends, GatewayInv
<1>. HIDE DEF x
<1>. QED  BY <1>1, <1>2, <1>3, <1>4, GateEnds DEF Ends

LEMMA MovesStep ==
  ASSUME GatewayInv, NEW r \in Connections, NEW pc \in SlotStages \ {"answered"}, Moves(r, pc),
         gate[r].pc \in SlotStages \ {"answered"},
         pc = "delegate" => Fits(gate[r].call), UNCHANGED <<active, account>>
  PROVE  GatewayInv'
<1>. DEFINE x == [gate[r] EXCEPT !.pc = pc]
<1>1. gate[r].pc # "idle" /\ gate[r] \in GateRequest /\ gate[r] # NoRequest /\ Staged(gate[r])
  BY GateOpen DEF SlotStages
<1>2. x \in GateRequest /\ x.slot = gate[r].slot
  BY <1>1 DEF GateRequest, Stages
<1>3. Staged(x)
  BY <1>1, <1>2 DEF Staged, GateRequest, SlotStages
<1>4. gate' = [gate EXCEPT ![r] = x]
  BY <1>1 DEF Moves, GatewayInv
<1>. HIDE DEF x
<1>. QED  BY <1>1, <1>2, <1>3, <1>4, GateMoves

LEMMA AnswersStep ==
  ASSUME GatewayInv, NEW r \in Connections, NEW code \in Codes, NEW again \in BOOLEAN,
         NEW done \in BOOLEAN, NEW written \in BOOLEAN,
         gate[r].pc \in SlotStages \ {"answered"},
         gate' = [gate EXCEPT ![r] = [gate[r] EXCEPT !.pc = "answered", !.applied = done, !.answer = code,
                                                     !.retryable = again, !.audited = written]],
         done => Fits(gate[r].call) /\ (code = "ok" \/ again),
         code = "ok" => done, code = "too_large" => gate[r].call.bytes > MaxUploadBytes,
         UNCHANGED <<active, account>>
  PROVE  GatewayInv'
<1>. DEFINE x == [gate[r] EXCEPT !.pc = "answered", !.applied = done, !.answer = code,
                                 !.retryable = again, !.audited = written]
<1>1. gate[r].pc # "idle" /\ gate[r] \in GateRequest /\ gate[r] # NoRequest /\ Staged(gate[r])
  BY GateOpen DEF SlotStages
<1>2. x \in GateRequest /\ x.slot = gate[r].slot
  BY <1>1 DEF GateRequest, Stages, SlotStages
<1>3. Staged(x)
  BY <1>1, <1>2 DEF Staged, GateRequest, SlotStages
<1>. HIDE DEF x
<1>4. gate' = [gate EXCEPT ![r] = x]
  BY DEF x
<1>. QED  BY <1>1, <1>2, <1>3, <1>4, GateMoves

\* The steps up to the handler.
LEMMA GateEntry ==
  ASSUME GatewayInv, NEW r \in Connections,
         \/ \E asked \in Arrivals : Arrive(r, asked)
         \/ GuardRequest(r) \/ AcquireSlot(r) \/ Authenticate(r) \/ RequestBreaks(r) \/ ParseBody(r)
  PROVE  GatewayInv'
<1>1. ASSUME NEW asked \in Arrivals, Arrive(r, asked)
      PROVE  GatewayInv'
  <2>. DEFINE x == [pc |-> "arrived", slot |-> FALSE, call |-> asked, role |-> "unknown", aborted |-> FALSE,
                    applied |-> FALSE, audited |-> FALSE, answer |-> "none", retryable |-> FALSE]
  <2>1. x \in GateRequest /\ x.slot = FALSE
    BY DEF GateRequest, Stages, Roles, Codes
  <2>2. Staged(x)
    BY <2>1 DEF Staged, SlotStages
  <2>3. gate' = [gate EXCEPT ![r] = x] /\ UNCHANGED <<active, account>> /\ gate[r] = NoRequest
    BY <1>1 DEF Arrive
  <2>. HIDE DEF x
  <2>4. /\ gate' \in [Connections -> GateRequest \cup {NoRequest}]
        /\ \A q \in Connections \ {r} : gate'[q] = gate[q]
        /\ gate'[r] = x
    BY <2>1, <2>3 DEF GatewayInv
  <2>5. gate[r].slot = FALSE /\ gate'[r].slot = FALSE /\ Staged(gate'[r])
    BY <2>1, <2>2, <2>3, <2>4 DEF NoRequest
  <2>6. account' \in {"admin", "employee", "revoked"}
    BY <2>3 DEF GatewayInv
  <2>. QED  BY <2>3, <2>4, <2>5, <2>6, GateWritten
<1>2. CASE GuardRequest(r)
  BY <1>2, EndsStep DEF GuardRequest, Codes
<1>3. CASE AcquireSlot(r)
  <2>0. /\ gate[r].pc = "arrived" /\ gate[r] \in GateRequest /\ gate[r] # NoRequest /\ Staged(gate[r])
        /\ gate[r].slot = FALSE
    BY <1>3, GateOpen DEF AcquireSlot, Staged, SlotStages, GateRequest
  <2>1. CASE active >= MaxConcurrent
    <3>. DEFINE x == [gate[r] EXCEPT !.pc = "closed", !.answer = "busy", !.retryable = TRUE]
    <3>1. x \in GateRequest /\ x.slot = gate[r].slot
      BY <2>0 DEF GateRequest, Stages, Codes
    <3>2. Staged(x)
      BY <2>0, <3>1 DEF Staged, GateRequest, SlotStages
    <3>3. gate' = [gate EXCEPT ![r] = x] /\ UNCHANGED <<active, account>>
      BY <1>3, <2>0, <2>1 DEF AcquireSlot, GatewayInv
    <3>. HIDE DEF x
    <3>. QED  BY <2>0, <3>1, <3>2, <3>3, GateMoves
  <2>2. CASE ~(active >= MaxConcurrent)
    <3>. DEFINE x == [gate[r] EXCEPT !.pc = "authenticate", !.slot = TRUE]
    <3>1. x \in GateRequest /\ x.slot = TRUE
      BY <2>0 DEF GateRequest, Stages, SlotStages
    <3>2. Staged(x)
      BY <2>0, <3>1 DEF Staged, GateRequest, SlotStages
    <3>3. gate' = [gate EXCEPT ![r] = x] /\ active' = active + 1 /\ UNCHANGED account
      BY <1>3, <2>0, <2>2 DEF AcquireSlot, GatewayInv
    <3>. HIDE DEF x
    <3>4. /\ gate' \in [Connections -> GateRequest \cup {NoRequest}]
          /\ \A q \in Connections \ {r} : gate'[q] = gate[q]
          /\ gate'[r] = x
      BY <3>1, <3>3 DEF GatewayInv
    <3>5. active < MaxConcurrent
      BY <2>2, GatewayLimits DEF GatewayInv, Limited
    <3>. QED  BY <2>0, <3>1, <3>2, <3>3, <3>4, <3>5, GateWritten DEF GatewayInv
  <2>. QED  BY <2>1, <2>2
<1>4. CASE Authenticate(r)
  <2>1. CASE account = "revoked"
    BY <1>4, <2>1, EndsStep DEF Authenticate, Codes
  <2>2. CASE account # "revoked"
    <3>0. gate[r].pc = "authenticate" /\ gate[r] \in GateRequest /\ gate[r] # NoRequest /\ Staged(gate[r])
      BY <1>4, GateOpen DEF Authenticate
    <3>. DEFINE x == [gate[r] EXCEPT !.pc = "body", !.role = account]
    <3>1. x \in GateRequest /\ x.slot = gate[r].slot
      BY <3>0 DEF GateRequest, Stages, SlotStages, Roles, GatewayInv
    <3>2. Staged(x)
      BY <3>0, <3>1 DEF Staged, GateRequest, SlotStages
    <3>3. gate' = [gate EXCEPT ![r] = x] /\ UNCHANGED <<active, account>>
      BY <1>4, <2>2, <3>0 DEF Authenticate, GatewayInv
    <3>. HIDE DEF x
    <3>. QED  BY <3>0, <3>1, <3>2, <3>3, GateMoves
  <2>. QED  BY <2>1, <2>2
<1>5. CASE RequestBreaks(r)
  BY <1>5, EndsStep DEF RequestBreaks, Codes
<1>6. CASE ParseBody(r)
  <2>0. gate[r].pc = "body" /\ gate[r].call \in Arrivals
    BY <1>6, GateOpen DEF ParseBody, GateRequest
  <2>1. BodyBytes(gate[r].call) > mcpBodyLimitBytes => gate[r].call.bytes > MaxUploadBytes
    <3>. SUFFICES ASSUME ~(gate[r].call.bytes > MaxUploadBytes)
                  PROVE  ~(BodyBytes(gate[r].call) > mcpBodyLimitBytes)
      OBVIOUS
    <3>1. gate[r].call.bytes \in Nat /\ gate[r].call.bytes <= MaxUploadBytes
      BY <2>0, ArrivalsAssumption, GatewayLimits
    <3>2. BodyBytes(gate[r].call) <= mcpBodyLimitBytes
      BY <3>1, EncodedSizes DEF BodyBytes
    <3>3. BodyBytes(gate[r].call) \in Int /\ mcpBodyLimitBytes \in Int
      BY <3>1, GatewayLimits DEF BodyBytes, mcpBodyLimitBytes, EncodedLength, Ceil
    <3>. QED  BY <3>2, <3>3
  <2>. QED  BY <1>6, <2>0, <2>1, EndsStep, MovesStep DEF ParseBody, Codes, SlotStages
<1>. QED  BY <1>1, <1>2, <1>3, <1>4, <1>5, <1>6

\* The handler: what is handed to a route fits, and what is answered is so.
LEMMA GateHandler ==
  ASSUME GatewayInv, NEW r \in Connections,
         \/ CheckEnvelope(r) \/ HandlerThrows(r) \/ HandleError(r) \/ AbortCall(r) \/ AuthorizeUpload(r)
         \/ uploadStructuredDataset(r) \/ uploadEvidenceDocument(r) \/ uploadQuarantineCertificate(r)
         \/ ReadTool(r) \/ ActionTool(r) \/ delegateMultipartRequest(r) \/ delegateJsonApiRequest(r)
         \/ CloseRequest(r) \/ Leave(r)
  PROVE  GatewayInv'
<1>0. gate[r].pc # "idle" /\ gate[r] \in GateRequest /\ gate[r] # NoRequest /\ Staged(gate[r])
  <2>1. gate[r].pc # "idle"
    BY DEF CheckEnvelope, HandlerThrows, HandleError, AbortCall, AuthorizeUpload, uploadStructuredDataset,
           uploadEvidenceDocument, uploadQuarantineCertificate, ReadTool, ActionTool,
           delegateMultipartRequest, delegateJsonApiRequest, CloseRequest, Leave
  <2>. QED  BY <2>1, GateOpen
<1>1. ASSUME NEW code \in Codes \ {"ok"}, NEW again \in BOOLEAN, Answers(r, code, again),
             gate[r].pc \in SlotStages \ {"answered"},
             code = "too_large" => gate[r].call.bytes > MaxUploadBytes, UNCHANGED <<active, account>>
      PROVE  GatewayInv'
  <2>1. gate[r].applied = FALSE /\ gate[r].audited \in BOOLEAN
    BY <1>0, <1>1 DEF Staged, GateRequest, SlotStages
  <2>2. gate' = [gate EXCEPT ![r] = [gate[r] EXCEPT !.pc = "answered", !.applied = FALSE, !.answer = code,
                                             !.retryable = again, !.audited = gate[r].audited]]
    BY <1>0, <1>1, <2>1 DEF Answers, GatewayInv, GateRequest
  <2>. QED  BY <1>1, <2>1, <2>2, AnswersStep
<1>2. CASE CheckEnvelope(r)
  BY <1>1, <1>2, MovesStep DEF CheckEnvelope, Codes, SlotStages
<1>3. CASE HandlerThrows(r)
  <2>. DEFINE x == [gate[r] EXCEPT !.pc = "thrown", !.slot = FALSE]
  <2>1. x \in GateRequest /\ x.slot = FALSE
    BY <1>0 DEF GateRequest, Stages
  <2>2. Staged(x)
    BY <1>0, <1>3, <2>1 DEF Staged, GateRequest, SlotStages, HandlerThrows
  <2>3. gate' = [gate EXCEPT ![r] = x] /\ active' = Released(r) /\ UNCHANGED account
    BY <1>0, <1>3 DEF HandlerThrows, GatewayInv
  <2>. HIDE DEF x
  <2>. QED  BY <1>0, <2>1, <2>2, <2>3, GateEnds
<1>4. CASE HandleError(r)
  BY <1>4, EndsStep DEF HandleError, Codes
<1>5. CASE AbortCall(r)
  <2>. DEFINE x == [gate[r] EXCEPT !.aborted = TRUE]
  <2>1. x \in GateRequest /\ x.slot = gate[r].slot
    BY <1>0 DEF GateRequest
  <2>2. Staged(x)
    BY <1>0, <2>1 DEF Staged, GateRequest
  <2>3. gate' = [gate EXCEPT ![r] = x] /\ UNCHANGED <<active, account>>
    BY <1>0, <1>5 DEF AbortCall, GatewayInv
  <2>. HIDE DEF x
  <2>. QED  BY <1>0, <2>1, <2>2, <2>3, GateMoves
<1>6. CASE AuthorizeUpload(r)
  <2>0. gate[r].pc = "authorize" /\ UNCHANGED <<active, account>>
    BY <1>6 DEF AuthorizeUpload
  <2>1. CASE gate[r].role = "admin"
    BY <1>6, <2>0, <2>1, MovesStep DEF AuthorizeUpload, SlotStages
  <2>2. ASSUME NEW written \in BOOLEAN,
               gate' = [gate EXCEPT ![r].pc = "answered", ![r].answer = "admin_required", ![r].audited = written]
        PROVE  GatewayInv'
    <3>1. gate[r].applied = FALSE /\ gate[r].retryable \in BOOLEAN
      BY <1>0, <2>0 DEF Staged, GateRequest
    <3>2. gate' = [gate EXCEPT ![r] = [gate[r] EXCEPT !.pc = "answered", !.applied = FALSE,
                          !.answer = "admin_required", !.retryable = gate[r].retryable, !.audited = written]]
      BY <1>0, <2>2, <3>1 DEF GatewayInv, GateRequest
    <3>. QED  BY <2>0, <3>1, <3>2, AnswersStep DEF SlotStages, Codes
  <2>. QED  BY <1>6, <2>1, <2>2 DEF AuthorizeUpload
<1>7. CASE \/ uploadStructuredDataset(r) \/ uploadEvidenceDocument(r) \/ uploadQuarantineCertificate(r)
           \/ ReadTool(r) \/ ActionTool(r)
  <2>1. PICK objection \in {UploadObjection(gate[r].call, gate[r].aborted),
                            CallObjection(gate[r].call, gate[r].aborted)} :
          /\ gate[r].pc = "check" /\ CheckedWith(r, objection)
          /\ IF gate[r].call.tool \in UploadTools
             THEN objection = UploadObjection(gate[r].call, gate[r].aborted)
             ELSE objection = CallObjection(gate[r].call, gate[r].aborted)
    BY <1>7 DEF uploadStructuredDataset, uploadEvidenceDocument, uploadQuarantineCertificate, ReadTool,
                ActionTool, UploadTools, ReadTools, ActionTools
  <2>2. /\ objection = "none" => Fits(gate[r].call)
        /\ objection = "too_large" => gate[r].call.bytes > MaxUploadBytes
        /\ objection \in Codes \ {"ok"}
    BY <1>0, <2>1, ObjectionsAreTrue DEF GateRequest
  <2>3. CASE objection = "none"
    BY <2>1, <2>2, <2>3, MovesStep DEF CheckedWith, SlotStages
  <2>4. CASE objection # "none"
    BY <1>1, <2>1, <2>2, <2>4 DEF CheckedWith, SlotStages
  <2>. QED  BY <2>3, <2>4
<1>8. CASE delegateMultipartRequest(r) \/ delegateJsonApiRequest(r)
  <2>0. gate[r].pc = "delegate" /\ Delegated(r) /\ UNCHANGED <<active, account>>
    BY <1>8 DEF delegateMultipartRequest, delegateJsonApiRequest, Delegated
  <2>1. Fits(gate[r].call) /\ gate[r].audited \in BOOLEAN /\ gate[r].retryable \in BOOLEAN
    BY <1>0, <2>0 DEF Staged, GateRequest
  <2>2. CASE gate' = [gate EXCEPT ![r].pc = "answered", ![r].applied = TRUE, ![r].answer = "ok"]
    <3>1. gate' = [gate EXCEPT ![r] = [gate[r] EXCEPT !.pc = "answered", !.applied = TRUE, !.answer = "ok",
                                   !.retryable = gate[r].retryable, !.audited = gate[r].audited]]
      BY <1>0, <2>2 DEF GatewayInv, GateRequest
    <3>. QED  BY <2>0, <2>1, <3>1, AnswersStep DEF SlotStages, Codes
  <2>3. CASE Answers(r, "refused", FALSE)
    BY <1>1, <2>0, <2>3 DEF SlotStages, Codes
  <2>4. ASSUME NEW done \in BOOLEAN,
               gate' = [gate EXCEPT ![r].pc = "answered", ![r].applied = done, ![r].answer = "failed",
                                    ![r].retryable = RetryableFailure]
        PROVE  GatewayInv'
    <3>1. gate' = [gate EXCEPT ![r] = [gate[r] EXCEPT !.pc = "answered", !.applied = done, !.answer = "failed",
                                   !.retryable = TRUE, !.audited = gate[r].audited]]
      BY <1>0, <2>4 DEF GatewayInv, GateRequest, RetryableFailure
    <3>. QED  BY <2>0, <2>1, <3>1, AnswersStep DEF SlotStages, Codes
  <2>. QED  BY <2>0, <2>2, <2>3, <2>4 DEF Delegated
<1>9. CASE CloseRequest(r)
  <2>. DEFINE x == [gate[r] EXCEPT !.pc = "closed", !.slot = FALSE]
  <2>1. x \in GateRequest /\ x.slot = FALSE
    BY <1>0 DEF GateRequest, Stages
  <2>2. Staged(x)
    BY <1>0, <1>9, <2>1 DEF Staged, GateRequest, SlotStages, CloseRequest
  <2>3. gate' = [gate EXCEPT ![r] = x] /\ active' = Released(r) /\ UNCHANGED account
    BY <1>0, <1>9 DEF CloseRequest, GatewayInv
  <2>. HIDE DEF x
  <2>. QED  BY <1>0, <2>1, <2>2, <2>3, GateEnds
<1>10. CASE Leave(r)
  <2>1. gate[r].pc = "closed" /\ gate[r].slot = FALSE
    BY <1>0, <1>10 DEF Leave, Staged, SlotStages, GateRequest
  <2>2. /\ gate' \in [Connections -> GateRequest \cup {NoRequest}]
        /\ \A q \in Connections \ {r} : gate'[q] = gate[q]
        /\ gate'[r] = NoRequest /\ UNCHANGED <<active, account>>
    BY <1>10 DEF Leave, GatewayInv
  <2>3. gate'[r].slot = FALSE /\ Staged(gate'[r])
    BY <2>2 DEF Staged, NoRequest
  <2>4. account' \in {"admin", "employee", "revoked"}
    BY <2>2 DEF GatewayInv
  <2>. QED  BY <2>1, <2>2, <2>3, <2>4, GateWritten
<1>. QED  BY <1>2, <1>3, <1>4, <1>5, <1>6, <1>7, <1>8, <1>9, <1>10

\* Every step of a request keeps it.
LEMMA GatewayStep == GatewayInv /\ [GatewayNext]_gatewayVars => GatewayInv'
<1>. SUFFICES ASSUME GatewayInv, [GatewayNext]_gatewayVars
              PROVE  GatewayInv'
  OBVIOUS
<1>1. CASE UNCHANGED gatewayVars
  BY <1>1 DEF gatewayVars, GatewayInv, Limited, Slots
<1>2. CASE ChangeAccount
  BY <1>2 DEF ChangeAccount, GatewayInv, Limited, Slots
<1>. QED  BY <1>1, <1>2, GateEntry, GateHandler DEF GatewayNext

\* Before the first request no slot is taken.
LEMMA GatewayStart == GatewayInit => GatewayInv
<1>. SUFFICES ASSUME GatewayInit
              PROVE  GatewayInv
  OBVIOUS
<1>1. Slots = {}
  BY DEF GatewayInit, Slots, NoRequest
<1>2. Limited
  BY <1>1, FS_EmptySet, GatewayLimits DEF GatewayInit, Limited
<1>. QED  BY <1>2 DEF GatewayInit, GatewayInv, Staged

\* A slot is taken exactly in the stages between admission and the end of a call, and the
\* number of slots taken stays within the limit (mcpConcurrencyLimiter).
THEOREM GatewayInvariant == GatewaySpec => []GatewayInv
BY GatewayStart, GatewayStep, PTL DEF GatewaySpec

\* However requests end - refused, broken off while they authenticate or send, thrown
\* by the handler, answered - each has given its slot back once when it is over, and
\* the limiter's counter never drifts (registerMcpHttpRoute).
THEOREM SlotsReturned == GatewaySpec => []SlotsAreReturned
<1>1. GatewayInv => SlotsAreReturned
  BY DEF GatewayInv, Limited, Slots, SlotsAreReturned, Staged, NoRequest, SlotStages
<1>. QED  BY <1>1, GatewayInvariant, PTL

\* A launcher that passes the comparison of its version has the rank of the minimum:
\* the order of parts with a prerelease below its release.
LEMMA VersionOrder ==
  ASSUME NEW v \in {NoVersion} \cup [numbers : Nat \X Nat \X Nat, pre : BOOLEAN],
         NEW x \in 0..20, NEW y \in 0..20, NEW z \in 0..20,
         launcherVersionAtLeast(v, Version(x, y, z))
  PROVE  v # NoVersion /\ VersionRank(v) >= VersionRank(Version(x, y, z))
<1>1. v # NoVersion
  BY DEF launcherVersionAtLeast
<1>2. PICK a \in Nat, b \in Nat, c \in Nat : v.numbers = <<a, b, c>>
  BY <1>1
<1>3. v.pre \in BOOLEAN /\ v.numbers[1] = a /\ v.numbers[2] = b /\ v.numbers[3] = c
  BY <1>1, <1>2
<1>4. /\ Version(x, y, z).numbers[1] = x /\ Version(x, y, z).numbers[2] = y
      /\ Version(x, y, z).numbers[3] = z /\ Version(x, y, z).pre = FALSE
  BY DEF Version
<1>5. \/ a = x /\ b = y /\ c = z /\ ~v.pre
      \/ a > x \/ (a = x /\ b > y) \/ (a = x /\ b = y /\ c > z)
  <2>. DEFINE differ == {i \in 1..3 : v.numbers[i] # Version(x, y, z).numbers[i]}
  <2>1. CASE differ = {}
    <3>1. a = x /\ b = y /\ c = z
      BY <2>1, <1>3, <1>4
    <3>2. ~v.pre
      BY <2>1, <1>4 DEF launcherVersionAtLeast
    <3>. QED  BY <3>1, <3>2
  <2>2. CASE differ # {}
    <3>1. PICK i \in differ : (\A j \in differ : i <= j) /\ v.numbers[i] > Version(x, y, z).numbers[i]
      BY <2>2 DEF launcherVersionAtLeast
    <3>2. CASE i = 1
      BY <3>1, <3>2, <1>3, <1>4
    <3>3. CASE i = 2
      <4>1. 1 \notin differ
        BY <3>1, <3>3
      <4>. QED  BY <3>1, <3>3, <4>1, <1>3, <1>4
    <3>4. CASE i = 3
      <4>1. 1 \notin differ /\ 2 \notin differ
        BY <3>1, <3>4
      <4>. QED  BY <3>1, <3>4, <4>1, <1>3, <1>4
    <3>. QED  BY <3>1, <3>2, <3>3, <3>4
  <2>. QED  BY <2>1, <2>2
<1>6. VersionRank(Version(x, y, z)) = x * 1000000 + y * 2000 + z * 2 + 1
  BY <1>4 DEF VersionRank
<1>7. VersionRank(v) = a * 1000000 + b * 2000 + c * 2 + (IF v.pre THEN 0 ELSE 1)
  BY <1>3 DEF VersionRank
<1>8. (IF v.pre THEN 0 ELSE 1) \in {0, 1} /\ (~v.pre => (IF v.pre THEN 0 ELSE 1) = 1)
  BY <1>3
<1>. QED  BY <1>1, <1>5, <1>6, <1>7, <1>8

\* A tool has no minimum version or one with small parts.
LEMMA MinimumKnown ==
  ASSUME NEW tool, NEW dataset
  PROVE  \/ MinimumVersion(tool, dataset) = NoVersion
         \/ \E x \in 0..20, y \in 0..20, z \in 0..20 : MinimumVersion(tool, dataset) = Version(x, y, z)
<1>1. MinimumVersion(tool, dataset) \in
        {NoVersion, Version(0, 15, 0), Version(0, 10, 0), Version(0, 5, 0), Version(0, 8, 1)}
  BY DEF MinimumVersion
<1>. QED  BY <1>1

\* What a client is told of a call that is over is what happened to it, for every
\* mixture of tools, launchers and files that clients send.
THEOREM AnswersTold == GatewaySpec => []AnswersAreTrue
<1>1. ASSUME GatewayInv, NEW r \in Connections, gate[r].pc = "closed"
      PROVE  LET asked == gate[r].call
                 minimum == MinimumVersion(asked.tool, asked.dataset) IN
             /\ gate[r].applied => gate[r].answer = "ok" \/ gate[r].retryable
             /\ gate[r].answer = "ok" => gate[r].applied
             /\ gate[r].applied /\ minimum # NoVersion =>
                  asked.version # NoVersion /\ VersionRank(asked.version) >= VersionRank(minimum)
             /\ gate[r].applied /\ asked.tool \in UploadTools => asked.bytes <= MaxUploadBytes
             /\ gate[r].answer = "too_large" => asked.bytes > MaxUploadBytes
  <2>. DEFINE asked == gate[r].call
  <2>1. gate[r] \in GateRequest /\ gate[r] # NoRequest /\ Staged(gate[r])
    BY <1>1, GateOpen
  <2>2. asked \in Arrivals
    BY <2>1 DEF GateRequest
  <2>3. ASSUME Fits(asked), MinimumVersion(asked.tool, asked.dataset) # NoVersion
        PROVE  /\ asked.version # NoVersion
               /\ VersionRank(asked.version) >= VersionRank(MinimumVersion(asked.tool, asked.dataset))
    <3>1. PICK x \in 0..20, y \in 0..20, z \in 0..20 :
             MinimumVersion(asked.tool, asked.dataset) = Version(x, y, z)
      BY <2>3, MinimumKnown
    <3>2. launcherVersionAtLeast(asked.version, Version(x, y, z))
      BY <2>3, <3>1 DEF Fits, Upgraded
    <3>3. asked.version \in {NoVersion} \cup [numbers : Nat \X Nat \X Nat, pre : BOOLEAN]
      BY <2>2, ArrivalsAssumption
    <3>. QED  BY <3>1, <3>2, <3>3, VersionOrder
  <2>. QED  BY <2>1, <2>3 DEF Staged, Fits
<1>2. GatewayInv => AnswersAreTrue
  BY <1>1 DEF AnswersAreTrue
<1>. QED  BY <1>2, GatewayInvariant, PTL

(***************************************************************************)
(* The source scope of order partitions.                                   *)
(***************************************************************************)
OnePerPlace == \A p, q \in orders : Place(p) = Place(q) => p = q

\* Any previews and uploads that have the fields of one.
PreviewRow(P, N, F, T, S, U, R, E, B) ==
  [actor : P, names : N, from : F, to : T, scope : S, file : U, snapshot : R, expired : E, bound : B]

UploadRow(P, S, V, T) == [actor : P, file : OrderFiles, scope : S, preview : V, status : T]

IsPreview(v) == \E P, N, F, T, S, U, R, E, B : v \in PreviewRow(P, N, F, T, S, U, R, E, B)

IsUpload(v) == \E P, S, V, T : v \in UploadRow(P, S, V, T)

PreviewsOK ==
  /\ previews = [x \in DOMAIN previews |-> previews[x]]
  /\ \A x \in DOMAIN previews : IsPreview(previews[x])

\* An upload that confirmed a preview keeps it, and what was confirmed is what was
\* shown: a bound preview is neither deleted nor changed.
Confirmed(u) ==
  uploads[u].preview # NoPreview =>
    /\ uploads[u].preview \in DOMAIN previews
    /\ LET v == previews[uploads[u].preview]
       IN  /\ v.bound /\ v.actor = uploads[u].actor
           /\ v.file = uploads[u].file.sum /\ v.scope = uploads[u].scope

UploadsOK ==
  /\ uploads = [x \in DOMAIN uploads |-> uploads[x]]
  /\ \A u \in DOMAIN uploads : IsUpload(uploads[u]) /\ Confirmed(u)

ScopeInv == OnePerPlace /\ PreviewsOK /\ UploadsOK

\* The row a candidate is published as.
LEMMA PublishedRow ==
  ASSUME NEW c
  PROVE  Place(PublishedOrder(c)) = Place(c) /\ PublishedOrder(c).name = c.name /\ PublishedOrder(c).scope = c.scope
<1>. DEFINE fresh(v) == [key |-> c.key, day |-> c.day, name |-> c.name, scope |-> c.scope,
                               version |-> v, sum |-> c.sum]
<1>1. PICK v : PublishedOrder(c) = fresh(v)
  BY DEF PublishedOrder
<1>. QED  BY <1>1 DEF Place

\* Bound previews keep what they say.
LEMMA ConfirmedKept ==
  ASSUME NEW u \in DOMAIN uploads, Confirmed(u), DOMAIN uploads \subseteq DOMAIN uploads',
         uploads'[u].preview = uploads[u].preview, uploads'[u].actor = uploads[u].actor,
         uploads'[u].file = uploads[u].file, uploads'[u].scope = uploads[u].scope,
         \A x \in DOMAIN previews : previews[x].bound =>
           /\ x \in DOMAIN previews' /\ previews'[x].bound
           /\ previews'[x].actor = previews[x].actor /\ previews'[x].file = previews[x].file
           /\ previews'[x].scope = previews[x].scope
  PROVE  Confirmed(u)'
BY DEF Confirmed

\* What confirming or expiring a preview does to its record.
LEMMA PreviewChanges ==
  ASSUME NEW v, IsPreview(v)
  PROVE  /\ IsPreview([v EXCEPT !.expired = TRUE]) /\ IsPreview([v EXCEPT !.bound = TRUE])
         /\ [v EXCEPT !.expired = TRUE].actor = v.actor /\ [v EXCEPT !.bound = TRUE].actor = v.actor
         /\ [v EXCEPT !.expired = TRUE].file = v.file /\ [v EXCEPT !.bound = TRUE].file = v.file
         /\ [v EXCEPT !.expired = TRUE].scope = v.scope /\ [v EXCEPT !.bound = TRUE].scope = v.scope
         /\ [v EXCEPT !.expired = TRUE].bound = v.bound /\ [v EXCEPT !.bound = TRUE].bound = TRUE
<1>1. PICK P, N, F, T, S, U, R, E, B : v \in PreviewRow(P, N, F, T, S, U, R, E, B)
  BY DEF IsPreview
<1>. DEFINE Widened == PreviewRow(P, N, F, T, S, U, R, E \cup {TRUE}, B \cup {TRUE})
<1>2. /\ [v EXCEPT !.expired = TRUE] \in Widened /\ [v EXCEPT !.bound = TRUE] \in Widened
      /\ [v EXCEPT !.expired = TRUE].actor = v.actor /\ [v EXCEPT !.bound = TRUE].actor = v.actor
      /\ [v EXCEPT !.expired = TRUE].file = v.file /\ [v EXCEPT !.bound = TRUE].file = v.file
      /\ [v EXCEPT !.expired = TRUE].scope = v.scope /\ [v EXCEPT !.bound = TRUE].scope = v.scope
      /\ [v EXCEPT !.expired = TRUE].bound = v.bound /\ [v EXCEPT !.bound = TRUE].bound = TRUE
  BY <1>1 DEF PreviewRow
<1>. HIDE DEF Widened
<1>3. IsPreview([v EXCEPT !.expired = TRUE]) /\ IsPreview([v EXCEPT !.bound = TRUE])
  <2>. USE DEF Widened
  <2>. QED  BY <1>2 DEF IsPreview
<1>. QED  BY <1>2, <1>3

\* What moving an upload to another status does to its record.
LEMMA UploadChanges ==
  ASSUME NEW v, IsUpload(v), NEW s
  PROVE  /\ IsUpload([v EXCEPT !.status = s])
         /\ [v EXCEPT !.status = s].actor = v.actor /\ [v EXCEPT !.status = s].file = v.file
         /\ [v EXCEPT !.status = s].scope = v.scope /\ [v EXCEPT !.status = s].preview = v.preview
<1>1. PICK P, S, V, T : v \in UploadRow(P, S, V, T)
  BY DEF IsUpload
<1>2. /\ [v EXCEPT !.status = s] \in UploadRow(P, S, V, T \cup {s})
      /\ [v EXCEPT !.status = s].actor = v.actor /\ [v EXCEPT !.status = s].file = v.file
      /\ [v EXCEPT !.status = s].scope = v.scope /\ [v EXCEPT !.status = s].preview = v.preview
  BY <1>1 DEF UploadRow
<1>. QED  BY <1>2 DEF IsUpload

\* A new preview is a snapshot of the places its names list.
LEMMA PrepareScope ==
  ASSUME ScopeInv, NEW a, NEW p \in PreviewIds, NEW names, NEW file, NEW scope,
         prepareOrderScopeTransition(a, p, names, file, scope)
  PROVE  ScopeInv'
<1>. DEFINE kept == {x \in DOMAIN previews : ~(Unbound(x) /\ previews[x].expired)}
            made == [actor |-> a, names |-> names, from |-> file.from, to |-> file.to, scope |-> scope,
                     file |-> file.sum, snapshot |-> orderScopeSnapshot(names, file.from, file.to),
                     expired |-> FALSE, bound |-> FALSE]
<1>1. /\ previews' = [x \in kept \cup {p} |-> IF x # p THEN previews[x] ELSE made]
      /\ p \notin DOMAIN previews /\ UNCHANGED <<orders, uploads>>
  BY DEF prepareOrderScopeTransition
<1>2. IsPreview(made)
  <2>1. made \in PreviewRow({a}, {names}, {file.from}, {file.to}, {scope}, {file.sum},
                            {orderScopeSnapshot(names, file.from, file.to)}, {FALSE}, {FALSE})
    BY DEF PreviewRow
  <2>. HIDE DEF made
  <2>. QED  BY <2>1 DEF IsPreview
<1>. HIDE DEF made
<1>3. \A x \in DOMAIN previews : previews[x].bound => x \in kept
  BY DEF Unbound
<1>4. /\ DOMAIN previews' = kept \cup {p}
      /\ \A x \in kept : previews'[x] = previews[x]
      /\ previews'[p] = made
  BY <1>1
<1>5. PreviewsOK'
  BY <1>1, <1>2, <1>4 DEF ScopeInv, PreviewsOK
<1>6. ASSUME NEW u \in DOMAIN uploads
      PROVE  Confirmed(u)'
  BY <1>1, <1>3, <1>4, ConfirmedKept DEF ScopeInv, UploadsOK
<1>7. UploadsOK' /\ OnePerPlace'
  BY <1>1, <1>6 DEF ScopeInv, UploadsOK, OnePerPlace
<1>. QED  BY <1>5, <1>7 DEF ScopeInv

\* An expired preview keeps what it said.
LEMMA ExpireScope ==
  ASSUME ScopeInv, NEW p \in PreviewIds, PreviewExpires(p)
  PROVE  ScopeInv'
<1>. DEFINE v == [previews[p] EXCEPT !.expired = TRUE]
<1>1. /\ previews' = [previews EXCEPT ![p] = v] /\ p \in DOMAIN previews
      /\ UNCHANGED <<orders, uploads>>
  BY DEF PreviewExpires, Unbound
<1>2. /\ IsPreview(v) /\ v.actor = previews[p].actor /\ v.file = previews[p].file
      /\ v.scope = previews[p].scope /\ v.bound = previews[p].bound
  BY <1>1, PreviewChanges DEF ScopeInv, PreviewsOK
<1>. HIDE DEF v
<1>3. /\ DOMAIN previews' = DOMAIN previews /\ previews' = [x \in DOMAIN previews' |-> previews'[x]]
      /\ \A x \in DOMAIN previews : x # p => previews'[x] = previews[x]
      /\ previews'[p] = v
  BY <1>1
<1>4. PreviewsOK'
  BY <1>2, <1>3 DEF ScopeInv, PreviewsOK
<1>5. \A u \in DOMAIN uploads : Confirmed(u)'
  BY <1>1, <1>2, <1>3, ConfirmedKept DEF ScopeInv, UploadsOK
<1>6. UploadsOK' /\ OnePerPlace'
  BY <1>1, <1>5 DEF ScopeInv, UploadsOK, OnePerPlace
<1>. QED  BY <1>4, <1>6 DEF ScopeInv

\* An upload is accepted with the scope and the snapshot its preview was confirmed with.
LEMMA ReserveScope ==
  ASSUME ScopeInv, NEW a, NEW u \in UploadIds, NEW file \in OrderFiles, NEW scope,
         NEW p \in PreviewIds \cup {NoPreview}, reserveUpload(a, u, file, scope, p)
  PROVE  ScopeInv'
<1>. DEFINE accepted == [actor |-> a, file |-> file, scope |-> effectiveOrderScope(scope),
                         preview |-> p, status |-> "open"]
            v == [previews[p] EXCEPT !.bound = TRUE]
<1>1. /\ uploads' = [x \in DOMAIN uploads \cup {u} |-> IF x # u THEN uploads[x] ELSE accepted]
      /\ u \notin DOMAIN uploads /\ UNCHANGED orders
  BY DEF reserveUpload
<1>2. /\ p = NoPreview => previews' = previews
      /\ p # NoPreview => /\ previews' = [previews EXCEPT ![p] = v] /\ p \in DOMAIN previews
                          /\ previews[p].actor = a /\ previews[p].scope = scope
                          /\ previews[p].file = file.sum /\ scope # "undeclared"
  BY DEF reserveUpload, confirmedOrderScopePreview, Unbound
<1>3. /\ accepted.actor = a /\ accepted.file = file /\ accepted.preview = p
      /\ scope # "undeclared" => accepted.scope = scope
  BY DEF effectiveOrderScope
<1>4. IsUpload(accepted)
  <2>1. accepted \in UploadRow({a}, {effectiveOrderScope(scope)}, {p}, {"open"})
    BY DEF UploadRow
  <2>. HIDE DEF accepted
  <2>. QED  BY <2>1 DEF IsUpload
<1>5. p # NoPreview => /\ IsPreview(v) /\ v.actor = previews[p].actor /\ v.file = previews[p].file
                       /\ v.scope = previews[p].scope /\ v.bound
  BY <1>2, PreviewChanges DEF ScopeInv, PreviewsOK
<1>. HIDE DEF accepted, v
<1>6. /\ DOMAIN uploads' = DOMAIN uploads \cup {u} /\ uploads'[u] = accepted
      /\ \A x \in DOMAIN uploads : uploads'[x] = uploads[x]
      /\ uploads' = [x \in DOMAIN uploads' |-> uploads'[x]]
  BY <1>1
<1>7. /\ PreviewsOK' /\ DOMAIN previews' = DOMAIN previews
      /\ \A x \in DOMAIN previews : /\ previews[x].bound => previews'[x].bound
                                     /\ previews'[x].actor = previews[x].actor
                                     /\ previews'[x].file = previews[x].file
                                     /\ previews'[x].scope = previews[x].scope
      /\ p # NoPreview => /\ p \in DOMAIN previews' /\ previews'[p].bound /\ previews'[p].actor = a
                          /\ previews'[p].file = file.sum /\ previews'[p].scope = scope
  <2>1. CASE p = NoPreview
    BY <1>2, <2>1 DEF ScopeInv, PreviewsOK
  <2>2. CASE p # NoPreview
    <3>1. /\ DOMAIN previews' = DOMAIN previews /\ previews' = [x \in DOMAIN previews' |-> previews'[x]]
          /\ \A x \in DOMAIN previews : x # p => previews'[x] = previews[x]
          /\ previews'[p] = v
      BY <1>2, <2>2
    <3>2. PreviewsOK'
      BY <1>5, <2>2, <3>1 DEF ScopeInv, PreviewsOK
    <3>3. /\ p \in DOMAIN previews' /\ previews'[p].bound /\ previews'[p].actor = a
          /\ previews'[p].file = file.sum /\ previews'[p].scope = scope
      BY <1>2, <1>5, <2>2, <3>1
    <3>. QED  BY <1>5, <2>2, <3>1, <3>2, <3>3
  <2>. QED  BY <2>1, <2>2
<1>8. \A x \in DOMAIN uploads : Confirmed(x)'
  BY <1>6, <1>7, ConfirmedKept DEF ScopeInv, UploadsOK
<1>9. Confirmed(u)'
  <2>1. CASE p = NoPreview
    BY <1>3, <1>6, <2>1 DEF Confirmed
  <2>2. CASE p # NoPreview
    <3>1. /\ uploads'[u].preview = p /\ uploads'[u].actor = a
          /\ uploads'[u].file = file /\ uploads'[u].scope = scope
      BY <1>2, <1>3, <1>6, <2>2
    <3>. QED  BY <1>7, <2>2, <3>1 DEF Confirmed
  <2>. QED  BY <2>1, <2>2
<1>10. UploadsOK'
  BY <1>4, <1>6, <1>8, <1>9 DEF ScopeInv, UploadsOK
<1>. QED  BY <1>1, <1>7, <1>10 DEF ScopeInv, OnePerPlace

\* An upload moves to another status.
LEMMA UploadMoves ==
  ASSUME ScopeInv, NEW u \in DOMAIN uploads, NEW s, uploads' = [uploads EXCEPT ![u].status = s],
         UNCHANGED previews
  PROVE  UploadsOK' /\ PreviewsOK'
<1>. DEFINE v == [uploads[u] EXCEPT !.status = s]
<1>1. /\ IsUpload(v) /\ v.actor = uploads[u].actor /\ v.file = uploads[u].file
      /\ v.scope = uploads[u].scope /\ v.preview = uploads[u].preview
  BY UploadChanges DEF ScopeInv, UploadsOK
<1>2. uploads' = [uploads EXCEPT ![u] = v]
  OBVIOUS
<1>. HIDE DEF v
<1>3. /\ DOMAIN uploads' = DOMAIN uploads
      /\ \A x \in DOMAIN uploads : x # u => uploads'[x] = uploads[x]
      /\ uploads'[u] = v
      /\ uploads' = [x \in DOMAIN uploads' |-> uploads'[x]]
  BY <1>2
<1>4. \A x \in DOMAIN uploads : Confirmed(x)'
  BY <1>1, <1>3, ConfirmedKept DEF ScopeInv, UploadsOK
<1>5. UploadsOK'
  BY <1>1, <1>3, <1>4 DEF ScopeInv, UploadsOK
<1>. QED  BY <1>5 DEF ScopeInv, PreviewsOK

\* The rows a publication writes differ in their place, as those of a file do.
LEMMA PublishScope ==
  ASSUME ScopeInv, NEW u \in DOMAIN uploads, publishSourceAtomically(u)
  PROVE  ScopeInv'
<1>1. UploadsOK' /\ PreviewsOK'
  BY UploadMoves DEF publishSourceAtomically
<1>2. \A c, d \in Candidates(u) : Place(c) = Place(d) => c = d
  <2>1. uploads[u].file \in OrderFiles
    BY DEF ScopeInv, UploadsOK, IsUpload, UploadRow
  <2>2. SUFFICES ASSUME NEW r \in uploads[u].file.rows, NEW q \in uploads[u].file.rows,
                        StoreKey[r.name] = StoreKey[q.name], r.day = q.day
                 PROVE  r = q
    BY DEF Candidates, Place
  <2>. QED  BY <2>1, <2>2, OrderScopeAssumption
<1>3. orders' = {p \in orders : \A c \in Candidates(u) : Place(c) # Place(p)}
                  \cup {PublishedOrder(c) : c \in Candidates(u)}
  BY DEF publishSourceAtomically
<1>4. \A c \in Candidates(u) : Place(PublishedOrder(c)) = Place(c)
  BY PublishedRow
<1>5. OnePerPlace'
  <2>1. SUFFICES ASSUME NEW p \in orders', NEW q \in orders', Place(p) = Place(q)
                 PROVE  p = q
    BY DEF OnePerPlace, Place
  <2>2. CASE p \in orders /\ q \in orders
    BY <2>1, <2>2 DEF ScopeInv, OnePerPlace
  <2>. QED  BY <1>2, <1>3, <1>4, <2>1, <2>2
<1>. QED  BY <1>1, <1>5 DEF ScopeInv

\* At every step each place has one current row, and each accepted upload still carries the
\* preview that was confirmed for it (reserveUpload, publishSourceAtomically).
THEOREM ScopeInvariant == ScopeSpec => []ScopeInv
<1>1. ScopeInit => ScopeInv
  <2>. SUFFICES ASSUME ScopeInit PROVE ScopeInv
    OBVIOUS
  <2>1. OnePerPlace
    BY OrderScopeAssumption DEF ScopeInit, OnePerPlace, Place
  <2>. QED  BY <2>1 DEF ScopeInit, ScopeInv, PreviewsOK, UploadsOK
<1>2. ScopeInv /\ [ScopeNext]_scopeVars => ScopeInv'
  <2>. SUFFICES ASSUME ScopeInv, [ScopeNext]_scopeVars PROVE ScopeInv'
    OBVIOUS
  <2>1. CASE UNCHANGED <<orders, previews, uploads>>
    BY <2>1 DEF ScopeInv, OnePerPlace, PreviewsOK, UploadsOK, Confirmed
  <2>2. ASSUME NEW a, NEW file, NEW scope, NEW p \in PreviewIds, NEW names,
               prepareOrderScopeTransition(a, p, names, file, scope)
        PROVE  ScopeInv'
    BY <2>2, PrepareScope
  <2>3. ASSUME NEW p \in PreviewIds, PreviewExpires(p)
        PROVE  ScopeInv'
    BY <2>3, ExpireScope
  <2>4. ASSUME NEW a, NEW u \in UploadIds, NEW file \in OrderFiles, NEW scope,
               NEW p \in PreviewIds \cup {NoPreview}, reserveUpload(a, u, file, scope, p)
        PROVE  ScopeInv'
    BY <2>4, ReserveScope
  <2>5. ASSUME NEW u \in UploadIds, publishSourceAtomically(u)
        PROVE  ScopeInv'
    BY <2>5, PublishScope DEF publishSourceAtomically
  <2>6. ASSUME NEW u \in UploadIds, RejectUpload(u) \/ UploadEnds(u)
        PROVE  ScopeInv'
    <3>1. u \in DOMAIN uploads /\ UNCHANGED <<orders, previews>>
      BY <2>6 DEF RejectUpload, UploadEnds
    <3>2. \E s : uploads' = [uploads EXCEPT ![u].status = s]
      BY <2>6 DEF RejectUpload, UploadEnds
    <3>3. UploadsOK' /\ PreviewsOK'
      BY <3>1, <3>2, UploadMoves
    <3>. QED  BY <3>1, <3>3 DEF ScopeInv, OnePerPlace
  <2>7. CASE activateOrderScope
    BY <2>1, <2>7 DEF activateOrderScope
  <2>8. ASSUME NEW a, configureAccountRole(a)
        PROVE  ScopeInv'
    BY <2>1, <2>8 DEF configureAccountRole
  <2>9. ASSUME NEW n, putStore(n)
        PROVE  ScopeInv'
    BY <2>1, <2>9 DEF putStore
  <2>10. CASE UNCHANGED scopeVars
    BY <2>1, <2>10 DEF scopeVars
  <2>. QED  BY <2>2, <2>3, <2>4, <2>5, <2>6, <2>7, <2>8, <2>9, <2>10 DEF ScopeNext
<1>. QED  BY <1>1, <1>2, PTL DEF ScopeSpec

\* What a publication of a confirmed upload leaves in the places of its candidates.
LEMMA PublishedPlaces ==
  ASSUME ScopeInv, NEW u \in DOMAIN uploads, publishSourceAtomically(u)
  PROVE  /\ \A q \in orders' : \/ q \in orders /\ \A c \in Candidates(u) : Place(c) # Place(q)
                               \/ \E c \in Candidates(u) : /\ Place(q) = Place(c) /\ q.name = c.name
                                                           /\ q.scope = c.scope
         /\ \A c \in Candidates(u) : \E q \in orders' : Place(q) = Place(c) /\ q.scope = c.scope
         /\ \A p \in orders, q \in orders' : Place(p) = Place(q) =>
              q = p \/ \E c \in Candidates(u) : Place(c) = Place(p) /\ q.scope = c.scope
<1>1. orders' = {p \in orders : \A c \in Candidates(u) : Place(c) # Place(p)}
                  \cup {PublishedOrder(c) : c \in Candidates(u)}
  BY DEF publishSourceAtomically
<1>2. \A c \in Candidates(u) : /\ Place(PublishedOrder(c)) = Place(c) /\ PublishedOrder(c).name = c.name
                               /\ PublishedOrder(c).scope = c.scope
  BY PublishedRow
<1>3. \A p \in orders, q \in orders : Place(p) = Place(q) => q = p
  BY DEF ScopeInv, OnePerPlace
<1>. QED  BY <1>1, <1>2, <1>3

\* Orders change their scope only in the publication of an upload whose preview, of the same
\* administrator and file, listed exactly those places when it was confirmed.
THEOREM ScopeConfirmed == ScopeSpec => ScopeIsConfirmed
<1>. DEFINE A == Rescoped # {} =>
       \E u \in DOMAIN uploads :
         /\ uploads[u].status = "open" /\ uploads'[u].status = "published"
         /\ uploads[u].preview # NoPreview
         /\ LET v == previews[uploads[u].preview]
            IN  /\ v.actor = uploads[u].actor /\ v.file = uploads[u].file.sum
                /\ \A p \in Rescoped : p \in v.snapshot \/ p.name \notin v.names
                /\ \A p \in v.snapshot : \E q \in orders' : Place(q) = Place(p) /\ q.scope = v.scope
                /\ \A q \in orders' : q.name \in v.names /\ q.day \in v.from..v.to => q.scope = v.scope
<1>1. ScopeInv /\ [ScopeNext]_scopeVars => A
  <2>. SUFFICES ASSUME ScopeInv, [ScopeNext]_scopeVars, NEW p0 \in Rescoped
                PROVE  \E u \in DOMAIN uploads :
         /\ uploads[u].status = "open" /\ uploads'[u].status = "published"
         /\ uploads[u].preview # NoPreview
         /\ LET v == previews[uploads[u].preview]
            IN  /\ v.actor = uploads[u].actor /\ v.file = uploads[u].file.sum
                /\ \A p \in Rescoped : p \in v.snapshot \/ p.name \notin v.names
                /\ \A p \in v.snapshot : \E q \in orders' : Place(q) = Place(p) /\ q.scope = v.scope
                /\ \A q \in orders' : q.name \in v.names /\ q.day \in v.from..v.to => q.scope = v.scope
    OBVIOUS
  <2>1. orders' # orders
    BY DEF Rescoped, ScopeInv, OnePerPlace
  <2>2. PICK u \in UploadIds : publishSourceAtomically(u)
    BY <2>1 DEF ScopeNext, scopeVars, prepareOrderScopeTransition, PreviewExpires, reserveUpload, RejectUpload,
                UploadEnds, activateOrderScope, configureAccountRole, putStore
  <2>3. /\ u \in DOMAIN uploads /\ uploads[u].status = "open" /\ ScopeAllows(u)
    BY <2>2 DEF publishSourceAtomically
  <2>4. uploads'[u].status = "published"
    <3>1. IsUpload(uploads[u])
      BY <2>3 DEF ScopeInv, UploadsOK
    <3>2. uploads' = [uploads EXCEPT ![u].status = "published"]
      BY <2>2 DEF publishSourceAtomically
    <3>. QED  BY <2>3, <3>1, <3>2 DEF IsUpload, UploadRow
  \* The upload has a preview: otherwise the scopes agree and nothing is rescoped.
  <2>5. PICK q0 \in orders' : Place(q0) = Place(p0) /\ q0.scope # p0.scope
    BY DEF Rescoped
  <2>6. PICK c0 \in Candidates(u) : Place(c0) = Place(p0) /\ q0.scope = c0.scope
    BY <2>2, <2>3, <2>5, PublishedPlaces DEF Rescoped
  <2>7. uploads[u].preview # NoPreview
    BY <2>3, <2>5, <2>6 DEF ScopeAllows, ScopesAgree, Rescoped
  <2>. DEFINE v == previews[uploads[u].preview]
  <2>8. verifyOrderScopeSnapshot(v, Candidates(u))
    BY <2>3, <2>7 DEF ScopeAllows
  <2>9. v.actor = uploads[u].actor /\ v.file = uploads[u].file.sum
    BY <2>3, <2>7 DEF ScopeInv, UploadsOK, Confirmed
  <2>. HIDE DEF v
  \* What is rescoped stands in the confirmed days, and was shown if it has a selected name.
  <2>10. ASSUME NEW p \in Rescoped
         PROVE  p \in v.snapshot \/ p.name \notin v.names
    <3>1. PICK q \in orders' : p \in orders /\ Place(q) = Place(p) /\ q.scope # p.scope
      BY DEF Rescoped
    <3>2. PICK c \in Candidates(u) : Place(c) = Place(p) /\ q.scope = c.scope
      BY <2>2, <2>3, <3>1, PublishedPlaces
    <3>3. c.day \in v.from..v.to /\ c.day = p.day
      BY <2>8, <3>2 DEF verifyOrderScopeSnapshot, Place
    <3>4. orderScopeSnapshot(v.names, v.from, v.to) = v.snapshot
      BY <2>8 DEF verifyOrderScopeSnapshot, SnapshotHolds
    <3>. QED  BY <3>1, <3>3, <3>4 DEF orderScopeSnapshot
  <2>11. ASSUME NEW p \in v.snapshot
         PROVE  \E q \in orders' : Place(q) = Place(p) /\ q.scope = v.scope
    <3>1. PICK c \in Candidates(u) : Place(c) = Place(p) /\ c.scope = v.scope
      BY <2>8, <2>11 DEF verifyOrderScopeSnapshot
    <3>. QED  BY <2>2, <2>3, <3>1, PublishedPlaces
  <2>12. ASSUME NEW q \in orders', q.name \in v.names, q.day \in v.from..v.to
         PROVE  q.scope = v.scope
    <3>1. CASE \E c \in Candidates(u) : q.scope = c.scope
      BY <2>8, <3>1 DEF verifyOrderScopeSnapshot
    <3>2. CASE q \in orders
      <4>1. q \in v.snapshot
        BY <2>8, <2>12, <3>2 DEF verifyOrderScopeSnapshot, SnapshotHolds, orderScopeSnapshot
      <4>2. PICK c \in Candidates(u) : Place(c) = Place(q) /\ c.scope = v.scope
        BY <2>8, <4>1 DEF verifyOrderScopeSnapshot
      <4>3. \E r \in Candidates(u) : q.scope = r.scope
        BY <2>2, <2>3, <4>2, PublishedPlaces
      <4>. QED  BY <3>1, <4>3
    <3>. QED  BY <2>2, <2>3, <3>1, <3>2, PublishedPlaces
  <2>. QED
    <3>. USE DEF v
    <3>. QED  BY <2>3, <2>4, <2>7, <2>9, <2>10, <2>11, <2>12
<1>. QED  BY <1>1, ScopeInvariant, PTL DEF ScopeSpec, ScopeIsConfirmed

(***************************************************************************)
(* The launcher's transfers, for any partitions, parts, workers, tries and *)
(* troubles.                                                               *)
(*                                                                         *)
(* What a call in progress is: it asks for a manifest, moves what the      *)
(* manifest names, asks for a session, or has one.                         *)
(***************************************************************************)
Tables(S, T) == UNION {[D -> T] : D \in SUBSET S}

Asking   == [kind : {"range", "bundle"}, pc : {"manifest", "failed"}, again : BOOLEAN]
Fetching == [kind : {"range", "bundle"}, pc : {"transfer", "extract", "write", "failed"},
             again : BOOLEAN, manifest : Tables(Partitions, Nat)]
Creating == [kind : {"upload"}, pc : {"create", "failed"}, sum : Nat, stamp : Nat]
Sending  == [kind : {"upload"}, pc : {"transfer", "page", "stat", "complete", "failed", "cancel"},
             sum : Nat, stamp : Nat, after : Nat]

MovesUnderway == [left : SUBSET Int, active : Tables(Int, Nat),
                  failure : {"none", "transient", "error", "forbidden"}]

Sessions == [status : {"uploading", "queued", "failed", "cancelled", "expired"},
             digest : Nat, parts : Tables(Int, Nat)]

TransferTypes ==
    /\ published \in [Partitions -> Nat]
    /\ localFile \in [bytes : Nat, stamp : Nat]
    /\ session \in Sessions \cup {NoSession}
    /\ job \in Asking \cup Fetching \cup Creating \cup Sending \cup {Resting}
    /\ work \in MovesUnderway

(* A manifest asked for meets an empty directory.  While files are moved,  *)
(* what has been taken is in the directory and whole when it has settled;  *)
(* extraction has written files of the manifest; then the directory is     *)
(* the manifest's.  An upload has none.                                    *)
ItemsOf == IF job.kind = "bundle" THEN {Zipped} ELSE DOMAIN job.manifest

Whole(n) == IF n = Zipped THEN "zip" ELSE job.manifest[n]

FilesOK ==
    /\ directory = [n \in DOMAIN directory |-> directory[n]]
    /\ DOMAIN directory \cap work.left = {} /\ DOMAIN directory \cup work.left = ItemsOf
    /\ DOMAIN work.active \subseteq DOMAIN directory
    /\ work.failure = "none" => \A n \in DOMAIN directory \ DOMAIN work.active : directory[n] = Whole(n)

ExtractOK ==
    /\ directory = [n \in DOMAIN directory |-> directory[n]]
    /\ Zipped \in DOMAIN directory /\ DOMAIN directory \subseteq {Zipped} \cup DOMAIN job.manifest
    /\ \A n \in DOMAIN directory \ {Zipped} : directory[n] = job.manifest[n]

DirectoryOK ==
    /\ job \in Asking /\ job.pc = "manifest" => directory = Empty
    /\ job \in Fetching /\ job.pc = "transfer" => FilesOK
    /\ job \in Fetching /\ job.pc = "extract" => ExtractOK
    /\ job \in Fetching /\ job.pc = "write" => directory = job.manifest
    /\ job \in Creating \cup Sending => directory = NoDirectory
    /\ job # Resting => result = "none"
    /\ TransferIsWhole

(* A session that is open and whose answers all arrived has its call.      *)
SessionOK == session.status = "uploading" /\ ~lost => job \in Sending

TransferInv == TransferTypes /\ DirectoryOK /\ SessionOK

LEMMA TableWith ==
    ASSUME NEW S, NEW T, NEW f \in Tables(S, T), NEW n \in S, NEW v \in T
    PROVE  With(f, n, v) \in Tables(S, T) /\ DOMAIN With(f, n, v) = DOMAIN f \cup {n}
<1>1. PICK D \in SUBSET S : f \in [D -> T]
  BY DEF Tables
<1>2. With(f, n, v) \in [D \cup {n} -> T]
  BY <1>1 DEF With
<1>3. D \cup {n} \in SUBSET S
  OBVIOUS
<1>. QED  BY <1>1, <1>2, <1>3 DEF Tables, With

LEMMA TableWithout ==
    ASSUME NEW S, NEW T, NEW f \in Tables(S, T), NEW n
    PROVE  Without(f, n) \in Tables(S, T) /\ DOMAIN Without(f, n) = DOMAIN f \ {n}
<1>1. PICK D \in SUBSET S : f \in [D -> T]
  BY DEF Tables
<1>2. Without(f, n) \in [D \ {n} -> T]
  BY <1>1 DEF Without
<1>3. D \ {n} \in SUBSET S
  OBVIOUS
<1>. QED  BY <1>1, <1>2, <1>3 DEF Tables, Without

LEMMA EmptyTable ==
    ASSUME NEW S, NEW T
    PROVE  Empty \in Tables(S, T) /\ DOMAIN Empty = {} /\ Empty = [n \in DOMAIN Empty |-> Empty[n]]
<1>1. Empty \in [{} -> T] /\ DOMAIN Empty = {}
  BY DEF Empty
<1>2. {} \in SUBSET S
  OBVIOUS
<1>3. Empty = [n \in DOMAIN Empty |-> Empty[n]]
  BY DEF Empty
<1>. QED  BY <1>1, <1>2, <1>3 DEF Tables

LEMMA TableIsMap ==
    ASSUME NEW S, NEW T, NEW f \in Tables(S, T)
    PROVE  f = [n \in DOMAIN f |-> f[n]] /\ DOMAIN f \subseteq S /\ \A n \in DOMAIN f : f[n] \in T
<1>1. PICK D \in SUBSET S : f \in [D -> T]
  BY DEF Tables
<1>. QED  BY <1>1

(* The kinds of call are told apart by what they are.                      *)
LEMMA JobKinds ==
    /\ \A j \in Asking : /\ j.kind \in {"range", "bundle"} /\ j.pc \in {"manifest", "failed"}
                         /\ j \notin Fetching /\ j # Resting
    /\ \A j \in Fetching : /\ j.kind \in {"range", "bundle"} /\ j.pc \in {"transfer", "extract", "write", "failed"}
                           /\ j \notin Asking /\ j # Resting
                           /\ j.manifest \in Tables(Partitions, Nat)
    /\ \A j \in Creating : /\ j.kind = "upload" /\ j.pc \in {"create", "failed"}
                           /\ j \notin Sending /\ j # Resting /\ "after" \notin DOMAIN j
                           /\ j.sum \in Nat /\ j.stamp \in Nat
    /\ \A j \in Sending : /\ j.kind = "upload"
                          /\ j.pc \in {"transfer", "page", "stat", "complete", "failed", "cancel"}
                          /\ j \notin Creating /\ j # Resting /\ "after" \in DOMAIN j
                          /\ j.sum \in Nat /\ j.stamp \in Nat /\ j.after \in Nat
    /\ Resting.kind = "none" /\ Resting.pc = "rest"
<1>1. ASSUME NEW j \in Asking
      PROVE  /\ j.kind \in {"range", "bundle"} /\ j.pc \in {"manifest", "failed"}
             /\ DOMAIN j = {"kind", "pc", "again"}
  BY <1>1 DEF Asking
<1>2. ASSUME NEW j \in Fetching
      PROVE  /\ j.kind \in {"range", "bundle"} /\ j.pc \in {"transfer", "extract", "write", "failed"}
             /\ DOMAIN j = {"kind", "pc", "again", "manifest"} /\ j.manifest \in Tables(Partitions, Nat)
  BY <1>2 DEF Fetching
<1>3. ASSUME NEW j \in Creating
      PROVE  /\ j.kind = "upload" /\ j.pc \in {"create", "failed"}
             /\ DOMAIN j = {"kind", "pc", "sum", "stamp"} /\ j.sum \in Nat /\ j.stamp \in Nat
  BY <1>3 DEF Creating
<1>4. ASSUME NEW j \in Sending
      PROVE  /\ j.kind = "upload" /\ j.pc \in {"transfer", "page", "stat", "complete", "failed", "cancel"}
             /\ DOMAIN j = {"kind", "pc", "sum", "stamp", "after"}
             /\ j.sum \in Nat /\ j.stamp \in Nat /\ j.after \in Nat
  BY <1>4 DEF Sending
<1>5. Resting.kind = "none" /\ Resting.pc = "rest"
  BY DEF Resting
<1>. QED  BY <1>1, <1>2, <1>3, <1>4, <1>5

LEMMA Turned ==
    /\ \A j \in Asking : [j EXCEPT !.pc = "failed"] \in Asking /\ [j EXCEPT !.pc = "failed"].pc = "failed"
    /\ \A j \in Creating : [j EXCEPT !.pc = "failed"] \in Creating
    /\ \A j \in Fetching : \A x \in {"transfer", "extract", "write", "failed"} :
          /\ [j EXCEPT !.pc = x] \in Fetching /\ [j EXCEPT !.pc = x].pc = x
          /\ [j EXCEPT !.pc = x].manifest = j.manifest /\ [j EXCEPT !.pc = x].kind = j.kind
    /\ \A j \in Sending : \A x \in {"transfer", "page", "stat", "complete", "failed", "cancel"} :
          [j EXCEPT !.pc = x] \in Sending
<1>1. \A j \in Asking : [j EXCEPT !.pc = "failed"] \in Asking /\ [j EXCEPT !.pc = "failed"].pc = "failed"
  BY DEF Asking
<1>2. \A j \in Creating : [j EXCEPT !.pc = "failed"] \in Creating
  BY DEF Creating
<1>3. \A j \in Fetching : \A x \in {"transfer", "extract", "write", "failed"} :
          /\ [j EXCEPT !.pc = x] \in Fetching /\ [j EXCEPT !.pc = x].pc = x
          /\ [j EXCEPT !.pc = x].manifest = j.manifest /\ [j EXCEPT !.pc = x].kind = j.kind
  BY DEF Fetching
<1>4. \A j \in Sending : \A x \in {"transfer", "page", "stat", "complete", "failed", "cancel"} :
          [j EXCEPT !.pc = x] \in Sending
  BY DEF Sending
<1>. QED  BY <1>1, <1>2, <1>3, <1>4

LEMMA MovesHas ==
    ASSUME work \in MovesUnderway
    PROVE  /\ work.left \subseteq Int /\ work.active \in Tables(Int, Nat)
           /\ DOMAIN work.active \subseteq Int /\ \A i \in DOMAIN work.active : work.active[i] \in Nat
           /\ work.failure \in {"none", "transient", "error", "forbidden"}
<1>1. /\ work.left \subseteq Int /\ work.active \in Tables(Int, Nat)
      /\ work.failure \in {"none", "transient", "error", "forbidden"}
  BY DEF MovesUnderway
<1>. QED  BY <1>1, TableIsMap

LEMMA MovesOf ==
    ASSUME NEW S \in SUBSET Int, NEW a \in Tables(Int, Nat), NEW x \in {"none", "transient", "error", "forbidden"}
    PROVE  /\ Moving(S, a, x) \in MovesUnderway
           /\ Moving(S, a, x).left = S
           /\ Moving(S, a, x).active = a
           /\ Moving(S, a, x).failure = x
  BY DEF MovesUnderway, Moving

LEMMA FreshWork ==
    ASSUME NEW S \in SUBSET Int
    PROVE  /\ Concurrent(S) \in MovesUnderway /\ Concurrent(S).left = S
           /\ DOMAIN Concurrent(S).active = {} /\ Concurrent(S).failure = "none"
<1>1. Empty \in Tables(Int, Nat) /\ DOMAIN Empty = {}
  BY EmptyTable
<1>. QED  BY <1>1, MovesOf DEF Concurrent

(***************************************************************************)
(* What the environment does: none of it touches the call.                 *)
(***************************************************************************)
LEMMA EnvironmentStep ==
    ASSUME TransferInv,
           (\E p \in Partitions : Publish(p)) \/ LinksExpire \/ Edit \/ SessionSwept \/ UNCHANGED transferVars
    PROVE  TransferInv'
<1>1. UNCHANGED <<directory, job, work, result>> /\ lost' = lost
  BY DEF Publish, LinksExpire, Edit, SessionSwept, transferVars
<1>2. DirectoryOK'
  BY <1>1 DEF TransferInv, DirectoryOK, FilesOK, ExtractOK, ItemsOf, Whole, TransferIsWhole
<1>3. session' \in Sessions \cup {NoSession} /\ (session'.status = "uploading" => session.status = "uploading")
  <2>1. CASE SessionSwept
    <3>1. session.status = "uploading" /\ session' = [session EXCEPT !.status = "expired"]
      BY <2>1 DEF SessionSwept
    <3>2. session \in Sessions
      BY <3>1 DEF TransferInv, TransferTypes, NoSession
    <3>. QED  BY <3>1, <3>2 DEF Sessions
  <2>2. CASE session' = session
    BY <2>2 DEF TransferInv, TransferTypes
  <2>. QED  BY <2>1, <2>2 DEF Publish, LinksExpire, Edit, SessionSwept, transferVars
<1>4. SessionOK'
  BY <1>1, <1>3 DEF TransferInv, SessionOK
<1>5. published' \in [Partitions -> Nat]
  <2>1. CASE \E p \in Partitions : Publish(p)
    <3>1. PICK p \in Partitions : \E v \in 0..MaxVersion : published' = [published EXCEPT ![p] = v]
      BY <2>1 DEF Publish
    <3>. QED  BY <3>1, TransferAssumption DEF TransferInv, TransferTypes
  <2>2. CASE published' = published
    BY <2>2 DEF TransferInv, TransferTypes
  <2>. QED  BY <2>1, <2>2 DEF LinksExpire, Edit, SessionSwept, transferVars
<1>6. localFile' \in [bytes : Nat, stamp : Nat]
  <2>1. CASE Edit
    <3>1. PICK b \in Nat, s \in Nat : localFile' = [bytes |-> b, stamp |-> s]
      <4>1. localFile.bytes + 1 \in Nat /\ localFile.stamp + 1 \in Nat /\ localFile.stamp \in Nat
        BY DEF TransferInv, TransferTypes
      <4>. QED  BY <2>1, <4>1 DEF Edit
    <3>. QED  BY <3>1
  <2>2. CASE localFile' = localFile
    BY <2>2 DEF TransferInv, TransferTypes
  <2>. QED  BY <2>1, <2>2 DEF Publish, LinksExpire, SessionSwept, transferVars
<1>. QED  BY <1>1, <1>2, <1>3, <1>4, <1>5, <1>6 DEF TransferInv, TransferTypes

(***************************************************************************)
(* The workers.                                                            *)
(***************************************************************************)
(* A worker's step keeps the claims when what it leaves in the directory   *)
(* is accounted for.                                                       *)
LEMMA WorkersKeep ==
    ASSUME TransferInv, job.pc = "transfer", job' = job, work' \in MovesUnderway,
           UNCHANGED <<published, localFile, result, lost>>,
           session' \in Sessions \cup {NoSession}, session'.status = session.status,
           job.kind = "upload" => directory' = directory,
           job.kind # "upload" => FilesOK'
    PROVE  TransferInv'
<1>1. job \in Fetching \cup Sending
  BY JobKinds DEF TransferInv, TransferTypes
<1>2. TransferTypes'
  BY DEF TransferInv, TransferTypes
<1>3. SessionOK'
  BY DEF TransferInv, SessionOK
<1>4. result = "none"
  BY <1>1, JobKinds DEF TransferInv, DirectoryOK
<1>5. CASE job \in Fetching
  <2>1. job.kind # "upload" /\ job \notin Asking /\ job \notin Creating /\ job \notin Sending /\ job # Resting
    BY <1>5, JobKinds
  <2>2. DirectoryOK'
    BY <1>4, <1>5, <2>1 DEF DirectoryOK, TransferIsWhole
  <2>. QED  BY <1>2, <1>3, <2>2 DEF TransferInv
<1>6. CASE job \in Sending
  <2>1. job.kind = "upload" /\ job \notin Asking /\ job \notin Fetching /\ job # Resting
    BY <1>6, JobKinds
  <2>2. directory = NoDirectory
    BY <1>6 DEF TransferInv, DirectoryOK
  <2>3. DirectoryOK'
    BY <1>4, <1>6, <2>1, <2>2 DEF DirectoryOK, TransferIsWhole
  <2>. QED  BY <1>2, <1>3, <2>3 DEF TransferInv
<1>. QED  BY <1>1, <1>5, <1>6

LEMMA WorkersStep ==
    ASSUME TransferInv, job.pc = "transfer",
           \/ TakeItem
           \/ \E i \in DOMAIN work.active : PartDone(i) \/ FileDone(i) \/ \E ailment \in Ailments : ItemFails(i, ailment)
    PROVE  TransferInv'
<1>m. /\ work \in MovesUnderway /\ work.left \subseteq Int /\ work.active \in Tables(Int, Nat)
      /\ DOMAIN work.active \subseteq Int /\ \A i \in DOMAIN work.active : work.active[i] \in Nat
      /\ work.failure \in {"none", "transient", "error", "forbidden"}
  BY MovesHas DEF TransferInv, TransferTypes
<1>f. job.kind # "upload" => FilesOK
  <2>1. job.kind # "upload" => job \in Fetching
    BY JobKinds DEF TransferInv, TransferTypes
  <2>. QED  BY <2>1 DEF TransferInv, DirectoryOK
<1>1. CASE TakeItem
  <2>1. PICK i \in work.left : /\ work' = Moving(work.left \ {i}, With(work.active, i, 1), work.failure)
                               /\ directory' = Put(i, "partial")
    BY <1>1 DEF TakeItem
  <2>2. /\ UNCHANGED <<published, stale, localFile, session, job, result, lost>>
        /\ work.failure = "none"
    BY <1>1 DEF TakeItem, serviceVars
  <2>3. PICK a \in Tables(Int, Nat) : a = With(work.active, i, 1)
    BY <1>m, <2>1, TableWith
  <2>3a. DOMAIN a = DOMAIN work.active \cup {i}
    BY <2>3 DEF With
  <2>4. work' \in MovesUnderway /\ work'.left = work.left \ {i} /\ DOMAIN work'.active = DOMAIN work.active \cup {i}
    BY <1>m, <2>1, <2>3, <2>3a, MovesOf
  <2>5. ASSUME job.kind # "upload"
        PROVE  FilesOK'
    <3>1. directory' = With(directory, i, "partial")
      BY <2>1, <2>5 DEF Put
    <3>2. /\ directory' = [k \in DOMAIN directory' |-> directory'[k]]
          /\ DOMAIN directory' = DOMAIN directory \cup {i}
          /\ \A k \in DOMAIN directory : k # i => directory'[k] = directory[k]
      BY <3>1 DEF With
    <3>3. \A n \in DOMAIN directory' \ DOMAIN work'.active : directory'[n] = Whole(n)
      BY <1>f, <2>2, <2>4, <2>5, <3>2 DEF FilesOK
    <3>4. \A n : (Whole(n))' = Whole(n)
      BY <2>2 DEF Whole
    <3>5. ItemsOf' = ItemsOf
      BY <2>2 DEF ItemsOf
    <3>6. DOMAIN directory' \cap work'.left = {} /\ DOMAIN directory' \cup work'.left = ItemsOf
      <4>1. DOMAIN directory \cap work.left = {} /\ DOMAIN directory \cup work.left = ItemsOf
        BY <1>f, <2>5 DEF FilesOK
      <4>2. work'.left = work.left \ {i} /\ DOMAIN directory' = DOMAIN directory \cup {i} /\ i \in work.left
        BY <2>1, <2>4, <3>2
      <4>. QED  BY <4>1, <4>2
    <3>7. DOMAIN work'.active \subseteq DOMAIN directory'
      BY <1>f, <2>4, <2>5, <3>2 DEF FilesOK
    <3>. QED  BY <3>2, <3>3, <3>4, <3>5, <3>6, <3>7 DEF FilesOK
  <2>6. job.kind = "upload" => directory' = directory
    BY <2>1 DEF Put
  <2>7. session' \in Sessions \cup {NoSession}
    BY <2>2 DEF TransferInv, TransferTypes
  <2>. QED  BY <2>2, <2>4, <2>5, <2>6, <2>7, WorkersKeep
<1>2. ASSUME NEW i \in DOMAIN work.active, PartDone(i)
      PROVE  TransferInv'
  <2>1. /\ job.kind = "upload" /\ session.status = "uploading"
        /\ session' = [session EXCEPT !.parts = With(session.parts, i, localFile.bytes)]
        /\ work' = Moving(work.left, Without(work.active, i), work.failure)
        /\ UNCHANGED <<published, localFile, directory, job, result, lost>>
    BY <1>2 DEF PartDone
  <2>2. session \in Sessions
    BY <2>1 DEF TransferInv, TransferTypes, NoSession
  <2>3. PICK parts \in Tables(Int, Nat) : parts = With(session.parts, i, localFile.bytes)
    <3>1. session.parts \in Tables(Int, Nat) /\ localFile.bytes \in Nat
      BY <2>2 DEF TransferInv, TransferTypes, Sessions
    <3>2. i \in Int
      BY <1>m
    <3>. QED  BY <3>1, <3>2, TableWith
  <2>4. session' \in Sessions /\ session'.status = session.status
    BY <2>1, <2>2, <2>3 DEF Sessions
  <2>5. Without(work.active, i) \in Tables(Int, Nat)
    BY <1>m, TableWithout
  <2>6. work' \in MovesUnderway
    BY <1>m, <2>1, <2>5, MovesOf
  <2>. QED  BY <2>1, <2>4, <2>6, WorkersKeep
<1>3. ASSUME NEW i \in DOMAIN work.active, FileDone(i)
      PROVE  TransferInv'
  <2>. DEFINE v == IF i = Zipped THEN "zip" ELSE job.manifest[i]
  <2>1. /\ job.kind # "upload" /\ directory' = Put(i, v)
        /\ work' = Moving(work.left, Without(work.active, i), work.failure)
        /\ UNCHANGED <<published, stale, localFile, session, job, result, lost>>
    BY <1>3 DEF FileDone, serviceVars
  <2>2. PICK a \in Tables(Int, Nat) : a = Without(work.active, i)
    BY <1>m, TableWithout
  <2>2a. DOMAIN a = DOMAIN work.active \ {i}
    BY <2>2 DEF Without
  <2>3. work' \in MovesUnderway /\ work'.left = work.left /\ DOMAIN work'.active = DOMAIN work.active \ {i}
        /\ work'.failure = work.failure
    BY <1>m, <2>1, <2>2, <2>2a, MovesOf
  <2>4. v = Whole(i)
    BY DEF Whole
  <2>. HIDE DEF v
  <2>5. directory' = With(directory, i, v)
    BY <2>1 DEF Put
  <2>6. /\ directory' = [k \in DOMAIN directory' |-> directory'[k]]
        /\ DOMAIN directory' = DOMAIN directory \cup {i} /\ directory'[i] = v
        /\ \A k \in DOMAIN directory : k # i => directory'[k] = directory[k]
    BY <2>5 DEF With
  <2>7. FilesOK'
    <3>1. i \in DOMAIN directory
      BY <1>f, <1>3, <2>1 DEF FilesOK
    <3>2. work'.failure = "none" => \A n \in DOMAIN directory' \ DOMAIN work'.active : directory'[n] = Whole(n)
      BY <1>f, <2>1, <2>3, <2>4, <2>6 DEF FilesOK
    <3>3. (\A n : (Whole(n))' = Whole(n)) /\ ItemsOf' = ItemsOf
      BY <2>1 DEF Whole, ItemsOf
    <3>. QED  BY <1>f, <2>1, <2>3, <2>6, <3>1, <3>2, <3>3 DEF FilesOK
  <2>8. session' \in Sessions \cup {NoSession}
    BY <2>1 DEF TransferInv, TransferTypes
  <2>. QED  BY <2>1, <2>3, <2>7, <2>8, WorkersKeep
<1>4. ASSUME NEW i \in DOMAIN work.active, NEW ailment \in Ailments, ItemFails(i, ailment)
      PROVE  TransferInv'
  <2>1. UNCHANGED <<published, stale, localFile, session, directory, job, result, lost>>
    BY <1>4 DEF ItemFails, serviceVars
  <2>2. /\ work' \in MovesUnderway /\ work'.left = work.left /\ DOMAIN work'.active \subseteq DOMAIN work.active
        /\ work'.failure = "none" => work.failure = "none" /\ DOMAIN work'.active = DOMAIN work.active
    <3>1. CASE Retryable(i, ailment)
      <4>1. work.active[i] + 1 \in Nat /\ i \in Int
        BY <1>m
      <4>2. PICK n \in Nat : n = work.active[i] + 1
        BY <4>1
      <4>3. PICK a \in Tables(Int, Nat) : a = With(work.active, i, n)
        BY <1>m, <4>1, TableWith
      <4>4. DOMAIN a = DOMAIN work.active
        BY <4>3 DEF With
      <4>5. work' = Moving(work.left, a, work.failure)
        BY <1>4, <3>1, <4>2, <4>3 DEF ItemFails
      <4>. QED  BY <1>m, <4>4, <4>5, MovesOf
    <3>2. CASE ~Retryable(i, ailment)
      <4>1. PICK x \in {"transient", "error", "forbidden"} : x = FirstOf(ailment)
        BY <1>m DEF FirstOf, Ailments
      <4>2. PICK a \in Tables(Int, Nat) : a = Without(work.active, i)
        BY <1>m, TableWithout
      <4>3. DOMAIN a \subseteq DOMAIN work.active
        BY <4>2 DEF Without
      <4>4. work' = Moving(work.left, a, x)
        BY <1>4, <3>2, <4>1, <4>2 DEF ItemFails
      <4>. QED  BY <1>m, <4>1, <4>3, <4>4, MovesOf
    <3>. QED  BY <3>1, <3>2
  <2>3. job.kind # "upload" => FilesOK'
    <3>1. (\A n : (Whole(n))' = Whole(n)) /\ ItemsOf' = ItemsOf
      BY <2>1 DEF Whole, ItemsOf
    <3>. QED  BY <1>f, <2>1, <2>2, <3>1 DEF FilesOK
  <2>4. session' \in Sessions \cup {NoSession}
    BY <2>1 DEF TransferInv, TransferTypes
  <2>. QED  BY <2>1, <2>2, <2>3, <2>4, WorkersKeep
<1>. QED  BY <1>1, <1>2, <1>3, <1>4

LEMMA AbortsStep ==
    ASSUME TransferInv, Aborts
    PROVE  TransferInv'
<1>1. UNCHANGED <<published, stale, localFile, session, directory, result, lost>>
  BY DEF Aborts, serviceVars
<1>2. session' \in Sessions \cup {NoSession}
  BY <1>1 DEF TransferInv, TransferTypes
<1>3. CASE job.pc = "transfer"
  <2>1. PICK x \in {"transient", "error", "forbidden"} : x = FirstOf("error")
    BY MovesHas DEF FirstOf, TransferInv, TransferTypes
  <2>2. work' = Moving(work.left, work.active, x) /\ job' = job
    BY <1>3, <2>1 DEF Aborts
  <2>3. /\ work' \in MovesUnderway /\ work'.left = work.left /\ work'.active = work.active /\ work'.failure # "none"
    BY <2>1, <2>2, MovesHas, MovesOf DEF TransferInv, TransferTypes
  <2>4. job.kind # "upload" => FilesOK'
    <3>1. job.kind # "upload" => FilesOK
      BY <1>3, JobKinds DEF TransferInv, TransferTypes, DirectoryOK
    <3>2. ItemsOf' = ItemsOf
      BY <2>2 DEF ItemsOf
    <3>. QED  BY <1>1, <2>3, <3>1, <3>2 DEF FilesOK
  <2>. QED  BY <1>1, <1>2, <1>3, <2>2, <2>3, <2>4, WorkersKeep
<1>4. CASE job.pc # "transfer"
  <2>1. job' = [job EXCEPT !.pc = "failed"] /\ work' = work /\ job # Resting
    BY <1>4, JobKinds DEF Aborts
  <2>2. /\ job \in Asking => job' \in Asking /\ job'.pc = "failed"
        /\ job \in Fetching => job' \in Fetching /\ job'.pc = "failed"
        /\ job \in Creating => job' \in Creating
        /\ job \in Sending => job' \in Sending
    BY <2>1, Turned
  <2>3. TransferTypes'
    BY <1>1, <2>1, <2>2 DEF TransferInv, TransferTypes
  <2>4. SessionOK'
    BY <1>1, <2>2 DEF TransferInv, SessionOK
  <2>5. job' # Resting /\ (job' \in Creating \cup Sending => job \in Creating \cup Sending) /\ result = "none"
    BY <2>1, <2>2, JobKinds DEF TransferInv, TransferTypes, DirectoryOK
  <2>6. job' \in Asking \cup Fetching => job'.pc = "failed"
    BY <2>1, <2>2, JobKinds DEF TransferInv, TransferTypes
  <2>7. DirectoryOK'
    BY <1>1, <2>5, <2>6 DEF TransferInv, DirectoryOK, TransferIsWhole
  <2>. QED  BY <2>3, <2>4, <2>7 DEF TransferInv
<1>. QED  BY <1>3, <1>4

(***************************************************************************)
(* What each kind of step owes the invariant.                              *)
(***************************************************************************)
LEMMA TypesKept ==
    ASSUME TransferInv, UNCHANGED <<published, localFile>>, session' \in Sessions \cup {NoSession},
           job' \in Asking \cup Fetching \cup Creating \cup Sending \cup {Resting}, work' \in MovesUnderway
    PROVE  TransferTypes'
  BY DEF TransferInv, TransferTypes

LEMMA SessionKept ==
    ASSUME TransferInv, UNCHANGED <<session, lost>>, job \in Sending => job' \in Sending
    PROVE  SessionOK' /\ session' \in Sessions \cup {NoSession}
  BY DEF TransferInv, TransferTypes, SessionOK

LEMMA CallEnds ==
    ASSUME job' = Resting, directory' = NoDirectory, result' # "directory"
    PROVE  DirectoryOK'
<1>1. job' \notin Asking /\ job' \notin Fetching /\ job' \notin Creating /\ job' \notin Sending
  BY JobKinds
<1>. QED  BY <1>1 DEF DirectoryOK, TransferIsWhole

LEMMA UploadGoesOn ==
    ASSUME job' \in Creating \cup Sending, directory' = NoDirectory, result' = "none"
    PROVE  DirectoryOK'
<1>1. job' \notin Asking /\ job' \notin Fetching
  BY JobKinds
<1>. QED  BY <1>1 DEF DirectoryOK, TransferIsWhole

LEMMA DownloadGoesOn ==
    ASSUME job' \in Asking \cup Fetching, result' = "none",
           job' \in Asking => job'.pc = "failed" \/ directory' = Empty,
           job' \in Fetching /\ job'.pc = "transfer" => FilesOK',
           job' \in Fetching /\ job'.pc = "extract" => ExtractOK',
           job' \in Fetching /\ job'.pc = "write" => directory' = job'.manifest
    PROVE  DirectoryOK'
<1>1. job' # Resting /\ job' \notin Creating /\ job' \notin Sending
  BY JobKinds
<1>. QED  BY <1>1 DEF DirectoryOK, TransferIsWhole

LEMMA Underway ==
    ASSUME TransferInv, job # Resting
    PROVE  result = "none" /\ (job \in Creating \cup Sending => directory = NoDirectory)
  BY DEF TransferInv, DirectoryOK

LEMMA AtRestMoves == AtRest \in MovesUnderway
  BY FreshWork DEF AtRest

(***************************************************************************)
(* The steps of a download.                                                *)
(***************************************************************************)
LEMMA GiveUpStep ==
    ASSUME TransferInv, RequestFails \/ ArchiveRefused
    PROVE  TransferInv'
<1>1. /\ job' = [job EXCEPT !.pc = "failed"] /\ job.pc \in {"manifest", "extract"}
      /\ UNCHANGED <<published, localFile, session, work, result, lost>>
  BY DEF RequestFails, ArchiveRefused, serviceVars
<1>2. job \in Asking \cup Fetching /\ job # Resting /\ job \notin Sending
  BY <1>1, JobKinds DEF TransferInv, TransferTypes
<1>3. job' \in Asking \cup Fetching /\ job'.pc = "failed"
  BY <1>1, <1>2, Turned
<1>4. DirectoryOK'
  BY <1>1, <1>2, <1>3, Underway, DownloadGoesOn
<1>5. SessionOK' /\ session' \in Sessions \cup {NoSession}
  BY <1>1, <1>2, SessionKept
<1>6. work' \in MovesUnderway
  BY <1>1 DEF TransferInv, TransferTypes
<1>7. TransferTypes'
  BY <1>1, <1>3, <1>5, <1>6, TypesKept
<1>. QED  BY <1>4, <1>5, <1>7 DEF TransferInv

LEMMA StartDownloadStep ==
    ASSUME TransferInv, NEW kind \in {"range", "bundle"}, StartDownload(kind)
    PROVE  TransferInv'
<1>1. /\ job = Resting /\ job' = [kind |-> kind, pc |-> "manifest", again |-> FALSE]
      /\ directory' = Empty /\ result' = "none"
      /\ UNCHANGED <<published, localFile, session, work, lost>>
  BY DEF StartDownload, serviceVars
<1>2. job' \in Asking /\ job \notin Sending /\ job' \notin Fetching
  BY <1>1, JobKinds DEF Asking
<1>3. DirectoryOK'
  BY <1>1, <1>2, DownloadGoesOn
<1>4. SessionOK' /\ session' \in Sessions \cup {NoSession}
  BY <1>1, <1>2, SessionKept
<1>5. work' \in MovesUnderway
  BY <1>1 DEF TransferInv, TransferTypes
<1>6. TransferTypes'
  BY <1>1, <1>2, <1>4, <1>5, TypesKept
<1>. QED  BY <1>3, <1>4, <1>6 DEF TransferInv

LEMMA AskedFor ==
    ASSUME TransferInv, job.pc = "manifest"
    PROVE  /\ job \in Asking /\ job # Resting /\ job \notin Sending
           /\ directory = Empty /\ result = "none" /\ job.again \in BOOLEAN
<1>1. job \in Asking /\ job # Resting /\ job \notin Sending
  BY JobKinds DEF TransferInv, TransferTypes
<1>. QED  BY <1>1 DEF TransferInv, DirectoryOK, Asking

LEMMA RequestManifestStep ==
    ASSUME TransferInv, RequestManifest
    PROVE  TransferInv'
<1>. DEFINE m == [p \in Current |-> published[p]]
<1>1. /\ job.pc = "manifest" /\ job.kind = "range"
      /\ job' = [kind |-> job.kind, pc |-> "transfer", again |-> job.again, manifest |-> m]
      /\ work' = Concurrent(Current)
      /\ UNCHANGED <<published, localFile, session, directory, result, lost>>
  BY DEF RequestManifest
<1>2. m \in Tables(Partitions, Nat) /\ DOMAIN m = Current
  <2>1. Current \in SUBSET Partitions
    BY DEF Current
  <2>2. m \in [Current -> Nat]
    BY <2>1 DEF TransferInv, TransferTypes
  <2>. QED  BY <2>1, <2>2 DEF Tables
<1>. HIDE DEF m
<1>3. Current \in SUBSET Int
  BY TransferAssumption DEF Current
<1>4. job' \in Fetching /\ job'.pc = "transfer" /\ job'.kind = "range" /\ job'.manifest = m /\ job' \notin Asking
  <2>1. job.again \in BOOLEAN
    BY <1>1, AskedFor
  <2>2. job' \in Fetching
    BY <1>1, <1>2, <2>1 DEF Fetching
  <2>. QED  BY <1>1, <2>2, JobKinds
<1>5. FilesOK'
  <2>1. PICK S \in SUBSET Int : S = Current
    BY <1>3
  <2>2. ItemsOf' = S
    BY <1>2, <1>4, <2>1 DEF ItemsOf
  <2>3. directory' = Empty
    BY <1>1, AskedFor
  <2>4. work' = Concurrent(S)
    BY <1>1, <2>1
  <2>5. work'.left = S /\ DOMAIN work'.active = {}
    BY <2>4, FreshWork
  <2>6. DOMAIN directory' = {} /\ directory' = [n \in DOMAIN directory' |-> directory'[n]]
    BY <2>3, EmptyTable
  <2>. QED  BY <2>2, <2>5, <2>6 DEF FilesOK
<1>6. DirectoryOK'
  BY <1>1, <1>4, <1>5, AskedFor, DownloadGoesOn
<1>7. SessionOK' /\ session' \in Sessions \cup {NoSession}
  BY <1>1, AskedFor, SessionKept
<1>8. work' \in MovesUnderway
  BY <1>1, <1>3, FreshWork
<1>9. TransferTypes'
  BY <1>1, <1>4, <1>7, <1>8, TypesKept
<1>. QED  BY <1>6, <1>7, <1>9 DEF TransferInv

LEMMA RequestBundleStep ==
    ASSUME TransferInv, RequestBundle
    PROVE  TransferInv'
<1>1. /\ job.pc = "manifest" /\ job.kind = "bundle"
      /\ UNCHANGED <<published, localFile, session, directory, result, lost>>
  BY DEF RequestBundle
<1>2. SessionOK' /\ session' \in Sessions \cup {NoSession}
  BY <1>1, AskedFor, SessionKept
<1>3. CASE /\ job' = [kind |-> job.kind, pc |-> "transfer", again |-> FALSE, manifest |-> Bundle]
           /\ work' = Concurrent({Zipped})
  <2>1. Bundle \in Tables(Partitions, Nat)
    BY TransferAssumption DEF Tables
  <2>2. job' \in Fetching /\ job'.pc = "transfer" /\ job'.kind = "bundle" /\ job' \notin Asking
    <3>1. job' \in Fetching
      BY <1>1, <1>3, <2>1 DEF Fetching
    <3>. QED  BY <1>1, <1>3, <3>1, JobKinds
  <2>3. {Zipped} \in SUBSET Int
    BY DEF Zipped
  <2>4. work' \in MovesUnderway /\ work'.left = {Zipped} /\ DOMAIN work'.active = {}
    BY <1>3, <2>3, FreshWork
  <2>5. DOMAIN directory' = {} /\ directory' = [n \in DOMAIN directory' |-> directory'[n]]
    BY <1>1, AskedFor, EmptyTable
  <2>6. FilesOK'
    BY <2>2, <2>4, <2>5 DEF FilesOK, ItemsOf
  <2>7. DirectoryOK'
    BY <1>1, <2>2, <2>6, AskedFor, DownloadGoesOn
  <2>8. TransferTypes'
    BY <1>1, <1>2, <2>2, <2>4, TypesKept
  <2>. QED  BY <1>2, <2>7, <2>8 DEF TransferInv
<1>4. CASE /\ job' = [kind |-> job.kind, pc |-> "write", again |-> FALSE, manifest |-> Empty]
           /\ UNCHANGED work
  <2>1. Empty \in Tables(Partitions, Nat)
    BY EmptyTable
  <2>2. job' \in Fetching /\ job'.pc = "write" /\ job'.manifest = Empty /\ job' \notin Asking
    <3>1. job' \in Fetching
      BY <1>1, <1>4, <2>1 DEF Fetching
    <3>. QED  BY <1>4, <3>1, JobKinds
  <2>3. directory' = Empty /\ result' = "none"
    BY <1>1, AskedFor
  <2>4. DirectoryOK'
    BY <2>2, <2>3, DownloadGoesOn
  <2>5. work' \in MovesUnderway
    BY <1>4 DEF TransferInv, TransferTypes
  <2>6. TransferTypes'
    BY <1>1, <1>2, <2>2, <2>5, TypesKept
  <2>. QED  BY <1>2, <2>4, <2>6 DEF TransferInv
<1>. QED  BY <1>3, <1>4 DEF RequestBundle

LEMMA DownloadSettlesStep ==
    ASSUME TransferInv, DownloadSettles
    PROVE  TransferInv'
<1>1. /\ job.kind # "upload" /\ job.pc = "transfer" /\ DOMAIN work.active = {}
      /\ work.failure # "none" \/ work.left = {}
      /\ work' = AtRest
      /\ UNCHANGED <<published, localFile, session, result, lost>>
  BY DEF DownloadSettles, Settled, serviceVars
<1>2. job \in Fetching /\ job # Resting /\ job \notin Sending /\ job.kind \in {"range", "bundle"}
  BY <1>1, JobKinds DEF TransferInv, TransferTypes
<1>3. SessionOK' /\ session' \in Sessions \cup {NoSession}
  BY <1>1, <1>2, SessionKept
<1>4. work' \in MovesUnderway
  BY <1>1, AtRestMoves
<1>5. FilesOK /\ result' = "none" /\ job.manifest \in Tables(Partitions, Nat)
  BY <1>1, <1>2, Underway, JobKinds DEF TransferInv, DirectoryOK
<1>6. job' \in Asking \cup Fetching => TransferTypes'
  BY <1>1, <1>3, <1>4, TypesKept
<1>7. CASE StartsOver
  <2>1. directory' = Empty /\ job' = [kind |-> job.kind, pc |-> "manifest", again |-> TRUE]
    BY <1>7 DEF DownloadSettles, Wiped
  <2>2. job' \in Asking /\ job' \notin Fetching
    BY <1>2, <2>1, JobKinds DEF Asking
  <2>3. DirectoryOK'
    BY <1>5, <2>1, <2>2, DownloadGoesOn
  <2>. QED  BY <1>3, <1>6, <2>2, <2>3 DEF TransferInv
<1>8. CASE ~StartsOver
  <2>1. PICK x \in {"failed", "extract", "write"} :
          /\ x = IF work.failure # "none" THEN "failed" ELSE IF job.kind = "bundle" THEN "extract" ELSE "write"
          /\ job' = [job EXCEPT !.pc = x]
    BY <1>8 DEF DownloadSettles
  <2>2. directory' = directory
    BY <1>8 DEF DownloadSettles
  <2>3. job' \in Fetching /\ job'.pc = x /\ job'.manifest = job.manifest /\ job' \notin Asking
    <3>1. job' \in Fetching /\ job'.pc = x /\ job'.manifest = job.manifest
      <4>1. x \in {"transfer", "extract", "write", "failed"}
        OBVIOUS
      <4>2. job' = [job EXCEPT !.pc = x]
        BY <2>1
      <4>. QED  BY <1>2, <4>1, <4>2, Turned
    <3>. QED  BY <3>1, JobKinds
  <2>4. ASSUME x # "failed"
        PROVE  /\ directory = [n \in DOMAIN directory |-> directory[n]] /\ DOMAIN directory = ItemsOf
               /\ \A n \in DOMAIN directory : directory[n] = Whole(n)
    <3>1. work.failure = "none" /\ work.left = {}
      BY <1>1, <2>1, <2>4
    <3>. QED  BY <1>1, <1>5, <3>1 DEF FilesOK
  <2>5. ASSUME x = "extract"
        PROVE  ExtractOK'
    <3>1. job.kind = "bundle"
      BY <2>1, <2>5
    <3>2. DOMAIN directory = {Zipped}
      BY <2>4, <2>5, <3>1 DEF ItemsOf
    <3>. QED  BY <2>2, <2>4, <2>5, <3>2 DEF ExtractOK
  <2>6. ASSUME x = "write"
        PROVE  directory = job.manifest
    <3>1. job.kind # "bundle"
      BY <2>1, <2>6
    <3>2. DOMAIN directory = DOMAIN job.manifest
      BY <2>4, <2>6, <3>1 DEF ItemsOf
    <3>3. job.manifest = [n \in DOMAIN job.manifest |-> job.manifest[n]] /\ DOMAIN job.manifest \subseteq Partitions
      BY <1>5, TableIsMap
    <3>4. \A n \in DOMAIN directory : directory[n] = job.manifest[n]
      BY <2>4, <2>6, <3>2, <3>3, TransferAssumption DEF Whole, Zipped
    <3>5. directory = [n \in DOMAIN directory |-> directory[n]]
      BY <2>4, <2>6
    <3>6. [n \in DOMAIN directory |-> directory[n]] = [n \in DOMAIN job.manifest |-> job.manifest[n]]
      BY <3>2, <3>4
    <3>. QED  BY <3>3, <3>5, <3>6
  <2>7. DirectoryOK'
    BY <1>5, <2>1, <2>2, <2>3, <2>5, <2>6, DownloadGoesOn
  <2>. QED  BY <1>3, <1>6, <2>3, <2>7 DEF TransferInv
<1>. QED  BY <1>7, <1>8

LEMMA ExtractFileStep ==
    ASSUME TransferInv, ExtractFile
    PROVE  TransferInv'
<1>1. job.pc = "extract" /\ UNCHANGED <<published, localFile, session, work, result, lost>>
  BY DEF ExtractFile, serviceVars
<1>2. job \in Fetching /\ job # Resting /\ job \notin Sending /\ job.kind # "upload"
  BY <1>1, JobKinds DEF TransferInv, TransferTypes
<1>3. SessionOK' /\ session' \in Sessions \cup {NoSession}
  BY <1>1, <1>2, SessionKept
<1>4. work' \in MovesUnderway
  BY <1>1 DEF TransferInv, TransferTypes
<1>5. ExtractOK /\ result' = "none" /\ job.manifest \in Tables(Partitions, Nat)
  BY <1>1, <1>2, Underway, JobKinds DEF TransferInv, DirectoryOK
<1>6. DOMAIN job.manifest \subseteq Partitions /\ job.manifest = [n \in DOMAIN job.manifest |-> job.manifest[n]]
  BY <1>5, TableIsMap
<1>7. Zipped \notin DOMAIN job.manifest
  BY <1>6, TransferAssumption DEF Zipped
<1>8. job' \in Fetching => TransferTypes'
  BY <1>1, <1>3, <1>4, TypesKept
<1>9. CASE DOMAIN job.manifest \ DOMAIN directory = {}
  <2>1. directory' = Without(directory, Zipped) /\ job' = [job EXCEPT !.pc = "write"]
    BY <1>9 DEF ExtractFile
  <2>2. job' \in Fetching /\ job'.pc = "write" /\ job'.manifest = job.manifest /\ job' \notin Asking
    BY <1>2, <2>1, Turned, JobKinds
  <2>3. DOMAIN directory \ {Zipped} = DOMAIN job.manifest
    BY <1>5, <1>7, <1>9 DEF ExtractOK
  <2>4. directory' = [n \in DOMAIN job.manifest |-> directory[n]]
    BY <2>1, <2>3 DEF Without
  <2>5. \A n \in DOMAIN job.manifest : directory[n] = job.manifest[n]
    BY <1>5, <2>3 DEF ExtractOK
  <2>6. directory' = job.manifest
    BY <1>6, <2>4, <2>5
  <2>7. DirectoryOK'
    BY <1>5, <2>2, <2>6, DownloadGoesOn
  <2>. QED  BY <1>3, <1>8, <2>2, <2>7 DEF TransferInv
<1>10. CASE DOMAIN job.manifest \ DOMAIN directory # {}
  <2>1. PICK p \in DOMAIN job.manifest : directory' = Put(p, job.manifest[p])
    BY <1>10 DEF ExtractFile
  <2>2. job' = job
    BY <1>10 DEF ExtractFile
  <2>3. directory' = With(directory, p, job.manifest[p])
    BY <1>2, <2>1 DEF Put
  <2>4. /\ directory' = [n \in DOMAIN directory' |-> directory'[n]]
        /\ DOMAIN directory' = DOMAIN directory \cup {p} /\ directory'[p] = job.manifest[p]
        /\ \A n \in DOMAIN directory : n # p => directory'[n] = directory[n]
    BY <2>3 DEF With
  <2>5. ExtractOK'
    BY <1>5, <2>2, <2>4 DEF ExtractOK
  <2>6. job' \in Fetching /\ job' \notin Asking /\ job'.pc = "extract"
    BY <1>1, <1>2, <2>2, JobKinds
  <2>7. DirectoryOK'
    BY <1>5, <2>5, <2>6, DownloadGoesOn
  <2>. QED  BY <1>3, <1>8, <2>6, <2>7 DEF TransferInv
<1>. QED  BY <1>9, <1>10

LEMMA WriteManifestStep ==
    ASSUME TransferInv, WriteManifest
    PROVE  TransferInv'
<1>1. /\ job.pc = "write" /\ directory' = Put(ManifestFile, job.manifest)
      /\ result' = "directory" /\ job' = Resting
      /\ UNCHANGED <<published, localFile, session, work, lost>>
  BY DEF WriteManifest, serviceVars
<1>2. job \in Fetching /\ job \notin Sending /\ job.kind # "upload"
  BY <1>1, JobKinds DEF TransferInv, TransferTypes
<1>3. SessionOK' /\ session' \in Sessions \cup {NoSession}
  BY <1>1, <1>2, SessionKept
<1>4. work' \in MovesUnderway
  BY <1>1 DEF TransferInv, TransferTypes
<1>5. TransferTypes'
  BY <1>1, <1>3, <1>4, TypesKept
<1>6. directory = job.manifest
  BY <1>1, <1>2 DEF TransferInv, DirectoryOK
<1>7. PICK m : m = job.manifest
  OBVIOUS
<1>8. directory' = With(m, ManifestFile, m)
  BY <1>1, <1>2, <1>6, <1>7 DEF Put
<1>9. directory'[ManifestFile] = m
  BY <1>8 DEF With
<1>10. TransferIsWhole'
  BY <1>1, <1>8, <1>9 DEF TransferIsWhole
<1>11. DirectoryOK'
  <2>1. job' \notin Asking /\ job' \notin Fetching /\ job' \notin Creating /\ job' \notin Sending
    BY <1>1, JobKinds
  <2>. QED  BY <1>1, <1>10, <2>1 DEF DirectoryOK
<1>. QED  BY <1>3, <1>5, <1>11 DEF TransferInv

(* The catch block.                                                        *)
LEMMA FailsStep ==
    ASSUME TransferInv, Fails
    PROVE  TransferInv'
<1>1. /\ job.pc = "failed" /\ UNCHANGED <<published, localFile, session, work, lost>>
  BY DEF Fails, serviceVars
<1>2. work' \in MovesUnderway /\ job # Resting
  BY <1>1, JobKinds DEF TransferInv, TransferTypes
<1>3. CASE HasSession
  <2>1. job \in Sending /\ job' = [job EXCEPT !.pc = "cancel"] /\ UNCHANGED <<directory, result>>
    <3>1. job \in Sending
      BY <1>2, <1>3, JobKinds DEF HasSession, TransferInv, TransferTypes
    <3>. QED  BY <1>3, <3>1 DEF Fails
  <2>2. job' \in Sending
    BY <2>1, Turned
  <2>3. SessionOK' /\ session' \in Sessions \cup {NoSession}
    BY <1>1, <2>2, SessionKept
  <2>4. TransferTypes'
    BY <1>1, <1>2, <2>2, <2>3, TypesKept
  <2>5. DirectoryOK'
    BY <1>2, <2>1, <2>2, Underway, UploadGoesOn
  <2>. QED  BY <2>3, <2>4, <2>5 DEF TransferInv
<1>4. CASE ~HasSession
  <2>1. job' = Resting /\ result' = "error" /\ directory' = NoDirectory
    BY <1>4 DEF Fails
  <2>2. job \notin Sending
    BY <1>4, JobKinds DEF HasSession
  <2>3. SessionOK' /\ session' \in Sessions \cup {NoSession}
    BY <1>1, <2>2, SessionKept
  <2>4. TransferTypes'
    BY <1>1, <1>2, <2>1, <2>3, TypesKept
  <2>5. DirectoryOK'
    BY <2>1, CallEnds
  <2>. QED  BY <2>3, <2>4, <2>5 DEF TransferInv
<1>. QED  BY <1>3, <1>4

(***************************************************************************)
(* The steps of an upload.                                                 *)
(***************************************************************************)
LEMMA StartUploadStep ==
    ASSUME TransferInv, StartUpload
    PROVE  TransferInv'
<1>1. /\ job = Resting /\ directory' = NoDirectory /\ result' = "none"
      /\ job' = [kind |-> "upload", pc |-> "create", sum |-> localFile.bytes, stamp |-> localFile.stamp]
      /\ UNCHANGED <<published, localFile, session, work, lost>>
  BY DEF StartUpload, serviceVars
<1>2. job' \in Creating
  <2>1. localFile.bytes \in Nat /\ localFile.stamp \in Nat
    BY DEF TransferInv, TransferTypes
  <2>. QED  BY <1>1, <2>1 DEF Creating
<1>3. job \notin Sending
  BY <1>1, JobKinds
<1>4. SessionOK' /\ session' \in Sessions \cup {NoSession}
  BY <1>1, <1>3, SessionKept
<1>5. work' \in MovesUnderway
  BY <1>1 DEF TransferInv, TransferTypes
<1>6. TransferTypes'
  BY <1>1, <1>2, <1>4, <1>5, TypesKept
<1>7. DirectoryOK'
  BY <1>1, <1>2, UploadGoesOn
<1>. QED  BY <1>4, <1>6, <1>7 DEF TransferInv

LEMMA PageIsSent ==
    ASSUME NEW n \in Nat, SendPage(n), job.sum \in Nat, job.stamp \in Nat
    PROVE  job' \in Sending /\ work' \in MovesUnderway
<1>1. job' \in Sending
  BY DEF SendPage, Sending
<1>2. Page(n) \in SUBSET Int
  BY TransferAssumption DEF Page
<1>3. work' \in MovesUnderway
  BY <1>2, FreshWork DEF SendPage
<1>. QED  BY <1>1, <1>3

(* An answer that arrives leaves an open session only to a call that sends *)
(* its parts; one that does not arrive is the ghost's.                     *)
LEMMA CreateSessionStep ==
    ASSUME TransferInv, NEW outcome \in ApiOutcomes, CreateSession(outcome)
    PROVE  TransferInv'
<1>. DEFINE mine == IF session = NoSession
                    THEN [status |-> "uploading", digest |-> job.sum, parts |-> Empty] ELSE session
            fits == mine.digest = job.sum
<1>1. /\ job.pc = "create"
      /\ session' = IF outcome = "refused" \/ ~fits THEN session ELSE mine
      /\ lost' = IF fits /\ outcome # "refused" THEN outcome = "lost" ELSE lost
      /\ IF outcome # "ok" \/ ~fits THEN job' = Resting /\ result' = "error" /\ UNCHANGED work
         ELSE IF mine.status # "uploading" THEN job' = Resting /\ result' = "answered" /\ UNCHANGED work
         ELSE SendPage(0) /\ UNCHANGED result
      /\ UNCHANGED <<published, localFile, directory>>
  BY DEF CreateSession
<1>2. job \in Creating /\ job # Resting /\ job \notin Sending /\ job.sum \in Nat /\ job.stamp \in Nat
  BY <1>1, JobKinds DEF TransferInv, TransferTypes
<1>3. directory = NoDirectory /\ result = "none" /\ work \in MovesUnderway
  BY <1>2, Underway DEF TransferInv, TransferTypes
<1>4. mine \in Sessions
  <2>1. CASE session = NoSession
    <3>1. Empty \in Tables(Int, Nat)
      BY EmptyTable
    <3>. QED  BY <1>2, <2>1, <3>1 DEF Sessions
  <2>2. CASE session # NoSession
    BY <2>2 DEF TransferInv, TransferTypes
  <2>. QED  BY <2>1, <2>2
<1>. HIDE DEF mine
<1>5. session' \in Sessions \cup {NoSession}
  BY <1>1, <1>4 DEF TransferInv, TransferTypes
<1>6. session.status = "uploading" => lost
  BY <1>2 DEF TransferInv, SessionOK
<1>7. CASE outcome # "ok" \/ ~fits
  <2>1. job' = Resting /\ result' = "error" /\ UNCHANGED work
    BY <1>1, <1>7
  <2>2. session'.status = "uploading" => lost'
    <3>1. CASE outcome = "refused" \/ ~fits
      BY <1>1, <1>6, <3>1
    <3>2. CASE outcome # "refused" /\ fits
      BY <1>1, <1>7, <3>2 DEF ApiOutcomes
    <3>. QED  BY <3>1, <3>2
  <2>3. DirectoryOK'
    BY <1>1, <1>3, <2>1, CallEnds
  <2>4. TransferTypes'
    BY <1>1, <1>3, <1>5, <2>1, TypesKept
  <2>. QED  BY <2>2, <2>3, <2>4 DEF TransferInv, SessionOK
<1>8. CASE outcome = "ok" /\ fits /\ mine.status # "uploading"
  <2>1. job' = Resting /\ result' = "answered" /\ UNCHANGED work /\ session' = mine
    BY <1>1, <1>8
  <2>2. DirectoryOK'
    BY <1>1, <1>3, <2>1, CallEnds
  <2>3. TransferTypes'
    BY <1>1, <1>3, <1>5, <2>1, TypesKept
  <2>. QED  BY <1>8, <2>1, <2>2, <2>3 DEF TransferInv, SessionOK
<1>9. CASE outcome = "ok" /\ fits /\ mine.status = "uploading"
  <2>1. SendPage(0) /\ UNCHANGED result
    BY <1>1, <1>9
  <2>2. job' \in Sending /\ work' \in MovesUnderway
    BY <1>2, <2>1, PageIsSent
  <2>3. DirectoryOK'
    BY <1>1, <1>3, <2>1, <2>2, UploadGoesOn
  <2>4. TransferTypes'
    BY <1>1, <1>5, <2>2, TypesKept
  <2>. QED  BY <2>2, <2>3, <2>4 DEF TransferInv, SessionOK
<1>. QED  BY <1>7, <1>8, <1>9

(* What a call with a session does between its requests keeps it.          *)
LEMMA SendingStep ==
    ASSUME TransferInv, UploadSettles \/ NextPage \/ StatAgain
    PROVE  TransferInv'
<1>1. UNCHANGED <<published, localFile, session, directory, result, lost>>
  BY DEF UploadSettles, NextPage, StatAgain, serviceVars
<1>2. job \in Sending /\ job # Resting /\ work \in MovesUnderway /\ job.sum \in Nat /\ job.stamp \in Nat /\ job.after \in Nat
  BY JobKinds DEF UploadSettles, NextPage, StatAgain, Settled, TransferInv, TransferTypes
<1>3. job' \in Sending /\ work' \in MovesUnderway
  <2>1. CASE UploadSettles
    <3>1. PICK x \in {"failed", "page", "stat"} : job' = [job EXCEPT !.pc = x]
      BY <2>1 DEF UploadSettles
    <3>2. work' \in MovesUnderway
      BY <2>1, AtRestMoves DEF UploadSettles
    <3>. QED  BY <1>2, <3>1, <3>2, Turned
  <2>2. CASE NextPage
    <3>1. CASE SendPage(job.after + PageSize)
      <4>1. PICK n \in Nat : n = job.after + PageSize
        BY <1>2, TransferAssumption
      <4>. QED  BY <1>2, <3>1, <4>1, PageIsSent
    <3>2. CASE job' = [job EXCEPT !.pc = "failed"] /\ UNCHANGED work
      BY <1>2, <3>2, Turned
    <3>. QED  BY <2>2, <3>1, <3>2 DEF NextPage
  <2>3. CASE StatAgain
    <3>1. PICK x \in {"complete", "failed"} : job' = [job EXCEPT !.pc = x]
      BY <2>3 DEF StatAgain
    <3>. QED  BY <1>2, <2>3, <3>1, Turned DEF StatAgain
  <2>. QED  BY <2>1, <2>2, <2>3
<1>4. SessionOK' /\ session' \in Sessions \cup {NoSession}
  BY <1>1, <1>3, SessionKept
<1>5. TransferTypes'
  BY <1>1, <1>3, <1>4, TypesKept
<1>6. DirectoryOK'
  BY <1>1, <1>2, <1>3, Underway, UploadGoesOn
<1>. QED  BY <1>4, <1>5, <1>6 DEF TransferInv

LEMMA CompleteCallStep ==
    ASSUME TransferInv, NEW outcome \in ApiOutcomes, CompleteSession(outcome)
    PROVE  TransferInv'
<1>1. job.pc = "complete" /\ UNCHANGED <<published, localFile, work, directory, lost>>
  BY DEF CompleteSession
<1>2. job \in Sending /\ job # Resting /\ work' \in MovesUnderway
  BY <1>1, JobKinds DEF TransferInv, TransferTypes
<1>3. directory' = NoDirectory /\ result = "none"
  BY <1>1, <1>2, Underway
<1>4. /\ session' \in Sessions \cup {NoSession}
      /\ session' = session \/ session'.status # "uploading"
  <2>1. CASE session.status = "uploading" /\ outcome # "refused"
    <3>1. session \in Sessions
      BY <2>1 DEF TransferInv, TransferTypes, NoSession
    <3>2. PICK x \in {"queued", "failed"} : session' = [session EXCEPT !.status = x]
      BY <2>1 DEF CompleteSession
    <3>. QED  BY <3>1, <3>2 DEF Sessions
  <2>2. CASE ~(session.status = "uploading" /\ outcome # "refused")
    <3>1. session' = session
      BY <2>2 DEF CompleteSession
    <3>. QED  BY <3>1 DEF TransferInv, TransferTypes
  <2>. QED  BY <2>1, <2>2
<1>5. CASE job' = Resting
  <2>1. result' = "answered" /\ session.status = "uploading" /\ session' # session
    <3>1. job' # [job EXCEPT !.pc = "failed"]
      BY <1>2, <1>5, Turned, JobKinds
    <3>2. session.status = "uploading" /\ result' = "answered" /\ session' = [session EXCEPT !.status = "queued"]
      BY <3>1 DEF CompleteSession
    <3>3. session \in Sessions
      BY <3>2 DEF TransferInv, TransferTypes, NoSession
    <3>4. session'.status = "queued"
      BY <3>2, <3>3 DEF Sessions
    <3>. QED  BY <3>2, <3>4
  <2>2. DirectoryOK'
    BY <1>3, <1>5, <2>1, CallEnds
  <2>3. TransferTypes'
    BY <1>1, <1>2, <1>4, <1>5, TypesKept
  <2>. QED  BY <1>4, <2>1, <2>2, <2>3 DEF TransferInv, SessionOK
<1>6. CASE job' # Resting
  <2>1. job' = [job EXCEPT !.pc = "failed"] /\ UNCHANGED result
    BY <1>6 DEF CompleteSession
  <2>2. job' \in Sending
    BY <1>2, <2>1, Turned
  <2>3. DirectoryOK'
    BY <1>3, <2>1, <2>2, UploadGoesOn
  <2>4. TransferTypes'
    BY <1>1, <1>2, <1>4, <2>2, TypesKept
  <2>. QED  BY <2>2, <2>3, <2>4 DEF TransferInv, SessionOK
<1>. QED  BY <1>5, <1>6

LEMMA CancelSessionStep ==
    ASSUME TransferInv, NEW outcome \in ApiOutcomes, CancelSession(outcome)
    PROVE  TransferInv'
<1>1. /\ job.pc = "cancel" /\ job' = Resting /\ result' = "error"
      /\ lost' = (lost \/ outcome = "refused")
      /\ UNCHANGED <<published, localFile, work, directory>>
  BY DEF CancelSession
<1>2. job \in Sending /\ job # Resting /\ work' \in MovesUnderway
  BY <1>1, JobKinds DEF TransferInv, TransferTypes
<1>3. directory' = NoDirectory
  BY <1>1, <1>2, Underway
<1>4. session' \in Sessions \cup {NoSession} /\ (session'.status = "uploading" => outcome = "refused")
  <2>1. CASE session.status = "uploading" /\ outcome # "refused"
    <3>1. session \in Sessions
      BY <2>1 DEF TransferInv, TransferTypes, NoSession
    <3>2. session' = [session EXCEPT !.status = "cancelled"]
      BY <2>1 DEF CancelSession
    <3>. QED  BY <3>1, <3>2 DEF Sessions
  <2>2. CASE ~(session.status = "uploading" /\ outcome # "refused")
    <3>1. session' = session
      BY <2>2 DEF CancelSession
    <3>. QED  BY <2>2, <3>1 DEF TransferInv, TransferTypes
  <2>. QED  BY <2>1, <2>2
<1>5. DirectoryOK'
  BY <1>1, <1>3, CallEnds
<1>6. TransferTypes'
  BY <1>1, <1>2, <1>4, TypesKept
<1>. QED  BY <1>1, <1>4, <1>5, <1>6 DEF TransferInv, SessionOK

LEMMA ProcessDiesStep ==
    ASSUME TransferInv, ProcessDies
    PROVE  TransferInv'
<1>1. /\ job' = Resting /\ work' = AtRest /\ result' = "died" /\ lost' = TRUE /\ directory' = NoDirectory
      /\ UNCHANGED <<published, localFile, session>>
  BY DEF ProcessDies, serviceVars
<1>2. session' \in Sessions \cup {NoSession}
  BY <1>1 DEF TransferInv, TransferTypes
<1>3. DirectoryOK'
  BY <1>1, CallEnds
<1>4. TransferTypes'
  BY <1>1, <1>2, AtRestMoves, TypesKept
<1>. QED  BY <1>1, <1>3, <1>4 DEF TransferInv, SessionOK

(* What a transfer that has ended leaves behind: of a download the         *)
(* verified files of one manifest or nothing, of an upload no open         *)
(* session; whatever the partitions, the file, the troubles and the order. *)
THEOREM TransferInvariant == TransfersSpec => []TransferInv
<1>1. TransfersInit => TransferInv
  <2>1. SUFFICES ASSUME TransfersInit PROVE TransferInv
    OBVIOUS
  <2>2. /\ job = Resting /\ directory = NoDirectory /\ result = "none"
        /\ session = NoSession /\ work = AtRest
    BY <2>1 DEF TransfersInit
  <2>3. published \in [Partitions -> Nat] /\ localFile \in [bytes : Nat, stamp : Nat]
    BY <2>1 DEF TransfersInit
  <2>4. TransferTypes
    BY <2>2, <2>3, AtRestMoves DEF TransferTypes
  <2>5. job \notin Asking /\ job \notin Fetching /\ job \notin Creating /\ job \notin Sending
    BY <2>2, JobKinds
  <2>6. DirectoryOK
    BY <2>2, <2>5 DEF DirectoryOK, TransferIsWhole
  <2>. QED  BY <2>2, <2>4, <2>6 DEF TransferInv, SessionOK, NoSession
<1>2. TransferInv /\ [TransfersNext]_transferVars => TransferInv'
  <2>1. SUFFICES ASSUME TransferInv, [TransfersNext]_transferVars PROVE TransferInv'
    OBVIOUS
  <2>2. CASE TakeItem
    BY <2>1, <2>2, WorkersStep DEF TakeItem
  <2>3. CASE /\ job.pc = "transfer"
             /\ \E i \in DOMAIN work.active : PartDone(i) \/ FileDone(i) \/ \E ailment \in Ailments : ItemFails(i, ailment)
    BY <2>1, <2>3, WorkersStep
  <2>4. CASE \E kind \in {"range", "bundle"} : StartDownload(kind)
    BY <2>1, <2>4, StartDownloadStep
  <2>5. CASE Aborts \/ RequestManifest \/ RequestBundle \/ RequestFails \/ DownloadSettles \/ ExtractFile
             \/ ArchiveRefused \/ WriteManifest \/ Fails
    BY <2>1, <2>5, AbortsStep, RequestManifestStep, RequestBundleStep, GiveUpStep, DownloadSettlesStep,
       ExtractFileStep, WriteManifestStep, FailsStep
  <2>6. CASE StartUpload \/ UploadSettles \/ NextPage \/ StatAgain
    BY <2>1, <2>6, StartUploadStep, SendingStep
  <2>7. CASE \E outcome \in ApiOutcomes : CreateSession(outcome) \/ CompleteSession(outcome) \/ CancelSession(outcome)
    BY <2>1, <2>7, CreateSessionStep, CompleteCallStep, CancelSessionStep
  <2>8. CASE (\E p \in Partitions : Publish(p)) \/ LinksExpire \/ Edit \/ SessionSwept \/ UNCHANGED transferVars
    BY <2>1, <2>8, EnvironmentStep
  <2>9. CASE ProcessDies
    BY <2>1, <2>9, ProcessDiesStep
  <2>. QED  BY <2>1, <2>2, <2>3, <2>4, <2>5, <2>6, <2>7, <2>8, <2>9 DEF TransfersNext
<1>. QED  BY <1>1, <1>2, PTL DEF TransfersSpec

(* FinishedTransfers, which the run `services` checks.                     *)
THEOREM TransfersFinish == TransfersSpec => []FinishedTransfers
<1>1. TransferInv => FinishedTransfers
  <2>1. SUFFICES ASSUME TransferInv PROVE FinishedTransfers
    OBVIOUS
  <2>2. TransferIsWhole
    BY <2>1 DEF TransferInv, DirectoryOK
  <2>3. job = Resting /\ ~lost => session.status # "uploading"
    BY <2>1, JobKinds DEF TransferInv, SessionOK
  <2>. QED  BY <2>2, <2>3 DEF FinishedTransfers, UploadIsSettled
<1>. QED  BY <1>1, TransferInvariant, PTL
=============================================================================
