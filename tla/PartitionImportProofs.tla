----------------------- MODULE PartitionImportProofs -----------------------
(***************************************************************************)
(* Proofs about PartitionImport, for any number of uploads, executions,    *)
(* partitions and faults.                                                  *)
(***************************************************************************)
EXTENDS PartitionImport, TLAPS

Errors == {"none", "retry", "scope", "lost", "unusable"}

USE DEF CandidateKey, SourceKey

(* The two halves of TypeOK: the locals of the executions, and the rest.   *)
LocalsOK ==
    /\ pc \in [Executions -> Steps]
    /\ wjob \in [Executions -> Jobs \cup {None}]
    /\ \A w \in Executions : wjob[w] = None <=> pc[w] = "idle"
    /\ watt \in [Executions -> Nat]
    /\ uploaded \in [Executions -> SUBSET Parts]
    /\ err \in [Executions -> Errors]
    /\ fresh \in [Executions -> BOOLEAN]

RowsOK ==
    /\ jobStatus \in [Jobs -> JobStatus]
    /\ tempKey \in [Jobs -> BOOLEAN]
    /\ runStatus \in [Jobs -> RunStatus]
    /\ attempt \in [Jobs -> Nat]
    /\ lockedBy \in [Jobs -> WorkerIds \cup {None}]
    /\ live \in [Jobs -> BOOLEAN]
    /\ due \in [Jobs -> BOOLEAN]
    /\ object \in [Parts -> Keys \cup {None}]
    /\ writer \in [Parts -> Jobs \cup {None}]
    /\ version \in [Parts -> Nat]
    /\ publishedAt \in [Jobs -> Nat]
    /\ objects \subseteq Keys
    /\ garbage \subseteq Keys
    /\ gc \in Keys \cup {None}
    /\ gcPc \in {"idle", "delete", "forget"}
    /\ faults \in 0..MaxFaults

LEMMA TypeOKParts == TypeOK <=> RowsOK /\ LocalsOK
BY DEF TypeOK, RowsOK, LocalsOK, Errors

(* What MoveTo does to the locals: they keep their types.                  *)
LEMMA MoveToType ==
    ASSUME RowsOK, LocalsOK, NEW w \in Executions, NEW s \in Steps,
           NEW u \in SUBSET Parts, NEW e \in Errors,
           pc[w] # "idle", MoveTo(w, s, u, e)
    PROVE  LocalsOK'
<1>1. wjob[w] \in Jobs /\ None \notin Jobs
  BY ConstantsAssumption DEF LocalsOK
<1>2. live[wjob[w]] \in BOOLEAN
  BY <1>1 DEF RowsOK
<1>3. fresh' \in [Executions -> BOOLEAN]
  BY <1>2 DEF LocalsOK, MoveTo
<1>4. \A v \in Executions : wjob'[v] = None <=> pc'[v] = "idle"
  BY <1>1 DEF LocalsOK, MoveTo
<1> QED
  BY <1>1, <1>3, <1>4 DEF LocalsOK, MoveTo, Errors

LEMMA GotoType ==
    ASSUME RowsOK, LocalsOK, NEW w \in Executions, NEW s \in Steps,
           pc[w] # "idle", Goto(w, s)
    PROVE  LocalsOK'
<1>1. uploaded[w] \in SUBSET Parts /\ err[w] \in Errors
  BY DEF LocalsOK
<1> QED
  BY <1>1, MoveToType DEF Goto

LEMMA GotoWithType ==
    ASSUME RowsOK, LocalsOK, NEW w \in Executions, NEW s \in Steps,
           NEW e \in Errors, pc[w] # "idle", GotoWith(w, s, e)
    PROVE  LocalsOK'
<1>1. uploaded[w] \in SUBSET Parts
  BY DEF LocalsOK
<1> QED
  BY <1>1, MoveToType DEF GotoWith

LEMMA AfterErrorType == ASSUME NEW e PROVE AfterError(e) \in Steps
BY DEF AfterError, Steps

(* A fault is counted, and one that needs none leaves the counter alone.   *)
LEMMA FaultType ==
    ASSUME RowsOK, NEW kinds, Fault(kinds) \/ UNCHANGED faults
    PROVE  faults' \in 0..MaxFaults
BY ConstantsAssumption DEF RowsOK, Fault

LEMMA DeleteType ==
    ASSUME RowsOK, NEW k \in Keys, DeleteOrEnqueue(k) \/ DeleteOrEnqueueThrows(k)
    PROVE  /\ objects' \subseteq Keys
           /\ garbage' \subseteq Keys
           /\ faults' \in 0..MaxFaults
<1>1. CASE DeleteOrEnqueue(k)
  <2>1. faults' \in 0..MaxFaults
    BY <1>1, FaultType DEF DeleteOrEnqueue
  <2> QED
    BY <1>1, <2>1 DEF DeleteOrEnqueue, RowsOK
<1>2. CASE DeleteOrEnqueueThrows(k)
  <2>1. faults' \in 0..MaxFaults
    BY <1>2, FaultType DEF DeleteOrEnqueueThrows
  <2> QED
    BY <1>2, <2>1 DEF DeleteOrEnqueueThrows, RowsOK
<1> QED
  BY <1>1, <1>2

(* The keys an execution works with.                                       *)
LEMMA KeysType ==
    ASSUME LocalsOK, NEW w \in Executions, pc[w] # "idle"
    PROVE  /\ wjob[w] \in Jobs
           /\ SourceKey(wjob[w]) \in Keys
           /\ \A p \in Parts : CandidateKey(wjob[w], watt[w], p) \in Keys
           /\ Candidates(wjob[w]) \subseteq Parts
BY DEF LocalsOK, Keys, Candidates

LEMMA CommitType ==
    ASSUME RowsOK, NEW j \in Jobs, NEW n \in Nat, CommitPublication(j, n)
    PROVE  /\ jobStatus' \in [Jobs -> JobStatus]
           /\ tempKey' \in [Jobs -> BOOLEAN]
           /\ object' \in [Parts -> Keys \cup {None}]
           /\ writer' \in [Parts -> Jobs \cup {None}]
           /\ version' \in [Parts -> Nat]
           /\ publishedAt' \in [Jobs -> Nat]
           /\ garbage' \subseteq Keys
<1>1. \A p \in Parts : CandidateKey(j, n, p) \in Keys
  BY DEF Keys
<1>2. SourceKey(j) \in Keys
  BY DEF Keys
<1>3. \A p \in Candidates(j) : p \in Parts
  BY DEF Candidates
<1>4. \A p \in Candidates(j) : Decision(j, p) = "replace" => object[p] \in Keys
  BY <1>3 DEF Decision, RowsOK
<1>5. Retired(j, n) \subseteq Keys
  BY <1>1, <1>2, <1>3, <1>4 DEF Retired
<1>6. garbage' \subseteq Keys
  BY <1>5 DEF CommitPublication, RowsOK
<1>7. object' \in [Parts -> Keys \cup {None}]
  BY <1>1 DEF CommitPublication, RowsOK
<1>8. /\ writer' \in [Parts -> Jobs \cup {None}]
      /\ version' \in [Parts -> Nat]
  BY DEF CommitPublication, RowsOK
<1>9. /\ jobStatus' \in [Jobs -> JobStatus]
      /\ tempKey' \in [Jobs -> BOOLEAN]
      /\ publishedAt' \in [Jobs -> Nat]
  BY DEF CommitPublication, MarkPublished, RowsOK, JobStatus
<1> QED
  BY <1>6, <1>7, <1>8, <1>9

LEMMA ReleaseType ==
    ASSUME RowsOK, NEW j \in Jobs, NEW s \in RunStatus, Release(j, s)
    PROVE  /\ runStatus' \in [Jobs -> RunStatus]
           /\ attempt' \in [Jobs -> Nat]
           /\ lockedBy' \in [Jobs -> WorkerIds \cup {None}]
           /\ live' \in [Jobs -> BOOLEAN]
           /\ due' \in [Jobs -> BOOLEAN]
BY DEF RowsOK, Release

(* Every step of an execution keeps the types.                             *)
LEMMA WorkerStepType ==
    ASSUME RowsOK, LocalsOK, NEW w \in Executions, WorkerStep(w) \/ Crash(w)
    PROVE  RowsOK' /\ LocalsOK'
<1> USE DEF DatabaseVars, jobVars, runVars, catalogVars, storeVars, gcVars
<1>a. CASE ClaimWrite(w)
  <2>1. pc[w] # "idle" /\ wjob[w] \in Jobs /\ IdOf[w] \in WorkerIds
    BY <1>a, KeysType, ConstantsAssumption DEF ClaimWrite
  <2>2. /\ attempt' \in [Jobs -> Nat]
        /\ lockedBy' \in [Jobs -> WorkerIds \cup {None}]
    BY <1>a, <2>1 DEF ClaimWrite, RowsOK
  <2>3. RowsOK'
    BY <1>a, <2>1, <2>2 DEF ClaimWrite, RowsOK, RunStatus, JobStatus
  <2>4. LocalsOK'
    BY <1>a, <2>1 DEF ClaimWrite, LocalsOK, Steps
  <2> QED
    BY <2>3, <2>4
<1>b. CASE ClaimMisses(w)
  <2>1. pc[w] # "idle"
    BY <1>b DEF ClaimMisses
  <2>2. LocalsOK'
    BY <1>b, <2>1, GotoType DEF ClaimMisses, Steps
  <2>3. faults' \in 0..MaxFaults
    BY <1>b, FaultType DEF ClaimMisses
  <2> QED
    BY <1>b, <2>2, <2>3 DEF ClaimMisses, RowsOK
<1>c. CASE Unusable(w)
  <2>1. LocalsOK'
    BY <1>c, GotoWithType DEF Unusable, Steps, Errors
  <2> QED
    BY <1>c, <2>1 DEF Unusable, RowsOK
<1>d. CASE BeginPublish(w)
  <2>1. LocalsOK'
    BY <1>d, GotoType DEF BeginPublish, Steps
  <2> QED
    BY <1>d, <2>1 DEF BeginPublish, RowsOK
<1>e. CASE BeginReject(w)
  <2>1. pc[w] # "idle"
    BY <1>e DEF BeginReject
  <2>2. PICK s \in Steps : Goto(w, s)
    BY <1>e DEF BeginReject, Steps
  <2>3. LocalsOK'
    BY <2>1, <2>2, GotoType
  <2>4. faults' \in 0..MaxFaults
    BY <1>e, FaultType DEF BeginReject
  <2> QED
    BY <1>e, <2>3, <2>4 DEF BeginReject, RowsOK
<1>1. CASE Download(w)
  <2>1. pc[w] # "idle"
    BY <1>1 DEF Download
  <2>2. PICK s \in Steps : Goto(w, s)
    BY <1>1 DEF Download, Steps
  <2>3. LocalsOK'
    BY <2>1, <2>2, GotoType
  <2>4. faults' \in 0..MaxFaults
    BY <1>1, FaultType DEF Download
  <2> QED
    BY <1>1, <2>3, <2>4 DEF Download, RowsOK
<1>2. ASSUME NEW p \in Parts, Upload(w, p)
      PROVE  RowsOK' /\ LocalsOK'
  <2>1. pc[w] # "idle" /\ uploaded[w] \cup {p} \in SUBSET Parts /\ err[w] \in Errors
    BY <1>2 DEF Upload, LocalsOK
  <2>2. PICK s \in Steps : MoveTo(w, s, uploaded[w] \cup {p}, err[w])
    BY <1>2 DEF Upload, Steps
  <2>3. LocalsOK'
    BY <2>1, <2>2, MoveToType
  <2>4. objects' \subseteq Keys
    BY <1>2, <2>1, KeysType DEF Upload, RowsOK
  <2> QED
    BY <1>2, <2>3, <2>4 DEF Upload, RowsOK
<1>3. ASSUME NEW p \in Parts, UploadFails(w, p)
      PROVE  RowsOK' /\ LocalsOK'
  <2>1. pc[w] # "idle" /\ uploaded[w] \in SUBSET Parts /\ uploaded[w] \cup {p} \in SUBSET Parts
    BY <1>3 DEF UploadFails, LocalsOK
  <2>2. PICK s \in Steps, u \in SUBSET Parts, e \in Errors : MoveTo(w, s, u, e)
    BY <1>3, <2>1 DEF UploadFails, GotoWith, Steps, Errors
  <2>3. LocalsOK'
    BY <2>1, <2>2, MoveToType
  <2>4. objects' \subseteq Keys
    <3>1. CandidateKey(wjob[w], watt[w], p) \in Keys
      BY <2>1, KeysType
    <3>2. objects' \subseteq objects \cup {CandidateKey(wjob[w], watt[w], p)}
      BY <1>3 DEF UploadFails
    <3> QED
      BY <3>1, <3>2 DEF RowsOK
  <2>5. faults' \in 0..MaxFaults
    BY <1>3, FaultType DEF UploadFails
  <2> QED
    BY <1>3, <2>3, <2>4, <2>5 DEF UploadFails, RowsOK
<1>4. CASE Reject(w)
  <2>1. pc[w] # "idle"
    BY <1>4 DEF Reject
  <2>2. PICK s \in Steps : Goto(w, s)
    BY <1>4 DEF Reject, Steps
  <2>3. LocalsOK'
    BY <2>1, <2>2, GotoType
  <2>4. faults' \in 0..MaxFaults
    BY <1>4, FaultType DEF Reject
  <2>5. jobStatus' \in [Jobs -> JobStatus]
    BY <1>4 DEF Reject, RowsOK, JobStatus
  <2> QED
    BY <1>4, <2>3, <2>4, <2>5 DEF Reject, RowsOK
<1>5. CASE CleanSource(w)
  <2>1. pc[w] # "idle"
    BY <1>5 DEF CleanSource
  <2>2. PICK s \in Steps : Goto(w, s)
    BY <1>5 DEF CleanSource, Steps
  <2>3. LocalsOK'
    BY <2>1, <2>2, GotoType
  <2>4. objects' \subseteq Keys /\ garbage' \subseteq Keys /\ faults' \in 0..MaxFaults
    BY <1>5, <2>1, KeysType, DeleteType DEF CleanSource
  <2> QED
    BY <1>5, <2>3, <2>4 DEF CleanSource, RowsOK
<1>6. CASE Publish(w)
  <2>1. pc[w] # "idle" /\ watt[w] \in Nat
    BY <1>6 DEF Publish, LocalsOK
  <2>2. PICK s \in Steps, u \in SUBSET Parts, e \in Errors : MoveTo(w, s, u, e)
    BY <1>6 DEF Publish, Goto, GotoWith, Steps, Errors, LocalsOK
  <2>3. LocalsOK'
    BY <2>1, <2>2, MoveToType
  <2>4. faults' \in 0..MaxFaults
    BY <1>6, FaultType DEF Publish
  <2>5. CommitPublication(wjob[w], watt[w]) /\ wjob[w] \in Jobs
    BY <1>6, <2>1, KeysType DEF Publish
  <2> QED
    BY <1>6, <2>1, <2>3, <2>4, <2>5, CommitType DEF Publish, RowsOK
<1>7. CASE PublishThrows(w)
  <2>1. pc[w] # "idle"
    BY <1>7 DEF PublishThrows
  <2>2. PICK e \in Errors : GotoWith(w, "readBack", e)
    BY <1>7 DEF PublishThrows, Errors
  <2>3. LocalsOK'
    BY <2>1, <2>2, GotoWithType DEF Steps
  <2>4. faults' \in 0..MaxFaults
    BY <1>7, FaultType DEF PublishThrows
  <2> QED
    BY <1>7, <2>3, <2>4 DEF PublishThrows, RowsOK
<1>8. CASE ReadBack(w)
  <2>1. pc[w] # "idle"
    BY <1>8 DEF ReadBack
  <2>2. PICK s \in Steps, e \in Errors : GotoWith(w, s, e)
    <3>1. GotoWith(w, "fail", "retry") \/ \E s \in Steps : Goto(w, s)
      BY <1>8, AfterErrorType DEF ReadBack, Steps
    <3> QED
      BY <3>1 DEF GotoWith, Goto, LocalsOK, Errors, Steps
  <2>3. LocalsOK'
    BY <2>1, <2>2, GotoWithType
  <2>4. faults' \in 0..MaxFaults
    BY <1>8, FaultType DEF ReadBack
  <2> QED
    BY <1>8, <2>3, <2>4 DEF ReadBack, RowsOK
<1>9. ASSUME NEW p \in Parts, Abandon(w, p)
      PROVE  RowsOK' /\ LocalsOK'
  <2>1. /\ pc[w] # "idle"
        /\ uploaded[w] \in SUBSET Parts
        /\ uploaded[w] \ {p} \in SUBSET Parts
        /\ err[w] \in Errors
    BY <1>9 DEF Abandon, LocalsOK
  <2>2. PICK s \in Steps, u \in SUBSET Parts, e \in Errors : MoveTo(w, s, u, e)
    <3>1. \/ GotoWith(w, "fail", "retry")
          \/ \E s \in Steps : MoveTo(w, s, uploaded[w] \ {p}, err[w])
      BY <1>9, AfterErrorType DEF Abandon, Steps
    <3> QED
      BY <2>1, <3>1 DEF GotoWith, Errors, Steps
  <2>3. LocalsOK'
    BY <2>1, <2>2, MoveToType
  <2>4. objects' \subseteq Keys /\ garbage' \subseteq Keys /\ faults' \in 0..MaxFaults
    BY <1>9, <2>1, KeysType, DeleteType DEF Abandon
  <2> QED
    BY <1>9, <2>3, <2>4 DEF Abandon, RowsOK
<1>10. CASE Complete(w)
  <2>1. pc[w] # "idle" /\ wjob[w] \in Jobs
    BY <1>10, KeysType DEF Complete
  <2>2. PICK s \in Steps : Goto(w, s)
    BY <1>10 DEF Complete, Steps
  <2>3. LocalsOK'
    BY <2>1, <2>2, GotoType
  <2>4. faults' \in 0..MaxFaults
    BY <1>10, FaultType DEF Complete
  <2>5. CASE Release(wjob[w], "succeeded")
    BY <1>10, <2>1, <2>3, <2>4, <2>5, ReleaseType DEF Complete, RowsOK, RunStatus
  <2>6. CASE UNCHANGED runVars
    BY <1>10, <2>3, <2>4, <2>6 DEF Complete, RowsOK
  <2> QED
    BY <1>10, <2>5, <2>6 DEF Complete
<1>11. CASE Fail(w)
  <2>1. pc[w] # "idle" /\ wjob[w] \in Jobs
    BY <1>11, KeysType DEF Fail
  <2>2. PICK s \in Steps : Goto(w, s)
    BY <1>11 DEF Fail, AfterFail, Steps
  <2>3. LocalsOK'
    BY <2>1, <2>2, GotoType
  <2>4. faults' \in 0..MaxFaults
    BY <1>11, FaultType DEF Fail
  <2>5. jobStatus' \in [Jobs -> JobStatus]
    BY <1>11 DEF Fail, RowsOK, JobStatus
  <2>6. ASSUME NEW t \in RunStatus, Release(wjob[w], t)
        PROVE  RowsOK'
    BY <1>11, <2>1, <2>4, <2>5, <2>6, ReleaseType DEF Fail, RowsOK
  <2>7. CASE UNCHANGED runVars
    BY <1>11, <2>3, <2>4, <2>5, <2>7 DEF Fail, RowsOK
  <2>8. (\E t \in RunStatus : Release(wjob[w], t)) \/ UNCHANGED runVars
    BY <1>11 DEF Fail, RunStatus
  <2> QED
    BY <2>3, <2>6, <2>7, <2>8
<1>12. CASE CleanTerminal(w)
  <2>1. pc[w] # "idle"
    BY <1>12 DEF CleanTerminal
  <2>2. LocalsOK'
    BY <1>12, <2>1, GotoType DEF CleanTerminal, Steps
  <2>3. objects' \subseteq Keys /\ garbage' \subseteq Keys /\ faults' \in 0..MaxFaults
    BY <1>12, <2>1, KeysType, DeleteType DEF CleanTerminal
  <2> QED
    BY <1>12, <2>2, <2>3 DEF CleanTerminal, RowsOK
<1>13. CASE Crash(w)
  <2>1. LocalsOK'
    BY <1>13, GotoType DEF Crash, Steps
  <2>2. faults' \in 0..MaxFaults
    BY <1>13, FaultType DEF Crash
  <2> QED
    BY <1>13, <2>1, <2>2 DEF Crash, RowsOK
<1> QED
  BY <1>a, <1>b, <1>c, <1>d, <1>e, <1>1, <1>2, <1>3, <1>4, <1>5, <1>6, <1>7, <1>8,
     <1>9, <1>10, <1>11, <1>12, <1>13 DEF WorkerStep

(* So does every other step: claims, time and maintenance.                 *)
LEMMA OtherStepType ==
    ASSUME RowsOK, LocalsOK,
           \/ \E w \in Executions, j \in Jobs : ClaimRead(w, j)
           \/ \E j \in Jobs : LeaseLapses(j) \/ HeartbeatsFail(j) \/ RetryFallsDue(j) \/ Purge(j)
           \/ \E k \in garbage : GcPick(k)
           \/ GcDelete \/ GcForget
           \/ UNCHANGED vars
    PROVE  RowsOK' /\ LocalsOK'
<1> USE DEF DatabaseVars, jobVars, runVars, catalogVars, storeVars, gcVars, workerVars
<1>1. ASSUME NEW w \in Executions, NEW j \in Jobs, ClaimRead(w, j)
      PROVE  RowsOK' /\ LocalsOK'
  <2>1. RowsOK'
    BY <1>1, ConstantsAssumption DEF ClaimRead, RowsOK, RunStatus, JobStatus
  <2>2. LocalsOK'
    BY <1>1, ConstantsAssumption DEF ClaimRead, RowsOK, LocalsOK, Steps
  <2> QED
    BY <2>1, <2>2
<1>2. ASSUME NEW j \in Jobs, LeaseLapses(j) \/ RetryFallsDue(j) \/ Purge(j)
      PROVE  RowsOK' /\ LocalsOK'
  <2>1. RowsOK'
    BY <1>2 DEF LeaseLapses, RetryFallsDue, Purge, RowsOK, JobStatus
  <2>2. LocalsOK'
    BY <1>2 DEF LeaseLapses, RetryFallsDue, Purge, LocalsOK
  <2> QED
    BY <2>1, <2>2
<1>3. ASSUME NEW j \in Jobs, HeartbeatsFail(j)
      PROVE  RowsOK' /\ LocalsOK'
  <2>1. faults' \in 0..MaxFaults
    BY <1>3, FaultType DEF HeartbeatsFail
  <2> QED
    BY <1>3, <2>1 DEF HeartbeatsFail, RowsOK, LocalsOK
<1>4. ASSUME NEW k \in garbage, GcPick(k)
      PROVE  RowsOK' /\ LocalsOK'
  BY <1>4 DEF GcPick, RowsOK, LocalsOK
<1>5. CASE GcDelete
  <2>1. faults' \in 0..MaxFaults
    BY <1>5, FaultType DEF GcDelete
  <2> QED
    BY <1>5, <2>1 DEF GcDelete, RowsOK, LocalsOK
<1>6. CASE GcForget
  <2>1. faults' \in 0..MaxFaults
    BY <1>6, FaultType DEF GcForget
  <2> QED
    BY <1>6, <2>1 DEF GcForget, RowsOK, LocalsOK
<1>7. CASE UNCHANGED vars
  BY <1>7 DEF vars, RowsOK, LocalsOK
<1> QED
  BY <1>1, <1>2, <1>3, <1>4, <1>5, <1>6, <1>7

LEMMA TypeInit == Init => TypeOK
<1> SUFFICES ASSUME Init PROVE TypeOK
  OBVIOUS
<1>1. SourceKeys \subseteq Keys
  BY DEF SourceKeys, Keys
<1>2. None \notin Jobs
  BY ConstantsAssumption
<1> QED
  BY <1>1, <1>2, ConstantsAssumption
     DEF Init, TypeOK, JobStatus, RunStatus, Steps

LEMMA TypeStep == TypeOK /\ [Next]_vars => TypeOK'
<1> SUFFICES ASSUME TypeOK, [Next]_vars PROVE TypeOK'
  OBVIOUS
<1>1. RowsOK /\ LocalsOK
  BY TypeOKParts
<1>2. RowsOK' /\ LocalsOK'
  BY <1>1, WorkerStepType, OtherStepType DEF Next
<1> QED
  BY <1>2 DEF TypeOK, RowsOK, LocalsOK, Errors

(* Every column and every local keeps to its values, for any number of     *)
(* uploads, executions, partitions and faults.                             *)
THEOREM TypeCorrect == Spec => []TypeOK
BY TypeInit, TypeStep, PTL DEF Spec

-----------------------------------------------------------------------------
(* Fencing.                                                                *)

(* MoveTo touches the locals of one execution only, and they name its job  *)
(* and attempt until the call returns.                                     *)
LEMMA MoveToEffect ==
    ASSUME LocalsOK, NEW w \in Executions, NEW s, NEW u, NEW e, MoveTo(w, s, u, e)
    PROVE  /\ pc'[w] = s
           /\ s # "idle" => wjob'[w] = wjob[w] /\ watt'[w] = watt[w] /\ uploaded'[w] = u
           /\ s = "idle" => wjob'[w] = None
           /\ \A v \in Executions \ {w} :
                 /\ pc'[v] = pc[v]
                 /\ wjob'[v] = wjob[v]
                 /\ watt'[v] = watt[v]
                 /\ uploaded'[v] = uploaded[v]
BY DEF LocalsOK, MoveTo

(* The conjuncts of LeaseFencing.                                          *)
AttemptsBegun ==
    \A w \in Executions : Working(w) => watt[w] \in 1..attempt[wjob[w]]
AttemptsRead ==
    \A w \in Executions : pc[w] # "idle" => watt[w] <= attempt[wjob[w]]
LocksNewest ==
    \A w \in Executions :
        pc[w] \in {"publishing", "rejecting"} => watt[w] = attempt[wjob[w]]
AttemptsDiffer ==
    \A v, w \in Executions :
        v # w /\ Working(v) /\ Working(w) /\ wjob[v] = wjob[w] => watt[v] # watt[w]
PublishedEarlier ==
    \A j \in Jobs : publishedAt[j] # 0 => publishedAt[j] <= attempt[j] /\ ~tempKey[j]

(* The last conjunct, for an execution of attempt n of job j at step s.    *)
Fenced(s, j, n) ==
    /\ s = "download" => publishedAt[j] # n
    /\ s \in {"upload", "publish", "publishing"} => publishedAt[j] = 0 \/ n < publishedAt[j]
    /\ s = "abandon" => publishedAt[j] # n \/ Overtaken(j)
    /\ s = "readBack" => publishedAt[j] # n \/ Overtaken(j) \/ jobStatus[j] = "published"
UnpublishedSoFar == \A w \in Executions : Fenced(pc[w], wjob[w], watt[w])

LEMMA LeaseFencingParts ==
    LeaseFencing <=>
        /\ AttemptsBegun /\ AttemptsRead /\ LocksNewest /\ AttemptsDiffer
        /\ PublishedEarlier /\ UnpublishedSoFar
BY DEF LeaseFencing, AttemptsBegun, AttemptsRead, LocksNewest, AttemptsDiffer,
       PublishedEarlier, UnpublishedSoFar, Fenced

(* The steps execution w may move to without a claim or a commit.          *)
MayTake(w, s) ==
    LET j == wjob[w] IN
    /\ s \notin {"takeUp", "takeOver", "download"}
    /\ s \in {"publishing", "rejecting"} => watt[w] = attempt[j]
    /\ s \in {"upload", "publish", "publishing"} =>
          publishedAt[j] = 0 \/ watt[w] < publishedAt[j]
    /\ s = "abandon" => publishedAt[j] # watt[w] \/ Overtaken(j)
    /\ s = "readBack" => publishedAt[j] # watt[w]

(* The executions other than w that would be misled by ReadBack if the job *)
(* were not published any more.                                            *)
NobodyMisled(w) ==
    \A v \in Executions \ {w} :
        pc[v] = "readBack" /\ publishedAt[wjob[v]] = watt[v] /\ ~Overtaken(wjob[v]) =>
            jobStatus'[wjob[v]] = "published"

(* A move of one execution that claims and publishes nothing.              *)
LEMMA FencedMove ==
    ASSUME RowsOK, LocalsOK, LeaseFencing, NEW w \in Executions, pc[w] # "idle",
           NEW s, NEW u, NEW e, MoveTo(w, s, u, e), Working(w) \/ s = "idle",
           UNCHANGED <<attempt, publishedAt, tempKey>>,
           MayTake(w, s), NobodyMisled(w)
    PROVE  LeaseFencing'
<1>1. wjob[w] \in Jobs /\ None \notin Jobs
  BY ConstantsAssumption DEF LocalsOK
<1>2. /\ pc'[w] = s
      /\ s # "idle" => wjob'[w] = wjob[w] /\ watt'[w] = watt[w]
      /\ \A v \in Executions \ {w} :
            pc'[v] = pc[v] /\ wjob'[v] = wjob[v] /\ watt'[v] = watt[v]
  BY MoveToEffect
<1>3. AttemptsBegun' /\ AttemptsRead'
  BY <1>2, LeaseFencingParts DEF AttemptsBegun, AttemptsRead, Working
<1>4. LocksNewest'
  BY <1>2, LeaseFencingParts DEF LocksNewest, MayTake
<1>5. AttemptsDiffer'
  <2> SUFFICES ASSUME NEW x \in Executions, NEW y \in Executions, x # y,
                      Working(x)', Working(y)', wjob'[x] = wjob'[y]
               PROVE  watt'[x] # watt'[y]
    BY DEF AttemptsDiffer
  <2>1. \A v \in {x, y} : Working(v) /\ wjob'[v] = wjob[v] /\ watt'[v] = watt[v]
    BY <1>2 DEF Working
  <2> QED
    BY <2>1, LeaseFencingParts DEF AttemptsDiffer
<1>6. PublishedEarlier'
  BY LeaseFencingParts DEF PublishedEarlier
<1>7. UnpublishedSoFar'
  <2> SUFFICES ASSUME NEW v \in Executions
               PROVE  Fenced(pc[v], wjob[v], watt[v])'
    BY DEF UnpublishedSoFar
  <2>1. CASE v = w
    BY <1>2, <2>1 DEF Fenced, MayTake, Overtaken
  <2>2. CASE v # w
    <3>1. Fenced(pc[v], wjob[v], watt[v])
      BY LeaseFencingParts DEF UnpublishedSoFar
    <3>2. pc'[v] = pc[v] /\ wjob'[v] = wjob[v] /\ watt'[v] = watt[v]
      BY <1>2, <2>2
    <3>3. pc[v] = "readBack" =>
             \/ publishedAt[wjob[v]] # watt[v]
             \/ Overtaken(wjob[v])
             \/ jobStatus'[wjob[v]] = "published"
      BY <2>2 DEF NobodyMisled
    <3> QED
      BY <3>1, <3>2, <3>3 DEF Fenced, Overtaken
  <2> QED
    BY <2>1, <2>2
<1> QED
  BY <1>3, <1>4, <1>5, <1>6, <1>7 DEF LeaseFencing, AttemptsBegun, AttemptsRead,
     LocksNewest, AttemptsDiffer, PublishedEarlier, UnpublishedSoFar, Fenced

(* The lease tells the executions of a job apart.                          *)
LEMMA HolderIsNewest ==
    ASSUME LocalsOK, LeaseFencing, NEW w \in Executions, Working(w),
           \/ HoldsLease(w) \/ HeldLeaseAtSample(w)
           \/ pc[w] \in {"publishing", "rejecting"}
    PROVE  /\ wjob[w] \in Jobs
           /\ watt[w] = attempt[wjob[w]]
           /\ \A v \in Executions \ {w} :
                 Working(v) /\ wjob[v] = wjob[w] => watt[v] # watt[w]
<1>1. wjob[w] \in Jobs /\ watt[w] = attempt[wjob[w]]
  BY LeaseFencingParts DEF LocalsOK, HoldsLease, HeldLeaseAtSample, LocksNewest, Working
<1>2. ASSUME NEW v \in Executions, v # w, Working(v), wjob[v] = wjob[w]
      PROVE  watt[v] # watt[w]
  BY <1>2, LeaseFencingParts DEF AttemptsDiffer
<1> QED
  BY <1>1, <1>2

(* No execution that waits for the answer of ReadBack is deceived when the *)
(* job's status changes only from processing or by its newest execution.   *)
LEMMA FencedStatus ==
    ASSUME RowsOK, LocalsOK, LeaseFencing, NEW w \in Executions,
           NEW status,
           \/ UNCHANGED jobStatus
           \/ jobStatus' = [jobStatus EXCEPT ![wjob[w]] =
                              IF @ = "processing" THEN status ELSE @]
           \/ /\ Working(w) /\ HeldLeaseAtSample(w)
              /\ jobStatus' = [jobStatus EXCEPT ![wjob[w]] = status]
    PROVE  NobodyMisled(w)
<1> SUFFICES ASSUME NEW v \in Executions \ {w}, pc[v] = "readBack",
                    publishedAt[wjob[v]] = watt[v], ~Overtaken(wjob[v])
             PROVE  jobStatus'[wjob[v]] = "published"
  BY DEF NobodyMisled
<1>1. Fenced(pc[v], wjob[v], watt[v]) /\ Working(v) /\ watt[v] \in 1..attempt[wjob[v]]
  BY LeaseFencingParts DEF UnpublishedSoFar, Working, AttemptsBegun
<1>2. /\ jobStatus[wjob[v]] = "published" /\ wjob[v] \in Jobs /\ watt[v] # 0
      /\ attempt[wjob[v]] \in Nat
  BY <1>1 DEF Fenced, LocalsOK, RowsOK
<1>3. CASE UNCHANGED jobStatus
  BY <1>2, <1>3
<1>4. CASE jobStatus' = [jobStatus EXCEPT ![wjob[w]] =
                           IF @ = "processing" THEN status ELSE @]
  BY <1>2, <1>4 DEF RowsOK
<1>5. CASE /\ Working(w) /\ HeldLeaseAtSample(w)
           /\ jobStatus' = [jobStatus EXCEPT ![wjob[w]] = status]
  <2>1. watt[v] = attempt[wjob[v]]
    BY <1>1, <1>2 DEF Overtaken
  <2>2. wjob[v] # wjob[w]
    BY <1>1, <1>5, <2>1, HolderIsNewest
  <2> QED
    BY <1>2, <1>5, <2>2 DEF RowsOK
<1> QED
  BY <1>3, <1>4, <1>5

(* The steps of an execution other than the end of a claim and the commit  *)
(* of a publication.                                                       *)
LEMMA FencedWorkerStep ==
    ASSUME RowsOK, LocalsOK, LeaseFencing, NEW w \in Executions,
           WorkerStep(w) \/ Crash(w), ~Publish(w), ~ClaimWrite(w)
    PROVE  LeaseFencing'
<1> USE DEF DatabaseVars, jobVars, runVars, catalogVars, storeVars, gcVars
<1>0. ASSUME pc[w] # "idle", NEW s, NEW u, NEW e, MoveTo(w, s, u, e),
             Working(w) \/ s = "idle",
             UNCHANGED <<attempt, publishedAt, tempKey>>,
             MayTake(w, s),
             NEW status,
             \/ UNCHANGED jobStatus
             \/ jobStatus' = [jobStatus EXCEPT ![wjob[w]] =
                                IF @ = "processing" THEN status ELSE @]
             \/ /\ Working(w) /\ HeldLeaseAtSample(w)
                /\ jobStatus' = [jobStatus EXCEPT ![wjob[w]] = status]
      PROVE  LeaseFencing'
  <2>1. NobodyMisled(w)
    BY <1>0, FencedStatus
  <2> QED
    BY <1>0, <2>1, FencedMove
<1> DEFINE Safe == {"reject", "cleanSource", "complete", "fail", "cleanTerminal", "idle"}
<1>a. \A s \in Safe : MayTake(w, s)
  BY DEF MayTake
<1>b. \A e : AfterError(e) \in Safe
  BY DEF AfterError
<1>c. pc[w] \in {"upload", "publish", "publishing"} =>
         /\ Working(w) /\ publishedAt[wjob[w]] # watt[w]
         /\ publishedAt[wjob[w]] = 0 \/ watt[w] < publishedAt[wjob[w]]
  <2>1. pc[w] # "idle" => wjob[w] \in Jobs
    BY DEF LocalsOK
  <2>2. Fenced(pc[w], wjob[w], watt[w]) /\ AttemptsBegun
    BY LeaseFencingParts DEF UnpublishedSoFar
  <2> QED
    BY <2>1, <2>2 DEF Fenced, AttemptsBegun, Working, RowsOK, LocalsOK
<1>d. pc[w] \in {"upload", "publish", "publishing"} =>
         \A s \in Safe \cup {"upload", "publish", "abandon", "readBack"} : MayTake(w, s)
  BY <1>c DEF MayTake
<1>1. CASE ClaimMisses(w)
  BY <1>1, <1>0, <1>a DEF ClaimMisses, Goto
<1>2. CASE Unusable(w)
  BY <1>2, <1>0, <1>a DEF Unusable, GotoWith, Working
<1>3. CASE Download(w)
  <2>1. pc[w] = "download" /\ wjob[w] \in Jobs /\ publishedAt[wjob[w]] = 0 /\ Working(w)
    BY <1>3, LeaseFencingParts DEF Download, PublishedEarlier, LocalsOK, Working
  <2>2. MayTake(w, "upload")
    BY <2>1 DEF MayTake
  <2>3. PICK s : Goto(w, s) /\ s \in {"reject", "upload", "fail"}
    BY <1>3 DEF Download
  <2>4. MayTake(w, s)
    BY <1>a, <2>2, <2>3
  <2> QED
    BY <1>3, <1>0, <2>1, <2>3, <2>4 DEF Download, Goto
<1>4. ASSUME NEW p \in Parts, Upload(w, p)
      PROVE  LeaseFencing'
  <2>1. PICK s : MoveTo(w, s, uploaded[w] \cup {p}, err[w]) /\ s \in {"upload", "publish"}
    BY <1>4 DEF Upload
  <2> QED
    BY <1>4, <1>0, <1>c, <1>d, <2>1 DEF Upload
<1>5. ASSUME NEW p \in Parts, UploadFails(w, p)
      PROVE  LeaseFencing'
  <2>1. PICK s, u, e : MoveTo(w, s, u, e) /\ s \in {"fail", "abandon"}
    BY <1>5 DEF UploadFails, GotoWith
  <2> QED
    BY <1>5, <1>0, <1>c, <1>d, <2>1 DEF UploadFails
<1>6. CASE BeginReject(w)
  <2>1. Working(w)
    BY <1>6 DEF BeginReject, Working
  <2>2. PICK s : Goto(w, s) /\ s \in {"rejecting", "idle", "fail"}
                 /\ (s = "rejecting" => HoldsLease(w))
    BY <1>6 DEF BeginReject
  <2>3. MayTake(w, s)
    BY <1>a, <2>2 DEF MayTake, HoldsLease
  <2> QED
    BY <1>6, <1>0, <2>1, <2>2, <2>3 DEF BeginReject, Goto
<1>7. CASE Reject(w)
  <2>1. Working(w)
    BY <1>7 DEF Reject, Working
  <2>2. PICK s : Goto(w, s) /\ s \in {"cleanSource", "fail"}
    BY <1>7 DEF Reject
  <2> QED
    BY <1>7, <1>0, <1>a, <2>1, <2>2 DEF Reject, Goto
<1>8. CASE CleanSource(w)
  <2>1. PICK s : Goto(w, s) /\ s \in {"complete", "fail"}
    BY <1>8 DEF CleanSource
  <2> QED
    BY <1>8, <1>0, <1>a, <2>1 DEF CleanSource, Goto, Working
<1>9. CASE BeginPublish(w)
  <2>1. Working(w) /\ MayTake(w, "publishing")
    BY <1>9, <1>c DEF BeginPublish, MayTake, HoldsLease
  <2> QED
    BY <1>9, <1>0, <2>1 DEF BeginPublish, Goto
<1>10. CASE PublishThrows(w)
  <2>1. PICK e : GotoWith(w, "readBack", e)
    BY <1>10 DEF PublishThrows
  <2>2. pc[w] \in {"publish", "publishing"}
    BY <1>10 DEF PublishThrows
  <2> QED
    BY <1>10, <1>0, <1>c, <1>d, <2>1, <2>2 DEF PublishThrows, GotoWith
<1>11. CASE ReadBack(w)
  <2>1. Fenced(pc[w], wjob[w], watt[w]) /\ Working(w)
    BY <1>11, LeaseFencingParts DEF UnpublishedSoFar, ReadBack, Working
  <2>2. CASE Goto(w, "abandon") /\ jobStatus[wjob[w]] = "processing"
    <3>1. MayTake(w, "abandon")
      BY <1>11, <2>1, <2>2 DEF Fenced, MayTake, ReadBack
    <3> QED
      BY <1>11, <1>0, <2>1, <2>2, <3>1 DEF ReadBack, Goto
  <2>3. CASE Goto(w, AfterError(err[w]))
    BY <1>11, <1>0, <1>a, <1>b, <2>1, <2>3 DEF ReadBack, Goto
  <2>4. CASE Goto(w, "cleanSource") \/ GotoWith(w, "fail", "retry")
    BY <1>11, <1>0, <1>a, <2>1, <2>4 DEF ReadBack, Goto, GotoWith
  <2> QED
    BY <1>11, <2>2, <2>3, <2>4 DEF ReadBack
<1>12. ASSUME NEW p \in Parts, Abandon(w, p)
      PROVE  LeaseFencing'
  <2>1. Fenced(pc[w], wjob[w], watt[w]) /\ Working(w)
    BY <1>12, LeaseFencingParts DEF UnpublishedSoFar, Abandon, Working
  <2>2. MayTake(w, "abandon")
    BY <1>12, <2>1 DEF Fenced, MayTake, Abandon
  <2>3. PICK s, u, e : MoveTo(w, s, u, e) /\ s \in Safe \cup {"abandon"}
    BY <1>12, <1>b DEF Abandon, GotoWith
  <2>4. MayTake(w, s)
    BY <1>a, <2>2, <2>3
  <2> QED
    BY <1>12, <1>0, <2>1, <2>3, <2>4 DEF Abandon
<1>13. CASE Complete(w)
  <2>1. PICK s : Goto(w, s) /\ s \in {"idle", "fail"}
    BY <1>13 DEF Complete
  <2>2. UNCHANGED attempt /\ Working(w)
    BY <1>13 DEF Complete, Release, Working
  <2> QED
    BY <1>13, <1>0, <1>a, <2>1, <2>2 DEF Complete, Goto
<1>14. CASE Fail(w)
  <2>1. PICK s : Goto(w, s) /\ s \in {"idle", "cleanTerminal"}
    BY <1>14 DEF Fail, AfterFail
  <2>2. UNCHANGED attempt /\ Working(w)
    BY <1>14 DEF Fail, Release, Working
  <2>3. PICK status : \/ UNCHANGED jobStatus
                      \/ /\ HeldLeaseAtSample(w)
                         /\ jobStatus' = [jobStatus EXCEPT ![wjob[w]] = status]
    BY <1>14 DEF Fail
  <2> QED
    BY <1>14, <1>0, <1>a, <2>1, <2>2, <2>3 DEF Fail, Goto
<1>15. CASE CleanTerminal(w)
  BY <1>15, <1>0, <1>a DEF CleanTerminal, Goto
<1>16. CASE Crash(w)
  BY <1>16, <1>0, <1>a DEF Crash, Goto
<1> QED
  BY <1>1, <1>2, <1>3, <1>4, <1>5, <1>6, <1>7, <1>8, <1>9, <1>10, <1>11, <1>12,
     <1>13, <1>14, <1>15, <1>16 DEF WorkerStep

(* The commit: only the newest execution can make it, so whoever else is   *)
(* at work on the job works under an earlier attempt.                      *)
LEMMA PublisherIsFirst ==
    ASSUME RowsOK, LocalsOK, LeaseFencing, NEW w \in Executions, pc[w] = "publishing"
    PROVE  /\ wjob[w] \in Jobs /\ watt[w] \in Nat \ {0}
           /\ watt[w] = attempt[wjob[w]] /\ publishedAt[wjob[w]] = 0
           /\ \A v \in Executions \ {w} :
                 Working(v) /\ wjob[v] = wjob[w] => watt[v] < watt[w]
<1>1. Working(w)
  BY DEF Working
<1>2. /\ wjob[w] \in Jobs /\ watt[w] = attempt[wjob[w]] /\ attempt[wjob[w]] \in Nat
      /\ publishedAt[wjob[w]] \in Nat
      /\ \A v \in Executions \ {w} : Working(v) /\ wjob[v] = wjob[w] => watt[v] # watt[w]
  BY <1>1, HolderIsNewest DEF RowsOK
<1>3. Fenced(pc[w], wjob[w], watt[w]) /\ AttemptsBegun /\ PublishedEarlier
  BY LeaseFencingParts DEF UnpublishedSoFar
<1>4. publishedAt[wjob[w]] = 0
  BY <1>2, <1>3 DEF Fenced, PublishedEarlier
<1>5. watt[w] \in Nat \ {0}
  BY <1>1, <1>2, <1>3 DEF AttemptsBegun
<1>6. ASSUME NEW v \in Executions, v # w, Working(v), wjob[v] = wjob[w]
      PROVE  watt[v] < watt[w]
  <2>1. watt[v] \in 1..attempt[wjob[w]] /\ watt[v] # watt[w]
    BY <1>2, <1>3, <1>6 DEF AttemptsBegun
  <2> QED
    BY <1>2, <2>1
<1> QED
  BY <1>2, <1>4, <1>5, <1>6

LEMMA FencedPublish ==
    ASSUME RowsOK, LocalsOK, LeaseFencing, NEW w \in Executions, Publish(w)
    PROVE  LeaseFencing'
<1> USE DEF runVars
<1> DEFINE j == wjob[w]
<1>1. /\ j \in Jobs /\ watt[w] \in Nat \ {0} /\ pc[w] = "publishing"
      /\ watt[w] = attempt[j] /\ publishedAt[j] = 0
      /\ \A v \in Executions \ {w} : Working(v) /\ wjob[v] = j => watt[v] < watt[w]
  BY PublisherIsFirst DEF Publish
<1>2. /\ publishedAt' = [publishedAt EXCEPT ![j] = watt[w]]
      /\ tempKey' = [tempKey EXCEPT ![j] = FALSE]
      /\ jobStatus' = [jobStatus EXCEPT ![j] = "published"]
      /\ attempt' = attempt
  BY DEF Publish, CommitPublication, MarkPublished
<1>3. PICK s, u, e : MoveTo(w, s, u, e) /\ s \in {"cleanSource", "readBack"}
  BY DEF Publish, Goto, GotoWith
<1>4. /\ pc'[w] \in {"cleanSource", "readBack"} /\ wjob'[w] = j /\ watt'[w] = watt[w]
      /\ \A v \in Executions \ {w} :
           pc'[v] = pc[v] /\ wjob'[v] = wjob[v] /\ watt'[v] = watt[v]
  BY <1>3, MoveToEffect
<1>5. AttemptsBegun' /\ AttemptsRead' /\ LocksNewest'
  BY <1>1, <1>2, <1>4, LeaseFencingParts DEF AttemptsBegun, AttemptsRead, LocksNewest, Working
<1>6. AttemptsDiffer'
  <2>1. \A v \in Executions : /\ Working(v)' => Working(v)
                              /\ wjob'[v] = wjob[v] /\ watt'[v] = watt[v]
    BY <1>1, <1>4 DEF Working
  <2> QED
    BY <2>1, LeaseFencingParts DEF AttemptsDiffer
<1>7. PublishedEarlier'
  BY <1>1, <1>2, LeaseFencingParts DEF PublishedEarlier, RowsOK
<1>8. UnpublishedSoFar'
  <2> SUFFICES ASSUME NEW v \in Executions
               PROVE  Fenced(pc[v], wjob[v], watt[v])'
    BY DEF UnpublishedSoFar
  <2>1. Fenced(pc[v], wjob[v], watt[v])
    BY LeaseFencingParts DEF UnpublishedSoFar
  <2>2. CASE v = w
    <3>1. jobStatus'[j] = "published"
      BY <1>1, <1>2 DEF RowsOK
    <3> QED
      BY <1>4, <2>2, <3>1 DEF Fenced
  <2>3. CASE v # w /\ wjob[v] = j
    <3>1. publishedAt'[j] = watt[w]
      BY <1>1, <1>2 DEF RowsOK
    <3>2. Working(v) => watt[v] < watt[w] /\ watt[v] # watt[w]
      BY <1>1, <2>3 DEF LocalsOK
    <3> QED
      BY <1>4, <2>3, <3>1, <3>2 DEF Fenced, Working
  <2>4. CASE v # w /\ wjob[v] # j
    <3>1. pc'[v] = pc[v] /\ wjob'[v] = wjob[v] /\ watt'[v] = watt[v]
      BY <1>4, <2>4
    <3>2. pc[v] # "idle" => wjob[v] \in Jobs
      BY DEF LocalsOK
    <3>3. pc[v] # "idle" => /\ publishedAt'[wjob[v]] = publishedAt[wjob[v]]
                            /\ jobStatus'[wjob[v]] = jobStatus[wjob[v]]
      BY <1>1, <1>2, <2>4, <3>2 DEF RowsOK
    <3> QED
      BY <1>2, <2>1, <3>1, <3>3 DEF Fenced, Overtaken
  <2> QED
    BY <2>2, <2>3, <2>4
<1> QED
  BY <1>5, <1>6, <1>7, <1>8 DEF LeaseFencing, AttemptsBegun, AttemptsRead, LocksNewest,
     AttemptsDiffer, PublishedEarlier, UnpublishedSoFar, Fenced

(* A claim first reads the run, which changes nothing but its own locals.  *)
LEMMA FencedClaimRead ==
    ASSUME RowsOK, LocalsOK, LeaseFencing,
           NEW w \in Executions, NEW j \in Jobs, ClaimRead(w, j)
    PROVE  LeaseFencing'
<1> USE DEF DatabaseVars, jobVars, runVars, catalogVars
<1>1. /\ pc'[w] \in {"takeUp", "takeOver"} /\ wjob'[w] = j /\ watt'[w] = attempt[j]
      /\ \A v \in Executions \ {w} :
            pc'[v] = pc[v] /\ wjob'[v] = wjob[v] /\ watt'[v] = watt[v]
      /\ UNCHANGED <<attempt, publishedAt, tempKey, jobStatus>>
  BY DEF ClaimRead, LocalsOK
<1>2. attempt[j] \in Nat
  BY DEF RowsOK
<1>3. \A v \in Executions : Working(v)' => v # w /\ Working(v)
  BY <1>1 DEF Working
<1>4. AttemptsBegun' /\ AttemptsRead' /\ LocksNewest'
  <2>1. AttemptsBegun'
    BY <1>1, <1>3, LeaseFencingParts DEF AttemptsBegun
  <2>2. AttemptsRead'
    BY <1>1, <1>2, LeaseFencingParts DEF AttemptsRead
  <2>3. LocksNewest'
    BY <1>1, LeaseFencingParts DEF LocksNewest
  <2> QED
    BY <2>1, <2>2, <2>3
<1>5. AttemptsDiffer'
  BY <1>1, <1>3, LeaseFencingParts DEF AttemptsDiffer
<1>6. PublishedEarlier'
  BY <1>1, LeaseFencingParts DEF PublishedEarlier
<1>7. UnpublishedSoFar'
  <2> SUFFICES ASSUME NEW v \in Executions PROVE Fenced(pc[v], wjob[v], watt[v])'
    BY DEF UnpublishedSoFar
  <2>1. CASE v = w
    BY <1>1, <2>1 DEF Fenced
  <2>2. CASE v # w
    <3>1. Fenced(pc[v], wjob[v], watt[v])
      BY LeaseFencingParts DEF UnpublishedSoFar
    <3> QED
      BY <1>1, <2>2, <3>1 DEF Fenced, Overtaken
  <2> QED
    BY <2>1, <2>2
<1> QED
  BY <1>4, <1>5, <1>6, <1>7 DEF LeaseFencing, AttemptsBegun, AttemptsRead, LocksNewest,
     AttemptsDiffer, PublishedEarlier, UnpublishedSoFar, Fenced

(* Then it begins an attempt nobody has had.  The job may have been        *)
(* published since the run was read; the attempt that published it is then *)
(* overtaken.                                                              *)
LEMMA FencedClaimWrite ==
    ASSUME RowsOK, LocalsOK, LeaseFencing, NEW w \in Executions, ClaimWrite(w)
    PROVE  LeaseFencing'
<1> USE DEF catalogVars
<1> DEFINE j == wjob[w]
<1>1. /\ j \in Jobs /\ attempt[j] \in Nat /\ publishedAt[j] \in Nat
      /\ watt[w] = attempt[j] /\ ~Working(w)
  BY DEF ClaimWrite, AsRead, LocalsOK, RowsOK, Working
<1>2. /\ pc'[w] = "download" /\ wjob' = wjob /\ watt'[w] = attempt[j] + 1
      /\ \A v \in Executions \ {w} : pc'[v] = pc[v] /\ watt'[v] = watt[v]
      /\ attempt'[j] = attempt[j] + 1
      /\ \A i \in Jobs \ {j} : attempt'[i] = attempt[i] /\ jobStatus'[i] = jobStatus[i]
      /\ UNCHANGED <<publishedAt, tempKey>>
  BY <1>1 DEF ClaimWrite, RowsOK, LocalsOK
<1>3. \A i \in Jobs : attempt[i] \in Nat /\ attempt'[i] \in Nat /\ attempt[i] <= attempt'[i]
  BY <1>1, <1>2 DEF RowsOK
<1>4. \A v \in Executions : /\ pc[v] # "idle" => wjob[v] \in Jobs /\ watt[v] \in Nat
                            /\ v # w => (Working(v)' <=> Working(v))
  BY <1>2 DEF LocalsOK, Working
<1>5. AttemptsBegun'
  <2> SUFFICES ASSUME NEW v \in Executions, Working(v)'
               PROVE  watt'[v] \in 1..attempt'[wjob[v]]
    BY <1>2 DEF AttemptsBegun
  <2>1. CASE v = w
    BY <1>1, <1>2, <2>1
  <2>2. CASE v # w
    <3>1. Working(v) /\ pc[v] # "idle" /\ watt[v] \in 1..attempt[wjob[v]]
      BY <1>4, <2>2, LeaseFencingParts DEF AttemptsBegun, Working
    <3> QED
      BY <1>2, <1>3, <1>4, <2>2, <3>1
  <2> QED
    BY <2>1, <2>2
<1>6. AttemptsRead'
  <2> SUFFICES ASSUME NEW v \in Executions, pc'[v] # "idle"
               PROVE  watt'[v] <= attempt'[wjob[v]]
    BY <1>2 DEF AttemptsRead
  <2>1. CASE v = w
    BY <1>1, <1>2, <2>1
  <2>2. CASE v # w
    <3>1. pc[v] # "idle" /\ watt[v] <= attempt[wjob[v]]
      BY <1>2, <2>2, LeaseFencingParts DEF AttemptsRead
    <3> QED
      BY <1>2, <1>3, <1>4, <2>2, <3>1
  <2> QED
    BY <2>1, <2>2
<1>7. LocksNewest'
  <2> SUFFICES ASSUME NEW v \in Executions, pc'[v] \in {"publishing", "rejecting"}
               PROVE  watt'[v] = attempt'[wjob[v]]
    BY <1>2 DEF LocksNewest
  <2>1. v # w /\ pc[v] \in {"publishing", "rejecting"} /\ wjob[v] # j
    BY <1>2 DEF ClaimWrite, RunLocked
  <2>2. wjob[v] \in Jobs
    BY <1>4, <2>1
  <2> QED
    BY <1>2, <2>1, <2>2, LeaseFencingParts DEF LocksNewest
<1>8. AttemptsDiffer'
  <2>1. ASSUME NEW v \in Executions, v # w, Working(v), wjob[v] = j
        PROVE  watt[v] # attempt[j] + 1
    <3>1. watt[v] \in 1..attempt[j]
      BY <2>1, LeaseFencingParts DEF AttemptsBegun
    <3> QED
      BY <1>1, <3>1
  <2> QED
    BY <1>2, <1>4, <2>1, LeaseFencingParts DEF AttemptsDiffer
<1>9. PublishedEarlier'
  <2> SUFFICES ASSUME NEW i \in Jobs, publishedAt[i] # 0
               PROVE  publishedAt[i] <= attempt'[i] /\ ~tempKey[i]
    BY <1>2 DEF PublishedEarlier
  <2>1. publishedAt[i] <= attempt[i] /\ ~tempKey[i] /\ publishedAt[i] \in Nat
    BY LeaseFencingParts DEF PublishedEarlier, RowsOK
  <2> QED
    BY <1>3, <2>1
<1>10. UnpublishedSoFar'
  <2> SUFFICES ASSUME NEW v \in Executions PROVE Fenced(pc[v], wjob[v], watt[v])'
    BY DEF UnpublishedSoFar
  <2>1. CASE v = w
    <3>1. publishedAt[j] # attempt[j] + 1
      BY <1>1, LeaseFencingParts DEF PublishedEarlier
    <3> QED
      BY <1>2, <2>1, <3>1 DEF Fenced
  <2>2. CASE v # w /\ pc[v] # "idle"
    <3>1. Fenced(pc[v], wjob[v], watt[v]) /\ wjob[v] \in Jobs
      BY <1>4, <2>2, LeaseFencingParts DEF UnpublishedSoFar
    <3>2. Overtaken(wjob[v]) => Overtaken(wjob[v])'
      BY <1>2, <1>3, <3>1 DEF Overtaken, RowsOK
    <3>3. CASE wjob[v] # j
      BY <1>2, <2>2, <3>1, <3>2, <3>3 DEF Fenced
    <3>4. CASE wjob[v] = j
      <4>1. pc[v] = "readBack" => watt[v] \in 1..attempt[j]
        BY <3>4, LeaseFencingParts DEF AttemptsBegun, Working
      <4>2. pc[v] = "readBack" /\ publishedAt[j] = watt[v] => Overtaken(j)'
        BY <1>1, <1>2, <4>1 DEF Overtaken
      <4> QED
        BY <1>2, <2>2, <3>1, <3>2, <3>4, <4>2 DEF Fenced
    <3> QED
      BY <3>3, <3>4
  <2>3. CASE v # w /\ pc[v] = "idle"
    BY <1>2, <2>3 DEF Fenced
  <2> QED
    BY <2>1, <2>2, <2>3
<1> QED
  BY <1>5, <1>6, <1>7, <1>8, <1>9, <1>10 DEF LeaseFencing, AttemptsBegun, AttemptsRead,
     LocksNewest, AttemptsDiffer, PublishedEarlier, UnpublishedSoFar, Fenced

(* Time and maintenance.                                                   *)
LEMMA FencedOther ==
    ASSUME RowsOK, LocalsOK, LeaseFencing,
           \/ \E j \in Jobs : LeaseLapses(j) \/ HeartbeatsFail(j) \/ RetryFallsDue(j) \/ Purge(j)
           \/ \E k \in garbage : GcPick(k)
           \/ GcDelete \/ GcForget
           \/ UNCHANGED vars
    PROVE  LeaseFencing'
<1> USE DEF DatabaseVars, jobVars, runVars, catalogVars, workerVars
<1>1. /\ UNCHANGED <<attempt, publishedAt, tempKey, pc, wjob, watt>>
      /\ \A v \in Executions : jobStatus'[wjob[v]] = jobStatus[wjob[v]]
  <2>1. CASE \/ \E j \in Jobs : LeaseLapses(j) \/ HeartbeatsFail(j) \/ RetryFallsDue(j)
             \/ \E k \in garbage : GcPick(k)
             \/ GcDelete \/ GcForget
             \/ UNCHANGED vars
    BY <2>1 DEF LeaseLapses, HeartbeatsFail, RetryFallsDue, GcPick, GcDelete, GcForget, vars
  <2>2. ASSUME NEW j \in Jobs, Purge(j)
        PROVE  /\ UNCHANGED <<attempt, publishedAt, tempKey, pc, wjob, watt>>
               /\ \A v \in Executions : jobStatus'[wjob[v]] = jobStatus[wjob[v]]
    BY <2>2 DEF Purge, RowsOK
  <2> QED
    BY <2>1, <2>2
<1> QED
  BY <1>1 DEF LeaseFencing, Working, Overtaken

LEMMA FencingInit == Init => LeaseFencing
BY DEF Init, LeaseFencing, Working

LEMMA FencingStep == TypeOK /\ LeaseFencing /\ [Next]_vars => LeaseFencing'
<1> SUFFICES ASSUME TypeOK, LeaseFencing, [Next]_vars PROVE LeaseFencing'
  OBVIOUS
<1>1. RowsOK /\ LocalsOK
  BY TypeOKParts
<1>2. ASSUME NEW w \in Executions, WorkerStep(w) \/ Crash(w)
      PROVE  LeaseFencing'
  BY <1>1, <1>2, FencedWorkerStep, FencedPublish, FencedClaimWrite
<1>3. ASSUME NEW w \in Executions, NEW j \in Jobs, ClaimRead(w, j)
      PROVE  LeaseFencing'
  BY <1>1, <1>3, FencedClaimRead
<1> QED
  BY <1>1, <1>2, <1>3, FencedOther DEF Next

(* Attempts fence executions off, also when two of them run under one      *)
(* worker id: attempts are never shared, whoever is ending a job has the   *)
(* newest, nobody is about to publish what its own or an earlier attempt   *)
(* published, and an execution that deletes its candidates has not         *)
(* published them, unless a stale claim has overtaken it since.            *)
THEOREM Fencing == Spec => []LeaseFencing
<1>1. Spec => [](TypeOK /\ LeaseFencing)
  BY TypeInit, TypeStep, FencingInit, FencingStep, PTL DEF Spec
<1> QED
  BY <1>1, PTL

-----------------------------------------------------------------------------
(* Storage.                                                                *)

(* The conjuncts of StorageAccounting.                                     *)
Held == garbage \cup {gc}
KeysBegun == \A k \in Held : k # None => k[2] <= attempt[k[1]]
Importing == {"download", "upload", "publish", "publishing"}
CandidatesReserved ==
    \A w \in Executions : pc[w] \in Importing =>
        \A p \in Parts : CandidateKey(wjob[w], watt[w], p) \notin Held
CandidatesStored ==
    \A w \in Executions :
        /\ ~Working(w) \/ pc[w] = "download" => uploaded[w] = {}
        /\ pc[w] \in {"upload", "publish", "publishing"} =>
              \A p \in uploaded[w] : CandidateKey(wjob[w], watt[w], p) \in objects
        /\ pc[w] \in {"publish", "publishing"} => uploaded[w] = Candidates(wjob[w])
CurrentStored ==
    \A p \in Parts : object[p] # None =>
        /\ object[p] = CandidateKey(object[p][1], publishedAt[object[p][1]], p)
        /\ publishedAt[object[p][1]] # 0
        /\ \/ object[p] \in objects /\ object[p] \notin Held
           \/ Overtaken(object[p][1])
CollectorOK ==
    /\ gcPc = "forget" => gc \notin objects
    /\ gcPc = "idle" <=> gc = None

LEMMA StorageParts ==
    StorageAccounting <=>
        KeysBegun /\ CandidatesReserved /\ CandidatesStored /\ CurrentStored /\ CollectorOK
BY DEF StorageAccounting, Held, KeysBegun, Importing, CandidatesReserved,
       CandidatesStored, CurrentStored, CollectorOK

(* No object key is null, and a partition is part of its object's key.     *)
LEMMA KeyFacts ==
    /\ None \notin Jobs /\ None \notin Parts /\ None \notin Keys
    /\ \A j \in Jobs, n \in Nat, p \in Parts \cup {None} : <<j, n, p>> \in Keys
BY ConstantsAssumption DEF Keys

(* The current object of a partition belongs to the attempt that published *)
(* its job; it is in storage, unless that attempt was overtaken.           *)
LEMMA CurrentKey ==
    ASSUME RowsOK, StorageAccounting, NEW p \in Parts, object[p] # None
    PROVE  \E i \in Jobs : /\ object[p] = <<i, publishedAt[i], p>>
                           /\ publishedAt[i] # 0
                           /\ \/ object[p] \in objects /\ object[p] \notin Held
                              \/ Overtaken(i)
<1>1. object[p] \in Keys
  BY DEF RowsOK
<1>2. object[p][1] \in Jobs
  BY <1>1 DEF Keys
<1> QED
  BY <1>2 DEF StorageAccounting, Held

(* A move of one execution that leaves the garbage alone and may put one   *)
(* of its candidates in storage.                                           *)
LEMMA StoringMove ==
    ASSUME RowsOK, LocalsOK, LeaseFencing, StorageAccounting,
           NEW w \in Executions, pc[w] # "idle",
           NEW s, NEW u, NEW e, MoveTo(w, s, u, e),
           UNCHANGED <<attempt, publishedAt, object, garbage, gc, gcPc>>,
           \/ objects' = objects
           \/ /\ pc[w] = "upload"
              /\ \E p \in Parts : objects' = objects \cup {CandidateKey(wjob[w], watt[w], p)},
           s \notin {"takeUp", "takeOver", "download"},
           s \in Importing => pc[w] \in Importing,
           s \in {"upload", "publish", "publishing"} =>
              \A p \in u : CandidateKey(wjob[w], watt[w], p) \in objects',
           s \in {"publish", "publishing"} => u = Candidates(wjob[w])
    PROVE  StorageAccounting'
<1>1. /\ pc'[w] = s
      /\ s # "idle" => wjob'[w] = wjob[w] /\ watt'[w] = watt[w] /\ uploaded'[w] = u
      /\ \A v \in Executions \ {w} :
            pc'[v] = pc[v] /\ wjob'[v] = wjob[v] /\ watt'[v] = watt[v] /\ uploaded'[v] = uploaded[v]
  BY MoveToEffect
<1>2. Held' = Held /\ objects \subseteq objects'
  BY DEF Held
<1>3. KeysBegun'
  BY <1>2, StorageParts DEF KeysBegun
<1>4. CandidatesReserved'
  <2> SUFFICES ASSUME NEW v \in Executions, pc'[v] \in Importing, NEW p \in Parts
               PROVE  CandidateKey(wjob'[v], watt'[v], p) \notin Held
    BY <1>2 DEF CandidatesReserved
  <2>1. CandidatesReserved
    BY StorageParts
  <2> QED
    BY <1>1, <2>1 DEF CandidatesReserved, Importing
<1>5. CandidatesStored'
  <2>1. CandidatesStored
    BY StorageParts
  <2>2. s = "idle" => uploaded'[w] = {}
    BY DEF MoveTo, LocalsOK
  <2> QED
    BY <1>1, <1>2, <2>1, <2>2 DEF CandidatesStored, Working
<1>6. CurrentStored'
  BY <1>2, StorageParts DEF CurrentStored, Overtaken
<1>7. CollectorOK'
  <2>1. CASE objects' = objects
    BY <2>1, StorageParts DEF CollectorOK
  <2>2. ASSUME pc[w] = "upload", NEW p \in Parts,
               objects' = objects \cup {CandidateKey(wjob[w], watt[w], p)}
        PROVE  CollectorOK'
    <3>1. CandidateKey(wjob[w], watt[w], p) # gc
      BY <2>2, StorageParts DEF CandidatesReserved, Importing, Held
    <3> QED
      BY <2>2, <3>1, StorageParts DEF CollectorOK
  <2> QED
    BY <2>1, <2>2
<1> QED
  BY <1>3, <1>4, <1>5, <1>6, <1>7 DEF StorageAccounting, Held, KeysBegun, Importing,
     CandidatesReserved, CandidatesStored, CurrentStored, CollectorOK

(* A move of one execution that deletes or enqueues a key of its own: its  *)
(* source, or a candidate it abandons.                                     *)
LEMMA DeletingMove ==
    ASSUME RowsOK, LocalsOK, LeaseFencing, StorageAccounting,
           NEW w \in Executions, Working(w), pc[w] \notin Importing,
           NEW s, NEW u, NEW e, MoveTo(w, s, u, e),
           s \notin Importing \cup {"takeUp", "takeOver"},
           UNCHANGED <<attempt, publishedAt, object, gc, gcPc>>,
           NEW k,
           \/ k = SourceKey(wjob[w])
           \/ pc[w] = "abandon" /\ \E p \in Parts : k = CandidateKey(wjob[w], watt[w], p),
           DeleteOrEnqueue(k) \/ DeleteOrEnqueueThrows(k)
    PROVE  StorageAccounting'
<1>1. /\ pc'[w] = s
      /\ \A v \in Executions \ {w} :
            pc'[v] = pc[v] /\ wjob'[v] = wjob[v] /\ watt'[v] = watt[v] /\ uploaded'[v] = uploaded[v]
  BY MoveToEffect
<1>2. Held' \subseteq Held \cup {k} /\ objects \ {k} \subseteq objects' /\ objects' \subseteq objects
  BY DEF Held, DeleteOrEnqueue, DeleteOrEnqueueThrows
<1>3. wjob[w] \in Jobs /\ watt[w] \in 1..attempt[wjob[w]] /\ attempt[wjob[w]] \in Nat
  BY DEF LocalsOK, LeaseFencing, RowsOK, Working
<1>4. k[2] <= attempt[k[1]]
  BY <1>3
<1>5. \A v \in Executions \ {w} : Working(v) =>
         \A p \in Parts : CandidateKey(wjob[v], watt[v], p) # k
  <2> SUFFICES ASSUME NEW v \in Executions \ {w}, Working(v), NEW p \in Parts,
                      <<wjob[v], watt[v], p>> = k
               PROVE  FALSE
    OBVIOUS
  <2>1. k # SourceKey(wjob[w])
    BY KeyFacts
  <2>2. wjob[v] = wjob[w] /\ watt[v] = watt[w]
    BY <2>1
  <2> QED
    BY <2>2 DEF LeaseFencing
<1>6. \A p \in Parts : object[p] # None => object[p] # k \/ Overtaken(object[p][1])
  <2> SUFFICES ASSUME NEW p \in Parts, object[p] # None, object[p] = k
               PROVE  Overtaken(object[p][1])
    OBVIOUS
  <2>1. PICK i \in Jobs : object[p] = <<i, publishedAt[i], p>>
    BY CurrentKey
  <2>2. k # SourceKey(wjob[w])
    BY <2>1, KeyFacts
  <2>3. pc[w] = "abandon" /\ i = wjob[w] /\ publishedAt[i] = watt[w] /\ object[p][1] = i
    BY <2>1, <2>2
  <2> QED
    BY <2>3 DEF LeaseFencing
<1>7. KeysBegun'
  BY <1>2, <1>4, StorageParts DEF KeysBegun
<1>8. CandidatesReserved'
  BY <1>1, <1>2, <1>5, StorageParts DEF CandidatesReserved, Importing, Working
<1>9. CandidatesStored'
  <2> SUFFICES ASSUME NEW v \in Executions
               PROVE  /\ ~Working(v)' \/ pc'[v] = "download" => uploaded'[v] = {}
                      /\ pc'[v] \in {"upload", "publish", "publishing"} =>
                            \A p \in uploaded'[v] : CandidateKey(wjob'[v], watt'[v], p) \in objects'
                      /\ pc'[v] \in {"publish", "publishing"} => uploaded'[v] = Candidates(wjob'[v])
    BY DEF CandidatesStored
  <2>1. CASE v = w
    <3>1. s = "idle" => uploaded'[w] = {}
      BY DEF MoveTo, LocalsOK
    <3> QED
      BY <1>1, <2>1, <3>1 DEF Importing, Working
  <2>2. CASE v # w
    <3>1. \A p \in uploaded[v] : p \in Parts
      BY DEF LocalsOK
    <3> QED
      BY <1>1, <1>2, <1>5, <2>2, <3>1, StorageParts DEF CandidatesStored, Working
  <2> QED
    BY <2>1, <2>2
<1>10. CurrentStored'
  BY <1>2, <1>6, StorageParts DEF CurrentStored, Overtaken
<1>11. CollectorOK'
  BY <1>2, StorageParts DEF CollectorOK
<1> QED
  BY <1>7, <1>8, <1>9, <1>10, <1>11 DEF StorageAccounting, Held, KeysBegun, Importing,
     CandidatesReserved, CandidatesStored, CurrentStored, CollectorOK

(* The steps of an execution other than the commit of a publication.       *)
LEMMA StorageWorkerStep ==
    ASSUME RowsOK, LocalsOK, LeaseFencing, StorageAccounting,
           NEW w \in Executions, WorkerStep(w) \/ Crash(w), ~Publish(w), ~ClaimWrite(w)
    PROVE  StorageAccounting'
<1> USE DEF DatabaseVars, jobVars, runVars, catalogVars, storeVars, gcVars
<1>0. ASSUME pc[w] # "idle", NEW s, NEW u, NEW e, MoveTo(w, s, u, e),
             UNCHANGED <<attempt, publishedAt, object, objects, garbage, gc, gcPc>>,
             s \notin Importing \cup {"takeUp", "takeOver"}
      PROVE  StorageAccounting'
  BY <1>0, StoringMove DEF Importing
<1>a. \A e : AfterError(e) \notin Importing \cup {"takeUp", "takeOver"}
  BY DEF AfterError, Importing
<1>b. CASE ClaimMisses(w)
  BY <1>b, <1>0 DEF ClaimMisses, Goto, Importing
<1>c. CASE Unusable(w)
  BY <1>c, <1>0 DEF Unusable, GotoWith, Importing
<1>d. CASE BeginReject(w)
  <2>1. PICK s : Goto(w, s) /\ s \in {"rejecting", "idle", "fail"}
    BY <1>d DEF BeginReject
  <2> QED
    BY <1>d, <1>0, <2>1 DEF BeginReject, Goto, Importing
<1>e. CASE BeginPublish(w)
  <2>1. /\ \A p \in uploaded[w] : CandidateKey(wjob[w], watt[w], p) \in objects
        /\ uploaded[w] = Candidates(wjob[w])
    BY <1>e DEF BeginPublish, StorageAccounting
  <2> QED
    BY <1>e, <2>1, StoringMove DEF BeginPublish, Goto, Importing
<1>1. CASE Download(w)
  <2>1. uploaded[w] = {}
    BY <1>1 DEF Download, StorageAccounting
  <2>2. CASE Goto(w, "upload")
    BY <1>1, <2>1, <2>2, StoringMove DEF Download, Goto, Importing
  <2>3. CASE Goto(w, "reject") \/ Goto(w, "fail")
    BY <1>1, <1>0, <2>3 DEF Download, Goto, Importing
  <2> QED
    BY <1>1, <2>2, <2>3 DEF Download
<1>2. ASSUME NEW p \in Parts, Upload(w, p)
      PROVE  StorageAccounting'
  <2> DEFINE u == uploaded[w] \cup {p}
  <2>1. \A q \in u : CandidateKey(wjob[w], watt[w], q) \in objects'
    BY <1>2 DEF Upload, StorageAccounting
  <2>2. CASE MoveTo(w, "publish", u, err[w]) /\ u = Candidates(wjob[w])
    BY <1>2, <2>1, <2>2, StoringMove DEF Upload, Importing
  <2>3. CASE MoveTo(w, "upload", u, err[w])
    BY <1>2, <2>1, <2>3, StoringMove DEF Upload, Importing
  <2> QED
    BY <1>2, <2>2, <2>3 DEF Upload
<1>3. ASSUME NEW p \in Parts, UploadFails(w, p)
      PROVE  StorageAccounting'
  <2>1. PICK s, u, e : MoveTo(w, s, u, e) /\ s \in {"fail", "abandon"}
    BY <1>3 DEF UploadFails, GotoWith
  <2>2. \/ objects' = objects
        \/ objects' = objects \cup {CandidateKey(wjob[w], watt[w], p)}
    BY <1>3 DEF UploadFails
  <2> QED
    BY <1>3, <2>1, <2>2, StoringMove DEF UploadFails, Importing
<1>4. CASE Reject(w)
  <2>1. PICK s : Goto(w, s) /\ s \in {"cleanSource", "fail"}
    BY <1>4 DEF Reject
  <2> QED
    BY <1>4, <1>0, <2>1 DEF Reject, Goto, Importing
<1>5. CASE CleanSource(w)
  <2>1. PICK s : Goto(w, s) /\ s \in {"complete", "fail"}
    BY <1>5 DEF CleanSource
  <2> QED
    BY <1>5, <2>1, DeletingMove DEF CleanSource, Goto, Importing, Working
<1>6. CASE PublishThrows(w)
  BY <1>6, <1>0 DEF PublishThrows, GotoWith, Importing
<1>7. CASE ReadBack(w)
  <2>1. PICK s, e : GotoWith(w, s, e) /\ s \notin Importing \cup {"takeUp", "takeOver"}
    BY <1>7, <1>a DEF ReadBack, Goto, GotoWith, Importing
  <2> QED
    BY <1>7, <1>0, <2>1 DEF ReadBack, GotoWith
<1>8. ASSUME NEW p \in Parts, Abandon(w, p)
      PROVE  StorageAccounting'
  <2>1. PICK s, u, e : MoveTo(w, s, u, e) /\ s \notin Importing \cup {"takeUp", "takeOver"}
    BY <1>8, <1>a DEF Abandon, GotoWith, Importing
  <2> QED
    BY <1>8, <2>1, DeletingMove DEF Abandon, Importing, Working
<1>9. CASE Complete(w)
  <2>1. PICK s : Goto(w, s) /\ s \in {"idle", "fail"}
    BY <1>9 DEF Complete
  <2>2. UNCHANGED attempt
    BY <1>9 DEF Complete, Release
  <2> QED
    BY <1>9, <1>0, <2>1, <2>2 DEF Complete, Goto, Importing
<1>10. CASE Fail(w)
  <2>1. PICK s : Goto(w, s) /\ s \in {"idle", "cleanTerminal"}
    BY <1>10 DEF Fail, AfterFail
  <2>2. UNCHANGED attempt
    BY <1>10 DEF Fail, Release
  <2> QED
    BY <1>10, <1>0, <2>1, <2>2 DEF Fail, Goto, Importing
<1>11. CASE CleanTerminal(w)
  BY <1>11, DeletingMove DEF CleanTerminal, Goto, Importing, Working
<1>12. CASE Crash(w)
  BY <1>12, <1>0 DEF Crash, Goto, Importing
<1> QED
  BY <1>b, <1>c, <1>d, <1>e, <1>1, <1>2, <1>3, <1>4, <1>5, <1>6, <1>7, <1>8, <1>9, <1>10, <1>11, <1>12
     DEF WorkerStep

(* What the commit of execution w does to the catalogue and the garbage.   *)
LEMMA CommitEffect ==
    ASSUME RowsOK, LocalsOK, LeaseFencing, StorageAccounting,
           NEW w \in Executions, Publish(w)
    PROVE  /\ wjob[w] \in Jobs /\ watt[w] \in Nat /\ watt[w] # 0
           /\ watt[w] = attempt[wjob[w]] /\ publishedAt[wjob[w]] = 0
           /\ \A p \in Candidates(wjob[w]) : p \in Parts /\ <<wjob[w], watt[w], p>> \in objects
           /\ publishedAt' = [publishedAt EXCEPT ![wjob[w]] = watt[w]]
           /\ \A p \in Parts :
                 \/ /\ p \in Candidates(wjob[w])
                    /\ Decision(wjob[w], p) \in {"insert", "replace"}
                    /\ object'[p] = <<wjob[w], watt[w], p>>
                 \/ /\ p \in Candidates(wjob[w]) => Decision(wjob[w], p) \notin {"insert", "replace"}
                    /\ object'[p] = object[p]
           /\ garbage' = garbage \cup Retired(wjob[w], watt[w])
           /\ UNCHANGED <<attempt, objects, gc, gcPc>>
<1> USE DEF runVars, gcVars
<1>1. pc[w] = "publishing"
  BY DEF Publish
<1>2. /\ wjob[w] \in Jobs /\ watt[w] \in Nat /\ watt[w] # 0
      /\ watt[w] = attempt[wjob[w]] /\ publishedAt[wjob[w]] = 0
  BY <1>1, PublisherIsFirst
<1>4. \A p \in Candidates(wjob[w]) : p \in Parts /\ <<wjob[w], watt[w], p>> \in objects
  BY <1>1 DEF StorageAccounting, Candidates
<1>5. CommitPublication(wjob[w], watt[w])
  BY DEF Publish
<1>6. publishedAt' = [publishedAt EXCEPT ![wjob[w]] = watt[w]]
  BY <1>5 DEF CommitPublication, MarkPublished
<1>7. \A p \in Parts :
         \/ /\ p \in Candidates(wjob[w])
            /\ Decision(wjob[w], p) \in {"insert", "replace"}
            /\ object'[p] = <<wjob[w], watt[w], p>>
         \/ /\ p \in Candidates(wjob[w]) => Decision(wjob[w], p) \notin {"insert", "replace"}
            /\ object'[p] = object[p]
  BY <1>5 DEF CommitPublication
<1>8. garbage' = garbage \cup Retired(wjob[w], watt[w])
  BY <1>5 DEF CommitPublication
<1>9. UNCHANGED <<attempt, objects, gc, gcPc>>
  BY DEF Publish
<1> QED
  BY <1>2, <1>4, <1>6, <1>7, <1>8, <1>9

(* A retired key is a replaced current object, a candidate that is not     *)
(* needed, or the source.                                                  *)
LEMMA RetiredKeys ==
    ASSUME NEW j, NEW n, NEW k \in Retired(j, n)
    PROVE  \/ \E q \in Candidates(j) :
                 Decision(j, q) = "replace" /\ object[q] # None /\ k = object[q]
           \/ \E q \in Candidates(j) :
                 Decision(j, q) \in {"keep", "update_metadata"} /\ k = <<j, n, q>>
           \/ k = <<j, 0, None>>
<1>1. \A q \in Candidates(j) : Decision(j, q) = "replace" => object[q] # None
  BY DEF Decision
<1> QED
  BY <1>1 DEF Retired

LEMMA StoragePublish ==
    ASSUME RowsOK, LocalsOK, LeaseFencing, StorageAccounting,
           NEW w \in Executions, Publish(w)
    PROVE  StorageAccounting'
<1> DEFINE j == wjob[w]
           n == watt[w]
<1>1. /\ j \in Jobs /\ n \in Nat /\ n # 0 /\ n = attempt[j] /\ publishedAt[j] = 0
      /\ \A p \in Candidates(j) : p \in Parts /\ <<j, n, p>> \in objects
      /\ publishedAt' = [publishedAt EXCEPT ![j] = n]
      /\ garbage' = garbage \cup Retired(j, n)
      /\ UNCHANGED <<attempt, objects, gc, gcPc>>
  BY CommitEffect
<1>2. \A p \in Parts :
         \/ /\ p \in Candidates(j)
            /\ Decision(j, p) \in {"insert", "replace"}
            /\ object'[p] = <<j, n, p>>
         \/ /\ p \in Candidates(j) => Decision(j, p) \notin {"insert", "replace"}
            /\ object'[p] = object[p]
  BY CommitEffect
<1>3. PICK s, u, e : MoveTo(w, s, u, e) /\ s \in {"cleanSource", "readBack"}
  BY DEF Publish, Goto, GotoWith
<1>4. /\ pc[w] = "publishing" /\ pc'[w] \in {"cleanSource", "readBack"}
      /\ \A v \in Executions \ {w} :
            pc'[v] = pc[v] /\ wjob'[v] = wjob[v] /\ watt'[v] = watt[v] /\ uploaded'[v] = uploaded[v]
  BY <1>3, MoveToEffect DEF Publish
<1>5. Held' = Held \cup Retired(j, n)
  BY <1>1 DEF Held
<1>6. \A q \in Candidates(j) : q \in Parts /\ (object[q] # None =>
         \E i \in Jobs : object[q] = <<i, publishedAt[i], q>> /\ publishedAt[i] # 0)
  BY <1>1, CurrentKey
<1>7. KeysBegun'
  <2> SUFFICES ASSUME NEW k \in Retired(j, n) PROVE k[2] <= attempt[k[1]]
    BY <1>1, <1>5, StorageParts DEF KeysBegun
  <2>1. CASE \E q \in Candidates(j) : object[q] # None /\ k = object[q]
    <3>1. PICK i \in Jobs, q \in Parts : k = <<i, publishedAt[i], q>> /\ publishedAt[i] # 0
      BY <1>6, <2>1
    <3>2. publishedAt[i] <= attempt[i] /\ attempt[i] \in Nat
      BY <3>1 DEF LeaseFencing, RowsOK
    <3> QED
      BY <3>1, <3>2
  <2>2. CASE \E q : k = <<j, n, q>>
    BY <1>1, <2>2
  <2>3. CASE k = <<j, 0, None>>
    BY <1>1, <2>3
  <2> QED
    BY <2>1, <2>2, <2>3, RetiredKeys
<1>8. CandidatesReserved'
  <2> SUFFICES ASSUME NEW v \in Executions, v # w, pc[v] \in Importing, NEW p \in Parts
               PROVE  <<wjob[v], watt[v], p>> \notin Held'
    BY <1>4 DEF CandidatesReserved, Importing
  <2>1. <<wjob[v], watt[v], p>> \notin Held
    BY StorageParts DEF CandidatesReserved
  <2>2. /\ publishedAt[wjob[v]] # 0 => publishedAt[wjob[v]] # watt[v]
        /\ wjob[v] = j => watt[v] # n
    <3>1. Working(v) /\ Fenced(pc[v], wjob[v], watt[v]) /\ watt[v] \in Nat
      BY LeaseFencingParts DEF UnpublishedSoFar, Importing, Working, LocalsOK
    <3>2. wjob[v] = j => watt[v] < n
      BY <1>4, <3>1, PublisherIsFirst
    <3> QED
      BY <1>1, <3>1, <3>2 DEF Fenced, Importing
  <2>3. <<wjob[v], watt[v], p>> \notin Retired(j, n)
    <3> SUFFICES ASSUME <<wjob[v], watt[v], p>> \in Retired(j, n) PROVE FALSE
      OBVIOUS
    <3>1. CASE \E q \in Candidates(j) : object[q] # None /\ <<wjob[v], watt[v], p>> = object[q]
      BY <1>6, <2>2, <3>1
    <3>2. CASE \E q : <<wjob[v], watt[v], p>> = <<j, n, q>>
      BY <2>2, <3>2
    <3>3. CASE <<wjob[v], watt[v], p>> = <<j, 0, None>>
      BY <3>3, KeyFacts
    <3> QED
      BY <3>1, <3>2, <3>3, RetiredKeys
  <2> QED
    BY <1>5, <2>1, <2>3
<1>9. CandidatesStored'
  BY <1>1, <1>4, StorageParts DEF CandidatesStored, Working
<1>10. CurrentStored'
  <2> SUFFICES ASSUME NEW p \in Parts, object'[p] # None
               PROVE  \E i \in Jobs : /\ object'[p] = <<i, publishedAt'[i], p>>
                                      /\ publishedAt'[i] # 0
                                      /\ \/ object'[p] \in objects' /\ object'[p] \notin Held'
                                         \/ Overtaken(i)'
    BY DEF CurrentStored
  <2>1. CASE /\ p \in Candidates(j)
             /\ Decision(j, p) \in {"insert", "replace"}
             /\ object'[p] = <<j, n, p>>
    <3>1. <<j, n, p>> \notin Held
      BY <1>4, StorageParts DEF CandidatesReserved, Importing
    <3>2. <<j, n, p>> \notin Retired(j, n)
      <4> SUFFICES ASSUME <<j, n, p>> \in Retired(j, n) PROVE FALSE
        OBVIOUS
      <4>1. CASE \E q \in Candidates(j) : object[q] # None /\ <<j, n, p>> = object[q]
        BY <1>1, <1>6, <4>1
      <4>2. CASE \E q \in Candidates(j) :
                   Decision(j, q) \in {"keep", "update_metadata"} /\ <<j, n, p>> = <<j, n, q>>
        BY <2>1, <4>2
      <4>3. CASE <<j, n, p>> = <<j, 0, None>>
        BY <1>1, <4>3
      <4> QED
        BY <4>1, <4>2, <4>3, RetiredKeys
    <3>3. publishedAt'[j] = n
      BY <1>1 DEF RowsOK
    <3> QED
      BY <1>1, <1>5, <2>1, <3>1, <3>2, <3>3
  <2>2. CASE /\ p \in Candidates(j) => Decision(j, p) \notin {"insert", "replace"}
             /\ object'[p] = object[p]
    <3>1. PICK i \in Jobs : /\ object[p] = <<i, publishedAt[i], p>>
                            /\ publishedAt[i] # 0
                            /\ \/ object[p] \in objects /\ object[p] \notin Held
                               \/ Overtaken(i)
      BY <2>2, CurrentKey
    <3>2. i # j /\ publishedAt'[i] = publishedAt[i] /\ (Overtaken(i) => Overtaken(i)')
      BY <1>1, <3>1 DEF RowsOK, Overtaken
    <3>3. object[p] \notin Retired(j, n)
      <4> SUFFICES ASSUME object[p] \in Retired(j, n) PROVE FALSE
        OBVIOUS
      <4>1. CASE \E q \in Candidates(j) :
                   Decision(j, q) = "replace" /\ object[q] # None /\ object[p] = object[q]
        BY <1>6, <2>2, <3>1, <4>1
      <4>2. CASE \E q : object[p] = <<j, n, q>>
        BY <3>1, <3>2, <4>2
      <4>3. CASE object[p] = <<j, 0, None>>
        BY <3>1, <3>2, <4>3
      <4> QED
        BY <4>1, <4>2, <4>3, RetiredKeys
    <3> QED
      BY <1>1, <1>5, <2>2, <3>1, <3>2, <3>3
  <2> QED
    BY <1>2, <2>1, <2>2
<1>11. CollectorOK'
  BY <1>1, StorageParts DEF CollectorOK
<1> QED
  BY <1>7, <1>8, <1>9, <1>10, <1>11 DEF StorageAccounting, Held, KeysBegun, Importing,
     CandidatesReserved, CandidatesStored, CurrentStored, CollectorOK

(* Reading the run for a claim touches neither keys nor rows.              *)
LEMMA StorageClaimRead ==
    ASSUME RowsOK, LocalsOK, StorageAccounting,
           NEW w \in Executions, NEW j \in Jobs, ClaimRead(w, j)
    PROVE  StorageAccounting'
<1> USE DEF DatabaseVars, runVars, catalogVars, storeVars, gcVars
<1>1. /\ pc[w] = "idle" /\ pc'[w] \in {"takeUp", "takeOver"}
      /\ \A v \in Executions \ {w} :
            pc'[v] = pc[v] /\ wjob'[v] = wjob[v] /\ watt'[v] = watt[v]
      /\ UNCHANGED <<attempt, publishedAt, object, objects, garbage, gc, gcPc, uploaded>>
  BY DEF ClaimRead, LocalsOK
<1>2. KeysBegun' /\ CurrentStored' /\ CollectorOK'
  BY <1>1, StorageParts DEF Held, KeysBegun, CurrentStored, Overtaken, CollectorOK
<1>3. CandidatesReserved'
  BY <1>1, StorageParts DEF Held, CandidatesReserved, Importing
<1>4. CandidatesStored'
  <2>1. CandidatesStored
    BY StorageParts
  <2> QED
    BY <1>1, <2>1 DEF CandidatesStored, Working
<1> QED
  BY <1>2, <1>3, <1>4 DEF StorageAccounting, Held, KeysBegun, Importing,
     CandidatesReserved, CandidatesStored, CurrentStored, CollectorOK

(* The candidates of a new attempt have keys nobody has seen.              *)
LEMMA StorageClaimWrite ==
    ASSUME RowsOK, LocalsOK, LeaseFencing, StorageAccounting,
           NEW w \in Executions, ClaimWrite(w)
    PROVE  StorageAccounting'
<1> USE DEF catalogVars, storeVars, gcVars
<1> DEFINE j == wjob[w]
<1>1. /\ j \in Jobs
      /\ pc' = [pc EXCEPT ![w] = "download"]
      /\ watt' = [watt EXCEPT ![w] = attempt[j] + 1]
      /\ attempt' = [attempt EXCEPT ![j] = @ + 1]
      /\ ~Working(w)
      /\ UNCHANGED <<wjob, publishedAt, object, objects, garbage, gc, gcPc, uploaded>>
  BY DEF ClaimWrite, AsRead, LocalsOK, Working
<1>2. Held' = Held /\ \A k \in Held : k = None \/ k \in Keys
  BY <1>1 DEF Held, RowsOK
<1>3. \A i \in Jobs : attempt[i] \in Nat /\ attempt[i] <= attempt'[i]
  BY <1>1 DEF RowsOK
<1>4. KeysBegun'
  <2> SUFFICES ASSUME NEW k \in Held, k # None PROVE k[2] <= attempt'[k[1]]
    BY <1>2 DEF KeysBegun
  <2>1. k[1] \in Jobs /\ k[2] \in Nat
    BY <1>2 DEF Keys
  <2>2. k[2] <= attempt[k[1]]
    BY StorageParts DEF KeysBegun
  <2>3. attempt'[k[1]] \in Nat
    BY <1>1, <2>1 DEF RowsOK
  <2> QED
    BY <1>3, <2>1, <2>2, <2>3
<1>5. CandidatesReserved'
  <2> SUFFICES ASSUME NEW v \in Executions, pc'[v] \in Importing, NEW p \in Parts
               PROVE  <<wjob'[v], watt'[v], p>> \notin Held
    BY <1>2 DEF CandidatesReserved
  <2>1. CASE v = w
    <3>1. wjob'[v] = j /\ watt'[v] = attempt[j] + 1 /\ attempt[j] \in Nat
      BY <1>1, <2>1 DEF LocalsOK, RowsOK
    <3>2. <<j, attempt[j] + 1, p>> # None
      BY <1>1, <3>1, KeyFacts
    <3>3. \A k \in Held : k # None => k[2] <= attempt[k[1]]
      BY StorageParts DEF KeysBegun
    <3>4. ~(attempt[j] + 1 <= attempt[j])
      BY <3>1
    <3> QED
      BY <3>1, <3>2, <3>3, <3>4
  <2>2. CASE v # w
    BY <1>1, <2>2, StorageParts DEF LocalsOK, CandidatesReserved
  <2> QED
    BY <2>1, <2>2
<1>6. CandidatesStored'
  <2>1. CandidatesStored
    BY StorageParts
  <2> QED
    BY <1>1, <2>1 DEF LocalsOK, CandidatesStored, Working
<1>7. CurrentStored'
  <2> SUFFICES ASSUME NEW p \in Parts, object[p] # None
               PROVE  \E i \in Jobs : /\ object[p] = <<i, publishedAt[i], p>>
                                      /\ publishedAt[i] # 0
                                      /\ \/ object[p] \in objects /\ object[p] \notin Held
                                         \/ Overtaken(i)'
    BY <1>1, <1>2 DEF CurrentStored
  <2>1. PICK i \in Jobs : /\ object[p] = <<i, publishedAt[i], p>>
                          /\ publishedAt[i] # 0
                          /\ \/ object[p] \in objects /\ object[p] \notin Held
                             \/ Overtaken(i)
    BY CurrentKey
  <2>2. Overtaken(i) => Overtaken(i)'
    BY <1>1, <1>3 DEF Overtaken, RowsOK
  <2> QED
    BY <2>1, <2>2
<1>8. CollectorOK'
  BY <1>1, StorageParts DEF CollectorOK
<1> QED
  BY <1>4, <1>5, <1>6, <1>7, <1>8 DEF StorageAccounting, Held, KeysBegun, Importing,
     CandidatesReserved, CandidatesStored, CurrentStored, CollectorOK

(* Time and maintenance: the collector holds a key of the queue until it   *)
(* has deleted the object and forgotten the row.                           *)
LEMMA StorageOther ==
    ASSUME RowsOK, LocalsOK, LeaseFencing, StorageAccounting,
           \/ \E j \in Jobs : LeaseLapses(j) \/ HeartbeatsFail(j) \/ RetryFallsDue(j) \/ Purge(j)
           \/ \E k \in garbage : GcPick(k)
           \/ GcDelete \/ GcForget
           \/ UNCHANGED vars
    PROVE  StorageAccounting'
<1> USE DEF DatabaseVars, jobVars, runVars, catalogVars, storeVars, gcVars, workerVars
<1> DEFINE Kept == UNCHANGED <<attempt, publishedAt, object, pc, wjob, watt, uploaded>>
           Shrunk == Held' \subseteq Held \cup {None} /\ objects' \in {objects, objects \ {gc}}
<1>1. Kept /\ Shrunk /\ CollectorOK'
  <2>1. CASE \/ \E j \in Jobs : LeaseLapses(j) \/ HeartbeatsFail(j) \/ RetryFallsDue(j) \/ Purge(j)
             \/ UNCHANGED vars
    <3>1. Kept /\ UNCHANGED <<objects, garbage, gc, gcPc>>
      BY <2>1 DEF LeaseLapses, HeartbeatsFail, RetryFallsDue, Purge, vars
    <3> QED
      BY <3>1, StorageParts DEF Held, CollectorOK
  <2>2. ASSUME NEW k \in garbage, GcPick(k)
        PROVE  Kept /\ Shrunk /\ CollectorOK'
    <3>1. k # None
      BY <2>2, KeyFacts DEF RowsOK
    <3> QED
      BY <2>2, <3>1, StorageParts DEF GcPick, Held, CollectorOK
  <2>3. CASE GcDelete
    BY <2>3, StorageParts DEF GcDelete, Held, CollectorOK
  <2>4. CASE GcForget
    BY <2>4, StorageParts DEF GcForget, Held, CollectorOK
  <2> QED
    BY <2>1, <2>2, <2>3, <2>4
<1>2. KeysBegun' /\ CandidatesReserved'
  <2>1. \A w \in Executions : pc[w] \in Importing =>
           \A p \in Parts : CandidateKey(wjob[w], watt[w], p) # None
    BY KeyFacts DEF LocalsOK, Importing
  <2> QED
    BY <1>1, <2>1, StorageParts DEF KeysBegun, CandidatesReserved
<1>3. CandidatesStored'
  <2> SUFFICES ASSUME NEW w \in Executions, NEW p \in uploaded[w],
                      pc[w] \in {"upload", "publish", "publishing"}
               PROVE  CandidateKey(wjob[w], watt[w], p) \in objects'
    BY <1>1, StorageParts DEF CandidatesStored, Working
  <2>1. p \in Parts
    BY DEF LocalsOK
  <2>2. CandidateKey(wjob[w], watt[w], p) \in objects \ {gc}
    BY <2>1, StorageParts DEF CandidatesStored, CandidatesReserved, Importing, Held
  <2> QED
    BY <1>1, <2>2
<1>4. CurrentStored'
  BY <1>1, StorageParts DEF CurrentStored, Held, Overtaken
<1> QED
  BY <1>1, <1>2, <1>3, <1>4 DEF StorageAccounting, Held, KeysBegun, Importing,
     CandidatesReserved, CandidatesStored, CurrentStored, CollectorOK

LEMMA StorageInit == Init => StorageAccounting
BY KeyFacts DEF Init, StorageAccounting, Working

LEMMA StorageStep ==
    TypeOK /\ LeaseFencing /\ StorageAccounting /\ [Next]_vars => StorageAccounting'
<1> SUFFICES ASSUME TypeOK, LeaseFencing, StorageAccounting, [Next]_vars
             PROVE  StorageAccounting'
  OBVIOUS
<1>1. RowsOK /\ LocalsOK
  BY TypeOKParts
<1>2. ASSUME NEW w \in Executions, WorkerStep(w) \/ Crash(w)
      PROVE  StorageAccounting'
  BY <1>1, <1>2, StorageWorkerStep, StoragePublish, StorageClaimWrite
<1>3. ASSUME NEW w \in Executions, NEW j \in Jobs, ClaimRead(w, j)
      PROVE  StorageAccounting'
  BY <1>1, <1>3, StorageClaimRead
<1> QED
  BY <1>1, <1>2, <1>3, StorageOther DEF Next

Inductive == TypeOK /\ LeaseFencing /\ StorageAccounting

LEMMA InductiveAlways == Spec => []Inductive
<1>1. Init => Inductive
  BY TypeInit, FencingInit, StorageInit DEF Inductive
<1>2. Inductive /\ [Next]_vars => Inductive'
  BY TypeStep, FencingStep, StorageStep DEF Inductive
<1> QED
  BY <1>1, <1>2, PTL DEF Spec

(* Only objects that are neither current nor about to be published are     *)
(* ever in the garbage queue or in the hands of the collector, the objects *)
(* of an overtaken publication excepted.                                   *)
THEOREM StorageIsAccounted == Spec => []StorageAccounting
<1>1. Inductive => StorageAccounting
  BY DEF Inductive
<1> QED
  BY <1>1, InductiveAlways, PTL

(* What readers are pointed at is in storage, whatever crashes, lost       *)
(* leases and lost acknowledgements come in between, as long as no stale   *)
(* claim has overtaken the attempt that published it.                      *)
THEOREM CurrentObjectsAreThere == Spec => []CurrentObjectsExist
<1>1. Inductive => CurrentObjectsExist
  BY DEF Inductive, StorageAccounting, CurrentObjectsExist
<1> QED
  BY <1>1, InductiveAlways, PTL

-----------------------------------------------------------------------------
(***************************************************************************)
(* What the pipeline promises its readers: it implements CurrentCatalogue, *)
(* publishes a source at most once, lets no overtaken attempt decide, and  *)
(* keeps track of the objects it replaces.                                 *)
(***************************************************************************)

(* Nothing but the commit of a publication changes the catalogue.          *)
LEMMA OnlyPublishWrites ==
    ASSUME [Next]_vars
    PROVE  UNCHANGED <<object, writer, publishedAt>> \/ \E w \in Executions : Publish(w)
<1> USE DEF DatabaseVars, catalogVars
<1>1. ASSUME NEW w \in Executions, WorkerStep(w) \/ Crash(w), ~Publish(w)
      PROVE  UNCHANGED <<object, writer, publishedAt>>
  BY <1>1 DEF WorkerStep, Crash, ClaimWrite, ClaimMisses, Unusable, Download, Upload,
     UploadFails, BeginReject, Reject, CleanSource, BeginPublish, PublishThrows, ReadBack,
     Abandon, Complete, Fail, CleanTerminal
<1>2. ASSUME NEW w \in Executions, NEW j \in Jobs, ClaimRead(w, j)
      PROVE  UNCHANGED <<object, writer, publishedAt>>
  BY <1>2 DEF ClaimRead
<1>3. ASSUME \/ \E j \in Jobs : LeaseLapses(j) \/ HeartbeatsFail(j) \/ RetryFallsDue(j) \/ Purge(j)
             \/ \E k \in garbage : GcPick(k)
             \/ GcDelete \/ GcForget
             \/ UNCHANGED vars
      PROVE  UNCHANGED <<object, writer, publishedAt>>
  BY <1>3 DEF LeaseLapses, HeartbeatsFail, RetryFallsDue, Purge, GcPick, GcDelete,
     GcForget, vars
<1> QED
  BY <1>1, <1>2, <1>3 DEF Next

(* The parts of the commit that a reader can see.                          *)
LEMMA CommitWrites ==
    ASSUME Inductive, NEW w \in Executions, Publish(w)
    PROVE  /\ wjob[w] \in Jobs /\ watt[w] \in Nat \ {0}
           /\ watt[w] = attempt[wjob[w]] /\ publishedAt[wjob[w]] = 0
           /\ publishedAt' = [publishedAt EXCEPT ![wjob[w]] = watt[w]]
           /\ \A p \in Parts :
                 /\ object'[p] = IF /\ p \in Candidates(wjob[w])
                                    /\ Decision(wjob[w], p) \in {"insert", "replace"}
                                 THEN <<wjob[w], watt[w], p>> ELSE object[p]
                 /\ writer'[p] = IF p \in Candidates(wjob[w]) /\ Decision(wjob[w], p) # "keep"
                                 THEN wjob[w] ELSE writer[p]
           /\ garbage' = garbage \cup Retired(wjob[w], watt[w])
           /\ objects' = objects
<1>1. RowsOK /\ LocalsOK /\ LeaseFencing /\ StorageAccounting
  BY TypeOKParts DEF Inductive
<1>2. CommitPublication(wjob[w], watt[w])
  BY DEF Publish
<1>3. \A p \in Parts :
         /\ object'[p] = IF /\ p \in Candidates(wjob[w])
                            /\ Decision(wjob[w], p) \in {"insert", "replace"}
                         THEN <<wjob[w], watt[w], p>> ELSE object[p]
         /\ writer'[p] = IF p \in Candidates(wjob[w]) /\ Decision(wjob[w], p) # "keep"
                         THEN wjob[w] ELSE writer[p]
  <2> SUFFICES ASSUME NEW p \in Parts
               PROVE  /\ object'[p] = IF /\ p \in Candidates(wjob[w])
                                         /\ Decision(wjob[w], p) \in {"insert", "replace"}
                                      THEN <<wjob[w], watt[w], p>> ELSE object[p]
                      /\ writer'[p] = IF p \in Candidates(wjob[w]) /\ Decision(wjob[w], p) # "keep"
                                      THEN wjob[w] ELSE writer[p]
    OBVIOUS
  <2>1. CASE p \in Candidates(wjob[w])
    BY <1>2, <2>1 DEF CommitPublication
  <2>2. CASE p \notin Candidates(wjob[w])
    BY <1>2, <2>2 DEF CommitPublication
  <2> QED
    BY <2>1, <2>2
<1> QED
  BY <1>1, <1>3, CommitEffect

-----------------------------------------------------------------------------
(* The refinement.                                                         *)

Current == [p \in Parts |-> Visible(p)]
Done == {j \in Jobs : publishedAt[j] # 0}

LEMMA RefinesInit == Init => Catalogue!CatalogueInit
BY DEF Init, Catalogue!CatalogueInit, Catalogue!Nothing, Visible

(* A commit is the publication of a whole source.                          *)
LEMMA RefinesPublish ==
    ASSUME Inductive, NEW w \in Executions, Publish(w), NEW j \in Jobs, wjob[w] = j
    PROVE  Catalogue!PublishWhole(j)
<1> DEFINE n == watt[w]
<1>1. /\ j \in Jobs /\ n \in Nat \ {0} /\ publishedAt[j] = 0
      /\ publishedAt' = [publishedAt EXCEPT ![j] = n]
  BY CommitWrites
<1>2. RowsOK
  BY TypeOKParts DEF Inductive
<1>3. j \notin Done /\ Done' = Done \cup {j}
  BY <1>1, <1>2 DEF Done, RowsOK
<1>4. ASSUME NEW p \in Parts
      PROVE  Visible(p)' = IF Manifest[j][p] = NoSum THEN Visible(p)
                           ELSE [sum |-> Manifest[j][p], level |-> Level[j], scope |-> Scope[j]]
  <2>1. /\ object'[p] = IF p \in Candidates(j) /\ Decision(j, p) \in {"insert", "replace"}
                        THEN <<j, n, p>> ELSE object[p]
        /\ writer'[p] = IF p \in Candidates(j) /\ Decision(j, p) # "keep"
                        THEN j ELSE writer[p]
    BY <1>4, CommitWrites
  <2>2. p \in Candidates(j) <=> Manifest[j][p] # NoSum
    BY DEF Candidates
  <2>3. CASE p \notin Candidates(j)
    BY <2>1, <2>2, <2>3 DEF Visible, CurrentSum
  <2>4. CASE p \in Candidates(j) /\ Decision(j, p) \in {"insert", "replace"}
    <3>1. <<j, n, p>> # None
      BY <1>1, KeyFacts
    <3>2. object'[p] = <<j, n, p>> /\ writer'[p] = j
      BY <2>1, <2>4
    <3>3. object'[p][1] = j
      BY <3>2
    <3> QED
      BY <2>2, <2>4, <3>1, <3>2, <3>3 DEF Visible, CurrentSum
  <2>5. CASE p \in Candidates(j) /\ Decision(j, p) \notin {"insert", "replace"}
    <3>1. object[p] # None /\ CurrentSum(p) = Manifest[j][p]
      BY <2>5 DEF Decision
    <3>2. object'[p] = object[p] /\ CurrentSum(p)' = Manifest[j][p]
      BY <2>1, <2>5, <3>1 DEF CurrentSum
    <3>3. Level[writer'[p]] = Level[j] /\ Scope[writer'[p]] = Scope[j]
      BY <2>1, <2>5 DEF Decision
    <3> QED
      BY <2>2, <2>5, <3>1, <3>2, <3>3 DEF Visible
  <2> QED
    BY <2>3, <2>4, <2>5
<1>5. Current' = [p \in Parts |->
                    IF Manifest[j][p] = NoSum THEN Current[p]
                    ELSE [sum |-> Manifest[j][p], level |-> Level[j], scope |-> Scope[j]]]
  BY <1>4 DEF Current
<1> QED
  BY <1>3, <1>5 DEF Catalogue!PublishWhole, Current, Done

LEMMA RefinesStep ==
    Inductive /\ [Next]_vars => [Catalogue!CatalogueNext]_<<Current, Done>>
<1> SUFFICES ASSUME Inductive, [Next]_vars
             PROVE  Catalogue!CatalogueNext \/ UNCHANGED <<Current, Done>>
  OBVIOUS
<1>1. CASE UNCHANGED <<object, writer, publishedAt>>
  BY <1>1 DEF Current, Done, Visible, CurrentSum
<1>2. ASSUME NEW w \in Executions, Publish(w)
      PROVE  Catalogue!CatalogueNext
  <2>1. PICK j \in Jobs : wjob[w] = j
    BY <1>2, CommitWrites
  <2>2. Catalogue!PublishWhole(j)
    BY <1>2, <2>1, RefinesPublish
  <2> QED
    BY <2>1, <2>2 DEF Catalogue!CatalogueNext
<1> QED
  BY <1>1, <1>2, OnlyPublishWrites

(* The pipeline implements the catalogue its readers are promised: one     *)
(* step makes the whole of a source current, each source at most once, and *)
(* no lease, retry, crash or garbage collection shows.                     *)
THEOREM Refinement == Spec => ImplementsCatalogue
<1>1. Spec => [][Catalogue!CatalogueNext]_<<Current, Done>>
  BY RefinesStep, InductiveAlways, PTL DEF Spec
<1> QED
  BY <1>1, RefinesInit, PTL DEF Spec, ImplementsCatalogue, Catalogue!CatalogueSpec, Current, Done

-----------------------------------------------------------------------------
(* Action properties.                                                      *)

(* No source is published twice: an earlier attempt of a published job     *)
(* cannot commit any more, and a later one finds no source to publish.     *)
THEOREM NeverRepublished == Spec => PublishedOnce
<1>1. Inductive /\ [Next]_vars =>
         [\A j \in Jobs : publishedAt[j] # 0 => publishedAt'[j] = publishedAt[j]]_vars
  <2> SUFFICES ASSUME Inductive, [Next]_vars, NEW j \in Jobs, publishedAt[j] # 0
               PROVE  publishedAt'[j] = publishedAt[j]
    OBVIOUS
  <2>1. CASE UNCHANGED <<object, writer, publishedAt>>
    BY <2>1
  <2>2. ASSUME NEW w \in Executions, Publish(w)
        PROVE  publishedAt'[j] = publishedAt[j]
    <3>1. /\ wjob[w] \in Jobs /\ publishedAt[wjob[w]] = 0
          /\ publishedAt' = [publishedAt EXCEPT ![wjob[w]] = watt[w]]
      BY <2>2, CommitWrites
    <3>2. RowsOK
      BY TypeOKParts DEF Inductive
    <3> QED
      BY <3>1, <3>2 DEF RowsOK
  <2> QED
    BY <2>1, <2>2, OnlyPublishWrites
<1> QED
  BY <1>1, InductiveAlways, PTL DEF Spec, PublishedOnce

(* The executions that may move a job out of processing.                   *)
LEMMA Decides ==
    ASSUME Inductive, NEW w \in Executions, WorkerStep(w) \/ Crash(w),
           NEW j \in Jobs, jobStatus[j] = "processing", jobStatus'[j] # "processing"
    PROVE  Working(w) /\ wjob[w] = j /\ watt[w] = attempt[j] /\ pc'[w] # pc[w]
<1> USE DEF DatabaseVars, jobVars
<1>1. RowsOK /\ LocalsOK /\ LeaseFencing
  BY TypeOKParts DEF Inductive
<1>2. CASE Reject(w)
  <2>1. jobStatus' = [jobStatus EXCEPT ![wjob[w]] = IF @ = "processing" THEN "rejected" ELSE @]
    BY <1>2 DEF Reject
  <2>2. Working(w) /\ wjob[w] = j /\ watt[w] = attempt[wjob[w]]
    BY <1>1, <1>2, <2>1, LeaseFencingParts DEF Reject, RowsOK, LocksNewest, Working
  <2>3. PICK s : Goto(w, s) /\ s \in {"cleanSource", "fail"}
    BY <1>2 DEF Reject
  <2>4. pc'[w] = s
    BY <1>1, <2>3, MoveToEffect DEF Goto
  <2> QED
    BY <1>2, <2>2, <2>3, <2>4 DEF Reject
<1>3. CASE Publish(w)
  <2>1. jobStatus' = [jobStatus EXCEPT ![wjob[w]] = "published"]
    BY <1>3 DEF Publish, CommitPublication, MarkPublished
  <2>2. Working(w) /\ wjob[w] = j /\ watt[w] = attempt[wjob[w]]
    BY <1>1, <1>3, <2>1, LeaseFencingParts DEF Publish, RowsOK, LocksNewest, Working
  <2>3. PICK s, u, e : MoveTo(w, s, u, e) /\ s \in {"cleanSource", "readBack"}
    BY <1>3 DEF Publish, Goto, GotoWith
  <2>4. pc'[w] = s
    BY <1>1, <2>3, MoveToEffect
  <2> QED
    BY <1>3, <2>2, <2>3, <2>4 DEF Publish
<1>4. CASE Fail(w)
  <2>1. HeldLeaseAtSample(w)
    BY <1>4 DEF Fail
  <2>2. PICK status : jobStatus' = [jobStatus EXCEPT ![wjob[w]] = status]
    BY <1>4, <2>1 DEF Fail
  <2>3. Working(w) /\ wjob[w] = j /\ watt[w] = attempt[wjob[w]]
    BY <1>1, <1>4, <2>1, <2>2 DEF Fail, RowsOK, HeldLeaseAtSample, Working
  <2>4. PICK s : Goto(w, s) /\ s \in {"idle", "cleanTerminal"}
    BY <1>4 DEF Fail, AfterFail
  <2>5. pc'[w] = s
    BY <1>1, <2>4, MoveToEffect DEF Goto
  <2> QED
    BY <1>4, <2>3, <2>4, <2>5 DEF Fail
<1>5. CASE ~Reject(w) /\ ~Publish(w) /\ ~Fail(w)
  <2>1. UNCHANGED jobStatus \/ jobStatus' = [jobStatus EXCEPT ![wjob[w]] = "processing"]
    BY <1>5 DEF WorkerStep, Crash, ClaimWrite, ClaimMisses, Unusable, Download, Upload,
       UploadFails, BeginReject, CleanSource, BeginPublish, PublishThrows, ReadBack,
       Abandon, Complete, CleanTerminal
  <2> QED
    BY <1>1, <2>1 DEF RowsOK
<1> QED
  BY <1>2, <1>3, <1>4, <1>5

(* Whatever was overtaken decides nothing: a job leaves processing only by *)
(* the execution of its newest attempt.                                    *)
THEOREM OvertakenDecideNothing == Spec => NewestAttemptDecides
<1>1. Inductive /\ [Next]_vars =>
         [\A j \in Jobs :
            jobStatus[j] = "processing" /\ jobStatus'[j] # "processing" =>
              \E w \in Executions :
                 Working(w) /\ wjob[w] = j /\ watt[w] = attempt[j] /\ pc'[w] # pc[w]]_vars
  <2> SUFFICES ASSUME Inductive, [Next]_vars, NEW j \in Jobs,
                      jobStatus[j] = "processing", jobStatus'[j] # "processing"
               PROVE  \E w \in Executions :
                         Working(w) /\ wjob[w] = j /\ watt[w] = attempt[j] /\ pc'[w] # pc[w]
    OBVIOUS
  <2> USE DEF DatabaseVars, jobVars
  <2>1. RowsOK
    BY TypeOKParts DEF Inductive
  <2>2. ~ \E w \in Executions, i \in Jobs : ClaimRead(w, i)
    BY DEF ClaimRead
  <2>3. ~ \E i \in Jobs : LeaseLapses(i) \/ HeartbeatsFail(i) \/ RetryFallsDue(i) \/ Purge(i)
    BY <2>1 DEF LeaseLapses, HeartbeatsFail, RetryFallsDue, Purge, RowsOK
  <2>4. ~ (\E k \in garbage : GcPick(k)) /\ ~GcDelete /\ ~GcForget /\ ~UNCHANGED vars
    BY DEF GcPick, GcDelete, GcForget, vars
  <2>5. PICK w \in Executions : WorkerStep(w) \/ Crash(w)
    BY <2>2, <2>3, <2>4 DEF Next
  <2> QED
    BY <2>5, Decides
<1> QED
  BY <1>1, InductiveAlways, PTL DEF Spec, NewestAttemptDecides

-----------------------------------------------------------------------------
(* No replaced object is lost track of.                                    *)

(* A step that writes no catalogue row stores no object of a publication   *)
(* and forgets no key whose object is still there.                         *)
LEMMA TrackedStep ==
    ASSUME Inductive, [Next]_vars, UNCHANGED <<object, writer, publishedAt>>,
           NEW j \in Jobs, NEW p \in Parts, publishedAt[j] # 0
    PROVE  LET k == <<j, publishedAt[j], p>>
           IN  /\ k \in objects' => k \in objects
               /\ k \in garbage /\ k \in objects' => k \in garbage'
<1> DEFINE k == <<j, publishedAt[j], p>>
           Tracked == /\ k \in objects' => k \in objects
                      /\ k \in garbage /\ k \in objects' => k \in garbage'
<1> SUFFICES Tracked
  OBVIOUS
<1> USE DEF DatabaseVars, storeVars
<1>1. RowsOK /\ LocalsOK /\ LeaseFencing /\ StorageAccounting
  BY TypeOKParts DEF Inductive
<1>2. ASSUME NEW w \in Executions, NEW q \in Parts, pc[w] \in {"upload"},
             objects' \in {objects, objects \cup {<<wjob[w], watt[w], q>>}},
             garbage' = garbage
      PROVE  Tracked
  <2>1. publishedAt[wjob[w]] = 0 \/ watt[w] < publishedAt[wjob[w]]
    BY <1>1, <1>2 DEF LeaseFencing
  <2>2. k # <<wjob[w], watt[w], q>>
    BY <1>1, <2>1 DEF LocalsOK
  <2> QED
    BY <1>2, <2>2
<1>3. ASSUME NEW d, DeleteOrEnqueue(d) \/ DeleteOrEnqueueThrows(d)
      PROVE  Tracked
  BY <1>3 DEF DeleteOrEnqueue, DeleteOrEnqueueThrows
<1>4. ASSUME NEW w \in Executions, WorkerStep(w) \/ Crash(w)
      PROVE  Tracked
  <2>1. ASSUME NEW q \in Parts, Upload(w, q) \/ UploadFails(w, q)
        PROVE  Tracked
    <3>1. /\ pc[w] \in {"upload"} /\ garbage' = garbage
          /\ objects' \in {objects, objects \cup {<<wjob[w], watt[w], q>>}}
      BY <2>1 DEF Upload, UploadFails
    <3> QED
      BY <1>2, <3>1
  <2>2. CASE CleanSource(w) \/ CleanTerminal(w) \/ \E q \in Parts : Abandon(w, q)
    BY <1>3, <2>2 DEF CleanSource, CleanTerminal, Abandon
  <2>3. CASE Publish(w)
    <3>1. objects' = objects /\ garbage \subseteq garbage'
      BY <2>3, CommitWrites
    <3> QED
      BY <3>1
  <2>4. CASE \/ ClaimWrite(w) \/ ClaimMisses(w) \/ Unusable(w) \/ Download(w)
             \/ BeginReject(w) \/ Reject(w) \/ BeginPublish(w) \/ PublishThrows(w)
             \/ ReadBack(w) \/ Complete(w) \/ Fail(w) \/ Crash(w)
    <3>1. UNCHANGED <<objects, garbage>>
      BY <2>4 DEF ClaimWrite, ClaimMisses, Unusable, Download, BeginReject, Reject,
         BeginPublish, PublishThrows, ReadBack, Complete, Fail, Crash
    <3> QED
      BY <3>1
  <2> QED
    BY <1>4, <2>1, <2>2, <2>3, <2>4 DEF WorkerStep
<1>5. CASE GcForget
  <2>1. objects' = objects /\ gc \notin objects /\ garbage \ {gc} \subseteq garbage'
    BY <1>1, <1>5 DEF GcForget, StorageAccounting
  <2> QED
    BY <2>1
<1>6. CASE \/ \E w \in Executions, i \in Jobs : ClaimRead(w, i)
           \/ \E i \in Jobs : LeaseLapses(i) \/ HeartbeatsFail(i) \/ RetryFallsDue(i) \/ Purge(i)
           \/ \E d \in garbage : GcPick(d)
           \/ GcDelete \/ UNCHANGED vars
  <2>1. objects' \subseteq objects /\ garbage' = garbage
    BY <1>6 DEF ClaimRead, LeaseLapses, HeartbeatsFail, RetryFallsDue, Purge, GcPick, GcDelete, vars
  <2> QED
    BY <2>1
<1> QED
  BY <1>4, <1>5, <1>6 DEF Next

(* A commit enqueues what it replaces and the candidates it has no use for.*)
LEMMA TrackedPublish ==
    ASSUME Inductive, SupersededIsGarbage, NEW w \in Executions, Publish(w)
    PROVE  SupersededIsGarbage'
<1> DEFINE j == wjob[w]
           n == watt[w]
<1>1. /\ j \in Jobs /\ n \in Nat \ {0}
      /\ publishedAt' = [publishedAt EXCEPT ![j] = n]
      /\ garbage' = garbage \cup Retired(j, n)
      /\ objects' = objects
  BY CommitWrites
<1>2. \A p \in Parts :
         object'[p] = IF p \in Candidates(j) /\ Decision(j, p) \in {"insert", "replace"}
                      THEN <<j, n, p>> ELSE object[p]
  BY CommitWrites
<1>3. RowsOK
  BY TypeOKParts DEF Inductive
<1> SUFFICES ASSUME NEW i \in Jobs, NEW p \in Parts, publishedAt'[i] > 0,
                    p \in Candidates(i), <<i, publishedAt'[i], p>> \in objects
             PROVE  \/ <<i, publishedAt'[i], p>> = object'[p]
                    \/ <<i, publishedAt'[i], p>> \in garbage'
  BY <1>1 DEF SupersededIsGarbage
<1>4. CASE i = j
  <2>1. publishedAt'[i] = n
    BY <1>1, <1>3, <1>4 DEF RowsOK
  <2>2. CASE Decision(j, p) \in {"insert", "replace"}
    BY <1>2, <1>4, <2>1, <2>2
  <2>3. CASE Decision(j, p) \in {"keep", "update_metadata"}
    BY <1>1, <1>4, <2>1, <2>3 DEF Retired
  <2> QED
    BY <2>2, <2>3 DEF Decision
<1>5. CASE i # j
  <2>1. publishedAt'[i] = publishedAt[i]
    BY <1>1, <1>3, <1>5 DEF RowsOK
  <2>2. CASE <<i, publishedAt[i], p>> \in garbage
    BY <1>1, <2>1, <2>2
  <2>3. CASE <<i, publishedAt[i], p>> = object[p] /\ object'[p] = object[p]
    BY <2>1, <2>3
  <2>4. CASE /\ <<i, publishedAt[i], p>> = object[p]
             /\ p \in Candidates(j) /\ Decision(j, p) \in {"insert", "replace"}
    <3>1. object[p] # None
      BY <1>3, <2>4, KeyFacts DEF RowsOK
    <3>2. Decision(j, p) = "replace"
      BY <2>4, <3>1 DEF Decision
    <3> QED
      BY <1>1, <2>1, <2>4, <3>2 DEF Retired
  <2> QED
    BY <1>2, <2>1, <2>2, <2>3, <2>4 DEF SupersededIsGarbage
<1> QED
  BY <1>4, <1>5

(* Every object that was published and is not current any more stays in    *)
(* the garbage queue until it is gone from storage.                        *)
THEOREM SupersededIsTracked == Spec => []SupersededIsGarbage
<1>1. Init => SupersededIsGarbage
  BY DEF Init, SupersededIsGarbage
<1>2. Inductive /\ SupersededIsGarbage /\ [Next]_vars => SupersededIsGarbage'
  <2> SUFFICES ASSUME Inductive, SupersededIsGarbage, [Next]_vars
               PROVE  SupersededIsGarbage'
    OBVIOUS
  <2>1. CASE UNCHANGED <<object, writer, publishedAt>>
    <3> SUFFICES ASSUME NEW j \in Jobs, NEW p \in Parts, publishedAt[j] > 0,
                        p \in Candidates(j), <<j, publishedAt[j], p>> \in objects'
                 PROVE  \/ <<j, publishedAt[j], p>> = object[p]
                        \/ <<j, publishedAt[j], p>> \in garbage'
      BY <2>1 DEF SupersededIsGarbage
    <3>1. publishedAt[j] # 0
      BY TypeOKParts DEF Inductive, RowsOK
    <3>2. /\ <<j, publishedAt[j], p>> \in objects
          /\ <<j, publishedAt[j], p>> \in garbage => <<j, publishedAt[j], p>> \in garbage'
      BY <2>1, <3>1, TrackedStep
    <3> QED
      BY <3>2 DEF SupersededIsGarbage
  <2>2. CASE \E w \in Executions : Publish(w)
    BY <2>2, TrackedPublish
  <2> QED
    BY <2>1, <2>2, OnlyPublishWrites
<1> QED
  BY <1>1, <1>2, InductiveAlways, PTL DEF Spec
=============================================================================
