----------------------- MODULE PartitionDownloadProofs -----------------------
(***************************************************************************)
(* Proofs about PartitionDownload for any requests, partitions, executions *)
(* and faults: the types, with the bound on the attempts of a run; that a  *)
(* published package stays in storage until its request ends; and that the *)
(* operator's cleanup deletes the rows it was shown.                       *)
(***************************************************************************)
EXTENDS PartitionDownload, FiniteSetTheorems, TLAPS

(***************************************************************************)
(* Types, in parts.  The bounds on attempts are left to the invariant.     *)
(***************************************************************************)
Over == {"succeeded", "failed", "expired"}
Status == Active \cup Over \cup {"none"}
RunStatus == OpenRun \cup {"none", "succeeded", "failed"}
Steps == {"idle", "mark", "read", "register", "put", "publish", "retry", "failed"}

SourceTypes ==
    /\ part \in [Parts -> 0..MaxVersion]
    /\ sources \subseteq Parts \X (1..MaxVersion)
    /\ may \in [Requesters -> SUBSET Parts]
    /\ inventory \in [Parts -> 0..MaxVersion]
    /\ cleaned \subseteq Parts \X (1..MaxVersion)

PinnedTypes ==
    /\ manifest \in [Requests -> [Parts -> 0..MaxVersion]]
    /\ \A r \in Requests : Cardinality(Entries(r)) \in 0..MaxEntries
    /\ progress \in [Requests -> 0..MaxEntries]

RequestTypes ==
    /\ status \in [Requests -> Status]
    /\ artifact \in [Requests -> Nat]
    /\ past \in [Requests -> BOOLEAN]
    /\ run \in [Requests -> RunStatus]
    /\ attempt \in [Requests -> Nat]
    /\ live \in [Requests -> BOOLEAN]

StoreTypes ==
    /\ zips \subseteq ZipKeys /\ late \subseteq ZipKeys /\ links \subseteq ZipKeys
    /\ garbage \in [ZipKeys -> {"none", "candidate", "atExpiry", "due"}]
    /\ gc \in ZipKeys \cup {None}

WorkerTypes ==
    /\ pc \in [Executions -> Steps]
    /\ wreq \in [Executions -> Requests \cup {None}]
    /\ watt \in [Executions -> Nat]
    /\ done \in [Executions -> 0..MaxEntries]
    /\ \A w \in Executions : wreq[w] = None <=> pc[w] = "idle"

FaultType == faults \in 0..MaxFaults

Types == SourceTypes /\ PinnedTypes /\ RequestTypes /\ StoreTypes /\ WorkerTypes /\ FaultType

(***************************************************************************)
(* The inductive invariant.                                                *)
(***************************************************************************)

(* The lease of attempt n is held.                                         *)
Held(r, n) == run[r] = "running" /\ attempt[r] = n /\ live[r] /\ status[r] \in Active

(* Every attempt beyond the last retry is paid for by a fault, and a run   *)
(* that can be taken over, or will be once its lease lapses, has one left. *)
Budget(r) ==
    /\ attempt[r] <= MaxAttempts + faults
    /\ artifact[r] <= attempt[r]
    /\ status[r] = "none" => attempt[r] = 0
    /\ status[r] \in Active =>
         /\ run[r] = "queued" => attempt[r] = 0
         /\ run[r] = "retry_scheduled" => attempt[r] < MaxAttempts
         /\ run[r] = "running" /\ (~live[r] \/ ~Served(r)) => attempt[r] < MaxAttempts + faults

(* An execution that may publish has its package in storage.               *)
Building(w) ==
    IF pc[w] = "idle" THEN watt[w] = 0
    ELSE /\ watt[w] \in 1..attempt[wreq[w]]
         /\ pc[w] = "publish" /\ Held(wreq[w], watt[w]) => <<wreq[w], watt[w]>> \in zips

(* The garbage row of a package that was published is of a request that is *)
(* over.                                                                   *)
Listed(k) ==
    /\ garbage[k] # "none" => k[2] <= attempt[k[1]]
    /\ garbage[k] \in {"due", "atExpiry"} => status[k[1]] \in Over

(* What is about to be deleted belongs to an attempt that has lost its     *)
(* lease for good.                                                         *)
Collecting == gc # None => gc[2] <= attempt[gc[1]] /\ ~Held(gc[1], gc[2])

(* A package that is offered is in storage, and its row waits for the end  *)
(* of the request.                                                         *)
Offered(r) ==
    artifact[r] # 0 =>
      /\ status[r] = "succeeded"
      /\ ~past[r] => /\ <<r, artifact[r]>> \in zips
                     /\ garbage[<<r, artifact[r]>>] = "atExpiry"
                     /\ gc # <<r, artifact[r]>>

Linked(k) ==
    /\ status[k[1]] \in Over
    /\ status[k[1]] = "succeeded" => artifact[k[1]] = k[2]

Requested == \A r \in Requests : Budget(r) /\ Offered(r)
Working   == \A w \in Executions : Building(w)
Stored    == (\A k \in ZipKeys : Listed(k)) /\ Collecting
Inv == Types /\ Requested /\ Working /\ Stored /\ (\A k \in links : Linked(k))

\* The constants, and the parts of a ZIP's key.
LEMMA Limits ==
    /\ MaxAttempts \in Nat \ {0} /\ MaxVersion \in Nat \ {0}
    /\ MaxEntries \in Nat /\ MaxFaults \in Nat
    /\ \A r \in Requests : r # None
    /\ \A k \in ZipKeys : k # None /\ k[1] \in Requests /\ k[2] \in Nat \ {0} /\ k = <<k[1], k[2]>>
<1>1. /\ MaxAttempts \in Nat \ {0} /\ MaxVersion \in Nat \ {0}
      /\ MaxEntries \in Nat /\ MaxFaults \in Nat
      /\ \A r \in Requests : r # None
  BY ConstantsAssumption
<1>2. ASSUME NEW k \in ZipKeys
      PROVE  k # None /\ k[1] \in Requests /\ k[2] \in Nat \ {0} /\ k = <<k[1], k[2]>>
  <2>1. k \in Requests \X (Nat \ {0})
    BY <1>1 DEF ZipKeys
  <2>. QED  BY <2>1, ConstantsAssumption
<1>. QED  BY <1>1, <1>2

(* The invariant gives the types as the specification states them.         *)
LEMMA InvTypes == Inv => TypeOK
<1>. SUFFICES ASSUME Inv
              PROVE  TypeOK
  OBVIOUS
<1>1. ASSUME NEW r \in Requests
      PROVE  attempt[r] \in 0..(MaxAttempts + MaxFaults) /\ artifact[r] \in 0..(MaxAttempts + MaxFaults)
  <2>1. /\ attempt[r] \in Nat /\ artifact[r] \in Nat /\ faults \in 0..MaxFaults
        /\ attempt[r] <= MaxAttempts + faults /\ artifact[r] <= attempt[r]
    BY DEF Inv, Requested, Budget, Types, RequestTypes, FaultType
  <2>. QED  BY <2>1, Limits
<1>2. ASSUME NEW w \in Executions
      PROVE  watt[w] \in 0..(MaxAttempts + MaxFaults)
  <2>1. CASE pc[w] = "idle"
    <3>1. watt[w] = 0
      BY <2>1 DEF Inv, Working, Building
    <3>. QED  BY <3>1, Limits
  <2>2. CASE pc[w] # "idle"
    <3>1. wreq[w] \in Requests /\ watt[w] \in 1..attempt[wreq[w]]
      BY <2>2 DEF Inv, Working, Building, Types, WorkerTypes
    <3>2. attempt[wreq[w]] \in 0..(MaxAttempts + MaxFaults)
      BY <1>1, <3>1
    <3>. QED  BY <3>1, <3>2, Limits
  <2>. QED  BY <2>1, <2>2
<1>3. /\ attempt \in [Requests -> 0..(MaxAttempts + MaxFaults)]
      /\ artifact \in [Requests -> 0..(MaxAttempts + MaxFaults)]
      /\ watt \in [Executions -> 0..(MaxAttempts + MaxFaults)]
  BY <1>1, <1>2 DEF Inv, Types, RequestTypes, WorkerTypes
<1>4. /\ status \in [Requests -> Active \cup {"none", "succeeded", "failed", "expired"}]
      /\ run \in [Requests -> OpenRun \cup {"none", "succeeded", "failed"}]
  BY DEF Inv, Types, RequestTypes, Status, RunStatus, Over
<1>. QED
  BY <1>3, <1>4 DEF TypeOK, Inv, Types, SourceTypes, PinnedTypes, RequestTypes, StoreTypes, WorkerTypes,
                    FaultType, Steps

(***************************************************************************)
(* Steps that leave the requests, their runs and the garbage rows alone.   *)
(***************************************************************************)

(* An execution does not move, goes on with its request, or lets it go.    *)
Stays(w) == UNCHANGED <<pc[w], wreq[w], watt[w]>>
GoesOn(w) ==
    /\ pc[w] # "idle" /\ pc'[w] # "idle"
    /\ UNCHANGED <<wreq[w], watt[w]>>
    /\ pc'[w] = "publish" => pc[w] = "publish" \/ <<wreq[w], watt[w]>> \in zips'
LetsGo(w) == pc[w] # "idle" /\ pc'[w] = "idle" /\ watt'[w] = 0

(* A run that an execution lets go while the lease is its own has a fault  *)
(* to show for it.                                                         *)
PaysFor(w) ==
    LET r == wreq[w] IN
    run[r] = "running" /\ attempt[r] = watt[w] /\ status[r] \in Active
      => attempt[r] < MaxAttempts + faults'

(* Serving goes on while the execution has the request.                    *)
LEMMA ServedNext ==
    ASSUME NEW r \in Requests, attempt'[r] = attempt[r], WorkerTypes,
           \A w \in Executions : Stays(w) \/ GoesOn(w) \/ (LetsGo(w) /\ PaysFor(w)),
           run[r] = "running", status[r] \in Active, Served(r), ~Served(r)'
    PROVE  attempt[r] < MaxAttempts + faults'
<1>1. PICK w \in Executions : wreq[w] = r /\ watt[w] = attempt[r]
  BY DEF Served
<1>2. ~(wreq'[w] = r /\ watt'[w] = attempt'[r])
  BY DEF Served
<1>3. LetsGo(w) /\ PaysFor(w)
  BY <1>1, <1>2 DEF Stays, GoesOn
<1>. QED  BY <1>1, <1>3 DEF PaysFor

\* Requests are as good as they were when their rows stay and whoever lets one go pays
\* for it with a fault.
LEMMA RequestsKept ==
    ASSUME Types, Requested, UNCHANGED <<status, artifact, run, attempt, live, garbage>>,
           \A r \in Requests : past[r] => past'[r],
           zips \subseteq zips', UNCHANGED gc, faults' \in Nat, faults <= faults',
           \A w \in Executions : Stays(w) \/ GoesOn(w) \/ (LetsGo(w) /\ PaysFor(w))
    PROVE  Requested'
<1>. SUFFICES ASSUME NEW r \in Requests
              PROVE  Budget(r)' /\ Offered(r)'
  BY DEF Requested
<1>1. Budget(r) /\ Offered(r) /\ attempt[r] \in Nat /\ faults \in Nat
  BY Limits DEF Requested, Types, RequestTypes, FaultType
<1>2. Offered(r)'
  BY <1>1 DEF Offered
<1>3. status[r] \in Active /\ run[r] = "running" /\ (~live[r] \/ ~Served(r)')
        => attempt[r] < MaxAttempts + faults'
  <2>1. CASE Served(r) /\ ~Served(r)'
    BY <2>1, ServedNext DEF Types
  <2>2. CASE ~(Served(r) /\ ~Served(r)')
    BY <1>1, <2>2, Limits DEF Budget
  <2>. QED  BY <2>1, <2>2
<1>4. Budget(r)'
  BY <1>1, <1>3, Limits DEF Budget
<1>. QED  BY <1>2, <1>4

\* Executions that stay, go on or let go still hold what they hold.
LEMMA WorkKept ==
    ASSUME Types, Working, UNCHANGED <<status, run, attempt, live>>, zips \subseteq zips',
           \A w \in Executions : Stays(w) \/ GoesOn(w) \/ LetsGo(w)
    PROVE  Working'
<1>. SUFFICES ASSUME NEW w \in Executions
              PROVE  Building(w)'
  BY DEF Working
<1>1. Building(w)
  BY DEF Working
<1>2. CASE Stays(w)
  BY <1>1, <1>2 DEF Stays, Building, Held
<1>3. CASE GoesOn(w)
  BY <1>1, <1>3 DEF GoesOn, Building, Held
<1>4. CASE LetsGo(w)
  BY <1>4 DEF LetsGo, Building
<1>. QED  BY <1>2, <1>3, <1>4

(* The rows of a request are left alone: what is stored may grow.          *)
LEMMA Quiet ==
    ASSUME Inv, Types', UNCHANGED <<status, artifact, run, attempt, live, garbage, gc>>,
           \A r \in Requests : past[r] => past'[r],
           \A k \in links' : k \in links \/ Linked(k),
           zips \subseteq zips', faults <= faults',
           \A w \in Executions : Stays(w) \/ GoesOn(w) \/ (LetsGo(w) /\ PaysFor(w))
    PROVE  Inv'
<1>1. Requested'
  BY RequestsKept, Limits DEF Inv, Types, FaultType
<1>2. Working'
  BY WorkKept DEF Inv
<1>3. Stored' /\ \A k \in links' : Linked(k)'
  BY DEF Inv, Stored, Listed, Collecting, Held, Linked
<1>. QED  BY <1>1, <1>2, <1>3 DEF Inv
(***************************************************************************)
(* Steps that write the rows of requests.                                  *)
(***************************************************************************)

(* Requests end: terminate.                                                *)
LEMMA Ended ==
    ASSUME Inv, Types', NEW rs \in SUBSET Requests, NEW s \in {"failed", "expired"}, Terminated(rs, s),
           \A r \in rs : status[r] # "none",
           UNCHANGED <<past, attempt, zips, gc, links, faults>>,
           \A w \in Executions :
              Stays(w) \/ (LetsGo(w) /\ (wreq[w] \in rs \/ PaysFor(w)))
    PROVE  Inv'
<1>0. /\ \A r \in Requests : IF r \in rs THEN status'[r] = s /\ artifact'[r] = 0 /\ ~live'[r]
                             ELSE /\ status'[r] = status[r] /\ artifact'[r] = artifact[r]
                                  /\ run'[r] = run[r] /\ live'[r] = live[r]
      /\ \A k \in ZipKeys : garbage'[k] = IF k[1] \in rs /\ artifact[k[1]] = k[2] THEN "due" ELSE garbage[k]
  BY DEF Terminated, Inv, Types, RequestTypes
<1>1. s \notin Active /\ s \in Over /\ s # "succeeded"
  BY DEF Active, Over
<1>2. ASSUME NEW r \in Requests
      PROVE  Budget(r)' /\ Offered(r)'
  <2>1. Budget(r) /\ Offered(r) /\ attempt[r] \in Nat /\ faults \in Nat /\ 0 <= attempt[r]
    BY Limits DEF Inv, Requested, Types, RequestTypes, FaultType
  <2>2. CASE r \in rs
    BY <1>0, <1>1, <2>1, <2>2 DEF Budget, Offered
  <2>3. CASE r \notin rs
    <3>1. Offered(r)'
      <4>1. ASSUME artifact[r] # 0, ~past[r]
            PROVE  garbage'[<<r, artifact[r]>>] = "atExpiry"
        <5>1. <<r, artifact[r]>> \in ZipKeys
          BY <2>1, <4>1 DEF Offered, Inv, Types, StoreTypes
        <5>. QED  BY <1>0, <2>1, <2>3, <4>1, <5>1 DEF Offered
      <4>. QED  BY <1>0, <2>1, <2>3, <4>1 DEF Offered
    <3>2. ASSUME status[r] \in Active, run[r] = "running", Served(r), ~Served(r)'
          PROVE  attempt[r] < MaxAttempts + faults
      <4>1. PICK w \in Executions : wreq[w] = r /\ watt[w] = attempt[r]
        BY <3>2 DEF Served
      <4>2. ~(wreq'[w] = r /\ watt'[w] = attempt'[r])
        BY <3>2 DEF Served
      <4>3. LetsGo(w) /\ PaysFor(w)
        BY <2>3, <4>1, <4>2 DEF Stays
      <4>. QED  BY <3>2, <4>1, <4>3 DEF PaysFor
    <3>3. Budget(r)'
      BY <1>0, <2>1, <2>3, <3>2 DEF Budget
    <3>. QED  BY <3>1, <3>3
  <2>. QED  BY <2>2, <2>3
<1>4. ASSUME NEW w \in Executions
      PROVE  Building(w)'
  <2>1. Building(w) /\ (pc[w] # "idle" => wreq[w] \in Requests)
    BY DEF Inv, Working, Types, WorkerTypes
  <2>2. CASE Stays(w)
    <3>1. CASE pc[w] = "idle"
      BY <2>1, <2>2, <3>1 DEF Stays, Building
    <3>2. CASE pc[w] # "idle"
      <4>1. Held(wreq[w], watt[w])' => Held(wreq[w], watt[w])
        BY <1>0, <1>1, <2>1, <2>2, <3>2 DEF Held, Stays
      <4>. QED  BY <2>1, <2>2, <3>2, <4>1 DEF Stays, Building
    <3>. QED  BY <3>1, <3>2
  <2>3. CASE LetsGo(w)
    BY <2>3 DEF LetsGo, Building
  <2>. QED  BY <2>2, <2>3
<1>5. ASSUME NEW k \in ZipKeys
      PROVE  Listed(k)'
  <2>1. Listed(k) /\ k[1] \in Requests /\ artifact[k[1]] <= attempt[k[1]]
    BY Limits DEF Inv, Stored, Requested, Budget
  <2>. QED  BY <1>0, <1>1, <2>1 DEF Listed
<1>6. Collecting'
  <2>. SUFFICES ASSUME gc # None
                PROVE  gc[2] <= attempt'[gc[1]] /\ ~Held(gc[1], gc[2])'
    BY DEF Collecting
  <2>1. gc[2] <= attempt[gc[1]] /\ ~Held(gc[1], gc[2]) /\ gc[1] \in Requests
    BY Limits DEF Inv, Stored, Collecting, Types, StoreTypes
  <2>2. Held(gc[1], gc[2])' => Held(gc[1], gc[2])
    BY <1>0, <1>1, <2>1 DEF Held
  <2>. QED  BY <2>1, <2>2
<1>7. ASSUME NEW k \in links
      PROVE  Linked(k)'
  <2>1. Linked(k) /\ k[1] \in Requests
    BY Limits DEF Inv, Types, StoreTypes
  <2>. QED  BY <1>0, <1>1, <2>1 DEF Linked
<1>. QED  BY <1>2, <1>4, <1>5, <1>6, <1>7 DEF Inv, Requested, Working, Stored
(* One request is written: it is enough to look at that one.               *)
Others(r) ==
    /\ \A q \in Requests \ {r} :
         /\ UNCHANGED <<status[q], artifact[q], run[q], attempt[q], live[q]>>
    /\ \A k \in ZipKeys : k[1] # r => garbage'[k] = garbage[k]
    /\ UNCHANGED <<past, zips, gc, links>>

(* An execution takes the request up.                                      *)
TakesUp(w, r) ==
    /\ pc[w] = "idle" /\ pc'[w] = "mark"
    /\ wreq'[w] = r /\ watt'[w] = attempt[r] + 1 /\ attempt'[r] = attempt[r] + 1

\* The steps that write one request: what is left to show is about that request.
LEMMA RowWritten ==
    ASSUME Inv, Types', NEW r \in Requests, Others(r), faults <= faults',
           \A w \in Executions : \/ Stays(w) \/ GoesOn(w) \/ TakesUp(w, r)
                                 \/ LetsGo(w) /\ (wreq[w] = r \/ PaysFor(w)),
           Budget(r)', Offered(r)', attempt[r] <= attempt'[r],
           \A n \in Nat : Held(r, n)' => Held(r, n) \/ n = attempt[r] + 1,
           \A k \in ZipKeys : k[1] = r => Listed(k)',
           \A k \in links : k[1] = r => Linked(k)'
    PROVE  Inv'
<1>t. /\ attempt \in [Requests -> Nat] /\ attempt' \in [Requests -> Nat]
      /\ faults \in Nat /\ faults' \in Nat
  BY Limits DEF Inv, Types, RequestTypes, FaultType
<1>1. ASSUME NEW q \in Requests
      PROVE  Budget(q)' /\ Offered(q)'
  <2>1. CASE q = r
    BY <2>1
  <2>2. CASE q # r
    <3>0. /\ Budget(q) /\ Offered(q)
          /\ UNCHANGED <<status[q], artifact[q], run[q], attempt[q], live[q]>>
      BY <2>2 DEF Inv, Requested, Others
    <3>1. Offered(q)'
      <4>1. ASSUME artifact[q] # 0, ~past[q]
            PROVE  garbage'[<<q, artifact[q]>>] = garbage[<<q, artifact[q]>>]
        <5>1. <<q, artifact[q]>> \in ZipKeys
          BY <3>0, <4>1 DEF Offered, Inv, Types, StoreTypes
        <5>. QED  BY <2>2, <5>1 DEF Others
      <4>. QED  BY <3>0, <4>1 DEF Offered, Others
    <3>2. ASSUME status[q] \in Active, run[q] = "running", Served(q), ~Served(q)'
          PROVE  attempt[q] < MaxAttempts + faults'
      <4>1. PICK w \in Executions : wreq[w] = q /\ watt[w] = attempt[q]
        BY <3>2 DEF Served
      <4>2. ~(wreq'[w] = q /\ watt'[w] = attempt'[q])
        BY <3>2 DEF Served
      <4>3. pc[w] # "idle"
        BY <4>1, Limits DEF Inv, Types, WorkerTypes
      <4>4. LetsGo(w) /\ PaysFor(w)
        BY <2>2, <3>0, <4>1, <4>2, <4>3 DEF Stays, GoesOn, TakesUp
      <4>. QED  BY <3>2, <4>1, <4>4 DEF PaysFor
    <3>3. Budget(q)'
      BY <1>t, <3>0, <3>2, Limits DEF Budget
    <3>. QED  BY <3>1, <3>3
  <2>. QED  BY <2>1, <2>2
<1>2. ASSUME NEW q \in Requests, NEW n \in Nat, n <= attempt[q], Held(q, n)'
      PROVE  Held(q, n)
  <2>1. CASE q = r
    BY <1>2, <1>t, <2>1
  <2>2. CASE q # r
    BY <1>2, <2>2 DEF Held, Others
  <2>. QED  BY <2>1, <2>2
<1>3. \A q \in Requests : attempt[q] <= attempt'[q]
  BY <1>t DEF Others
<1>4. ASSUME NEW w \in Executions
      PROVE  Building(w)'
  <2>0. Building(w) /\ (pc[w] # "idle" => wreq[w] \in Requests) /\ watt[w] \in Nat
    BY DEF Inv, Working, Types, WorkerTypes
  <2>1. CASE LetsGo(w)
    BY <2>1 DEF LetsGo, Building
  <2>2. CASE TakesUp(w, r)
    BY <1>t, <2>2 DEF TakesUp, Building
  <2>3. CASE (Stays(w) \/ GoesOn(w)) /\ pc[w] # "idle"
    <3>1. /\ pc'[w] # "idle" /\ wreq'[w] = wreq[w] /\ watt'[w] = watt[w]
          /\ watt[w] \in 1..attempt[wreq[w]] /\ wreq[w] \in Requests
      BY <2>0, <2>3 DEF Stays, GoesOn, Building
    <3>2. watt[w] \in 1..attempt'[wreq[w]]
      BY <1>t, <1>3, <3>1
    <3>3. Held(wreq[w], watt[w])' => Held(wreq[w], watt[w])
      <4>1. ASSUME NEW q \in Requests, NEW n \in Nat, q = wreq[w], n = watt[w]
            PROVE  Held(wreq[w], watt[w])' => Held(q, n)'
        BY <3>1, <4>1 DEF Held
      <4>2. watt[w] <= attempt[wreq[w]]
        BY <1>t, <3>1
      <4>. QED  BY <1>2, <2>0, <3>1, <4>1, <4>2
    <3>4. pc'[w] = "publish" /\ Held(wreq[w], watt[w])' => <<wreq[w], watt[w]>> \in zips'
      BY <2>0, <2>3, <3>3 DEF Building, Stays, GoesOn, Others
    <3>. QED  BY <3>1, <3>2, <3>4 DEF Building, Held
  <2>4. CASE Stays(w) /\ pc[w] = "idle"
    BY <2>0, <2>4 DEF Stays, Building
  <2>. QED  BY <2>1, <2>2, <2>3, <2>4 DEF GoesOn
<1>5. ASSUME NEW k \in ZipKeys
      PROVE  Listed(k)'
  <2>1. CASE k[1] = r
    BY <2>1
  <2>2. CASE k[1] # r
    <3>1. Listed(k) /\ k[1] \in Requests
      BY Limits DEF Inv, Stored
    <3>. QED  BY <2>2, <3>1 DEF Listed, Others
  <2>. QED  BY <2>1, <2>2
<1>6. Collecting'
  <2>. SUFFICES ASSUME gc # None
                PROVE  gc[2] <= attempt'[gc[1]] /\ ~Held(gc[1], gc[2])'
    BY DEF Collecting, Others
  <2>1. gc[2] <= attempt[gc[1]] /\ ~Held(gc[1], gc[2]) /\ gc[1] \in Requests /\ gc[2] \in Nat
    BY Limits DEF Inv, Stored, Collecting, Types, StoreTypes
  <2>2. gc' = gc
    BY DEF Others
  <2>3. ASSUME NEW q \in Requests, NEW n \in Nat, q = gc[1], n = gc[2]
        PROVE  Held(gc[1], gc[2])' <=> Held(q, n)'
    BY <2>2, <2>3 DEF Held
  <2>4. ~Held(gc[1], gc[2])'
    BY <1>2, <2>1, <2>3
  <2>. QED  BY <1>3, <1>t, <2>1, <2>4
<1>7. ASSUME NEW k \in links
      PROVE  Linked(k)'
  <2>1. CASE k[1] = r
    BY <2>1
  <2>2. CASE k[1] # r
    <3>1. Linked(k) /\ k[1] \in Requests
      BY Limits DEF Inv, Types, StoreTypes
    <3>. QED  BY <2>2, <3>1 DEF Linked, Others
  <2>. QED  BY <2>1, <2>2
<1>. QED  BY <1>1, <1>4, <1>5, <1>6, <1>7 DEF Inv, Requested, Working, Stored, Others
(***************************************************************************)
(* The actions.                                                            *)
(***************************************************************************)
LEMMA SourcesSame ==
    ASSUME SourceTypes, UNCHANGED <<part, sources, may, inventory, cleaned>>
    PROVE  SourceTypes'
BY DEF SourceTypes

\* Groups of variables that a step leaves alone keep their types.
LEMMA PinnedSame ==
    ASSUME PinnedTypes, UNCHANGED <<manifest, progress>>
    PROVE  PinnedTypes'
BY DEF PinnedTypes, Entries

LEMMA RequestsSame ==
    ASSUME RequestTypes, UNCHANGED <<status, artifact, past, run, attempt, live>>
    PROVE  RequestTypes'
BY DEF RequestTypes

LEMMA StoreSame ==
    ASSUME StoreTypes, UNCHANGED <<zips, late, links, garbage, gc>>
    PROVE  StoreTypes'
BY DEF StoreTypes

LEMMA WorkersSame ==
    ASSUME WorkerTypes, UNCHANGED <<pc, wreq, watt, done>>
    PROVE  WorkerTypes' /\ \A w \in Executions : Stays(w)
BY DEF WorkerTypes, Stays

\* Faults are counted.
LEMMA FaultCounted ==
    ASSUME FaultType, UNCHANGED faults \/ \E kinds : Fault(kinds)
    PROVE  /\ FaultType'
           /\ faults <= faults'
           /\ (\E kinds : Fault(kinds)) => faults' = faults + 1
BY Limits DEF FaultType, Fault

\* An execution that moves on keeps its request, or lets it go when it ends.
LEMMA GotoMoves ==
    ASSUME WorkerTypes, NEW w \in Executions, NEW s \in Steps, Goto(w, s), pc[w] # "idle"
    PROVE  /\ WorkerTypes'
           /\ \A v \in Executions \ {w} : Stays(v)
           /\ s = "idle" => LetsGo(w)
           /\ s # "idle" => pc'[w] = s /\ UNCHANGED <<wreq[w], watt[w]>>
           /\ s \notin {"idle", "publish"} => GoesOn(w)
<1>1. WorkerTypes'
  <2>1. pc' \in [Executions -> Steps] /\ wreq' \in [Executions -> Requests \cup {None}]
    BY DEF WorkerTypes, Goto
  <2>2. watt' \in [Executions -> Nat]
    BY DEF WorkerTypes, Goto
  <2>3. done' \in [Executions -> 0..MaxEntries]
    BY Limits DEF WorkerTypes, Goto
  <2>4. \A v \in Executions : wreq'[v] = None <=> pc'[v] = "idle"
    BY DEF WorkerTypes, Goto
  <2>. QED  BY <2>1, <2>2, <2>3, <2>4 DEF WorkerTypes
<1>2. /\ \A v \in Executions \ {w} : Stays(v)
      /\ s = "idle" => LetsGo(w)
      /\ s # "idle" => pc'[w] = s /\ UNCHANGED <<wreq[w], watt[w]>>
      /\ s \notin {"idle", "publish"} => GoesOn(w)
  BY DEF WorkerTypes, Goto, Stays, LetsGo, GoesOn
<1>. QED  BY <1>1, <1>2

\* Ending requests changes only their columns.
LEMMA TerminatedTypes ==
    ASSUME RequestTypes, StoreTypes, NEW rs, NEW s \in {"failed", "expired"}, Terminated(rs, s),
           UNCHANGED <<past, attempt, zips, late, links, gc>>
    PROVE  RequestTypes' /\ StoreTypes'
<1>1. /\ status' \in [Requests -> Status]
      /\ run' \in [Requests -> RunStatus]
  BY DEF Terminated, RequestTypes, Status, Over, RunStatus
<1>2. artifact' \in [Requests -> Nat]
  BY DEF Terminated, RequestTypes
<1>3. live' \in [Requests -> BOOLEAN]
  BY DEF Terminated, RequestTypes
<1>4. garbage' \in [ZipKeys -> {"none", "candidate", "atExpiry", "due"}]
  BY DEF Terminated, StoreTypes
<1>. QED  BY <1>1, <1>2, <1>3, <1>4 DEF RequestTypes, StoreTypes

(* Time, access and the sources change around the requests.                *)
LEMMA AroundStep ==
    ASSUME Inv,
           \/ \E p \in Parts : Republish(p)
           \/ \E x \in sources : SourceCollected(x[1], x[2])
           \/ \E e \in Requesters, ps \in SUBSET Parts : AccessChanges(e, ps)
           \/ BuildInventory
    PROVE  Inv'
<1>0. /\ UNCHANGED <<requestVars, runVars, storeVars, workerVars, gc, links, faults>>
  BY DEF Republish, SourceCollected, AccessChanges, BuildInventory
<1>. USE DEF requestVars, runVars, storeVars, workerVars
<1>1. SourceTypes'
  <2>0. SourceTypes
    BY DEF Inv, Types
  <2>1. ASSUME NEW p \in Parts, Republish(p)
        PROVE  SourceTypes'
    <3>1. PICK latest \in {part[p]} \cup {v \in 1..MaxVersion : <<p, v>> \in cleaned} :
             /\ latest < MaxVersion
             /\ part' = [part EXCEPT ![p] = latest + 1]
             /\ sources' = sources \cup {<<p, latest + 1>>}
      BY <2>1 DEF Republish
    <3>2. latest + 1 \in 1..MaxVersion
      BY <2>0, <3>1, Limits DEF SourceTypes
    <3>3. /\ part' \in [Parts -> 0..MaxVersion]
          /\ sources' \subseteq Parts \X (1..MaxVersion)
      BY <2>0, <3>1, <3>2 DEF SourceTypes
    <3>. QED  BY <2>0, <2>1, <3>3 DEF SourceTypes, Republish, opsVars
  <2>2. ASSUME NEW x \in sources, SourceCollected(x[1], x[2])
        PROVE  SourceTypes'
    BY <2>0, <2>2 DEF SourceTypes, SourceCollected, opsVars
  <2>3. ASSUME NEW e \in Requesters, NEW ps \in SUBSET Parts, AccessChanges(e, ps)
        PROVE  SourceTypes'
    BY <2>0, <2>3 DEF SourceTypes, AccessChanges, sourceVars, opsVars
  <2>4. CASE BuildInventory
    <3>1. inventory' \in [Parts -> 0..MaxVersion]
      BY <2>0, <2>4, Limits DEF SourceTypes, BuildInventory, Targets
    <3>. QED  BY <2>0, <2>4, <3>1 DEF SourceTypes, BuildInventory, sourceVars
  <2>. QED  BY <2>1, <2>2, <2>3, <2>4
<1>2. Types' /\ \A w \in Executions : Stays(w)
  BY <1>0, <1>1, PinnedSame, RequestsSame, StoreSame, WorkersSame, FaultCounted DEF Inv, Types
<1>. QED  BY <1>0, <1>2, Quiet, FaultCounted DEF Inv, Types

LEMMA ElapsesStep ==
    ASSUME Inv, NEW r \in Requests, Elapses(r)
    PROVE  Inv'
<1>. USE DEF Elapses, sourceVars, runVars, storeVars, workerVars, opsVars
<1>1. RequestTypes' /\ \A q \in Requests : past[q] => past'[q]
  BY DEF Inv, Types, RequestTypes
<1>2. Types' /\ \A w \in Executions : Stays(w)
  BY <1>1, SourcesSame, PinnedSame, StoreSame, WorkersSame, FaultCounted DEF Inv, Types
<1>. QED  BY <1>1, <1>2, Quiet, FaultCounted DEF Inv, Types

LEMMA ExpireStep ==
    ASSUME Inv, NEW r \in Requests, Expire(r)
    PROVE  Inv'
<1>. USE DEF Expire, sourceVars, workerVars, opsVars
<1>1. Types' /\ \A w \in Executions : Stays(w)
  BY SourcesSame, PinnedSame, TerminatedTypes, WorkersSame, FaultCounted DEF Inv, Types
<1>2. {r} \in SUBSET Requests /\ \A q \in {r} : status[q] # "none"
  BY DEF MustExpire
<1>. QED  BY <1>1, <1>2, Ended

(* The cleanup ends every request with a row it deletes.                   *)
LEMMA CleanupStep ==
    ASSUME Inv, ExecuteCleanup
    PROVE  Inv'
<1>. USE DEF ExecuteCleanup, workerVars
<1>0. Types
  BY DEF Inv
<1>1. SourceTypes'
  <2>1. part' \in [Parts -> 0..MaxVersion] /\ inventory' \in [Parts -> 0..MaxVersion]
    BY <1>0, Limits DEF Types, SourceTypes, NoEntries
  <2>2. \A p \in Parts : Targets[p] # 0 => Targets[p] \in 1..MaxVersion
    BY <1>0, Limits DEF Types, SourceTypes, Targets
  <2>3. cleaned' \subseteq Parts \X (1..MaxVersion)
    BY <2>2
  <2>. QED  BY <1>0, <2>1, <2>3 DEF Types, SourceTypes
<1>2. Types' /\ \A w \in Executions : Stays(w)
  BY <1>0, <1>1, PinnedSame, TerminatedTypes, WorkersSame, FaultCounted DEF Types
<1>3. Affected \in SUBSET Requests /\ \A q \in Affected : status[q] # "none"
  BY DEF Affected
<1>. QED  BY <1>2, <1>3, Ended

(* The locals of an execution at work name a package of its own.           *)
LEMMA OwnKey ==
    ASSUME Inv, NEW w \in Executions, pc[w] # "idle"
    PROVE  /\ wreq[w] \in Requests
           /\ watt[w] \in 1..attempt[wreq[w]]
           /\ watt[w] \in Nat /\ attempt[wreq[w]] \in Nat
           /\ <<wreq[w], watt[w]>> \in ZipKeys
<1>1. wreq[w] \in Requests /\ watt[w] \in 1..attempt[wreq[w]]
  BY DEF Inv, Working, Building, Types, WorkerTypes
<1>2. /\ attempt[wreq[w]] \in Nat /\ faults \in 0..MaxFaults
      /\ attempt[wreq[w]] <= MaxAttempts + faults
  BY <1>1 DEF Inv, Types, RequestTypes, FaultType, Requested, Budget
<1>3. watt[w] \in Nat /\ watt[w] \in 1..(MaxAttempts + MaxFaults)
  BY <1>1, <1>2, Limits
<1>. QED  BY <1>1, <1>2, <1>3 DEF ZipKeys

(* A link is signed for the package the request offers.                    *)
LEMMA LinkStep ==
    ASSUME Inv, NEW r \in Requests, IssueLink(r)
    PROVE  Inv'
<1>. USE DEF IssueLink, sourceVars, requestVars, runVars, storeVars, workerVars, opsVars
<1>1. <<r, artifact[r]>> \in ZipKeys
  <2>1. /\ artifact[r] \in Nat /\ attempt[r] \in Nat /\ faults \in 0..MaxFaults
        /\ artifact[r] <= attempt[r] /\ attempt[r] <= MaxAttempts + faults
    BY DEF Inv, Types, RequestTypes, FaultType, Requested, Budget
  <2>2. artifact[r] \in 1..(MaxAttempts + MaxFaults)
    BY <2>1, Limits
  <2>. QED  BY <2>2 DEF ZipKeys
<1>2. Linked(<<r, artifact[r]>>)
  BY DEF Linked, Over
<1>3. StoreTypes'
  BY <1>1 DEF Inv, Types, StoreTypes
<1>4. Types' /\ \A w \in Executions : Stays(w)
  BY <1>3, SourcesSame, PinnedSame, RequestsSame, WorkersSame, FaultCounted DEF Inv, Types
<1>. QED  BY <1>2, <1>4, Quiet, FaultCounted DEF Inv, Types

(* A write that was given up lands.                                        *)
LEMMA LateStep ==
    ASSUME Inv, NEW k \in ZipKeys, LateWrite(k)
    PROVE  Inv'
<1>. USE DEF LateWrite, sourceVars, requestVars, runVars, workerVars, opsVars
<1>1. StoreTypes'
  BY DEF Inv, Types, StoreTypes
<1>2. Types' /\ \A w \in Executions : Stays(w)
  BY <1>1, SourcesSame, PinnedSame, RequestsSame, WorkersSame, FaultCounted DEF Inv, Types
<1>. QED  BY <1>2, Quiet, FaultCounted DEF Inv, Types

(* One entry is read; the progress stays within the manifest.              *)
LEMMA ReadStep ==
    ASSUME Inv, NEW w \in Executions, ReadEntry(w)
    PROVE  Inv'
<1>. USE DEF ReadEntry, Fenced, At, sourceVars, runVars, storeVars, opsVars
<1>0. pc[w] = "read" /\ wreq[w] \in Requests
  BY OwnKey
<1>1. done[w] + 1 \in 0..MaxEntries
  <2>1. /\ done[w] \in 0..MaxEntries /\ Cardinality(Entries(wreq[w])) \in 0..MaxEntries
        /\ done[w] + 1 <= Cardinality(Entries(wreq[w]))
    BY <1>0 DEF Inv, Types, WorkerTypes, PinnedTypes
  <2>. QED  BY <2>1, Limits
<1>2. PinnedTypes'
  <2>1. progress' \in [Requests -> 0..MaxEntries]
    BY <1>0, <1>1 DEF Inv, Types, PinnedTypes
  <2>. QED  BY <2>1 DEF Inv, Types, PinnedTypes, Entries
<1>3. pc' \in [Executions -> Steps] /\ pc'[w] \in {"read", "register"}
  BY <1>0 DEF Inv, Types, WorkerTypes, Steps
<1>4. WorkerTypes'
  <2>1. done' \in [Executions -> 0..MaxEntries]
    BY <1>1 DEF Inv, Types, WorkerTypes
  <2>2. \A v \in Executions : wreq'[v] = None <=> pc'[v] = "idle"
    BY <1>0, <1>3 DEF Inv, Types, WorkerTypes
  <2>. QED  BY <1>3, <2>1, <2>2 DEF Inv, Types, WorkerTypes
<1>5. \A v \in Executions : Stays(v) \/ GoesOn(v)
  BY <1>0, <1>3 DEF Inv, Types, WorkerTypes, Stays, GoesOn
<1>6. Types'
  BY <1>2, <1>4, SourcesSame, RequestsSame, StoreSame, FaultCounted DEF Inv, Types
<1>. QED  BY <1>5, <1>6, Quiet, FaultCounted DEF Inv, Types

(* A build that fails or is given up keeps its request.                    *)
LEMMA BuildFails ==
    ASSUME Inv, NEW w \in Executions, ReadFails(w) \/ Abort(w)
    PROVE  Inv'
<1>. USE DEF At, sourceVars, requestVars, runVars, storeVars, opsVars
<1>0. pc[w] # "idle" /\ (Goto(w, "retry") \/ Goto(w, "failed"))
  BY DEF ReadFails, Abort
<1>1. WorkerTypes' /\ \A v \in Executions : Stays(v) \/ GoesOn(v)
  BY <1>0, GotoMoves DEF Inv, Types, Steps
<1>2. FaultType' /\ faults <= faults'
  BY FaultCounted DEF Inv, Types, ReadFails, Abort
<1>3. StoreTypes'
  <2>1. late' \subseteq ZipKeys
    BY OwnKey, <1>0 DEF Inv, Types, StoreTypes, ReadFails, Abort
  <2>. QED  BY <2>1 DEF Inv, Types, StoreTypes, ReadFails, Abort
<1>4. Types'
  BY <1>1, <1>2, <1>3, SourcesSame, PinnedSame, RequestsSame DEF Inv, Types, ReadFails, Abort
<1>. QED  BY <1>1, <1>2, <1>4, Quiet DEF ReadFails, Abort

(* The package is written, or the write fails.                             *)
LEMMA PutStep ==
    ASSUME Inv, NEW w \in Executions, Put(w)
    PROVE  Inv'
<1>. USE DEF Put, At, sourceVars, requestVars, runVars, storeVars, opsVars
<1>0. pc[w] # "idle" /\ <<wreq[w], watt[w]>> \in ZipKeys
  BY OwnKey
<1>1. FaultType' /\ faults <= faults'
  BY FaultCounted DEF Inv, Types
<1>2. StoreTypes'
  BY <1>0 DEF Inv, Types, StoreTypes
<1>3. WorkerTypes' /\ \A v \in Executions : Stays(v) \/ GoesOn(v)
  <2>1. CASE Goto(w, "retry")
    BY <1>0, <2>1, GotoMoves DEF Inv, Types, Steps
  <2>2. CASE zips' = zips \cup {<<wreq[w], watt[w]>>} /\ Goto(w, "publish")
    <3>1. WorkerTypes' /\ \A v \in Executions \ {w} : Stays(v)
      BY <1>0, <2>2, GotoMoves DEF Inv, Types, Steps
    <3>2. pc'[w] = "publish" /\ UNCHANGED <<wreq[w], watt[w]>>
      BY <1>0, <2>2, GotoMoves DEF Inv, Types, Steps
    <3>3. GoesOn(w)
      BY <1>0, <2>2, <3>2 DEF GoesOn
    <3>. QED  BY <3>1, <3>3
  <2>. QED  BY <2>1, <2>2
<1>4. Types'
  BY <1>1, <1>2, <1>3, SourcesSame, PinnedSame, RequestsSame DEF Inv, Types
<1>. QED  BY <1>1, <1>3, <1>4, Quiet

(* The process dies: the request is let go, and the fault pays for it.     *)
LEMMA CrashStep ==
    ASSUME Inv, NEW w \in Executions, Crash(w)
    PROVE  Inv'
<1>. USE DEF Crash, At, sourceVars, requestVars, runVars, storeVars, opsVars
<1>0. /\ pc[w] # "idle" /\ wreq[w] \in Requests /\ <<wreq[w], watt[w]>> \in ZipKeys
      /\ attempt[wreq[w]] \in Nat
  BY OwnKey
<1>1. FaultType' /\ faults <= faults' /\ faults' = faults + 1
  BY FaultCounted DEF Inv, Types
<1>2. StoreTypes'
  <2>1. late' \subseteq ZipKeys
    BY <1>0 DEF Inv, Types, StoreTypes
  <2>. QED  BY <2>1 DEF Inv, Types, StoreTypes
<1>3. WorkerTypes' /\ LetsGo(w) /\ \A v \in Executions \ {w} : Stays(v)
  BY <1>0, GotoMoves DEF Inv, Types, Steps
<1>4. PaysFor(w)
  <2>1. attempt[wreq[w]] <= MaxAttempts + faults
    BY <1>0 DEF Inv, Requested, Budget
  <2>2. attempt[wreq[w]] < MaxAttempts + faults'
    BY <1>0, <1>1, <2>1, Limits DEF Inv, Types, FaultType
  <2>. QED  BY <2>2 DEF PaysFor
<1>5. Types'
  BY <1>1, <1>2, <1>3, SourcesSame, PinnedSame, RequestsSame DEF Inv, Types
<1>. QED  BY <1>1, <1>3, <1>4, <1>5, Quiet

(* An execution ends the request it works on, or finds it ended.           *)
LEMMA EndingStep ==
    ASSUME Inv, NEW w \in Executions, FencedOut(w) \/ Stale(w) \/ FailRequest(w)
    PROVE  Inv'
<1>. USE DEF FencedOut, Stale, FailRequest, Fenced, At, sourceVars, opsVars
<1>0. /\ pc[w] # "idle" /\ wreq[w] \in Requests /\ Goto(w, "idle")
      /\ attempt[wreq[w]] \in Nat
  BY OwnKey
<1>1. WorkerTypes' /\ LetsGo(w) /\ \A v \in Executions \ {w} : Stays(v)
  BY <1>0, GotoMoves DEF Inv, Types, Steps
<1>2. CASE \E s \in {"failed", "expired"} : Terminated({wreq[w]}, s) /\ HoldsLease(w)
  <2>1. PICK s \in {"failed", "expired"} : Terminated({wreq[w]}, s)
    BY <1>2
  <2>2. status[wreq[w]] # "none"
    BY <1>2 DEF HoldsLease, Active
  <2>3. RequestTypes' /\ StoreTypes'
    BY <2>1, TerminatedTypes DEF Inv, Types
  <2>4. Types'
    BY <1>1, <2>3, SourcesSame, PinnedSame, FaultCounted DEF Inv, Types
  <2>. QED  BY <1>0, <1>1, <2>1, <2>2, <2>4, Ended
<1>3. CASE ~HoldsLease(w) /\ UNCHANGED <<status, artifact, run, live, garbage>>
  <2>1. Types'
    BY <1>1, <1>3, SourcesSame, PinnedSame, RequestsSame, StoreSame, FaultCounted DEF Inv, Types
  <2>2. PaysFor(w)
    BY <1>0, <1>3 DEF PaysFor, HoldsLease, Inv, Requested, Budget
  <2>. QED  BY <1>1, <1>3, <2>1, <2>2, Quiet, FaultCounted DEF Inv, Types
<1>. QED  BY <1>2, <1>3

(* failProcessingRun.                                                      *)
LEMMA RetryStep ==
    ASSUME Inv, NEW w \in Executions, Retry(w)
    PROVE  Inv'
<1>. USE DEF Retry, At, sourceVars, requestVars, storeVars, opsVars
<1>0. /\ pc[w] # "idle" /\ wreq[w] \in Requests
      /\ watt[w] \in Nat /\ attempt[wreq[w]] \in Nat
  BY OwnKey
<1>1. /\ WorkerTypes' /\ \A v \in Executions \ {w} : Stays(v)
      /\ Goto(w, "idle") => LetsGo(w)
      /\ Goto(w, "failed") => GoesOn(w)
  BY <1>0, GotoMoves DEF Inv, Types, Steps
<1>2. CASE UNCHANGED <<run, live>>
  <2>1. Types'
    BY <1>1, <1>2, SourcesSame, PinnedSame, RequestsSame, StoreSame, FaultCounted DEF Inv, Types
  <2>2. watt[w] < MaxAttempts => PaysFor(w)
    BY <1>0, Limits DEF PaysFor, Inv, Types, FaultType
  <2>3. GoesOn(w) \/ (LetsGo(w) /\ PaysFor(w))
    BY <1>1, <2>2, <1>0, Limits
  <2>. QED  BY <1>1, <1>2, <2>1, <2>3, Quiet, FaultCounted DEF Inv, Types
<1>3. ASSUME NEW r \in Requests, r = wreq[w], watt[w] < MaxAttempts,
             run[r] = "running", attempt[r] = watt[w],
             run' = [run EXCEPT ![r] = "retry_scheduled"],
             live' = [live EXCEPT ![r] = FALSE], Goto(w, "idle")
      PROVE  Inv'
  <2>1. RequestTypes'
    BY <1>0, <1>3 DEF Inv, Types, RequestTypes, RunStatus, OpenRun
  <2>2. Types'
    BY <1>1, <2>1, SourcesSame, PinnedSame, StoreSame, FaultCounted DEF Inv, Types
  <2>3. Others(r) /\ run'[r] = "retry_scheduled" /\ attempt'[r] < MaxAttempts
    BY <1>0, <1>3 DEF Others, Inv, Types, RequestTypes
  <2>4. Budget(r)' /\ Offered(r)'
    BY <1>0, <2>3 DEF Inv, Requested, Budget, Offered
  <2>5. \A n \in Nat : ~Held(r, n)'
    BY <2>3 DEF Held
  <2>6. /\ \A k \in ZipKeys : Listed(k)'
        /\ \A k \in links : Linked(k)'
    BY DEF Inv, Stored, Listed, Linked
  <2>7. /\ \A v \in Executions : Stays(v) \/ (LetsGo(v) /\ wreq[v] = r)
        /\ attempt[r] <= attempt'[r] /\ faults <= faults'
    BY <1>0, <1>1, <1>3, Limits DEF Inv, Types, FaultType
  <2>. QED  BY <2>2, <2>3, <2>4, <2>5, <2>6, <2>7, RowWritten
<1>. QED  BY <1>0, <1>2, <1>3

(* A lease lapses: by neglect, with an attempt left, or as a fault.        *)
LEMMA LapseStep ==
    ASSUME Inv, NEW r \in Requests, LeaseLapses(r)
    PROVE  Inv'
<1>. USE DEF LeaseLapses, sourceVars, requestVars, storeVars, workerVars, opsVars
<1>0. /\ attempt[r] \in Nat /\ faults \in Nat /\ Budget(r) /\ Offered(r)
      /\ live'[r] = FALSE
  BY Limits DEF Inv, Types, RequestTypes, FaultType, Requested
<1>1. FaultType' /\ faults <= faults' /\ (faults' = faults + 1 \/ ~Served(r))
  BY FaultCounted DEF Inv, Types
<1>2. RequestTypes'
  BY DEF Inv, Types, RequestTypes
<1>3. Types' /\ \A w \in Executions : Stays(w)
  BY <1>1, <1>2, SourcesSame, PinnedSame, StoreSame, WorkersSame DEF Inv, Types
<1>4. attempt[r] <= MaxAttempts + faults' /\ (status[r] \in Active => attempt[r] < MaxAttempts + faults')
  BY <1>0, <1>1, Limits DEF Budget, FaultType
<1>5. Budget(r)'
  BY <1>0, <1>4 DEF Budget
<1>6. Offered(r)'
  BY <1>0 DEF Offered
<1>7. Others(r)
  BY DEF Others, Inv, Types, RequestTypes
<1>8. \A n \in Nat : ~Held(r, n)'
  BY <1>0 DEF Held
<1>9. (\A k \in ZipKeys : Listed(k)') /\ \A k \in links : Linked(k)'
  BY DEF Inv, Stored, Listed, Linked
<1>. QED  BY <1>0, <1>1, <1>3, <1>5, <1>6, <1>7, <1>8, <1>9, RowWritten

(* prepare: a row with a pinned manifest within the limit of entries.      *)
LEMMA PrepareStep ==
    ASSUME Inv, NEW r \in Requests, Prepare(r)
    PROVE  Inv'
<1>. DEFINE es == ScopeOf[r] \cap Readable(OwnerOf[r])
<1>. USE DEF Prepare, Unused, sourceVars, storeVars, workerVars, opsVars
<1>0. /\ status[r] = "none" /\ Budget(r) /\ Offered(r)
      /\ status'[r] \in {"succeeded", "queued"} /\ run'[r] \in {"none", "queued"}
  BY DEF Inv, Requested, Types, RequestTypes
<1>1. RequestTypes'
  <2>1. status' \in [Requests -> Status]
    BY DEF Inv, Types, RequestTypes, Status, Active, Over
  <2>2. run' \in [Requests -> RunStatus]
    BY DEF Inv, Types, RequestTypes, RunStatus, OpenRun
  <2>. QED  BY <2>1, <2>2 DEF Inv, Types, RequestTypes
<1>2. PinnedTypes'
  <2>0. PinnedTypes /\ SourceTypes /\ es \subseteq Parts
    BY ConstantsAssumption DEF Inv, Types
  <2>1. manifest' \in [Requests -> [Parts -> 0..MaxVersion]]
    <3>1. [p \in Parts |-> IF p \in es THEN part[p] ELSE 0] \in [Parts -> 0..MaxVersion]
      BY <2>0, Limits DEF SourceTypes
    <3>. QED  BY <2>0, <3>1 DEF PinnedTypes
  <2>2. ASSUME NEW q \in Requests
        PROVE  Cardinality(Entries(q)') \in 0..MaxEntries
    <3>1. CASE q = r
      <4>1. Entries(q)' = es
        BY <2>0, <3>1 DEF Entries, PinnedTypes, Readable, SourceTypes
      <4>2. IsFiniteSet(es)
        BY <2>0, FS_Subset, ConstantsAssumption
      <4>3. Cardinality(es) \in Nat /\ Cardinality(es) <= MaxEntries
        BY <4>2, FS_CardinalityType
      <4>. QED  BY <4>1, <4>3, Limits
    <3>2. CASE q # r
      <4>1. Entries(q)' = Entries(q)
        BY <2>0, <3>2 DEF Entries, PinnedTypes
      <4>. QED  BY <2>0, <4>1 DEF PinnedTypes
    <3>. QED  BY <3>1, <3>2
  <2>. QED  BY <2>0, <2>1, <2>2 DEF PinnedTypes
<1>3. Types' /\ \A w \in Executions : Stays(w)
  BY <1>1, <1>2, SourcesSame, StoreSame, WorkersSame, FaultCounted DEF Inv, Types
<1>4. attempt[r] = 0 /\ artifact[r] = 0
  BY <1>0 DEF Budget, Offered
<1>5. Budget(r)' /\ Offered(r)'
  BY <1>0, <1>4 DEF Budget, Offered
<1>6. Others(r)
  BY DEF Others, Inv, Types, RequestTypes
<1>7. \A n \in Nat : ~Held(r, n)'
  BY <1>0 DEF Held
<1>8. /\ \A k \in ZipKeys : k[1] = r => Listed(k)'
      /\ \A k \in links : k[1] # r
  BY <1>0 DEF Inv, Stored, Listed, Linked, Over
<1>9. attempt[r] <= attempt'[r] /\ faults <= faults'
  BY <1>4, Limits DEF Inv, Types, FaultType
<1>. QED  BY <1>3, <1>5, <1>6, <1>7, <1>8, <1>9, RowWritten

(* claimNextProcessingRun: a run that can be claimed has an attempt left.  *)
LEMMA ClaimStep ==
    ASSUME Inv, NEW w \in Executions, NEW r \in Requests, Claim(w, r)
    PROVE  Inv'
<1>. USE DEF Claim, sourceVars, requestVars, storeVars, opsVars
<1>0. /\ attempt[r] \in Nat /\ faults \in Nat /\ Budget(r) /\ Offered(r)
      /\ attempt'[r] = attempt[r] + 1 /\ run'[r] = "running" /\ live'[r] = TRUE
      /\ status[r] \in Active
  BY Limits DEF Inv, Types, RequestTypes, FaultType, Requested
<1>1. RequestTypes'
  <2>1. attempt' \in [Requests -> Nat]
    BY <1>0 DEF Inv, Types, RequestTypes
  <2>. QED  BY <2>1 DEF Inv, Types, RequestTypes, RunStatus, OpenRun
<1>2. WorkerTypes'
  <2>1. watt' \in [Executions -> Nat]
    BY <1>0 DEF Inv, Types, WorkerTypes
  <2>. QED  BY <2>1, Limits DEF Inv, Types, WorkerTypes, Steps
<1>3. TakesUp(w, r) /\ \A v \in Executions \ {w} : Stays(v)
  BY <1>0 DEF Inv, Types, WorkerTypes, TakesUp, Stays
<1>4. Types'
  BY <1>1, <1>2, SourcesSame, PinnedSame, StoreSame, FaultCounted DEF Inv, Types
<1>5. Served(r)'
  BY <1>0, <1>3 DEF Served, TakesUp
<1>6. attempt[r] < MaxAttempts + faults
  BY <1>0, Limits DEF Budget
<1>7. Budget(r)'
  <2>1. artifact[r] <= attempt[r] + 1 /\ attempt[r] + 1 <= MaxAttempts + faults
    BY <1>0, <1>6, Limits DEF Budget, Inv, Types, RequestTypes
  <2>. QED  BY <1>0, <1>5, <2>1 DEF Budget, Active
<1>8. Offered(r)'
  BY <1>0 DEF Offered
<1>9. Others(r)
  BY DEF Others, Inv, Types, RequestTypes
<1>10. \A n \in Nat : Held(r, n)' => n = attempt[r] + 1
  BY <1>0 DEF Held
<1>11. \A k \in ZipKeys : k[1] = r => Listed(k)'
  <2>. SUFFICES ASSUME NEW k \in ZipKeys, k[1] = r, garbage[k] # "none"
                PROVE  k[2] <= attempt[r] + 1
    BY <1>0 DEF Inv, Stored, Listed
  <2>. QED  BY <1>0, Limits DEF Inv, Stored, Listed
<1>12. \A k \in links : Linked(k)'
  BY DEF Inv, Linked
<1>. QED  BY <1>0, <1>3, <1>4, <1>7, <1>8, <1>9, <1>10, <1>11, <1>12, RowWritten

(* markRunning.                                                            *)
LEMMA MarkStep ==
    ASSUME Inv, NEW w \in Executions, MarkRunning(w)
    PROVE  Inv'
<1>. USE DEF MarkRunning, Fenced, At, sourceVars, runVars, storeVars, opsVars
<1>0. PICK r \in Requests : /\ r = wreq[w] /\ pc[w] # "idle" /\ Goto(w, "read")
                            /\ attempt[r] \in Nat /\ HoldsLease(w)
                            /\ status' = [status EXCEPT ![r] = "running"]
  BY OwnKey
<1>1. WorkerTypes' /\ GoesOn(w) /\ \A v \in Executions \ {w} : Stays(v)
  BY <1>0, GotoMoves DEF Inv, Types, Steps
<1>2. RequestTypes'
  BY <1>0 DEF Inv, Types, RequestTypes, Status, Active
<1>3. Types'
  BY <1>1, <1>2, SourcesSame, StoreSame, FaultCounted, PinnedSame DEF Inv, Types
<1>4. /\ status[r] \in Active /\ status'[r] = "running" /\ run[r] = "running" /\ live[r]
      /\ attempt[r] = watt[w] /\ Budget(r) /\ Offered(r)
  BY <1>0 DEF Inv, Types, RequestTypes, HoldsLease, Requested
<1>5. Served(r)'
  BY <1>0, <1>1, <1>4 DEF Served, GoesOn
<1>6. Budget(r)' /\ Offered(r)'
  BY <1>4, <1>5 DEF Budget, Offered, Active
<1>7. Others(r)
  BY <1>0 DEF Others, Inv, Types, RequestTypes
<1>8. \A m \in Nat : Held(r, m)' => Held(r, m)
  BY <1>4 DEF Held
<1>9. /\ \A k \in ZipKeys : k[1] = r => Listed(k)'
      /\ \A k \in links : k[1] # r
  BY <1>4 DEF Inv, Stored, Listed, Linked, Over, Active
<1>10. attempt[r] <= attempt'[r] /\ faults <= faults'
  BY <1>0, Limits DEF Inv, Types, FaultType
<1>. QED  BY <1>1, <1>3, <1>6, <1>7, <1>8, <1>9, <1>10, RowWritten

(* registerCandidate: the row of the package about to be written.          *)
LEMMA RegisterStep ==
    ASSUME Inv, NEW w \in Executions, RegisterCandidate(w)
    PROVE  Inv'
<1>. USE DEF RegisterCandidate, Fenced, At, sourceVars, requestVars, runVars, opsVars
<1>0. PICK r \in Requests, n \in Nat :
        /\ r = wreq[w] /\ n = watt[w] /\ pc[w] # "idle" /\ Goto(w, "put") /\ HoldsLease(w)
        /\ attempt[r] \in Nat /\ <<r, n>> \in ZipKeys
        /\ garbage' = [garbage EXCEPT ![<<r, n>>] = "candidate"]
  BY OwnKey
<1>1. WorkerTypes' /\ GoesOn(w) /\ \A v \in Executions \ {w} : Stays(v)
  BY <1>0, GotoMoves DEF Inv, Types, Steps
<1>2. StoreTypes'
  BY <1>0 DEF Inv, Types, StoreTypes
<1>3. Types'
  BY <1>1, <1>2, SourcesSame, RequestsSame, FaultCounted, PinnedSame DEF Inv, Types
<1>4. /\ status[r] \in Active /\ run[r] = "running" /\ live[r]
      /\ attempt[r] = n /\ Budget(r) /\ Offered(r)
  BY <1>0 DEF Inv, HoldsLease, Requested
<1>5. Served(r)'
  BY <1>0, <1>1, <1>4 DEF Served, GoesOn
<1>6. Budget(r)' /\ Offered(r)'
  BY <1>4, <1>5 DEF Budget, Offered, Active
<1>7. Others(r)
  BY <1>0 DEF Others, Inv, Types, StoreTypes
<1>8. \A m \in Nat : Held(r, m)' => Held(r, m)
  BY DEF Held
<1>9. ASSUME NEW k \in ZipKeys, k[1] = r
      PROVE  Listed(k)'
  <2>1. CASE k = <<r, n>>
    BY <1>0, <1>4, <2>1 DEF Inv, Types, StoreTypes, Listed
  <2>2. CASE k # <<r, n>>
    BY <1>0, <2>2 DEF Inv, Types, StoreTypes, Stored, Listed
  <2>. QED  BY <2>1, <2>2
<1>10. \A k \in links : Linked(k)'
  BY DEF Inv, Linked
<1>11. attempt[r] <= attempt'[r] /\ faults <= faults'
  BY <1>0, Limits DEF Inv, Types, FaultType
<1>. QED  BY <1>1, <1>3, <1>6, <1>7, <1>8, <1>9, <1>10, <1>11, RowWritten

(* publish: the package is in storage, because the lease was never lost,   *)
(* and nobody is about to delete it.                                       *)
LEMMA PublishStep ==
    ASSUME Inv, NEW w \in Executions, Publish(w)
    PROVE  Inv'
<1>. USE DEF Publish, Fenced, At, sourceVars, requestVars, runVars, opsVars
<1>0. PICK r \in Requests, n \in Nat :
        /\ r = wreq[w] /\ n = watt[w] /\ pc[w] = "publish" /\ HoldsLease(w)
        /\ attempt[r] \in Nat /\ n # 0 /\ <<r, n>> \in ZipKeys
        /\ garbage' = [garbage EXCEPT ![<<r, n>>] = "atExpiry"]
  <2>1. /\ pc[w] = "publish" /\ HoldsLease(w)
        /\ garbage' = [garbage EXCEPT ![<<wreq[w], watt[w]>>] = "atExpiry"]
    OBVIOUS
  <2>2. /\ wreq[w] \in Requests /\ watt[w] \in Nat /\ watt[w] # 0
        /\ attempt[wreq[w]] \in Nat /\ <<wreq[w], watt[w]>> \in ZipKeys
    <3>1. /\ wreq[w] \in Requests /\ watt[w] \in Nat /\ watt[w] \in 1..attempt[wreq[w]]
          /\ attempt[wreq[w]] \in Nat /\ <<wreq[w], watt[w]>> \in ZipKeys
      BY <2>1, OwnKey
    <3>2. \A a \in Nat : \A n \in 1..a : n # 0
      OBVIOUS
    <3>3. watt[w] # 0
      BY <3>1, <3>2
    <3>. QED  BY <3>1, <3>3
  <2>. QED  BY <2>1, <2>2
<1>1. /\ WorkerTypes' /\ (LetsGo(w) \/ GoesOn(w))
      /\ \A v \in Executions \ {w} : Stays(v)
  BY <1>0, GotoMoves DEF Inv, Types, Steps
<1>2. FaultType' /\ faults <= faults'
  BY FaultCounted DEF Inv, Types
<1>3. /\ status[r] \in Active /\ run[r] = "running" /\ live[r]
      /\ attempt[r] = n /\ Budget(r) /\ Offered(r)
  BY <1>0 DEF Inv, HoldsLease, Requested
<1>4. /\ status'[r] = "succeeded" /\ run'[r] = "succeeded" /\ artifact'[r] = n
      /\ garbage'[<<r, n>>] = "atExpiry"
  BY <1>0 DEF Inv, Types, RequestTypes, StoreTypes
<1>5. RequestTypes'
  <2>1. status' \in [Requests -> Status] /\ run' \in [Requests -> RunStatus]
    BY <1>0 DEF Inv, Types, RequestTypes, Status, Over, RunStatus
  <2>2. artifact' \in [Requests -> Nat] /\ live' \in [Requests -> BOOLEAN]
    BY <1>0 DEF Inv, Types, RequestTypes
  <2>. QED  BY <2>1, <2>2 DEF Inv, Types, RequestTypes
<1>6. PinnedTypes'
  <2>1. progress' \in [Requests -> 0..MaxEntries]
    BY <1>0 DEF Inv, Types, PinnedTypes
  <2>. QED  BY <2>1 DEF Inv, Types, PinnedTypes, Entries
<1>7. StoreTypes'
  BY <1>0 DEF Inv, Types, StoreTypes
<1>8. Types'
  <2>1. SourceTypes'
    BY SourcesSame DEF Inv, Types
  <2>. QED  BY <1>1, <1>2, <1>5, <1>6, <1>7, <2>1 DEF Types
<1>9. <<r, n>> \in zips
  BY <1>0, <1>3 DEF Inv, Working, Building, Held
<1>10. gc # <<r, n>>
  <2>. SUFFICES ASSUME gc = <<r, n>>
                PROVE  FALSE
    OBVIOUS
  <2>1. gc # None /\ gc[1] = r /\ gc[2] = n
    BY <1>0, Limits
  <2>. QED  BY <1>3, <2>1 DEF Inv, Stored, Collecting, Held
<1>11. Offered(r)'
  BY <1>4, <1>9, <1>10 DEF Offered
<1>12. Budget(r)'
  <2>1. attempt[r] <= MaxAttempts + faults'
    BY <1>0, <1>2, <1>3, Limits DEF Budget, Inv, Types, FaultType
  <2>. QED  BY <1>0, <1>3, <1>4, <2>1 DEF Budget, Active
<1>13. Others(r)
  <2>1. \A q \in Requests \ {r} : UNCHANGED <<status[q], artifact[q], run[q], attempt[q], live[q]>>
    BY <1>0 DEF Inv, Types, RequestTypes
  <2>2. \A k \in ZipKeys : k[1] # r => garbage'[k] = garbage[k]
    BY <1>0 DEF Inv, Types, StoreTypes
  <2>. QED  BY <2>1, <2>2 DEF Others
<1>14. \A m \in Nat : ~Held(r, m)'
  BY <1>4 DEF Held
<1>15. ASSUME NEW k \in ZipKeys, k[1] = r
       PROVE  Listed(k)'
  <2>1. CASE k = <<r, n>>
    BY <1>0, <1>3, <1>4, <2>1 DEF Listed, Over
  <2>2. CASE k # <<r, n>>
    BY <1>0, <1>4, <1>15, <2>2 DEF Inv, Types, StoreTypes, Stored, Listed, Over
  <2>. QED  BY <2>1, <2>2
<1>16. \A k \in links : k[1] # r
  BY <1>3 DEF Inv, Linked, Over, Active
<1>17. attempt[r] <= attempt'[r]
  BY <1>0
<1>. QED  BY <1>0, <1>1, <1>2, <1>8, <1>11, <1>12, <1>13, <1>14, <1>15, <1>16, <1>17, RowWritten

(* Garbage collection picks no package a request offers in its time, and   *)
(* none that may still be published.                                       *)
LEMMA PickStep ==
    ASSUME Inv, NEW k \in ZipKeys, GcPick(k)
    PROVE  Inv'
<1>. USE DEF GcPick, sourceVars, requestVars, runVars, storeVars, workerVars, opsVars
<1>0. Due(k) /\ Listed(k) /\ gc' = k
  BY DEF Inv, Stored
<1>1. StoreTypes'
  BY DEF Inv, Types, StoreTypes
<1>2. Types' /\ \A w \in Executions : Stays(w)
  BY <1>1, SourcesSame, PinnedSame, RequestsSame, WorkersSame, FaultCounted DEF Inv, Types
<1>3. Collecting'
  <2>1. k[2] <= attempt[k[1]]
    BY <1>0 DEF Due, Listed
  <2>2. ~Held(k[1], k[2])
    BY <1>0 DEF Due, Listed, Held, Over, Active, Inv, Types, StoreTypes
  <2>. QED  BY <1>0, <2>1, <2>2 DEF Collecting, Held
<1>4. ASSUME NEW r \in Requests
      PROVE  Budget(r)' /\ Offered(r)'
  <2>1. Budget(r) /\ Offered(r)
    BY DEF Inv, Requested
  <2>2. artifact[r] # 0 /\ ~past[r] => k # <<r, artifact[r]>>
    BY <1>0, <2>1 DEF Offered, Due
  <2>. QED  BY <1>0, <2>1, <2>2 DEF Budget, Served, Offered
<1>5. Working' /\ (\A q \in ZipKeys : Listed(q)') /\ (\A q \in links : Linked(q)')
  BY DEF Inv, Working, Building, Held, Stored, Listed, Linked
<1>. QED  BY <1>2, <1>3, <1>4, <1>5 DEF Inv, Requested, Stored

LEMMA DeleteStep ==
    ASSUME Inv, GcDelete
    PROVE  Inv'
<1>. USE DEF GcDelete, sourceVars, requestVars, runVars, workerVars, opsVars
<1>0. gc \in ZipKeys /\ gc # None /\ gc' = None /\ zips' = zips \ {gc}
  BY DEF Inv, Types, StoreTypes
<1>1. \A k \in ZipKeys : garbage'[k] \in {garbage[k], "none"} /\ (k # gc => garbage'[k] = garbage[k])
  BY DEF Inv, Types, StoreTypes
<1>2. StoreTypes'
  BY DEF Inv, Types, StoreTypes
<1>3. Types'
  BY <1>2, SourcesSame, PinnedSame, RequestsSame, WorkersSame, FaultCounted DEF Inv, Types
<1>4. ASSUME NEW r \in Requests
      PROVE  Budget(r)' /\ Offered(r)'
  <2>1. Budget(r) /\ Offered(r)
    BY DEF Inv, Requested
  <2>2. ASSUME artifact[r] # 0, ~past[r]
        PROVE  /\ <<r, artifact[r]>> \in zips'
               /\ garbage'[<<r, artifact[r]>>] = "atExpiry"
               /\ gc' # <<r, artifact[r]>>
    <3>1. <<r, artifact[r]>> \in zips /\ gc # <<r, artifact[r]>>
      BY <2>1, <2>2 DEF Offered
    <3>2. <<r, artifact[r]>> \in ZipKeys
      BY <3>1 DEF Inv, Types, StoreTypes
    <3>. QED  BY <1>0, <1>1, <2>1, <2>2, <3>1, <3>2, Limits DEF Offered
  <2>. QED  BY <2>1, <2>2 DEF Budget, Served, Offered
<1>5. ASSUME NEW w \in Executions
      PROVE  Building(w)'
  <2>1. Building(w)
    BY DEF Inv, Working
  <2>2. ASSUME pc[w] = "publish", Held(wreq[w], watt[w])
        PROVE  <<wreq[w], watt[w]>> \in zips'
    <3>1. gc # <<wreq[w], watt[w]>>
      <4>. SUFFICES ASSUME gc = <<wreq[w], watt[w]>>
                    PROVE  FALSE
        OBVIOUS
      <4>1. gc[1] = wreq[w] /\ gc[2] = watt[w] /\ ~Held(gc[1], gc[2])
        BY <1>0 DEF Inv, Stored, Collecting
      <4>. QED  BY <2>2, <4>1
    <3>. QED  BY <1>0, <2>1, <2>2, <3>1 DEF Building
  <2>. QED  BY <2>1, <2>2 DEF Building, Held
<1>6. (\A k \in ZipKeys : Listed(k)') /\ Collecting' /\ (\A k \in links : Linked(k)')
  BY <1>0, <1>1 DEF Inv, Stored, Listed, Collecting, Linked
<1>. QED  BY <1>3, <1>4, <1>5, <1>6 DEF Inv, Requested, Working, Stored

(***************************************************************************)
(* The theorems.                                                           *)
(***************************************************************************)
LEMMA InitInv == Init => Inv
<1>. SUFFICES ASSUME Init
              PROVE  Inv
  OBVIOUS
<1>1. SourceTypes
  BY Limits DEF Init, SourceTypes, NoEntries
<1>2. PinnedTypes
  <2>1. \A r \in Requests : Entries(r) = {}
    BY DEF Init, Entries, NoEntries
  <2>2. \A r \in Requests : Cardinality(Entries(r)) = 0
    BY <2>1, FS_EmptySet
  <2>. QED  BY <2>2, Limits DEF Init, PinnedTypes, NoEntries
<1>3. RequestTypes
  BY DEF Init, RequestTypes, Status, RunStatus
<1>4. StoreTypes /\ FaultType
  BY Limits DEF Init, StoreTypes, FaultType
<1>5. WorkerTypes
  BY Limits DEF Init, WorkerTypes, Steps
<1>6. Requested
  BY Limits DEF Init, Requested, Budget, Offered, Active
<1>7. Working /\ Stored /\ \A k \in links : Linked(k)
  BY DEF Init, Working, Building, Stored, Listed, Collecting
<1>. QED  BY <1>1, <1>2, <1>3, <1>4, <1>5, <1>6, <1>7 DEF Inv, Types

\* Every step keeps the invariant.
LEMMA NextInv == Inv /\ [Next]_vars => Inv'
<1>. SUFFICES ASSUME Inv, [Next]_vars
              PROVE  Inv'
  OBVIOUS
<1>1. CASE \/ \E p \in Parts : Republish(p)
           \/ \E s \in sources : SourceCollected(s[1], s[2])
           \/ \E e \in Requesters, ps \in SUBSET Parts : AccessChanges(e, ps)
           \/ BuildInventory
  BY <1>1, AroundStep
<1>2. ASSUME NEW r \in Requests,
             Prepare(r) \/ Elapses(r) \/ Expire(r) \/ IssueLink(r) \/ LeaseLapses(r)
      PROVE  Inv'
  BY <1>2, PrepareStep, ElapsesStep, ExpireStep, LinkStep, LapseStep
<1>3. ASSUME NEW w \in Executions, WorkerStep(w) \/ Abort(w) \/ Crash(w)
      PROVE  Inv'
  BY <1>3, EndingStep, MarkStep, ReadStep, BuildFails, RegisterStep, PutStep, PublishStep, RetryStep,
     CrashStep DEF WorkerStep
<1>4. ASSUME NEW w \in Executions, NEW r \in Requests, Claim(w, r)
      PROVE  Inv'
  BY <1>4, ClaimStep
<1>5. ASSUME NEW k \in ZipKeys, LateWrite(k) \/ GcPick(k)
      PROVE  Inv'
  BY <1>5, LateStep, PickStep
<1>6. CASE GcDelete \/ ExecuteCleanup
  BY <1>6, DeleteStep, CleanupStep
<1>7. CASE UNCHANGED vars
  <2>. USE <1>7 DEF vars, sourceVars, requestVars, runVars, storeVars, workerVars, opsVars
  <2>1. Types' /\ \A w \in Executions : Stays(w)
    BY SourcesSame, PinnedSame, RequestsSame, StoreSame, WorkersSame, FaultCounted DEF Inv, Types
  <2>. QED  BY <2>1, Quiet, FaultCounted DEF Inv, Types
<1>. QED  BY <1>1, <1>2, <1>3, <1>4, <1>5, <1>6, <1>7 DEF Next

(* Whatever the order of builds, faults, collections and cleanups, the     *)
(* rows, the objects in storage and the locals of the executions agree.    *)
THEOREM DownloadInvariant == Spec => []Inv
<1>1. Init => Inv
  BY InitInv
<1>2. Inv /\ [Next]_vars => Inv'
  BY NextInv
<1>. QED  BY <1>1, <1>2, PTL DEF Spec

(* The types, and with them the bound of the code on retries: no run is    *)
(* claimed more often than workerMaxAttempts plus the faults that happen.  *)
THEOREM DownloadTypeCorrect == Spec => []TypeOK
<1>1. Inv => TypeOK
  BY InvTypes
<1>. QED  BY <1>1, DownloadInvariant, PTL

(* A package a request names stays in storage until the request's time is  *)
(* over, and a signed link of a request that is not ended leads to it.     *)
THEOREM LinksServe == Spec => []LinkServes
<1>1. Inv => LinkServes
  BY DEF Inv, Requested, Offered, Linked, LinkServes
<1>. QED  BY <1>1, DownloadInvariant, PTL

(* executeStoreCleanup compares the rows with the saved inventory in the   *)
(* transaction that deletes them; no other step deletes a row.             *)
THEOREM CleanupDeletesTheInventory == Spec => CleanupIsExact
<1>1. Inv /\ [Next]_vars
        => [\A p \in Parts : part[p] # 0 /\ part'[p] = 0 => part[p] = inventory[p]]_vars
  <2>. SUFFICES ASSUME Inv, Next, NEW p \in Parts, part[p] # 0, part'[p] = 0
                PROVE  part[p] = inventory[p]
    OBVIOUS
  <2>1. CASE ExecuteCleanup
    <3>1. Targets[p] # 0 /\ Targets = inventory
      BY <2>1 DEF ExecuteCleanup, Inventoried
    <3>. QED  BY <3>1 DEF Targets
  <2>2. ASSUME NEW q \in Parts, Republish(q)
        PROVE  FALSE
    <3>1. PICK latest \in {part[q]} \cup {v \in 1..MaxVersion : <<q, v>> \in cleaned} :
             part' = [part EXCEPT ![q] = latest + 1]
      BY <2>2 DEF Republish
    <3>2. latest \in Nat /\ part \in [Parts -> 0..MaxVersion]
      BY <3>1, Limits DEF Inv, Types, SourceTypes
    <3>3. latest + 1 # 0
      BY <3>2
    <3>. QED  BY <3>1, <3>2, <3>3
  <2>3. CASE UNCHANGED part
    BY <2>3
  <2>4. \/ ExecuteCleanup \/ (\E q \in Parts : Republish(q)) \/ UNCHANGED part
    BY DEF Next, WorkerStep, SourceCollected, AccessChanges, Prepare, Elapses, Expire, IssueLink,
           LeaseLapses, Claim, FencedOut, Stale, MarkRunning, ReadEntry, ReadFails, RegisterCandidate,
           Put, Publish, FailRequest, Retry, Abort, Crash, LateWrite, GcPick, GcDelete, BuildInventory,
           sourceVars
  <2>. QED  BY <2>1, <2>2, <2>3, <2>4
<1>. QED  BY <1>1, DownloadInvariant, PTL DEF Spec, CleanupIsExact
=============================================================================
