-------------------------- MODULE EnterpriseProofs --------------------------
(***************************************************************************)
(* Proofs about what an enterprise's own system runs: its workflows, for   *)
(* any number of computers, runs, actions and stores, and the cost cards,  *)
(* for any sheets, workers and attempts.  They share no state.             *)
(***************************************************************************)
EXTENDS EnterpriseWorkflow, CostCards, TLAPS

(***************************************************************************)
(* Workflows.                                                              *)
(***************************************************************************)
-----------------------------------------------------------------------------
(* Types *)

WorkflowRow ==
  [version : Nat, control : {"active", "paused"}, cversion : Nat, epoch : Nat,
   assigned : Installations \cup {NoOne}, lease : Runs \cup {NoOne}, live : BOOLEAN]

ActionRow ==
  [state : {"none", "intent", "unknown", "confirmed", "failed"}, run : Runs \cup {NoOne}, key : Keys]

PreviewRow ==
  [kind : {"none", "configuration", "integration", "authorization", "control", "takeover", "backfill"},
   to : SUBSET Stores, state : {"none", "active", "paused"}, install : Installations \cup {NoOne},
   epoch : Nat, old : Installations \cup {NoOne}, oldHost : {"none", "paused", "unavailable"},
   pending : SUBSET (Actions \X ActionRow), version : Nat, iversion : Nat, cversion : Nat]

RunRow ==
  [state : {"none", "open", "finished", "pruned"}, status : {"none", "succeeded", "other"},
   install : Installations \cup {NoOne}, epoch : Nat, version : Nat, iversion : Nat,
   snap : SUBSET Stores, limit : SUBSET Stores]

MigrationRow ==
  [stage : {"none", "preview", "validated", "imported", "host_switched", "verified"},
   sealed : BOOLEAN, pages : Nat, validated : Nat, imported : Nat,
   version : Nat, iversion : Nat, cversion : Nat, epoch : Nat]

SettingTypes ==
  /\ wf \in WorkflowRow
  /\ config \in SUBSET Stores /\ auths \in SUBSET Stores
  /\ integ \in [version : Nat, mapped : SUBSET Stores]
  /\ preview \in PreviewRow /\ (preview.kind = "control" => preview.state # "none")

RunTypes ==
  /\ runs \in [Runs -> RunRow] /\ floor \in [Runs -> SUBSET Stores]
  /\ \A r \in Runs : runs[r].limit \subseteq runs[r].snap

ActionTypes ==
  /\ actions \in [Actions -> ActionRow]
  /\ claims \in [Keys -> Actions \cup {NoOne}]
  /\ permit \in [Actions -> {"none", "granted", "done"}]
  /\ performed \in [Keys -> Nat]
  /\ migration \in MigrationRow

-----------------------------------------------------------------------------
(* The inductive invariant *)

\* A migration imports no page it does not have.
PagesOK ==
  /\ migration.pages <= Pages /\ migration.imported <= migration.pages
  /\ migration.stage = "preview" => migration.imported = 0 /\ migration.pages > 0
  /\ migration.stage = "validated" => migration.imported < migration.pages

\* Records of the migrated history are never announced and never acted upon.
LegacyOK ==
  \A a \in Actions \ HostActions : actions[a].state \in {"none", "confirmed"} /\ permit[a] = "none"

\* The key an action of a computer holds is the one it was announced with.
ClaimsOK ==
  \A k \in Keys : claims[k] \in HostActions =>
    actions[claims[k]].key = k /\ actions[claims[k]].state # "none"

\* Who may still act, or has acted, holds the key of the action.
PermitsOK ==
  \A a \in Actions : permit[a] # "none" =>
    /\ claims[actions[a].key] = a
    /\ actions[a].state \in {"intent", "unknown", "confirmed"}

\* A key that was acted upon is held by the action that did.
PerformedOK ==
  \A k \in Keys : \/ performed[k] = 0
                  \/ performed[k] = 1 /\ claims[k] # NoOne /\ permit[claims[k]] = "done"

ImportedOK ==
  \A p \in 1..Pages : p <= migration.imported =>
    /\ actions[LegacyAction[p]].state = "confirmed"
    /\ claims[LegacyKey[p]] = LegacyAction[p]

Ledger == ActionTypes /\ PagesOK /\ LegacyOK /\ ClaimsOK /\ PermitsOK /\ PerformedOK /\ ImportedOK

\* What is left of a run's reach lost all that saved changes took away.
LimitsOK == \A r \in Runs : runs[r].state = "open" => runs[r].limit \subseteq floor[r]

Reach == SettingTypes /\ RunTypes /\ LimitsOK

-----------------------------------------------------------------------------
(* Actions, receipts and the migrated history *)

\* The records of the migrated history are not those computers announce.
LEMMA Legacy ==
  /\ Pages \in Nat \ {0}
  /\ \A p \in 1..Pages : /\ LegacyAction[p] \in Actions /\ LegacyAction[p] \notin HostActions
                         /\ LegacyKey[p] \in Keys
  /\ HostActions \subseteq Actions /\ NoOne \notin Actions
BY ConstantsAssumption DEF HostActions

\* An action that was never announced.
LEMMA NoActionTyped == NoAction \in ActionRow /\ NoAction.state = "none"
<1>1. (CHOOSE k \in Keys : TRUE) \in Keys
  BY Legacy
<1>. QED  BY <1>1 DEF NoAction, ActionRow

\* What changing the state of an action does to its record.
LEMMA StateChanges ==
  ASSUME NEW x \in ActionRow, NEW s \in {"none", "intent", "unknown", "confirmed", "failed"}
  PROVE  /\ [x EXCEPT !.state = s] \in ActionRow
         /\ [x EXCEPT !.state = s].state = s
         /\ [x EXCEPT !.state = s].key = x.key /\ [x EXCEPT !.state = s].run = x.run
BY DEF ActionRow

\* Nothing is announced, held or done at the start.
LEMMA LedgerInit == Init => Ledger
<1>. SUFFICES ASSUME Init PROVE Ledger
  OBVIOUS
<1>1. ActionTypes
  BY NoActionTyped DEF Init, ActionTypes, NoMigration, MigrationRow
<1>2. PagesOK
  BY Legacy DEF Init, PagesOK, NoMigration
<1>3. LegacyOK /\ ClaimsOK /\ PermitsOK /\ PerformedOK
  BY NoActionTyped, Legacy DEF Init, LegacyOK, ClaimsOK, PermitsOK, PerformedOK
<1>4. ImportedOK
  BY DEF Init, ImportedOK, NoMigration
<1>. QED  BY <1>1, <1>2, <1>3, <1>4 DEF Ledger

\* A takeover makes unknown what was announced; keys and records stay.
LEMMA HandoverLedger ==
  ASSUME Ledger, NEW i, Handover(i), UNCHANGED <<claims, migration, permit, performed>>
  PROVE  Ledger'
<1>1. \A a \in Actions : /\ actions'[a] \in ActionRow /\ actions'[a].key = actions[a].key
                         /\ \/ actions'[a].state = actions[a].state
                            \/ actions[a].state = "intent" /\ actions'[a].state = "unknown"
  BY StateChanges DEF Handover, Ledger, ActionTypes
<1>2. ActionTypes'
  BY <1>1 DEF Handover, Ledger, ActionTypes
<1>3. LegacyOK' /\ ClaimsOK'
  BY <1>1, Legacy DEF Ledger, LegacyOK, ClaimsOK
<1>4. PermitsOK' /\ PerformedOK'
  BY <1>1 DEF Ledger, PermitsOK, PerformedOK
<1>5. ImportedOK' /\ PagesOK'
  BY <1>1, Legacy DEF Ledger, ImportedOK, PagesOK
<1>. QED  BY <1>2, <1>3, <1>4, <1>5 DEF Ledger

\* claimAction: a free key and an action that never held one, or failed with this one.
LEMMA IntentLedger ==
  ASSUME Ledger, NEW a \in HostActions, NEW k \in Keys, NEW r \in Runs, NEW i, NEW answered,
         Intent(a, k, r, i, answered)
  PROVE  Ledger'
<1>. DEFINE x == [state |-> "intent", run |-> r, key |-> k]
<1>1. x \in ActionRow /\ x.state = "intent" /\ x.key = k
  BY DEF ActionRow
<1>2. actions' = [actions EXCEPT ![a] = x] /\ claims' = [claims EXCEPT ![k] = a]
  BY DEF Intent
<1>. HIDE DEF x
<1>3. PICK given \in {"granted", "none"} : permit' = [permit EXCEPT ![a] = given]
  BY DEF Intent
<1>4. a \in Actions /\ a # NoOne
  BY Legacy
<1>5. actions[a].state \in {"none", "failed"} /\ (actions[a].state = "failed" => actions[a].key = k)
  BY DEF Intent, Claimable
<1>6. claims[k] = NoOne /\ performed[k] = 0 /\ UNCHANGED <<migration, performed>>
  BY DEF Intent, Claimable, Ledger, PerformedOK
<1>7. ActionTypes'
  BY <1>1, <1>2, <1>3, <1>4, <1>6 DEF Ledger, ActionTypes
<1>8. permit[a] = "none" /\ \A l \in Keys : claims[l] # a
  BY <1>4, <1>5, <1>6 DEF Ledger, PermitsOK, ClaimsOK, ActionTypes, ActionRow
<1>9. /\ \A b \in Actions \ {a} : actions'[b] = actions[b] /\ permit'[b] = permit[b]
      /\ \A l \in Keys \ {k} : claims'[l] = claims[l]
      /\ actions'[a] = x /\ permit'[a] = given /\ claims'[k] = a
  BY <1>2, <1>3, <1>4 DEF Ledger, ActionTypes
<1>10. LegacyOK'
  BY <1>9 DEF Ledger, LegacyOK
<1>11. ClaimsOK'
  <2>. SUFFICES ASSUME NEW l \in Keys, claims'[l] \in HostActions
                PROVE  actions'[claims'[l]].key = l /\ actions'[claims'[l]].state # "none"
    BY DEF ClaimsOK
  <2>1. CASE l = k
    BY <1>1, <1>9, <2>1
  <2>2. CASE l # k
    <3>1. claims'[l] = claims[l] /\ claims[l] # a /\ claims[l] \in Actions
      BY <1>8, <1>9, <2>2, Legacy
    <3>. QED  BY <1>9, <3>1 DEF Ledger, ClaimsOK
  <2>. QED  BY <2>1, <2>2
<1>12. PermitsOK'
  <2>. SUFFICES ASSUME NEW b \in Actions, permit'[b] # "none"
                PROVE  claims'[actions'[b].key] = b /\ actions'[b].state \in {"intent", "unknown", "confirmed"}
    BY DEF PermitsOK
  <2>1. CASE b = a
    BY <1>1, <1>9, <2>1
  <2>2. CASE b # a
    <3>1. claims[actions[b].key] = b /\ actions[b].key \in Keys /\ b # NoOne
      BY <1>9, <2>2, Legacy DEF Ledger, PermitsOK, ActionTypes, ActionRow
    <3>. QED  BY <1>6, <1>9, <2>2, <3>1 DEF Ledger, PermitsOK
  <2>. QED  BY <2>1, <2>2
<1>13. PerformedOK'
  BY <1>4, <1>6, <1>8, <1>9 DEF Ledger, PerformedOK, ActionTypes
<1>14. ImportedOK'
  <2>. SUFFICES ASSUME NEW p \in 1..Pages, p <= migration.imported
                PROVE  /\ actions'[LegacyAction[p]].state = "confirmed"
                       /\ claims'[LegacyKey[p]] = LegacyAction[p]
    BY <1>6 DEF ImportedOK
  <2>1. /\ LegacyAction[p] \in Actions \ {a} /\ LegacyAction[p] # NoOne /\ LegacyKey[p] \in Keys
        /\ actions[LegacyAction[p]].state = "confirmed" /\ claims[LegacyKey[p]] = LegacyAction[p]
    BY Legacy DEF Ledger, ImportedOK
  <2>. QED  BY <1>6, <1>9, <2>1
<1>15. PagesOK'
  BY <1>6 DEF Ledger, PagesOK
<1>. QED  BY <1>7, <1>10, <1>11, <1>12, <1>13, <1>14, <1>15 DEF Ledger

\* The outside world: what was granted is done once, or given up.
LEMMA PerformLedger ==
  ASSUME Ledger, NEW a \in Actions, Perform(a)
  PROVE  Ledger'
<1>. DEFINE k == actions[a].key
<1>1. k \in Keys /\ permit[a] = "granted" /\ claims[k] = a /\ a \in HostActions /\ a # NoOne
  BY Legacy DEF Perform, Ledger, PermitsOK, LegacyOK, ActionTypes, ActionRow
<1>2. performed[k] = 0
  BY <1>1 DEF Ledger, PerformedOK
<1>3. PICK p \in {"done", "none"} : permit' = [permit EXCEPT ![a] = p]
  BY DEF Perform
<1>4. UNCHANGED <<actions, claims, migration>>
  BY DEF Perform
<1>5. performed' \in [Keys -> Nat]
  <2>1. CASE performed' = [performed EXCEPT ![k] = @ + 1]
    <3>1. performed[k] + 1 \in Nat /\ performed \in [Keys -> Nat]
      BY <1>2 DEF Ledger, ActionTypes
    <3>. QED  BY <2>1, <3>1
  <2>2. CASE performed' = performed
    BY <2>2 DEF Ledger, ActionTypes
  <2>. QED  BY <2>1, <2>2 DEF Perform
<1>6. ActionTypes'
  BY <1>3, <1>4, <1>5 DEF Ledger, ActionTypes
<1>7. PagesOK' /\ ClaimsOK' /\ ImportedOK'
  BY <1>4 DEF Ledger, PagesOK, ClaimsOK, ImportedOK
<1>8. permit'[a] = p /\ \A b \in Actions \ {a} : permit'[b] = permit[b]
  BY <1>3 DEF Ledger, ActionTypes
<1>9. LegacyOK' /\ PermitsOK'
  BY <1>1, <1>4, <1>8 DEF Ledger, LegacyOK, PermitsOK
<1>10. PerformedOK'
  <2>1. CASE permit' = [permit EXCEPT ![a] = "done"] /\ performed' = [performed EXCEPT ![k] = @ + 1]
    <3>1. permit'[a] = "done" /\ performed'[k] = 1
      BY <1>1, <1>2, <2>1 DEF Ledger, ActionTypes
    <3>2. \A l \in Keys \ {k} : performed'[l] = performed[l]
      BY <2>1 DEF Ledger, ActionTypes
    <3>3. \A l \in Keys : claims[l] # NoOne => claims[l] \in Actions
      BY DEF Ledger, ActionTypes
    <3>. QED  BY <1>1, <1>4, <1>8, <3>1, <3>2, <3>3 DEF Ledger, PerformedOK
  <2>2. CASE performed' = performed
    <3>1. \A l \in Keys : claims[l] # NoOne => claims[l] \in Actions
      BY DEF Ledger, ActionTypes
    <3>. QED  BY <1>1, <1>4, <1>8, <2>2, <3>1 DEF Ledger, PerformedOK
  <2>. QED  BY <2>1, <2>2 DEF Perform
<1>. QED  BY <1>6, <1>7, <1>9, <1>10 DEF Ledger

\* A receipt frees the key only of an action that was not done and will not be.
LEMMA ReceiptLedger ==
  ASSUME Ledger, NEW a \in Actions, NEW r, NEW i, NEW state \in {"confirmed", "failed", "unknown"},
         NEW resolve, RecordReceipt(a, r, i, state, resolve)
  PROVE  Ledger'
<1>1. a \in HostActions /\ actions[a].state \notin {"none", "confirmed"} /\ Evidence(a, state)
  BY DEF RecordReceipt, Ledger, LegacyOK
<1>2. actions' = [actions EXCEPT ![a].state = state] /\ UNCHANGED <<migration, permit, performed>>
  BY DEF RecordReceipt
<1>3. actions[a] \in ActionRow
  BY DEF Ledger, ActionTypes
<1>4. /\ actions'[a] \in ActionRow /\ actions'[a].state = state /\ actions'[a].key = actions[a].key
      /\ \A b \in Actions \ {a} : actions'[b] = actions[b]
  <2>. DEFINE x == [actions[a] EXCEPT !.state = state]
  <2>1. x \in ActionRow /\ x.state = state /\ x.key = actions[a].key
    BY <1>3 DEF ActionRow
  <2>2. actions' = [actions EXCEPT ![a] = x]
    BY <1>2
  <2>. HIDE DEF x
  <2>. QED  BY <2>1, <2>2 DEF Ledger, ActionTypes
<1>5. /\ claims' \in [Keys -> Actions \cup {NoOne}]
      /\ \A k \in Keys : \/ claims'[k] = claims[k]
                         \/ claims[k] = a /\ claims'[k] = NoOne /\ state = "failed"
  BY DEF RecordReceipt, ClaimsAfter, Ledger, ActionTypes
<1>6. ActionTypes'
  BY <1>2, <1>3, <1>4, <1>5 DEF Ledger, ActionTypes
<1>7. PagesOK'
  BY <1>2 DEF Ledger, PagesOK
<1>8. LegacyOK'
  BY <1>1, <1>2, <1>4 DEF Ledger, LegacyOK
<1>9. ClaimsOK'
  <2>. SUFFICES ASSUME NEW k \in Keys, claims'[k] \in HostActions
                PROVE  actions'[claims'[k]].key = k /\ actions'[claims'[k]].state # "none"
    BY DEF ClaimsOK
  <2>1. claims'[k] = claims[k] /\ claims[k] \in Actions
    BY <1>5, Legacy
  <2>. QED  BY <1>4, <2>1 DEF Ledger, ClaimsOK
<1>10. PermitsOK'
  <2>. SUFFICES ASSUME NEW b \in Actions, permit[b] # "none"
                PROVE  claims'[actions'[b].key] = b /\ actions'[b].state \in {"intent", "unknown", "confirmed"}
    BY <1>2 DEF PermitsOK
  <2>1. /\ claims[actions[b].key] = b /\ actions[b].state \in {"intent", "unknown", "confirmed"}
        /\ actions[b].key \in Keys
    BY DEF Ledger, PermitsOK, ActionTypes, ActionRow
  <2>2. CASE b = a
    <3>1. state # "failed"
      BY <1>1, <2>2 DEF Evidence
    <3>. QED  BY <1>4, <1>5, <2>1, <2>2, <3>1
  <2>3. CASE b # a
    BY <1>4, <1>5, <2>1, <2>3
  <2>. QED  BY <2>2, <2>3
<1>11. PerformedOK'
  <2>1. \A k \in Keys : claims[k] = a /\ state = "failed" => permit[claims[k]] # "done"
    BY <1>1 DEF Evidence
  <2>. QED  BY <1>2, <1>5, <2>1 DEF Ledger, PerformedOK
<1>12. ImportedOK'
  <2>. SUFFICES ASSUME NEW p \in 1..Pages, p <= migration.imported
                PROVE  /\ actions'[LegacyAction[p]].state = "confirmed"
                       /\ claims'[LegacyKey[p]] = LegacyAction[p]
    BY <1>2 DEF ImportedOK
  <2>1. /\ LegacyAction[p] \in Actions \ {a} /\ LegacyKey[p] \in Keys
        /\ actions[LegacyAction[p]].state = "confirmed" /\ claims[LegacyKey[p]] = LegacyAction[p]
    BY <1>1, Legacy DEF Ledger, ImportedOK
  <2>. QED  BY <1>4, <1>5, <2>1
<1>. QED  BY <1>6, <1>7, <1>8, <1>9, <1>10, <1>11, <1>12 DEF Ledger

\* A page is read only when its key is free or its own.
LEMMA ImportLedger ==
  ASSUME Ledger, MigrationImport
  PROVE  Ledger'
<1>. DEFINE n == migration.imported + 1
            a == LegacyAction[n]
            k == LegacyKey[n]
            x == [state |-> "confirmed", run |-> NoOne, key |-> k]
<1>1. migration \in MigrationRow /\ migration.stage = "validated" /\ n \in 1..Pages /\ n <= migration.pages
  BY Legacy DEF MigrationImport, Ledger, PagesOK, ActionTypes, MigrationRow
<1>2. a \in Actions /\ a \notin HostActions /\ k \in Keys /\ a # NoOne
  BY <1>1, Legacy
<1>3. x \in ActionRow /\ x.state = "confirmed"
  BY <1>2 DEF ActionRow
<1>4. /\ claims[k] \in {NoOne, a}
      /\ actions' = [actions EXCEPT ![a] = x] /\ claims' = [claims EXCEPT ![k] = a]
  BY DEF MigrationImport, ImportPage
<1>. HIDE DEF x
<1>5. /\ actions'[a] = x /\ \A b \in Actions \ {a} : actions'[b] = actions[b]
      /\ claims'[k] = a /\ \A l \in Keys \ {k} : claims'[l] = claims[l]
  BY <1>2, <1>4 DEF Ledger, ActionTypes
<1>6. UNCHANGED <<permit, performed>>
  BY DEF MigrationImport
<1>7. /\ migration'.pages = migration.pages /\ migration'.imported = n
      /\ migration'.stage = IF n = migration.pages THEN "imported" ELSE "validated"
      /\ migration' \in MigrationRow
  <2>1. PICK s \in {"imported", "validated"} :
          /\ s = IF n = migration.pages THEN "imported" ELSE "validated"
          /\ migration' = [migration EXCEPT !.imported = n, !.stage = s]
    BY <1>1 DEF MigrationImport
  <2>2. n \in Nat
    BY <1>1
  <2>. HIDE DEF n
  <2>. QED  BY <1>1, <2>1, <2>2 DEF MigrationRow
<1>. HIDE DEF n
<1>8. ActionTypes'
  BY <1>2, <1>3, <1>4, <1>6, <1>7 DEF Ledger, ActionTypes
<1>9. PagesOK'
  <2>1. migration.pages \in Nat /\ n \in Nat /\ migration.pages <= Pages
    BY <1>1 DEF MigrationRow, Ledger, PagesOK
  <2>2. migration'.stage \notin {"preview"} /\ (migration'.stage = "validated" => n # migration.pages)
    BY <1>7
  <2>. QED  BY <1>1, <1>7, <2>1, <2>2 DEF PagesOK
<1>10. LegacyOK'
  BY <1>2, <1>3, <1>5, <1>6 DEF Ledger, LegacyOK
<1>11. ClaimsOK'
  <2>. SUFFICES ASSUME NEW l \in Keys, claims'[l] \in HostActions
                PROVE  actions'[claims'[l]].key = l /\ actions'[claims'[l]].state # "none"
    BY DEF ClaimsOK
  <2>1. claims'[l] = claims[l] /\ claims[l] # a /\ claims[l] \in Actions
    BY <1>2, <1>5, Legacy
  <2>. QED  BY <1>5, <2>1 DEF Ledger, ClaimsOK
<1>12. PermitsOK'
  <2>. SUFFICES ASSUME NEW b \in Actions, permit[b] # "none"
                PROVE  claims'[actions'[b].key] = b /\ actions'[b].state \in {"intent", "unknown", "confirmed"}
    BY <1>6 DEF PermitsOK
  <2>1. /\ claims[actions[b].key] = b /\ actions[b].state \in {"intent", "unknown", "confirmed"}
        /\ actions[b].key \in Keys /\ b # a /\ b # NoOne
    BY <1>2, Legacy DEF Ledger, PermitsOK, LegacyOK, ActionTypes, ActionRow
  <2>. QED  BY <1>4, <1>5, <2>1
<1>13. PerformedOK'
  <2>1. performed[k] = 0
    BY <1>2, <1>4 DEF Ledger, PerformedOK, LegacyOK
  <2>. QED  BY <1>5, <1>6, <2>1 DEF Ledger, PerformedOK
<1>14. ImportedOK'
  <2>. SUFFICES ASSUME NEW p \in 1..Pages, p <= n
                PROVE  /\ actions'[LegacyAction[p]].state = "confirmed"
                       /\ claims'[LegacyKey[p]] = LegacyAction[p]
    BY <1>7 DEF ImportedOK
  <2>1. CASE p = n
    BY <1>3, <1>5, <2>1
  <2>2. CASE p # n
    <3>1. p <= migration.imported
      BY <1>1, <2>2 DEF n, MigrationRow
    <3>2. /\ LegacyAction[p] \in Actions /\ LegacyKey[p] \in Keys /\ LegacyAction[p] # NoOne
          /\ actions[LegacyAction[p]].state = "confirmed" /\ claims[LegacyKey[p]] = LegacyAction[p]
      BY <3>1, Legacy DEF Ledger, ImportedOK
    <3>3. actions'[LegacyAction[p]].state = "confirmed"
      BY <1>3, <1>5, <3>2
    <3>4. claims'[LegacyKey[p]] = LegacyAction[p]
      BY <1>4, <1>5, <3>2
    <3>. QED  BY <3>3, <3>4
  <2>. QED  BY <2>1, <2>2
<1>. QED  BY <1>8, <1>9, <1>10, <1>11, <1>12, <1>13, <1>14 DEF Ledger

\* The other steps of a migration count its pages.
LEMMA MigrationLedger ==
  ASSUME SettingTypes, Ledger, Migrate
  PROVE  Ledger'
<1>1. CASE MigrationImport
  BY <1>1, ImportLedger
<1>2. CASE MigrationPreview \/ MigrationAppend \/ MigrationSeal \/ MigrationValidate \/ MigrationSwitch
  <2>1. UNCHANGED <<actions, claims, permit, performed>>
    BY <1>2 DEF MigrationPreview, MigrationAppend, MigrationSeal, MigrationValidate, MigrationSwitch,
                OnlyMigration, MigrationStep
  <2>2. SUFFICES migration' \in MigrationRow /\ migration'.imported \in {migration.imported, 0} /\ PagesOK'
    BY <2>1 DEF Ledger, ActionTypes, LegacyOK, ClaimsOK, PermitsOK, PerformedOK, ImportedOK
  <2>. USE Legacy DEF Ledger, ActionTypes, MigrationRow, PagesOK
  <2>3. CASE MigrationPreview
    BY <2>3 DEF MigrationPreview, SettingTypes, WorkflowRow
  <2>4. CASE MigrationAppend
    BY <2>4 DEF MigrationAppend
  <2>5. CASE MigrationSeal
    BY <2>5 DEF MigrationSeal
  <2>6. CASE MigrationValidate
    <3>1. PICK s \in {"preview", "validated"} :
            migration' = [migration EXCEPT !.validated = @ + 1, !.stage = s]
      BY <2>6 DEF MigrationValidate
    <3>2. migration.stage = "preview"
      BY <2>6 DEF MigrationValidate
    <3>3. /\ migration'.pages = migration.pages /\ migration'.imported = migration.imported
          /\ migration'.stage = s /\ migration' \in MigrationRow
      <4>1. migration.validated + 1 \in Nat /\ migration \in MigrationRow
        OBVIOUS
      <4>2. migration'.pages = migration.pages /\ migration'.imported = migration.imported
            /\ migration'.stage = s
        BY <3>1, <4>1
      <4>. QED  BY <3>1, <4>1, <4>2
    <3>. HIDE DEF MigrationRow
    <3>4. migration'.imported = 0 /\ migration'.pages > 0 /\ migration'.pages <= Pages
      BY <3>2, <3>3
    <3>. QED  BY <3>3, <3>4
  <2>7. CASE MigrationSwitch
    BY <2>7 DEF MigrationSwitch
  <2>. QED  BY <1>2, <2>3, <2>4, <2>5, <2>6, <2>7
<1>. QED  BY <1>1, <1>2 DEF Migrate

\* Configuration, runs and the administration of computers touch no action.
LEMMA ActionsApart ==
  ASSUME Ledger, UNCHANGED <<actions, claims, permit, performed, migration>>
  PROVE  Ledger'
BY DEF Ledger, ActionTypes, PagesOK, LegacyOK, ClaimsOK, PermitsOK, PerformedOK, ImportedOK

-----------------------------------------------------------------------------
(* Settings and the reach of runs *)

\* No change is prepared.
LEMMA NoPreviewTyped == NoPreview \in PreviewRow /\ NoPreview.kind = "none"
BY DEF NoPreview, PreviewRow

\* No run is open at the start.
LEMMA ReachInit == Init => Reach
<1>. SUFFICES ASSUME Init PROVE Reach
  OBVIOUS
<1>1. SettingTypes
  BY NoPreviewTyped, ConstantsAssumption DEF Init, SettingTypes, WorkflowRow
<1>2. NoRun \in RunRow /\ NoRun.limit = {} /\ NoRun.snap = {}
  BY DEF NoRun, RunRow
<1>3. RunTypes
  BY <1>2 DEF Init, RunTypes
<1>4. LimitsOK
  BY <1>2 DEF Init, LimitsOK
<1>. QED  BY <1>1, <1>3, <1>4 DEF Reach

\* A change is prepared under the versions of the moment.
LEMMA PreparedTyped ==
  ASSUME SettingTypes, NEW x \in PreviewRow
  PROVE  Prepared(x) \in PreviewRow /\ Prepared(x).kind = x.kind /\ Prepared(x).state = x.state
<1>1. wf.version \in Nat /\ integ.version \in Nat /\ wf.cversion \in Nat
  BY DEF SettingTypes, WorkflowRow
<1>2. Prepared(x).kind = x.kind /\ Prepared(x).state = x.state
  BY DEF Prepared, PreviewRow
<1>3. Prepared(x) \in PreviewRow
  BY <1>1 DEF Prepared, PreviewRow
<1>. QED  BY <1>2, <1>3

\* What restrictRuns leaves of a run lies within what the change left of it.
LEMMA RestrictKeeps ==
  ASSUME RunTypes, LimitsOK, NEW old \in SUBSET Stores, NEW new \in SUBSET Stores,
         runs' = Restrict(old, new), floor' = FloorAfter(old, new)
  PROVE  RunTypes' /\ LimitsOK'
<1>1. \A r \in Runs : runs[r] \in RunRow /\ floor[r] \in SUBSET Stores
  BY DEF RunTypes
<1>2. \A r \in Runs :
        /\ runs'[r] \in RunRow /\ floor'[r] \in SUBSET Stores
        /\ runs'[r].state = runs[r].state /\ runs'[r].snap = runs[r].snap
        /\ runs[r].state = "open" => floor'[r] = floor[r] \ (old \ new)
        /\ runs[r].state = "open" =>
             runs'[r].limit \subseteq runs[r].limit /\ runs'[r].limit \cap (old \ new) = {}
        /\ runs[r].state # "open" => runs'[r].limit = runs[r].limit /\ floor'[r] = floor[r]
  <2>1. CASE old \subseteq new
    BY <1>1, <2>1 DEF Restrict, FloorAfter
  <2>2. CASE ~(old \subseteq new)
    <3>. SUFFICES ASSUME NEW r \in Runs
                  PROVE  /\ runs'[r] \in RunRow /\ floor'[r] \in SUBSET Stores
                         /\ runs'[r].state = runs[r].state /\ runs'[r].snap = runs[r].snap
                         /\ runs[r].state = "open" => floor'[r] = floor[r] \ (old \ new)
                         /\ runs[r].state = "open" =>
                              /\ runs'[r].limit \subseteq runs[r].limit
                              /\ runs'[r].limit \cap (old \ new) = {}
                         /\ runs[r].state # "open" => runs'[r].limit = runs[r].limit /\ floor'[r] = floor[r]
      OBVIOUS
    <3>1. floor'[r] = IF runs[r].state = "open" THEN floor[r] \ (old \ new) ELSE floor[r]
      BY DEF FloorAfter
    <3>2. CASE runs[r].state = "open"
      <4>1. runs'[r] = [runs[r] EXCEPT !.limit = runs[r].limit \cap new]
        BY <2>2, <3>2 DEF Restrict
      <4>. QED  BY <1>1, <3>1, <3>2, <4>1 DEF RunRow
    <3>3. CASE runs[r].state # "open"
      BY <1>1, <2>2, <3>1, <3>3 DEF Restrict
    <3>. QED  BY <3>2, <3>3
  <2>. QED  BY <2>1, <2>2
<1>3. DOMAIN runs' = Runs /\ DOMAIN floor' = Runs /\ runs' = [r \in Runs |-> runs'[r]]
      /\ floor' = [r \in Runs |-> floor'[r]]
  BY DEF Restrict, FloorAfter, RunTypes
<1>4. RunTypes'
  BY <1>2, <1>3 DEF RunTypes
<1>5. LimitsOK'
  BY <1>2 DEF LimitsOK
<1>. QED  BY <1>4, <1>5

\* Steps that leave runs alone.
LEMMA RunsApart ==
  ASSUME RunTypes, LimitsOK, UNCHANGED <<runs, floor>>
  PROVE  RunTypes' /\ LimitsOK'
BY DEF RunTypes, LimitsOK

\* A prepared change has the shape of what administrators ask for.
LEMMA PrepareReach ==
  ASSUME Reach, PrepareChange
  PROVE  Reach'
<1>1. PICK c \in Changes :
        preview' = Prepared([NoPreview EXCEPT !.kind = c.kind, !.to = c.to, !.state = c.state])
  BY DEF PrepareChange
<1>. DEFINE x == [NoPreview EXCEPT !.kind = c.kind, !.to = c.to, !.state = c.state]
<1>2. /\ c.kind \in {"configuration", "integration", "authorization", "control"}
      /\ c.to \in SUBSET Stores /\ c.state \in {"none", "active", "paused"}
      /\ c.kind = "control" => c.state # "none"
  BY ConstantsAssumption
<1>3. x \in PreviewRow /\ x.kind = c.kind /\ x.state = c.state
  BY <1>2, NoPreviewTyped DEF PreviewRow
<1>. HIDE DEF x
<1>4. preview' \in PreviewRow /\ (preview'.kind = "control" => preview'.state # "none")
  BY <1>1, <1>2, <1>3, PreparedTyped DEF Reach, x
<1>5. UNCHANGED <<wf, config, auths, integ, runs, floor>>
  BY DEF PrepareChange
<1>. QED  BY <1>4, <1>5, RunsApart DEF Reach, SettingTypes

\* Saving narrows open runs in the same transaction that changes the policy.
LEMMA SaveReach ==
  ASSUME Reach, SaveChange
  PROVE  Reach'
<1>1. /\ config \in SUBSET Stores /\ auths \in SUBSET Stores /\ integ.mapped \in SUBSET Stores
      /\ integ.version \in Nat /\ preview.to \in SUBSET Stores /\ wf \in WorkflowRow
      /\ preview.state \in {"none", "active", "paused"}
      /\ preview.kind = "control" => preview.state # "none"
  BY DEF Reach, SettingTypes, PreviewRow
<1>2. preview' \in PreviewRow /\ (preview'.kind = "control" => preview'.state # "none")
  BY NoPreviewTyped DEF SaveChange
<1>3. \A old, new : Narrowed(old, new) \in Nat
  BY DEF Narrowed
<1>4. CASE SaveConfiguration
  <2>. DEFINE old == LivePolicy(config, integ.mapped)
              new == LivePolicy(preview.to, integ.mapped)
  <2>1. old \in SUBSET Stores /\ new \in SUBSET Stores /\ (config = {} => old \subseteq new)
    BY <1>1 DEF LivePolicy
  <2>2. runs' = Restrict(old, new) /\ floor' = FloorAfter(old, new)
    BY <1>4, <2>1 DEF SaveConfiguration, Restrict
  <2>3. RunTypes' /\ LimitsOK'
    BY <2>1, <2>2, RestrictKeeps DEF Reach
  <2>4. PICK v \in Nat, n \in Nat : wf' = [wf EXCEPT !.version = v, !.cversion = n]
    <3>1. wf.version + 1 \in Nat /\ wf.cversion + Narrowed(old, new) \in Nat
      BY <1>1, <1>3 DEF WorkflowRow
    <3>. QED  BY <1>4, <3>1 DEF SaveConfiguration
  <2>5. wf' \in WorkflowRow
    BY <1>1, <2>4 DEF WorkflowRow
  <2>6. SettingTypes'
    BY <1>1, <1>2, <1>4, <2>5 DEF SaveConfiguration, SettingTypes, Reach
  <2>. QED  BY <2>3, <2>6 DEF Reach
<1>5. CASE SaveIntegration
  <2>. DEFINE old == LivePolicy(config, integ.mapped)
              new == LivePolicy(config, preview.to)
  <2>1. old \in SUBSET Stores /\ new \in SUBSET Stores
    BY <1>1 DEF LivePolicy
  <2>2. runs' = Restrict(old, new) /\ floor' = FloorAfter(old, new)
    BY <1>5 DEF SaveIntegration
  <2>3. RunTypes' /\ LimitsOK'
    BY <2>1, <2>2, RestrictKeeps DEF Reach
  <2>4. PICK n \in Nat : wf' = [wf EXCEPT !.cversion = @ + n]
    BY <1>3, <1>5 DEF SaveIntegration
  <2>5. wf' \in WorkflowRow
    BY <1>1, <2>4 DEF WorkflowRow
  <2>6. SettingTypes'
    BY <1>1, <1>2, <1>5, <2>5 DEF SaveIntegration, SettingTypes, Reach
  <2>. QED  BY <2>3, <2>6 DEF Reach
<1>6. CASE SaveAuthorization
  <2>1. wf' \in WorkflowRow
    BY <1>1, <1>6 DEF SaveAuthorization, WorkflowRow
  <2>. QED  BY <1>1, <1>2, <1>6, <2>1, RunsApart DEF SaveAuthorization, SettingTypes, Reach
<1>7. CASE SaveControl
  <2>1. preview.state \in {"active", "paused"}
    BY <1>1, <1>7 DEF SaveControl
  <2>2. wf' \in WorkflowRow
    <3>1. PICK n \in Nat : wf' = [wf EXCEPT !.control = preview.state, !.cversion = n]
      <4>1. wf.cversion + 1 \in Nat
        BY <1>1 DEF WorkflowRow
      <4>. QED  BY <1>7, <4>1 DEF SaveControl
    <3>. QED  BY <1>1, <2>1, <3>1 DEF WorkflowRow
  <2>. QED  BY <1>1, <1>2, <1>7, <2>2, RunsApart DEF SaveControl, SettingTypes, Reach
<1>. QED  BY <1>4, <1>5, <1>6, <1>7 DEF SaveChange

\* Of the administration of computers only a takeover touches runs.
LEMMA InstallReach ==
  ASSUME Reach, Ledger, Install
  PROVE  Reach'
<1>1. CASE UNCHANGED <<wf, config, auths, integ, preview, runs, floor>>
  BY <1>1, RunsApart DEF Reach, SettingTypes
<1>2. ASSUME NEW i \in Installations, NEW oldHost \in {"paused", "unavailable"}, PrepareTakeover(i, oldHost)
      PROVE  Reach'
  <2>. DEFINE x == [NoPreview EXCEPT !.kind = "takeover", !.install = i, !.epoch = wf.epoch,
                      !.old = wf.assigned, !.oldHost = oldHost, !.pending = PendingNow]
  <2>1. wf.epoch \in Nat /\ wf.assigned \in Installations \cup {NoOne}
    BY DEF Reach, SettingTypes, WorkflowRow
  <2>2. PendingNow \in SUBSET (Actions \X ActionRow)
    BY DEF PendingNow, Pending, Ledger, ActionTypes
  <2>3. x \in PreviewRow /\ x.kind = "takeover"
    BY <2>1, <2>2, NoPreviewTyped DEF PreviewRow
  <2>. HIDE DEF x
  <2>4. preview' = Prepared(x) /\ UNCHANGED <<wf, config, integ, auths, runs, floor>>
    BY <1>2 DEF PrepareTakeover, x
  <2>5. preview' \in PreviewRow /\ preview'.kind # "control"
    BY <2>3, <2>4, PreparedTyped DEF Reach
  <2>. QED  BY <2>4, <2>5, RunsApart DEF Reach, SettingTypes
<1>3. ASSUME NEW i \in Installations, Takeover(i)
      PROVE  Reach'
  <2>. DEFINE n == wf.epoch + 1
  <2>1. wf \in WorkflowRow /\ n \in Nat
    BY DEF Reach, SettingTypes, WorkflowRow
  <2>. HIDE DEF n
  <2>2. wf' \in WorkflowRow
    <3>1. wf' = [wf EXCEPT !.assigned = i, !.epoch = n, !.lease = NoOne, !.live = FALSE]
      BY <1>3 DEF Takeover, Handover, n
    <3>. QED  BY <2>1, <3>1 DEF WorkflowRow
  <2>3. SettingTypes'
    BY <1>3, <2>2, NoPreviewTyped DEF Takeover, SettingTypes, Reach
  <2>4. UNCHANGED floor /\ runs' = [r \in Runs |-> IF runs[r].state = "open"
          THEN [runs[r] EXCEPT !.install = i, !.epoch = n] ELSE runs[r]]
    BY <1>3 DEF Takeover, Handover, n
  <2>5. \A r \in Runs : /\ runs'[r] \in RunRow /\ runs'[r].state = runs[r].state
                        /\ runs'[r].limit = runs[r].limit /\ runs'[r].snap = runs[r].snap
    <3>. SUFFICES ASSUME NEW r \in Runs
                  PROVE  /\ runs'[r] \in RunRow /\ runs'[r].state = runs[r].state
                         /\ runs'[r].limit = runs[r].limit /\ runs'[r].snap = runs[r].snap
      OBVIOUS
    <3>1. runs[r] \in RunRow
      BY DEF Reach, RunTypes
    <3>2. CASE runs[r].state = "open"
      <4>1. runs'[r] = [runs[r] EXCEPT !.install = i, !.epoch = n]
        BY <2>4, <3>2
      <4>. QED  BY <2>1, <3>1, <4>1 DEF RunRow
    <3>3. CASE runs[r].state # "open"
      BY <2>4, <3>1, <3>3
    <3>. QED  BY <3>2, <3>3
  <2>6. RunTypes'
    BY <2>4, <2>5 DEF Reach, RunTypes
  <2>7. LimitsOK'
    BY <2>4, <2>5 DEF Reach, LimitsOK
  <2>. QED  BY <2>3, <2>6, <2>7 DEF Reach
<1>4. PICK i \in Installations :
        \/ UNCHANGED <<wf, config, auths, integ, preview, runs, floor>>
        \/ \E oldHost \in {"paused", "unavailable"} : PrepareTakeover(i, oldHost)
        \/ Takeover(i)
  BY DEF Install, Register, RecordChecks, RecordHost, ChecksLapse, SetState, InstallStep
<1>. QED  BY <1>1, <1>2, <1>3, <1>4

\* A run starts with all the live policy allows.
LEMMA StartReach ==
  ASSUME Reach, NEW r \in Runs, NEW i \in Installations, NEW mode, Start(r, i, mode)
  PROVE  Reach'
<1>. DEFINE snap == LivePolicy(config, integ.mapped)
            x == [state |-> "open", status |-> "other", install |-> i, epoch |-> wf.epoch,
                  version |-> wf.version, iversion |-> integ.version, snap |-> snap, limit |-> snap]
<1>1. snap \in SUBSET Stores /\ wf \in WorkflowRow /\ integ.version \in Nat
  BY DEF Reach, SettingTypes, LivePolicy
<1>2. runs' = [runs EXCEPT ![r] = x] /\ floor' = [floor EXCEPT ![r] = snap]
  BY DEF Start
<1>. HIDE DEF snap
<1>3. x \in RunRow /\ x.state = "open" /\ x.limit = snap /\ x.snap = snap
  BY <1>1 DEF RunRow, WorkflowRow
<1>. HIDE DEF x
<1>4. RunTypes'
  BY <1>1, <1>2, <1>3 DEF Reach, RunTypes
<1>5. /\ runs'[r] = x /\ floor'[r] = snap
      /\ \A s \in Runs \ {r} : runs'[s] = runs[s] /\ floor'[s] = floor[s]
  BY <1>2 DEF Reach, RunTypes
<1>6. LimitsOK'
  BY <1>3, <1>5 DEF Reach, LimitsOK
<1>7. wf' \in WorkflowRow
  BY <1>1 DEF Start, WorkflowRow
<1>8. UNCHANGED <<config, integ, auths>> /\ preview' \in {NoPreview, preview}
  BY DEF Start
<1>9. SettingTypes'
  BY <1>7, <1>8, NoPreviewTyped DEF Reach, SettingTypes
<1>. QED  BY <1>4, <1>6, <1>9 DEF Reach

\* Nothing else makes a run open, or changes what a run may reach.
LEMMA RunReach ==
  ASSUME Reach, RunOperation \/ LeaseLapses \/ \E r \in Runs : Prune(r)
  PROVE  Reach'
<1>1. ASSUME NEW r \in Runs, NEW i \in Installations, NEW mode, Start(r, i, mode)
      PROVE  Reach'
  BY <1>1, StartReach
<1>2. ASSUME NEW r \in Runs, NEW i \in Installations, Renew(r, i) \/ Release(r, i)
      PROVE  Reach'
  <2>1. wf \in WorkflowRow
    BY DEF Reach, SettingTypes
  <2>2. wf' \in WorkflowRow
    BY <1>2, <2>1 DEF Renew, Release, WorkflowRow
  <2>3. UNCHANGED <<config, integ, auths, preview, runs, floor>>
    BY <1>2 DEF Renew, Release, RunStep
  <2>. QED  BY <2>2, <2>3, RunsApart DEF Reach, SettingTypes
<1>3. CASE LeaseLapses
  <2>1. wf' \in WorkflowRow
    BY <1>3 DEF LeaseLapses, WorkflowRow, Reach, SettingTypes
  <2>2. UNCHANGED <<config, integ, auths, preview, runs, floor>>
    BY <1>3 DEF LeaseLapses, RunStep
  <2>. QED  BY <2>1, <2>2, RunsApart DEF Reach, SettingTypes
<1>4. ASSUME NEW r \in Runs, NEW i, NEW status \in {"succeeded", "other"}, NEW finish \in BOOLEAN,
             Summarise(r, i, status, finish)
      PROVE  Reach'
  <2>1. PICK st \in {"open", "finished"} :
          runs' = [runs EXCEPT ![r] = [runs[r] EXCEPT !.status = status, !.state = st]]
    <3>1. runs' = [runs EXCEPT ![r].status = status, ![r].state = IF finish THEN "finished" ELSE "open"]
      BY <1>4 DEF Summarise
    <3>. QED  BY <3>1 DEF Reach, RunTypes
  <2>. DEFINE x == [runs[r] EXCEPT !.status = status, !.state = st]
  <2>2. x \in RunRow /\ x.snap = runs[r].snap /\ x.limit = runs[r].limit /\ runs[r].state = "open"
    BY <1>4 DEF Reach, RunTypes, RunRow, Summarise, Bound
  <2>3. runs' = [runs EXCEPT ![r] = x]
    BY <2>1
  <2>. HIDE DEF x
  <2>4. UNCHANGED <<config, integ, auths, preview, floor>>
    BY <1>4 DEF Summarise, RunStep
  <2>5. RunTypes'
    BY <2>2, <2>3, <2>4 DEF Reach, RunTypes
  <2>6. LimitsOK'
    <3>1. \A s \in Runs : runs'[s].limit = runs[s].limit
                          /\ (runs'[s].state = "open" => runs[s].state = "open")
      BY <2>2, <2>3 DEF Reach, RunTypes
    <3>. QED  BY <2>4, <3>1 DEF Reach, LimitsOK
  <2>7. wf' \in WorkflowRow
    <3>1. wf' = wf \/ wf' = [wf EXCEPT !.lease = NoOne, !.live = FALSE]
      BY <1>4 DEF Summarise
    <3>. QED  BY <3>1 DEF Reach, SettingTypes, WorkflowRow
  <2>. QED  BY <2>4, <2>5, <2>6, <2>7 DEF Reach, SettingTypes
<1>5. ASSUME NEW r \in Runs, Prune(r)
      PROVE  Reach'
  <2>. DEFINE x == [NoRun EXCEPT !.state = "pruned"]
  <2>1. x \in RunRow /\ x.state = "pruned" /\ x.limit = {} /\ x.snap = {}
    BY DEF NoRun, RunRow
  <2>2. runs' = [runs EXCEPT ![r] = x]
    BY <1>5 DEF Prune
  <2>. HIDE DEF x
  <2>3. UNCHANGED <<wf, config, integ, auths, preview, floor>>
    BY <1>5 DEF Prune, RunStep
  <2>4. RunTypes'
    BY <2>1, <2>2, <2>3 DEF Reach, RunTypes
  <2>5. LimitsOK'
    BY <2>1, <2>2, <2>3 DEF Reach, RunTypes, LimitsOK
  <2>. QED  BY <2>3, <2>4, <2>5 DEF Reach, SettingTypes
<1>. QED  BY <1>1, <1>2, <1>3, <1>4, <1>5 DEF RunOperation

\* A prepared backfill changes no run.
LEMMA BackfillReach ==
  ASSUME Reach, NEW i \in Installations, PrepareBackfill(i)
  PROVE  Reach'
<1>. DEFINE x == [NoPreview EXCEPT !.kind = "backfill", !.install = i, !.epoch = wf.epoch]
<1>1. wf.epoch \in Nat
  BY DEF Reach, SettingTypes, WorkflowRow
<1>2. x \in PreviewRow /\ x.kind = "backfill"
  BY <1>1, NoPreviewTyped DEF PreviewRow
<1>. HIDE DEF x
<1>3. preview' = Prepared(x) /\ UNCHANGED <<wf, config, integ, auths, runs, floor>>
  BY DEF PrepareBackfill, x
<1>4. preview' \in PreviewRow /\ preview'.kind # "control"
  BY <1>2, <1>3, PreparedTyped DEF Reach
<1>. QED  BY <1>3, <1>4, RunsApart DEF Reach, SettingTypes

\* A migration replaces what is configured; open runs keep what they have.
LEMMA MigrateReach ==
  ASSUME Reach, Migrate
  PROVE  Reach'
<1>1. UNCHANGED <<runs, floor, preview>>
  BY DEF Migrate, MigrationPreview, MigrationAppend, MigrationSeal, MigrationValidate, MigrationImport,
         MigrationSwitch, OnlyMigration, MigrationStep
<1>2. CASE UNCHANGED <<wf, config, integ, auths>>
  BY <1>1, <1>2, RunsApart DEF Reach, SettingTypes
<1>3. CASE /\ config' = MigratedStores /\ auths' = MigratedStores
           /\ integ' = [version |-> integ.version + 1, mapped |-> Stores]
           /\ wf' = [wf EXCEPT !.version = @ + 1, !.cversion = @ + 1]
  <2>. DEFINE v == wf.version + 1
              n == wf.cversion + 1
  <2>1. wf \in WorkflowRow /\ v \in Nat /\ n \in Nat /\ integ.version + 1 \in Nat
    BY DEF Reach, SettingTypes, WorkflowRow
  <2>2. wf' = [wf EXCEPT !.version = v, !.cversion = n]
    BY <1>3
  <2>. HIDE DEF v, n
  <2>3. wf' \in WorkflowRow
    BY <2>1, <2>2 DEF WorkflowRow
  <2>4. integ' \in [version : Nat, mapped : SUBSET Stores] /\ MigratedStores \in SUBSET Stores
    BY <1>3, <2>1, ConstantsAssumption
  <2>. QED  BY <1>1, <1>3, <2>3, <2>4, RunsApart DEF Reach, SettingTypes
<1>. QED  BY <1>2, <1>3 DEF Migrate, MigrationPreview, MigrationAppend, MigrationSeal, MigrationValidate,
                            MigrationImport, MigrationSwitch, OnlyMigration, MigrationStep

-----------------------------------------------------------------------------
(* The invariant, and what follows *)

\* What a step is, as far as the ledger of actions can tell.
LEMMA StepLedger ==
  ASSUME Reach, Ledger, [Next]_vars
  PROVE  Ledger'
<1>1. CASE UNCHANGED <<actions, claims, permit, performed, migration>>
  BY <1>1, ActionsApart
<1>2. CASE Install
  <2>1. ASSUME NEW i \in Installations, Takeover(i)
        PROVE  Ledger'
    BY <2>1, HandoverLedger DEF Takeover
  <2>. QED  BY <1>1, <1>2, <2>1 DEF Install, Register, RecordChecks, RecordHost, ChecksLapse, SetState,
                                    PrepareTakeover, InstallStep
<1>3. CASE ActionOperation
  <2>1. ASSUME NEW a \in Actions, Perform(a)
        PROVE  Ledger'
    BY <2>1, PerformLedger
  <2>2. ASSUME NEW a \in HostActions, NEW k \in Keys, NEW r \in Runs, NEW i \in Installations,
               NEW answered \in BOOLEAN, Intent(a, k, r, i, answered)
        PROVE  Ledger'
    BY <2>2, IntentLedger
  <2>3. ASSUME NEW a \in Actions, NEW r \in Runs, NEW i \in Installations,
               NEW state \in {"confirmed", "failed", "unknown"}, NEW resolve \in BOOLEAN,
               RecordReceipt(a, r, i, state, resolve)
        PROVE  Ledger'
    BY <2>3, ReceiptLedger
  <2>. QED  BY <1>3, <2>1, <2>2, <2>3 DEF ActionOperation
<1>4. CASE Migrate
  BY <1>4, MigrationLedger DEF Reach
<1>5. CASE \/ PrepareChange \/ SaveChange \/ \E i \in Installations : PrepareBackfill(i)
           \/ RunOperation \/ LeaseLapses \/ \E r \in Runs : Prune(r)
  <2>1. CASE \/ PrepareChange \/ SaveChange \/ \E i \in Installations : PrepareBackfill(i)
             \/ LeaseLapses \/ \E r \in Runs : Prune(r)
    BY <1>1, <2>1 DEF PrepareChange, SaveChange, PrepareBackfill, LeaseLapses, Prune, RunStep
  <2>2. CASE RunOperation
    BY <1>1, <2>2 DEF RunOperation, Start, Renew, Release, Summarise, RunStep
  <2>. QED  BY <1>5, <2>1, <2>2
<1>6. CASE UNCHANGED vars
  BY <1>1, <1>6 DEF vars
<1>. QED  BY <1>2, <1>3, <1>4, <1>5, <1>6 DEF Next

\* The same for settings and the reach of runs.
LEMMA StepReach ==
  ASSUME Reach, Ledger, [Next]_vars
  PROVE  Reach'
<1>1. CASE UNCHANGED <<wf, config, integ, auths, preview, runs, floor>>
  BY <1>1, RunsApart DEF Reach, SettingTypes
<1>2. CASE ActionOperation
  BY <1>1, <1>2 DEF ActionOperation, Intent, Perform, RecordReceipt
<1>3. CASE UNCHANGED vars
  BY <1>1, <1>3 DEF vars
<1>. QED  BY <1>2, <1>3, PrepareReach, SaveReach, InstallReach, BackfillReach, RunReach, MigrateReach DEF Next

\* The inductive invariant: who may act holds the key, a key that was acted
\* upon stays held, imported history stays, and no run may reach more than
\* what the saved changes left it (claimAction, actionOperation, restrictRuns).
THEOREM WorkflowInvariant == Spec => [](Reach /\ Ledger)
<1>1. Init => Reach /\ Ledger
  BY ReachInit, LedgerInit
<1>2. Reach /\ Ledger /\ [Next]_vars => (Reach /\ Ledger)'
  BY StepReach, StepLedger
<1>. QED  BY <1>1, <1>2, PTL DEF Spec

\* Every reachable state has the types of the model.
THEOREM WorkflowTypes == Spec => []TypeOK
<1>1. Reach /\ Ledger => TypeOK
  BY DEF Reach, Ledger, TypeOK, SettingTypes, RunTypes, ActionTypes, WorkflowRow, ActionRow
<1>. QED  BY <1>1, WorkflowInvariant, PTL

\* No key is acted upon twice and none of the migrated history again, over
\* lost answers, late receipts, takeovers and repeated announcements
\* (claimAction, actionOperation, importChunk).
THEOREM WorkflowNotReplayed == Spec => []NotReplayed
<1>1. Reach /\ Ledger => NotReplayed
  BY DEF Ledger, PerformedOK, ImportedOK, NotReplayed
<1>. QED  BY <1>1, WorkflowInvariant, PTL

\* An action is announced only for a store that no change saved since the run
\* began took away from it (restrictRuns, authorizeAction).
THEOREM WorkflowReachNarrows == Spec => ReachOnlyNarrows
<1>. DEFINE Allowed == \A a \in Actions :
              actions'[a].state = "intent" /\ actions[a].state # "intent"
                => StoreOf[actions'[a].key] \in floor[actions'[a].run]
<1>1. Reach /\ Ledger /\ [Next]_vars => Allowed
  <2>. SUFFICES ASSUME Reach, Ledger, [Next]_vars, NEW a \in Actions,
                       actions'[a].state = "intent", actions[a].state # "intent"
                PROVE  StoreOf[actions'[a].key] \in floor[actions'[a].run]
    OBVIOUS
  <2>1. \A b \in Actions : actions[b] \in ActionRow
    BY DEF Ledger, ActionTypes
  <2>2. CASE UNCHANGED actions
    BY <2>2
  <2>3. ASSUME NEW i \in Installations, Takeover(i)
        PROVE  FALSE
    <3>1. actions'[a] = IF actions[a].state = "intent"
                        THEN [actions[a] EXCEPT !.state = "unknown"] ELSE actions[a]
      BY <2>3 DEF Takeover, Handover
    <3>. QED  BY <3>1
  <2>4. ASSUME NEW b \in Actions, NEW r \in Runs, NEW i \in Installations, NEW resolve \in BOOLEAN,
               NEW state \in {"confirmed", "failed", "unknown"}, RecordReceipt(b, r, i, state, resolve)
        PROVE  FALSE
    <3>1. actions' = [actions EXCEPT ![b] = [actions[b] EXCEPT !.state = state]]
      BY <2>4 DEF RecordReceipt
    <3>2. [actions[b] EXCEPT !.state = state].state = state
      BY <2>1 DEF ActionRow
    <3>. QED  BY <3>1, <3>2 DEF Ledger, ActionTypes
  <2>5. ASSUME MigrationImport
        PROVE  FALSE
    <3>. DEFINE p == migration.imported + 1
                x == [state |-> "confirmed", run |-> NoOne, key |-> LegacyKey[p]]
    <3>1. actions' = [actions EXCEPT ![LegacyAction[p]] = x] /\ x.state = "confirmed"
      BY <2>5 DEF MigrationImport, ImportPage
    <3>. HIDE DEF x
    <3>. QED  BY <3>1 DEF Ledger, ActionTypes
  <2>6. ASSUME NEW b \in HostActions, NEW k \in Keys, NEW r \in Runs, NEW i \in Installations,
               NEW answered \in BOOLEAN, Intent(b, k, r, i, answered)
        PROVE  StoreOf[actions'[a].key] \in floor[actions'[a].run]
    <3>. DEFINE x == [state |-> "intent", run |-> r, key |-> k]
    <3>1. actions' = [actions EXCEPT ![b] = x] /\ x.run = r /\ x.key = k
      BY <2>6 DEF Intent
    <3>. HIDE DEF x
    <3>2. actions'[a] = x
      BY <3>1 DEF Ledger, ActionTypes
    <3>3. runs[r].state = "open" /\ StoreOf[k] \in runs[r].limit
      BY <2>6 DEF Intent, Bound, Authorized
    <3>. QED  BY <3>1, <3>2, <3>3 DEF Reach, LimitsOK
  <2>7. CASE Install
    BY <2>2, <2>3, <2>7 DEF Install, Register, RecordChecks, RecordHost, ChecksLapse, SetState,
                            PrepareTakeover, InstallStep
  <2>8. CASE ActionOperation
    BY <2>2, <2>4, <2>6, <2>8 DEF ActionOperation, Perform
  <2>9. CASE Migrate
    BY <2>2, <2>5, <2>9 DEF Migrate, MigrationPreview, MigrationAppend, MigrationSeal, MigrationValidate,
                            MigrationSwitch, OnlyMigration
  <2>10. CASE \/ PrepareChange \/ SaveChange \/ \E i \in Installations : PrepareBackfill(i)
              \/ RunOperation \/ LeaseLapses \/ \E r \in Runs : Prune(r)
    BY <2>2, <2>10 DEF PrepareChange, SaveChange, PrepareBackfill, RunOperation, Start, Renew, Release,
                       Summarise, LeaseLapses, Prune, RunStep
  <2>11. CASE UNCHANGED vars
    BY <2>2, <2>11 DEF vars
  <2>. QED  BY <2>7, <2>8, <2>9, <2>10, <2>11 DEF Next
<1>. QED  BY <1>1, WorkflowInvariant, PTL DEF Spec, ReachOnlyNarrows

(***************************************************************************)
(* Cost cards.                                                             *)
(***************************************************************************)
UploadRow == [status : {"none", "queued", "running", "succeeded", "rejected", "failed"},
              sheet : {<<>>} \cup Sheets, attempt : 0..MaxAttempts,
              by : {Nothing} \cup Workers, held : BOOLEAN]
PlanRow == [baseline : {Nothing} \cup CardRow, content : Contents, object : {Nothing} \cup Objects]
Plans == {<<>>} \cup UNION {[cards -> PlanRow] : cards \in SUBSET Cards}
BuilderRow == [run : {Nothing} \cup CardRuns, attempt : 0..MaxAttempts,
               pc : {"idle", "parse", "plan", "compare", "put"}, plan : Plans, done : SUBSET Cards]
Entry == [card : Cards, revision : Nat, object : Objects]
ReaderRow == [pc : {"idle", "failed", "signed", "download", "again", "complete"}, try : {0, 1},
              entries : SUBSET Entry, same : BOOLEAN, live : BOOLEAN, files : SUBSET Entry]


CardTypeOK ==
  /\ uploads \in [CardRuns -> UploadRow]
  /\ builders \in [Workers -> BuilderRow]
  /\ catalogue \in [Cards -> {Nothing} \cup CardRow]
  /\ stored \subseteq Objects /\ underway \subseteq Objects
  /\ queue \in [Objects -> {Nothing} \cup QueueRow]
  /\ collector \in [object : {Nothing} \cup Objects, deleted : BOOLEAN]
  /\ reader \in ReaderRow
  /\ enabled \in BOOLEAN /\ troubles \in Nat

-----------------------------------------------------------------------------
(* The inductive invariant *)

\* Worker w works on the attempt that object o belongs to.
At(w, o) == builders[w].run = o[1] /\ builders[w].attempt = o[2]

\* The attempt of o is over and its run has succeeded: o is never written again.
Settled(o) == uploads[o[1]].status = "succeeded" /\ \A w \in Workers : ~At(w, o)

\* The attempt of o has no lease, and so never has one again.
Dead(o) == uploads[o[1]].attempt = o[2] => uploads[o[1]].status # "running" \/ ~uploads[o[1]].held

Known(o) == o[2] <= uploads[o[1]].attempt

\* A plan names objects of its own attempt; what was put is in storage as long as
\* the attempt has its lease, and no write of it is underway.
Working(w) ==
  LET b == builders[w] IN
  /\ b.pc = "idle" <=> b.run = Nothing
  /\ b.run # Nothing => b.run \in CardRuns /\ b.attempt \in 1..uploads[b.run].attempt
                          /\ uploads[b.run].sheet \in Sheets
  /\ b.pc \in {"compare", "put"} =>
       /\ DOMAIN b.plan \subseteq Cards
       /\ \A c \in DOMAIN b.plan : b.plan[c] \in PlanRow /\ b.plan[c].object \in {Nothing, ObjectOf(b.run, b.attempt, c)}
  /\ b.pc # "put" => b.done = {}
  /\ \A c \in b.done : /\ c \in DOMAIN b.plan /\ b.plan[c].object # Nothing
                       /\ b.plan[c].object \notin underway
                       /\ HoldsLease(w) => b.plan[c].object \in stored

OneWorker ==
  \A v, w \in Workers :
    builders[v].run # Nothing /\ builders[v].run = builders[w].run
      /\ builders[v].attempt = builders[w].attempt => v = w

SheetsOK ==
  \A r \in CardRuns : IF uploads[r].status = "none" THEN uploads[r] = NoUpload ELSE uploads[r].sheet \in Sheets

\* An entry protects a candidate of its own run, or it is of a replaced object.
QueueOK ==
  \A o \in Objects : queue[o] # Nothing =>
    /\ Known(o) /\ queue[o].run \in {Nothing, o[1]}
    /\ queue[o].run = Nothing => Settled(o)

UnderwayOK == \A o \in underway : ~Referenced(o) /\ queue[o] # Nothing /\ queue[o].run # Nothing

ReferencedOK == \A o \in Objects : Referenced(o) => Known(o) /\ Settled(o) /\ o \in stored

LinkedOK ==
  \A o \in LinkedObjects :
    /\ o \in stored /\ Settled(o)
    /\ Referenced(o) \/ (queue[o] # Nothing /\ ~queue[o].due)

\* What the collector is about to delete can neither be published nor be linked to.
CollectorOK ==
  LET o == collector.object IN
  /\ o # Nothing =>
       /\ Known(o) /\ Dead(o) /\ ~Referenced(o) /\ o \notin LinkedObjects
       /\ collector.deleted /\ (queue[o] = Nothing \/ queue[o].run = Nothing) => o \notin stored
  /\ o = Nothing => ~collector.deleted

Attempts == SheetsOK /\ (\A w \in Workers : Working(w)) /\ OneWorker

Stock == QueueOK /\ UnderwayOK /\ ReferencedOK /\ LinkedOK /\ CollectorOK /\ CandidatesAccounted

CardInv == CardTypeOK /\ Attempts /\ Stock

-----------------------------------------------------------------------------
(* Objects and attempts *)

\* A key names its run, its attempt and its card, and only runs' attempts have keys.
LEMMA ObjectParts ==
  /\ \A r, n, c : ObjectOf(r, n, c)[1] = r /\ ObjectOf(r, n, c)[2] = n /\ ObjectOf(r, n, c)[3] = c
  /\ \A o \in Objects : o[1] \in CardRuns /\ o[2] \in 1..MaxAttempts
  /\ \A r \in CardRuns, n \in 1..MaxAttempts, c \in Cards : ObjectOf(r, n, c) \in Objects
BY DEF ObjectOf, Objects

\* What a reader can still follow a link to is an object.
LEMMA LinkedTyped ==
  ASSUME CardTypeOK
  PROVE  LinkedObjects \subseteq Objects
BY DEF CardTypeOK, LinkedObjects, ReaderRow, Entry

\* What stays so whatever happens to attempts.
Stays ==
  \A o \in Objects : /\ Settled(o) => Settled(o)'
                     /\ Known(o) => Known(o)'
                     /\ Known(o) /\ Dead(o) => Dead(o)'

\* What is known of an object, and that its attempt is over, survives steps that keep
\* attempt numbers and revive no lease.
LEMMA Lapses ==
  ASSUME CardInv,
         \A r \in CardRuns : /\ uploads'[r].attempt = uploads[r].attempt
                             /\ uploads[r].status = "succeeded" => uploads'[r].status = "succeeded"
                             /\ uploads'[r].status = "running" /\ uploads'[r].held =>
                                  uploads[r].status = "running" /\ uploads[r].held,
         \A w \in Workers : \/ builders'[w].run = Nothing
                            \/ /\ builders'[w].run = builders[w].run
                               /\ builders'[w].attempt = builders[w].attempt
  PROVE  Stays
<1>. SUFFICES ASSUME NEW o \in Objects
              PROVE  /\ Settled(o) => Settled(o)'
                     /\ Known(o) => Known(o)'
                     /\ Known(o) /\ Dead(o) => Dead(o)'
  BY DEF Stays
<1>1. o[1] \in CardRuns /\ o[1] # Nothing
  BY ObjectParts, CardAssumption
<1>2. Settled(o) => Settled(o)'
  BY <1>1 DEF Settled, At
<1>3. Known(o) => Known(o)'
  BY <1>1 DEF Known
<1>4. Dead(o) => Dead(o)'
  BY <1>1 DEF Dead
<1>. QED  BY <1>2, <1>3, <1>4

\* Storage, queue and links are as good as they were when only attempts moved on.
LEMMA StockStays ==
  ASSUME CardInv, Stays, UNCHANGED <<catalogue, stored, underway, queue, collector, reader>>
  PROVE  Stock'
<1>. USE DEF CardInv, Stock
<1>1. QueueOK'
  BY DEF QueueOK, Stays
<1>2. UnderwayOK' /\ CandidatesAccounted'
  BY DEF UnderwayOK, CandidatesAccounted, Referenced
<1>3. ReferencedOK'
  BY DEF ReferencedOK, Referenced, Stays
<1>4. LinkedOK'
  BY LinkedTyped DEF LinkedOK, LinkedObjects, Referenced, Stays
<1>5. CollectorOK'
  BY DEF CollectorOK, LinkedObjects, Referenced, Stays, CardTypeOK
<1>. QED  BY <1>1, <1>2, <1>3, <1>4, <1>5

\* A worker that rests promises nothing.
LEMMA IdleWorks ==
  ASSUME NEW w \in Workers, builders'[w] = Idle
  PROVE  Working(w)'
BY DEF Working, Idle

\* A worker that did not move keeps its promises while its run's attempt only grows and
\* nobody takes its objects away.
LEMMA SameWorks ==
  ASSUME CardInv, NEW w \in Workers, builders'[w] = builders[w],
         builders[w].run # Nothing =>
           /\ uploads'[builders[w].run].attempt \in Nat
           /\ uploads'[builders[w].run].attempt >= uploads[builders[w].run].attempt
           /\ uploads'[builders[w].run].sheet = uploads[builders[w].run].sheet,
         HoldsLease(w)' => HoldsLease(w),
         \A c \in builders[w].done : /\ builders[w].plan[c].object \notin underway'
                                     /\ HoldsLease(w)' => builders[w].plan[c].object \in stored'
  PROVE  Working(w)'
<1>. DEFINE r == builders[w].run
<1>1. Working(w)
  BY DEF CardInv, Attempts
<1>2. r # Nothing => /\ r \in CardRuns /\ uploads[r].attempt \in Nat /\ builders[w].attempt \in 1..uploads'[r].attempt
                     /\ uploads'[r].sheet \in Sheets
  <2>1. r # Nothing => uploads[r].attempt \in Nat /\ builders[w].attempt \in 1..uploads[r].attempt
    BY <1>1, CardAssumption DEF Working, CardInv, CardTypeOK, UploadRow
  <2>. QED  BY <1>1, <2>1 DEF Working
<1>. QED  BY <1>1, <1>2 DEF Working

-----------------------------------------------------------------------------
(* The steps of attempts *)

\* The records of a resting worker and of a run that nobody uploaded.
LEMMA NothingIdle ==
  /\ Idle.run = Nothing /\ Idle \in BuilderRow /\ NoUpload \in UploadRow
  /\ NoUpload.attempt = 0 /\ NoUpload.status = "none" /\ NoUpload.by = Nothing
BY CardAssumption DEF Idle, BuilderRow, Plans, NoUpload, UploadRow

\* A step of workers that claims nothing and touches neither storage nor rows.
LEMMA AttemptStep ==
  ASSUME CardInv, uploads' \in [CardRuns -> UploadRow], builders' \in [Workers -> BuilderRow],
         \A r \in CardRuns : /\ uploads'[r].attempt = uploads[r].attempt
                             /\ uploads'[r].by = uploads[r].by
                             /\ uploads'[r].sheet = uploads[r].sheet \/ uploads[r].status = "none"
                             /\ IF uploads'[r].status = "none" THEN uploads'[r] = NoUpload
                                ELSE uploads'[r].sheet \in Sheets
                             /\ uploads[r].status = "succeeded" => uploads'[r].status = "succeeded"
                             /\ uploads'[r].status = "running" /\ uploads'[r].held =>
                                  uploads[r].status = "running" /\ uploads[r].held,
         \A w \in Workers :
           \/ builders'[w] = builders[w] /\ (builders[w].run # Nothing =>
                                               uploads'[builders[w].run].sheet = uploads[builders[w].run].sheet)
           \/ builders'[w] = Idle
           \/ /\ builders'[w].run = builders[w].run /\ builders'[w].attempt = builders[w].attempt
              /\ Working(w)',
         UNCHANGED <<catalogue, stored, underway, queue, collector, reader>>,
         enabled' \in BOOLEAN, troubles' \in Nat
  PROVE  CardInv'
<1>1. \A w \in Workers : \/ builders'[w].run = Nothing
                         \/ /\ builders'[w].run = builders[w].run
                            /\ builders'[w].attempt = builders[w].attempt
  BY NothingIdle
<1>2. Stock'
  <2>1. Stays
    BY <1>1, Lapses
  <2>. QED  BY <2>1, StockStays
<1>3. CardTypeOK'
  BY DEF CardInv, CardTypeOK
<1>4. ASSUME NEW w \in Workers
      PROVE  Working(w)'
  <2>1. CASE builders'[w] = builders[w] /\ (builders[w].run # Nothing =>
                                               uploads'[builders[w].run].sheet = uploads[builders[w].run].sheet)
    <3>1. Working(w)
      BY DEF CardInv, Attempts
    <3>2. builders[w].run # Nothing =>
            /\ builders[w].run \in CardRuns /\ uploads'[builders[w].run].attempt \in Nat
            /\ uploads'[builders[w].run].attempt = uploads[builders[w].run].attempt
      BY <3>1, CardAssumption DEF Working, CardInv, CardTypeOK, UploadRow
    <3>3. HoldsLease(w)' => HoldsLease(w)
      BY <2>1, <3>2 DEF HoldsLease, Claims
    <3>4. \A c \in builders[w].done : /\ builders[w].plan[c].object \notin underway'
                                      /\ HoldsLease(w)' => builders[w].plan[c].object \in stored'
      BY <3>1, <3>3 DEF Working
    <3>. QED  BY <2>1, <3>2, <3>3, <3>4, SameWorks
  <2>. QED  BY <2>1, IdleWorks
<1>5. OneWorker'
  BY <1>1 DEF CardInv, Attempts, OneWorker
<1>6. SheetsOK'
  BY DEF SheetsOK
<1>. QED  BY <1>2, <1>3, <1>4, <1>5, <1>6 DEF CardInv, Attempts

\* Attempts that end: their worker rests, and the row of the run may be closed.
LEMMA Stops ==
  ASSUME CardInv, NEW w \in Workers, NEW status \in {"queued", "rejected", "failed"},
         \/ uploads' = uploads
         \/ HoldsLease(w) /\ uploads' = [uploads EXCEPT ![builders[w].run].held = FALSE,
                                                        ![builders[w].run].status = status],
         Stop(w), UNCHANGED <<catalogue, stored, underway, queue, collector, reader>>,
         enabled' \in BOOLEAN, troubles' \in Nat
  PROVE  CardInv'
<1>1. /\ builders' \in [Workers -> BuilderRow] /\ builders'[w] = Idle
      /\ \A v \in Workers : v # w => builders'[v] = builders[v]
  BY NothingIdle DEF Stop, CardInv, CardTypeOK
<1>2. Working(w) /\ uploads \in [CardRuns -> UploadRow] /\ SheetsOK
  BY DEF CardInv, Attempts, CardTypeOK
<1>3. CASE uploads' = uploads
  BY <1>1, <1>2, <1>3, AttemptStep DEF SheetsOK
<1>4. CASE HoldsLease(w) /\ uploads' = [uploads EXCEPT ![builders[w].run].held = FALSE,
                                                       ![builders[w].run].status = status]
  <2>. DEFINE r == builders[w].run
  <2>1. r \in CardRuns /\ uploads[r].status = "running"
    BY <1>2, <1>4 DEF HoldsLease, Claims, Working
  <2>2. /\ uploads' \in [CardRuns -> UploadRow]
        /\ \A x \in CardRuns : x # r => uploads'[x] = uploads[x]
        /\ uploads'[r].attempt = uploads[r].attempt /\ uploads'[r].sheet = uploads[r].sheet
        /\ uploads'[r].by = uploads[r].by /\ uploads'[r].status = status
    BY <1>2, <1>4, <2>1 DEF UploadRow
  <2>. HIDE DEF r
  <2>3. \A x \in CardRuns : /\ uploads'[x].attempt = uploads[x].attempt
                            /\ uploads'[x].by = uploads[x].by
                            /\ uploads'[x].sheet = uploads[x].sheet
                            /\ IF uploads'[x].status = "none" THEN uploads'[x] = NoUpload
                               ELSE uploads'[x].sheet \in Sheets
                            /\ uploads[x].status = "succeeded" => uploads'[x].status = "succeeded"
                            /\ uploads'[x].status = "running" /\ uploads'[x].held =>
                                 uploads[x].status = "running" /\ uploads[x].held
    BY <1>2, <2>1, <2>2 DEF SheetsOK
  <2>4. \A v \in Workers : builders[v].run # Nothing =>
            uploads'[builders[v].run].sheet = uploads[builders[v].run].sheet
    BY <2>3 DEF CardInv, Attempts, Working
  <2>. QED  BY <1>1, <2>2, <2>3, <2>4, AttemptStep
<1>. QED  BY <1>3, <1>4

\* failProcessingRun, whoever calls it: the row is closed or queued again if the lease holds.
LEMMA FailStep ==
  ASSUME CardInv, NEW w \in Workers, NEW retryable, Fail(w, retryable), troubles' \in Nat
  PROVE  CardInv'
<1>1. enabled' \in BOOLEAN
  BY DEF Fail, CardInv, CardTypeOK
<1>2. Stop(w) /\ UNCHANGED <<catalogue, stored, underway, queue, collector, reader>>
  BY DEF Fail
<1>3. CASE HoldsLease(w)
  <2>1. PICK status \in {"queued", "failed"} :
          uploads' = [uploads EXCEPT ![builders[w].run].held = FALSE, ![builders[w].run].status = status]
    BY <1>3 DEF Fail
  <2>. QED  BY <1>1, <1>2, <1>3, <2>1, Stops
<1>4. CASE ~HoldsLease(w)
  <2>1. uploads' = uploads
    BY <1>4 DEF Fail
  <2>. QED  BY <1>1, <1>2, <2>1, Stops
<1>. QED  BY <1>3, <1>4

\* A worker goes on with its attempt.
LEMMA Advances ==
  ASSUME CardInv, NEW w \in Workers, NEW x \in BuilderRow, builders' = [builders EXCEPT ![w] = x],
         x.run = builders[w].run, x.attempt = builders[w].attempt, Working(w)',
         UNCHANGED <<uploads, catalogue, stored, underway, queue, collector, reader, enabled, troubles>>
  PROVE  CardInv'
<1>1. /\ builders' \in [Workers -> BuilderRow] /\ builders'[w] = x
      /\ \A v \in Workers : v # w => builders'[v] = builders[v]
  BY DEF CardInv, CardTypeOK
<1>2. uploads' \in [CardRuns -> UploadRow] /\ enabled' \in BOOLEAN /\ troubles' \in Nat /\ SheetsOK
  BY DEF CardInv, CardTypeOK, Attempts
<1>. QED  BY <1>1, <1>2, AttemptStep DEF SheetsOK

\* A worker dies with whatever it was doing.
LEMMA CrashStep ==
  ASSUME CardInv, NEW w \in Workers, Crash(w)
  PROVE  CardInv'
BY Stops DEF Crash, Trouble, CardInv, CardTypeOK

\* The sheet is read, or refused for good.
LEMMA ParseStep ==
  ASSUME CardInv, NEW w \in Workers, Parse(w)
  PROVE  CardInv'
<1>1. Working(w) /\ builders[w] \in BuilderRow
  BY DEF CardInv, Attempts, CardTypeOK
<1>2. enabled' \in BOOLEAN /\ troubles' \in Nat
  BY DEF Parse, CardInv, CardTypeOK
<1>3. CASE SheetValid(Sheet(w))
  <2>. DEFINE x == [builders[w] EXCEPT !.pc = "plan"]
  <2>1. /\ x \in BuilderRow /\ x.run = builders[w].run /\ x.attempt = builders[w].attempt
        /\ x.pc = "plan" /\ x.done = builders[w].done
    BY <1>1 DEF BuilderRow
  <2>2. /\ builders' = [builders EXCEPT ![w] = x] /\ builders[w].pc = "parse"
        /\ UNCHANGED <<uploads, catalogue, stored, underway, queue, collector, reader, enabled, troubles>>
    BY <1>3 DEF Parse
  <2>. HIDE DEF x
  <2>3. builders'[w] = x
    BY <2>2 DEF CardInv, CardTypeOK
  <2>4. Working(w)'
    BY <1>1, <2>1, <2>2, <2>3 DEF Working
  <2>. QED  BY <2>1, <2>2, <2>4, Advances
<1>4. CASE ~SheetValid(Sheet(w))
  <2>1. /\ Stop(w) /\ UNCHANGED <<catalogue, stored, underway, queue, collector, reader>>
        /\ uploads' = IF HoldsLease(w)
                      THEN [uploads EXCEPT ![builders[w].run].status = "rejected",
                                           ![builders[w].run].held = FALSE]
                      ELSE uploads
    BY <1>4 DEF Parse
  <2>2. HoldsLease(w) => uploads' = [uploads EXCEPT ![builders[w].run].held = FALSE,
                                                    ![builders[w].run].status = "rejected"]
    <3>. SUFFICES ASSUME HoldsLease(w)
                  PROVE  uploads' = [uploads EXCEPT ![builders[w].run].held = FALSE,
                                                    ![builders[w].run].status = "rejected"]
      OBVIOUS
    <3>1. builders[w].run \in CardRuns /\ uploads \in [CardRuns -> UploadRow]
      BY <1>1 DEF CardInv, CardTypeOK, HoldsLease, Claims, Working
    <3>. QED  BY <2>1, <3>1 DEF UploadRow
  <2>. QED  BY <1>2, <2>1, <2>2, Stops
<1>. QED  BY <1>3, <1>4

\* A planned card has the key of this attempt or, unchanged, none.
LEMMA PlannedRow ==
  ASSUME CardInv, NEW w \in Workers, builders[w].run # Nothing, NEW c \in CardsOf(Sheet(w))
  PROVE  /\ c \in Cards /\ Planned(w, c) \in PlanRow
         /\ Planned(w, c).object \in {Nothing, ObjectOf(builders[w].run, builders[w].attempt, c)}
<1>. DEFINE o == ObjectOf(builders[w].run, builders[w].attempt, c)
<1>1. /\ builders[w].run \in CardRuns /\ builders[w].attempt \in 1..MaxAttempts /\ Sheet(w) \in Sheets
  <2>1. Working(w) /\ builders[w] \in BuilderRow /\ uploads \in [CardRuns -> UploadRow]
    BY DEF CardInv, Attempts, CardTypeOK
  <2>. QED  BY <2>1, CardAssumption DEF Working, Sheet, BuilderRow, UploadRow
<1>2. c \in Cards /\ Content(Sheet(w), c) \in Contents
  BY <1>1 DEF Cards, Contents
<1>3. o \in Objects
  BY <1>1, <1>2, ObjectParts
<1>4. catalogue[c] \in {Nothing} \cup CardRow
  BY <1>2 DEF CardInv, CardTypeOK
<1>. HIDE DEF o
<1>5. \E x \in {Nothing, o} : Planned(w, c) = [baseline |-> catalogue[c], content |-> Content(Sheet(w), c), object |-> x]
  BY DEF Planned, o
<1>. QED  BY <1>2, <1>3, <1>4, <1>5 DEF PlanRow, o

\* What the sheet would change of the current cards.
LEMMA PlanStep ==
  ASSUME CardInv, NEW w \in Workers, Plan(w)
  PROVE  CardInv'
<1>. DEFINE plan == [c \in CardsOf(Sheet(w)) |-> Planned(w, c)]
            x == [builders[w] EXCEPT !.pc = "compare", !.plan = plan]
<1>1. Working(w) /\ builders[w] \in BuilderRow
  BY DEF CardInv, Attempts, CardTypeOK
<1>2. /\ builders' = [builders EXCEPT ![w] = x] /\ builders[w].pc = "plan"
      /\ UNCHANGED <<uploads, catalogue, stored, underway, queue, collector, reader, enabled, troubles>>
  BY DEF Plan
<1>3. builders[w].run # Nothing /\ builders[w].done = {}
  BY <1>1, <1>2 DEF Working
<1>4. /\ DOMAIN plan \subseteq Cards
      /\ \A c \in DOMAIN plan : /\ plan[c] \in PlanRow
                                /\ plan[c].object \in {Nothing, ObjectOf(builders[w].run, builders[w].attempt, c)}
  BY <1>3, PlannedRow
<1>5. plan \in Plans
  BY <1>4 DEF Plans
<1>. HIDE DEF plan
<1>6. /\ x \in BuilderRow /\ x.run = builders[w].run /\ x.attempt = builders[w].attempt
      /\ x.pc = "compare" /\ x.done = builders[w].done /\ x.plan = plan
  BY <1>1, <1>5 DEF BuilderRow
<1>. HIDE DEF x
<1>7. builders'[w] = x
  BY <1>2 DEF CardInv, CardTypeOK
<1>8. Working(w)'
  BY <1>1, <1>2, <1>3, <1>4, <1>6, <1>7 DEF Working
<1>. QED  BY <1>2, <1>6, <1>8, Advances

\* The versions to be replaced are there and the writes may begin, or the attempt fails.
LEMMA CompareStep ==
  ASSUME CardInv, NEW w \in Workers, Compare(w)
  PROVE  CardInv'
<1>1. Working(w) /\ builders[w] \in BuilderRow /\ builders[w].pc = "compare"
  BY DEF CardInv, Attempts, CardTypeOK, Compare
<1>2. CASE Fail(w, TRUE) /\ UNCHANGED troubles
  BY <1>2, FailStep DEF CardInv, CardTypeOK
<1>3. CASE /\ builders' = [builders EXCEPT ![w].pc = "put"]
           /\ UNCHANGED <<uploads, catalogue, stored, underway, queue, collector, reader, enabled, troubles>>
  <2>. DEFINE x == [builders[w] EXCEPT !.pc = "put"]
  <2>1. /\ x \in BuilderRow /\ x.run = builders[w].run /\ x.attempt = builders[w].attempt
        /\ x.pc = "put" /\ x.done = builders[w].done /\ x.plan = builders[w].plan
    BY <1>1 DEF BuilderRow
  <2>2. builders' = [builders EXCEPT ![w] = x]
    BY <1>3
  <2>. HIDE DEF x
  <2>3. builders'[w] = x
    BY <2>2 DEF CardInv, CardTypeOK
  <2>4. Working(w)'
    BY <1>1, <1>3, <2>1, <2>3 DEF Working
  <2>. QED  BY <1>3, <2>1, <2>2, <2>4, Advances
<1>. QED  BY <1>2, <1>3 DEF Compare

\* A new upload is a run nobody has claimed.
LEMMA UploadStep ==
  ASSUME CardInv, NEW r \in CardRuns, NEW sheet \in Sheets, Upload(r, sheet)
  PROVE  CardInv'
<1>. DEFINE x == [NoUpload EXCEPT !.status = "queued", !.sheet = sheet]
<1>1. x \in UploadRow /\ x.status = "queued" /\ x.sheet = sheet /\ x.attempt = 0 /\ x.by = Nothing
  BY NothingIdle DEF UploadRow
<1>2. /\ uploads[r].status = "none" /\ uploads' = [uploads EXCEPT ![r] = x]
      /\ UNCHANGED <<builders, catalogue, stored, underway, queue, collector, reader, enabled, troubles>>
  BY DEF Upload
<1>. HIDE DEF x
<1>3. /\ uploads' \in [CardRuns -> UploadRow] /\ uploads'[r] = x
      /\ \A q \in CardRuns : q # r => uploads'[q] = uploads[q]
  BY <1>1, <1>2 DEF CardInv, CardTypeOK
<1>4. uploads[r] = NoUpload /\ SheetsOK
  BY <1>2 DEF CardInv, Attempts, SheetsOK
<1>5. \A q \in CardRuns : /\ uploads'[q].attempt = uploads[q].attempt
                          /\ uploads'[q].by = uploads[q].by
                          /\ uploads'[q].sheet = uploads[q].sheet \/ uploads[q].status = "none"
                          /\ IF uploads'[q].status = "none" THEN uploads'[q] = NoUpload
                             ELSE uploads'[q].sheet \in Sheets
                          /\ uploads[q].status = "succeeded" => uploads'[q].status = "succeeded"
                          /\ uploads'[q].status = "running" /\ uploads'[q].held =>
                               uploads[q].status = "running" /\ uploads[q].held
  BY <1>1, <1>2, <1>3, <1>4, NothingIdle DEF SheetsOK
<1>6. \A w \in Workers : builders[w].run # Nothing => uploads'[builders[w].run].sheet = uploads[builders[w].run].sheet
  <2>. SUFFICES ASSUME NEW w \in Workers, builders[w].run # Nothing
                PROVE  builders[w].run \in CardRuns /\ builders[w].run # r
    BY <1>3
  <2>1. builders[w].run \in CardRuns /\ builders[w].attempt \in 1..uploads[builders[w].run].attempt
    BY DEF CardInv, Attempts, Working
  <2>. QED  BY <1>4, <2>1, NothingIdle
<1>7. builders' \in [Workers -> BuilderRow] /\ enabled' \in BOOLEAN /\ troubles' \in Nat
  BY <1>2 DEF CardInv, CardTypeOK
<1>. QED  BY <1>2, <1>3, <1>5, <1>6, <1>7, AttemptStep

\* A lease lapses: its worker can no longer commit.
LEMMA LapseStep ==
  ASSUME CardInv, NEW r \in CardRuns, CardLeaseLapses(r)
  PROVE  CardInv'
<1>1. /\ uploads[r].status = "running" /\ uploads' = [uploads EXCEPT ![r].held = FALSE]
      /\ UNCHANGED <<builders, catalogue, stored, underway, queue, collector, reader>>
  BY DEF CardLeaseLapses
<1>2. uploads \in [CardRuns -> UploadRow] /\ SheetsOK
  BY DEF CardInv, Attempts, CardTypeOK
<1>3. /\ uploads' \in [CardRuns -> UploadRow]
      /\ \A x \in CardRuns : x # r => uploads'[x] = uploads[x]
      /\ uploads'[r].attempt = uploads[r].attempt /\ uploads'[r].sheet = uploads[r].sheet
      /\ uploads'[r].by = uploads[r].by /\ uploads'[r].status = "running" /\ ~uploads'[r].held
  BY <1>1, <1>2 DEF UploadRow
<1>4. \A q \in CardRuns : /\ uploads'[q].attempt = uploads[q].attempt
                          /\ uploads'[q].by = uploads[q].by
                          /\ uploads'[q].sheet = uploads[q].sheet
                          /\ IF uploads'[q].status = "none" THEN uploads'[q] = NoUpload
                             ELSE uploads'[q].sheet \in Sheets
                          /\ uploads[q].status = "succeeded" => uploads'[q].status = "succeeded"
                          /\ uploads'[q].status = "running" /\ uploads'[q].held =>
                               uploads[q].status = "running" /\ uploads[q].held
  BY <1>1, <1>2, <1>3 DEF SheetsOK
<1>5. \A w \in Workers : builders[w].run # Nothing => uploads'[builders[w].run].sheet = uploads[builders[w].run].sheet
  BY <1>4 DEF CardInv, Attempts, Working
<1>6. builders' \in [Workers -> BuilderRow] /\ enabled' \in BOOLEAN /\ troubles' \in Nat
  BY <1>1 DEF CardInv, CardTypeOK, CardLeaseLapses, Trouble
<1>. QED  BY <1>1, <1>3, <1>4, <1>5, <1>6, AttemptStep

\* A claim begins an attempt that nothing is known of yet.
LEMMA ClaimStep ==
  ASSUME CardInv, NEW w \in Workers, NEW r \in CardRuns, Claim(w, r)
  PROVE  CardInv'
<1>. DEFINE n == uploads[r].attempt + 1
            x == [Idle EXCEPT !.run = r, !.attempt = n, !.pc = "parse"]
<1>1. /\ uploads[r].status \in {"queued", "running"} /\ (uploads[r].status = "running" => ~uploads[r].held)
      /\ uploads[r].attempt < MaxAttempts
      /\ uploads' = [uploads EXCEPT ![r].status = "running", ![r].attempt = @ + 1, ![r].by = w, ![r].held = TRUE]
      /\ builders[w].pc = "idle" /\ builders' = [builders EXCEPT ![w] = x]
      /\ UNCHANGED <<catalogue, stored, underway, queue, collector, reader, enabled, troubles>>
  BY DEF Claim
<1>2. uploads \in [CardRuns -> UploadRow] /\ SheetsOK /\ uploads[r].attempt \in Nat /\ n \in 1..MaxAttempts
  BY <1>1, CardAssumption DEF CardInv, Attempts, CardTypeOK, UploadRow
<1>3. x \in BuilderRow /\ x.run = r /\ x.attempt = n /\ x.pc = "parse" /\ x.done = {}
  <2>1. Idle \in BuilderRow /\ Idle.done = {}
    BY NothingIdle DEF Idle
  <2>2. n \in 0..MaxAttempts
    BY <1>2, CardAssumption
  <2>. HIDE DEF n
  <2>3. x \in BuilderRow
    BY <2>1, <2>2 DEF BuilderRow
  <2>4. x.run = r /\ x.attempt = n /\ x.pc = "parse" /\ x.done = Idle.done
    BY <2>1, <2>2 DEF BuilderRow
  <2>. QED  BY <2>1, <2>3, <2>4
<1>4. /\ uploads' \in [CardRuns -> UploadRow]
      /\ \A q \in CardRuns : q # r => uploads'[q] = uploads[q]
      /\ uploads'[r].attempt = n /\ uploads'[r].sheet = uploads[r].sheet
      /\ uploads'[r].status = "running"
  BY <1>1, <1>2 DEF UploadRow
<1>. HIDE DEF x
<1>5. /\ builders' \in [Workers -> BuilderRow] /\ builders'[w] = x
      /\ \A v \in Workers : v # w => builders'[v] = builders[v]
  BY <1>1, <1>3 DEF CardInv, CardTypeOK
<1>6. \A v \in Workers : builders[v].run # Nothing =>
         /\ builders[v].run \in CardRuns /\ uploads[builders[v].run].attempt \in Nat
         /\ builders[v].attempt \in 1..uploads[builders[v].run].attempt
  BY <1>2, CardAssumption DEF CardInv, Attempts, Working, UploadRow
<1>7. uploads[r].sheet \in Sheets
  BY <1>1, <1>2 DEF SheetsOK
<1>8. Stays
  <2>. SUFFICES ASSUME NEW o \in Objects
                PROVE  /\ Settled(o) => Settled(o)'
                       /\ Known(o) => Known(o)'
                       /\ Known(o) /\ Dead(o) => Dead(o)'
    BY DEF Stays
  <2>1. o[1] \in CardRuns /\ o[2] \in Nat /\ uploads[o[1]].attempt \in Nat
    BY ObjectParts, <1>2, CardAssumption DEF UploadRow
  <2>2. CASE o[1] # r
    <3>1. uploads'[o[1]] = uploads[o[1]] /\ \A v \in Workers : At(v, o)' => At(v, o)
      BY <1>3, <1>4, <1>5, <2>1, <2>2 DEF At
    <3>. QED  BY <3>1 DEF Settled, Known, Dead
  <2>3. CASE o[1] = r
    <3>1. ~Settled(o)
      BY <1>1, <2>3 DEF Settled
    <3>2. Known(o) => Known(o)' /\ Dead(o)'
      BY <1>2, <1>4, <2>1, <2>3 DEF Known, Dead
    <3>. QED  BY <3>1, <3>2
  <2>. QED  BY <2>2, <2>3
<1>9. Stock'
  BY <1>1, <1>8, StockStays
<1>10. CardTypeOK'
  BY <1>1, <1>4, <1>5 DEF CardInv, CardTypeOK
<1>11. ASSUME NEW v \in Workers
       PROVE  Working(v)'
  <2>1. CASE v = w
    BY <1>2, <1>3, <1>4, <1>5, <1>7, <2>1, CardAssumption DEF Working
  <2>2. CASE v # w
    <3>1. Working(v) /\ builders'[v] = builders[v]
      BY <1>5, <2>2 DEF CardInv, Attempts
    <3>2. builders[v].run # Nothing =>
            /\ uploads'[builders[v].run].attempt \in Nat
            /\ uploads'[builders[v].run].attempt >= uploads[builders[v].run].attempt
            /\ uploads'[builders[v].run].sheet = uploads[builders[v].run].sheet
      BY <1>2, <1>4, <1>6
    <3>3. HoldsLease(v)' => HoldsLease(v)
      BY <1>2, <1>4, <1>6, <3>1 DEF HoldsLease, Claims
    <3>4. \A c \in builders[v].done : /\ builders[v].plan[c].object \notin underway'
                                      /\ HoldsLease(v)' => builders[v].plan[c].object \in stored'
      BY <1>1, <3>1, <3>3 DEF Working
    <3>. QED  BY <3>1, <3>2, <3>3, <3>4, SameWorks
  <2>. QED  BY <2>1, <2>2
<1>12. OneWorker'
  <2>1. \A v \in Workers : v # w => ~(builders[v].run = r /\ builders[v].attempt = n)
    BY <1>2, <1>6, CardAssumption
  <2>. QED  BY <1>3, <1>5, <2>1 DEF CardInv, Attempts, OneWorker
<1>13. SheetsOK'
  BY <1>2, <1>4, <1>7 DEF SheetsOK
<1>. QED  BY <1>9, <1>10, <1>11, <1>12, <1>13 DEF CardInv, Attempts

-----------------------------------------------------------------------------
(* The writes of objects *)

\* The object of a planned card belongs to this attempt alone and nothing refers to it yet.
LEMMA OwnObject ==
  ASSUME CardInv, NEW w \in Workers, builders[w].pc = "put", NEW c \in DOMAIN builders[w].plan,
         builders[w].plan[c].object # Nothing
  PROVE  LET o == builders[w].plan[c].object
         IN  /\ builders[w].run \in CardRuns /\ c \in Cards /\ o \in Objects
             /\ o[1] = builders[w].run /\ o[2] = builders[w].attempt /\ o[3] = c
             /\ Known(o) /\ ~Settled(o) /\ ~Referenced(o) /\ o \notin LinkedObjects
<1>. DEFINE o == builders[w].plan[c].object
<1>1. Working(w) /\ builders[w] \in BuilderRow
  BY DEF CardInv, Attempts, CardTypeOK
<1>2. builders[w].run \in CardRuns /\ builders[w].attempt <= uploads[builders[w].run].attempt
  BY <1>1 DEF Working
<1>3. builders[w].plan[c] \in PlanRow /\ o = ObjectOf(builders[w].run, builders[w].attempt, c) /\ c \in Cards
  BY <1>1 DEF Working
<1>4. o \in Objects
  BY <1>3 DEF PlanRow
<1>. HIDE DEF o
<1>5. o[1] = builders[w].run /\ o[2] = builders[w].attempt /\ o[3] = c
  BY <1>3, ObjectParts
<1>6. Known(o) /\ ~Settled(o)
  BY <1>2, <1>5 DEF Known, Settled, At
<1>7. ~Referenced(o) /\ o \notin LinkedObjects
  BY <1>4, <1>6 DEF CardInv, Stock, ReferencedOK, LinkedOK
<1>. QED  BY <1>2, <1>3, <1>4, <1>5, <1>6, <1>7 DEF o

\* Two cards of plans that are at work have different objects.
LEMMA ObjectsDiffer ==
  ASSUME CardInv, NEW v \in Workers, NEW w \in Workers, builders[v].pc = "put", builders[w].pc = "put",
         NEW d \in DOMAIN builders[v].plan, NEW c \in DOMAIN builders[w].plan,
         builders[v].plan[d].object # Nothing, builders[v].plan[d].object = builders[w].plan[c].object
  PROVE  v = w /\ d = c
<1>1. /\ builders[v].run = builders[w].run /\ builders[v].attempt = builders[w].attempt /\ d = c
      /\ builders[v].run \in CardRuns
  BY OwnObject
<1>. QED  BY <1>1, CardAssumption DEF CardInv, Attempts, OneWorker

\* Attempts go on while no row changes and what they wrote stays.
LEMMA StillWorking ==
  ASSUME CardInv, UNCHANGED <<uploads, builders>>,
         \A v \in Workers : \A d \in builders[v].done :
           /\ builders[v].plan[d].object \notin underway'
           /\ HoldsLease(v) => builders[v].plan[d].object \in stored'
  PROVE  Attempts'
<1>1. \A v \in Workers : Working(v)'
  BY DEF CardInv, Attempts, Working, HoldsLease, Claims
<1>. QED  BY <1>1 DEF CardInv, Attempts, OneWorker, SheetsOK

\* The row that will find the object is written before the object.
LEMMA BeginPutStep ==
  ASSUME CardInv, NEW w \in Workers, NEW c \in DOMAIN builders[w].plan, BeginPut(w, c)
  PROVE  CardInv'
<1>. DEFINE o == builders[w].plan[c].object
            entry == [run |-> builders[w].run, due |-> TRUE]
<1>1. /\ builders[w].pc = "put" /\ o # Nothing /\ c \notin builders[w].done
      /\ queue' = [queue EXCEPT ![o] = entry] /\ underway' = underway \cup {o}
      /\ UNCHANGED <<uploads, builders, catalogue, stored, collector, reader, enabled, troubles>>
  BY DEF BeginPut, ToPut, Registered
<1>2. /\ builders[w].run \in CardRuns /\ o \in Objects /\ o[1] = builders[w].run
      /\ Known(o) /\ ~Referenced(o) /\ o \notin LinkedObjects
  BY <1>1, OwnObject
<1>3. entry \in QueueRow /\ entry # Nothing /\ entry.run = o[1] /\ entry.run # Nothing
  <2>1. entry \in QueueRow
    BY <1>2 DEF QueueRow
  <2>2. entry.run = builders[w].run
    OBVIOUS
  <2>. HIDE DEF entry, o
  <2>. QED  BY <1>2, <2>1, <2>2, CardAssumption
<1>. HIDE DEF entry
<1>4. /\ queue' \in [Objects -> {Nothing} \cup QueueRow] /\ queue'[o] = entry
      /\ \A p \in Objects : p # o => queue'[p] = queue[p]
  BY <1>1, <1>2, <1>3 DEF CardInv, CardTypeOK
<1>5. Attempts'
  <2>1. \A v \in Workers : \A d \in builders[v].done : builders[v].plan[d].object # o
    <3>. SUFFICES ASSUME NEW v \in Workers, NEW d \in builders[v].done, builders[v].plan[d].object = o
                  PROVE  FALSE
      OBVIOUS
    <3>1. builders[v].pc = "put" /\ d \in DOMAIN builders[v].plan
      BY DEF CardInv, Attempts, Working
    <3>. QED  BY <1>1, <3>1, ObjectsDiffer
  <2>2. \A v \in Workers : \A d \in builders[v].done :
           /\ builders[v].plan[d].object \notin underway'
           /\ HoldsLease(v) => builders[v].plan[d].object \in stored'
    BY <1>1, <2>1 DEF CardInv, Attempts, Working
  <2>. QED  BY <1>1, <2>2, StillWorking
<1>. HIDE DEF o
<1>6. CardTypeOK'
  BY <1>1, <1>2, <1>4 DEF CardInv, CardTypeOK
<1>7. QueueOK'
  BY <1>1, <1>2, <1>3, <1>4 DEF CardInv, Stock, QueueOK, Known, Settled, At
<1>8. UnderwayOK' /\ ReferencedOK' /\ CandidatesAccounted'
  BY <1>1, <1>2, <1>3, <1>4
     DEF CardInv, Stock, CardTypeOK, UnderwayOK, ReferencedOK, CandidatesAccounted, Referenced, Settled, At, Known
<1>9. LinkedOK'
  BY <1>1, <1>2, <1>4, LinkedTyped DEF CardInv, Stock, LinkedOK, LinkedObjects, Referenced, Settled, At
<1>10. CollectorOK'
  BY <1>1, <1>2, <1>3, <1>4
     DEF CardInv, Stock, CardTypeOK, CollectorOK, LinkedObjects, Referenced, Known, Dead
<1>. QED  BY <1>5, <1>6, <1>7, <1>8, <1>9, <1>10 DEF CardInv, Stock

\* A write ends, that of a worker or one that its worker has left.
LEMMA WriteEnds ==
  ASSUME CardInv, NEW o \in underway, underway' = underway \ {o},
         stored' = stored \cup {o} \/ stored' = stored,
         UNCHANGED <<uploads, catalogue, queue, collector, reader, enabled, troubles>>,
         \A p \in Objects : Settled(p) => Settled(p)'
  PROVE  Stock'
<1>1. o \in Objects /\ queue[o] # Nothing /\ queue[o].run # Nothing
  BY DEF CardInv, CardTypeOK, Stock, UnderwayOK
<1>2. QueueOK'
  BY DEF CardInv, Stock, QueueOK, Known
<1>3. UnderwayOK' /\ CandidatesAccounted'
  BY <1>1 DEF CardInv, Stock, UnderwayOK, CandidatesAccounted, Referenced
<1>4. ReferencedOK'
  BY DEF CardInv, Stock, ReferencedOK, Referenced, Known
<1>5. LinkedOK'
  BY LinkedTyped DEF CardInv, Stock, LinkedOK, LinkedObjects, Referenced
<1>6. CollectorOK'
  BY <1>1 DEF CardInv, Stock, CollectorOK, LinkedObjects, Referenced, Known, Dead
<1>. QED  BY <1>2, <1>3, <1>4, <1>5, <1>6 DEF Stock

\* A write ends and its card is done.
LEMMA EndPutStep ==
  ASSUME CardInv, NEW w \in Workers, NEW c \in DOMAIN builders[w].plan, EndPut(w, c)
  PROVE  CardInv'
<1>. DEFINE o == builders[w].plan[c].object
            x == [builders[w] EXCEPT !.done = @ \cup {c}]
<1>1. /\ builders[w].pc = "put" /\ o # Nothing /\ o \in underway
      /\ underway' = underway \ {o} /\ stored' = stored \cup {o}
      /\ builders' = [builders EXCEPT ![w] = x]
      /\ UNCHANGED <<uploads, catalogue, queue, collector, reader, enabled, troubles>>
  BY DEF EndPut, ToPut
<1>2. c \in Cards /\ o \in Objects
  BY <1>1, OwnObject
<1>3. Working(w) /\ builders[w] \in BuilderRow
  BY DEF CardInv, Attempts, CardTypeOK
<1>4. /\ x \in BuilderRow /\ x.run = builders[w].run /\ x.attempt = builders[w].attempt
      /\ x.pc = "put" /\ x.done = builders[w].done \cup {c} /\ x.plan = builders[w].plan
  BY <1>1, <1>2, <1>3 DEF BuilderRow
<1>. HIDE DEF x
<1>5. /\ builders' \in [Workers -> BuilderRow] /\ builders'[w] = x
      /\ \A v \in Workers : v # w => builders'[v] = builders[v]
  BY <1>1, <1>4 DEF CardInv, CardTypeOK
<1>6. \A p \in Objects : Settled(p) => Settled(p)'
  BY <1>1, <1>4, <1>5 DEF Settled, At
<1>7. Stock'
  BY <1>1, <1>6, WriteEnds
<1>8. CardTypeOK'
  BY <1>1, <1>2, <1>5 DEF CardInv, CardTypeOK
<1>9. ASSUME NEW v \in Workers
      PROVE  Working(v)'
  <2>1. CASE v = w
    <3>1. HoldsLease(w)' => HoldsLease(w)
      BY <1>1, <1>4, <1>5 DEF HoldsLease, Claims
    <3>2. \A d \in x.done : /\ d \in DOMAIN x.plan /\ x.plan[d].object # Nothing
                            /\ x.plan[d].object \notin underway'
                            /\ HoldsLease(w)' => x.plan[d].object \in stored'
      BY <1>1, <1>3, <1>4, <3>1 DEF Working
    <3>. HIDE DEF o
    <3>3. Working(w)'
      BY <1>1, <1>3, <1>4, <1>5, <3>2 DEF Working
    <3>. QED  BY <2>1, <3>3
  <2>2. CASE v # w
    <3>1. Working(v) /\ builders'[v] = builders[v]
      BY <1>5, <2>2 DEF CardInv, Attempts
    <3>2. HoldsLease(v)' => HoldsLease(v)
      BY <1>1, <3>1 DEF HoldsLease, Claims
    <3>3. \A d \in builders[v].done : /\ builders[v].plan[d].object \notin underway'
                                      /\ HoldsLease(v)' => builders[v].plan[d].object \in stored'
      BY <1>1, <3>1, <3>2 DEF Working
    <3>4. builders[v].run # Nothing => uploads[builders[v].run].attempt \in Nat
      BY <3>1, CardAssumption DEF Working, CardInv, CardTypeOK, UploadRow
    <3>. QED  BY <1>1, <3>1, <3>2, <3>3, <3>4, SameWorks
  <2>. QED  BY <2>1, <2>2
<1>10. OneWorker'
  BY <1>4, <1>5 DEF CardInv, Attempts, OneWorker
<1>11. SheetsOK'
  BY <1>1 DEF CardInv, Attempts, SheetsOK
<1>. QED  BY <1>7, <1>8, <1>9, <1>10, <1>11 DEF CardInv, Attempts

\* A write whose worker is gone still lands, or never does.
LEMMA LateWriteStep ==
  ASSUME CardInv, NEW o \in Objects, NEW arrives \in BOOLEAN, LateWrite(o, arrives)
  PROVE  CardInv'
<1>1. /\ o \in underway /\ underway' = underway \ {o}
      /\ stored' = stored \cup {o} \/ stored' = stored
      /\ UNCHANGED <<uploads, builders, catalogue, queue, collector, reader, enabled, troubles>>
  BY DEF LateWrite
<1>2. \A p \in Objects : Settled(p) => Settled(p)'
  BY <1>1 DEF Settled, At
<1>3. Stock'
  BY <1>1, <1>2, WriteEnds
<1>4. Attempts'
  <2>1. \A v \in Workers : \A d \in builders[v].done :
           /\ builders[v].plan[d].object \notin underway'
           /\ HoldsLease(v) => builders[v].plan[d].object \in stored'
    BY <1>1 DEF CardInv, Attempts, Working
  <2>. QED  BY <1>1, <2>1, StillWorking
<1>5. CardTypeOK'
  BY <1>1 DEF CardInv, CardTypeOK
<1>. QED  BY <1>3, <1>4, <1>5 DEF CardInv

-----------------------------------------------------------------------------
(* Publication *)

\* What a publication adopts and what it replaces.
LEMMA PublishStep ==
  ASSUME CardInv, NEW w \in Workers, Publish(w)
  PROVE  CardInv'
<1>. DEFINE r == builders[w].run
            plan == builders[w].plan
            new == Changed(plan)
            adopted == {plan[c].object : c \in new}
            replaced == {plan[c].baseline.object : c \in {d \in new : plan[d].baseline # Nothing}}
            row(c) == [revision |-> IF plan[c].baseline = Nothing THEN 1 ELSE plan[c].baseline.revision + 1,
                       content |-> plan[c].content, object |-> plan[c].object, archived |-> FALSE]
<1>1. /\ builders[w].pc = "put" /\ ToPut(w) = {} /\ HoldsLease(w)
      /\ BaselinesMatch(plan)
      /\ catalogue' = [c \in Cards |-> IF c \in new THEN row(c) ELSE catalogue[c]]
      /\ queue' = [o \in Objects |-> IF o \in adopted THEN Nothing
                                     ELSE IF o \in replaced THEN Replaced(o) ELSE queue[o]]
      /\ uploads' = [uploads EXCEPT ![r].status = "succeeded", ![r].held = FALSE]
      /\ Stop(w) /\ reader' = [reader EXCEPT !.same = FALSE]
      /\ UNCHANGED <<stored, underway, collector, enabled, troubles>>
  BY DEF Publish, Requeued, VersionMoved
<1>2. Working(w) /\ builders[w] \in BuilderRow /\ uploads \in [CardRuns -> UploadRow] /\ SheetsOK
  BY DEF CardInv, Attempts, CardTypeOK
<1>3. /\ r \in CardRuns /\ uploads[r].status = "running" /\ uploads[r].held
      /\ uploads[r].attempt = builders[w].attempt /\ uploads[r].by = w
  BY <1>1, <1>2 DEF HoldsLease, Claims, Working
<1>4. /\ uploads' \in [CardRuns -> UploadRow]
      /\ \A q \in CardRuns : q # r => uploads'[q] = uploads[q]
      /\ uploads'[r].attempt = uploads[r].attempt /\ uploads'[r].sheet = uploads[r].sheet
      /\ uploads'[r].by = w /\ uploads'[r].status = "succeeded" /\ ~uploads'[r].held
  BY <1>1, <1>2, <1>3 DEF UploadRow
<1>5. /\ builders' \in [Workers -> BuilderRow] /\ builders'[w] = Idle
      /\ \A v \in Workers : v # w => builders'[v] = builders[v]
  BY <1>1, NothingIdle DEF Stop, CardInv, CardTypeOK
\* Each changed card has an object of this attempt, that was written.
<1>6. ASSUME NEW c \in new
      PROVE  /\ c \in Cards /\ c \in DOMAIN plan /\ plan[c].object # Nothing /\ plan[c].object \in Objects
             /\ plan[c].object[1] = r /\ plan[c].object[2] = builders[w].attempt
             /\ plan[c].object \in stored /\ plan[c].object \notin underway
             /\ plan[c] \in PlanRow /\ plan[c].baseline = catalogue[c]
  <2>1. c \in DOMAIN plan /\ plan[c].object # Nothing
    BY DEF Changed
  <2>2. c \in builders[w].done
    BY <1>1, <2>1 DEF ToPut
  <2>3. plan[c].object \in stored /\ plan[c].object \notin underway /\ plan[c] \in PlanRow
    BY <1>1, <1>2, <2>1, <2>2 DEF Working
  <2>4. plan[c].baseline = catalogue[c]
    BY <1>1, <2>1 DEF BaselinesMatch
  <2>. QED  BY <1>1, <2>1, <2>3, <2>4, OwnObject
<1>7. ASSUME NEW c \in new
      PROVE  row(c) \in CardRow /\ row(c) # Nothing /\ row(c).object = plan[c].object
  <2>1. /\ plan[c].content \in Contents /\ plan[c].object \in Objects
        /\ plan[c].baseline # Nothing => plan[c].baseline.revision \in Nat
    BY <1>6 DEF PlanRow, CardRow
  <2>2. row(c) \in CardRow
    BY <2>1 DEF CardRow
  <2>3. row(c).object = plan[c].object
    OBVIOUS
  <2>. HIDE DEF row
  <2>. QED  BY <2>2, <2>3, CardAssumption
<1>. HIDE DEF row
<1>8. /\ \A o \in adopted : /\ o \in Objects /\ o # Nothing /\ o[1] = r /\ o[2] = builders[w].attempt
                            /\ o \in stored /\ o \notin underway
      /\ \A o \in replaced : o \in Objects /\ Referenced(o)
  <2>1. \A o \in adopted : /\ o \in Objects /\ o # Nothing /\ o[1] = r /\ o[2] = builders[w].attempt
                           /\ o \in stored /\ o \notin underway
    BY <1>6
  <2>2. ASSUME NEW c \in new, plan[c].baseline # Nothing
        PROVE  plan[c].baseline.object \in Objects /\ Referenced(plan[c].baseline.object)
    BY <1>6, <2>2 DEF CardInv, CardTypeOK, CardRow, Referenced
  <2>. QED  BY <2>1, <2>2
\* The catalogue afterwards refers to what it referred to, without the replaced, and to the adopted.
<1>9. \A o \in Objects : Referenced(o)' => Referenced(o) \/ o \in adopted
  <2>. SUFFICES ASSUME NEW o \in Objects, NEW c \in Cards, catalogue'[c] # Nothing, catalogue'[c].object = o
                PROVE  Referenced(o) \/ o \in adopted
    BY DEF Referenced
  <2>1. CASE c \in new
    BY <1>1, <1>7, <2>1
  <2>2. CASE c \notin new
    BY <1>1, <2>2 DEF Referenced
  <2>. QED  BY <2>1, <2>2
<1>10. \A o \in Objects : Referenced(o) => Referenced(o)' \/ o \in replaced
  <2>. SUFFICES ASSUME NEW o \in Objects, NEW c \in Cards, catalogue[c] # Nothing, catalogue[c].object = o
                PROVE  Referenced(o)' \/ o \in replaced
    BY DEF Referenced
  <2>1. CASE c \in new
    BY <1>6, <2>1
  <2>2. CASE c \notin new
    BY <1>1, <2>2 DEF Referenced
  <2>. QED  BY <2>1, <2>2
<1>11. ASSUME NEW o \in adopted
       PROVE  Referenced(o)'
  <2>1. PICK c \in new : o = plan[c].object
    OBVIOUS
  <2>2. c \in Cards /\ catalogue'[c] # Nothing /\ catalogue'[c].object = o
    BY <1>1, <1>6, <1>7, <2>1
  <2>. QED  BY <2>2 DEF Referenced
<1>12. CardTypeOK'
  <2>1. catalogue' \in [Cards -> {Nothing} \cup CardRow]
    BY <1>1, <1>7 DEF CardInv, CardTypeOK
  <2>2. \A o \in Objects : Replaced(o) \in QueueRow
    BY DEF Replaced, QueueRow
  <2>3. queue' \in [Objects -> {Nothing} \cup QueueRow]
    BY <1>1, <2>2 DEF CardInv, CardTypeOK
  <2>4. reader' \in ReaderRow
    BY <1>1 DEF CardInv, CardTypeOK, ReaderRow
  <2>. QED  BY <1>1, <1>4, <1>5, <2>1, <2>3, <2>4 DEF CardInv, CardTypeOK
<1>13. LinkedObjects' = LinkedObjects
  BY <1>1 DEF CardInv, CardTypeOK, ReaderRow, LinkedObjects
<1>14. \A q \in CardRuns : /\ uploads'[q].attempt = uploads[q].attempt
                           /\ uploads'[q].sheet = uploads[q].sheet
                           /\ uploads[q].status = "succeeded" => uploads'[q].status = "succeeded"
                           /\ uploads'[q].status = "running" /\ uploads'[q].held =>
                                uploads'[q] = uploads[q]
  BY <1>3, <1>4
<1>15. \A v \in Workers : \/ builders'[v].run = Nothing
                          \/ builders'[v].run = builders[v].run /\ builders'[v].attempt = builders[v].attempt
  BY <1>5, NothingIdle
<1>16. Stays
  BY <1>14, <1>15, Lapses
<1>17. \A o \in adopted : Settled(o)'
  <2>. SUFFICES ASSUME NEW o \in adopted
                PROVE  Settled(o)'
    OBVIOUS
  <2>1. o[1] = r /\ o[2] = builders[w].attempt
    BY <1>8
  <2>2. \A v \in Workers : ~(builders'[v].run = r /\ builders'[v].attempt = builders[w].attempt)
    BY <1>3, <1>5, NothingIdle, CardAssumption DEF CardInv, Attempts, OneWorker
  <2>. HIDE DEF adopted, r
  <2>. QED  BY <1>4, <2>1, <2>2 DEF Settled, At
<1>18. Attempts'
  <2>1. ASSUME NEW v \in Workers, v # w
        PROVE  Working(v)'
    <3>1. Working(v) /\ builders'[v] = builders[v]
      BY <1>5, <2>1 DEF CardInv, Attempts
    <3>2. builders[v].run # Nothing => builders[v].run \in CardRuns /\ uploads[builders[v].run].attempt \in Nat
      BY <3>1, <1>2, CardAssumption DEF Working, UploadRow
    <3>3. HoldsLease(v)' => HoldsLease(v)
      BY <1>14, <3>1, <3>2 DEF HoldsLease, Claims
    <3>4. \A d \in builders[v].done : /\ builders[v].plan[d].object \notin underway'
                                      /\ HoldsLease(v)' => builders[v].plan[d].object \in stored'
      BY <1>1, <3>1, <3>3 DEF Working
    <3>. QED  BY <1>14, <3>1, <3>2, <3>3, <3>4, SameWorks
  <2>2. OneWorker'
    BY <1>15 DEF CardInv, Attempts, OneWorker
  <2>3. SheetsOK'
    BY <1>2, <1>3, <1>4 DEF SheetsOK
  <2>. QED  BY <1>5, <2>1, <2>2, <2>3, IdleWorks DEF Attempts
<1>. HIDE DEF adopted, replaced, new, plan, r
<1>19. QueueOK'
  <2>. SUFFICES ASSUME NEW o \in Objects, queue'[o] # Nothing
                PROVE  /\ Known(o)' /\ queue'[o].run \in {Nothing, o[1]}
                       /\ queue'[o].run = Nothing => Settled(o)'
    BY DEF QueueOK
  <2>1. CASE o \in replaced
    BY <1>1, <1>8, <1>16, <2>1 DEF Replaced, Stays, CardInv, Stock, ReferencedOK
  <2>2. CASE o \notin replaced
    BY <1>1, <1>16, <2>2 DEF Stays, CardInv, Stock, QueueOK
  <2>. QED  BY <2>1, <2>2
<1>20. UnderwayOK'
  <2>1. \A o \in underway : /\ o \in Objects /\ o \notin adopted /\ o \notin replaced
                            /\ ~Referenced(o) /\ queue[o] # Nothing /\ queue[o].run # Nothing
    BY <1>8 DEF CardInv, CardTypeOK, Stock, UnderwayOK
  <2>. QED  BY <1>1, <1>9, <2>1 DEF UnderwayOK
<1>21. ReferencedOK'
  <2>1. \A o \in adopted : Known(o)'
    <3>1. \A o \in adopted : o[1] = r /\ o[2] = builders[w].attempt
      BY <1>8
    <3>2. uploads'[r].attempt = builders[w].attempt /\ builders[w].attempt \in Nat
      BY <1>2, <1>3, <1>4, CardAssumption DEF BuilderRow, r
    <3>. QED  BY <3>1, <3>2 DEF Known
  <2>. QED  BY <1>1, <1>8, <1>9, <1>16, <1>17, <2>1 DEF CardInv, Stock, ReferencedOK, Stays
<1>22. LinkedOK'
  <2>. SUFFICES ASSUME NEW o \in LinkedObjects
                PROVE  /\ o \in stored' /\ Settled(o)'
                       /\ Referenced(o)' \/ (queue'[o] # Nothing /\ ~queue'[o].due)
    BY <1>13 DEF LinkedOK
  <2>1. /\ o \in Objects /\ o \in stored /\ Settled(o)
        /\ Referenced(o) \/ (queue[o] # Nothing /\ ~queue[o].due)
    BY LinkedTyped DEF CardInv, Stock, LinkedOK
  <2>2. CASE o \in adopted
    BY <1>1, <1>11, <1>16, <2>1, <2>2 DEF Stays
  <2>3. CASE o \in replaced /\ o \notin adopted
    <3>1. queue'[o] = Replaced(o)
      BY <1>1, <2>1, <2>3
    <3>2. Replaced(o) # Nothing /\ ~Replaced(o).due
      <4>1. Replaced(o) \in QueueRow /\ ~Replaced(o).due
        BY DEF Replaced, QueueRow
      <4>. QED  BY <4>1, CardAssumption
    <3>. QED  BY <1>1, <1>16, <2>1, <3>1, <3>2 DEF Stays
  <2>4. CASE o \notin replaced /\ o \notin adopted
    BY <1>1, <1>10, <1>16, <2>1, <2>4 DEF Stays
  <2>. QED  BY <2>2, <2>3, <2>4
<1>23. CollectorOK'
  <2>. DEFINE o == collector.object
  <2>1. o \notin adopted
    <3>1. \A p \in adopted : ~Dead(p)
      BY <1>3, <1>8 DEF Dead
    <3>2. o # Nothing => Dead(o)
      BY DEF CardInv, Stock, CollectorOK
    <3>. QED  BY <1>8, <3>1, <3>2
  <2>2. o = Nothing => ~collector.deleted
    BY DEF CardInv, Stock, CollectorOK
  <2>3. CASE o # Nothing
    <3>1. /\ o \in Objects /\ Known(o) /\ Dead(o) /\ ~Referenced(o) /\ o \notin LinkedObjects
          /\ collector.deleted /\ (queue[o] = Nothing \/ queue[o].run = Nothing) => o \notin stored
      BY <2>3 DEF CardInv, CardTypeOK, Stock, CollectorOK
    <3>2. queue'[o] = queue[o] /\ ~Referenced(o)' /\ Known(o)' /\ Dead(o)'
      BY <1>1, <1>8, <1>9, <1>16, <2>1, <3>1 DEF Stays
    <3>. QED  BY <1>1, <1>13, <2>3, <3>1, <3>2 DEF CollectorOK
  <2>. QED  BY <1>1, <2>2, <2>3 DEF CollectorOK
<1>24. CandidatesAccounted'
  <2>. SUFFICES ASSUME NEW o \in stored
                PROVE  Referenced(o)' \/ queue'[o] # Nothing
    BY <1>1 DEF CandidatesAccounted
  <2>1. o \in Objects /\ (Referenced(o) \/ queue[o] # Nothing)
    BY DEF CardInv, CardTypeOK, Stock, CandidatesAccounted
  <2>2. CASE o \in replaced /\ o \notin adopted
    <3>1. queue'[o] = Replaced(o)
      BY <1>1, <2>1, <2>2
    <3>2. Replaced(o) \in QueueRow
      BY DEF Replaced, QueueRow
    <3>. QED  BY <3>1, <3>2, CardAssumption
  <2>3. CASE o \notin replaced /\ o \notin adopted
    BY <1>1, <1>10, <2>1, <2>3
  <2>. QED  BY <1>11, <2>2, <2>3
<1>. QED  BY <1>12, <1>18, <1>19, <1>20, <1>21, <1>22, <1>23, <1>24 DEF CardInv, Stock

-----------------------------------------------------------------------------
(* The catalogue and its readers *)

\* A step that refers to the same objects and links to no other ones.
LEMMA SameReferences ==
  ASSUME CardInv, UNCHANGED <<uploads, builders, stored, underway, queue, collector>>,
         catalogue' \in [Cards -> {Nothing} \cup CardRow],
         \A o \in Objects : Referenced(o)' <=> Referenced(o),
         reader' \in ReaderRow, \A o \in LinkedObjects' : o \in LinkedObjects \/ (o \in Objects /\ Referenced(o)),
         enabled' \in BOOLEAN, troubles' \in Nat
  PROVE  CardInv'
<1>1. Attempts'
  BY StillWorking DEF CardInv, Attempts, Working
<1>2. CardTypeOK'
  BY DEF CardInv, CardTypeOK
<1>3. QueueOK' /\ UnderwayOK' /\ ReferencedOK' /\ CandidatesAccounted'
  BY DEF CardInv, CardTypeOK, Stock, QueueOK, UnderwayOK, ReferencedOK, CandidatesAccounted, Known, Settled, At
<1>4. LinkedOK'
  BY LinkedTyped DEF CardInv, Stock, LinkedOK, ReferencedOK, Settled, At
<1>5. CollectorOK'
  BY DEF CardInv, CardTypeOK, Stock, CollectorOK, Known, Dead
<1>. QED  BY <1>1, <1>2, <1>3, <1>4, <1>5 DEF CardInv, Stock

\* Moving the authorization version takes no link back.
LEMMA VersionMoves ==
  ASSUME CardTypeOK, VersionMoved
  PROVE  reader' \in ReaderRow /\ LinkedObjects' = LinkedObjects
BY DEF CardTypeOK, VersionMoved, ReaderRow, LinkedObjects

\* Archiving a card keeps its row, and so its object.
LEMMA ArchiveStep ==
  ASSUME CardInv, NEW c \in Cards, ArchiveCostCard(c)
  PROVE  CardInv'
<1>. DEFINE x == [catalogue[c] EXCEPT !.archived = TRUE, !.revision = @ + 1]
<1>1. /\ catalogue[c] # Nothing /\ catalogue' = [catalogue EXCEPT ![c] = x]
      /\ VersionMoved /\ troubles' = troubles + 1
      /\ UNCHANGED <<uploads, builders, stored, underway, queue, collector, enabled>>
  BY DEF ArchiveCostCard, Trouble
<1>2. catalogue \in [Cards -> {Nothing} \cup CardRow] /\ catalogue[c] \in CardRow
  BY <1>1 DEF CardInv, CardTypeOK
<1>3. x \in CardRow /\ x.object = catalogue[c].object
  <2>. DEFINE n == catalogue[c].revision + 1
  <2>1. n \in Nat
    BY <1>2 DEF CardRow
  <2>2. x = [catalogue[c] EXCEPT !.archived = TRUE, !.revision = n]
    OBVIOUS
  <2>. HIDE DEF n, x
  <2>. QED  BY <1>2, <2>1, <2>2 DEF CardRow
<1>. HIDE DEF x
<1>4. /\ catalogue' \in [Cards -> {Nothing} \cup CardRow] /\ catalogue'[c] = x /\ x # Nothing
      /\ \A d \in Cards : d # c => catalogue'[d] = catalogue[d]
  BY <1>1, <1>2, <1>3, CardAssumption
<1>5. \A o \in Objects : Referenced(o)' <=> Referenced(o)
  BY <1>1, <1>3, <1>4 DEF Referenced
<1>6. reader' \in ReaderRow /\ LinkedObjects' = LinkedObjects
  BY <1>1, VersionMoves DEF CardInv
<1>7. enabled' \in BOOLEAN /\ troubles' \in Nat
  BY <1>1 DEF CardInv, CardTypeOK
<1>. QED  BY <1>1, <1>4, <1>5, <1>6, <1>7, SameReferences

\* Suspending changes no row and no object.
LEMMA SuspendStep ==
  ASSUME CardInv, SuspendReads
  PROVE  CardInv'
<1>1. reader' \in ReaderRow /\ LinkedObjects' = LinkedObjects
  BY VersionMoves DEF SuspendReads, CardInv
<1>2. /\ UNCHANGED <<uploads, builders, catalogue, stored, underway, queue, collector>>
      /\ enabled' = FALSE /\ troubles' = troubles + 1 /\ troubles \in Nat
  BY DEF SuspendReads, Trouble, CardInv, CardTypeOK
<1>3. \A o \in Objects : Referenced(o)' <=> Referenced(o)
  BY <1>2 DEF Referenced
<1>4. catalogue' \in [Cards -> {Nothing} \cup CardRow]
  BY <1>2 DEF CardInv, CardTypeOK
<1>5. enabled' \in BOOLEAN
  BY <1>2
<1>6. troubles' \in Nat
  BY <1>2
<1>. QED  BY <1>1, <1>2, <1>3, <1>4, <1>5, <1>6, SameReferences

\* A reader may only learn links to objects that rows refer to.
LEMMA ReaderMoves ==
  ASSUME CardInv, ReadFrame, reader' \in ReaderRow,
         \A o \in LinkedObjects' : o \in LinkedObjects \/ (o \in Objects /\ Referenced(o))
  PROVE  CardInv'
<1>1. /\ UNCHANGED <<uploads, builders, catalogue, stored, underway, queue, collector>>
      /\ enabled' \in BOOLEAN /\ troubles' \in Nat
      /\ catalogue' \in [Cards -> {Nothing} \cup CardRow]
  BY DEF ReadFrame, CardInv, CardTypeOK
<1>2. \A o \in Objects : Referenced(o)' <=> Referenced(o)
  BY <1>1 DEF Referenced
<1>. QED  BY <1>1, <1>2, SameReferences

\* The reader's own steps: the manifest, the links, the downloads.
LEMMA ReadStepHolds ==
  ASSUME CardInv, ReadStep
  PROVE  CardInv'
<1>1. reader \in ReaderRow
  BY DEF CardInv, CardTypeOK
<1>2. CASE ManifestSnapshot
  <2>1. Entries \subseteq Entry /\ \A e \in Entries : e.object \in Objects /\ Referenced(e.object)
    BY DEF Entries, Entry, CardRow, CardInv, CardTypeOK, Referenced
  <2>2. /\ reader' = [reader EXCEPT !.pc = "signed", !.entries = Entries, !.same = TRUE, !.live = TRUE]
        /\ ReadFrame
    BY <1>2 DEF ManifestSnapshot
  <2>3. reader' \in ReaderRow /\ reader'.entries = Entries
    BY <1>1, <2>1, <2>2 DEF ReaderRow
  <2>4. \A o \in LinkedObjects' : o \in Objects /\ Referenced(o)
    BY <2>1, <2>3 DEF LinkedObjects
  <2>. QED  BY <2>2, <2>3, <2>4, ReaderMoves
<1>3. Ended \in ReaderRow /\ ~Ended.live
  BY DEF Ended, NoReader, ReaderRow
<1>4. CASE \/ Expires \/ ManifestAnswer \/ DownloadRefused \/ DownloadFails \/ DownloadEnds
           \/ \E e \in reader.entries : DownloadFile(e)
  <2>1. ReadFrame
    BY <1>4 DEF Expires, ManifestAnswer, DownloadRefused, DownloadFails, DownloadEnds, DownloadFile
  <2>2. reader' \in ReaderRow /\ (reader'.live => reader.live /\ reader'.entries = reader.entries)
    <3>1. CASE Expires \/ DownloadEnds
      BY <1>1, <3>1 DEF Expires, DownloadEnds, ReaderRow
    <3>2. CASE ManifestAnswer
      BY <1>1, <1>3, <3>2 DEF ManifestAnswer, ReaderRow
    <3>3. CASE DownloadRefused
      BY <1>1, <1>3, <3>3 DEF DownloadRefused, ReaderRow, Cleared
    <3>4. CASE DownloadFails
      BY <1>3, <3>4 DEF DownloadFails
    <3>5. ASSUME NEW e \in reader.entries, DownloadFile(e)
          PROVE  reader' \in ReaderRow /\ (reader'.live => reader.live /\ reader'.entries = reader.entries)
      BY <1>1, <3>5 DEF DownloadFile, ReaderRow
    <3>. QED  BY <1>4, <3>1, <3>2, <3>3, <3>4, <3>5
  <2>3. LinkedObjects' \subseteq LinkedObjects
    BY <2>2 DEF LinkedObjects
  <2>. QED  BY <2>1, <2>2, <2>3, ReaderMoves
<1>. QED  BY <1>2, <1>4 DEF ReadStep

-----------------------------------------------------------------------------
(* Collection *)

\* The collector takes an entry that is due and that nothing refers to.
LEMMA CollectStartStep ==
  ASSUME CardInv, NEW o \in Objects, CollectStart(o)
  PROVE  CardInv'
<1>1. /\ collector' = [object |-> o, deleted |-> FALSE] /\ Collectable(o)
      /\ UNCHANGED <<uploads, builders, catalogue, stored, underway, queue, reader, enabled, troubles>>
  BY DEF CollectStart
<1>2. o[1] \in CardRuns /\ o[1] # Nothing
  BY ObjectParts, CardAssumption
<1>3. Known(o) /\ Dead(o)
  BY <1>1, <1>2 DEF Collectable, RunLeased, CardInv, Stock, QueueOK, Settled, Dead
<1>4. ~Referenced(o) /\ o \notin LinkedObjects
  BY <1>1 DEF Collectable, CardInv, Stock, LinkedOK
<1>5. Attempts'
  BY <1>1, StillWorking DEF CardInv, Attempts, Working
<1>6. CardTypeOK'
  BY <1>1 DEF CardInv, CardTypeOK
<1>7. QueueOK' /\ UnderwayOK' /\ ReferencedOK' /\ CandidatesAccounted' /\ LinkedOK'
  BY <1>1 DEF CardInv, Stock, QueueOK, UnderwayOK, ReferencedOK, CandidatesAccounted, LinkedOK,
              LinkedObjects, Referenced, Known, Settled, At
<1>8. CollectorOK'
  BY <1>1, <1>3, <1>4 DEF CollectorOK, Known, Dead, Referenced, LinkedObjects
<1>. QED  BY <1>5, <1>6, <1>7, <1>8 DEF CardInv, Stock

\* It deletes an object nobody can need any more.
LEMMA CollectDeleteStep ==
  ASSUME CardInv, CollectDelete
  PROVE  CardInv'
<1>. DEFINE o == collector.object
<1>1. /\ o # Nothing /\ stored' = stored \ {o} /\ collector' = [collector EXCEPT !.deleted = TRUE]
      /\ UNCHANGED <<uploads, builders, catalogue, underway, queue, reader, enabled, troubles>>
  BY DEF CollectDelete
<1>2. /\ Known(o) /\ Dead(o) /\ ~Referenced(o) /\ o \notin LinkedObjects /\ o \in Objects
  BY <1>1 DEF CardInv, CardTypeOK, Stock, CollectorOK
<1>3. collector'.object = o /\ collector'.deleted /\ collector' \in [object : {Nothing} \cup Objects, deleted : BOOLEAN]
  BY <1>1 DEF CardInv, CardTypeOK
<1>4. \A v \in Workers : \A d \in builders[v].done : HoldsLease(v) => builders[v].plan[d].object # o
  <2>. SUFFICES ASSUME NEW v \in Workers, NEW d \in builders[v].done, HoldsLease(v), builders[v].plan[d].object = o
                PROVE  FALSE
    OBVIOUS
  <2>1. builders[v].pc = "put" /\ d \in DOMAIN builders[v].plan /\ builders[v].plan[d].object # Nothing
    BY DEF CardInv, Attempts, Working
  <2>2. builders[v].run \in CardRuns /\ o[1] = builders[v].run /\ o[2] = builders[v].attempt
    BY <2>1, OwnObject
  <2>. HIDE DEF o
  <2>. QED  BY <1>2, <2>2 DEF Dead, HoldsLease, Claims
<1>5. Attempts'
  BY <1>1, <1>4, StillWorking DEF CardInv, Attempts, Working
<1>. HIDE DEF o
<1>6. CardTypeOK'
  BY <1>1, <1>3 DEF CardInv, CardTypeOK
<1>7. QueueOK' /\ UnderwayOK' /\ ReferencedOK' /\ CandidatesAccounted' /\ LinkedOK'
  BY <1>1, <1>2 DEF CardInv, Stock, QueueOK, UnderwayOK, ReferencedOK, CandidatesAccounted, LinkedOK,
              LinkedObjects, Referenced, Known, Settled, At
<1>8. CollectorOK'
  BY <1>1, <1>2, <1>3 DEF CollectorOK, Known, Dead, Referenced, LinkedObjects
<1>. QED  BY <1>5, <1>6, <1>7, <1>8 DEF CardInv, Stock

\* Steps that change the entry of one object that is neither linked to nor of an attempt's write.
LEMMA EntryMoves ==
  ASSUME CardInv, NEW o \in Objects, NEW entry \in {Nothing} \cup QueueRow,
         queue[o] = Nothing => entry = Nothing,
         entry # Nothing => entry.run = queue[o].run,
         o \notin LinkedObjects, o \in underway => entry # Nothing,
         entry = Nothing => Referenced(o) \/ o \notin stored,
         queue' = [queue EXCEPT ![o] = entry],
         collector' = collector \/ (collector'.object = Nothing /\ ~collector'.deleted),
         collector' \in [object : {Nothing} \cup Objects, deleted : BOOLEAN],
         collector.object # o \/ collector'.object = Nothing
           \/ (entry # Nothing /\ queue[o] # Nothing),
         UNCHANGED <<uploads, builders, catalogue, stored, underway, reader, enabled, troubles>>
  PROVE  CardInv'
<1>1. /\ queue' \in [Objects -> {Nothing} \cup QueueRow] /\ queue'[o] = entry
      /\ \A p \in Objects : p # o => queue'[p] = queue[p]
  BY DEF CardInv, CardTypeOK
<1>2. CardTypeOK'
  BY <1>1 DEF CardInv, CardTypeOK
<1>3. Attempts'
  BY StillWorking DEF CardInv, Attempts, Working
<1>4. QueueOK'
  BY <1>1 DEF CardInv, Stock, QueueOK, Known, Settled, At
<1>5. UnderwayOK' /\ ReferencedOK' /\ CandidatesAccounted'
  BY <1>1 DEF CardInv, CardTypeOK, Stock, UnderwayOK, ReferencedOK, CandidatesAccounted, Referenced, Known, Settled, At
<1>6. LinkedOK'
  BY <1>1, LinkedTyped DEF CardInv, Stock, LinkedOK, LinkedObjects, Referenced, Settled, At
<1>7. CollectorOK'
  BY <1>1 DEF CardInv, CardTypeOK, Stock, CollectorOK, LinkedObjects, Referenced, Known, Dead
<1>. QED  BY <1>2, <1>3, <1>4, <1>5, <1>6, <1>7 DEF CardInv, Stock

\* It forgets the entry of what is gone, or keeps it for writes that arrive late.
LEMMA CollectFinishStep ==
  ASSUME CardInv, CollectFinish
  PROVE  CardInv'
<1>1. PICK o : o = collector.object
  OBVIOUS
<1>2. /\ collector.deleted /\ queue' = [queue EXCEPT ![o] = Tombstone(o)]
      /\ collector' = [object |-> Nothing, deleted |-> FALSE]
      /\ UNCHANGED <<uploads, builders, catalogue, stored, underway, reader, enabled, troubles>>
  BY <1>1 DEF CollectFinish
<1>3. /\ o \in Objects /\ o # Nothing /\ o \notin LinkedObjects
      /\ (queue[o] = Nothing \/ queue[o].run = Nothing) => o \notin stored
  BY <1>1, <1>2 DEF CardInv, CardTypeOK, Stock, CollectorOK
<1>4. queue[o] # Nothing => queue[o] \in QueueRow
  BY <1>3 DEF CardInv, CardTypeOK
<1>5. CASE queue[o] = Nothing \/ queue[o].run = Nothing
  <2>1. Tombstone(o) = Nothing /\ o \notin stored /\ o \notin underway
    BY <1>3, <1>5 DEF Tombstone, CardInv, Stock, UnderwayOK
  <2>. QED  BY <1>2, <1>3, <2>1, EntryMoves
<1>6. CASE queue[o] # Nothing /\ queue[o].run # Nothing
  <2>1. Tombstone(o) \in QueueRow /\ Tombstone(o).run = queue[o].run
    BY <1>4, <1>6 DEF Tombstone, QueueRow
  <2>. QED  BY <1>2, <1>3, <1>6, <2>1, CardAssumption, EntryMoves
<1>. QED  BY <1>5, <1>6

\* It dies between deleting and forgetting: the entry is still there.
LEMMA CollectCrashStep ==
  ASSUME CardInv, CollectCrash
  PROVE  CardInv'
<1>1. /\ collector' = [object |-> Nothing, deleted |-> FALSE] /\ troubles' = troubles + 1
      /\ UNCHANGED <<uploads, builders, catalogue, stored, underway, queue, reader, enabled>>
  BY DEF CollectCrash, Trouble
<1>2. CardTypeOK'
  BY <1>1 DEF CardInv, CardTypeOK
<1>3. Attempts'
  BY <1>1, StillWorking DEF CardInv, Attempts, Working
<1>4. QueueOK' /\ UnderwayOK' /\ ReferencedOK' /\ CandidatesAccounted' /\ LinkedOK' /\ CollectorOK'
  BY <1>1 DEF CardInv, Stock, QueueOK, UnderwayOK, ReferencedOK, CandidatesAccounted, LinkedOK,
              LinkedObjects, Referenced, Known, Settled, At, CollectorOK
<1>. QED  BY <1>2, <1>3, <1>4 DEF CardInv, Stock

\* A day passes: entries fall due and links expire.
LEMMA DayStep ==
  ASSUME CardInv, NEW o \in Objects, DayPasses(o)
  PROVE  CardInv'
<1>. DEFINE entry == [queue[o] EXCEPT !.due = TRUE]
<1>1. /\ queue[o] # Nothing /\ o \notin LinkedObjects /\ queue' = [queue EXCEPT ![o] = entry]
      /\ UNCHANGED <<uploads, builders, catalogue, stored, underway, collector, reader, enabled, troubles>>
  BY DEF DayPasses
<1>2. queue[o] \in QueueRow
  BY <1>1 DEF CardInv, CardTypeOK
<1>3. entry \in QueueRow /\ entry.run = queue[o].run
  BY <1>2 DEF QueueRow
<1>. HIDE DEF entry
<1>4. entry # Nothing
  BY <1>3, CardAssumption
<1>5. collector' \in [object : {Nothing} \cup Objects, deleted : BOOLEAN]
  BY <1>1 DEF CardInv, CardTypeOK
<1>6. entry \in {Nothing} \cup QueueRow
  BY <1>3
<1>. QED  BY <1>1, <1>3, <1>4, <1>5, <1>6, EntryMoves

-----------------------------------------------------------------------------
(* The theorems *)

\* The inductive invariant holds of every behaviour, for any runs, workers, sheets and
\* numbers of attempts and of troubles.
THEOREM CardInvariant == CardSpec => []CardInv
<1>1. CardInit => CardInv
  <2>. SUFFICES ASSUME CardInit PROVE CardInv
    OBVIOUS
  <2>1. CardTypeOK
    <3>1. NoReader \in ReaderRow
      BY DEF NoReader, ReaderRow
    <3>2. collector \in [object : {Nothing} \cup Objects, deleted : BOOLEAN]
      BY DEF CardInit
    <3>. QED  BY <3>1, <3>2, NothingIdle DEF CardInit, CardTypeOK
  <2>2. \A w \in Workers : builders[w] = Idle
    BY DEF CardInit
  <2>3. \A w \in Workers : Working(w)
    BY <2>2 DEF Working, Idle
  <2>4. OneWorker /\ SheetsOK
    BY <2>2, NothingIdle DEF CardInit, OneWorker, SheetsOK
  <2>5. LinkedObjects = {}
    BY DEF CardInit, LinkedObjects, NoReader
  <2>6. Stock
    BY <2>5 DEF CardInit, Stock, QueueOK, UnderwayOK, ReferencedOK, LinkedOK, CollectorOK, CandidatesAccounted,
                Referenced
  <2>. QED  BY <2>1, <2>3, <2>4, <2>6 DEF CardInv, Attempts
<1>2. CardInv /\ [CardNext]_cardVars => CardInv'
  <2>. SUFFICES ASSUME CardInv, [CardNext]_cardVars PROVE CardInv'
    OBVIOUS
  <2>1. ASSUME NEW w \in Workers, BuildStep(w)
        PROVE  CardInv'
    <3>1. ASSUME PutFails(w)
          PROVE  CardInv'
      <4>1. Fail(w, TRUE)
        BY <3>1 DEF PutFails
      <4>2. troubles' \in Nat
        BY <3>1 DEF PutFails, Trouble, CardInv, CardTypeOK
      <4>. QED  BY <4>1, <4>2, FailStep
    <3>2. ASSUME PublishRefused(w)
          PROVE  CardInv'
      <4>1. Fail(w, enabled /\ ~BaselinesMatch(builders[w].plan)) /\ troubles' \in Nat
        BY <3>2 DEF PublishRefused, CardInv, CardTypeOK
      <4>. QED  BY <4>1, FailStep
    <3>3. ASSUME NEW c \in DOMAIN builders[w].plan, BeginPut(w, c) \/ EndPut(w, c)
          PROVE  CardInv'
      BY <3>3, BeginPutStep, EndPutStep
    <3>. QED  BY <2>1, <3>1, <3>2, <3>3, ClaimStep, ParseStep, PlanStep, CompareStep, PublishStep, CrashStep
              DEF BuildStep
  <2>2. CASE CollectStep
    BY <2>2, CollectStartStep, CollectDeleteStep, CollectFinishStep, CollectCrashStep, DayStep DEF CollectStep
  <2>3. CASE UNCHANGED cardVars
    <3>1. \A o \in Objects : Referenced(o)' <=> Referenced(o)
      BY <2>3 DEF cardVars, Referenced
    <3>2. LinkedObjects' = LinkedObjects
      BY <2>3 DEF cardVars, LinkedObjects
    <3>. QED  BY <2>3, <3>1, <3>2, SameReferences DEF cardVars, CardInv, CardTypeOK
  <2>. QED  BY <2>1, <2>2, <2>3, UploadStep, LapseStep, LateWriteStep, ArchiveStep, SuspendStep, ReadStepHolds
            DEF CardNext
<1>. QED  BY <1>1, <1>2, PTL DEF CardSpec

\* The rows of runs, cards, the queue and downloads keep their types.
THEOREM CardTypeCorrect == CardSpec => []CardTypeOK
BY CardInvariant, PTL DEF CardInv

\* Every card has its object in storage, and so has every link that is live: an attempt
\* publishes only while it has its lease, and what the collector deletes belongs to an
\* attempt without one, to no card and to no live link (publishCostCards, canDeleteStorageGarbage).
THEOREM CardObjectsServe == CardSpec => []CardsServe
<1>1. CardInv => CardsServe
  <2>. SUFFICES ASSUME CardInv PROVE CardsServe
    OBVIOUS
  <2>1. ASSUME NEW c \in Cards, catalogue[c] # Nothing
        PROVE  catalogue[c].object \in stored
    <3>1. catalogue[c].object \in Objects
      BY <2>1 DEF CardInv, CardTypeOK, CardRow
    <3>. QED  BY <2>1, <3>1 DEF CardInv, Stock, ReferencedOK, Referenced
  <2>2. LinkedObjects \subseteq stored
    BY DEF CardInv, Stock, LinkedOK
  <2>. QED  BY <2>1, <2>2 DEF CardsServe
<1>. QED  BY <1>1, CardInvariant, PTL

\* Nothing in storage is forgotten: it belongs to a card or waits to be deleted, also when
\* the write of a worker that is gone arrives after its object was collected
\* (enqueueStorageGarbage, deleteGarbage).
THEOREM CardObjectsAccounted == CardSpec => []CandidatesAccounted
BY CardInvariant, PTL DEF CardInv, Stock
=============================================================================
