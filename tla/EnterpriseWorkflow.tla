------------------------ MODULE EnterpriseWorkflow ------------------------
(***************************************************************************)
(* A workflow of an enterprise: its configuration, the computer assigned   *)
(* to execute it, its runs, the external actions it may take and the       *)
(* migration of its history from an older installation                     *)
(* (apps/api/src/enterprise-workflows).  Every tool call is a transaction  *)
(* that locks the enterprise's integration and the workflow                *)
(* (lockWorkflow), so a call is one step.  A call that is refused changes  *)
(* nothing and is no step.                                                 *)
(*                                                                         *)
(* What a configuration allows is the set of stores it reaches: a store    *)
(* that is selected and whose source is mapped.  An external action (an    *)
(* upload, a reply, an email) concerns one deduplication key, and a key    *)
(* belongs to one store.                                                   *)
(***************************************************************************)
EXTENDS Naturals, FiniteSets

CONSTANTS
  Stores, Keys, StoreOf,     \* the key's store
  Installations, First,      \* computers, and the one assigned at the start
  Runs, Actions,
  Pages, LegacyAction, LegacyKey,  \* what the pages of the migrated history name
  MigratedStores,            \* the stores of the migrated configuration
  NoOne,
  Changes,                   \* the changes administrators prepare
  MaxChores                  \* administrative calls, and leases and checks that run out

ASSUME ConstantsAssumption ==
  /\ StoreOf \in [Keys -> Stores]
  /\ First \in Installations
  /\ Pages \in Nat \ {0}
  /\ LegacyAction \in [1..Pages -> Actions]
  /\ LegacyKey \in [1..Pages -> Keys]
  /\ MigratedStores \in (SUBSET Stores) \ {{}}
  /\ NoOne \notin Installations \cup Runs \cup Actions
  /\ Changes \subseteq [kind : {"configuration", "integration", "authorization", "control"},
                        to : SUBSET Stores, state : {"none", "active", "paused"}]
  /\ \A c \in Changes : c.kind = "control" => c.state # "none"

VARIABLES
  wf,        \* the row of enterprise_workflows
  config,    \* stores of the current configuration version
  integ,     \* the enterprise's integration: version and mapped stores
  auths,     \* stores with an unrevoked authorization of outward actions
  preview,   \* the prepared change a client holds
  installs, runs, actions,
  claims,    \* workflow_action_deduplication: the action that holds a key
  migration,
  permit,    \* what the computer that asked for an action may do and did
  performed, \* how often the outside world saw a key's action
  floor,     \* ghost: per run, what it began with less what a saved change took away
  chores     \* how many of MaxChores were used

vars == <<wf, config, integ, auths, preview, installs, runs, actions, claims,
          migration, permit, performed, floor, chores>>

NoPreview == [kind |-> "none", to |-> {}, state |-> "none", install |-> NoOne,
              epoch |-> 0, old |-> NoOne, oldHost |-> "none", pending |-> {},
              version |-> 0, iversion |-> 0, cversion |-> 0]
NoRun == [state |-> "none", status |-> "none", install |-> NoOne, epoch |-> 0,
          version |-> 0, iversion |-> 0, snap |-> {}, limit |-> {}]
NoAction == [state |-> "none", run |-> NoOne, key |-> CHOOSE k \in Keys : TRUE]
NoMigration == [stage |-> "none", sealed |-> FALSE, pages |-> 0, validated |-> 0,
                imported |-> 0, version |-> 0, iversion |-> 0, cversion |-> 0,
                epoch |-> 0]
HostActions == Actions \ {LegacyAction[p] : p \in 1..Pages}

\* A configured, active workflow whose first computer has taken it over; the
\* other computers are registered and checked.
Init ==
  /\ wf = [version |-> 1, control |-> "active", cversion |-> 1, epoch |-> 1,
           assigned |-> First, lease |-> NoOne, live |-> FALSE]
  /\ config = Stores
  /\ integ = [version |-> 1, mapped |-> Stores]
  /\ auths = Stores
  /\ preview = NoPreview
  /\ installs = [i \in Installations |->
                   IF i = First
                   THEN [state |-> "enabled", ready |-> TRUE, host |-> "enabled",
                         verified |-> FALSE, fresh |-> FALSE]
                   ELSE [state |-> "pending", ready |-> TRUE, host |-> "paused",
                         verified |-> FALSE, fresh |-> FALSE]]
  /\ runs = [r \in Runs |-> NoRun]
  /\ actions = [a \in Actions |-> NoAction]
  /\ claims = [k \in Keys |-> NoOne]
  /\ migration = NoMigration
  /\ permit = [a \in Actions |-> "none"]
  /\ performed = [k \in Keys |-> 0]
  /\ floor = [r \in Runs |-> {}]
  /\ chores = 0

Chore == chores < MaxChores /\ chores' = chores + 1

(* The live policy of a configuration and an integration. *)
LivePolicy(cfg, mapped) == cfg \cap mapped

LeaseHeld == wf.lease # NoOne /\ wf.live

\* validateConfiguration with the sources: every selected store is mapped.
Valid(cfg, mapped) == cfg # {} /\ cfg \subseteq mapped

Pending == {a \in Actions : actions[a].state \in {"intent", "unknown"}}

-----------------------------------------------------------------------------
(* Configuration: a change is prepared, shown, and saved under the versions  *)
(* it was prepared for.                                                      *)

Prepared(change) ==
  [change EXCEPT !.version = wf.version, !.iversion = integ.version,
                 !.cversion = wf.cversion]

StillPrepared ==
  /\ preview.version = wf.version
  /\ preview.iversion = integ.version
  /\ preview.cversion = wf.cversion

PrepareChange ==
  /\ \E c \in Changes :
       preview' = Prepared([NoPreview EXCEPT !.kind = c.kind, !.to = c.to,
                                             !.state = c.state])
  /\ Chore
  /\ UNCHANGED <<wf, config, integ, auths, installs, runs, actions, claims,
                 migration, permit, performed, floor>>

RestrictForgotten(old, new) == runs

\* restrictRuns: when the reach narrows, every unfinished run loses what is
\* no longer allowed, for good, and the control version changes.
Restrict(old, new) ==
  IF old \subseteq new
  THEN runs
  ELSE [r \in Runs |->
          IF runs[r].state = "open"
          THEN [runs[r] EXCEPT !.limit = @ \cap new] ELSE runs[r]]

Narrowed(old, new) == IF old \subseteq new THEN 0 ELSE 1

FloorAfter(old, new) ==
  [r \in Runs |-> IF runs[r].state = "open" THEN floor[r] \ (old \ new) ELSE floor[r]]

SaveConfiguration ==
  LET old == LivePolicy(config, integ.mapped)
      new == LivePolicy(preview.to, integ.mapped)
  IN /\ preview.kind = "configuration"
     /\ runs' = IF config = {} THEN runs ELSE Restrict(old, new)
     /\ floor' = FloorAfter(old, new)
     /\ config' = preview.to
     /\ wf' = [wf EXCEPT !.version = @ + 1, !.cversion = @ + Narrowed(old, new)]
     /\ UNCHANGED <<integ, auths>>

SaveIntegration ==
  LET old == LivePolicy(config, integ.mapped)
      new == LivePolicy(config, preview.to)
  IN /\ preview.kind = "integration"
     /\ runs' = Restrict(old, new)
     /\ floor' = FloorAfter(old, new)
     /\ integ' = [version |-> integ.version + 1, mapped |-> preview.to]
     /\ wf' = [wf EXCEPT !.cversion = @ + Narrowed(old, new)]
     /\ UNCHANGED <<config, auths>>

SaveAuthorization ==
  /\ preview.kind = "authorization"
  /\ preview.to \subseteq auths \cup config
  /\ auths' = preview.to
  /\ wf' = [wf EXCEPT !.cversion = @ + 1]
  /\ UNCHANGED <<config, integ, runs, floor>>

SaveControl ==
  /\ preview.kind = "control"
  /\ preview.state = "active" => Valid(config, integ.mapped)
  /\ wf' = [wf EXCEPT !.control = preview.state, !.cversion = @ + 1]
  /\ UNCHANGED <<config, integ, auths, runs, floor>>

SaveChange ==
  /\ StillPrepared
  /\ \/ SaveConfiguration
     \/ SaveIntegration
     \/ SaveAuthorization
     \/ SaveControl
  /\ preview' = NoPreview
  /\ UNCHANGED <<installs, actions, claims, migration, permit, performed, chores>>

-----------------------------------------------------------------------------
(* Installations *)

\* requireReady: registered and, unless the caller takes over, not revoked;
\* a valid configuration, a host snapshot and checks of the last day.
Ready(i, allowRevoked) ==
  /\ allowRevoked \/ installs[i].state # "revoked"
  /\ Valid(config, integ.mapped)
  /\ installs[i].host # "none"
  /\ installs[i].ready

InstallStep == UNCHANGED <<wf, config, integ, auths, preview, runs, actions,
                           claims, migration, permit, performed, floor>>

\* Registering again with other data clears the readiness checks.
Register(i) ==
  /\ installs[i].ready
  /\ installs' = [installs EXCEPT ![i].ready = FALSE]
  /\ Chore
  /\ InstallStep

\* record_checks; the first run is verified by a finished, successful run of
\* this computer under the current versions.
RecordChecks(i, verified) ==
  /\ verified => \E r \in Runs : /\ runs[r].state = "finished"
                                 /\ runs[r].status = "succeeded"
                                 /\ runs[r].install = i
                                 /\ runs[r].version = wf.version
                                 /\ runs[r].iversion = integ.version
  /\ installs' = [installs EXCEPT ![i].ready = TRUE, ![i].verified = verified]
  /\ Chore
  /\ InstallStep

RecordHost(i, host) ==
  /\ installs' = [installs EXCEPT ![i].host = host, ![i].fresh = TRUE]
  /\ Chore
  /\ InstallStep

ChecksLapse(i) ==
  /\ installs[i].ready
  /\ Chore
  /\ installs' = [installs EXCEPT ![i].ready = FALSE]
  /\ InstallStep

SetState(i, state) ==
  /\ installs[i].state # "revoked"
  /\ state = "enabled" => /\ Ready(i, FALSE)
                          /\ wf.assigned = i
                          /\ wf.control = "active"
  /\ installs' = [installs EXCEPT ![i].state = state]
  /\ Chore
  /\ InstallStep

PendingNow == {<<a, actions[a]>> : a \in Pending}

OldHostPaused == wf.assigned # NoOne => installs[wf.assigned].host = "paused"

PrepareTakeover(i, oldHost) ==
  /\ Ready(i, TRUE)
  /\ ~LeaseHeld
  /\ oldHost = "paused" => OldHostPaused
  /\ preview' = Prepared([NoPreview EXCEPT !.kind = "takeover", !.install = i,
                            !.epoch = wf.epoch, !.old = wf.assigned,
                            !.oldHost = oldHost, !.pending = PendingNow])
  /\ UNCHANGED <<wf, config, integ, auths, installs, runs, actions, claims,
                 migration, permit, performed, floor>>
  /\ Chore

\* The unfinished run moves to the new computer and every action it had
\* announced becomes unknown.
Handover(i) ==
  /\ wf' = [wf EXCEPT !.assigned = i, !.epoch = @ + 1, !.lease = NoOne,
                      !.live = FALSE]
  /\ runs' = [r \in Runs |->
                IF runs[r].state = "open"
                THEN [runs[r] EXCEPT !.install = i, !.epoch = wf.epoch + 1]
                ELSE runs[r]]
  /\ actions' = [a \in Actions |->
                   IF actions[a].state = "intent"
                   THEN [actions[a] EXCEPT !.state = "unknown"] ELSE actions[a]]

Takeover(i) ==
  /\ preview.kind = "takeover" /\ preview.install = i
  /\ StillPrepared
  /\ Ready(i, TRUE)
  /\ ~LeaseHeld
  /\ preview.epoch = wf.epoch
  /\ preview.old = wf.assigned
  /\ preview.pending = PendingNow
  /\ preview.oldHost = "paused" => OldHostPaused
  /\ installs' = [j \in Installations |->
       CASE j = i -> [installs[j] EXCEPT
                        !.state = IF wf.control = "active" THEN "enabled" ELSE "paused"]
         [] j = wf.assigned /\ j # i -> [installs[j] EXCEPT !.state = "revoked"]
         [] OTHER -> installs[j]]
  /\ Handover(i)
  /\ preview' = NoPreview
  /\ UNCHANGED <<config, integ, auths, claims, migration, permit, performed,
                 floor, chores>>

-----------------------------------------------------------------------------
(* Runs *)

\* A backfill is confirmed like a change; its window is not modelled.
PrepareBackfill(i) ==
  /\ Ready(i, FALSE)
  /\ wf.assigned = i
  /\ preview' = Prepared([NoPreview EXCEPT !.kind = "backfill", !.install = i,
                                           !.epoch = wf.epoch])
  /\ UNCHANGED <<wf, config, integ, auths, installs, runs, actions, claims,
                 migration, permit, performed, floor>>
  /\ Chore

NoOpenRun == \A r \in Runs : runs[r].state # "open"

Start(r, i, mode) ==
  /\ runs[r].state = "none"
  /\ Ready(i, FALSE)
  /\ wf.control = "active"
  /\ wf.assigned = i /\ installs[i].state = "enabled"
  /\ ~LeaseHeld
  /\ NoOpenRun
  /\ mode = "backfill" => /\ preview.kind = "backfill" /\ preview.install = i
                          /\ preview.epoch = wf.epoch
                          /\ StillPrepared
  /\ preview' = IF mode = "backfill" THEN NoPreview ELSE preview
  /\ LET snap == LivePolicy(config, integ.mapped) IN
       /\ runs' = [runs EXCEPT ![r] =
                     [state |-> "open", status |-> "other", install |-> i,
                      epoch |-> wf.epoch, version |-> wf.version,
                      iversion |-> integ.version, snap |-> snap, limit |-> snap]]
       /\ floor' = [floor EXCEPT ![r] = snap]
  /\ wf' = [wf EXCEPT !.lease = r, !.live = TRUE]
  /\ UNCHANGED <<config, integ, auths, installs, actions, claims, migration,
                 permit, performed, chores>>

\* requireBinding, without the lease.
Bound(r, i) ==
  /\ wf.control = "active"
  /\ wf.assigned = i /\ installs[i].state = "enabled"
  /\ runs[r].state = "open"
  /\ runs[r].install = i /\ runs[r].epoch = wf.epoch

Leased(r) == wf.lease = r /\ wf.live

RunStep == UNCHANGED <<config, integ, auths, preview, installs, actions, claims,
                       migration, permit, performed, floor>>

\* renew under the lease, resume without it unless another run holds it.
Renew(r, i) ==
  /\ Bound(r, i)
  /\ wf.lease \in {NoOne, r} \/ ~wf.live
  /\ wf' = [wf EXCEPT !.lease = r, !.live = TRUE]
  /\ UNCHANGED <<runs, chores>>
  /\ RunStep

LeaseLapses ==
  /\ wf.lease # NoOne /\ wf.live
  /\ Chore
  /\ wf' = [wf EXCEPT !.live = FALSE]
  /\ UNCHANGED runs
  /\ RunStep

Release(r, i) ==
  /\ runs[r].state # "none"
  /\ runs[r].install = i /\ runs[r].epoch = wf.epoch
  /\ wf.assigned = i
  /\ wf.lease \in {NoOne, r}
  /\ wf' = [wf EXCEPT !.lease = NoOne, !.live = FALSE]
  /\ UNCHANGED runs
  /\ Chore
  /\ RunStep

OpenActions(r) == {a \in Pending : actions[a].run = r}

\* record_summary and finish: only a run without an open action succeeds.
Summarise(r, i, status, finish) ==
  /\ Bound(r, i) /\ Leased(r)
  /\ status = "succeeded" => OpenActions(r) = {}
  /\ runs' = [runs EXCEPT ![r].status = status,
                          ![r].state = IF finish THEN "finished" ELSE "open"]
  /\ wf' = IF finish THEN [wf EXCEPT !.lease = NoOne, !.live = FALSE] ELSE wf
  /\ UNCHANGED chores
  /\ RunStep

\* pruneRetention: the row of a finished run goes after its retention.
Prune(r) ==
  /\ runs[r].state = "finished"
  /\ runs' = [runs EXCEPT ![r] = [NoRun EXCEPT !.state = "pruned"]]
  /\ UNCHANGED <<wf, chores>>
  /\ RunStep

-----------------------------------------------------------------------------
(* Actions: announced before they are taken, at most one per key, and        *)
(* settled by a receipt.                                                     *)

\* authorizeAction: the store is in the run's snapshot, in what is left of
\* its policy, in the live policy and in an authorization.
Authorized(r, k) ==
  /\ StoreOf[k] \in runs[r].snap
  /\ StoreOf[k] \in runs[r].limit \cap LivePolicy(config, integ.mapped)
  /\ StoreOf[k] \in auths

\* claimAction: the key is free; the action is new, or failed before with the
\* same key.
Claimable(a, k) ==
  /\ claims[k] = NoOne
  /\ \/ actions[a].state = "none"
     \/ actions[a].state = "failed" /\ actions[a].key = k

\* The answer permits the computer to act; when it is lost, nobody acts and
\* asking again is answered with the recorded state only.
Intent(a, k, r, i, answered) ==
  /\ Bound(r, i) /\ Leased(r)
  /\ Authorized(r, k)
  /\ Claimable(a, k)
  /\ actions' = [actions EXCEPT ![a] = [state |-> "intent", run |-> r, key |-> k]]
  /\ claims' = [claims EXCEPT ![k] = a]
  /\ permit' = [permit EXCEPT ![a] = IF answered THEN "granted" ELSE "none"]
  /\ UNCHANGED <<wf, config, integ, auths, preview, installs, runs, migration,
                 performed, floor, chores>>

\* External: the computer sends the email, posts the reply, uploads the file,
\* or gives it up.
Perform(a) ==
  /\ permit[a] = "granted"
  /\ \/ /\ permit' = [permit EXCEPT ![a] = "done"]
        /\ performed' = [performed EXCEPT ![actions[a].key] = @ + 1]
     \/ /\ permit' = [permit EXCEPT ![a] = "none"]
        /\ UNCHANGED performed
  /\ UNCHANGED <<wf, config, integ, auths, preview, installs, runs, actions,
                 claims, migration, floor, chores>>

\* The evidence of a receipt is true and final: "confirmed" is reported of
\* what was done, "failed" of what was not done and will not be.
Evidence(a, state) ==
  CASE state = "confirmed" -> permit[a] = "done"
    [] state = "failed" -> permit[a] = "none"
    [] OTHER -> TRUE

ClaimsAfterUnknown(a, state) ==
  IF state # "confirmed"
  THEN [k \in Keys |-> IF claims[k] = a THEN NoOne ELSE claims[k]]
  ELSE claims

\* Only a failure gives the keys free.
ClaimsAfter(a, state) ==
  IF state = "failed"
  THEN [k \in Keys |-> IF claims[k] = a THEN NoOne ELSE claims[k]]
  ELSE claims

\* record_receipts and resolve_unknown.  The run may have ended or lost its
\* lease; its computer, or the assigned one, reports.
RecordReceipt(a, r, i, state, resolve) ==
  /\ runs[r].state \in {"open", "finished"}
  /\ \/ runs[r].install = i /\ (wf.assigned # i \/ runs[r].epoch # wf.epoch)
     \/ wf.assigned = i /\ installs[i].state # "revoked"
  /\ actions[a].state \notin {"none", "confirmed"}
  /\ \/ actions[a].run = r
     \/ resolve /\ wf.assigned = i /\ actions[a].state = "unknown"
  /\ resolve => state # "unknown" /\ actions[a].state # "failed"
  /\ Evidence(a, state)
  /\ actions' = [actions EXCEPT ![a].state = state]
  /\ claims' = ClaimsAfter(a, state)
  /\ UNCHANGED <<wf, config, integ, auths, preview, installs, runs, migration,
                 permit, performed, floor, chores>>

-----------------------------------------------------------------------------
(* Migration: a manifest with the first page of history, further pages, a    *)
(* seal, then validation and import page by page.                            *)

MigrationStep == UNCHANGED <<auths, preview, permit, performed, floor, chores>>
OnlyMigration == UNCHANGED <<wf, config, integ, installs, runs, actions, claims>>

MigrationPreview ==
  /\ migration.stage = "none"
  /\ wf.control = "paused" /\ ~LeaseHeld
  /\ migration' = [stage |-> "preview", sealed |-> FALSE, pages |-> 1,
                   validated |-> 0, imported |-> 0, version |-> wf.version,
                   iversion |-> integ.version, cversion |-> wf.cversion,
                   epoch |-> wf.epoch]
  /\ installs' = [i \in Installations |-> [installs[i] EXCEPT !.fresh = FALSE]]
  /\ UNCHANGED <<wf, config, integ, runs, actions, claims>>
  /\ MigrationStep

MigrationAppend ==
  /\ migration.stage = "preview" /\ ~migration.sealed
  /\ migration.pages < Pages
  /\ migration' = [migration EXCEPT !.pages = @ + 1]
  /\ OnlyMigration /\ MigrationStep

MigrationSeal ==
  /\ migration.stage = "preview" /\ ~migration.sealed
  /\ migration.pages = Pages
  /\ migration' = [migration EXCEPT !.sealed = TRUE]
  /\ OnlyMigration /\ MigrationStep

MigrationValidate ==
  /\ migration.stage = "preview" /\ migration.sealed
  /\ migration' = [migration EXCEPT
       !.validated = @ + 1,
       !.stage = IF migration.validated + 1 = migration.pages THEN "validated" ELSE @]
  /\ OnlyMigration /\ MigrationStep

\* The first imported page also replaces the configuration, the integration
\* and the authorizations; the versions must be those of the preview, and
\* one more from the second page on.
TargetsUnchanged ==
  LET ahead == IF migration.imported = 0 THEN 0 ELSE 1
  IN /\ integ.version = migration.iversion + ahead
     /\ wf.version = migration.version + ahead
     /\ wf.cversion = migration.cversion + ahead
     /\ wf.control = "paused" /\ ~LeaseHeld

\* Reading a page: a record known already is kept, its key must be its own.
ImportPage(p) ==
  LET a == LegacyAction[p]
      k == LegacyKey[p]
  IN /\ claims[k] \in {NoOne, a}
     /\ actions' = [actions EXCEPT ![a] = [state |-> "confirmed", run |-> NoOne,
                                           key |-> k]]
     /\ claims' = [claims EXCEPT ![k] = a]

MigrationImport ==
  /\ migration.stage = "validated"
  /\ TargetsUnchanged
  /\ IF migration.imported = 0
     THEN /\ config' = MigratedStores
          /\ integ' = [version |-> integ.version + 1, mapped |-> Stores]
          /\ auths' = MigratedStores
          /\ wf' = [wf EXCEPT !.version = @ + 1, !.cversion = @ + 1]
     ELSE UNCHANGED <<config, integ, auths, wf>>
  /\ ImportPage(migration.imported + 1)
  /\ migration' = [migration EXCEPT
       !.imported = @ + 1,
       !.stage = IF migration.imported + 1 = migration.pages THEN "imported" ELSE @]
  /\ UNCHANGED <<preview, installs, runs, permit, performed, floor, chores>>

\* host_switched and verified: another takeover happened and the computer
\* reported its host since the preview; for verified, a first run too.
MigrationSwitch ==
  /\ migration.stage \in {"imported", "host_switched"}
  /\ wf.assigned # NoOne /\ wf.epoch > migration.epoch
  /\ migration.stage = "host_switched" => installs[wf.assigned].verified
  /\ installs[wf.assigned].fresh
  /\ migration' = [migration EXCEPT
       !.stage = IF @ = "imported" THEN "host_switched" ELSE "verified"]
  /\ OnlyMigration /\ MigrationStep

-----------------------------------------------------------------------------
Migrate ==
  \/ MigrationPreview
  \/ MigrationAppend
  \/ MigrationSeal
  \/ MigrationValidate
  \/ MigrationImport
  \/ MigrationSwitch

Install ==
  \E i \in Installations :
    \/ Register(i)
    \/ \E verified \in BOOLEAN : RecordChecks(i, verified)
    \/ \E host \in {"paused", "enabled"} : RecordHost(i, host)
    \/ ChecksLapse(i)
    \/ \E state \in {"paused", "enabled", "revoked"} : SetState(i, state)
    \/ \E oldHost \in {"paused", "unavailable"} : PrepareTakeover(i, oldHost)
    \/ Takeover(i)

RunOperation ==
  \E r \in Runs, i \in Installations :
    \/ \E mode \in {"scheduled", "backfill"} : Start(r, i, mode)
    \/ Renew(r, i)
    \/ Release(r, i)
    \/ \E status \in {"succeeded", "other"}, finish \in BOOLEAN :
         Summarise(r, i, status, finish)

ActionOperation ==
  \E a \in Actions :
    \/ \E k \in Keys, r \in Runs, i \in Installations, answered \in BOOLEAN :
         a \in HostActions /\ Intent(a, k, r, i, answered)
    \/ Perform(a)
    \/ \E r \in Runs, i \in Installations,
          state \in {"confirmed", "failed", "unknown"}, resolve \in BOOLEAN :
         RecordReceipt(a, r, i, state, resolve)

Next ==
  \/ PrepareChange
  \/ SaveChange
  \/ Install
  \/ \E i \in Installations : PrepareBackfill(i)
  \/ RunOperation
  \/ LeaseLapses
  \/ \E r \in Runs : Prune(r)
  \/ ActionOperation
  \/ Migrate

Spec == Init /\ [][Next]_vars

-----------------------------------------------------------------------------
(* Properties *)

TypeOK ==
  /\ config \subseteq Stores /\ auths \subseteq Stores
  /\ integ.mapped \subseteq Stores
  /\ wf.assigned \in Installations \cup {NoOne}
  /\ wf.lease \in Runs \cup {NoOne}
  /\ claims \in [Keys -> Actions \cup {NoOne}]
  /\ \A a \in Actions :
       actions[a].state \in {"none", "intent", "unknown", "confirmed", "failed"}
  /\ \A r \in Runs : runs[r].limit \subseteq runs[r].snap

\* ADR 0027: what succeeded is not replayed and what is unknown is checked
\* first.  No key is acted upon twice, and none whose history was imported,
\* across lost answers, takeovers, late receipts and repeated announcements
\* (claimAction, actionOperation).
NotReplayed ==
  /\ \A k \in Keys : performed[k] <= 1
  /\ \A p \in 1..Pages :
       p <= migration.imported => actions[LegacyAction[p]].state = "confirmed"
         /\ claims[LegacyKey[p]] = LegacyAction[p]

\* A run never regains a store that a saved change took away after it started,
\* whatever is saved later (restrictRuns, requireBinding).
ReachOnlyNarrows ==
  [][\A a \in Actions :
       actions'[a].state = "intent" /\ actions[a].state # "intent"
         => StoreOf[actions'[a].key] \in floor[actions'[a].run]]_vars

=============================================================================
