--------------------------- MODULE LauncherSession ---------------------------
(***************************************************************************)
(* The desktop launcher's signed-in state, as the launcher processes of    *)
(* one computer and the API share it.                                      *)
(*                                                                         *)
(* The API keeps a session family per sign-in: a chain of durable          *)
(* credentials of which one is active.  A refresh consumes the active one  *)
(* and issues the next generation; presenting any other one is a replay    *)
(* and revokes the family.  Every launcher process keeps the credential in *)
(* the one keychain record of its origin, so refreshing, storing, signing  *)
(* in and signing out happen under a lock file shared by the processes.    *)
(*                                                                         *)
(* The lock file is a hard link to a file that names its owner.  A         *)
(* contender that finds the owner dead removes the file in two steps       *)
(* (compare, then remove), which is why the steps are actions of their own.*)
(* Requests outlive the launcher's interest in them: a timed-out refresh   *)
(* may still be carried out by the API.                                    *)
(***************************************************************************)
EXTENDS Naturals, FiniteSets, FiniteSetsExt

CONSTANTS
    Procs,      \* launcher processes of one computer, sharing its keychain
    Families,   \* session families: one per completed sign-in
    MaxGen,     \* bound on the generations of one family
    MaxFaults,  \* bound on crashes, timeouts and failing keychain writes
    MaxCalls    \* bound on the calls refused by the API (401) and sign-outs

None == [none |-> TRUE]

ASSUME BoundsAssumption ==
    /\ MaxGen \in Nat \ {0}
    /\ MaxFaults \in Nat
    /\ MaxCalls \in Nat
    /\ IsFiniteSet(Procs) /\ None \notin Procs

VARIABLES
    session,   \* AuthSession.status of each family
    cred,      \* DurableCredential.status of each generation of each family
    record,    \* the keychain record: the credential it holds, or None
    lock,      \* the lock file: its identity, its owner, whether that is dead
    proc,      \* each launcher process
    wire,      \* refresh requests the API has not answered yet
    replayed,  \* families revoked because a credential was presented twice
    faults, calls

vars == <<session, cred, record, lock, proc, wire, replayed, faults, calls>>

Gens == 1..MaxGen

Credentials == [f : Families, g : Gens]

\* Identities of lock files: one per process that remembers one, and a new one.
NoLock == 0

LockIds == 1..(Cardinality(Procs) + 1)

LockFile == [id : LockIds, by : Procs, dead : BOOLEAN]

\* What a process wants the lock for.
Wants == {"token", "establish", "logout", "invalidate"}

Idle == [at |-> "idle", want |-> "token", held |-> None, token |-> None, mine |-> NoLock, seen |-> NoLock]

Processes ==
    [at : {"idle", "locking", "reclaim", "remove", "locked", "refresh", "store", "revoke", "delete", "release"},
     want : Wants,
     held : Credentials \cup {None},
     token : Credentials \cup {None},
     mine : LockIds \cup {NoLock},
     seen : LockIds \cup {NoLock}]

-----------------------------------------------------------------------------
(* The API *)

Init ==
    /\ session = [f \in Families |-> "none"]
    /\ cred = [f \in Families |-> [g \in Gens |-> "none"]]
    /\ record = None
    /\ lock = None
    /\ proc = [p \in Procs |-> Idle]
    /\ wire = {}
    /\ replayed = {}
    /\ faults = 0
    /\ calls = 0

\* Every credential of the family is revoked; the session only leaves
\* `active`, so the first reason given stays.
RevokeSessionFamily(f, status) ==
    /\ session' = [session EXCEPT ![f] = IF @ = "active" THEN status ELSE @]
    /\ cred' = [cred EXCEPT ![f] = [g \in Gens |-> IF @[g] = "none" THEN "none" ELSE "revoked"]]

\* The device code is redeemed and the session created with its first
\* credential.  AccountAccess models the approval that comes before it.
CreateFamily(f) ==
    /\ session[f] = "none"
    /\ session' = [session EXCEPT ![f] = "active"]
    /\ cred' = [cred EXCEPT ![f][1] = "active"]

\* The credential found active by the transaction's first read is consumed by
\* a conditional update and the next generation is created in the same commit.
Consumable(c) == cred[c.f][c.g] = "active"

\* MaxGen stands for the refreshes that fit into the family's lifetime.
Rotate(c) ==
    /\ c.g < MaxGen
    /\ cred' = [cred EXCEPT ![c.f][c.g] = "consumed", ![c.f][c.g + 1] = "active"]
    /\ UNCHANGED session

\* An access token is used after the family's absolute lifetime: the API
\* notices and ends the family.
AuthenticateExpired(p) ==
    /\ proc[p].token # None
    /\ session[proc[p].token.f] = "active"
    /\ RevokeSessionFamily(proc[p].token.f, "expired")
    /\ UNCHANGED <<record, lock, proc, wire, replayed, faults, calls>>

\* The password of the account is set anew, which revokes its sessions.
PasswordReset(f) ==
    /\ calls < MaxCalls
    /\ session[f] = "active"
    /\ RevokeSessionFamily(f, "revoked")
    /\ calls' = calls + 1
    /\ UNCHANGED <<record, lock, proc, wire, replayed, faults>>

-----------------------------------------------------------------------------
(* The lock file *)

Goto(p, at) == proc' = [proc EXCEPT ![p].at = at]

\* A file is told from another by its owner's UUID and its inode.
FreshId == CHOOSE i \in LockIds : \A p \in Procs : proc[p].seen # i /\ proc[p].mine # i

\* Mutant: the file is written over instead of linked.
VacantAlways(p) == TRUE

\* link(ownerPath, lockPath) succeeds only when there is no file.
Vacant(p) == lock = None

Acquire(p) ==
    /\ proc[p].at = "locking"
    /\ Vacant(p)
    /\ lock' = [id |-> FreshId, by |-> p, dead |-> FALSE]
    /\ proc' = [proc EXCEPT ![p].at = "locked", ![p].mine = FreshId, ![p].seen = NoLock]
    /\ UNCHANGED <<session, cred, record, wire, replayed, faults, calls>>

\* Mutant: a dead owner's file is waited for like any other.
FindOrphanNever(p) == FALSE

\* readOwner and isProcessAlive: the contender saw a file whose owner is dead.
FindOrphan(p) ==
    /\ proc[p].at = "locking"
    /\ lock # None
    /\ lock.dead
    /\ proc' = [proc EXCEPT ![p].at = "reclaim", ![p].seen = lock.id]
    /\ UNCHANGED <<session, cred, record, lock, wire, replayed, faults, calls>>

\* The claim link is compared with the path: same owner, same inode.
ClaimRecord(p) ==
    /\ proc[p].at = "reclaim"
    /\ IF lock # None /\ lock.id = proc[p].seen
       THEN Goto(p, "remove")
       ELSE proc' = [proc EXCEPT ![p].at = "locking", ![p].seen = NoLock]
    /\ UNCHANGED <<session, cred, record, lock, wire, replayed, faults, calls>>

\* rm(lockPath, {force: true}): whatever the path names by now.
RemoveRecord(p) ==
    /\ proc[p].at = "remove"
    /\ lock' = None
    /\ proc' = [proc EXCEPT ![p].at = "locking", ![p].seen = NoLock]
    /\ UNCHANGED <<session, cred, record, wire, replayed, faults, calls>>

\* The wait for the lock has a deadline: "session is busy".  A call that was
\* to store a new sign-in drops it; one that was to invalidate drops nothing.
GiveUp(p) ==
    /\ proc[p].at = "locking"
    /\ lock # None
    /\ proc' = [proc EXCEPT ![p] = [Idle EXCEPT !.token = proc[p].token]]
    /\ UNCHANGED <<session, cred, record, lock, wire, replayed, faults, calls>>

\* The file is removed only while it is still the one this process linked.
Release(p) ==
    /\ proc[p].at = "release"
    /\ lock' = IF lock # None /\ lock.id = proc[p].mine THEN None ELSE lock
    /\ proc' = [proc EXCEPT ![p] = [Idle EXCEPT !.token = proc[p].token]]
    /\ UNCHANGED <<session, cred, record, wire, replayed, faults, calls>>

-----------------------------------------------------------------------------
(* The calls of one process *)

\* ensureAccessToken or resolveProfile with no cached token that is still
\* fresh (a cached one is returned as it is, without a step).
EnsureAccessToken(p) ==
    /\ proc[p].at = "idle"
    /\ proc' = [proc EXCEPT ![p].at = "locking", ![p].want = "token"]
    /\ UNCHANGED <<session, cred, record, lock, wire, replayed, faults, calls>>

\* The cached access token is within a minute of its expiry: from here on it
\* is treated as if there were none.
TokenLapses(p) ==
    /\ proc[p].token # None
    /\ proc' = [proc EXCEPT ![p].token = None]
    /\ UNCHANGED <<session, cred, record, lock, wire, replayed, faults, calls>>

\* A transfer is refused with 401 while the token looked fresh:
\* refreshAccessToken drops it and asks for another one.
RefreshAccessToken(p) ==
    /\ proc[p].at = "idle"
    /\ proc[p].token # None
    /\ calls < MaxCalls
    /\ session[proc[p].token.f] # "active"
    /\ calls' = calls + 1
    /\ proc' = [proc EXCEPT ![p].at = "locking", ![p].want = "token", ![p].token = None]
    /\ UNCHANGED <<session, cred, record, lock, wire, replayed, faults>>

\* A forwarded tool call is refused with 401: the launcher drops the record.
Invalidate(p) ==
    /\ proc[p].at = "idle"
    /\ proc[p].token # None
    /\ calls < MaxCalls
    /\ session[proc[p].token.f] # "active"
    /\ calls' = calls + 1
    /\ proc' = [proc EXCEPT ![p].at = "locking", ![p].want = "invalidate"]
    /\ UNCHANGED <<session, cred, record, lock, wire, replayed, faults>>

Logout(p) ==
    /\ proc[p].at = "idle"
    /\ record # None
    /\ calls < MaxCalls
    /\ calls' = calls + 1
    /\ proc' = [proc EXCEPT ![p].at = "locking", ![p].want = "logout"]
    /\ UNCHANGED <<session, cred, record, lock, wire, replayed, faults>>

\* The device poll is answered with the tokens of a new session; establish
\* then waits for the lock.
Establish(p, f) ==
    /\ proc[p].at = "idle"
    /\ CreateFamily(f)
    /\ proc' = [proc EXCEPT ![p].at = "locking", ![p].want = "establish", ![p].held = [f |-> f, g |-> 1]]
    /\ UNCHANGED <<record, lock, wire, replayed, faults, calls>>

\* The session is created and its answer does not arrive: the poll ends with
\* an error and nobody holds the session's credential.
EstablishLost(f) ==
    /\ faults < MaxFaults
    /\ CreateFamily(f)
    /\ faults' = faults + 1
    /\ UNCHANGED <<record, lock, proc, wire, replayed, calls>>

\* Under the lock the record is read and decides what happens next.
ReadRecord(p) ==
    /\ proc[p].at = "locked"
    /\ \/ /\ proc[p].want = "token"
          /\ record = None
          /\ proc' = [proc EXCEPT ![p].at = "release", ![p].token = None]
          /\ UNCHANGED wire
       \/ /\ proc[p].want = "token"
          /\ record # None
          /\ proc[p].token = record
          /\ Goto(p, "release")
          /\ UNCHANGED wire
       \/ /\ proc[p].want = "token"
          /\ record # None
          /\ proc[p].token # record
          /\ proc' = [proc EXCEPT ![p].at = "refresh", ![p].held = record]
          /\ wire' = wire \cup {[to |-> p, c |-> record, read |-> FALSE]}
       \/ /\ proc[p].want = "establish"
          /\ Goto(p, "store")
          /\ UNCHANGED wire
       \/ /\ proc[p].want = "logout"
          /\ proc' = [proc EXCEPT ![p].at = IF record = None THEN "delete" ELSE "revoke",
                                  ![p].held = record, ![p].token = None]
          /\ UNCHANGED wire
       \/ /\ proc[p].want = "invalidate"
          /\ proc' = [proc EXCEPT ![p].at = "delete", ![p].token = None]
          /\ UNCHANGED wire
    /\ UNCHANGED <<session, cred, record, lock, replayed, faults, calls>>

\* rotateDurableCredential's first read.
ServerReads(q) ==
    /\ q \in wire
    /\ ~q.read
    /\ Consumable(q.c)
    /\ q.c.g < MaxGen
    /\ wire' = (wire \ {q}) \cup {[q EXCEPT !.read = TRUE]}
    /\ UNCHANGED <<session, cred, record, lock, proc, replayed, faults, calls>>

\* A request whose launcher gave up is answered to nobody.
Answered(q, at, held) ==
    proc' = IF q.to = None THEN proc
            ELSE [proc EXCEPT ![q.to].at = at, ![q.to].held = held]

\* The conditional update succeeds: the next generation is the answer.
ServerRotates(q) ==
    /\ q \in wire
    /\ q.read
    /\ Consumable(q.c)
    /\ Rotate(q.c)
    /\ wire' = wire \ {q}
    /\ Answered(q, "store", [q.c EXCEPT !.g = @ + 1])
    /\ UNCHANGED <<record, lock, replayed, faults, calls>>

\* The read finds the family beyond its absolute lifetime and ends it.
ServerExpires(q) ==
    /\ q \in wire
    /\ ~q.read
    /\ Consumable(q.c)
    /\ RevokeSessionFamily(q.c.f, "expired")
    /\ wire' = wire \ {q}
    /\ Answered(q, "delete", None)
    /\ UNCHANGED <<record, lock, replayed, faults, calls>>

\* The credential is not active any more, at the read or at the update: the
\* family is revoked.  A family that was revoked before is not a replay of
\* this credential, but is answered alike.
ServerRefuses(q) ==
    /\ q \in wire
    /\ ~Consumable(q.c)
    /\ replayed' = IF session[q.c.f] = "active" THEN replayed \cup {q.c.f} ELSE replayed
    /\ RevokeSessionFamily(q.c.f, "revoked")
    /\ wire' = wire \ {q}
    /\ Answered(q, "delete", None)
    /\ UNCHANGED <<record, lock, faults, calls>>

\* The request times out, on the way to the API or on the way back.
Timeout(p) ==
    /\ proc[p].at = "refresh"
    /\ faults < MaxFaults
    /\ faults' = faults + 1
    /\ \E q \in {r \in wire : r.to = p} :
          \E reached \in BOOLEAN :
             wire' = (wire \ {q}) \cup (IF reached \/ q.read THEN {[q EXCEPT !.to = None]} ELSE {})
    /\ proc' = [proc EXCEPT ![p].at = "release", ![p].token = None]
    /\ UNCHANGED <<session, cred, record, lock, replayed, calls>>

\* storeRecord and the read that verifies it.
StoreRecord(p) ==
    /\ proc[p].at = "store"
    /\ record' = proc[p].held
    /\ proc' = [proc EXCEPT ![p].at = "release", ![p].token = proc[p].held]
    /\ UNCHANGED <<session, cred, lock, wire, replayed, faults, calls>>

\* The keychain refuses the record: the new credential is revoked and the
\* record, which holds a consumed credential by now, is deleted.
StoreFails(p) ==
    /\ proc[p].at = "store"
    /\ faults < MaxFaults
    /\ faults' = faults + 1
    /\ proc' = [proc EXCEPT ![p].at = "revoke", ![p].token = None]
    /\ UNCHANGED <<session, cred, record, lock, wire, replayed, calls>>

\* POST /oauth/revoke; an unreachable API is ignored.
Revoke(p) ==
    /\ proc[p].at = "revoke"
    /\ \/ /\ RevokeSessionFamily(proc[p].held.f, "revoked")
          /\ UNCHANGED faults
       \/ /\ faults < MaxFaults
          /\ faults' = faults + 1
          /\ UNCHANGED <<session, cred>>
    /\ Goto(p, "delete")
    /\ UNCHANGED <<record, lock, wire, replayed, calls>>

\* deleteRecord; a keychain that refuses is ignored.
DeleteRecord(p) ==
    /\ proc[p].at = "delete"
    /\ \/ /\ record' = None
          /\ UNCHANGED faults
       \/ /\ faults < MaxFaults
          /\ faults' = faults + 1
          /\ UNCHANGED record
    /\ proc' = [proc EXCEPT ![p].at = "release", ![p].token = None]
    /\ UNCHANGED <<session, cred, lock, wire, replayed, calls>>

\* The process dies at any step and its agent starts another one: the lock
\* file it may hold names a process that is gone.
Crash(p) ==
    /\ faults < MaxFaults
    /\ proc[p].at # "idle"
    /\ faults' = faults + 1
    /\ proc' = [proc EXCEPT ![p] = Idle]
    /\ lock' = IF lock # None /\ lock.by = p THEN [lock EXCEPT !.dead = TRUE] ELSE lock
    /\ wire' = {IF q.to = p THEN [q EXCEPT !.to = None] ELSE q : q \in wire}
    /\ UNCHANGED <<session, cred, record, replayed, calls>>

-----------------------------------------------------------------------------
\* What a process in the middle of a call does next.
Step(p) ==
    \/ Acquire(p) \/ FindOrphan(p) \/ ClaimRecord(p) \/ RemoveRecord(p) \/ Release(p)
    \/ ReadRecord(p) \/ StoreRecord(p) \/ Revoke(p) \/ DeleteRecord(p)

Server == \E q \in wire : ServerReads(q) \/ ServerRotates(q) \/ ServerExpires(q) \/ ServerRefuses(q)

Next ==
    \/ Server
    \/ \E p \in Procs :
          \/ Step(p)
          \/ GiveUp(p)
          \/ EnsureAccessToken(p) \/ RefreshAccessToken(p) \/ Invalidate(p) \/ Logout(p)
          \/ \E f \in Families : Establish(p, f)
          \/ Timeout(p) \/ StoreFails(p) \/ Crash(p) \/ TokenLapses(p) \/ AuthenticateExpired(p)
    \/ \E f \in Families : PasswordReset(f) \/ EstablishLost(f)

Spec == Init /\ [][Next]_vars

\* A process finishes what it began and the API answers.  The agent keeps
\* using its launcher, so EnsureAccessToken comes again.  Contenders poll every 50 ms within a wait of 10 s, so one of them
\* meets the moments in which the file is free: strong fairness of Step.
\* Time passes, so cached tokens lapse.
Fairness ==
    /\ WF_vars(Server)
    /\ \A p \in Procs : SF_vars(Step(p)) /\ WF_vars(EnsureAccessToken(p)) /\ WF_vars(TokenLapses(p))

FairSpec == Spec /\ Fairness

-----------------------------------------------------------------------------
(* Properties *)

\* The values the rows, the record, the lock file and the processes take.
TypeOK ==
    /\ session \in [Families -> {"none", "active", "revoked", "expired"}]
    /\ cred \in [Families -> [Gens -> {"none", "active", "consumed", "revoked"}]]
    /\ record \in Credentials \cup {None}
    /\ lock \in LockFile \cup {None}
    /\ proc \in [Procs -> Processes]
    /\ wire \subseteq [to : Procs \cup {None}, c : Credentials, read : BOOLEAN]
    /\ replayed \subseteq Families
    /\ faults \in 0..MaxFaults
    /\ calls \in 0..MaxCalls

\* The lock keeps the processes from presenting one credential twice: a
\* family is revoked for a replay only after an answer was lost or a process
\* died, never because two processes refreshed at the same time.
ReplayNeedsAFault == replayed # {} => faults > 0

\* A lock file whose owner is dead does not stay.
OrphansAreReclaimed == (lock # None /\ lock.dead) ~> (lock = None \/ ~lock.dead)

=============================================================================
