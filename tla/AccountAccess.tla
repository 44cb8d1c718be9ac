---------------------------- MODULE AccountAccess ----------------------------
(***************************************************************************)
(* One login identity: its password and how it is set, the sign-ins that   *)
(* verify it, and what a sign-in leaves behind (a browser session, an      *)
(* approved device, a launcher session).                                   *)
(*                                                                         *)
(* A sign-in reads the identity, spends a while on the password hash and   *)
(* then writes, so sign-ins overlap with each other and with a password    *)
(* change.  Its later steps (record the failure or reset the counter,      *)
(* approve the device, create the browser session, end the previous one)   *)
(* are transactions of their own, and the API may stop between them.       *)
(* Redeeming an approved device and creating its session are two           *)
(* transactions as well.                                                   *)
(*                                                                         *)
(* A transaction is one action: the identity's row lock, taken explicitly  *)
(* or by the foreign keys of the rows inserted, serialises them.           *)
(***************************************************************************)
EXTENDS Naturals, FiniteSets, FiniteSetsExt

CONSTANTS
    SignIns,       \* sign-in requests in flight
    Grants,        \* password setup grants the operator issues
    Devices,       \* device authorizations requested by launchers
    MaxPassword,   \* bound on the passwords set
    FailureLimit,  \* failures that start a cooldown (5)
    LevelLimit,    \* levels of the progressive cooldown (5)
    MaxFailures    \* bound on the failures recorded

ASSUME LimitsAssumption ==
    /\ MaxPassword \in Nat
    /\ FailureLimit \in Nat \ {0}
    /\ LevelLimit \in Nat \ {0}
    /\ MaxFailures \in Nat

VARIABLES
    password,  \* LoginIdentity.passwordHash: 0 while there is none
    failures,  \* failedAttemptCount
    level,     \* cooldownLevel
    cooling,   \* cooldownUntil lies in the future
    grant,     \* the setup grants
    setup,     \* the setup session each grant was exchanged for
    browser,   \* the browser session each sign-in created
    previous,  \* the sign-in whose session the shared browser's cookie names
    device,    \* the device authorizations of one launcher instance
    launched,  \* the launcher session created for each device
    signIn     \* the sign-in requests

accountVars == <<password, failures, level, cooling, grant, setup, browser, previous, device, launched, signIn>>

identity == <<password, failures, level, cooling>>

Passwords == 0..MaxPassword

\* at: where the request is; read: the password hash it read; via: the device
\* it approves (NoDevice for a sign-in page of its own); cookie: the session
\* the request's cookie names.
NoDevice == "no device"

NoSignIn == "no sign-in"

NotSigningIn == [at |-> "idle", read |-> 0, via |-> NoDevice, cookie |-> NoSignIn]

Closed == [state |-> "none", fingerprint |-> 0]

\* onboard: the identity without a password and its first setup grant.
AccountInit ==
    /\ password = 0
    /\ failures = 0
    /\ level = 0
    /\ cooling = FALSE
    /\ \E g \in Grants : grant = [h \in Grants |-> IF h = g THEN "open" ELSE "none"]
    /\ setup = [g \in Grants |-> "none"]
    /\ browser = [s \in SignIns |-> Closed]
    /\ previous = NoSignIn
    /\ device = [d \in Devices |-> "none"]
    /\ launched = [d \in Devices |-> "none"]
    /\ signIn = [s \in SignIns |-> NotSigningIn]

-----------------------------------------------------------------------------
(* Setting the password *)

EndBrowserSessions ==
    browser' = [s \in SignIns |-> IF browser[s].state = "open" THEN [browser[s] EXCEPT !.state = "revoked"] ELSE browser[s]]

\* What a new grant ends: every grant not used and every setup session not
\* completed.
Withdrawn(rows) == [g \in Grants |-> IF rows[g] = "open" THEN "revoked" ELSE rows[g]]

\* The operator's reset-password.  The password in use stays until the new one
\* is set; the browser sessions end at once.
ResetPassword(g) ==
    /\ grant[g] = "none"
    /\ grant' = [Withdrawn(grant) EXCEPT ![g] = "open"]
    /\ setup' = Withdrawn(setup)
    /\ EndBrowserSessions
    /\ UNCHANGED <<identity, previous, device, launched, signIn>>

\* A grant or a setup session outlives its time; both are compared with the
\* clock whenever they are used.
SetupLapses(g) ==
    /\ \/ grant[g] = "open" /\ grant' = [grant EXCEPT ![g] = "expired"] /\ UNCHANGED setup
       \/ setup[g] = "open" /\ setup' = [setup EXCEPT ![g] = "expired"] /\ UNCHANGED grant
    /\ UNCHANGED <<identity, browser, previous, device, launched, signIn>>

\* The link is opened: the grant is used by a conditional update.
ExchangePasswordSetupGrant(g) ==
    /\ grant[g] = "open"
    /\ grant' = [grant EXCEPT ![g] = "used"]
    /\ setup' = [setup EXCEPT ![g] = "open"]
    /\ UNCHANGED <<identity, browser, previous, device, launched, signIn>>

\* The form is submitted: the password changes, the failures are forgotten and
\* every session of the identity ends.
ConsumePasswordSetupSession(g) ==
    /\ setup[g] = "open"
    /\ password < MaxPassword
    /\ setup' = [setup EXCEPT ![g] = "consumed"]
    /\ password' = password + 1
    /\ failures' = 0
    /\ level' = 0
    /\ cooling' = FALSE
    /\ EndBrowserSessions
    /\ launched' = [d \in Devices |-> IF launched[d] = "active" THEN "revoked" ELSE launched[d]]
    /\ UNCHANGED <<grant, previous, device, signIn>>

-----------------------------------------------------------------------------
(* Signing in *)

\* verifyLogin's first read.  Without a password or during a cooldown the
\* answer is a refusal that changes nothing.
VerifyLogin(s, via) ==
    /\ signIn[s].at = "idle"
    /\ browser[s].state = "none"
    /\ via \in {NoDevice} \cup {d \in Devices : device[d] = "pending"}
    /\ password # 0
    /\ ~cooling
    /\ signIn' = [signIn EXCEPT ![s] = [at |-> "hashing", read |-> password, via |-> via, cookie |-> previous]]
    /\ UNCHANGED <<identity, grant, setup, browser, previous, device, launched>>

\* The condition of the UPDATE: a cooldown that began meanwhile is left alone.
Counts == ~cooling

\* The progressive level after the n-th failure.
NextLevel(n) == IF n >= FailureLimit THEN Min({level + 1, LevelLimit}) ELSE level

\* The password does not match the hash read: recordLoginFailure.
RecordLoginFailure(s) ==
    /\ signIn[s].at = "hashing"
    /\ failures < MaxFailures
    /\ IF Counts
       THEN /\ failures' = failures + 1
            /\ level' = NextLevel(failures + 1)
            /\ cooling' = (failures + 1 >= FailureLimit)
       ELSE UNCHANGED <<failures, level, cooling>>
    /\ signIn' = [signIn EXCEPT ![s] = NotSigningIn]
    /\ UNCHANGED <<password, grant, setup, browser, previous, device, launched>>

\* The cooldown ends by the clock; the counter and the level stay.
CooldownEnds ==
    /\ cooling
    /\ cooling' = FALSE
    /\ UNCHANGED <<password, failures, level, grant, setup, browser, previous, device, launched, signIn>>

\* It matches: resetLoginFailures.
ResetLoginFailures(s) ==
    /\ signIn[s].at = "hashing"
    /\ failures' = 0
    /\ level' = 0
    /\ cooling' = FALSE
    /\ signIn' = [signIn EXCEPT ![s].at = IF signIn[s].via = NoDevice THEN "issue" ELSE "approve"]
    /\ UNCHANGED <<password, grant, setup, browser, previous, device, launched>>

\* completeDeviceAuthorization: only a pending device that has not expired.
CompleteDeviceAuthorization(s) ==
    /\ signIn[s].at = "approve"
    /\ IF device[signIn[s].via] = "pending"
       THEN /\ device' = [device EXCEPT ![signIn[s].via] = "completed"]
            /\ signIn' = [signIn EXCEPT ![s].at = "issue"]
       ELSE /\ signIn' = [signIn EXCEPT ![s] = NotSigningIn]
            /\ UNCHANGED device
    /\ UNCHANGED <<identity, grant, setup, browser, previous, launched>>

\* Mutant: a session is issued for whatever password was verified.
FingerprintAlways(fingerprint) == TRUE

\* The fingerprint of the password verified is compared under the row lock.
FingerprintCurrent(fingerprint) == fingerprint = password

\* BrowserSessions.issue's transaction.
IssueBrowserSession(s) ==
    /\ signIn[s].at = "issue"
    /\ IF FingerprintCurrent(signIn[s].read)
       THEN /\ browser' = [browser EXCEPT ![s] = [state |-> "open", fingerprint |-> signIn[s].read]]
            /\ signIn' = [signIn EXCEPT ![s].at = "rotate"]
       ELSE /\ signIn' = [signIn EXCEPT ![s] = NotSigningIn]
            /\ UNCHANGED browser
    /\ UNCHANGED <<identity, grant, setup, previous, device, launched>>

Revoked(rows, s) == [rows EXCEPT ![s].state = IF @ = "open" THEN "revoked" ELSE @]

\* The session the request's cookie named ends, and the answer sets the new
\* cookie.
EndPreviousSession(s) ==
    /\ signIn[s].at = "rotate"
    /\ browser' = IF signIn[s].cookie = NoSignIn THEN browser ELSE Revoked(browser, signIn[s].cookie)
    /\ previous' = s
    /\ signIn' = [signIn EXCEPT ![s] = NotSigningIn]
    /\ UNCHANGED <<identity, grant, setup, device, launched>>

\* The browser signs out: the cookie goes with the session.
BrowserLogout ==
    /\ previous # NoSignIn
    /\ browser' = Revoked(browser, previous)
    /\ previous' = NoSignIn
    /\ UNCHANGED <<identity, grant, setup, device, launched, signIn>>

BrowserSessionLapses(s) ==
    /\ browser[s].state = "open"
    /\ browser' = [browser EXCEPT ![s].state = "expired"]
    /\ UNCHANGED <<identity, grant, setup, previous, device, launched, signIn>>

\* The API process stops while a sign-in is under way.
SignInLost(s) ==
    /\ signIn[s].at # "idle"
    /\ signIn' = [signIn EXCEPT ![s] = NotSigningIn]
    /\ UNCHANGED <<identity, grant, setup, browser, previous, device, launched>>

-----------------------------------------------------------------------------
(* Devices *)

\* A new request of a launcher instance ends the pending ones.
Superseded == [d \in Devices |-> IF device[d] = "pending" THEN "revoked" ELSE device[d]]

CreateDeviceAuthorization(d) ==
    /\ device[d] = "none"
    /\ device' = [Superseded EXCEPT ![d] = "pending"]
    /\ UNCHANGED <<identity, grant, setup, browser, previous, launched, signIn>>

\* Ten minutes pass: a pending device expires, a completed one is not redeemed.
DeviceLapses(d) ==
    /\ device[d] \in {"pending", "completed"}
    /\ device' = [device EXCEPT ![d] = "expired"]
    /\ UNCHANGED <<identity, grant, setup, browser, previous, launched, signIn>>

\* The launcher's poll redeems a completed device, once.
RedeemDeviceAuthorization(d) ==
    /\ device[d] = "completed"
    /\ device' = [device EXCEPT ![d] = "redeemed"]
    /\ UNCHANGED <<identity, grant, setup, browser, previous, launched, signIn>>

\* The second transaction of the same request: the session is created.
CreateSessionBundle(d) ==
    /\ device[d] = "redeemed"
    /\ launched[d] = "none"
    /\ launched' = [launched EXCEPT ![d] = "active"]
    /\ UNCHANGED <<identity, grant, setup, browser, previous, device, signIn>>

\* The API stops between the two: the device is redeemed and no session comes.
\* The launcher's poll fails and the employee signs in again.
RedemptionLost(d) ==
    /\ device[d] = "redeemed"
    /\ launched[d] = "none"
    /\ device' = [device EXCEPT ![d] = "lost"]
    /\ UNCHANGED <<identity, grant, setup, browser, previous, launched, signIn>>

-----------------------------------------------------------------------------
SignIn(s) ==
    \/ RecordLoginFailure(s) \/ ResetLoginFailures(s) \/ CompleteDeviceAuthorization(s)
    \/ IssueBrowserSession(s) \/ EndPreviousSession(s)

AccountNext ==
    \/ \E g \in Grants : ResetPassword(g) \/ SetupLapses(g) \/ ExchangePasswordSetupGrant(g) \/ ConsumePasswordSetupSession(g)
    \/ \E s \in SignIns :
          \/ \E via \in {NoDevice} \cup Devices : VerifyLogin(s, via)
          \/ SignIn(s) \/ SignInLost(s) \/ BrowserSessionLapses(s)
    \/ CooldownEnds
    \/ BrowserLogout
    \/ \E d \in Devices :
          \/ CreateDeviceAuthorization(d) \/ DeviceLapses(d) \/ RedeemDeviceAuthorization(d)
          \/ CreateSessionBundle(d) \/ RedemptionLost(d)

AccountSpec == AccountInit /\ [][AccountNext]_accountVars

-----------------------------------------------------------------------------
(* Properties *)

\* The values the rows of one identity take.
AccountTypeOK ==
    /\ password \in Passwords
    /\ failures \in 0..MaxFailures
    /\ level \in 0..LevelLimit
    /\ cooling \in BOOLEAN
    /\ grant \in [Grants -> {"none", "open", "used", "revoked", "expired"}]
    /\ setup \in [Grants -> {"none", "open", "consumed", "revoked", "expired"}]
    /\ browser \in [SignIns -> [state : {"none", "open", "revoked", "expired"}, fingerprint : Passwords]]
    /\ previous \in SignIns \cup {NoSignIn}
    /\ device \in [Devices -> {"none", "pending", "completed", "redeemed", "lost", "revoked", "expired"}]
    /\ launched \in [Devices -> {"none", "active", "revoked"}]
    /\ signIn \in [SignIns -> [at : {"idle", "hashing", "approve", "issue", "rotate"}, read : Passwords,
                              via : Devices \cup {NoDevice}, cookie : SignIns \cup {NoSignIn}]]

\* An operator who resets a password twice, or while the form is open, leaves
\* one way to set it: the newest link, or the form it was exchanged for.
OneUsableSetup ==
    /\ \A g, h \in Grants : (grant[g] = "open" /\ grant[h] = "open") => g = h
    /\ \A g, h \in Grants : (setup[g] = "open" /\ setup[h] = "open") => g = h
    /\ \A g, h \in Grants : ~(grant[g] = "open" /\ setup[h] = "open")

\* A browser session that is open was issued for the password now set, also
\* when the password changed between the verification and the issue.
BrowserSessionsAreCurrent ==
    \A s \in SignIns : browser[s].state = "open" => browser[s].fingerprint = password

\* The cooldown level is the number of failures from the limit on, capped:
\* overlapping failures and resets never take the two counters apart.
LevelFollowsFailures ==
    level = Min({LevelLimit, IF failures < FailureLimit THEN 0 ELSE failures - FailureLimit + 1})

=============================================================================
