---------------------------- MODULE AccessProofs ----------------------------
(***************************************************************************)
(* Proofs about who gets in and what they may read.                        *)
(*                                                                         *)
(* AccountAccess, for any number of sign-ins, setup grants and devices and *)
(* for every limit: an open browser session is of the current password,    *)
(* one way to set a password is open at most, and the cooldown level is a  *)
(* function of the failures.                                               *)
(*                                                                         *)
(* BusinessAuthorization, for every directory, every set of employees and  *)
(* documents and any number of writes: the rows keep their types, nothing  *)
(* unclassified is served after the cutover, no step widens what somebody  *)
(* may read without moving the version, and what is published under        *)
(* retired entries was approved.                                           *)
(*                                                                         *)
(* LauncherSession, for any number of processes, sign-ins and generations: *)
(* rows, record and lock file keep their types, and no credential is       *)
(* presented twice unless an answer was lost, a write failed or a process  *)
(* died.                                                                   *)
(***************************************************************************)
EXTENDS AccountAccess, BusinessAuthorization, LauncherSession, FiniteSetTheorems, TLAPS

-----------------------------------------------------------------------------
(* Accounts *)

(* The least of two integers.                                              *)
LEMMA MinOfTwo ==
    ASSUME NEW a \in Int, NEW b \in Int
    PROVE  Min({a, b}) = IF a <= b THEN a ELSE b
<1>. DEFINE m == IF a <= b THEN a ELSE b
<1>1. m \in {a, b} /\ \A y \in {a, b} : m <= y
  OBVIOUS
<1>2. \A x \in {a, b} : (\A y \in {a, b} : x <= y) => x = m
  OBVIOUS
<1>. QED  BY <1>1, <1>2 DEF Min

(***************************************************************************)
(* Types.  A session is only ever issued for a password that was read      *)
(* while one was set, and a sign-in that approves names a device.          *)
(***************************************************************************)
BrowserRows == [state : {"none", "open", "revoked", "expired"}, fingerprint : Passwords]

Requests == [at : {"idle", "hashing", "approve", "issue", "rotate"}, read : Passwords,
             via : Devices \cup {NoDevice}, cookie : SignIns \cup {NoSignIn}]

(* Closing one session, or all, keeps the type of the sessions.            *)
LEMMA SessionRows ==
    ASSUME browser \in [SignIns -> BrowserRows]
    PROVE  /\ \A s \in SignIns : Revoked(browser, s) \in [SignIns -> BrowserRows]
           /\ \A s \in SignIns : [browser EXCEPT ![s].state = "expired"] \in [SignIns -> BrowserRows]
           /\ EndBrowserSessions => browser' \in [SignIns -> BrowserRows]
<1>1. ASSUME NEW s \in SignIns, NEW state \in {"none", "open", "revoked", "expired"}
      PROVE  [browser[s] EXCEPT !.state = state] \in BrowserRows
  BY DEF BrowserRows
<1>2. ASSUME NEW s \in SignIns, NEW state \in {"none", "open", "revoked", "expired"}
      PROVE  [browser EXCEPT ![s].state = state] \in [SignIns -> BrowserRows]
  <2>1. [browser EXCEPT ![s].state = state] = [browser EXCEPT ![s] = [browser[s] EXCEPT !.state = state]]
    OBVIOUS
  <2>. QED  BY <1>1, <2>1
<1>3. ASSUME NEW s \in SignIns
      PROVE  Revoked(browser, s) \in [SignIns -> BrowserRows]
  <2>. DEFINE state == IF browser[s].state = "open" THEN "revoked" ELSE browser[s].state
  <2>1. state \in {"none", "open", "revoked", "expired"}
    BY DEF BrowserRows
  <2>2. Revoked(browser, s) = [browser EXCEPT ![s] = [browser[s] EXCEPT !.state = state]]
    BY DEF Revoked, BrowserRows
  <2>. QED  BY <1>1, <2>1, <2>2
<1>4. EndBrowserSessions => browser' \in [SignIns -> BrowserRows]
  BY <1>1 DEF EndBrowserSessions
<1>. QED  BY <1>2, <1>3, <1>4

(* Moving a sign-in on, or giving it up, keeps the type of the sign-ins.   *)
LEMMA RequestRows ==
    ASSUME signIn \in [SignIns -> Requests], NEW s \in SignIns
    PROVE  /\ [signIn EXCEPT ![s] = NotSigningIn] \in [SignIns -> Requests]
           /\ \A at \in {"idle", "hashing", "approve", "issue", "rotate"} :
                 [signIn EXCEPT ![s].at = at] \in [SignIns -> Requests]
<1>1. NotSigningIn \in Requests
  BY LimitsAssumption DEF NotSigningIn, Requests, Passwords
<1>2. ASSUME NEW at \in {"idle", "hashing", "approve", "issue", "rotate"}
      PROVE  [signIn EXCEPT ![s].at = at] \in [SignIns -> Requests]
  <2>1. [signIn[s] EXCEPT !.at = at] \in Requests
    BY DEF Requests
  <2>2. [signIn EXCEPT ![s].at = at] = [signIn EXCEPT ![s] = [signIn[s] EXCEPT !.at = at]]
    OBVIOUS
  <2>. QED  BY <2>1, <2>2
<1>. QED  BY <1>1, <1>2

(* The rows of one identity keep their types.                              *)
THEOREM AccountTypeCorrect == AccountSpec => []AccountTypeOK
<1>1. AccountInit => AccountTypeOK
  <2>. SUFFICES ASSUME AccountInit
                PROVE  AccountTypeOK
    OBVIOUS
  <2>1. password \in Passwords /\ failures \in 0..MaxFailures /\ level \in 0..LevelLimit
    BY LimitsAssumption DEF AccountInit, Passwords
  <2>2. 0 \in Passwords
    BY LimitsAssumption DEF Passwords
  <2>3. /\ cooling \in BOOLEAN
        /\ previous \in SignIns \cup {NoSignIn}
    BY DEF AccountInit
  <2>4. browser \in [SignIns -> BrowserRows] /\ signIn \in [SignIns -> Requests]
    BY <2>2 DEF AccountInit, Closed, NotSigningIn, BrowserRows, Requests
  <2>5. /\ grant \in [Grants -> {"none", "open", "used", "revoked", "expired"}]
        /\ setup \in [Grants -> {"none", "open", "consumed", "revoked", "expired"}]
    BY DEF AccountInit
  <2>. QED  BY <2>1, <2>3, <2>4, <2>5 DEF AccountInit, AccountTypeOK, BrowserRows, Requests
<1>2. AccountTypeOK /\ [AccountNext]_accountVars => AccountTypeOK'
  <2>. SUFFICES ASSUME AccountTypeOK, [AccountNext]_accountVars
                PROVE  AccountTypeOK'
    OBVIOUS
  <2>0. /\ browser \in [SignIns -> BrowserRows]
        /\ signIn \in [SignIns -> Requests]
        /\ AccountTypeOK' <=>
             /\ password' \in Passwords
             /\ failures' \in 0..MaxFailures
             /\ level' \in 0..LevelLimit
             /\ cooling' \in BOOLEAN
             /\ grant' \in [Grants -> {"none", "open", "used", "revoked", "expired"}]
             /\ setup' \in [Grants -> {"none", "open", "consumed", "revoked", "expired"}]
             /\ browser' \in [SignIns -> BrowserRows]
             /\ previous' \in SignIns \cup {NoSignIn}
             /\ device' \in [Devices -> {"none", "pending", "completed", "redeemed", "lost", "revoked", "expired"}]
             /\ launched' \in [Devices -> {"none", "active", "revoked"}]
             /\ signIn' \in [SignIns -> Requests]
    BY DEF AccountTypeOK, BrowserRows, Requests
  <2>1. ASSUME NEW g \in Grants,
               ResetPassword(g) \/ SetupLapses(g) \/ ExchangePasswordSetupGrant(g)
        PROVE  AccountTypeOK'
    <3>1. CASE ResetPassword(g)
      <4>1. /\ Withdrawn(grant) \in [Grants -> {"none", "open", "used", "revoked", "expired"}]
            /\ Withdrawn(setup) \in [Grants -> {"none", "open", "consumed", "revoked", "expired"}]
        BY DEF Withdrawn, AccountTypeOK
      <4>. QED  BY <2>0, <3>1, <4>1, SessionRows DEF ResetPassword, identity, AccountTypeOK
    <3>2. CASE SetupLapses(g)
      BY <2>0, <3>2 DEF SetupLapses, identity, AccountTypeOK
    <3>3. CASE ExchangePasswordSetupGrant(g)
      BY <2>0, <3>3 DEF ExchangePasswordSetupGrant, identity, AccountTypeOK
    <3>. QED  BY <2>1, <3>1, <3>2, <3>3
  <2>2. ASSUME NEW g \in Grants, ConsumePasswordSetupSession(g)
        PROVE  AccountTypeOK'
    <3>1. /\ password' \in Passwords
          /\ failures' \in 0..MaxFailures
          /\ level' \in 0..LevelLimit
      BY <2>2, LimitsAssumption DEF ConsumePasswordSetupSession, AccountTypeOK, Passwords
    <3>. QED  BY <2>0, <2>2, <3>1, SessionRows DEF ConsumePasswordSetupSession, AccountTypeOK
  <2>3. ASSUME NEW s \in SignIns, NEW via \in {NoDevice} \cup Devices, VerifyLogin(s, via)
        PROVE  AccountTypeOK'
    <3>1. signIn' \in [SignIns -> Requests]
      BY <2>0, <2>3 DEF VerifyLogin, AccountTypeOK, Requests
    <3>. QED  BY <2>0, <2>3, <3>1 DEF VerifyLogin, identity, AccountTypeOK
  <2>4. ASSUME NEW s \in SignIns, RecordLoginFailure(s)
        PROVE  AccountTypeOK'
    <3>1. level + 1 \in Int /\ LevelLimit \in Int
      BY LimitsAssumption DEF AccountTypeOK
    <3>2. NextLevel(failures + 1) \in 0..LevelLimit
      BY <3>1, MinOfTwo, LimitsAssumption DEF NextLevel, AccountTypeOK
    <3>3. failures' \in 0..MaxFailures /\ level' \in 0..LevelLimit
      BY <2>4, <3>2, LimitsAssumption DEF RecordLoginFailure, AccountTypeOK
    <3>4. cooling' \in BOOLEAN
      <4>. DEFINE over == failures + 1 >= FailureLimit
      <4>1. over \in BOOLEAN
        OBVIOUS
      <4>2. cooling' = over \/ cooling' = cooling
        BY <2>4, Zenon DEF RecordLoginFailure
      <4>. HIDE DEF over
      <4>. QED  BY <4>1, <4>2, Zenon DEF AccountTypeOK
    <3>. QED  BY <2>0, <2>4, <3>3, <3>4, RequestRows DEF RecordLoginFailure, AccountTypeOK
  <2>5. ASSUME NEW s \in SignIns, ResetLoginFailures(s)
        PROVE  AccountTypeOK'
    <3>1. failures' \in 0..MaxFailures /\ level' \in 0..LevelLimit
      BY <2>5, LimitsAssumption DEF ResetLoginFailures
    <3>2. signIn' \in [SignIns -> Requests]
      BY <2>0, <2>5, RequestRows DEF ResetLoginFailures
    <3>. QED  BY <2>0, <2>5, <3>1, <3>2 DEF ResetLoginFailures, AccountTypeOK
  <2>6. ASSUME NEW s \in SignIns, CompleteDeviceAuthorization(s)
        PROVE  AccountTypeOK'
    <3>1. signIn' \in [SignIns -> Requests]
      <4>1. \/ signIn' = [signIn EXCEPT ![s] = NotSigningIn]
            \/ signIn' = [signIn EXCEPT ![s].at = "issue"]
        BY <2>6 DEF CompleteDeviceAuthorization
      <4>. QED  BY <2>0, <4>1, RequestRows
    <3>. QED  BY <2>0, <2>6, <3>1 DEF CompleteDeviceAuthorization, identity, AccountTypeOK
  <2>7. ASSUME NEW s \in SignIns, IssueBrowserSession(s)
        PROVE  AccountTypeOK'
    <3>1. signIn' \in [SignIns -> Requests]
      <4>1. \/ signIn' = [signIn EXCEPT ![s] = NotSigningIn]
            \/ signIn' = [signIn EXCEPT ![s].at = "rotate"]
        BY <2>7 DEF IssueBrowserSession
      <4>. QED  BY <2>0, <4>1, RequestRows
    <3>2. browser' \in [SignIns -> BrowserRows]
      BY <2>0, <2>7 DEF IssueBrowserSession, BrowserRows, Requests
    <3>. QED  BY <2>0, <2>7, <3>1, <3>2 DEF IssueBrowserSession, identity, AccountTypeOK
  <2>8. ASSUME NEW s \in SignIns, EndPreviousSession(s)
        PROVE  AccountTypeOK'
    <3>1. browser' \in [SignIns -> BrowserRows]
      BY <2>0, <2>8, SessionRows DEF EndPreviousSession, Requests
    <3>. QED  BY <2>0, <2>8, <3>1, RequestRows DEF EndPreviousSession, identity, AccountTypeOK
  <2>9. ASSUME NEW s \in SignIns, SignInLost(s) \/ BrowserSessionLapses(s)
        PROVE  AccountTypeOK'
    <3>1. CASE SignInLost(s)
      BY <2>0, <3>1, RequestRows DEF SignInLost, identity, AccountTypeOK
    <3>2. CASE BrowserSessionLapses(s)
      <4>1. browser' \in [SignIns -> BrowserRows]
        BY <2>0, <3>2, SessionRows DEF BrowserSessionLapses
      <4>. QED  BY <2>0, <3>2, <4>1 DEF BrowserSessionLapses, identity, AccountTypeOK
    <3>. QED  BY <2>9, <3>1, <3>2
  <2>10. CASE CooldownEnds \/ BrowserLogout
    BY <2>0, <2>10, SessionRows DEF CooldownEnds, BrowserLogout, identity, AccountTypeOK
  <2>11. ASSUME NEW d \in Devices,
                \/ CreateDeviceAuthorization(d) \/ DeviceLapses(d) \/ RedeemDeviceAuthorization(d)
                \/ CreateSessionBundle(d) \/ RedemptionLost(d)
         PROVE  AccountTypeOK'
    BY <2>0, <2>11 DEF CreateDeviceAuthorization, DeviceLapses, RedeemDeviceAuthorization,
       CreateSessionBundle, RedemptionLost, Superseded, identity, AccountTypeOK
  <2>12. CASE UNCHANGED accountVars
    BY <2>12 DEF accountVars, AccountTypeOK
  <2>. QED
    BY <2>1, <2>2, <2>3, <2>4, <2>5, <2>6, <2>7, <2>8, <2>9, <2>10, <2>11, <2>12 DEF AccountNext, SignIn
<1>. QED  BY <1>1, <1>2, PTL DEF AccountSpec

(***************************************************************************)
(* Sessions of the current password                                        *)
(***************************************************************************)

(* Steps after which no session is open that was not, or that belongs to   *)
(* another password.                                                       *)
LEMMA ClosingStep ==
    ASSUME AccountTypeOK, BrowserSessionsAreCurrent, UNCHANGED password,
           \A s \in SignIns : browser'[s].state = "open" => browser'[s] = browser[s]
    PROVE  BrowserSessionsAreCurrent'
BY DEF BrowserSessionsAreCurrent

(* A revoked session is not open.                                          *)
LEMMA RevokedIsClosed ==
    ASSUME AccountTypeOK, NEW s \in SignIns, NEW t \in SignIns, Revoked(browser, s)[t].state = "open"
    PROVE  Revoked(browser, s)[t] = browser[t]
<1>. DEFINE state == IF browser[s].state = "open" THEN "revoked" ELSE browser[s].state
<1>1. Revoked(browser, s) = [browser EXCEPT ![s] = [browser[s] EXCEPT !.state = state]]
  BY DEF Revoked, AccountTypeOK
<1>2. t # s
  BY <1>1 DEF AccountTypeOK
<1>. QED  BY <1>1, <1>2 DEF AccountTypeOK

(* prisma-browser-session.ts: a browser session that is open was issued    *)
(* for the password now set, also when the password changed while the      *)
(* sign-in was verifying the old one.                                      *)
THEOREM SessionsFollowThePassword == AccountSpec => []BrowserSessionsAreCurrent
<1>1. AccountInit => BrowserSessionsAreCurrent
  BY DEF AccountInit, BrowserSessionsAreCurrent, Closed
<1>2. AccountTypeOK /\ BrowserSessionsAreCurrent /\ [AccountNext]_accountVars => BrowserSessionsAreCurrent'
  <2>. SUFFICES ASSUME AccountTypeOK, BrowserSessionsAreCurrent, [AccountNext]_accountVars
                PROVE  BrowserSessionsAreCurrent'
    OBVIOUS
  <2>1. ASSUME EndBrowserSessions
        PROVE  BrowserSessionsAreCurrent'
    <3>1. ASSUME NEW s \in SignIns
          PROVE  browser'[s].state # "open"
      BY <2>1 DEF EndBrowserSessions, AccountTypeOK
    <3>. QED  BY <3>1 DEF BrowserSessionsAreCurrent
  <2>2. CASE UNCHANGED <<password, browser>>
    BY <2>2, ClosingStep
  <2>3. ASSUME NEW g \in Grants,
               ResetPassword(g) \/ SetupLapses(g) \/ ExchangePasswordSetupGrant(g) \/ ConsumePasswordSetupSession(g)
        PROVE  BrowserSessionsAreCurrent'
    BY <2>1, <2>2, <2>3 DEF ResetPassword, SetupLapses, ExchangePasswordSetupGrant,
       ConsumePasswordSetupSession, identity
  <2>4. ASSUME NEW s \in SignIns, IssueBrowserSession(s)
        PROVE  BrowserSessionsAreCurrent'
    <3>1. CASE UNCHANGED browser
      BY <2>2, <2>4, <3>1 DEF IssueBrowserSession, identity
    <3>2. CASE /\ browser' = [browser EXCEPT ![s] = [state |-> "open", fingerprint |-> signIn[s].read]]
               /\ signIn[s].read = password
      BY <2>4, <3>2 DEF IssueBrowserSession, identity, BrowserSessionsAreCurrent, AccountTypeOK
    <3>. QED  BY <2>4, <3>1, <3>2 DEF IssueBrowserSession, FingerprintCurrent
  <2>5. ASSUME NEW s \in SignIns, EndPreviousSession(s)
        PROVE  BrowserSessionsAreCurrent'
    <3>1. signIn[s].cookie \in SignIns \cup {NoSignIn}
      BY DEF AccountTypeOK
    <3>. QED  BY <2>5, <3>1, RevokedIsClosed, ClosingStep DEF EndPreviousSession, identity
  <2>6. CASE BrowserLogout
    BY <2>6, RevokedIsClosed, ClosingStep DEF BrowserLogout, identity, AccountTypeOK
  <2>7. ASSUME NEW s \in SignIns, BrowserSessionLapses(s)
        PROVE  BrowserSessionsAreCurrent'
    <3>1. ASSUME NEW t \in SignIns, browser'[t].state = "open"
          PROVE  browser'[t] = browser[t]
      BY <2>7, <3>1 DEF BrowserSessionLapses, AccountTypeOK
    <3>. QED  BY <2>7, <3>1, ClosingStep DEF BrowserSessionLapses, identity
  <2>8. ASSUME NEW s \in SignIns, NEW via, VerifyLogin(s, via)
        PROVE  BrowserSessionsAreCurrent'
    BY <2>2, <2>8 DEF VerifyLogin, identity
  <2>9. ASSUME NEW s \in SignIns,
               \/ RecordLoginFailure(s) \/ ResetLoginFailures(s)
               \/ CompleteDeviceAuthorization(s) \/ SignInLost(s)
        PROVE  BrowserSessionsAreCurrent'
    BY <2>2, <2>9 DEF RecordLoginFailure, ResetLoginFailures, CompleteDeviceAuthorization, SignInLost, identity
  <2>10. CASE CooldownEnds \/ UNCHANGED accountVars
    BY <2>2, <2>10 DEF CooldownEnds, accountVars
  <2>11. ASSUME NEW d \in Devices,
                \/ CreateDeviceAuthorization(d) \/ DeviceLapses(d) \/ RedeemDeviceAuthorization(d)
                \/ CreateSessionBundle(d) \/ RedemptionLost(d)
         PROVE  BrowserSessionsAreCurrent'
    BY <2>2, <2>11 DEF CreateDeviceAuthorization, DeviceLapses, RedeemDeviceAuthorization,
       CreateSessionBundle, RedemptionLost, identity
  <2>. QED
    BY <2>3, <2>4, <2>5, <2>6, <2>7, <2>8, <2>9, <2>10, <2>11 DEF AccountNext, SignIn
<1>. QED  BY <1>1, <1>2, AccountTypeCorrect, PTL DEF AccountSpec

(***************************************************************************)
(* Ways to set the password                                                *)
(***************************************************************************)

(* replacePasswordSetupGrant, exchangePasswordSetupGrant: at most one link *)
(* or one form to set the password is open.                                *)
THEOREM OneWayToSetIt == AccountSpec => []OneUsableSetup
<1>1. AccountInit => OneUsableSetup
  BY DEF AccountInit, OneUsableSetup
<1>2. AccountTypeOK /\ OneUsableSetup /\ [AccountNext]_accountVars => OneUsableSetup'
  <2>. SUFFICES ASSUME AccountTypeOK, OneUsableSetup, [AccountNext]_accountVars
                PROVE  OneUsableSetup'
    OBVIOUS
  <2>1. CASE UNCHANGED <<grant, setup>>
    BY <2>1 DEF OneUsableSetup
  <2>2. ASSUME NEW g \in Grants, ResetPassword(g)
        PROVE  OneUsableSetup'
    <3>1. \A h \in Grants : setup'[h] # "open"
      BY <2>2 DEF ResetPassword, Withdrawn
    <3>2. \A h \in Grants : grant'[h] = "open" => h = g
      BY <2>2 DEF ResetPassword, Withdrawn
    <3>. QED  BY <3>1, <3>2 DEF OneUsableSetup
  <2>3. ASSUME NEW g \in Grants, SetupLapses(g) \/ ConsumePasswordSetupSession(g)
        PROVE  OneUsableSetup'
    <3>1. /\ \A h \in Grants : grant'[h] = "open" => grant[h] = "open"
          /\ \A h \in Grants : setup'[h] = "open" => setup[h] = "open"
      BY <2>3 DEF SetupLapses, ConsumePasswordSetupSession, AccountTypeOK
    <3>. QED  BY <3>1 DEF OneUsableSetup
  <2>4. ASSUME NEW g \in Grants, ExchangePasswordSetupGrant(g)
        PROVE  OneUsableSetup'
    <3>1. \A h \in Grants : grant'[h] # "open"
      BY <2>4 DEF ExchangePasswordSetupGrant, OneUsableSetup, AccountTypeOK
    <3>2. \A h \in Grants : setup'[h] = "open" => h = g
      BY <2>4 DEF ExchangePasswordSetupGrant, OneUsableSetup, AccountTypeOK
    <3>. QED  BY <3>1, <3>2 DEF OneUsableSetup
  <2>5. ASSUME NEW s \in SignIns,
               \/ \E via \in {NoDevice} \cup Devices : VerifyLogin(s, via)
               \/ SignIn(s) \/ SignInLost(s) \/ BrowserSessionLapses(s)
        PROVE  OneUsableSetup'
    BY <2>1, <2>5 DEF VerifyLogin, SignIn, RecordLoginFailure, ResetLoginFailures, CompleteDeviceAuthorization,
       IssueBrowserSession, EndPreviousSession, SignInLost, BrowserSessionLapses
  <2>6. ASSUME NEW d \in Devices,
               \/ CreateDeviceAuthorization(d) \/ DeviceLapses(d) \/ RedeemDeviceAuthorization(d)
               \/ CreateSessionBundle(d) \/ RedemptionLost(d)
        PROVE  OneUsableSetup'
    BY <2>1, <2>6 DEF CreateDeviceAuthorization, DeviceLapses, RedeemDeviceAuthorization,
       CreateSessionBundle, RedemptionLost
  <2>7. CASE CooldownEnds \/ BrowserLogout \/ UNCHANGED accountVars
    BY <2>1, <2>7 DEF CooldownEnds, BrowserLogout, accountVars
  <2>. QED  BY <2>2, <2>3, <2>4, <2>5, <2>6, <2>7 DEF AccountNext
<1>. QED  BY <1>1, <1>2, AccountTypeCorrect, PTL DEF AccountSpec

(***************************************************************************)
(* The cooldown                                                            *)
(***************************************************************************)

(* recordLoginFailure: the level is the number of failures from the limit  *)
(* on, up to the last level, in whatever order the sign-ins end.           *)
THEOREM LevelIsTheFailures == AccountSpec => []LevelFollowsFailures
<1>1. AccountInit => LevelFollowsFailures
  <2>1. LevelLimit \in Int /\ 0 \in Int /\ 0 < FailureLimit /\ 0 < LevelLimit
    BY LimitsAssumption
  <2>2. Min({LevelLimit, 0}) = 0
    BY <2>1, MinOfTwo
  <2>. QED  BY <2>1, <2>2 DEF AccountInit, LevelFollowsFailures
<1>2. AccountTypeOK /\ LevelFollowsFailures /\ [AccountNext]_accountVars => LevelFollowsFailures'
  <2>. SUFFICES ASSUME AccountTypeOK, LevelFollowsFailures, [AccountNext]_accountVars
                PROVE  LevelFollowsFailures'
    OBVIOUS
  <2>. DEFINE Over(n) == IF n < FailureLimit THEN 0 ELSE n - FailureLimit + 1
  <2>0. ASSUME NEW n \in Nat
        PROVE  Min({LevelLimit, Over(n)}) = IF LevelLimit <= Over(n) THEN LevelLimit ELSE Over(n)
    <3>1. LevelLimit \in Int /\ Over(n) \in Int
      BY LimitsAssumption
    <3>. HIDE DEF Over
    <3>. QED  BY <3>1, MinOfTwo
  <2>1. CASE UNCHANGED <<failures, level>>
    BY <2>1 DEF LevelFollowsFailures
  <2>2. CASE failures' = 0 /\ level' = 0
    <3>1. Min({LevelLimit, Over(0)}) = 0
      BY <2>0, LimitsAssumption
    <3>. QED  BY <2>2, <3>1, LimitsAssumption DEF LevelFollowsFailures
  <2>3. CASE failures' = failures + 1 /\ level' = NextLevel(failures + 1)
    <3>1. failures \in Nat /\ level \in Nat /\ failures + 1 \in Nat
      BY LimitsAssumption DEF AccountTypeOK
    <3>2. level = IF LevelLimit <= Over(failures) THEN LevelLimit ELSE Over(failures)
      BY <2>0, <3>1 DEF LevelFollowsFailures
    <3>3. Min({level + 1, LevelLimit}) = IF level + 1 <= LevelLimit THEN level + 1 ELSE LevelLimit
      BY <3>1, MinOfTwo, LimitsAssumption
    <3>4. NextLevel(failures + 1) = IF LevelLimit <= Over(failures + 1) THEN LevelLimit ELSE Over(failures + 1)
      BY <3>1, <3>2, <3>3, LimitsAssumption DEF NextLevel
    <3>5. level' = Min({LevelLimit, Over(failures + 1)})
      BY <2>0, <2>3, <3>1, <3>4
    <3>. QED  BY <2>3, <3>5 DEF LevelFollowsFailures
  <2>4. ASSUME NEW s \in SignIns,
               \/ \E via \in {NoDevice} \cup Devices : VerifyLogin(s, via)
               \/ SignIn(s) \/ SignInLost(s) \/ BrowserSessionLapses(s)
        PROVE  LevelFollowsFailures'
    BY <2>1, <2>2, <2>3, <2>4 DEF VerifyLogin, SignIn, RecordLoginFailure, ResetLoginFailures,
       CompleteDeviceAuthorization, IssueBrowserSession, EndPreviousSession, SignInLost, BrowserSessionLapses,
       identity
  <2>5. ASSUME NEW g \in Grants,
               ResetPassword(g) \/ SetupLapses(g) \/ ExchangePasswordSetupGrant(g) \/ ConsumePasswordSetupSession(g)
        PROVE  LevelFollowsFailures'
    BY <2>1, <2>2, <2>5 DEF ResetPassword, SetupLapses, ExchangePasswordSetupGrant,
       ConsumePasswordSetupSession, identity
  <2>6. ASSUME NEW d \in Devices,
               \/ CreateDeviceAuthorization(d) \/ DeviceLapses(d) \/ RedeemDeviceAuthorization(d)
               \/ CreateSessionBundle(d) \/ RedemptionLost(d)
        PROVE  LevelFollowsFailures'
    BY <2>1, <2>6 DEF CreateDeviceAuthorization, DeviceLapses, RedeemDeviceAuthorization,
       CreateSessionBundle, RedemptionLost, identity
  <2>7. CASE CooldownEnds \/ BrowserLogout \/ UNCHANGED accountVars
    BY <2>1, <2>7 DEF CooldownEnds, BrowserLogout, accountVars, identity
  <2>. QED  BY <2>4, <2>5, <2>6, <2>7 DEF AccountNext
<1>. QED  BY <1>1, <1>2, AccountTypeCorrect, PTL DEF AccountSpec

-----------------------------------------------------------------------------
(* Business authorization *)

(***************************************************************************)
(* Types                                                                   *)
(***************************************************************************)

(* Choosing a selection gives a set of scopes.                             *)
LEMMA SelectionsAreScopes ==
  \A S \in Selections \cup {{}} : S \in SUBSET Scopes
BY DEF Selections

(* The derived scopes of a ledger or a photo are scopes.                   *)
LEMMA PlaceIsScope ==
  ASSUME NEW place \in Stores
  PROVE  {[place |-> place, value |-> Nothing]} \in SUBSET Scopes
BY DEF Scopes

(* What an administrator changes of an account keeps its type.             *)
LEMMA AccountUpdates ==
  ASSUME NEW R, NEW N, NEW S, NEW r \in [role : R, clearance : N, grants : S],
         NEW role \in R, NEW n \in N, NEW gs \in S
  PROVE  /\ [r EXCEPT !.role = role] \in [role : R, clearance : N, grants : S]
         /\ [r EXCEPT !.clearance = n, !.grants = gs] \in [role : R, clearance : N, grants : S]
OBVIOUS

(* So does what applying its rows changes of a document.                   *)
LEMMA DocumentUpdates ==
  ASSUME NEW S, NEW I, NEW P, NEW r \in [status : S, intent : I, place : P], NEW s \in S, NEW p \in P
  PROVE  [r EXCEPT !.status = s, !.place = p] \in [status : S, intent : I, place : P]
OBVIOUS

(* Registering entries keeps the directory's type.                         *)
LEMMA RegisteredType ==
  ASSUME registry \in [Entries -> {"none", "current", "retired"}], NEW c, NEW scopes
  PROVE  Registered(c, scopes) \in [Entries -> {"none", "current", "retired"}]
BY DEF Registered

(* An administrator's write keeps the types.                               *)
LEMMA AdminWriteType ==
  ASSUME BizTypeOK, NEW e \in Employees, AdminWrite(e)
  PROVE  BizTypeOK'
<1>0. /\ fresh' \subseteq Employees
      /\ writes' \in 0..MaxWrites
  BY BusinessConstants DEF AdminWrite, Mutate, VersionMoves, BizTypeOK
<1>1. ASSUME NEW t \in Employees, NEW role \in {"admin", "employee"},
             ConfigureAccountRole(e, t, role)
      PROVE  BizTypeOK'
  <2>1. employees' \in [Employees -> [role : {"admin", "employee"}, clearance : Clearances \cup {0},
                                      grants : GrantChoices \cup {{}}]]
    <3>1. [employees[t] EXCEPT !.role = role] \in
            [role : {"admin", "employee"}, clearance : Clearances \cup {0},
             grants : GrantChoices \cup {{}}]
      <4>. DEFINE R == {"admin", "employee"}  N == Clearances \cup {0}  S == GrantChoices \cup {{}}
      <4>1. employees[t] \in [role : R, clearance : N, grants : S]
        BY DEF BizTypeOK
      <4>2. employees[t].clearance \in N /\ employees[t].grants \in S
        BY <4>1
      <4>. HIDE DEF R, N, S
      <4>3. [employees[t] EXCEPT !.role = role] \in [role : R, clearance : N, grants : S]
        BY <4>1, <4>2, AccountUpdates DEF R
      <4>. QED  BY <4>3 DEF R, N, S
    <3>2. employees' = [employees EXCEPT ![t] = [employees[t] EXCEPT !.role = role]]
      BY <1>1 DEF ConfigureAccountRole
    <3>. QED  BY <3>1, <3>2 DEF BizTypeOK
  <2>. QED  BY <1>0, <1>1, <2>1 DEF ConfigureAccountRole, BizTypeOK
<1>2. ASSUME NEW t \in Employees, NEW n \in Clearances, NEW gs \in GrantChoices,
             ConfigureAccount(t, n, gs)
      PROVE  BizTypeOK'
  <2>1. employees' \in [Employees -> [role : {"admin", "employee"}, clearance : Clearances \cup {0},
                                      grants : GrantChoices \cup {{}}]]
    <3>1. [employees[t] EXCEPT !.clearance = n, !.grants = gs] \in
            [role : {"admin", "employee"}, clearance : Clearances \cup {0},
             grants : GrantChoices \cup {{}}]
      <4>. DEFINE R == {"admin", "employee"}  N == Clearances \cup {0}  S == GrantChoices \cup {{}}
      <4>1. employees[t] \in [role : R, clearance : N, grants : S]
        BY DEF BizTypeOK
      <4>2. employees[t].role \in R /\ n \in N /\ gs \in S
        BY <4>1
      <4>. HIDE DEF R, N, S
      <4>3. [employees[t] EXCEPT !.clearance = n, !.grants = gs] \in [role : R, clearance : N, grants : S]
        BY <4>1, <4>2, AccountUpdates
      <4>. QED  BY <4>3 DEF R, N, S
    <3>2. employees' = [employees EXCEPT ![t] = [employees[t] EXCEPT !.clearance = n, !.grants = gs]]
      BY <1>2 DEF ConfigureAccount, BizTypeOK
    <3>. QED  BY <3>1, <3>2 DEF BizTypeOK
  <2>. QED  BY <1>0, <1>2, <2>1 DEF ConfigureAccount, BizTypeOK
<1>3. ASSUME NEW c \in Categories, NEW n \in Clearances \cup {Nothing}, NEW req \in BOOLEAN,
             NEW state \in {"current", "retired"}, ConfigureCategory(c, n, req, state)
      PROVE  BizTypeOK'
  <2>1. rules' \in [Categories -> [level : Clearances \cup {Nothing}, required : BOOLEAN]]
    BY <1>3 DEF ConfigureCategory, BizTypeOK
  <2>2. registry' \in [Entries -> {"none", "current", "retired"}]
    BY <1>3 DEF ConfigureCategory, BizTypeOK
  <2>. QED  BY <1>0, <1>3, <2>1, <2>2 DEF ConfigureCategory, BizTypeOK
<1>4. ASSUME InitializeFixedCategories
      PROVE  BizTypeOK'
  BY <1>0, <1>4 DEF InitializeFixedCategories, BizTypeOK
<1>5. ASSUME NEW x \in Stores \cup Values, NEW state \in {"current", "retired"}, PutEntry(x, state)
      PROVE  BizTypeOK'
  BY <1>0, <1>5 DEF PutEntry, BizTypeOK
<1>6. ASSUME NEW d \in Evidence, NEW scopes \in Selections, NEW n \in Clearances,
             NEW reason \in BOOLEAN, ConfigureEvidenceDocument(e, d, scopes, n, reason)
      PROVE  BizTypeOK'
  <2>0. scopes \in SUBSET Scopes /\ d \in Documents /\ EvidenceCategory \in Categories
    BY SelectionsAreScopes DEF Documents, Categories
  <2>1. resources' \in [Documents -> [category : Categories \cup {Nothing}, scopes : SUBSET Scopes,
                                      level : Clearances \cup {Nothing}, valid : BOOLEAN]]
    BY <1>6, <2>0 DEF ConfigureEvidenceDocument, BizTypeOK
  <2>2. docs' \in [Documents -> [status : {"none", "uploaded", "active", "archived"},
                                 intent : Employees \cup {Nothing}, place : Stores \cup {Nothing}]]
    <3>1. PICK i \in Employees \cup {Nothing} : docs' = [docs EXCEPT ![d].intent = i]
      BY <1>6, <2>0 DEF ConfigureEvidenceDocument, Retained, BizTypeOK
    <3>2. [docs[d] EXCEPT !.intent = i] \in
            [status : {"none", "uploaded", "active", "archived"},
             intent : Employees \cup {Nothing}, place : Stores \cup {Nothing}]
      BY <2>0 DEF BizTypeOK
    <3>3. docs' = [docs EXCEPT ![d] = [docs[d] EXCEPT !.intent = i]]
      BY <3>1
    <3>. QED  BY <2>0, <3>2, <3>3 DEF BizTypeOK
  <2>3. approved' \in [Documents -> SUBSET (Categories \X SUBSET Scopes)]
    BY <1>6, <2>0 DEF ConfigureEvidenceDocument, Approving, BizTypeOK
  <2>. QED  BY <1>0, <1>6, <2>1, <2>2, <2>3 DEF ConfigureEvidenceDocument, BizTypeOK
<1>7. ASSUME ActivateAuthorizationCutover
      PROVE  BizTypeOK'
  BY <1>0, <1>7 DEF ActivateAuthorizationCutover, BizTypeOK
<1>8. ASSUME SuspendAuthorizationReads
      PROVE  BizTypeOK'
  BY <1>0, <1>8 DEF SuspendAuthorizationReads, BizTypeOK
<1>. QED
  BY <1>1, <1>2, <1>3, <1>4, <1>5, <1>6, <1>7, <1>8 DEF AdminWrite

(* The types after a step of a document's life.                            *)
LEMMA DocumentStepType ==
  ASSUME BizTypeOK, BizNext, ~\E e \in Employees : Administer(e)
  PROVE  BizTypeOK'
<1>. DEFINE Docs == [status : {"none", "uploaded", "active", "archived"},
                     intent : Employees \cup {Nothing}, place : Stores \cup {Nothing}]
            Rows == [category : Categories \cup {Nothing}, scopes : SUBSET Scopes,
                     level : Clearances \cup {Nothing}, valid : BOOLEAN]
            Pairs == SUBSET (Categories \X SUBSET Scopes)
<1>1. ASSUME NEW e \in Employees, NEW d \in Evidence, NEW scopes \in Selections \cup {{}},
             NEW n \in Clearances, NEW reason \in BOOLEAN, UploadEvidence(e, d, scopes, n, reason)
      PROVE  BizTypeOK'
  <2>0. scopes \in SUBSET Scopes /\ d \in Documents /\ EvidenceCategory \in Categories
    BY SelectionsAreScopes DEF Documents, Categories
  <2>1. docs' \in [Documents -> Docs]
    BY <1>1, <2>0 DEF UploadEvidence, BizTypeOK
  <2>. DEFINE new == [category |-> EvidenceCategory, scopes |-> scopes, level |-> n, valid |-> FALSE]
              intent == IF reason THEN e ELSE Nothing
  <2>2. CASE UNCHANGED <<registry, resources, approved>>
    BY <1>1, <2>1, <2>2 DEF UploadEvidence, PublicationFrame, VersionMoves, BizTypeOK
  <2>3. CASE /\ registry' = Registered(EvidenceCategory, scopes)
             /\ resources' = [resources EXCEPT ![d] = new]
             /\ Approving(d, EvidenceCategory, scopes, intent)
    <3>1. new \in Rows
      BY <2>0
    <3>2. resources' \in [Documents -> Rows]
      BY <2>0, <2>3, <3>1 DEF BizTypeOK
    <3>3. approved' \in [Documents -> Pairs]
      BY <2>0, <2>3 DEF Approving, BizTypeOK
    <3>4. registry' \in [Entries -> {"none", "current", "retired"}]
      BY <2>3, RegisteredType DEF BizTypeOK
    <3>. QED  BY <1>1, <2>1, <3>2, <3>3, <3>4 DEF UploadEvidence, PublicationFrame, VersionMoves, BizTypeOK
  <2>. QED  BY <1>1, <2>2, <2>3 DEF UploadEvidence
<1>2. ASSUME NEW e \in Employees, NEW d \in Ledgers, NEW reason \in BOOLEAN, UploadLedger(e, d, reason)
      PROVE  BizTypeOK'
  <2>1. docs' \in [Documents -> Docs]
    BY <1>2 DEF UploadLedger, BizTypeOK, Documents
  <2>. QED  BY <1>2, <2>1 DEF UploadLedger, VersionKept, BizTypeOK
<1>3. ASSUME NEW e \in Employees, NEW d \in Photos, NEW place \in Stores, NEW reason \in BOOLEAN,
             UploadPhoto(e, d, place, reason)
      PROVE  BizTypeOK'
  <2>. DEFINE scopes == {[place |-> place, value |-> Nothing]}
              intent == IF reason THEN e ELSE Nothing
  <2>0. scopes \in SUBSET Scopes /\ d \in Documents /\ PhotoCategory \in Categories
    BY PlaceIsScope DEF Documents, Categories, FixedCategories
  <2>1. docs' \in [Documents -> Docs]
    BY <1>3, <2>0 DEF UploadPhoto, BizTypeOK
  <2>2. resources' \in [Documents -> Rows]
    <3>1. resources' = [resources EXCEPT ![d] =
                          [category |-> PhotoCategory, scopes |-> scopes, level |-> Nothing, valid |-> TRUE]]
      BY <1>3 DEF UploadPhoto
    <3>. HIDE DEF scopes
    <3>. QED  BY <2>0, <3>1 DEF BizTypeOK
  <2>3. approved' \in [Documents -> Pairs]
    <3>1. Approving(d, PhotoCategory, scopes, intent)
      BY <1>3 DEF UploadPhoto
    <3>. HIDE DEF scopes, intent
    <3>. QED  BY <2>0, <3>1 DEF Approving, BizTypeOK
  <2>4. registry' \in [Entries -> {"none", "current", "retired"}]
    BY <1>3, RegisteredType DEF UploadPhoto, BizTypeOK
  <2>5. UNCHANGED <<mode, rules, employees, writes>> /\ fresh' = {}
    BY <1>3 DEF UploadPhoto, PublicationFrame, VersionMoves
  <2>. QED  BY <2>1, <2>2, <2>3, <2>4, <2>5 DEF BizTypeOK
<1>4. ASSUME NEW e \in Employees, NEW d \in Documents, ArchiveDocument(e, d)
      PROVE  BizTypeOK'
  <2>1. docs' \in [Documents -> Docs]
    <3>0. docs[d] \in Docs
      BY DEF BizTypeOK
    <3>1. [docs[d] EXCEPT !.status = "archived"] \in Docs
      BY <3>0
    <3>2. docs' = [docs EXCEPT ![d] = [docs[d] EXCEPT !.status = "archived"]]
      BY <1>4 DEF ArchiveDocument
    <3>. QED  BY <3>1, <3>2 DEF BizTypeOK
  <2>. QED  BY <1>4, <2>1 DEF ArchiveDocument, VersionKept, BizTypeOK
<1>5. ASSUME NEW d \in Evidence, IndexEvidence(d)
      PROVE  BizTypeOK'
  <2>0. d \in Documents
    BY DEF Documents
  <2>1. docs' \in [Documents -> Docs]
    <3>1. [docs[d] EXCEPT !.status = "active"] \in Docs
      BY <2>0 DEF BizTypeOK
    <3>2. docs' = [docs EXCEPT ![d] = [docs[d] EXCEPT !.status = "active"]]
      BY <1>5 DEF IndexEvidence
    <3>. QED  BY <2>0, <3>1, <3>2 DEF BizTypeOK
  <2>2. resources' \in [Documents -> Rows]
    <3>. DEFINE v == resources[d] # NoResource
    <3>1. [resources[d] EXCEPT !.valid = v] \in Rows
      BY <2>0 DEF BizTypeOK
    <3>2. resources' = [resources EXCEPT ![d] = [resources[d] EXCEPT !.valid = v]]
      BY <1>5 DEF IndexEvidence
    <3>. QED  BY <2>0, <3>1, <3>2 DEF BizTypeOK
  <2>. QED  BY <1>5, <2>1, <2>2 DEF IndexEvidence, PublicationFrame, VersionMoves, BizTypeOK
<1>6. ASSUME NEW d \in Ledgers, NEW place \in Stores, NEW known \in BOOLEAN, ApplyLedger(d, place, known)
      PROVE  BizTypeOK'
  <2>. DEFINE scopes == SourceScopes(place, known)
  <2>0. scopes \in SUBSET Scopes /\ d \in Documents /\ LedgerCategory \in Categories
    BY PlaceIsScope DEF Documents, Categories, FixedCategories, SourceScopes
  <2>1. docs' \in [Documents -> Docs]
    <3>1. [docs[d] EXCEPT !.status = "active", !.place = place] \in Docs
      <4>. DEFINE S == {"none", "uploaded", "active", "archived"}
                  I == Employees \cup {Nothing}
                  P == Stores \cup {Nothing}
      <4>1. docs[d] \in [status : S, intent : I, place : P] /\ "active" \in S /\ place \in P
        BY <2>0 DEF BizTypeOK
      <4>. HIDE DEF S, I, P
      <4>2. [docs[d] EXCEPT !.status = "active", !.place = place] \in [status : S, intent : I, place : P]
        BY <4>1, DocumentUpdates
      <4>. QED  BY <4>2 DEF S, I, P
    <3>2. docs' = [docs EXCEPT ![d] = [docs[d] EXCEPT !.status = "active", !.place = place]]
      BY <1>6, <2>0 DEF ApplyLedger, BizTypeOK
    <3>. QED  BY <2>0, <3>1, <3>2 DEF BizTypeOK
  <2>2. resources' \in [Documents -> Rows]
    <3>1. \/ UNCHANGED resources
          \/ resources' = [resources EXCEPT ![d] =
                 [category |-> LedgerCategory, scopes |-> scopes, level |-> Nothing, valid |-> TRUE]]
      BY <1>6 DEF ApplyLedger
    <3>2. CASE UNCHANGED resources
      BY <3>2 DEF BizTypeOK
    <3>. DEFINE new == [category |-> LedgerCategory, scopes |-> scopes, level |-> Nothing, valid |-> TRUE]
    <3>. HIDE DEF scopes
    <3>3. new \in Rows
      BY <2>0
    <3>4. CASE resources' = [resources EXCEPT ![d] = new]
      BY <2>0, <3>3, <3>4 DEF BizTypeOK
    <3>. QED  BY <3>1, <3>2, <3>4
  <2>3. registry' \in [Entries -> {"none", "current", "retired"}]
    BY <1>6, RegisteredType DEF ApplyLedger, BizTypeOK
  <2>. QED  BY <1>6, <2>1, <2>2, <2>3 DEF ApplyLedger, PublicationFrame, VersionMoves, BizTypeOK
<1>. QED
  BY <1>1, <1>2, <1>3, <1>4, <1>5, <1>6 DEF BizNext

(* The rows of authorization keep their types.                             *)
THEOREM BizTypeCorrect == BizSpec => []BizTypeOK
<1>1. BizInit => BizTypeOK
  BY BusinessConstants DEF BizInit, BizTypeOK, NoResource
<1>2. BizTypeOK /\ [BizNext]_bizVars => BizTypeOK'
  <2>. SUFFICES ASSUME BizTypeOK, [BizNext]_bizVars
                PROVE  BizTypeOK'
    OBVIOUS
  <2>1. ASSUME NEW e \in Employees, LoadPage(e)
        PROVE  BizTypeOK'
    BY <2>1 DEF LoadPage, BizTypeOK
  <2>2. CASE \E e \in Employees : Administer(e)
    BY <2>1, <2>2, AdminWriteType DEF Administer
  <2>3. CASE BizNext /\ ~\E e \in Employees : Administer(e)
    BY <2>3, DocumentStepType
  <2>4. CASE UNCHANGED bizVars
    BY <2>4 DEF bizVars, BizTypeOK
  <2>. QED  BY <2>2, <2>3, <2>4
<1>. QED  BY <1>1, <1>2, PTL DEF BizSpec

(***************************************************************************)
(* After the cutover                                                       *)
(***************************************************************************)

(* Complete attributes are attributes.                                     *)
LEMMA CompleteIsSome ==
  ASSUME NEW r, Complete(r)
  PROVE  r # NoResource
BY DEF Complete, NoResource

(* Whatever step is taken, a document served afterwards is classified.     *)
LEMMA ClassifiedStep ==
  ASSUME BizTypeOK, EnabledIsClassified, BizNext, mode' # "legacy",
         NEW x \in Documents, docs'[x].status = "active"
  PROVE  resources'[x] # NoResource
<1>0. mode # "legacy" /\ docs[x].status = "active" => resources[x] # NoResource
  BY DEF EnabledIsClassified
<1>1. ASSUME NEW e \in Employees, Administer(e)
      PROVE  resources'[x] # NoResource
  <2>1. CASE LoadPage(e)
    BY <1>0, <2>1 DEF LoadPage
  <2>2. CASE AdminWrite(e)
    <3>1. CASE ActivateAuthorizationCutover
      BY <3>1 DEF ActivateAuthorizationCutover, Ready
    <3>2. ASSUME NEW d \in Evidence, NEW scopes \in Selections, NEW n \in Clearances,
                 NEW reason \in BOOLEAN, ConfigureEvidenceDocument(e, d, scopes, n, reason)
          PROVE  resources'[x] # NoResource
      <4>. DEFINE new == [category |-> EvidenceCategory, scopes |-> scopes, level |-> n,
                          valid |-> docs[d].status = "active"]
      <4>1. resources' = [resources EXCEPT ![d] = new] /\ Complete(new)
        BY <3>2 DEF ConfigureEvidenceDocument
      <4>2. new # NoResource
        BY <4>1, CompleteIsSome
      <4>3. docs'[x].status = docs[x].status
        BY <3>2 DEF ConfigureEvidenceDocument, BizTypeOK
      <4>4. mode # "legacy"
        BY <3>2 DEF ConfigureEvidenceDocument
      <4>5. CASE x = d
        BY <4>1, <4>2, <4>5 DEF BizTypeOK
      <4>6. CASE x # d
        BY <1>0, <4>1, <4>3, <4>4, <4>6 DEF BizTypeOK
      <4>. QED  BY <4>5, <4>6
    <3>3. CASE \E t \in Employees, role \in {"admin", "employee"} : ConfigureAccountRole(e, t, role)
      BY <1>0, <3>3 DEF ConfigureAccountRole
    <3>4. CASE \E t \in Employees, n \in Clearances, gs \in GrantChoices : ConfigureAccount(t, n, gs)
      BY <1>0, <3>4 DEF ConfigureAccount
    <3>5. CASE \E c \in Categories, n \in Clearances \cup {Nothing}, req \in BOOLEAN,
                 state \in {"current", "retired"} : ConfigureCategory(c, n, req, state)
      BY <1>0, <3>5 DEF ConfigureCategory
    <3>6. CASE InitializeFixedCategories
      BY <1>0, <3>6 DEF InitializeFixedCategories
    <3>7. CASE \E y \in Stores \cup Values, state \in {"current", "retired"} : PutEntry(y, state)
      BY <1>0, <3>7 DEF PutEntry
    <3>8. CASE SuspendAuthorizationReads
      BY <1>0, <3>8 DEF SuspendAuthorizationReads
    <3>. QED  BY <2>2, <3>1, <3>2, <3>3, <3>4, <3>5, <3>6, <3>7, <3>8 DEF AdminWrite
  <2>. QED  BY <1>1, <2>1, <2>2 DEF Administer
<1>2. ASSUME NEW e \in Employees, NEW d \in Evidence, NEW scopes, NEW n, NEW reason,
             UploadEvidence(e, d, scopes, n, reason)
      PROVE  resources'[x] # NoResource
  <2>1. x # d /\ docs'[x].status = docs[x].status
    BY <1>2 DEF UploadEvidence, BizTypeOK
  <2>2. resources'[x] = resources[x] /\ mode' = mode
    BY <1>2, <2>1 DEF UploadEvidence, PublicationFrame, BizTypeOK
  <2>. QED  BY <1>0, <2>1, <2>2
<1>3. ASSUME NEW e \in Employees, NEW d \in Ledgers, NEW reason, UploadLedger(e, d, reason)
      PROVE  resources'[x] # NoResource
  <2>1. docs'[x].status = docs[x].status
    BY <1>3 DEF UploadLedger, BizTypeOK
  <2>. QED  BY <1>0, <1>3, <2>1 DEF UploadLedger
<1>4. ASSUME NEW e \in Employees, NEW d \in Photos, NEW place \in Stores, NEW reason,
             UploadPhoto(e, d, place, reason)
      PROVE  resources'[x] # NoResource
  <2>. DEFINE new == [category |-> PhotoCategory, scopes |-> {[place |-> place, value |-> Nothing]},
                      level |-> Nothing, valid |-> TRUE]
  <2>1. new # NoResource
    BY DEF NoResource
  <2>2. resources' = [resources EXCEPT ![d] = new] /\ mode' = mode
    BY <1>4 DEF UploadPhoto, PublicationFrame
  <2>. HIDE DEF new
  <2>3. CASE x = d
    BY <2>1, <2>2, <2>3 DEF BizTypeOK
  <2>4. CASE x # d
    <3>1. docs'[x].status = docs[x].status
      BY <1>4, <2>4 DEF UploadPhoto, BizTypeOK
    <3>. QED  BY <1>0, <2>2, <2>4, <3>1 DEF BizTypeOK
  <2>. QED  BY <2>3, <2>4
<1>5. ASSUME NEW e \in Employees, NEW d \in Documents, ArchiveDocument(e, d)
      PROVE  resources'[x] # NoResource
  <2>1. docs'[x].status = docs[x].status
    BY <1>5 DEF ArchiveDocument, BizTypeOK
  <2>. QED  BY <1>0, <1>5, <2>1 DEF ArchiveDocument
<1>6. ASSUME NEW d \in Evidence, IndexEvidence(d)
      PROVE  resources'[x] # NoResource
  <2>1. mode = "enabled" /\ Complete(resources[d])
    BY <1>6 DEF IndexEvidence, Publishable, PublicationFrame, BizTypeOK
  <2>2. resources[d] # NoResource /\ resources[d].scopes # {}
    BY <2>1, CompleteIsSome DEF Complete
  <2>3. resources' = [resources EXCEPT ![d].valid = TRUE]
    BY <1>6, <2>2 DEF IndexEvidence
  <2>4. CASE x = d
    <3>1. resources'[d].scopes # {}
      BY <2>2, <2>3 DEF BizTypeOK, Documents
    <3>. QED  BY <2>4, <3>1 DEF NoResource
  <2>5. CASE x # d
    <3>1. docs'[x].status = docs[x].status
      BY <1>6, <2>5 DEF IndexEvidence, BizTypeOK
    <3>. QED  BY <1>0, <2>1, <2>3, <2>5, <3>1 DEF BizTypeOK
  <2>. QED  BY <2>4, <2>5
<1>7. ASSUME NEW d \in Ledgers, NEW place \in Stores, NEW known \in BOOLEAN, ApplyLedger(d, place, known)
      PROVE  resources'[x] # NoResource
  <2>. DEFINE new == [category |-> LedgerCategory, scopes |-> SourceScopes(place, known),
                      level |-> Nothing, valid |-> TRUE]
  <2>1. mode = "enabled" /\ Complete(new)
    BY <1>7 DEF ApplyLedger, Publishable, PublicationFrame, BizTypeOK
  <2>2. new # NoResource
    BY <2>1, CompleteIsSome
  <2>3. resources' = [resources EXCEPT ![d] = new]
    BY <1>7, <2>1 DEF ApplyLedger
  <2>. HIDE DEF new
  <2>4. CASE x = d
    BY <2>2, <2>3, <2>4 DEF BizTypeOK
  <2>5. CASE x # d
    <3>1. docs'[x].status = docs[x].status
      BY <1>7, <2>5 DEF ApplyLedger, BizTypeOK
    <3>. QED  BY <1>0, <2>1, <2>3, <2>5, <3>1 DEF BizTypeOK
  <2>. QED  BY <2>4, <2>5
<1>. QED  BY <1>1, <1>2, <1>3, <1>4, <1>5, <1>6, <1>7 DEF BizNext

(* inspectCutoverInventory and requirePublicationAttributes: after the     *)
(* cutover everything served is classified, also what was on its way.      *)
THEOREM ServedIsClassified == BizSpec => []EnabledIsClassified
<1>1. BizInit => EnabledIsClassified
  BY DEF BizInit, EnabledIsClassified
<1>2. BizTypeOK /\ EnabledIsClassified /\ [BizNext]_bizVars => EnabledIsClassified'
  <2>1. BizTypeOK /\ EnabledIsClassified /\ BizNext => EnabledIsClassified'
    BY ClassifiedStep DEF EnabledIsClassified
  <2>2. EnabledIsClassified /\ UNCHANGED bizVars => EnabledIsClassified'
    BY DEF EnabledIsClassified, bizVars
  <2>. QED  BY <2>1, <2>2
<1>. QED  BY <1>1, <1>2, BizTypeCorrect, PTL DEF BizSpec

(***************************************************************************)
(* The version                                                             *)
(***************************************************************************)

(* When nothing that decides about reading changes but the status of       *)
(* documents that are not served afterwards, nobody reads more.            *)
LEMMA SameRulesSameReaders ==
  ASSUME UNCHANGED <<mode, registry, rules, employees, resources>>,
         NEW e, NEW d, docs'[d].status = "active" => docs[d].status = "active",
         CanRead(e, d)'
  PROVE  CanRead(e, d)
<1>. DEFINE r == resources[d]
            needed == IF r.category = EvidenceCategory THEN r.level ELSE rules[r.category].level
<1>1. mode = "enabled" /\ r.valid /\ docs[d].status = "active"
  BY DEF CanRead
<1>2. Complete(r)
  BY DEF CanRead, Complete, ValidScope
<1>3. needed \in Clearances /\ employees[e].clearance >= needed
  BY DEF CanRead
<1>4. ASSUME NEW g
      PROVE  ValidGrant(g)' <=> ValidGrant(g)
  BY DEF ValidGrant
<1>5. ASSUME NEW s \in r.scopes
      PROVE  \E g \in employees[e].grants : Covers(g, s, r.category)
  <2>1. PICK g \in employees[e].grants : Covers(g, s, r.category)'
    BY <1>5 DEF CanRead
  <2>2. Covers(g, s, r.category)
    BY <2>1, <1>4 DEF Covers
  <2>. QED  BY <2>2
<1>. QED  BY <1>1, <1>2, <1>3, <1>5 DEF CanRead

(* mutate and lockAuthorizationPublication: no step lets anybody read more *)
(* without moving the version every saved page is compared with.           *)
THEOREM NoSilentWidening == BizSpec => WideningIsVersioned
<1>. DEFINE Widened == \E e \in Employees, d \in Documents : CanRead(e, d)' /\ ~CanRead(e, d)
<1>1. BizTypeOK /\ [BizNext]_bizVars => [Widened => fresh' = {}]_bizVars
  <2>. SUFFICES ASSUME BizTypeOK, BizNext, fresh' # {}, NEW e \in Employees, NEW d \in Documents,
                       CanRead(e, d)'
                PROVE  CanRead(e, d)
    OBVIOUS
  <2>1. CASE \E a \in Employees : LoadPage(a)
    BY <2>1, SameRulesSameReaders DEF LoadPage
  <2>2. CASE \E a \in Employees, l \in Ledgers, reason \in BOOLEAN : UploadLedger(a, l, reason)
    <3>1. docs'[d].status = "active" => docs[d].status = "active"
      BY <2>2 DEF UploadLedger, BizTypeOK
    <3>. QED  BY <2>2, <3>1, SameRulesSameReaders DEF UploadLedger
  <2>3. CASE \E a \in Employees, x \in Documents : ArchiveDocument(a, x)
    <3>1. docs'[d].status = "active" => docs[d].status = "active"
      BY <2>3 DEF ArchiveDocument, BizTypeOK
    <3>. QED  BY <2>3, <3>1, SameRulesSameReaders DEF ArchiveDocument
  <2>4. CASE \E a \in Employees : AdminWrite(a)
    BY <2>4 DEF AdminWrite, Mutate, VersionMoves
  <2>5. ASSUME NEW a, NEW x, NEW scopes, NEW n, NEW reason, UploadEvidence(a, x, scopes, n, reason)
        PROVE  FALSE
    BY <2>5 DEF UploadEvidence, PublicationFrame, VersionMoves
  <2>6. ASSUME NEW a, NEW x, NEW place, NEW reason, UploadPhoto(a, x, place, reason)
        PROVE  FALSE
    BY <2>6 DEF UploadPhoto, PublicationFrame, VersionMoves
  <2>7. ASSUME NEW x, IndexEvidence(x)
        PROVE  FALSE
    BY <2>7 DEF IndexEvidence, PublicationFrame, VersionMoves
  <2>8. ASSUME NEW x, NEW place, NEW known, ApplyLedger(x, place, known)
        PROVE  FALSE
    BY <2>8 DEF ApplyLedger, PublicationFrame, VersionMoves
  <2>. QED
    BY <2>1, <2>2, <2>3, <2>4, <2>5, <2>6, <2>7, <2>8 DEF BizNext, Administer
<1>2. BizSpec => [][Widened => fresh' = {}]_bizVars
  BY <1>1, BizTypeCorrect, PTL DEF BizSpec
<1>. QED  BY <1>2 DEF WideningIsVersioned


(***************************************************************************)
(* Approvals                                                               *)
(***************************************************************************)

(* A pending approval is one of the selection the document has now.        *)
IntentApproved ==
  \A d \in Evidence :
    docs[d].intent # Nothing => <<resources[d].category, resources[d].scopes>> \in approved[d]

(* Publishing d under a retired entry takes an administrator's approval.   *)
PublishesApproved(d) ==
  LET r == resources'[d] IN
  /\ Published(d)'
  /\ ~Published(d) \/ resources[d].scopes # r.scopes
  /\ Retired(registry, r.category, r.scopes)
  => /\ <<r.category, r.scopes>> \in approved'[d]
     /\ docs'[d].intent # Nothing /\ IsAdmin(docs'[d].intent)

(* A document whose selection and intent stay and that is not published    *)
(* anew.                                                                   *)
LEMMA SelectionStays ==
  ASSUME IntentApproved, NEW d \in Evidence,
         docs'[d].intent = docs[d].intent,
         resources'[d].category = resources[d].category,
         resources'[d].scopes = resources[d].scopes,
         approved[d] \subseteq approved'[d],
         docs'[d].status = "active" /\ resources'[d].valid =>
           docs[d].status = "active" /\ resources[d].valid
  PROVE  /\ docs'[d].intent # Nothing =>
              <<resources'[d].category, resources'[d].scopes>> \in approved'[d]
         /\ PublishesApproved(d)
BY DEF IntentApproved, PublishesApproved, Published

(* A document that another one's step leaves alone.                        *)
LEMMA OtherDocument ==
  ASSUME IntentApproved, NEW d \in Evidence,
         docs'[d].intent = docs[d].intent,
         docs'[d].status = "active" => docs[d].status = "active",
         resources'[d] = resources[d],
         approved[d] \subseteq approved'[d]
  PROVE  /\ docs'[d].intent # Nothing =>
              <<resources'[d].category, resources'[d].scopes>> \in approved'[d]
         /\ PublishesApproved(d)
BY SelectionStays

(* Recording an approval takes none back.                                  *)
LEMMA ApprovingAdds ==
  ASSUME BizTypeOK, NEW x \in Documents, NEW c, NEW scopes, NEW intent, Approving(x, c, scopes, intent),
         NEW d \in Documents
  PROVE  /\ approved[d] \subseteq approved'[d]
         /\ x = d /\ intent # Nothing => <<c, scopes>> \in approved'[d]
BY DEF Approving, BizTypeOK

(* Every step keeps approvals with their selection and asks for one where  *)
(* it publishes under a retired entry.                                     *)
LEMMA ApprovalStep ==
  ASSUME BizTypeOK, IntentApproved, BizNext, NEW d \in Evidence
  PROVE  /\ docs'[d].intent # Nothing =>
              <<resources'[d].category, resources'[d].scopes>> \in approved'[d]
         /\ PublishesApproved(d)
<1>. DEFINE Goal == /\ docs'[d].intent # Nothing =>
                          <<resources'[d].category, resources'[d].scopes>> \in approved'[d]
                    /\ PublishesApproved(d)
<1>0. d \in Documents /\ d \notin Ledgers /\ d \notin Photos
  BY BusinessConstants DEF Documents
<1>1. CASE UNCHANGED <<docs, resources, approved>>
  BY <1>1, OtherDocument
<1>2. ASSUME NEW e \in Employees, NEW x \in Evidence, NEW scopes \in Selections, NEW n \in Clearances,
             NEW reason \in BOOLEAN, ConfigureEvidenceDocument(e, x, scopes, n, reason)
      PROVE  Goal
  <2>. DEFINE intent == IF reason THEN e ELSE Nothing
              new == [category |-> EvidenceCategory, scopes |-> scopes, level |-> n,
                      valid |-> docs[x].status = "active"]
              unchanged == /\ resources[x].category = EvidenceCategory
                           /\ resources[x].scopes = scopes
                           /\ resources[x].valid = (docs[x].status = "active")
  <2>0. x \in Documents
    BY DEF Documents
  <2>1. /\ resources' = [resources EXCEPT ![x] = new]
        /\ docs' = [docs EXCEPT ![x].intent = Retained(x, intent, unchanged)]
        /\ Approving(x, EvidenceCategory, scopes, intent)
        /\ Eligible(registry, EvidenceCategory, scopes, unchanged, intent)
    BY <1>2 DEF ConfigureEvidenceDocument
  <2>2. CASE x # d
    <3>1. docs'[d] = docs[d] /\ resources'[d] = resources[d]
      BY <1>0, <2>1, <2>2 DEF BizTypeOK
    <3>2. approved[d] \subseteq approved'[d]
      BY <1>0, <2>0, <2>1, ApprovingAdds
    <3>. QED  BY <3>1, <3>2, OtherDocument
  <2>3. CASE x = d
    <3>1. /\ resources'[d].category = EvidenceCategory /\ resources'[d].scopes = scopes
          /\ resources'[d].valid = (docs[d].status = "active")
      BY <1>0, <2>1, <2>3 DEF BizTypeOK
    <3>2. /\ docs'[d].intent = Retained(d, intent, unchanged)
          /\ docs'[d].status = docs[d].status
      BY <1>0, <2>1, <2>3 DEF BizTypeOK
    <3>3. approved[d] \subseteq approved'[d]
      BY <1>0, <2>1, <2>3, ApprovingAdds
    <3>4. intent # Nothing => <<EvidenceCategory, scopes>> \in approved'[d]
      BY <1>0, <2>1, <2>3, ApprovingAdds
    <3>. HIDE DEF intent
    <3>5. CASE intent # Nothing
      <4>1. docs'[d].intent = intent
        BY <3>2, <3>5 DEF Retained
      <4>2. IsAdmin(intent)
        BY <2>1, <3>5 DEF Eligible
      <4>. QED  BY <3>1, <3>4, <3>5, <4>1, <4>2 DEF PublishesApproved
    <3>6. CASE intent = Nothing /\ ~unchanged
      <4>1. docs'[d].intent = Nothing
        BY <3>2, <3>6, <2>3 DEF Retained
      <4>2. ~Retired(registry, EvidenceCategory, scopes)
        BY <2>1, <3>6 DEF Eligible
      <4>. QED  BY <3>1, <4>1, <4>2 DEF PublishesApproved
    <3>7. CASE intent = Nothing /\ unchanged
      <4>1. docs'[d].intent = docs[d].intent
        BY <3>2, <3>7, <2>3 DEF Retained
      <4>. QED  BY <2>3, <3>1, <3>2, <3>3, <3>7, <4>1, SelectionStays
    <3>. QED  BY <3>5, <3>6, <3>7
  <2>. QED  BY <2>2, <2>3
<1>3. ASSUME NEW e \in Employees, Administer(e)
      PROVE  Goal
  BY <1>1, <1>2, <1>3 DEF Administer, LoadPage, AdminWrite, ConfigureAccountRole, ConfigureAccount,
     ConfigureCategory, InitializeFixedCategories, PutEntry, ActivateAuthorizationCutover,
     SuspendAuthorizationReads
<1>4. ASSUME NEW e \in Employees, NEW x \in Evidence, NEW scopes \in Selections \cup {{}},
             NEW n \in Clearances, NEW reason \in BOOLEAN, UploadEvidence(e, x, scopes, n, reason)
      PROVE  Goal
  <2>. DEFINE intent == IF reason THEN e ELSE Nothing
              new == [category |-> EvidenceCategory, scopes |-> scopes, level |-> n, valid |-> FALSE]
  <2>0. x \in Documents
    BY DEF Documents
  <2>1. docs' = [docs EXCEPT ![x] = [status |-> "uploaded", intent |-> intent, place |-> Nothing]]
    BY <1>4 DEF UploadEvidence
  <2>2. \/ ~reason /\ UNCHANGED <<resources, approved>>
        \/ resources' = [resources EXCEPT ![x] = new] /\ Approving(x, EvidenceCategory, scopes, intent)
    BY <1>4 DEF UploadEvidence
  <2>3. approved[d] \subseteq approved'[d]
    BY <1>0, <2>0, <2>2, ApprovingAdds
  <2>4. CASE x # d
    <3>1. docs'[d] = docs[d] /\ resources'[d] = resources[d]
      BY <1>0, <2>1, <2>2, <2>4 DEF BizTypeOK
    <3>. QED  BY <2>3, <3>1, OtherDocument
  <2>5. CASE x = d
    <3>1. docs'[d].status = "uploaded" /\ docs'[d].intent = intent
      BY <1>0, <2>1, <2>5 DEF BizTypeOK
    <3>2. PublishesApproved(d)
      BY <3>1 DEF PublishesApproved, Published
    <3>3. CASE ~reason
      BY <3>1, <3>2, <3>3
    <3>4. CASE reason
      <4>1. resources'[d].category = EvidenceCategory /\ resources'[d].scopes = scopes
        BY <1>0, <2>2, <2>5, <3>4 DEF BizTypeOK
      <4>2. intent # Nothing => <<EvidenceCategory, scopes>> \in approved'[d]
        BY <1>0, <2>2, <2>5, <3>4, ApprovingAdds
      <4>. QED  BY <3>1, <3>2, <4>1, <4>2
    <3>. QED  BY <3>3, <3>4
  <2>. QED  BY <2>4, <2>5
<1>5. ASSUME NEW x \in Evidence, IndexEvidence(x)
      PROVE  Goal
  <2>. DEFINE r == resources[x]
  <2>0. x \in Documents
    BY DEF Documents
  <2>1. /\ docs' = [docs EXCEPT ![x].status = "active"]
        /\ resources' = [resources EXCEPT ![x].valid = (r # NoResource)]
        /\ approved' = approved
        /\ r # NoResource => Eligible(registry, r.category, r.scopes, FALSE, docs[x].intent)
    BY <1>5 DEF IndexEvidence
  <2>2. CASE x # d
    <3>1. docs'[d] = docs[d] /\ resources'[d] = resources[d]
      BY <1>0, <2>1, <2>2 DEF BizTypeOK
    <3>. QED  BY <2>1, <3>1, OtherDocument
  <2>3. CASE x = d
    <3>1. /\ docs'[d].intent = docs[d].intent
          /\ resources'[d].category = r.category /\ resources'[d].scopes = r.scopes
          /\ resources'[d].valid = (r # NoResource)
      BY <1>0, <2>1, <2>3 DEF BizTypeOK
    <3>2. docs'[d].intent # Nothing =>
            <<resources'[d].category, resources'[d].scopes>> \in approved'[d]
      BY <2>1, <2>3, <3>1 DEF IntentApproved
    <3>3. ASSUME r # NoResource, Retired(registry, r.category, r.scopes)
          PROVE  docs[d].intent # Nothing /\ IsAdmin(docs[d].intent)
      BY <2>1, <2>3, <3>3 DEF Eligible
    <3>. QED  BY <3>1, <3>2, <3>3, <2>3 DEF PublishesApproved, Published
  <2>. QED  BY <2>2, <2>3
<1>6. ASSUME NEW e \in Employees, NEW x \in Documents, ArchiveDocument(e, x)
      PROVE  Goal
  <2>1. /\ docs'[d].intent = docs[d].intent
        /\ docs'[d].status = "active" => docs[d].status = "active"
    BY <1>0, <1>6 DEF ArchiveDocument, BizTypeOK
  <2>. QED  BY <1>6, <2>1, OtherDocument DEF ArchiveDocument
<1>7. ASSUME NEW e \in Employees, NEW x \in Ledgers, NEW reason \in BOOLEAN, UploadLedger(e, x, reason)
      PROVE  Goal
  <2>1. docs'[d] = docs[d]
    BY <1>0, <1>7 DEF UploadLedger, BizTypeOK
  <2>. QED  BY <1>7, <2>1, OtherDocument DEF UploadLedger
<1>8. ASSUME NEW e \in Employees, NEW x \in Photos, NEW place \in Stores, NEW reason \in BOOLEAN,
             UploadPhoto(e, x, place, reason)
      PROVE  Goal
  <2>1. x \in Documents
    BY DEF Documents
  <2>2. docs'[d] = docs[d] /\ resources'[d] = resources[d]
    BY <1>0, <1>8 DEF UploadPhoto, BizTypeOK
  <2>3. approved[d] \subseteq approved'[d]
    BY <1>0, <1>8, <2>1, ApprovingAdds DEF UploadPhoto
  <2>. QED  BY <2>2, <2>3, OtherDocument
<1>9. ASSUME NEW x \in Ledgers, NEW place \in Stores, NEW known \in BOOLEAN, ApplyLedger(x, place, known)
      PROVE  Goal
  <2>1. docs'[d] = docs[d] /\ resources'[d] = resources[d] /\ approved' = approved
    BY <1>0, <1>9 DEF ApplyLedger, BizTypeOK
  <2>. QED  BY <2>1, OtherDocument
<1>. QED  BY <1>3, <1>4, <1>5, <1>6, <1>7, <1>8, <1>9 DEF BizNext

(* requireCurrentDirectoryEligibility and configureEvidenceDocument: an    *)
(* approval never serves a selection it was not given for, whatever is     *)
(* retired, revoked or configured anew while the document is indexed.      *)
THEOREM RetiredIsApproved == BizSpec => ApprovalCoversSelection
<1>1. BizInit => IntentApproved
  BY DEF BizInit, IntentApproved, Documents
<1>2. BizTypeOK /\ IntentApproved /\ [BizNext]_bizVars => IntentApproved'
  <2>1. BizTypeOK /\ IntentApproved /\ BizNext => IntentApproved'
    BY ApprovalStep DEF IntentApproved
  <2>2. IntentApproved /\ UNCHANGED bizVars => IntentApproved'
    BY DEF IntentApproved, bizVars
  <2>. QED  BY <2>1, <2>2
<1>3. BizTypeOK /\ IntentApproved /\ [BizNext]_bizVars =>
        [\A d \in Evidence : PublishesApproved(d)]_bizVars
  BY ApprovalStep
<1>. DEFINE A == \A d \in Evidence : PublishesApproved(d)
<1>4. BizSpec => [][A]_bizVars
  BY <1>1, <1>2, <1>3, BizTypeCorrect, PTL DEF BizSpec
<1>. QED  BY <1>4 DEF PublishesApproved, ApprovalCoversSelection

-----------------------------------------------------------------------------
(* The launcher's session *)

(***************************************************************************)
(* A new lock file is told from every file that is remembered: there is    *)
(* one identity more than processes, and each remembers one file at most,  *)
(* the one it holds or the one it suspects.                                *)
(***************************************************************************)
IdsOK ==
    \A p \in Procs :
        /\ proc[p].at \in {"idle", "locking", "reclaim", "remove"} => proc[p].mine = NoLock
        /\ proc[p].at \notin {"reclaim", "remove"} => proc[p].seen = NoLock

(* A refresh is waited for by the process that asked, one each.            *)
WireOK ==
    /\ \A q \in wire : q.to \in Procs => proc[q.to].at = "refresh"
    /\ \A q, r \in wire : q.to \in Procs /\ q.to = r.to => q = r

LEMMA FreshIdIsNew ==
    ASSUME TypeOK, IdsOK
    PROVE  FreshId \in LockIds /\ \A p \in Procs : proc[p].seen # FreshId /\ proc[p].mine # FreshId
<1>. DEFINE h == [p \in Procs |-> IF proc[p].mine # NoLock THEN proc[p].mine ELSE proc[p].seen]
            T == {h[p] : p \in Procs}
<1>1. h \in Surjection(Procs, T)
  BY DEF Surjection
<1>2. IsFiniteSet(T) /\ Cardinality(T) <= Cardinality(Procs)
  <2>. HIDE DEF h, T
  <2>. QED  BY <1>1, FS_Surjection, BoundsAssumption
<1>3. Cardinality(Procs) \in Nat /\ Cardinality(T) \in Nat
  <2>. HIDE DEF T
  <2>. QED  BY <1>2, FS_CardinalityType, BoundsAssumption
<1>4. Cardinality(LockIds) = Cardinality(Procs) + 1
  <2>1. Cardinality(1..(Cardinality(Procs) + 1)) =
        IF 1 > Cardinality(Procs) + 1 THEN 0 ELSE (Cardinality(Procs) + 1) - 1 + 1
    BY <1>3, FS_Interval
  <2>. QED  BY <1>3, <2>1 DEF LockIds
<1>5. ~(LockIds \subseteq T)
  <2>. HIDE DEF T
  <2>1. SUFFICES ASSUME LockIds \subseteq T
                 PROVE  FALSE
    OBVIOUS
  <2>2. Cardinality(LockIds) <= Cardinality(T)
    BY <1>2, <2>1, FS_Subset
  <2>. QED  BY <1>2, <1>3, <1>4, <2>2
<1>6. PICK i \in LockIds : i \notin T
  BY <1>5
<1>7. i # NoLock
  BY <1>3, <1>6 DEF LockIds, NoLock
<1>8. \A p \in Procs : proc[p].seen # i /\ proc[p].mine # i
  <2>1. ASSUME NEW p \in Procs
        PROVE  proc[p].mine = NoLock \/ proc[p].seen = NoLock
    BY DEF IdsOK
  <2>2. ASSUME NEW p \in Procs
        PROVE  h[p] # i
    BY <1>6
  <2>. QED  BY <1>7, <2>1, <2>2
<1>. QED  BY <1>8 DEF FreshId

(* The range of a process: what a step makes of one.                       *)
LEMMA ProcStep ==
    ASSUME proc \in [Procs -> Processes], IdsOK,
           NEW p \in Procs, NEW y \in Processes, proc' = [proc EXCEPT ![p] = y],
           y.at \in {"idle", "locking", "reclaim", "remove"} => y.mine = NoLock,
           y.at \notin {"reclaim", "remove"} => y.seen = NoLock
    PROVE  proc' \in [Procs -> Processes] /\ IdsOK'
<1>1. proc' \in [Procs -> Processes]
  OBVIOUS
<1>2. IdsOK'
  <2>1. ASSUME NEW r \in Procs
        PROVE  proc'[r] = IF r = p THEN y ELSE proc[r]
    OBVIOUS
  <2>. QED  BY <2>1 DEF IdsOK
<1>. QED  BY <1>1, <1>2

LEMMA ProcAt ==
    ASSUME proc \in [Procs -> Processes], NEW p \in Procs
    PROVE  /\ proc[p] \in Processes
           /\ proc[p].mine \in LockIds \cup {NoLock} /\ proc[p].seen \in LockIds \cup {NoLock}
           /\ proc[p].held \in Credentials \cup {None} /\ proc[p].token \in Credentials \cup {None}
           /\ proc[p].want \in Wants
  BY DEF Processes

(* Ending a family keeps the types of the rows.                            *)
LEMMA RevokeRows ==
    ASSUME TypeOK, NEW f \in Families, NEW s \in {"revoked", "expired"}, RevokeSessionFamily(f, s)
    PROVE  /\ session' \in [Families -> {"none", "active", "revoked", "expired"}]
           /\ cred' \in [Families -> [Gens -> {"none", "active", "consumed", "revoked"}]]
  BY DEF TypeOK, RevokeSessionFamily

LEMMA CreateRows ==
    ASSUME TypeOK, NEW f \in Families, CreateFamily(f)
    PROVE  /\ session' \in [Families -> {"none", "active", "revoked", "expired"}]
           /\ cred' \in [Families -> [Gens -> {"none", "active", "consumed", "revoked"}]]
           /\ [f |-> f, g |-> 1] \in Credentials
  BY BoundsAssumption DEF TypeOK, CreateFamily, Gens, Credentials

(* The next generation of a credential that may still be refreshed.        *)
LEMMA NextGeneration ==
    ASSUME TypeOK, NEW c \in Credentials, Rotate(c)
    PROVE  /\ [c EXCEPT !.g = @ + 1] \in Credentials
           /\ [c EXCEPT !.g = @ + 1].f = c.f /\ [c EXCEPT !.g = @ + 1].g = c.g + 1
           /\ cred' \in [Families -> [Gens -> {"none", "active", "consumed", "revoked"}]]
           /\ cred'[c.f][c.g + 1] = "active"
           /\ \A f \in Families : f # c.f => cred'[f] = cred[f]
<1>1. c.f \in Families /\ c.g \in 1..MaxGen /\ c.g + 1 \in 1..MaxGen /\ c.g < MaxGen
  BY BoundsAssumption DEF Credentials, Gens, Rotate
<1>2. PICK n \in Gens : n = c.g + 1 /\ n # c.g
  BY <1>1, BoundsAssumption DEF Gens
<1>3. c = [f |-> c.f, g |-> c.g]
  BY DEF Credentials
<1>4. [c EXCEPT !.g = @ + 1] = [f |-> c.f, g |-> n]
  BY <1>2, <1>3
<1>5. cred' = [cred EXCEPT ![c.f] = [cred[c.f] EXCEPT ![c.g] = "consumed", ![n] = "active"]]
  BY <1>1, <1>2 DEF Rotate, TypeOK
<1>. QED  BY <1>1, <1>2, <1>4, <1>5 DEF TypeOK, Credentials, Gens

(***************************************************************************)
(* What reading the record under the lock makes of the process, and what   *)
(* an answer of the API makes of the one that waits for it.                *)
(***************************************************************************)
ReadAs(p, y) ==
    /\ proc' = [proc EXCEPT ![p] = y]
    /\ y.mine = proc[p].mine /\ y.seen = proc[p].seen /\ y.want = proc[p].want
    /\ \/ y.at = "release" /\ y.want = "token" /\ wire' = wire
       \/ y.at \in {"delete", "revoke"} /\ y.want \in {"logout", "invalidate"} /\ wire' = wire
       \/ y.at = "store" /\ y.want = "establish" /\ y.held = proc[p].held /\ wire' = wire
       \/ /\ y.at = "refresh" /\ y.want = "token" /\ y.held = record /\ record # None
          /\ wire' = wire \cup {[to |-> p, c |-> record, read |-> FALSE]}

LEMMA RecordIsRead ==
    ASSUME TypeOK, NEW p \in Procs, ReadRecord(p)
    PROVE  \E y \in Processes : ReadAs(p, y)
<1>n. proc[p] \in Processes
  BY DEF TypeOK
<1>1. CASE proc[p].want = "token" /\ record = None
  <2>1. proc' = [proc EXCEPT ![p] = [proc[p] EXCEPT !.at = "release", !.token = None]]
    BY <1>1 DEF ReadRecord
  <2>2. wire' = wire
    BY <1>1 DEF ReadRecord
  <2>3. [proc[p] EXCEPT !.at = "release", !.token = None] \in Processes
    BY <1>n DEF Processes
  <2>. QED  BY <1>1, <1>n, <2>1, <2>2, <2>3 DEF Processes, ReadAs
<1>2. CASE proc[p].want = "token" /\ record # None /\ proc[p].token = record
  <2>1. proc' = [proc EXCEPT ![p] = [proc[p] EXCEPT !.at = "release"]]
    BY <1>2 DEF ReadRecord, Goto
  <2>2. wire' = wire
    BY <1>2 DEF ReadRecord
  <2>3. [proc[p] EXCEPT !.at = "release"] \in Processes
    BY <1>n DEF Processes
  <2>. QED  BY <1>2, <1>n, <2>1, <2>2, <2>3 DEF Processes, ReadAs
<1>3. CASE proc[p].want = "token" /\ record # None /\ proc[p].token # record
  <2>1. proc' = [proc EXCEPT ![p] = [proc[p] EXCEPT !.at = "refresh", !.held = record]]
    BY <1>3 DEF ReadRecord
  <2>2. wire' = wire \cup {[to |-> p, c |-> record, read |-> FALSE]}
    BY <1>3 DEF ReadRecord
  <2>3. [proc[p] EXCEPT !.at = "refresh", !.held = record] \in Processes
    BY <1>n DEF Processes, TypeOK
  <2>. DEFINE y == [proc[p] EXCEPT !.at = "refresh", !.held = record]
  <2>4. /\ y.mine = proc[p].mine /\ y.seen = proc[p].seen /\ y.want = proc[p].want
        /\ y.at = "refresh" /\ y.held = record
    BY <1>n DEF Processes
  <2>. HIDE DEF y
  <2>. QED  BY <1>3, <2>1, <2>2, <2>3, <2>4 DEF y, ReadAs
<1>4. CASE proc[p].want = "establish"
  <2>1. proc' = [proc EXCEPT ![p] = [proc[p] EXCEPT !.at = "store"]]
    BY <1>4 DEF ReadRecord, Goto
  <2>2. wire' = wire
    BY <1>4 DEF ReadRecord
  <2>3. [proc[p] EXCEPT !.at = "store"] \in Processes
    BY <1>n DEF Processes
  <2>. QED  BY <1>4, <1>n, <2>1, <2>2, <2>3 DEF Processes, ReadAs
<1>5. CASE proc[p].want = "logout"
  <2>. DEFINE at == IF record = None THEN "delete" ELSE "revoke"
  <2>0. at \in {"delete", "revoke"} /\ record \in Credentials \cup {None}
    BY DEF TypeOK
  <2>1. proc' = [proc EXCEPT ![p] = [proc[p] EXCEPT !.at = at, !.held = record, !.token = None]]
    BY <1>5 DEF ReadRecord
  <2>2. wire' = wire
    BY <1>5 DEF ReadRecord
  <2>. HIDE DEF at
  <2>3. [proc[p] EXCEPT !.at = at, !.held = record, !.token = None] \in Processes
    BY <1>n, <2>0 DEF Processes
  <2>. QED  BY <1>5, <1>n, <2>0, <2>1, <2>2, <2>3 DEF Processes, ReadAs
<1>6. CASE proc[p].want = "invalidate"
  <2>1. proc' = [proc EXCEPT ![p] = [proc[p] EXCEPT !.at = "delete", !.token = None]]
    BY <1>6 DEF ReadRecord
  <2>2. wire' = wire
    BY <1>6 DEF ReadRecord
  <2>3. [proc[p] EXCEPT !.at = "delete", !.token = None] \in Processes
    BY <1>n DEF Processes
  <2>. QED  BY <1>6, <1>n, <2>1, <2>2, <2>3 DEF Processes, ReadAs
<1>7. proc[p].want \in Wants
  BY <1>n DEF Processes
<1>. QED  BY <1>1, <1>2, <1>3, <1>4, <1>5, <1>6, <1>7 DEF Wants

LEMMA AnswerArrives ==
    ASSUME TypeOK, NEW q \in wire, NEW at \in {"store", "delete"},
           NEW held \in Credentials \cup {None}, Answered(q, at, held), q.to \in Procs
    PROVE  \E y \in Processes :
              /\ proc' = [proc EXCEPT ![q.to] = y]
              /\ y.at = at /\ y.held = held /\ y.want = proc[q.to].want
              /\ y.mine = proc[q.to].mine /\ y.seen = proc[q.to].seen
<1>. DEFINE y == [proc[q.to] EXCEPT !.at = at, !.held = held]
<1>1. proc[q.to] \in Processes
  BY DEF TypeOK
<1>2. proc' = [proc EXCEPT ![q.to] = y]
  <2>1. q.to # None
    BY BoundsAssumption
  <2>. QED  BY <2>1 DEF Answered
<1>3. at \in {"idle", "locking", "reclaim", "remove", "locked", "refresh", "store", "revoke", "delete", "release"}
  OBVIOUS
<1>4. y \in Processes
  BY <1>1, <1>3 DEF Processes
<1>5. /\ y.at = at /\ y.held = held /\ y.want = proc[q.to].want
      /\ y.mine = proc[q.to].mine /\ y.seen = proc[q.to].seen
  BY <1>1 DEF Processes
<1>. HIDE DEF y
<1>. QED  BY <1>2, <1>4, <1>5

(***************************************************************************)
(* Types, and what a process remembers of the lock file.                   *)
(***************************************************************************)
LEMMA LauncherTypeStep ==
    ASSUME TypeOK, IdsOK, WireOK, [Next]_vars
    PROVE  TypeOK' /\ IdsOK'
<1>. USE DEF Wants
<1>n. /\ proc \in [Procs -> Processes] /\ None \notin Procs
      /\ faults \in 0..MaxFaults /\ calls \in 0..MaxCalls /\ MaxFaults \in Nat /\ MaxCalls \in Nat
  BY BoundsAssumption DEF TypeOK
<1>b. /\ faults < MaxFaults => faults + 1 \in 0..MaxFaults
      /\ calls < MaxCalls => calls + 1 \in 0..MaxCalls
  BY <1>n
<1>w. wire \subseteq [to : Procs \cup {None}, c : Credentials, read : BOOLEAN]
  BY DEF TypeOK
<1>1. CASE UNCHANGED vars
  BY <1>1 DEF vars, TypeOK, IdsOK
<1>2. ASSUME NEW p \in Procs, Acquire(p)
      PROVE  TypeOK' /\ IdsOK'
  <2>. DEFINE y == [proc[p] EXCEPT !.at = "locked", !.mine = FreshId, !.seen = NoLock]
  <2>1. FreshId \in LockIds
    BY FreshIdIsNew
  <2>2. proc' = [proc EXCEPT ![p] = y]
    BY <1>2 DEF Acquire
  <2>3. y \in Processes /\ y.at = "locked" /\ y.seen = NoLock
    BY <1>n, <2>1 DEF Processes
  <2>4. proc' \in [Procs -> Processes] /\ IdsOK'
    <3>. HIDE DEF y
    <3>. QED  BY <1>n, <2>2, <2>3, ProcStep
  <2>5. lock' \in LockFile
    BY <1>2, <2>1 DEF Acquire, LockFile
  <2>. QED  BY <1>2, <2>4, <2>5 DEF Acquire, TypeOK
<1>3. ASSUME NEW p \in Procs, FindOrphan(p)
      PROVE  TypeOK' /\ IdsOK'
  <2>. DEFINE y == [proc[p] EXCEPT !.at = "reclaim", !.seen = lock.id]
  <2>1. lock.id \in LockIds
    BY <1>3 DEF TypeOK, FindOrphan, LockFile
  <2>2. proc' = [proc EXCEPT ![p] = y]
    BY <1>3 DEF FindOrphan
  <2>3. y \in Processes /\ y.at = "reclaim" /\ y.mine = NoLock
    BY <1>3, <1>n, <2>1 DEF Processes, FindOrphan, IdsOK
  <2>4. proc' \in [Procs -> Processes] /\ IdsOK'
    <3>. HIDE DEF y
    <3>. QED  BY <1>n, <2>2, <2>3, ProcStep
  <2>. QED  BY <1>3, <2>4 DEF FindOrphan, TypeOK
<1>4. ASSUME NEW p \in Procs, ClaimRecord(p)
      PROVE  TypeOK' /\ IdsOK'
  <2>1. CASE lock # None /\ lock.id = proc[p].seen
    <3>. DEFINE y == [proc[p] EXCEPT !.at = "remove"]
    <3>1. proc' = [proc EXCEPT ![p] = y]
      BY <1>4, <2>1 DEF ClaimRecord, Goto
    <3>2. y \in Processes /\ y.at = "remove" /\ y.mine = NoLock
      BY <1>4, <1>n DEF Processes, ClaimRecord, IdsOK
    <3>. HIDE DEF y
    <3>. QED  BY <1>n, <1>4, <3>1, <3>2, ProcStep DEF TypeOK, ClaimRecord
  <2>2. CASE ~(lock # None /\ lock.id = proc[p].seen)
    <3>. DEFINE y == [proc[p] EXCEPT !.at = "locking", !.seen = NoLock]
    <3>1. proc' = [proc EXCEPT ![p] = y]
      BY <1>4, <2>2 DEF ClaimRecord
    <3>2. y \in Processes /\ y.at = "locking" /\ y.seen = NoLock /\ y.mine = NoLock
      BY <1>4, <1>n DEF Processes, ClaimRecord, IdsOK
    <3>. HIDE DEF y
    <3>. QED  BY <1>n, <1>4, <3>1, <3>2, ProcStep DEF TypeOK, ClaimRecord
  <2>. QED  BY <2>1, <2>2
<1>5. ASSUME NEW p \in Procs, RemoveRecord(p)
      PROVE  TypeOK' /\ IdsOK'
  <2>. DEFINE y == [proc[p] EXCEPT !.at = "locking", !.seen = NoLock]
  <2>1. proc' = [proc EXCEPT ![p] = y]
    BY <1>5 DEF RemoveRecord
  <2>2. y \in Processes /\ y.at = "locking" /\ y.seen = NoLock /\ y.mine = NoLock
    BY <1>5, <1>n DEF Processes, RemoveRecord, IdsOK
  <2>. HIDE DEF y
  <2>. QED  BY <1>n, <1>5, <2>1, <2>2, ProcStep DEF TypeOK, RemoveRecord
<1>6. ASSUME NEW p \in Procs, GiveUp(p) \/ Release(p)
      PROVE  TypeOK' /\ IdsOK'
  <2>. DEFINE y == [Idle EXCEPT !.token = proc[p].token]
  <2>1. proc' = [proc EXCEPT ![p] = y]
    BY <1>6 DEF GiveUp, Release
  <2>2. y \in Processes /\ y.at = "idle" /\ y.seen = NoLock /\ y.mine = NoLock
    BY <1>n DEF Processes, Idle
  <2>3. proc' \in [Procs -> Processes] /\ IdsOK'
    <3>. HIDE DEF y
    <3>. QED  BY <1>n, <2>1, <2>2, ProcStep
  <2>4. lock' \in LockFile \cup {None}
    BY <1>6 DEF GiveUp, Release, TypeOK
  <2>. QED  BY <1>6, <2>3, <2>4 DEF TypeOK, GiveUp, Release
<1>7. ASSUME NEW p \in Procs, EnsureAccessToken(p)
      PROVE  TypeOK' /\ IdsOK'
  <2>. DEFINE y == [proc[p] EXCEPT !.at = "locking", !.want = "token"]
  <2>1. proc' = [proc EXCEPT ![p] = y]
    BY <1>7 DEF EnsureAccessToken
  <2>2. y \in Processes /\ y.at = "locking" /\ y.seen = NoLock /\ y.mine = NoLock
    BY <1>7, <1>n DEF Processes, EnsureAccessToken, IdsOK
  <2>. HIDE DEF y
  <2>. QED  BY <1>n, <1>7, <2>1, <2>2, ProcStep DEF TypeOK, EnsureAccessToken
<1>8. ASSUME NEW p \in Procs, TokenLapses(p)
      PROVE  TypeOK' /\ IdsOK'
  <2>. DEFINE y == [proc[p] EXCEPT !.token = None]
  <2>1. proc' = [proc EXCEPT ![p] = y]
    BY <1>8 DEF TokenLapses
  <2>2. y \in Processes /\ y.at = proc[p].at /\ y.seen = proc[p].seen /\ y.mine = proc[p].mine
    BY <1>n DEF Processes
  <2>3. /\ y.at \in {"idle", "locking", "reclaim", "remove"} => y.mine = NoLock
        /\ y.at \notin {"reclaim", "remove"} => y.seen = NoLock
    BY <2>2 DEF IdsOK
  <2>. HIDE DEF y
  <2>. QED  BY <1>n, <1>8, <2>1, <2>2, <2>3, ProcStep DEF TypeOK, TokenLapses
<1>9. ASSUME NEW p \in Procs, RefreshAccessToken(p)
      PROVE  TypeOK' /\ IdsOK'
  <2>. DEFINE y == [proc[p] EXCEPT !.at = "locking", !.want = "token", !.token = None]
  <2>1. proc' = [proc EXCEPT ![p] = y]
    BY <1>9 DEF RefreshAccessToken
  <2>2. y \in Processes /\ y.at = "locking" /\ y.seen = NoLock /\ y.mine = NoLock
    BY <1>9, <1>n DEF Processes, RefreshAccessToken, IdsOK
  <2>. HIDE DEF y
  <2>. QED  BY <1>n, <1>b, <1>9, <2>1, <2>2, ProcStep DEF TypeOK, RefreshAccessToken
<1>10. ASSUME NEW p \in Procs, Invalidate(p)
       PROVE  TypeOK' /\ IdsOK'
  <2>. DEFINE y == [proc[p] EXCEPT !.at = "locking", !.want = "invalidate"]
  <2>1. proc' = [proc EXCEPT ![p] = y]
    BY <1>10 DEF Invalidate
  <2>2. y \in Processes /\ y.at = "locking" /\ y.seen = NoLock /\ y.mine = NoLock
    BY <1>10, <1>n DEF Processes, Invalidate, IdsOK
  <2>. HIDE DEF y
  <2>3. proc' \in [Procs -> Processes] /\ IdsOK'
    BY <1>n, <2>1, <2>2, ProcStep DEF TypeOK
  <2>4. UNCHANGED <<session, cred, record, lock, wire, replayed, faults>> /\ calls' \in 0..MaxCalls
    BY <1>n, <1>b, <1>10 DEF TypeOK, Invalidate
  <2>. QED  BY <1>n, <2>3, <2>4 DEF TypeOK
<1>11. ASSUME NEW p \in Procs, Logout(p)
       PROVE  TypeOK' /\ IdsOK'
  <2>. DEFINE y == [proc[p] EXCEPT !.at = "locking", !.want = "logout"]
  <2>1. proc' = [proc EXCEPT ![p] = y]
    BY <1>11 DEF Logout
  <2>2. y \in Processes /\ y.at = "locking" /\ y.seen = NoLock /\ y.mine = NoLock
    BY <1>11, <1>n DEF Processes, Logout, IdsOK
  <2>. HIDE DEF y
  <2>. QED  BY <1>n, <1>b, <1>11, <2>1, <2>2, ProcStep DEF TypeOK, Logout
<1>12. ASSUME NEW p \in Procs, NEW f \in Families, Establish(p, f)
       PROVE  TypeOK' /\ IdsOK'
  <2>. DEFINE y == [proc[p] EXCEPT !.at = "locking", !.want = "establish", !.held = [f |-> f, g |-> 1]]
  <2>1. proc' = [proc EXCEPT ![p] = y]
    BY <1>12 DEF Establish
  <2>2. /\ session' \in [Families -> {"none", "active", "revoked", "expired"}]
        /\ cred' \in [Families -> [Gens -> {"none", "active", "consumed", "revoked"}]]
        /\ [f |-> f, g |-> 1] \in Credentials
    BY <1>12, CreateRows DEF Establish
  <2>3. y \in Processes /\ y.at = "locking" /\ y.seen = NoLock /\ y.mine = NoLock
    BY <1>12, <1>n, <2>2 DEF Processes, Establish, IdsOK
  <2>. HIDE DEF y
  <2>. QED  BY <1>n, <1>12, <2>1, <2>2, <2>3, ProcStep DEF TypeOK, Establish
<1>13. ASSUME NEW p \in Procs, ReadRecord(p)
       PROVE  TypeOK' /\ IdsOK'
  <2>1. proc[p].at = "locked" /\ proc[p].seen = NoLock
    BY <1>13 DEF ReadRecord, IdsOK
  <2>0. PICK y \in Processes : ReadAs(p, y)
    BY <1>13, RecordIsRead
  <2>2. /\ proc' = [proc EXCEPT ![p] = y] /\ y.seen = NoLock
        /\ y.at \in {"release", "refresh", "store", "delete", "revoke"}
        /\ \/ wire' = wire
           \/ record # None /\ wire' = wire \cup {[to |-> p, c |-> record, read |-> FALSE]}
    BY <2>0, <2>1 DEF ReadAs
  <2>3. wire' \subseteq [to : Procs \cup {None}, c : Credentials, read : BOOLEAN]
    <3>1. record # None => [to |-> p, c |-> record, read |-> FALSE]
                               \in [to : Procs \cup {None}, c : Credentials, read : BOOLEAN]
      BY DEF TypeOK
    <3>2. CASE wire' = wire
      BY <1>w, <3>2
    <3>3. CASE record # None /\ wire' = wire \cup {[to |-> p, c |-> record, read |-> FALSE]}
      BY <1>w, <3>1, <3>3
    <3>. QED  BY <2>2, <3>2, <3>3
  <2>4. proc' \in [Procs -> Processes] /\ IdsOK'
    BY <1>n, <2>2, ProcStep
  <2>. QED  BY <1>13, <2>3, <2>4 DEF ReadRecord, TypeOK
<1>14. ASSUME NEW p \in Procs, StoreRecord(p)
       PROVE  TypeOK' /\ IdsOK'
  <2>. DEFINE y == [proc[p] EXCEPT !.at = "release", !.token = proc[p].held]
  <2>1. proc' = [proc EXCEPT ![p] = y]
    BY <1>14 DEF StoreRecord
  <2>2. y \in Processes /\ y.at = "release" /\ y.seen = NoLock /\ proc[p].held \in Credentials \cup {None}
    BY <1>14, <1>n DEF Processes, StoreRecord, IdsOK
  <2>. HIDE DEF y
  <2>. QED  BY <1>n, <1>14, <2>1, <2>2, ProcStep DEF TypeOK, StoreRecord
<1>15. ASSUME NEW p \in Procs, StoreFails(p)
       PROVE  TypeOK' /\ IdsOK'
  <2>. DEFINE y == [proc[p] EXCEPT !.at = "revoke", !.token = None]
  <2>1. proc' = [proc EXCEPT ![p] = y]
    BY <1>15 DEF StoreFails
  <2>2. y \in Processes /\ y.at = "revoke" /\ y.seen = NoLock
    BY <1>15, <1>n DEF Processes, StoreFails, IdsOK
  <2>. HIDE DEF y
  <2>. QED  BY <1>n, <1>b, <1>15, <2>1, <2>2, ProcStep DEF TypeOK, StoreFails
<1>17. ASSUME NEW p \in Procs, DeleteRecord(p)
       PROVE  TypeOK' /\ IdsOK'
  <2>. DEFINE y == [proc[p] EXCEPT !.at = "release", !.token = None]
  <2>1. proc' = [proc EXCEPT ![p] = y]
    BY <1>17 DEF DeleteRecord
  <2>2. y \in Processes /\ y.at = "release" /\ y.seen = NoLock
    BY <1>17, <1>n DEF Processes, DeleteRecord, IdsOK
  <2>3. proc' \in [Procs -> Processes] /\ IdsOK'
    <3>. HIDE DEF y
    <3>. QED  BY <1>n, <2>1, <2>2, ProcStep
  <2>4. record' \in Credentials \cup {None} /\ faults' \in 0..MaxFaults
    BY <1>17, <1>b DEF DeleteRecord, TypeOK
  <2>. QED  BY <1>17, <2>3, <2>4 DEF TypeOK, DeleteRecord
<1>18. ASSUME NEW p \in Procs, Crash(p)
       PROVE  TypeOK' /\ IdsOK'
  <2>1. proc' = [proc EXCEPT ![p] = Idle] /\ Idle \in Processes
    BY <1>18 DEF Crash, Idle, Processes
  <2>2. proc' \in [Procs -> Processes] /\ IdsOK'
    BY <1>n, <2>1, ProcStep DEF Idle
  <2>3. lock' \in LockFile \cup {None}
    BY <1>18 DEF Crash, TypeOK, LockFile
  <2>4. wire' \subseteq [to : Procs \cup {None}, c : Credentials, read : BOOLEAN]
    BY <1>w, <1>18 DEF Crash
  <2>. QED  BY <1>b, <1>18, <2>2, <2>3, <2>4 DEF Crash, TypeOK
<1>19. ASSUME NEW p \in Procs, Timeout(p)
       PROVE  TypeOK' /\ IdsOK'
  <2>. DEFINE y == [proc[p] EXCEPT !.at = "release", !.token = None]
  <2>1. proc' = [proc EXCEPT ![p] = y]
    BY <1>19 DEF Timeout
  <2>2. y \in Processes /\ y.at = "release" /\ y.seen = NoLock
    BY <1>19, <1>n DEF Processes, Timeout, IdsOK
  <2>3. proc' \in [Procs -> Processes] /\ IdsOK'
    <3>. HIDE DEF y
    <3>. QED  BY <1>n, <2>1, <2>2, ProcStep
  <2>4. wire' \subseteq [to : Procs \cup {None}, c : Credentials, read : BOOLEAN]
    BY <1>w, <1>19 DEF Timeout
  <2>. QED  BY <1>19, <1>b, <2>3, <2>4 DEF TypeOK, Timeout
<1>20. ASSUME NEW p \in Procs, AuthenticateExpired(p)
       PROVE  TypeOK' /\ IdsOK'
  <2>1. proc[p].token.f \in Families
    BY <1>20, <1>n DEF AuthenticateExpired, Processes, Credentials
  <2>. QED  BY <1>20, <2>1, RevokeRows DEF AuthenticateExpired, TypeOK, IdsOK
<1>21. ASSUME NEW f \in Families, PasswordReset(f)
       PROVE  TypeOK' /\ IdsOK'
  BY <1>21, <1>b, RevokeRows DEF PasswordReset, TypeOK, IdsOK
<1>22. ASSUME NEW f \in Families, EstablishLost(f)
       PROVE  TypeOK' /\ IdsOK'
  BY <1>22, <1>b, CreateRows DEF EstablishLost, TypeOK, IdsOK
<1>23. ASSUME NEW p \in Procs, Revoke(p)
       PROVE  TypeOK' /\ IdsOK'
  <2>. DEFINE y == [proc[p] EXCEPT !.at = "delete"]
  <2>1. proc' = [proc EXCEPT ![p] = y]
    BY <1>23 DEF Revoke, Goto
  <2>2. y \in Processes /\ y.at = "delete" /\ y.seen = NoLock
    BY <1>23, <1>n DEF Processes, Revoke, IdsOK
  <2>3. proc' \in [Procs -> Processes] /\ IdsOK'
    <3>. HIDE DEF y
    <3>. QED  BY <1>n, <2>1, <2>2, ProcStep
  <2>4. /\ session' \in [Families -> {"none", "active", "revoked", "expired"}]
        /\ cred' \in [Families -> [Gens -> {"none", "active", "consumed", "revoked"}]]
    <3>1. CASE UNCHANGED <<session, cred>>
      BY <3>1 DEF TypeOK
    <3>2. CASE RevokeSessionFamily(proc[p].held.f, "revoked")
      BY <3>2 DEF RevokeSessionFamily, TypeOK
    <3>. QED  BY <1>23, <3>1, <3>2 DEF Revoke
  <2>. QED  BY <1>23, <1>b, <2>3, <2>4 DEF Revoke, TypeOK
<1>24. ASSUME NEW q \in wire, ServerReads(q)
       PROVE  TypeOK' /\ IdsOK'
  BY <1>24, <1>w DEF ServerReads, TypeOK, IdsOK
<1>25. ASSUME NEW q \in wire, NEW at \in {"store", "delete"}, NEW held \in Credentials \cup {None},
              Answered(q, at, held)
       PROVE  proc' \in [Procs -> Processes] /\ IdsOK'
  <2>1. CASE q.to = None
    BY <1>25, <1>n, <2>1 DEF Answered, IdsOK
  <2>2. CASE q.to \in Procs
    <3>1. PICK y \in Processes :
                 proc' = [proc EXCEPT ![q.to] = y] /\ y.at = at /\ y.seen = proc[q.to].seen
      BY <1>25, <2>2, AnswerArrives
    <3>2. y.seen = NoLock
      BY <2>2, <3>1 DEF IdsOK, WireOK
    <3>. QED  BY <1>n, <2>2, <3>1, <3>2, ProcStep
  <2>. QED  BY <1>w, <2>1, <2>2
<1>26. ASSUME NEW q \in wire, ServerRotates(q)
       PROVE  TypeOK' /\ IdsOK'
  <2>1. q.c \in Credentials
    BY <1>w
  <2>2. /\ [q.c EXCEPT !.g = @ + 1] \in Credentials
        /\ cred' \in [Families -> [Gens -> {"none", "active", "consumed", "revoked"}]]
    BY <1>26, <2>1, NextGeneration DEF ServerRotates
  <2>3. proc' \in [Procs -> Processes] /\ IdsOK'
    BY <1>25, <1>26, <2>2 DEF ServerRotates
  <2>. QED  BY <1>26, <1>w, <2>2, <2>3 DEF ServerRotates, Rotate, TypeOK
<1>27. ASSUME NEW q \in wire, ServerExpires(q) \/ ServerRefuses(q)
       PROVE  TypeOK' /\ IdsOK'
  <2>1. q.c.f \in Families
    BY <1>w DEF Credentials
  <2>2. /\ session' \in [Families -> {"none", "active", "revoked", "expired"}]
        /\ cred' \in [Families -> [Gens -> {"none", "active", "consumed", "revoked"}]]
    BY <1>27, <2>1, RevokeRows DEF ServerExpires, ServerRefuses
  <2>3. proc' \in [Procs -> Processes] /\ IdsOK'
    BY <1>25, <1>27 DEF ServerExpires, ServerRefuses
  <2>. QED  BY <1>27, <1>w, <2>1, <2>2, <2>3 DEF ServerExpires, ServerRefuses, TypeOK
<1>. QED
  BY <1>1, <1>2, <1>3, <1>4, <1>5, <1>6, <1>7, <1>8, <1>9, <1>10, <1>11, <1>12, <1>13, <1>14, <1>15,
     <1>17, <1>18, <1>19, <1>20, <1>21, <1>22, <1>23, <1>24, <1>26, <1>27 DEF Next, Step, Server

LEMMA LauncherWireStep ==
    ASSUME TypeOK, IdsOK, WireOK, [Next]_vars
    PROVE  WireOK'
<1>n. proc \in [Procs -> Processes] /\ None \notin Procs
  BY BoundsAssumption DEF TypeOK
<1>w. wire \subseteq [to : Procs \cup {None}, c : Credentials, read : BOOLEAN]
  BY DEF TypeOK
<1>1. CASE UNCHANGED vars
  BY <1>1 DEF vars, WireOK
(* A step of a process that waits for nothing leaves the requests alone.   *)
<1>2. ASSUME NEW p \in Procs, proc[p].at # "refresh" \/ proc'[p].at = "refresh",
             \A r \in Procs : r # p => proc'[r] = proc[r], UNCHANGED wire
      PROVE  WireOK'
  BY <1>2 DEF WireOK
<1>3. ASSUME NEW p \in Procs,
             Acquire(p) \/ FindOrphan(p) \/ ClaimRecord(p) \/ RemoveRecord(p) \/ Release(p)
                \/ StoreRecord(p) \/ Revoke(p) \/ DeleteRecord(p)
                \/ GiveUp(p) \/ EnsureAccessToken(p) \/ RefreshAccessToken(p) \/ Invalidate(p) \/ Logout(p)
                \/ (\E f \in Families : Establish(p, f)) \/ StoreFails(p) \/ TokenLapses(p)
                \/ AuthenticateExpired(p)
      PROVE  WireOK'
  <2>1. UNCHANGED wire /\ \A r \in Procs : r # p => proc'[r] = proc[r]
    BY <1>3, <1>n DEF Acquire, FindOrphan, ClaimRecord, RemoveRecord, Release, StoreRecord, Revoke,
       DeleteRecord, GiveUp, EnsureAccessToken, RefreshAccessToken, Invalidate, Logout, Establish,
       StoreFails, TokenLapses, AuthenticateExpired, Goto
  <2>2. proc[p].at # "refresh" \/ proc'[p].at = "refresh"
    <3>1. CASE TokenLapses(p)
      BY <1>n, <3>1 DEF TokenLapses, Processes
    <3>2. CASE AuthenticateExpired(p)
      BY <3>2 DEF AuthenticateExpired
    <3>3. CASE ~TokenLapses(p) /\ ~AuthenticateExpired(p)
      BY <1>3, <3>3 DEF Acquire, FindOrphan, ClaimRecord, RemoveRecord, Release, StoreRecord, Revoke,
         DeleteRecord, GiveUp, EnsureAccessToken, RefreshAccessToken, Invalidate, Logout, Establish, StoreFails
    <3>. QED  BY <3>1, <3>2, <3>3
  <2>. QED  BY <1>2, <2>1, <2>2
<1>4. ASSUME NEW p \in Procs, ReadRecord(p)
      PROVE  WireOK'
  <2>1. proc[p].at = "locked"
    BY <1>4 DEF ReadRecord
  <2>2. \A q \in wire : q.to # p
    BY <2>1 DEF WireOK
  <2>0. PICK y \in Processes : ReadAs(p, y)
    BY <1>4, RecordIsRead
  <2>3. /\ proc' = [proc EXCEPT ![p] = y]
        /\ \/ wire' = wire
           \/ y.at = "refresh" /\ wire' = wire \cup {[to |-> p, c |-> record, read |-> FALSE]}
    BY <2>0 DEF ReadAs
  <2>4. proc'[p] = y /\ \A r \in Procs : r # p => proc'[r] = proc[r]
    BY <1>n, <2>3
  <2>5. CASE wire' = wire
    BY <1>2, <2>1, <2>4, <2>5
  <2>6. CASE y.at = "refresh" /\ wire' = wire \cup {[to |-> p, c |-> record, read |-> FALSE]}
    <3>. DEFINE z == [to |-> p, c |-> record, read |-> FALSE]
    <3>1. z.to = p /\ wire' = wire \cup {z}
      BY <2>6
    <3>. HIDE DEF z
    <3>. QED  BY <2>2, <2>4, <2>6, <3>1 DEF WireOK
  <2>. QED  BY <2>3, <2>5, <2>6
<1>5. ASSUME NEW p \in Procs, Timeout(p)
      PROVE  WireOK'
  <2>1. PICK q \in wire : /\ q.to = p
                          /\ wire' = wire \ {q} \/ wire' = (wire \ {q}) \cup {[q EXCEPT !.to = None]}
    BY <1>5 DEF Timeout
  <2>2. \A r \in Procs : r # p => proc'[r] = proc[r]
    <3>1. proc' = [proc EXCEPT ![p] = [proc[p] EXCEPT !.at = "release", !.token = None]]
      BY <1>5 DEF Timeout
    <3>. QED  BY <1>n, <3>1
  <2>3. [q EXCEPT !.to = None].to \notin Procs
    BY <1>n, <1>w
  <2>4. \A r \in wire \ {q} : r.to # p
    BY <2>1 DEF WireOK
  <2>5. \A r \in wire' : r.to \in Procs => r \in wire /\ r.to # p
    BY <2>1, <2>3, <2>4
  <2>. QED  BY <2>2, <2>5 DEF WireOK
<1>6. ASSUME NEW p \in Procs, Crash(p)
      PROVE  WireOK'
  <2>1. \A r \in Procs : r # p => proc'[r] = proc[r]
    BY <1>6 DEF Crash
  <2>2. \A r \in wire' : r.to \in Procs => r \in wire /\ r.to # p
    <3>1. ASSUME NEW q \in wire
          PROVE  [q EXCEPT !.to = None].to \notin Procs
      BY <1>n, <1>w
    <3>. QED  BY <1>6, <3>1 DEF Crash
  <2>. QED  BY <2>1, <2>2 DEF WireOK
<1>7. ASSUME NEW q \in wire, ServerReads(q)
      PROVE  WireOK'
  <2>. DEFINE z == [q EXCEPT !.read = TRUE]
  <2>1. wire' = (wire \ {q}) \cup {z} /\ UNCHANGED proc
    BY <1>7 DEF ServerReads
  <2>2. z.to = q.to
    BY <1>w
  <2>. HIDE DEF z
  <2>. QED  BY <2>1, <2>2 DEF WireOK
<1>8. ASSUME NEW q \in wire, ServerRotates(q) \/ ServerExpires(q) \/ ServerRefuses(q)
      PROVE  WireOK'
  <2>1. wire' = wire \ {q}
    BY <1>8 DEF ServerRotates, ServerExpires, ServerRefuses
  <2>2. \A r \in Procs : r # q.to => proc'[r] = proc[r]
    <3>1. CASE q.to = None
      BY <1>8, <3>1 DEF ServerRotates, ServerExpires, ServerRefuses, Answered
    <3>2. ASSUME NEW at, NEW held, q.to # None, Answered(q, at, held)
          PROVE  \A r \in Procs : r # q.to => proc'[r] = proc[r]
      <4>1. proc' = [proc EXCEPT ![q.to] = [proc[q.to] EXCEPT !.at = at, !.held = held]]
        BY <3>2 DEF Answered
      <4>. QED  BY <1>n, <4>1
    <3>. QED  BY <1>8, <3>1, <3>2 DEF ServerRotates, ServerExpires, ServerRefuses
  <2>. QED  BY <2>1, <2>2 DEF WireOK
<1>9. ASSUME NEW f \in Families, PasswordReset(f) \/ EstablishLost(f)
      PROVE  WireOK'
  BY <1>9 DEF PasswordReset, EstablishLost, WireOK
<1>. QED
  BY <1>1, <1>3, <1>4, <1>5, <1>6, <1>7, <1>8, <1>9 DEF Next, Step, Server

(***************************************************************************)
(* While nothing has failed, the lock is one process's, the refresh under  *)
(* way presents the record, and what is stored or about to be stored can   *)
(* be used unless its family has ended.                                    *)
(***************************************************************************)
Holding == {"locked", "refresh", "store", "revoke", "delete", "release"}

(* No owner is dead, so nobody removes a file that is not his.             *)
Exclusive ==
    /\ lock # None => ~lock.dead
    /\ \A p \in Procs : /\ proc[p].at \notin {"reclaim", "remove"}
                        /\ proc[p].at \in Holding => lock # None /\ lock.by = p

(* The request under way presents the record.                              *)
RefreshOK ==
    /\ \A p \in Procs : proc[p].at = "refresh" =>
          proc[p].want = "token" /\ record # None /\ proc[p].held = record
    /\ \A q \in wire : q.to \in Procs /\ proc[q.to].at = "refresh" /\ proc[q.to].held = q.c

(* A process about to store a rotated credential, and one that has been    *)
(* given the credential of a new family.                                   *)
Promised(p) == proc[p].at = "store" /\ proc[p].want # "establish"

Fresh(p) == proc[p].want = "establish" /\ proc[p].at \in {"locking", "locked", "store"}

Started(c) == c \in Credentials /\ session[c.f] # "none"

Usable(c) == session[c.f] = "active" => Consumable(c)

(* What is to be stored can be used, and so can the record until a rotated *)
(* credential replaces it; nobody else holds one of a new family.          *)
CredentialsOK ==
    /\ \A p \in Procs : Promised(p) \/ Fresh(p) => Started(proc[p].held) /\ Usable(proc[p].held)
    /\ \A p \in Procs : Promised(p) => record # None /\ record.f = proc[p].held.f
    /\ record # None => /\ Started(record)
                        /\ (\A p \in Procs : ~Promised(p)) => Usable(record)
    /\ \A p \in Procs : Fresh(p) => record = None \/ record.f # proc[p].held.f
    /\ \A p, r \in Procs : Fresh(p) /\ Fresh(r) /\ proc[p].held.f = proc[r].held.f => p = r

Sound == Exclusive /\ RefreshOK /\ CredentialsOK /\ replayed = {}

LauncherInv == TypeOK /\ IdsOK /\ WireOK /\ (faults = 0 => Sound)

(* What a step does to the families it does not refresh: they may start or *)
(* end, and a credential that could be used still can, or its family ended.*)
FamiliesKept ==
    \A c \in Credentials : session[c.f] # "none" =>
        /\ session'[c.f] # "none"
        /\ session'[c.f] = "active" => session[c.f] = "active"
        /\ session'[c.f] = "active" /\ cred[c.f][c.g] = "active" => cred'[c.f][c.g] = "active"

LEMMA RevokeKeepsFamilies ==
    ASSUME TypeOK, NEW f \in Families, NEW s \in {"revoked", "expired"}, RevokeSessionFamily(f, s)
    PROVE  FamiliesKept
<1>1. ASSUME NEW c \in Credentials, session[c.f] # "none"
      PROVE  /\ session'[c.f] # "none"
             /\ session'[c.f] = "active" => session[c.f] = "active"
             /\ session'[c.f] = "active" /\ cred[c.f][c.g] = "active" => cred'[c.f][c.g] = "active"
  <2>1. c.f \in Families /\ c.g \in Gens
    BY DEF Credentials
  <2>2. session'[c.f] = IF c.f = f THEN (IF session[f] = "active" THEN s ELSE session[f]) ELSE session[c.f]
    BY <2>1 DEF RevokeSessionFamily, TypeOK
  <2>3. c.f # f => cred'[c.f] = cred[c.f]
    BY <2>1 DEF RevokeSessionFamily, TypeOK
  <2>. QED  BY <1>1, <2>2, <2>3
<1>. QED  BY <1>1 DEF FamiliesKept

LEMMA CreateKeepsFamilies ==
    ASSUME TypeOK, NEW f \in Families, CreateFamily(f)
    PROVE  /\ FamiliesKept /\ session'[f] = "active" /\ cred'[f][1] = "active"
           /\ session[f] = "none"
<1>1. session' = [session EXCEPT ![f] = "active"] /\ session[f] = "none"
  BY DEF CreateFamily
<1>2. cred' = [cred EXCEPT ![f] = [cred[f] EXCEPT ![1] = "active"]]
  BY DEF CreateFamily
<1>3. 1 \in Gens
  BY BoundsAssumption DEF Gens
<1>4. cred[f] \in [Gens -> {"none", "active", "consumed", "revoked"}]
  BY DEF TypeOK
<1>5. cred'[f][1] = "active" /\ session'[f] = "active"
  BY <1>1, <1>2, <1>3, <1>4 DEF TypeOK
<1>6. ASSUME NEW c \in Credentials, session[c.f] # "none"
      PROVE  session'[c.f] = session[c.f] /\ cred'[c.f] = cred[c.f]
  BY <1>1, <1>2, <1>6 DEF Credentials, TypeOK
<1>. QED  BY <1>1, <1>5, <1>6 DEF FamiliesKept

(* The claims about credentials survive a step that leaves the record and  *)
(* lets no process hold a credential it did not hold.                      *)
LEMMA CredentialsKept ==
    ASSUME TypeOK, CredentialsOK, FamiliesKept, record' = record,
           \A p \in Procs : (Promised(p))' <=> Promised(p),
           \A p \in Procs : (Fresh(p))' => Fresh(p),
           \A p \in Procs : (Promised(p))' \/ (Fresh(p))' => proc'[p].held = proc[p].held
    PROVE  CredentialsOK'
<1>1. ASSUME NEW c, Started(c)
      PROVE  (Started(c))' /\ (Usable(c) => (Usable(c))')
  BY <1>1 DEF Started, Usable, Consumable, FamiliesKept
<1>2. ASSUME NEW p \in Procs, (Promised(p))' \/ (Fresh(p))'
      PROVE  (Started(proc[p].held) /\ Usable(proc[p].held))'
  <2>1. PICK c : c = proc[p].held /\ c = proc'[p].held
    BY <1>2
  <2>2. Started(c) /\ Usable(c)
    BY <1>2, <2>1 DEF CredentialsOK
  <2>3. (Started(c) /\ Usable(c))'
    BY <1>1, <2>2
  <2>. QED  BY <2>1, <2>3 DEF Started, Usable, Consumable
<1>3. record # None => (Started(record))' /\ ((\A p \in Procs : ~Promised(p))' => (Usable(record))')
  <2>1. SUFFICES ASSUME record # None
                 PROVE  (Started(record))' /\ ((\A p \in Procs : ~Promised(p))' => (Usable(record))')
    OBVIOUS
  <2>2. PICK c : c = record /\ c = record'
    OBVIOUS
  <2>3. Started(c) /\ ((\A p \in Procs : ~Promised(p)) => Usable(c))
    BY <2>1, <2>2 DEF CredentialsOK
  <2>4. (Started(c))' /\ (Usable(c) => (Usable(c))')
    BY <1>1, <2>3
  <2>5. (\A p \in Procs : ~Promised(p))' => (\A p \in Procs : ~Promised(p))
    OBVIOUS
  <2>6. (Started(record))'
    BY <2>2, <2>4 DEF Started
  <2>7. (Usable(c))' => (Usable(record))'
    BY <2>2 DEF Usable, Consumable
  <2>. QED  BY <2>3, <2>4, <2>5, <2>6, <2>7
<1>4. \A p \in Procs : (Promised(p))' => (record # None /\ record.f = proc[p].held.f)'
  BY DEF CredentialsOK
<1>5. \A p \in Procs : (Fresh(p))' => (record = None \/ record.f # proc[p].held.f)'
  BY DEF CredentialsOK
<1>6. \A p, r \in Procs : ((Fresh(p))' /\ (Fresh(r))' /\ (proc[p].held.f = proc[r].held.f)') => p = r
  BY DEF CredentialsOK
<1>. QED  BY <1>2, <1>3, <1>4, <1>5, <1>6 DEF CredentialsOK

(* A process that turns to something else and stores nothing new, with the *)
(* record, the lock file and the requests as they are.                     *)
Harmless(p, y) ==
    /\ y.at \notin {"reclaim", "remove"}
    /\ y.at \in Holding => proc[p].at \in Holding
    /\ y.at = "refresh" => proc[p].at = "refresh" /\ y.want = proc[p].want /\ y.held = proc[p].held
    /\ proc[p].at = "refresh" => y.at = "refresh"
    /\ (y.at = "store" /\ y.want # "establish") <=> Promised(p)
    /\ y.want = "establish" /\ y.at \in {"locking", "locked", "store"} => Fresh(p)
    /\ y.at = "store" \/ (y.want = "establish" /\ y.at \in {"locking", "locked"}) => y.held = proc[p].held

LEMMA HarmlessKeepsCredentials ==
    ASSUME TypeOK, CredentialsOK, FamiliesKept, record' = record, NEW p \in Procs, NEW y,
           proc' = [proc EXCEPT ![p] = y],
           (y.at = "store" /\ y.want # "establish") <=> Promised(p),
           y.want = "establish" /\ y.at \in {"locking", "locked", "store"} => Fresh(p),
           y.at = "store" \/ (y.want = "establish" /\ y.at \in {"locking", "locked"})
              => y.held = proc[p].held
    PROVE  CredentialsOK'
<1>1. proc'[p] = y /\ \A r \in Procs : r # p => proc'[r] = proc[r]
  BY DEF TypeOK
<1>2. \A r \in Procs : (Promised(r))' <=> Promised(r)
  BY <1>1 DEF Promised
<1>3. \A r \in Procs : (Fresh(r))' => Fresh(r)
  BY <1>1 DEF Fresh
<1>4. \A r \in Procs : (Promised(r))' \/ (Fresh(r))' => proc'[r].held = proc[r].held
  BY <1>1 DEF Promised, Fresh
<1>. QED  BY <1>2, <1>3, <1>4, CredentialsKept

LEMMA HarmlessKeepsSound ==
    ASSUME TypeOK, Sound, FamiliesKept, record' = record, lock' = lock, wire' = wire, replayed' = replayed,
           NEW p \in Procs, NEW y, proc' = [proc EXCEPT ![p] = y], Harmless(p, y)
    PROVE  Sound'
<1>1. proc'[p] = y /\ \A r \in Procs : r # p => proc'[r] = proc[r]
  BY DEF TypeOK
<1>2. Exclusive'
  BY <1>1 DEF Sound, Exclusive, Harmless
<1>3. RefreshOK'
  BY <1>1 DEF Sound, RefreshOK, Harmless
<1>4. CredentialsOK'
  BY HarmlessKeepsCredentials DEF Sound, Harmless
<1>. QED  BY <1>2, <1>3, <1>4 DEF Sound

(* The families stay as they are.                                          *)
LEMMA UnchangedFamilies ==
    ASSUME UNCHANGED <<session, cred>>
    PROVE  FamiliesKept
BY DEF FamiliesKept

(* Only the holder of the lock refreshes, stores or deletes.               *)
LEMMA OneHolder ==
    ASSUME Sound, NEW p \in Procs, proc[p].at \in Holding
    PROVE  /\ lock # None /\ lock.by = p
           /\ \A r \in Procs : proc[r].at \in Holding => r = p
           /\ proc[p].at # "refresh" => wire = {}
           /\ proc[p].at # "store" => \A r \in Procs : ~Promised(r)
<1>1. lock # None /\ lock.by = p /\ \A r \in Procs : proc[r].at \in Holding => r = p
  BY DEF Sound, Exclusive
<1>2. proc[p].at # "refresh" => wire = {}
  BY <1>1 DEF Sound, RefreshOK, Holding
<1>3. proc[p].at # "store" => \A r \in Procs : ~Promised(r)
  BY <1>1 DEF Promised, Holding
<1>. QED  BY <1>1, <1>2, <1>3

(***************************************************************************)
(* Without a fault every step keeps the claims.                            *)
(***************************************************************************)
LEMMA LauncherSoundStep ==
    ASSUME TypeOK, TypeOK', IdsOK, WireOK, Sound, faults = 0, faults' = 0, Next
    PROVE  Sound'
<1>. USE DEF Holding
<1>n. proc \in [Procs -> Processes] /\ None \notin Procs
  BY BoundsAssumption DEF TypeOK
<1>w. wire \subseteq [to : Procs \cup {None}, c : Credentials, read : BOOLEAN]
  BY DEF TypeOK
<1>s. Exclusive /\ RefreshOK /\ CredentialsOK /\ replayed = {}
  BY DEF Sound
<1>2. ASSUME NEW p \in Procs, Acquire(p)
      PROVE  Sound'
  <2>. DEFINE y == [proc[p] EXCEPT !.at = "locked", !.mine = FreshId, !.seen = NoLock]
  <2>1. /\ proc' = [proc EXCEPT ![p] = y] /\ proc[p].at = "locking" /\ lock = None
        /\ UNCHANGED <<session, cred, record, wire, replayed>>
    BY <1>2 DEF Acquire, Vacant
  <2>2. y.at = "locked" /\ y.want = proc[p].want /\ y.held = proc[p].held
    BY <1>n DEF Processes
  <2>3. lock' # None /\ lock'.by = p /\ ~lock'.dead
    <3>1. lock' = [id |-> FreshId, by |-> p, dead |-> FALSE]
      BY <1>2 DEF Acquire
    <3>2. lock'.by = p /\ lock'.dead = FALSE
      BY <3>1
    <3>3. lock' # None
      BY <3>1 DEF None
    <3>. QED  BY <3>2, <3>3
  <2>. HIDE DEF y
  <2>4. proc'[p] = y /\ \A r \in Procs : r # p => proc'[r] = proc[r]
    BY <1>n, <2>1
  <2>5. Exclusive'
    BY <1>s, <2>1, <2>2, <2>3, <2>4 DEF Exclusive
  <2>6. RefreshOK'
    BY <1>s, <2>1, <2>2, <2>4 DEF RefreshOK
  <2>7. CredentialsOK'
    BY <1>s, <2>1, <2>2, UnchangedFamilies, HarmlessKeepsCredentials DEF Promised, Fresh
  <2>. QED  BY <1>s, <2>1, <2>5, <2>6, <2>7 DEF Sound
<1>3. ASSUME NEW p \in Procs, FindOrphan(p) \/ ClaimRecord(p) \/ RemoveRecord(p)
      PROVE  FALSE
  BY <1>s, <1>3 DEF Exclusive, FindOrphan, ClaimRecord, RemoveRecord
<1>4. ASSUME NEW p \in Procs, GiveUp(p)
      PROVE  Sound'
  <2>. DEFINE y == [Idle EXCEPT !.token = proc[p].token]
  <2>1. /\ proc' = [proc EXCEPT ![p] = y] /\ proc[p].at = "locking"
        /\ UNCHANGED <<session, cred, record, lock, wire, replayed>>
    BY <1>4 DEF GiveUp
  <2>2. y.at = "idle" /\ y.want = "token"
    BY DEF Idle
  <2>. HIDE DEF y
  <2>3. Harmless(p, y)
    BY <2>1, <2>2 DEF Harmless, Promised
  <2>. QED  BY <2>1, <2>3, UnchangedFamilies, HarmlessKeepsSound
<1>5. ASSUME NEW p \in Procs, Release(p)
      PROVE  Sound'
  <2>. DEFINE y == [Idle EXCEPT !.token = proc[p].token]
  <2>1. /\ proc' = [proc EXCEPT ![p] = y] /\ proc[p].at = "release" /\ lock' \in {None, lock}
        /\ UNCHANGED <<session, cred, record, wire, replayed>>
    BY <1>5 DEF Release
  <2>2. y.at = "idle" /\ y.want = "token"
    BY DEF Idle
  <2>. HIDE DEF y
  <2>3. proc'[p] = y /\ \A r \in Procs : r # p => proc'[r] = proc[r]
    BY <1>n, <2>1
  <2>4. \A r \in Procs : proc[r].at \in {"locked", "refresh", "store", "revoke", "delete", "release"} => r = p
    BY <2>1, OneHolder
  <2>5. Exclusive'
    BY <1>s, <2>1, <2>2, <2>3, <2>4 DEF Exclusive
  <2>6. RefreshOK'
    BY <1>s, <2>1, <2>2, <2>3 DEF RefreshOK
  <2>7. CredentialsOK'
    BY <1>s, <2>1, <2>2, UnchangedFamilies, HarmlessKeepsCredentials DEF Promised, Fresh
  <2>. QED  BY <1>s, <2>1, <2>5, <2>6, <2>7 DEF Sound
<1>6. ASSUME NEW p \in Procs, NEW y \in Processes, proc' = [proc EXCEPT ![p] = y],
             proc[p].at = "idle", y.at = "locking", y.want \in {"token", "invalidate", "logout"},
             UNCHANGED <<session, cred, record, lock, wire, replayed>>
      PROVE  Sound'
  <2>1. Harmless(p, y)
    BY <1>6 DEF Harmless, Promised
  <2>. QED  BY <1>6, <2>1, UnchangedFamilies, HarmlessKeepsSound
<1>7. ASSUME NEW p \in Procs, EnsureAccessToken(p) \/ RefreshAccessToken(p) \/ Invalidate(p) \/ Logout(p)
      PROVE  Sound'
  <2>1. proc[p].at = "idle" /\ UNCHANGED <<session, cred, record, lock, wire, replayed>>
    BY <1>7 DEF EnsureAccessToken, RefreshAccessToken, Invalidate, Logout
  <2>2. proc'[p] \in Processes
    BY DEF TypeOK
  <2>3. CASE EnsureAccessToken(p)
    <3>1. proc' = [proc EXCEPT ![p] = [proc[p] EXCEPT !.at = "locking", !.want = "token"]]
      BY <2>3 DEF EnsureAccessToken
    <3>. QED  BY <1>6, <1>n, <2>1, <2>2, <3>1 DEF Processes
  <2>4. CASE RefreshAccessToken(p)
    <3>1. proc' = [proc EXCEPT ![p] = [proc[p] EXCEPT !.at = "locking", !.want = "token", !.token = None]]
      BY <2>4 DEF RefreshAccessToken
    <3>. QED  BY <1>6, <1>n, <2>1, <2>2, <3>1 DEF Processes
  <2>5. CASE Invalidate(p)
    <3>1. proc' = [proc EXCEPT ![p] = [proc[p] EXCEPT !.at = "locking", !.want = "invalidate"]]
      BY <2>5 DEF Invalidate
    <3>. QED  BY <1>6, <1>n, <2>1, <2>2, <3>1 DEF Processes
  <2>6. CASE Logout(p)
    <3>1. proc' = [proc EXCEPT ![p] = [proc[p] EXCEPT !.at = "locking", !.want = "logout"]]
      BY <2>6 DEF Logout
    <3>. QED  BY <1>6, <1>n, <2>1, <2>2, <3>1 DEF Processes
  <2>. QED  BY <1>7, <2>3, <2>4, <2>5, <2>6
<1>8. ASSUME NEW p \in Procs, TokenLapses(p)
      PROVE  Sound'
  <2>. DEFINE y == [proc[p] EXCEPT !.token = None]
  <2>1. /\ proc' = [proc EXCEPT ![p] = y]
        /\ UNCHANGED <<session, cred, record, lock, wire, replayed>>
    BY <1>8 DEF TokenLapses
  <2>2. y.at = proc[p].at /\ y.want = proc[p].want /\ y.held = proc[p].held
    BY <1>n DEF Processes
  <2>. HIDE DEF y
  <2>3. Harmless(p, y)
    BY <1>s, <2>2 DEF Harmless, Promised, Fresh, Exclusive
  <2>. QED  BY <2>1, <2>3, UnchangedFamilies, HarmlessKeepsSound
<1>9. ASSUME FamiliesKept, UNCHANGED <<record, lock, proc, wire, replayed>>
      PROVE  Sound'
  <2>1. Exclusive' /\ RefreshOK'
    BY <1>s, <1>9 DEF Exclusive, RefreshOK
  <2>2. CredentialsOK'
    BY <1>s, <1>9, CredentialsKept DEF Promised, Fresh
  <2>. QED  BY <1>s, <1>9, <2>1, <2>2 DEF Sound
<1>10. ASSUME NEW p \in Procs, AuthenticateExpired(p)
       PROVE  Sound'
  <2>1. proc[p].token.f \in Families
    BY <1>10, <1>n DEF AuthenticateExpired, Processes, Credentials
  <2>. QED  BY <1>9, <1>10, <2>1, RevokeKeepsFamilies DEF AuthenticateExpired
<1>11. ASSUME NEW f \in Families, PasswordReset(f)
       PROVE  Sound'
  BY <1>9, <1>11, RevokeKeepsFamilies DEF PasswordReset
<1>12. ASSUME NEW p \in Procs, NEW f \in Families, Establish(p, f)
       PROVE  Sound'
  <2>. DEFINE c == [f |-> f, g |-> 1]
              y == [proc[p] EXCEPT !.at = "locking", !.want = "establish", !.held = c]
  <2>1. /\ proc' = [proc EXCEPT ![p] = y] /\ proc[p].at = "idle"
        /\ UNCHANGED <<record, lock, wire, replayed>>
    BY <1>12 DEF Establish
  <2>2. y.at = "locking" /\ y.want = "establish" /\ y.held = c
    BY <1>n DEF Processes
  <2>3. FamiliesKept /\ session'[f] = "active" /\ cred'[f][1] = "active" /\ session[f] = "none"
    BY <1>12, CreateKeepsFamilies DEF Establish
  <2>c. c \in Credentials /\ c.f = f /\ c.g = 1
    BY <1>12, CreateRows DEF Establish
  <2>. HIDE DEF y, c
  <2>4. proc'[p] = y /\ \A r \in Procs : r # p => proc'[r] = proc[r]
    BY <1>n, <2>1
  <2>5. Exclusive' /\ RefreshOK'
    BY <1>s, <2>1, <2>2, <2>4 DEF Exclusive, RefreshOK
  <2>6. /\ \A r \in Procs : (Promised(r))' <=> Promised(r)
        /\ \A r \in Procs : r # p => ((Fresh(r))' <=> Fresh(r))
        /\ ~Promised(p)
    BY <2>1, <2>2, <2>4 DEF Promised, Fresh
  <2>7. (Started(c))' /\ (Usable(c))'
    BY <2>3, <2>c DEF Started, Usable, Consumable
  <2>8. ASSUME NEW d, Started(d)
        PROVE  (Started(d))' /\ (Usable(d) => (Usable(d))') /\ d.f # f
    BY <2>3, <2>8 DEF Started, Usable, Consumable, FamiliesKept
  <2>9. \A r \in Procs : (Promised(r))' \/ (Fresh(r))' => (Started(proc[r].held))' /\ (Usable(proc[r].held))'
    <3>1. SUFFICES ASSUME NEW r \in Procs, (Promised(r))' \/ (Fresh(r))'
                   PROVE  (Started(proc[r].held))' /\ (Usable(proc[r].held))'
      OBVIOUS
    <3>2. CASE r = p
      BY <2>2, <2>4, <2>7, <3>2 DEF Started, Usable, Consumable
    <3>3. CASE r # p
      <4>1. PICK d : d = proc[r].held /\ d = proc'[r].held
        BY <2>4, <3>3
      <4>2. Started(d) /\ Usable(d)
        BY <1>s, <2>6, <3>1, <3>3, <4>1 DEF CredentialsOK
      <4>3. (Started(d))' /\ (Usable(d))'
        BY <2>8, <4>2
      <4>. QED  BY <4>1, <4>3 DEF Started, Usable, Consumable
    <3>. QED  BY <3>2, <3>3
  <2>10. \A r \in Procs : (Promised(r))' => (record # None /\ record.f = proc[r].held.f)'
    BY <1>s, <2>1, <2>4, <2>6 DEF CredentialsOK
  <2>11. record # None => (Started(record))' /\ ((\A r \in Procs : ~Promised(r))' => (Usable(record))') /\ record.f # f
    <3>1. PICK d : d = record /\ d = record'
      BY <2>1
    <3>2. SUFFICES ASSUME record # None
                   PROVE  (Started(record))' /\ ((\A r \in Procs : ~Promised(r))' => (Usable(record))') /\ record.f # f
      OBVIOUS
    <3>3. Started(d) /\ ((\A r \in Procs : ~Promised(r)) => Usable(d))
      BY <1>s, <3>1, <3>2 DEF CredentialsOK
    <3>4. (\A r \in Procs : ~Promised(r))' => (\A r \in Procs : ~Promised(r))
      BY <2>6
    <3>5. (Started(d))' /\ ((\A r \in Procs : ~Promised(r))' => (Usable(d))') /\ d.f # f
      BY <2>8, <3>3, <3>4
    <3>6. ((Usable(d))' => (Usable(record))') /\ ((Started(d))' => (Started(record))')
      BY <3>1 DEF Started, Usable, Consumable
    <3>. QED  BY <3>1, <3>5, <3>6
  <2>12. \A r \in Procs : (Fresh(r))' => (record = None \/ record.f # proc[r].held.f)'
    <3>1. SUFFICES ASSUME NEW r \in Procs, (Fresh(r))'
                   PROVE  record' = None \/ record'.f # proc'[r].held.f
      OBVIOUS
    <3>2. CASE r = p
      BY <2>1, <2>2, <2>4, <2>11, <2>c, <3>2
    <3>3. CASE r # p
      BY <1>s, <2>1, <2>4, <2>6, <3>1, <3>3 DEF CredentialsOK
    <3>. QED  BY <3>2, <3>3
  <2>13. \A r, q \in Procs : ((Fresh(r))' /\ (Fresh(q))' /\ (proc[r].held.f = proc[q].held.f)') => r = q
    <3>1. ASSUME NEW r \in Procs, r # p, (Fresh(r))'
          PROVE  proc'[r].held.f # f
      BY <1>s, <2>4, <2>6, <2>8, <3>1 DEF CredentialsOK
    <3>2. proc'[p].held.f = f
      BY <2>2, <2>4, <2>c
    <3>. QED  BY <1>s, <2>4, <2>6, <3>1, <3>2 DEF CredentialsOK
  <2>14. CredentialsOK'
    BY <2>9, <2>10, <2>11, <2>12, <2>13, <2>1 DEF CredentialsOK
  <2>. QED  BY <1>s, <2>1, <2>5, <2>14 DEF Sound
<1>13. ASSUME NEW p \in Procs, ReadRecord(p)
       PROVE  Sound'
  <2>0. PICK y \in Processes : ReadAs(p, y)
    BY <1>13, RecordIsRead
  <2>1. /\ proc[p].at = "locked" /\ proc' = [proc EXCEPT ![p] = y]
        /\ UNCHANGED <<session, cred, record, lock, replayed>>
    BY <1>13, <2>0 DEF ReadRecord, ReadAs
  <2>2. proc'[p] = y /\ \A r \in Procs : r # p => proc'[r] = proc[r]
    BY <1>n, <2>1
  <2>3. wire = {} /\ \A r \in Procs : r # p => proc[r].at # "refresh"
    BY <2>1, OneHolder
  <2>4. y.at \in {"release", "delete", "revoke", "store", "refresh"} /\ y.want = proc[p].want
    BY <2>0 DEF ReadAs
  <2>5. Exclusive'
    BY <1>s, <2>1, <2>2, <2>4 DEF Exclusive
  <2>6. RefreshOK'
    <3>1. CASE y.at = "refresh"
      <4>1. /\ y.want = "token" /\ y.held = record /\ record # None
            /\ wire' = {[to |-> p, c |-> record, read |-> FALSE]}
        BY <2>0, <2>3, <3>1 DEF ReadAs
      <4>. QED  BY <2>1, <2>2, <2>3, <3>1, <4>1 DEF RefreshOK
    <3>2. CASE y.at # "refresh"
      <4>1. wire' = {}
        BY <2>0, <2>3, <3>2 DEF ReadAs
      <4>. QED  BY <2>2, <2>3, <3>2, <4>1 DEF RefreshOK
    <3>. QED  BY <3>1, <3>2
  <2>7. CredentialsOK'
    <3>1. (y.at = "store" /\ y.want # "establish") <=> Promised(p)
      BY <2>0, <2>1 DEF ReadAs, Promised
    <3>2. /\ y.want = "establish" /\ y.at \in {"locking", "locked", "store"} => Fresh(p)
          /\ y.at = "store" \/ (y.want = "establish" /\ y.at \in {"locking", "locked"}) => y.held = proc[p].held
      BY <2>0, <2>1 DEF ReadAs, Fresh
    <3>. QED  BY <1>s, <2>1, <3>1, <3>2, UnchangedFamilies, HarmlessKeepsCredentials
  <2>. QED  BY <1>s, <2>1, <2>5, <2>6, <2>7 DEF Sound
<1>14. ASSUME NEW p \in Procs, StoreRecord(p)
       PROVE  Sound'
  <2>. DEFINE y == [proc[p] EXCEPT !.at = "release", !.token = proc[p].held]
  <2>1. /\ proc[p].at = "store" /\ proc' = [proc EXCEPT ![p] = y] /\ record' = proc[p].held
        /\ UNCHANGED <<session, cred, lock, wire, replayed>>
    BY <1>14 DEF StoreRecord
  <2>2. y.at = "release" /\ y.want = proc[p].want
    BY <1>n DEF Processes
  <2>. HIDE DEF y
  <2>3. proc'[p] = y /\ \A r \in Procs : r # p => proc'[r] = proc[r]
    BY <1>n, <2>1
  <2>4. wire = {} /\ \A r \in Procs : r # p => proc[r].at \notin Holding
    BY <2>1, OneHolder
  <2>5. Exclusive'
    BY <1>s, <2>1, <2>2, <2>3 DEF Exclusive
  <2>6. RefreshOK'
    BY <2>1, <2>2, <2>3, <2>4 DEF RefreshOK
  <2>7. Promised(p) \/ Fresh(p)
    BY <2>1 DEF Promised, Fresh
  <2>8. PICK c : c = proc[p].held /\ c = record'
    BY <2>1
  <2>9. Started(c) /\ Usable(c)
    BY <1>s, <2>7, <2>8 DEF CredentialsOK
  <2>10. (Started(record))' /\ (Usable(record))'
    BY <2>1, <2>8, <2>9 DEF Started, Usable, Consumable
  <2>11. \A r \in Procs : ~(Promised(r))' /\ ((Fresh(r))' <=> r # p /\ Fresh(r))
    BY <2>2, <2>3, <2>4 DEF Promised, Fresh
  <2>12. \A r \in Procs : (Fresh(r))' => (Started(proc[r].held))' /\ (Usable(proc[r].held))'
    <3>1. SUFFICES ASSUME NEW r \in Procs, (Fresh(r))'
                   PROVE  (Started(proc[r].held))' /\ (Usable(proc[r].held))'
      OBVIOUS
    <3>2. Fresh(r) /\ proc'[r] = proc[r]
      BY <2>3, <2>11, <3>1
    <3>3. Started(proc[r].held) /\ Usable(proc[r].held)
      BY <1>s, <3>2 DEF CredentialsOK
    <3>. QED  BY <2>1, <3>2, <3>3 DEF Started, Usable, Consumable
  <2>13. ASSUME NEW r \in Procs, (Fresh(r))'
         PROVE  record'.f # proc'[r].held.f
    <3>1. r # p /\ Fresh(r) /\ proc'[r] = proc[r]
      BY <2>3, <2>11, <2>13
    <3>2. CASE Promised(p)
      BY <1>s, <2>1, <3>1, <3>2 DEF CredentialsOK
    <3>3. CASE Fresh(p)
      BY <1>s, <2>1, <3>1, <3>3 DEF CredentialsOK
    <3>. QED  BY <2>7, <3>2, <3>3
  <2>14. \A r, q \in Procs : ((Fresh(r))' /\ (Fresh(q))' /\ (proc[r].held.f = proc[q].held.f)') => r = q
    BY <1>s, <2>3, <2>11 DEF CredentialsOK
  <2>15. CredentialsOK'
    BY <2>10, <2>11, <2>12, <2>13, <2>14 DEF CredentialsOK
  <2>. QED  BY <1>s, <2>1, <2>5, <2>6, <2>15 DEF Sound
<1>15. ASSUME NEW p \in Procs, Revoke(p)
       PROVE  Sound'
  <2>. DEFINE y == [proc[p] EXCEPT !.at = "delete"]
  <2>1. /\ proc[p].at = "revoke" /\ proc' = [proc EXCEPT ![p] = y]
        /\ UNCHANGED <<record, lock, wire, replayed>>
    BY <1>15 DEF Revoke, Goto
  <2>2. y.at = "delete" /\ y.want = proc[p].want
    BY <1>n DEF Processes
  <2>3. FamiliesKept
    <3>1. CASE UNCHANGED <<session, cred>>
      BY <3>1, UnchangedFamilies
    <3>2. CASE RevokeSessionFamily(proc[p].held.f, "revoked") /\ proc[p].held.f \in Families
      BY <3>2, RevokeKeepsFamilies
    <3>3. CASE RevokeSessionFamily(proc[p].held.f, "revoked") /\ proc[p].held.f \notin Families
      BY <3>3, UnchangedFamilies DEF RevokeSessionFamily, TypeOK
    <3>. QED  BY <1>15, <3>1, <3>2, <3>3 DEF Revoke
  <2>. HIDE DEF y
  <2>4. Harmless(p, y)
    BY <2>1, <2>2 DEF Harmless, Promised
  <2>. QED  BY <2>1, <2>3, <2>4, HarmlessKeepsSound
<1>16. ASSUME NEW p \in Procs, DeleteRecord(p)
       PROVE  Sound'
  <2>. DEFINE y == [proc[p] EXCEPT !.at = "release", !.token = None]
  <2>1. /\ proc[p].at = "delete" /\ proc' = [proc EXCEPT ![p] = y] /\ record' \in {None, record}
        /\ UNCHANGED <<session, cred, lock, wire, replayed>>
    BY <1>16 DEF DeleteRecord
  <2>2. y.at = "release" /\ y.want = proc[p].want
    BY <1>n DEF Processes
  <2>. HIDE DEF y
  <2>3. Harmless(p, y)
    BY <2>1, <2>2 DEF Harmless, Promised
  <2>4. CASE record' = record
    BY <2>1, <2>3, <2>4, UnchangedFamilies, HarmlessKeepsSound
  <2>5. CASE record' = None
    <3>1. proc'[p] = y /\ \A r \in Procs : r # p => proc'[r] = proc[r]
      BY <1>n, <2>1
    <3>2. wire = {} /\ \A r \in Procs : r # p => proc[r].at \notin Holding
      BY <2>1, OneHolder
    <3>3. Exclusive'
      BY <1>s, <2>1, <2>2, <3>1 DEF Exclusive
    <3>4. RefreshOK'
      BY <2>1, <2>2, <3>1, <3>2 DEF RefreshOK
    <3>5. \A r \in Procs : ~(Promised(r))' /\ ((Fresh(r))' => Fresh(r) /\ proc'[r] = proc[r])
      BY <2>2, <3>1, <3>2 DEF Promised, Fresh
    <3>6. \A r \in Procs : (Fresh(r))' => (Started(proc[r].held))' /\ (Usable(proc[r].held))'
      BY <1>s, <2>1, <3>5 DEF CredentialsOK, Started, Usable, Consumable
    <3>7. \A r, q \in Procs : ((Fresh(r))' /\ (Fresh(q))' /\ (proc[r].held.f = proc[q].held.f)') => r = q
      BY <1>s, <3>5 DEF CredentialsOK
    <3>8. CredentialsOK'
      BY <2>5, <3>5, <3>6, <3>7 DEF CredentialsOK
    <3>. QED  BY <1>s, <2>1, <3>3, <3>4, <3>8 DEF Sound
  <2>. QED  BY <2>1, <2>4, <2>5
<1>17. ASSUME NEW q \in wire
       PROVE  /\ q.to \in Procs /\ proc[q.to].at = "refresh" /\ proc[q.to].want = "token"
              /\ q.c \in Credentials /\ q.c = record /\ record # None
              /\ Started(record) /\ Usable(record)
              /\ wire \ {q} = {}
              /\ \A r \in Procs : r # q.to => proc[r].at \notin Holding
  <2>1. q.to \in Procs /\ proc[q.to].at = "refresh" /\ proc[q.to].held = q.c
    BY <1>s, <1>17 DEF RefreshOK
  <2>2. proc[q.to].want = "token" /\ record # None /\ q.c = record /\ q.c \in Credentials
    BY <1>s, <1>w, <1>17, <2>1 DEF RefreshOK
  <2>3. \A r \in Procs : proc[r].at \in Holding => r = q.to
    BY <2>1, OneHolder
  <2>4. \A r \in Procs : ~Promised(r)
    BY <2>1, OneHolder
  <2>5. ASSUME NEW r \in wire
        PROVE  r = q
    <3>1. r.to \in Procs /\ proc[r.to].at = "refresh"
      BY <1>s, <2>5 DEF RefreshOK
    <3>2. r.to = q.to
      BY <2>3, <3>1
    <3>. QED  BY <2>1, <3>2 DEF WireOK
  <2>6. Started(record) /\ Usable(record)
    BY <1>s, <2>2, <2>4 DEF CredentialsOK
  <2>. QED  BY <2>1, <2>2, <2>3, <2>5, <2>6
<1>18. ASSUME NEW q \in wire, ServerReads(q)
       PROVE  Sound'
  <2>. DEFINE z == [q EXCEPT !.read = TRUE]
  <2>1. wire' = (wire \ {q}) \cup {z} /\ UNCHANGED <<session, cred, record, lock, proc, replayed>>
    BY <1>18 DEF ServerReads
  <2>2. z.to = q.to /\ z.c = q.c
    BY <1>w
  <2>. HIDE DEF z
  <2>3. RefreshOK'
    BY <1>s, <2>1, <2>2 DEF RefreshOK
  <2>4. Exclusive'
    BY <1>s, <2>1 DEF Exclusive
  <2>5. CredentialsOK'
    BY <1>s, <2>1, UnchangedFamilies, CredentialsKept DEF Promised, Fresh
  <2>. QED  BY <1>s, <2>1, <2>3, <2>4, <2>5 DEF Sound
<1>19. ASSUME NEW q \in wire, ServerExpires(q) \/ ServerRefuses(q)
       PROVE  Sound'
  <2>1. Answered(q, "delete", None) /\ UNCHANGED <<record, lock>> /\ wire' = wire \ {q}
    BY <1>19 DEF ServerExpires, ServerRefuses
  <2>2. FamiliesKept
    <3>1. q.c.f \in Families
      BY <1>w DEF Credentials
    <3>. QED  BY <1>19, <3>1, RevokeKeepsFamilies DEF ServerExpires, ServerRefuses
  <2>3. replayed' = {}
    <3>1. CASE ServerExpires(q)
      BY <1>s, <3>1 DEF ServerExpires
    <3>2. CASE ServerRefuses(q)
      <4>1. session[q.c.f] # "active"
        BY <1>17, <3>2 DEF ServerRefuses, Usable
      <4>. QED  BY <1>s, <3>2, <4>1 DEF ServerRefuses
    <3>. QED  BY <1>19, <3>1, <3>2
  <2>4. PICK y \in Processes :
           /\ proc' = [proc EXCEPT ![q.to] = y]
           /\ y.at = "delete" /\ y.held = None /\ y.want = proc[q.to].want
           /\ y.mine = proc[q.to].mine /\ y.seen = proc[q.to].seen
    BY <1>17, <2>1, AnswerArrives
  <2>5. PICK p \in Procs : p = q.to
    BY <1>17
  <2>6. proc'[p] = y /\ \A r \in Procs : r # p => proc'[r] = proc[r]
    BY <1>n, <2>4, <2>5
  <2>7. wire' = {}
    BY <1>17, <2>1
  <2>8. Exclusive'
    BY <1>s, <1>17, <2>1, <2>4, <2>5, <2>6 DEF Exclusive
  <2>9. RefreshOK'
    BY <1>17, <2>4, <2>5, <2>6, <2>7 DEF RefreshOK
  <2>10. CredentialsOK'
    <3>1. proc' = [proc EXCEPT ![p] = y] /\ ~Promised(p)
      BY <1>17, <2>4, <2>5 DEF Promised
    <3>. QED  BY <1>s, <2>1, <2>2, <2>4, <3>1, HarmlessKeepsCredentials
  <2>. QED  BY <2>3, <2>8, <2>9, <2>10 DEF Sound
<1>20. ASSUME NEW q \in wire, ServerRotates(q)
       PROVE  Sound'
  <2>. DEFINE d == [q.c EXCEPT !.g = @ + 1]
  <2>1. Rotate(q.c) /\ Answered(q, "store", d) /\ wire' = wire \ {q} /\ UNCHANGED <<record, lock, replayed>>
    BY <1>20 DEF ServerRotates
  <2>2. /\ d \in Credentials /\ d.f = q.c.f /\ d.g = q.c.g + 1
        /\ cred'[q.c.f][q.c.g + 1] = "active"
        /\ \A f \in Families : f # q.c.f => cred'[f] = cred[f]
    BY <1>17, <2>1, NextGeneration
  <2>. HIDE DEF d
  <2>3. session' = session
    BY <2>1 DEF Rotate
  <2>4. PICK y \in Processes :
           /\ proc' = [proc EXCEPT ![q.to] = y]
           /\ y.at = "store" /\ y.held = d /\ y.want = proc[q.to].want
           /\ y.mine = proc[q.to].mine /\ y.seen = proc[q.to].seen
    BY <1>17, <2>1, <2>2, AnswerArrives
  <2>5. PICK p \in Procs : p = q.to
    BY <1>17
  <2>6. proc'[p] = y /\ \A r \in Procs : r # p => proc'[r] = proc[r]
    BY <1>n, <2>4, <2>5
  <2>7. wire' = {} /\ \A r \in Procs : r # p => proc[r].at \notin Holding
    BY <1>17, <2>1, <2>5
  <2>8. Exclusive'
    BY <1>s, <1>17, <2>1, <2>4, <2>5, <2>6 DEF Exclusive
  <2>9. RefreshOK'
    BY <2>4, <2>6, <2>7 DEF RefreshOK
  <2>10. /\ (Promised(p))' /\ ~(Fresh(p))'
         /\ \A r \in Procs : r # p => ~(Promised(r))' /\ ((Fresh(r))' <=> Fresh(r))
    BY <1>17, <2>4, <2>5, <2>6, <2>7 DEF Promised, Fresh
  <2>11. (Started(d))' /\ (Usable(d))'
    <3>1. session[d.f] # "none"
      BY <1>17, <2>2 DEF Started
    <3>. QED  BY <2>2, <2>3, <3>1 DEF Started, Usable, Consumable
  <2>12. \A r \in Procs : (Promised(r))' \/ (Fresh(r))' => (Started(proc[r].held))' /\ (Usable(proc[r].held))'
    <3>1. SUFFICES ASSUME NEW r \in Procs, (Promised(r))' \/ (Fresh(r))'
                   PROVE  (Started(proc[r].held))' /\ (Usable(proc[r].held))'
      OBVIOUS
    <3>2. CASE r = p
      BY <2>4, <2>6, <2>11, <3>2 DEF Started, Usable, Consumable
    <3>3. CASE r # p
      <4>1. Fresh(r) /\ proc'[r] = proc[r]
        BY <2>6, <2>10, <3>1, <3>3
      <4>2. PICK c : c = proc[r].held
        OBVIOUS
      <4>3. Started(c) /\ Usable(c) /\ c.f # record.f /\ c.f \in Families
        BY <1>s, <1>17, <4>1, <4>2 DEF CredentialsOK, Started, Credentials
      <4>4. cred'[c.f] = cred[c.f]
        BY <1>17, <2>2, <4>3
      <4>5. (Started(c))' /\ (Usable(c))'
        BY <2>3, <4>3, <4>4 DEF Started, Usable, Consumable
      <4>. QED  BY <4>1, <4>2, <4>5 DEF Started, Usable, Consumable
    <3>. QED  BY <3>2, <3>3
  <2>13. \A r \in Procs : (Promised(r))' => (record # None /\ record.f = proc[r].held.f)'
    BY <1>17, <2>1, <2>2, <2>4, <2>6, <2>10
  <2>14. (Started(record))'
    BY <1>17, <2>1, <2>3 DEF Started
  <2>15. \A r \in Procs : (Fresh(r))' => (record = None \/ record.f # proc[r].held.f)'
    BY <1>s, <2>1, <2>6, <2>10 DEF CredentialsOK
  <2>16. \A r, o \in Procs : ((Fresh(r))' /\ (Fresh(o))' /\ (proc[r].held.f = proc[o].held.f)') => r = o
    BY <1>s, <2>6, <2>10 DEF CredentialsOK
  <2>17. CredentialsOK'
    BY <2>10, <2>12, <2>13, <2>14, <2>15, <2>16 DEF CredentialsOK
  <2>. QED  BY <1>s, <2>1, <2>8, <2>9, <2>17 DEF Sound
(* The other steps are faults.                                             *)
<1>21. ASSUME NEW p \in Procs, Timeout(p) \/ StoreFails(p) \/ Crash(p)
       PROVE  FALSE
  BY <1>21 DEF Timeout, StoreFails, Crash, TypeOK
<1>22. ASSUME NEW f \in Families, EstablishLost(f)
       PROVE  FALSE
  BY <1>22 DEF EstablishLost, TypeOK
<1>. QED
  BY <1>2, <1>3, <1>4, <1>5, <1>7, <1>8, <1>10, <1>11, <1>12, <1>13, <1>14, <1>15, <1>16, <1>18, <1>19, <1>20,
     <1>21, <1>22 DEF Next, Step, Server

(* Faults are counted up.                                                  *)
LEMMA FaultsGrow ==
    ASSUME TypeOK, [Next]_vars, faults' = 0
    PROVE  faults = 0
<1>1. faults \in Nat
  BY BoundsAssumption DEF TypeOK
<1>2. faults' = faults \/ faults' = faults + 1
  BY DEF vars, Next, Step, Server, Acquire, FindOrphan, ClaimRecord, RemoveRecord, Release, ReadRecord,
     StoreRecord, Revoke, DeleteRecord, GiveUp, EnsureAccessToken, RefreshAccessToken, Invalidate, Logout,
     Establish, Timeout, StoreFails, Crash, TokenLapses, AuthenticateExpired, PasswordReset, EstablishLost,
     ServerReads, ServerRotates, ServerExpires, ServerRefuses
<1>. QED  BY <1>1, <1>2

LEMMA LauncherInvariant == Spec => []LauncherInv
<1>1. Init => LauncherInv
  <2>1. SUFFICES ASSUME Init
                 PROVE  LauncherInv
    OBVIOUS
  <2>2. TypeOK
    BY <2>1, BoundsAssumption DEF Init, TypeOK, Idle, Processes, Wants
  <2>3. proc = [p \in Procs |-> Idle] /\ Idle.at = "idle" /\ Idle.want = "token"
        /\ Idle.mine = NoLock /\ Idle.seen = NoLock
    BY <2>1 DEF Init, Idle
  <2>4. IdsOK /\ WireOK /\ Exclusive /\ RefreshOK
    BY <2>1, <2>3 DEF Init, IdsOK, WireOK, Exclusive, RefreshOK, Holding
  <2>5. CredentialsOK
    BY <2>1, <2>3 DEF Init, CredentialsOK, Promised, Fresh
  <2>. QED  BY <2>1, <2>2, <2>4, <2>5 DEF LauncherInv, Sound, Init
<1>2. LauncherInv /\ [Next]_vars => LauncherInv'
  <2>1. SUFFICES ASSUME LauncherInv, [Next]_vars
                 PROVE  LauncherInv'
    OBVIOUS
  <2>2. TypeOK' /\ IdsOK' /\ WireOK'
    BY <2>1, LauncherTypeStep, LauncherWireStep DEF LauncherInv
  <2>3. ASSUME faults' = 0
        PROVE  Sound'
    <3>1. faults = 0 /\ Sound
      BY <2>1, <2>3, FaultsGrow DEF LauncherInv
    <3>2. CASE Next
      BY <2>1, <2>2, <2>3, <3>1, <3>2, LauncherSoundStep DEF LauncherInv
    <3>3. CASE UNCHANGED vars
      BY <3>1, <3>3 DEF vars, Sound, Exclusive, RefreshOK, CredentialsOK, Promised, Fresh, Started, Usable, Consumable
    <3>. QED  BY <2>1, <3>2, <3>3
  <2>. QED  BY <2>2, <2>3 DEF LauncherInv
<1>. QED  BY <1>1, <1>2, PTL DEF Spec

(***************************************************************************)
(* The session rows, the record, the lock file and every process keep      *)
(* their types: rotateDurableCredential, the lock and the launcher's calls.*)
(***************************************************************************)
THEOREM LauncherTypeCorrect == Spec => []TypeOK
<1>1. LauncherInv => TypeOK
  BY DEF LauncherInv
<1>. QED  BY <1>1, LauncherInvariant, PTL

(***************************************************************************)
(* However many processes of a computer share the keychain record, the     *)
(* lock keeps rotateDurableCredential from seeing one credential twice     *)
(* unless an answer was lost, a keychain write failed or a process died.   *)
(***************************************************************************)
THEOREM OnlyFaultsReplay == Spec => []ReplayNeedsAFault
<1>1. LauncherInv => ReplayNeedsAFault
  <2>1. SUFFICES ASSUME LauncherInv, replayed # {}
                 PROVE  faults > 0
    BY DEF ReplayNeedsAFault
  <2>2. faults # 0 /\ faults \in 0..MaxFaults /\ MaxFaults \in Nat
    BY <2>1, BoundsAssumption DEF LauncherInv, Sound, TypeOK
  <2>. QED  BY <2>2
<1>. QED  BY <1>1, LauncherInvariant, PTL

=============================================================================
