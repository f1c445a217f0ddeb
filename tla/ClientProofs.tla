---------------------------- MODULE ClientProofs ----------------------------
(***************************************************************************)
(* The clients' proofs: that an installation with a keychain does not      *)
(* forget a revocation it owes (DeviceSession), that the spinner of the    *)
(* analysis page turns exactly while a call may still show a report        *)
(* (Generation), and who gets in by a confirmed link or with a passkey;    *)
(* and that these and what ShellProofs and MeetingProofs show hold in the  *)
(* union they are checked in.                                              *)
(***************************************************************************)
EXTENDS MCClients, ShellProofs, MeetingProofs

\* The server still lets u use this device.
Usable(u) == row = [user |-> u, revoked |-> FALSE]
NoneUsable == \A u \in alone : ~Usable(u)

(***************************************************************************)
(* Why a debt can be dropped where the code drops it.  A session replaces   *)
(* the debt only when the row is another account's, an answered DELETE only  *)
(* when it has revoked the row.  A session that awaits bcrypt was loaded when *)
(* no owed account was usable, and none is added while it waits.           *)
(***************************************************************************)
StoreOK == store.user # NoAccount => store.debt = NoAccount
LoginsOK ==
    /\ \A u \in alone, l \in UnderWay : login[l].user # u
    /\ \A l \in Logins : login[l].at = "registered" => NoneUsable
VerifyOK == verify # {} => NoneUsable /\ \A cached \in verify : cached.debt = NoAccount
AnswersOK == \A u \in alone \cap revoked : ~Usable(u)

SessionInv == SessionTypeOK /\ StoreOK /\ LoginsOK /\ VerifyOK /\ AnswersOK /\ DebtKept

-----------------------------------------------------------------------------
StoreType == [user : Accounts \cup {NoAccount}, hash : BOOLEAN, signedOut : BOOLEAN, debt : Accounts \cup {NoAccount}]
RowType == [user : Accounts \cup {NoAccount}, revoked : BOOLEAN]
VerifyType == [user : Accounts, hash : {TRUE}, signedOut : BOOLEAN, debt : Accounts \cup {NoAccount}]
LoginType == [at : LoginSteps, user : Accounts \cup {NoAccount}, password : BOOLEAN, tries : 0..MaxTries]

LEMMA Stores ==
  /\ Null \in StoreType /\ Null.user = NoAccount /\ Null.debt = NoAccount
  /\ \A u \in Accounts \cup {NoAccount}, h \in BOOLEAN :
        Session(u, h) \in StoreType /\ Session(u, h).user = u /\ Session(u, h).debt = NoAccount
  /\ \A u \in Accounts : Debt(u) \in StoreType /\ Debt(u).user = NoAccount /\ Debt(u).debt = u
<1>1. Null \in StoreType /\ Null.user = NoAccount /\ Null.debt = NoAccount
  BY DEF Null, StoreType
<1>2. ASSUME NEW u \in Accounts \cup {NoAccount}, NEW h \in BOOLEAN
      PROVE  Session(u, h) \in StoreType /\ Session(u, h).user = u /\ Session(u, h).debt = NoAccount
  BY DEF Session, StoreType
<1>3. ASSUME NEW u \in Accounts
      PROVE  Debt(u) \in StoreType /\ Debt(u).user = NoAccount /\ Debt(u).debt = u
  BY DEF Debt, StoreType
<1> QED
  BY <1>1, <1>2, <1>3

\* What a verification loads is a stored session, and what it saves is one too.
LEMMA VerifiedSession ==
  ASSUME NEW cached \in VerifyType
  PROVE  /\ cached \in StoreType /\ [cached EXCEPT !.signedOut = FALSE] \in StoreType
         /\ [cached EXCEPT !.signedOut = FALSE].debt = cached.debt /\ cached.user \in Accounts
  BY DEF VerifyType, StoreType

LEMMA Rows ==
  ASSUME NEW u \in Accounts \cup {NoAccount}, row \in RowType
  PROVE  RowRevokedBy(u) \in RowType /\ RowRevokedBy(u) # [user |-> u, revoked |-> FALSE]
         /\ \A v \in Accounts : RowRevokedBy(u) = [user |-> v, revoked |-> FALSE] => Usable(v)
  BY DEF RowRevokedBy, RowType, Usable

LEMMA SessionInvInit == SessionInit => SessionInv
<1> SUFFICES ASSUME SessionInit
             PROVE  SessionInv
  OBVIOUS
<1>1. NoLogin \in LoginType
  BY SessionAssumption DEF NoLogin, LoginType, LoginSteps
<1>2. SessionTypeOK
  <2>1. verify \subseteq VerifyType
    BY DEF SessionInit
  <2>2. login \in [Logins -> LoginType]
    BY <1>1 DEF SessionInit
  <2>3. row \in RowType /\ store \in StoreType /\ forgets \in 0..MaxForgets
    BY Stores, SessionAssumption DEF SessionInit, RowType
  <2> QED
    BY <2>1, <2>2, <2>3 DEF SessionInit, SessionTypeOK, StoreType, RowType, VerifyType, LoginType
<1>3. StoreOK /\ LoginsOK /\ VerifyOK /\ AnswersOK /\ DebtKept
  BY Stores DEF SessionInit, StoreOK, LoginsOK, VerifyOK, AnswersOK, DebtKept, NoLogin
<1> QED
  BY <1>2, <1>3 DEF SessionInv

\* The steps of a login change its own record and keep its account.
LEMMA LoginStep ==
  ASSUME SessionInv, NEW l \in Logins, NEW at \in LoginSteps, NEW n \in 0..MaxTries,
         login[l].at \notin {"new", "over"}, at # "new",
         login' = [login EXCEPT ![l] = [login[l] EXCEPT !.at = at, !.tries = n]]
  PROVE  /\ login' \in [Logins -> LoginType]
         /\ login'[l].at = at /\ login[l].user \in Accounts \cup {NoAccount}
         /\ \A k \in Logins : login'[k].user = login[k].user /\ (k # l => login'[k] = login[k])
         /\ UnderWay' \subseteq UnderWay
  BY DEF SessionInv, SessionTypeOK, LoginType, UnderWay

\* What a step keeps that changes neither who is owed a revocation nor the verification.
LEMMA SmallStep ==
  ASSUME SessionInv, SessionTypeOK', StoreOK',
         UNCHANGED <<ui, verify, alone>>, revoked' \subseteq revoked,
         UnderWay' \subseteq UnderWay, \A l \in Logins : login'[l].user = login[l].user,
         \A u \in alone : Usable(u)' => Usable(u) /\ (store.debt = u => store'.debt = u),
         \A l \in Logins : login'[l].at = "registered" => login[l].at = "registered" \/ NoneUsable'
  PROVE  SessionInv'
<1>1. NoneUsable => NoneUsable'
  BY DEF NoneUsable
<1>2. DebtKept'
  BY DEF SessionInv, DebtKept, Usable
<1>3. LoginsOK'
  BY <1>1 DEF SessionInv, LoginsOK, UnderWay
<1>4. VerifyOK' /\ AnswersOK'
  BY <1>1 DEF SessionInv, VerifyOK, AnswersOK
<1> QED
  BY <1>2, <1>3, <1>4 DEF SessionInv

\* An answer clears the debt it was about, and no other.
LEMMA DebtCleared ==
  ASSUME NEW u \in Accounts \cup {NoAccount}, store \in StoreType, StoreOK
  PROVE  /\ WithoutDebt(u) \in StoreType
         /\ WithoutDebt(u).user # NoAccount => WithoutDebt(u).debt = NoAccount
         /\ \A v \in Accounts \ {u} : store.debt = v => WithoutDebt(u).debt = v
  BY Stores DEF WithoutDebt, StoreOK

LEMMA SettleStep ==
  ASSUME SessionInv, NEW l \in Logins, Settle(l) \/ SettleAnswered(l) \/ SettleFails(l)
  PROVE  SessionInv'
<1> DEFINE u == login[l].user
<1>1. l \in UnderWay /\ u \in Accounts \cup {NoAccount} /\ u \notin alone /\ login[l].at \notin {"new", "over"}
  BY DEF SessionInv, SessionTypeOK, LoginsOK, UnderWay, Settle, SettleAnswered, SettleFails
<1>2. PICK at \in {"settled", "register"} : Step(l, at)
  BY DEF Settle, SettleAnswered, SettleFails
<1>3. login' = [login EXCEPT ![l] = [login[l] EXCEPT !.at = at, !.tries = login[l].tries]]
  BY <1>2 DEF Step, SessionInv, SessionTypeOK
<1>4. /\ login' \in [Logins -> LoginType] /\ login'[l].at = at /\ UnderWay' \subseteq UnderWay
      /\ \A k \in Logins : login'[k].user = login[k].user /\ (k # l => login'[k] = login[k])
  <2>1. login[l].tries \in 0..MaxTries /\ at \in LoginSteps /\ at # "new"
    BY DEF SessionInv, SessionTypeOK, LoginSteps
  <2> QED
    BY <1>1, <1>3, <2>1, LoginStep
<1>5. /\ UNCHANGED <<meta, ui, verify, deletes, revoked, owed, alone, forgotten, forgets>>
      /\ row' \in {row, RowRevokedBy(u)} /\ store' \in {store, WithoutDebt(u)}
  BY DEF Settle, SettleAnswered, SettleFails
<1>6. store \in StoreType /\ row \in RowType /\ StoreOK /\ alone \subseteq Accounts
  BY DEF SessionInv, SessionTypeOK, StoreType, RowType
<1>7. store' \in StoreType /\ StoreOK' /\ \A v \in alone : store.debt = v => store'.debt = v
  BY <1>1, <1>5, <1>6, DebtCleared DEF StoreOK
<1>8. row' \in RowType /\ \A v \in alone : Usable(v)' => Usable(v)
  BY <1>1, <1>5, <1>6, Rows DEF Usable
<1>9. SessionTypeOK'
  BY <1>4, <1>5, <1>7, <1>8 DEF SessionInv, SessionTypeOK, StoreType, RowType, LoginType
<1> QED
  BY <1>4, <1>5, <1>7, <1>8, <1>9, SmallStep

LEMMA RegisterStep ==
  ASSUME SessionInv, NEW l \in Logins, Register(l)
  PROVE  SessionInv'
<1> DEFINE u == login[l].user
<1>1. l \in UnderWay /\ u \in Accounts \cup {NoAccount} /\ u \notin alone /\ login[l].at \notin {"new", "over"}
  BY DEF SessionInv, SessionTypeOK, LoginsOK, UnderWay, Register
<1>2. login' = [login EXCEPT ![l] = [login[l] EXCEPT !.at = "registered", !.tries = login[l].tries]]
  BY DEF Register, Step, SessionInv, SessionTypeOK
<1>3. /\ login' \in [Logins -> LoginType] /\ UnderWay' \subseteq UnderWay
      /\ \A k \in Logins : login'[k].user = login[k].user /\ (k # l => login'[k] = login[k])
  <2>1. login[l].tries \in 0..MaxTries /\ "registered" \in LoginSteps
    BY DEF SessionInv, SessionTypeOK, LoginSteps
  <2> QED
    BY <1>1, <1>2, <2>1, LoginStep
<1>4. row' = [user |-> u, revoked |-> FALSE]
  BY DEF Register, RegisteredRow
<1>5. UNCHANGED <<store, meta, ui, verify, deletes, revoked, owed, alone, forgotten, forgets>>
  BY DEF Register
<1>6. \A v \in alone : ~Usable(v)'
  BY <1>1, <1>4, <1>5 DEF Usable
<1>7. SessionTypeOK' /\ StoreOK'
  BY <1>1, <1>3, <1>4, <1>5 DEF SessionInv, SessionTypeOK, LoginType, StoreOK
<1>8. NoneUsable'
  BY <1>5, <1>6 DEF NoneUsable
<1> QED
  BY <1>3, <1>5, <1>6, <1>7, <1>8, SmallStep

LEMMA RegisterFailsStep ==
  ASSUME SessionInv, NEW l \in Logins, RegisterFails(l)
  PROVE  SessionInv'
<1>1. login[l].at \notin {"new", "over"} /\ login[l].tries \in 0..MaxTries
  BY DEF SessionInv, SessionTypeOK, RegisterFails
<1>2. PICK at \in {"register", "over"}, n \in 0..MaxTries :
          login' = [login EXCEPT ![l] = [login[l] EXCEPT !.at = at, !.tries = n]]
  <2>1. CASE login[l].tries + 1 < MaxTries /\ login' = [login EXCEPT ![l].at = "register", ![l].tries = @ + 1]
    <3>1. login[l].tries + 1 \in 0..MaxTries
      BY <1>1, <2>1, SessionAssumption
    <3> QED
      BY <2>1, <3>1
  <2>2. CASE Step(l, "over")
    <3>1. login' = [login EXCEPT ![l] = [login[l] EXCEPT !.at = "over", !.tries = login[l].tries]]
      BY <2>2 DEF Step, SessionInv, SessionTypeOK
    <3> QED
      BY <1>1, <3>1
  <2> QED
    BY <2>1, <2>2 DEF RegisterFails
<1>3. /\ login' \in [Logins -> LoginType] /\ login'[l].at = at /\ UnderWay' \subseteq UnderWay
      /\ \A k \in Logins : login'[k].user = login[k].user /\ (k # l => login'[k] = login[k])
  BY <1>1, <1>2, LoginStep DEF LoginSteps
<1>4. UNCHANGED <<store, meta, row, ui, verify, deletes, revoked, owed, alone, forgotten, forgets>>
  BY DEF RegisterFails
<1>5. SessionTypeOK' /\ StoreOK'
  BY <1>3, <1>4 DEF SessionInv, SessionTypeOK, LoginType, StoreOK
<1> QED
  BY <1>3, <1>4, <1>5, SmallStep DEF Usable

\* A session takes the place of a debt only where the row is another account's.
LEMMA EstablishStep ==
  ASSUME SessionInv, NEW l \in Logins, Establish(l)
  PROVE  SessionInv'
<1> DEFINE u == login[l].user
<1>1. /\ login[l].at = "registered" /\ u \in Accounts \cup {NoAccount} /\ login[l].password \in BOOLEAN
      /\ login[l].tries \in 0..MaxTries
  BY DEF SessionInv, SessionTypeOK, Establish
<1>2. login' = [login EXCEPT ![l] = [login[l] EXCEPT !.at = "over", !.tries = login[l].tries]]
  BY DEF Establish, Step, SessionInv, SessionTypeOK
<1>3. /\ login' \in [Logins -> LoginType] /\ login'[l].at = "over" /\ UnderWay' \subseteq UnderWay
      /\ \A k \in Logins : login'[k].user = login[k].user /\ (k # l => login'[k] = login[k])
  BY <1>1, <1>2, LoginStep DEF LoginSteps
<1>4. /\ store' = Session(u, login[l].password) /\ meta' = u
      /\ UNCHANGED <<row, ui, verify, deletes, revoked, owed, alone, forgotten, forgets>>
  BY DEF Establish
<1>5. store' \in StoreType /\ StoreOK'
  BY <1>1, <1>4, Stores DEF StoreOK
<1>6. SessionTypeOK'
  BY <1>1, <1>3, <1>4, <1>5 DEF SessionInv, SessionTypeOK, StoreType, LoginType
<1>7. NoneUsable
  BY <1>1 DEF SessionInv, LoginsOK
<1> QED
  BY <1>3, <1>4, <1>5, <1>6, <1>7, SmallStep DEF Usable, NoneUsable

LEMMA LogInStep ==
  ASSUME SessionInv, NEW l \in Logins, NEW u \in Accounts, NEW password \in BOOLEAN, LogIn(l, u, password)
  PROVE  SessionInv'
<1> DEFINE new == Begun(u, password)
<1>1. new \in LoginType /\ new.user = u /\ new.at \in {"settle", "register"}
  BY SessionAssumption DEF Begun, LoginType, LoginSteps
<1>2. login' = [login EXCEPT ![l] = new] /\ alone' = alone \ {u}
      /\ UNCHANGED <<store, row, verify, revoked>>
  BY DEF LogIn
<1> HIDE DEF new
<1>3. \A k \in Logins : login'[k] = IF k = l THEN new ELSE login[k]
  BY <1>2 DEF SessionInv, SessionTypeOK
<1>4. SessionTypeOK'
  <2>1. login' \in [Logins -> LoginType]
    BY <1>1, <1>2 DEF SessionInv, SessionTypeOK, LoginType
  <2>2. /\ ui' = u /\ owed' = owed \ {u} /\ alone' = alone \ {u} /\ forgotten' = FALSE
        /\ UNCHANGED <<store, meta, row, deletes, revoked, forgets>>
    BY DEF LogIn
  <2>3. ui' \in Accounts /\ owed' \subseteq Accounts /\ alone' \subseteq owed' /\ forgotten' \in BOOLEAN
    BY <2>2 DEF SessionInv, SessionTypeOK
  <2>4. UNCHANGED verify
    BY DEF LogIn
  <2>5. /\ store' \in StoreType /\ meta' \in Accounts \cup {NoAccount} /\ forgets' \in 0..MaxForgets
        /\ row' \in [user : Accounts \cup {NoAccount}, revoked : BOOLEAN]
        /\ verify' \subseteq VerifyType
        /\ deletes' \subseteq Accounts /\ revoked' \subseteq Accounts
    BY <2>2, <2>4 DEF SessionInv, SessionTypeOK, StoreType, VerifyType
  <2> QED
    BY <2>1, <2>3, <2>5 DEF SessionTypeOK, LoginType, StoreType, VerifyType
<1>5. LoginsOK'
  <2>1. \A v \in alone', k \in UnderWay' : login'[k].user # v
    BY <1>1, <1>2, <1>3 DEF SessionInv, LoginsOK, UnderWay
  <2>2. \A k \in Logins : login'[k].at = "registered" => NoneUsable'
    BY <1>1, <1>2, <1>3 DEF SessionInv, LoginsOK, NoneUsable, Usable
  <2> QED
    BY <2>1, <2>2 DEF LoginsOK
<1>6. StoreOK' /\ VerifyOK' /\ AnswersOK' /\ DebtKept'
  BY <1>2 DEF SessionInv, StoreOK, VerifyOK, AnswersOK, DebtKept, NoneUsable, Usable
<1> QED
  BY <1>4, <1>5, <1>6 DEF SessionInv

\* A session that can be verified leaves no debt, so no owed account is usable.
LEMMA ReverifyStep ==
  ASSUME SessionInv, NEW u \in Accounts, VerifyOffline(u)
  PROVE  SessionInv'
<1>1. /\ verify' = verify \cup {store} /\ store.user = u /\ store.hash
      /\ UNCHANGED <<store, meta, row, ui, login, deletes, revoked, owed, alone, forgets>> /\ forgotten' \in BOOLEAN
  BY DEF VerifyOffline
<1>2. store.debt = NoAccount /\ NoneUsable
  BY <1>1, SessionAssumption DEF SessionInv, SessionTypeOK, StoreOK, DebtKept, NoneUsable, Usable
<1>3. SessionTypeOK'
  <2>1. store \in VerifyType
    BY <1>1 DEF SessionInv, SessionTypeOK, VerifyType
  <2> QED
    BY <1>1, <2>1 DEF SessionInv, SessionTypeOK, VerifyType
<1>4. VerifyOK'
  BY <1>1, <1>2 DEF SessionInv, VerifyOK, NoneUsable, Usable
<1>5. StoreOK' /\ LoginsOK' /\ AnswersOK' /\ DebtKept'
  BY <1>1 DEF SessionInv, StoreOK, LoginsOK, UnderWay, AnswersOK, DebtKept, NoneUsable, Usable
<1> QED
  BY <1>3, <1>4, <1>5 DEF SessionInv

LEMMA VerifyEnds ==
  ASSUME SessionInv, NEW cached \in verify, VerifyAccepts(cached) \/ VerifyRejects(cached)
  PROVE  SessionInv'
<1>1. /\ verify' = verify \ {cached} /\ ui' \in {ui, cached.user}
      /\ store' \in {store, [cached EXCEPT !.signedOut = FALSE]}
      /\ UNCHANGED <<meta, row, login, deletes, revoked, owed, alone, forgotten, forgets>>
  BY DEF VerifyAccepts, VerifyRejects
<1>2. cached \in VerifyType /\ NoneUsable /\ cached.debt = NoAccount
  BY DEF SessionInv, SessionTypeOK, VerifyType, VerifyOK
<1>3. store' \in StoreType /\ StoreOK'
  <2>1. store \in StoreType /\ StoreOK
    BY DEF SessionInv, SessionTypeOK, StoreType
  <2> QED
    BY <1>1, <1>2, <2>1, VerifiedSession DEF StoreOK
<1>4. SessionTypeOK'
  <2>1. ui' \in Accounts \cup {NoAccount} /\ verify' \subseteq verify
    BY <1>1, <1>2, VerifiedSession DEF SessionInv, SessionTypeOK
  <2> QED
    BY <1>1, <1>3, <2>1 DEF SessionInv, SessionTypeOK, StoreType
<1>5. LoginsOK' /\ VerifyOK' /\ AnswersOK' /\ DebtKept'
  BY <1>1, <1>2 DEF SessionInv, LoginsOK, UnderWay, VerifyOK, AnswersOK, DebtKept, NoneUsable, Usable
<1> QED
  BY <1>3, <1>4, <1>5 DEF SessionInv

LEMMA LeavesUi ==
  ASSUME SessionInv, LogOut \/ TokenExpires
  PROVE  SessionInv'
<1>1. /\ ui' = NoAccount /\ store' \in {store, [store EXCEPT !.signedOut = TRUE]}
      /\ UNCHANGED <<meta, row, login, verify, deletes, revoked, owed, alone, forgotten, forgets>>
  BY DEF LogOut, TokenExpires
<1>2. store' \in StoreType /\ store'.user = store.user /\ store'.debt = store.debt
  BY <1>1 DEF SessionInv, SessionTypeOK, StoreType
<1>3. SessionTypeOK'
  BY <1>1, <1>2 DEF SessionInv, SessionTypeOK, StoreType
<1> QED
  BY <1>1, <1>2, <1>3 DEF SessionInv, StoreOK, LoginsOK, UnderWay, VerifyOK, AnswersOK, DebtKept, NoneUsable, Usable

\* Nobody who was owed a revocation before can be usable beside the session that is forgotten.
LEMMA ForgetStep ==
  ASSUME SessionInv, NEW reached \in BOOLEAN, ForgetDevice(reached)
  PROVE  SessionInv'
<1>1. /\ ui # NoAccount /\ ui' = NoAccount /\ meta' = NoAccount /\ forgets' = forgets + 1
      /\ forgotten' = TRUE /\ UNCHANGED <<row, login, verify, revoked>> /\ forgets < MaxForgets
  BY DEF ForgetDevice
<1>2. forgets' \in 0..MaxForgets
  BY <1>1, SessionAssumption DEF SessionInv, SessionTypeOK
<1>3. CASE store.user = NoAccount
  <2>1. /\ store' = (IF store.debt = NoAccount THEN Null ELSE store)
        /\ UNCHANGED <<deletes, owed, alone>>
    BY <1>3 DEF ForgetDevice
  <2>2. store' \in StoreType /\ store'.user = NoAccount /\ store'.debt = store.debt
    BY <1>3, <2>1, Stores DEF SessionInv, SessionTypeOK, StoreType
  <2>3. SessionTypeOK'
    BY <1>1, <1>2, <2>1, <2>2 DEF SessionInv, SessionTypeOK, StoreType
  <2> QED
    BY <1>1, <1>2, <2>1, <2>2, <2>3 DEF SessionInv, StoreOK, LoginsOK, UnderWay, VerifyOK, AnswersOK, DebtKept,
       NoneUsable, Usable
<1>4. CASE store.user # NoAccount
  <2> DEFINE u == store.user
  <2>1. /\ store' = Debt(u) /\ deletes' \in {deletes, deletes \cup {u}}
        /\ owed' = (IF NobodyLogsIn THEN owed \cup {u} ELSE owed)
        /\ alone' = (IF NobodyLogsIn /\ u \notin deletes \cup revoked THEN alone \cup {u} ELSE alone)
    BY <1>4 DEF ForgetDevice
  <2>2. u \in Accounts /\ NoneUsable
    BY <1>4, SessionAssumption DEF SessionInv, SessionTypeOK, StoreOK, DebtKept, NoneUsable, Usable
  <2>3. store' \in StoreType /\ store'.user = NoAccount /\ store'.debt = u
    BY <2>1, <2>2, Stores
  <2>4. \/ alone' = alone
        \/ alone' = alone \cup {u} /\ UnderWay = {} /\ verify = {} /\ u \notin revoked
    BY <2>1 DEF NobodyLogsIn
  <2>5. SessionTypeOK'
    <3>1. deletes' \subseteq Accounts /\ owed' \subseteq Accounts /\ alone' \subseteq owed'
      BY <2>1, <2>2 DEF SessionInv, SessionTypeOK
    <3> QED
      BY <1>1, <1>2, <2>3, <3>1 DEF SessionInv, SessionTypeOK, StoreType
  <2>6. LoginsOK'
    <3>1. UnderWay' = UnderWay
      BY <1>1 DEF UnderWay
    <3>2. \A v \in alone', l \in UnderWay' : login'[l].user # v
      BY <1>1, <2>4, <3>1 DEF SessionInv, LoginsOK
    <3>3. \A l \in Logins : login'[l].at = "registered" => NoneUsable'
      BY <1>1, <2>4, <2>2 DEF NoneUsable, Usable, UnderWay
    <3> QED
      BY <3>2, <3>3 DEF LoginsOK
  <2>7. AnswersOK'
    BY <1>1, <2>4 DEF SessionInv, AnswersOK, Usable
  <2>8. DebtKept'
    BY <1>1, <2>2, <2>3, <2>4 DEF DebtKept, NoneUsable, Usable
  <2>9. StoreOK' /\ VerifyOK'
    BY <1>1, <2>3, <2>4 DEF SessionInv, StoreOK, VerifyOK, NoneUsable, Usable
  <2> QED
    BY <2>5, <2>6, <2>7, <2>8, <2>9 DEF SessionInv
<1> QED
  BY <1>3, <1>4

LEMMA DeleteStep ==
  ASSUME SessionInv, NEW u \in Accounts, DeleteArrives(u) \/ DeleteAnswered(u) \/ DeleteLost(u)
  PROVE  SessionInv'
<1>1. store \in StoreType /\ row \in RowType /\ StoreOK
  BY DEF SessionInv, SessionTypeOK, StoreType, RowType
<1>2. CASE DeleteArrives(u)
  <2>1. /\ row' = RowRevokedBy(u) /\ revoked' = revoked \cup {u} /\ deletes' \subseteq deletes
        /\ UNCHANGED <<store, meta, ui, login, verify, owed, alone, forgotten, forgets>>
    BY <1>2 DEF DeleteArrives
  <2>2. row' \in RowType /\ ~Usable(u)' /\ \A v \in Accounts : Usable(v)' => Usable(v)
    BY <1>1, <2>1, Rows DEF Usable
  <2>3. SessionTypeOK'
    BY <2>1, <2>2 DEF SessionInv, SessionTypeOK, RowType
  <2>4. alone \subseteq Accounts
    BY DEF SessionInv, SessionTypeOK
  <2>5. NoneUsable => NoneUsable'
    BY <2>1, <2>2, <2>4 DEF NoneUsable
  <2>6. AnswersOK' /\ DebtKept'
    BY <2>1, <2>2, <2>4 DEF SessionInv, AnswersOK, DebtKept, Usable
  <2>7. StoreOK' /\ LoginsOK' /\ VerifyOK'
    BY <2>1, <2>5 DEF SessionInv, StoreOK, LoginsOK, UnderWay, VerifyOK
  <2> QED
    BY <2>3, <2>6, <2>7 DEF SessionInv
<1>3. CASE DeleteAnswered(u)
  <2>1. /\ u \in revoked /\ store' = WithoutDebt(u) /\ revoked' = revoked \ {u}
        /\ UNCHANGED <<meta, row, ui, login, verify, deletes, owed, alone, forgotten, forgets>>
    BY <1>3 DEF DeleteAnswered
  <2>2. store' \in StoreType /\ StoreOK' /\ \A v \in Accounts \ {u} : store.debt = v => store'.debt = v
    BY <1>1, <2>1, DebtCleared DEF StoreOK
  <2>3. SessionTypeOK'
    BY <2>1, <2>2 DEF SessionInv, SessionTypeOK, StoreType
  <2>4. DebtKept'
    BY <2>1, <2>2 DEF SessionInv, SessionTypeOK, AnswersOK, DebtKept, Usable
  <2>5. LoginsOK' /\ VerifyOK' /\ AnswersOK'
    BY <2>1 DEF SessionInv, LoginsOK, UnderWay, VerifyOK, AnswersOK, NoneUsable, Usable
  <2> QED
    BY <2>2, <2>3, <2>4, <2>5 DEF SessionInv
<1>4. CASE DeleteLost(u)
  <2>1. /\ deletes' \subseteq deletes /\ revoked' \subseteq revoked
        /\ UNCHANGED <<store, meta, row, ui, login, verify, owed, alone, forgotten, forgets>>
    BY <1>4 DEF DeleteLost
  <2>2. SessionTypeOK'
    BY <2>1 DEF SessionInv, SessionTypeOK
  <2> QED
    BY <2>1, <2>2 DEF SessionInv, StoreOK, LoginsOK, UnderWay, VerifyOK, AnswersOK, DebtKept, NoneUsable, Usable
<1> QED
  BY <1>2, <1>3, <1>4

\* The store outlives a restart because the keychain can encrypt it.
LEMMA RestartStep ==
  ASSUME SessionInv, Keychain, RestartApp
  PROVE  SessionInv'
<1>1. /\ store' = store /\ verify' = {} /\ deletes' = {} /\ revoked' = {}
      /\ UNCHANGED <<meta, row, owed, alone, forgotten, forgets>>
      /\ ui' \in {ActiveUser(store), NoAccount}
  BY DEF RestartApp
<1>2. \A l \in Logins : login'[l] = IF l \in UnderWay THEN [login[l] EXCEPT !.at = "over"] ELSE login[l]
  BY DEF RestartApp
<1>3. login' \in [Logins -> LoginType] /\ \A l \in Logins : login'[l].at \in {"new", "over"}
  <2>1. \A l \in Logins : [login[l] EXCEPT !.at = "over"] \in LoginType /\ [login[l] EXCEPT !.at = "over"].at = "over"
    BY DEF SessionInv, SessionTypeOK, LoginType, LoginSteps
  <2>2. \A l \in Logins : login[l] \in LoginType
    BY DEF SessionInv, SessionTypeOK, LoginType
  <2> QED
    BY <2>1, <2>2 DEF RestartApp, UnderWay
<1>4. SessionTypeOK'
  BY <1>1, <1>3 DEF SessionInv, SessionTypeOK, StoreType, LoginType, ActiveUser
<1>5. LoginsOK' /\ VerifyOK' /\ AnswersOK'
  BY <1>1, <1>3 DEF LoginsOK, UnderWay, VerifyOK, AnswersOK
<1>6. StoreOK' /\ DebtKept'
  BY <1>1 DEF SessionInv, StoreOK, DebtKept, Usable
<1> QED
  BY <1>4, <1>5, <1>6 DEF SessionInv

LEMMA SessionInvStep == ASSUME Keychain PROVE SessionInv /\ [SessionNext]_sessionVars => SessionInv'
<1> SUFFICES ASSUME SessionInv, [SessionNext]_sessionVars
             PROVE  SessionInv'
  OBVIOUS
<1>1. CASE \E l \in Logins, u \in Accounts, password \in BOOLEAN : LogIn(l, u, password)
  BY <1>1, LogInStep
<1>2. ASSUME NEW l \in Logins, Settle(l) \/ SettleAnswered(l) \/ SettleFails(l) \/ Register(l) \/ RegisterFails(l)
                               \/ Establish(l)
      PROVE  SessionInv'
  BY <1>2, SettleStep, RegisterStep, RegisterFailsStep, EstablishStep
<1>3. ASSUME NEW u \in Accounts, VerifyOffline(u) \/ DeleteArrives(u) \/ DeleteAnswered(u) \/ DeleteLost(u)
      PROVE  SessionInv'
  BY <1>3, ReverifyStep, DeleteStep
<1>4. CASE (\E cached \in verify : VerifyAccepts(cached) \/ VerifyRejects(cached)) \/ LogOut \/ TokenExpires
  BY <1>4, VerifyEnds, LeavesUi
<1>5. CASE \E reached \in BOOLEAN : ForgetDevice(reached)
  BY <1>5, ForgetStep
<1>6. CASE RestartApp
  BY <1>6, RestartStep
<1>7. CASE UNCHANGED sessionVars
  BY <1>7 DEF sessionVars, SessionInv, SessionTypeOK, StoreOK, LoginsOK, UnderWay, VerifyOK, AnswersOK, DebtKept,
     NoneUsable, Usable
<1> QED
  BY <1>1, <1>2, <1>3, <1>4, <1>5, <1>6, <1>7 DEF SessionNext

(* An installation whose store outlives a restart remembers the revocation  *)
(* it owes as long as the server lets the forgotten account in, if nobody    *)
(* was logging in, online or offline, and no earlier DELETE of the account  *)
(* was out when it was forgotten; for every number of accounts, logins,     *)
(* verifications, retries and forgets.                                      *)
THEOREM DebtIsKept == ASSUME Keychain PROVE SessionSpec => []DebtKept
<1>1. SessionInv /\ [SessionNext]_sessionVars => SessionInv'
  BY SessionInvStep
<1>2. SessionInv => DebtKept
  BY DEF SessionInv
<1> QED
  BY <1>1, <1>2, SessionInvInit, PTL DEF SessionSpec

-----------------------------------------------------------------------------
(***************************************************************************)
(* The types of the session, with a keychain or without: what is forgotten *)
(* is the account of the stored session, so what is owed is an account.    *)
(***************************************************************************)
StoredTyped ==
    /\ store \in StoreType /\ meta \in Accounts \cup {NoAccount} /\ row \in RowType
    /\ ui \in Accounts \cup {NoAccount} /\ verify \subseteq VerifyType
DebtsTyped ==
    /\ deletes \subseteq Accounts /\ revoked \subseteq Accounts /\ owed \subseteq Accounts
    /\ alone \subseteq owed /\ forgotten \in BOOLEAN /\ forgets \in 0..MaxForgets
LoginsTyped == login \in [Logins -> LoginType]

LEMMA SessionParts ==
  /\ SessionTypeOK <=> StoredTyped /\ DebtsTyped /\ LoginsTyped
  /\ SessionTypeOK' <=> StoredTyped' /\ DebtsTyped' /\ LoginsTyped'
  BY DEF SessionTypeOK, StoredTyped, DebtsTyped, LoginsTyped, StoreType, RowType, VerifyType, LoginType

LEMMA WithoutDebtTyped ==
  ASSUME StoredTyped, NEW u
  PROVE  WithoutDebt(u) \in StoreType
  BY Stores DEF WithoutDebt, StoredTyped

\* A step of a login is one of its own record.
LEMMA LoginRecordTyped ==
  ASSUME LoginsTyped, NEW l \in Logins, NEW at \in LoginSteps
  PROVE  /\ Step(l, at) => LoginsTyped'
         /\ \A n \in 0..MaxTries : login' = [login EXCEPT ![l].at = at, ![l].tries = n] => LoginsTyped'
<1>1. login[l] \in LoginType
  BY DEF LoginsTyped
<1>2. [login[l] EXCEPT !.at = at] \in LoginType
  BY <1>1 DEF LoginType
<1>3. Step(l, at) => LoginsTyped'
  BY <1>2 DEF Step, LoginsTyped
<1>4. ASSUME NEW n \in 0..MaxTries, login' = [login EXCEPT ![l].at = at, ![l].tries = n]
      PROVE  LoginsTyped'
  <2> DEFINE new == [login[l] EXCEPT !.at = at, !.tries = n]
  <2>1. login' = [login EXCEPT ![l] = new]
    BY <1>4 DEF LoginsTyped
  <2>2. new \in LoginType
    BY <1>1 DEF LoginType
  <2> HIDE DEF new
  <2> QED
    BY <2>1, <2>2 DEF LoginsTyped
<1> QED
  BY <1>3, <1>4

LEMMA LoginMovesTyped ==
  ASSUME SessionTypeOK, NEW l \in Logins,
         \/ Settle(l) \/ SettleAnswered(l) \/ SettleFails(l) \/ Register(l) \/ RegisterFails(l) \/ Establish(l)
  PROVE  SessionTypeOK'
<1>0. StoredTyped /\ DebtsTyped /\ LoginsTyped
  BY SessionParts
<1>1. login[l] \in LoginType /\ login[l].user \in Accounts \cup {NoAccount} /\ login[l].password \in BOOLEAN
      /\ login[l].tries \in 0..MaxTries
  BY <1>0 DEF LoginsTyped, LoginType
<1>2. LoginsTyped'
  <2>1. CASE RegisterFails(l)
    <3>1. CASE login[l].tries + 1 < MaxTries /\ login' = [login EXCEPT ![l].at = "register", ![l].tries = @ + 1]
      <4> DEFINE n == login[l].tries + 1
      <4>1. n \in 0..MaxTries
        BY <1>1, <3>1, SessionAssumption
      <4>2. login' = [login EXCEPT ![l].at = "register", ![l].tries = n]
        BY <3>1
      <4> HIDE DEF n
      <4>3. "register" \in LoginSteps
        BY DEF LoginSteps
      <4> QED
        BY <1>0, <4>1, <4>2, <4>3, LoginRecordTyped
    <3>2. CASE Step(l, "over")
      BY <1>0, <3>2, LoginRecordTyped DEF LoginSteps
    <3> QED
      BY <2>1, <3>1, <3>2 DEF RegisterFails
  <2>2. PICK at \in LoginSteps : RegisterFails(l) \/ Step(l, at)
    BY DEF Settle, SettleAnswered, SettleFails, Register, Establish, LoginSteps
  <2> QED
    BY <1>0, <2>1, <2>2, LoginRecordTyped
<1>3. DebtsTyped'
  BY <1>0 DEF Settle, SettleAnswered, SettleFails, Register, RegisterFails, Establish, DebtsTyped
<1>4. StoredTyped'
  <2>1. verify' = verify /\ ui' = ui /\ row' \in {row, RowRevokedBy(login[l].user), RegisteredRow(login[l].user)}
        /\ store' \in {store, WithoutDebt(login[l].user), Session(login[l].user, login[l].password)}
        /\ meta' \in {meta, login[l].user}
    BY DEF Settle, SettleAnswered, SettleFails, Register, RegisterFails, Establish
  <2>2. RowRevokedBy(login[l].user) \in RowType /\ RegisteredRow(login[l].user) \in RowType
    BY <1>0, <1>1 DEF RowRevokedBy, RegisteredRow, RowType, StoredTyped
  <2>3. WithoutDebt(login[l].user) \in StoreType /\ Session(login[l].user, login[l].password) \in StoreType
    BY <1>0, <1>1, WithoutDebtTyped, Stores
  <2> QED
    BY <1>0, <1>1, <2>1, <2>2, <2>3 DEF StoredTyped
<1> QED
  BY <1>2, <1>3, <1>4, SessionParts

LEMMA BeginsTyped ==
  ASSUME SessionTypeOK,
         \/ \E l \in Logins, u \in Accounts, password \in BOOLEAN : LogIn(l, u, password)
         \/ \E u \in Accounts : VerifyOffline(u)
         \/ \E cached \in verify : VerifyAccepts(cached) \/ VerifyRejects(cached)
         \/ LogOut \/ TokenExpires
  PROVE  SessionTypeOK'
<1>0. StoredTyped /\ DebtsTyped /\ LoginsTyped
  BY SessionParts
<1>1. store \in StoreType /\ verify \subseteq VerifyType
  BY <1>0 DEF StoredTyped
<1>2. ASSUME NEW l \in Logins, NEW u \in Accounts, NEW password \in BOOLEAN, LogIn(l, u, password)
      PROVE  SessionTypeOK'
  <2> DEFINE new == Begun(u, password)
  <2>1. new \in LoginType
    BY SessionAssumption DEF Begun, LoginType, LoginSteps
  <2>2. login' = [login EXCEPT ![l] = new]
    BY <1>2 DEF LogIn
  <2> HIDE DEF new
  <2>3. LoginsTyped'
    BY <1>0, <2>1, <2>2 DEF LoginsTyped
  <2>4. StoredTyped' /\ DebtsTyped'
    BY <1>0, <1>2 DEF LogIn, StoredTyped, DebtsTyped
  <2> QED
    BY <2>3, <2>4, SessionParts
<1>3. ASSUME NEW u \in Accounts, VerifyOffline(u)
      PROVE  SessionTypeOK'
  <2>1. verify' \subseteq VerifyType
    BY <1>1, <1>3 DEF VerifyOffline, VerifyType, StoreType
  <2> QED
    BY <1>0, <1>3, <2>1, SessionParts DEF VerifyOffline, StoredTyped, DebtsTyped, LoginsTyped
<1>4. ASSUME NEW cached \in verify, VerifyAccepts(cached) \/ VerifyRejects(cached)
      PROVE  SessionTypeOK'
  <2>1. /\ store' \in {store, [cached EXCEPT !.signedOut = FALSE]}
        /\ verify' \subseteq verify /\ ui' \in {ui, cached.user}
        /\ UNCHANGED <<meta, row, login, deletes, revoked, owed, alone, forgotten, forgets>>
    BY <1>4 DEF VerifyAccepts, VerifyRejects
  <2>2. StoredTyped'
    BY <1>0, <1>1, <2>1, VerifiedSession DEF StoredTyped
  <2> QED
    BY <1>0, <2>1, <2>2, SessionParts DEF DebtsTyped, LoginsTyped
<1>5. CASE LogOut \/ TokenExpires
  <2>1. [store EXCEPT !.signedOut = TRUE] \in StoreType
    BY <1>1 DEF StoreType
  <2>2. /\ store' \in {store, [store EXCEPT !.signedOut = TRUE]} /\ ui' = NoAccount
        /\ UNCHANGED <<meta, row, login, verify, deletes, revoked, owed, alone, forgotten, forgets>>
    BY <1>5 DEF LogOut, TokenExpires
  <2>3. StoredTyped'
    BY <1>0, <1>1, <2>1, <2>2 DEF StoredTyped
  <2> QED
    BY <1>0, <2>2, <2>3, SessionParts DEF DebtsTyped, LoginsTyped
<1> QED
  BY <1>2, <1>3, <1>4, <1>5

LEMMA ForgetsTyped ==
  ASSUME SessionTypeOK, NEW reached \in BOOLEAN, ForgetDevice(reached)
  PROVE  SessionTypeOK'
<1>0. StoredTyped /\ DebtsTyped /\ LoginsTyped
  BY SessionParts
<1>1. /\ ui' = NoAccount /\ meta' = NoAccount /\ forgets' = forgets + 1 /\ forgets < MaxForgets /\ forgotten' = TRUE
      /\ UNCHANGED <<row, login, verify, revoked>>
  BY DEF ForgetDevice
<1>2. forgets' \in 0..MaxForgets
  BY <1>0, <1>1, SessionAssumption DEF DebtsTyped
<1>3. CASE store.user = NoAccount
  <2>1. store' \in {Null, store} /\ UNCHANGED <<deletes, owed, alone>>
    BY <1>3 DEF ForgetDevice
  <2> QED
    BY <1>0, <1>1, <1>2, <2>1, Stores, SessionParts DEF StoredTyped, DebtsTyped, LoginsTyped
<1>4. CASE store.user # NoAccount
  <2>1. store.user \in Accounts
    BY <1>0, <1>4 DEF StoredTyped, StoreType
  <2>2. /\ store' = Debt(store.user) /\ deletes' \in {deletes, deletes \cup {store.user}}
        /\ \/ owed' = owed \cup {store.user} /\ alone' \in {alone, alone \cup {store.user}}
           \/ owed' = owed /\ alone' = alone
    BY <1>4 DEF ForgetDevice
  <2>3. StoredTyped'
    BY <1>0, <1>1, <2>1, <2>2, Stores DEF StoredTyped
  <2>4. DebtsTyped'
    BY <1>0, <1>1, <1>2, <2>1, <2>2 DEF DebtsTyped
  <2> QED
    BY <1>0, <1>1, <2>3, <2>4, SessionParts DEF LoginsTyped
<1> QED
  BY <1>3, <1>4

LEMMA DeletesTyped ==
  ASSUME SessionTypeOK, NEW u \in Accounts, DeleteArrives(u) \/ DeleteAnswered(u) \/ DeleteLost(u)
  PROVE  SessionTypeOK'
<1>0. StoredTyped /\ DebtsTyped /\ LoginsTyped
  BY SessionParts
<1>1. RowRevokedBy(u) \in RowType /\ WithoutDebt(u) \in StoreType
  BY <1>0, WithoutDebtTyped DEF RowRevokedBy, RowType, StoredTyped
<1>2. StoredTyped'
  BY <1>0, <1>1 DEF DeleteArrives, DeleteAnswered, DeleteLost, StoredTyped
<1>3. DebtsTyped' /\ LoginsTyped'
  BY <1>0 DEF DeleteArrives, DeleteAnswered, DeleteLost, DebtsTyped, LoginsTyped
<1> QED
  BY <1>2, <1>3, SessionParts

LEMMA RestartTyped ==
  ASSUME SessionTypeOK, RestartApp
  PROVE  SessionTypeOK'
<1>0. StoredTyped /\ DebtsTyped /\ LoginsTyped
  BY SessionParts
<1>1. LoginsTyped'
  <2>1. \A l \in Logins : login[l] \in LoginType /\ [login[l] EXCEPT !.at = "over"] \in LoginType
    BY <1>0 DEF LoginsTyped, LoginType, LoginSteps
  <2> QED
    BY <2>1 DEF RestartApp, LoginsTyped
<1>2. store' \in {store, Null}
  BY DEF RestartApp
<1>3. store' \in StoreType
  BY <1>0, <1>2, Stores DEF StoredTyped
<1>4. ui' \in Accounts \cup {NoAccount}
  BY <1>3 DEF RestartApp, ActiveUser, StoreType
<1>5. StoredTyped' /\ DebtsTyped'
  BY <1>0, <1>2, <1>3, <1>4 DEF RestartApp, StoredTyped, DebtsTyped
<1> QED
  BY <1>1, <1>5, SessionParts

\* The session, its debts and its logins keep to their types, with a keychain
\* or without (session.js).
THEOREM SessionTyped == SessionSpec => []SessionTypeOK
<1>1. SessionInit => SessionTypeOK
  BY SessionInvInit DEF SessionInv
<1>2. SessionTypeOK /\ [SessionNext]_sessionVars => SessionTypeOK'
  <2> SUFFICES ASSUME SessionTypeOK, [SessionNext]_sessionVars
               PROVE  SessionTypeOK'
    OBVIOUS
  <2>1. CASE UNCHANGED sessionVars
    BY <2>1 DEF sessionVars, SessionTypeOK
  <2>2. CASE SessionNext
    BY <2>2, LoginMovesTyped, BeginsTyped, ForgetsTyped, DeletesTyped, RestartTyped DEF SessionNext
  <2> QED
    BY <2>1, <2>2
<1> QED
  BY <1>1, <1>2, PTL DEF SessionSpec

-----------------------------------------------------------------------------
(***************************************************************************)
(* The spinner of the analysis page.  A call is under way from generate()   *)
(* to its continuation, which looks at whether it is still the current one.  *)
(***************************************************************************)
ViewType == [category : Categories \union {None}, due : BOOLEAN, prompt : BOOLEAN,
             current : Calls \union {None}, loading : BOOLEAN, result : Calls \union {None},
             scenario : Dives \union {None}, diving : Dives \union {None}, error : BOOLEAN]
CallType == [at : {"unused", "cloud", "local", "done"}, category : Categories \union {None},
             handler : {"none", "ai", "answer", "failed"}]
DiveType == [at : {"unused", "asked", "stored", "failed", "done"}, category : Categories \union {None},
             mounted : BOOLEAN]

SpinnerInv == GenTypeOK /\ SpinnerHonest

LEMMA SpinnerInvInit == GenInit => SpinnerInv
<1> SUFFICES ASSUME GenInit
             PROVE  SpinnerInv
  OBVIOUS
<1>1. view \in [category : Categories \union {None}, due : BOOLEAN, prompt : BOOLEAN,
                current : Calls \union {None}, loading : BOOLEAN, result : Calls \union {None},
                scenario : Dives \union {None}, diving : Dives \union {None}, error : BOOLEAN]
  BY DEF GenInit, Mounted
<1> QED
  BY <1>1 DEF GenInit, Mounted, SpinnerInv, GenTypeOK, SpinnerHonest, Underway

\* What a step shows of its view: nothing of the current call, or that it is superseded.
SameCall == view'.current = view.current /\ view'.loading = view.loading
Superseded == view'.current = None /\ view'.loading = FALSE

LEMMA ViewStep ==
  ASSUME SpinnerInv, view' \in ViewType, SameCall \/ Superseded, dives' \in [Dives -> DiveType],
         \A c \in Calls : Underway(c)' <=> Underway(c), calls' \in [Calls -> CallType],
         left' \subseteq Calls, rows' \subseteq Calls \union Dives, kept' \subseteq Calls
  PROVE  SpinnerInv'
<1>1. SpinnerHonest'
  BY DEF SpinnerInv, GenTypeOK, SpinnerHonest, SameCall, Superseded
<1> QED
  BY <1>1 DEF SpinnerInv, GenTypeOK, ViewType, CallType, DiveType

LEMMA PageStep ==
  ASSUME SpinnerInv,
         \/ \E k \in Categories \union {None} : PickCategory(k)
         \/ CategoryEffect \/ EnterPrompt \/ LeaveView \/ BackToMain \/ NewAnalysis
  PROVE  SpinnerInv'
<1>1. view \in ViewType /\ calls \in [Calls -> CallType] /\ dives \in [Dives -> DiveType]
      /\ left \subseteq Calls /\ rows \subseteq Calls \union Dives /\ kept \subseteq Calls
  BY DEF SpinnerInv, GenTypeOK, ViewType, CallType, DiveType
<1>2. UNCHANGED <<calls, rows, kept>>
  BY DEF PickCategory, CategoryEffect, EnterPrompt, LeaveView, BackToMain, NewAnalysis
<1>3. \A c \in Calls : Underway(c)' <=> Underway(c)
  BY <1>2 DEF Underway
<1>4. view' \in ViewType /\ (SameCall \/ Superseded)
  <2>1. ASSUME NEW k \in Categories \union {None}, PickCategory(k)
        PROVE  view' \in ViewType /\ SameCall
    BY <1>1, <2>1 DEF PickCategory, ViewType, SameCall
  <2>2. CASE CategoryEffect
    <3>1. Cleared(view) \in ViewType /\ Cleared(view).current = None /\ Cleared(view).loading = FALSE
      BY <1>1 DEF Cleared, ViewType
    <3> QED
      BY <2>2, <3>1 DEF CategoryEffect, ViewType, Superseded
  <2>3. CASE LeaveView
    <3>1. view' = Mounted(view.category)
      BY <2>3 DEF LeaveView
    <3> QED
      BY <1>1, <3>1 DEF Mounted, ViewType, Superseded
  <2>4. CASE EnterPrompt \/ BackToMain \/ NewAnalysis
    BY <1>1, <2>4 DEF EnterPrompt, BackToMain, NewAnalysis, ViewType, SameCall
  <2> QED
    BY <2>1, <2>2, <2>3, <2>4
<1>5. left' \subseteq Calls /\ dives' \in [Dives -> DiveType]
  <2>1. CASE LeaveView
    <3>1. view.current \in Calls \union {None}
      BY <1>1 DEF ViewType
    <3>2. \A d \in Dives : [dives[d] EXCEPT !.mounted = dives[d].at = "unused"] \in DiveType
      BY <1>1 DEF DiveType
    <3> QED
      BY <1>1, <2>1, <3>1, <3>2 DEF LeaveView
  <2>2. CASE UNCHANGED <<left, dives>>
    BY <1>1, <2>2
  <2> QED
    BY <2>1, <2>2 DEF PickCategory, CategoryEffect, EnterPrompt, BackToMain, NewAnalysis
<1> QED
  BY <1>1, <1>2, <1>3, <1>4, <1>5, ViewStep

\* The handler on the server, and the fallback to the local model: the call stays under way.
LEMMA CallGoesOn ==
  ASSUME SpinnerInv, NEW c \in Calls,
         HandlerFails(c) \/ HandlerStores(c) \/ (CloudFails(c) /\ Native)
  PROVE  SpinnerInv'
<1>1. view \in ViewType /\ calls \in [Calls -> CallType] /\ dives \in [Dives -> DiveType]
      /\ left \subseteq Calls /\ rows \subseteq Calls \union Dives /\ kept \subseteq Calls
  BY DEF SpinnerInv, GenTypeOK, ViewType, CallType, DiveType
<1>2. UNCHANGED <<view, dives, left, kept>> /\ rows' \subseteq Calls \union Dives
  BY <1>1 DEF HandlerFails, HandlerStores, CloudFails
<1>3. PICK new : /\ calls' = [calls EXCEPT ![c] = new] /\ new \in CallType
                 /\ (new.at \in {"cloud", "local"}) <=> (calls[c].at \in {"cloud", "local"})
  <2>1. CASE HandlerFails(c)
    <3>1. [calls[c] EXCEPT !.handler = "failed"] \in CallType
      BY <1>1 DEF CallType
    <3>2. calls' = [calls EXCEPT ![c] = [calls[c] EXCEPT !.handler = "failed"]]
      BY <1>1, <2>1 DEF HandlerFails
    <3>3. [calls[c] EXCEPT !.handler = "failed"].at = calls[c].at
      BY <1>1 DEF CallType
    <3> QED
      BY <3>1, <3>2, <3>3
  <2>2. CASE HandlerStores(c)
    <3>1. [calls[c] EXCEPT !.handler = "answer"] \in CallType
      BY <1>1 DEF CallType
    <3>2. calls' = [calls EXCEPT ![c] = [calls[c] EXCEPT !.handler = "answer"]]
      BY <1>1, <2>2 DEF HandlerStores
    <3>3. [calls[c] EXCEPT !.handler = "answer"].at = calls[c].at
      BY <1>1 DEF CallType
    <3> QED
      BY <3>1, <3>2, <3>3
  <2>3. CASE CloudFails(c) /\ Native
    <3>1. [calls[c] EXCEPT !.at = "local"] \in CallType /\ calls[c].at = "cloud"
      BY <1>1, <2>3 DEF CallType, CloudFails
    <3>2. calls' = [calls EXCEPT ![c] = [calls[c] EXCEPT !.at = "local"]]
      BY <1>1, <2>3 DEF CloudFails
    <3>3. [calls[c] EXCEPT !.at = "local"].at = "local"
      BY <1>1 DEF CallType
    <3> QED
      BY <3>1, <3>2, <3>3
  <2> QED
    BY <2>1, <2>2, <2>3
<1>4. calls' \in [Calls -> CallType]
  BY <1>1, <1>3
<1>5. \A d \in Calls : Underway(d)' <=> Underway(d)
  BY <1>1, <1>3 DEF Underway
<1> QED
  BY <1>1, <1>2, <1>4, <1>5, ViewStep DEF SameCall

LEMMA GenerateStep ==
  ASSUME SpinnerInv, NEW c \in Calls, NEW offline \in BOOLEAN, Generate(c, offline)
  PROVE  SpinnerInv'
<1>1. view \in ViewType /\ calls \in [Calls -> CallType] /\ UNCHANGED <<dives, left, rows, kept>>
  BY DEF SpinnerInv, GenTypeOK, ViewType, CallType, Generate
<1>2. view' \in ViewType /\ view'.current = c /\ view'.loading = TRUE
  BY <1>1 DEF Generate, ViewType
<1>3. calls' \in [Calls -> CallType] /\ Underway(c)'
  BY <1>1, <1>2 DEF Generate, CallType, ViewType, Underway
<1>4. SpinnerHonest'
  BY <1>2, <1>3, GenerationAssumption DEF SpinnerHonest
<1> QED
  BY <1>1, <1>2, <1>3, <1>4 DEF SpinnerInv, GenTypeOK, ViewType, CallType

\* The continuation: it stops the spinner if the call is still the current one.
LEMMA FinishStep ==
  ASSUME SpinnerInv, NEW c \in Calls, NEW shown \in BOOLEAN, Underway(c), Finish(c, shown),
         UNCHANGED <<dives, left, rows>>, kept' \subseteq Calls
  PROVE  SpinnerInv'
<1>1. view \in ViewType /\ calls \in [Calls -> CallType]
  BY DEF SpinnerInv, GenTypeOK, ViewType, CallType
<1>2. view' \in ViewType /\ view'.current = view.current
      /\ (view.current = c => view'.loading = FALSE) /\ (view.current # c => view'.loading = view.loading)
  <2>1. CASE view.current = c
    BY <1>1, <2>1 DEF Finish, GenSettled, ViewType
  <2>2. CASE view.current # c
    BY <1>1, <2>2 DEF Finish, GenSettled
  <2> QED
    BY <2>1, <2>2
<1>3. calls' \in [Calls -> CallType] /\ ~Underway(c)' /\ \A d \in Calls \ {c} : Underway(d)' <=> Underway(d)
  BY <1>1 DEF Finish, CallType, Underway
<1>4. SpinnerHonest'
  BY <1>1, <1>2, <1>3 DEF SpinnerInv, SpinnerHonest, ViewType
<1> QED
  BY <1>1, <1>2, <1>3, <1>4 DEF SpinnerInv, GenTypeOK, ViewType, CallType

LEMMA CallEnds ==
  ASSUME SpinnerInv, NEW c \in Calls, NEW saves \in BOOLEAN,
         CloudAnswers(c) \/ (CloudFails(c) /\ ~Native) \/ LocalAnswers(c, saves) \/ LocalFails(c)
  PROVE  SpinnerInv'
<1>1. kept \subseteq Calls
  BY DEF SpinnerInv, GenTypeOK
<1>2. CASE CloudAnswers(c)
  BY <1>1, <1>2, FinishStep DEF CloudAnswers, Underway
<1>3. CASE CloudFails(c) /\ ~Native
  BY <1>1, <1>3, FinishStep DEF CloudFails, Underway
<1>4. CASE LocalAnswers(c, saves)
  BY <1>1, <1>4, FinishStep DEF LocalAnswers, Underway
<1>5. CASE LocalFails(c)
  BY <1>1, <1>5, FinishStep DEF LocalFails, Underway
<1> QED
  BY <1>2, <1>3, <1>4, <1>5

LEMMA DiveStep ==
  ASSUME SpinnerInv, NEW d \in Dives, NEW b \in BOOLEAN,
         DeepDive(d) \/ DiveHandled(d, b) \/ DiveReturns(d, b)
  PROVE  SpinnerInv'
<1>1. view \in ViewType /\ calls \in [Calls -> CallType] /\ dives \in [Dives -> DiveType]
      /\ left \subseteq Calls /\ rows \subseteq Calls \union Dives /\ kept \subseteq Calls
  BY DEF SpinnerInv, GenTypeOK, ViewType, CallType, DiveType
<1>2. UNCHANGED <<calls, left, kept>> /\ rows' \subseteq Calls \union Dives
  BY <1>1 DEF DeepDive, DiveHandled, DiveReturns
<1>3. view' \in ViewType /\ SameCall
  <2>1. CASE DeepDive(d)
    BY <1>1, <2>1 DEF DeepDive, ViewType, SameCall
  <2>2. CASE DiveHandled(d, b)
    BY <1>1, <2>2 DEF DiveHandled, SameCall
  <2>3. CASE DiveReturns(d, b)
    <3>1. \/ view' = view
          \/ view' = [view EXCEPT !.diving = None, !.scenario = d]
          \/ view' = [view EXCEPT !.diving = None, !.error = TRUE]
      BY <2>3 DEF DiveReturns
    <3> QED
      BY <1>1, <3>1 DEF ViewType, SameCall
  <2> QED
    BY <2>1, <2>2, <2>3
<1>4. dives' \in [Dives -> DiveType]
  <2>1. CASE DeepDive(d)
    BY <1>1, <2>1 DEF DeepDive, DiveType, ViewType
  <2>2. CASE DiveHandled(d, b)
    BY <1>1, <2>2 DEF DiveHandled, DiveType
  <2>3. CASE DiveReturns(d, b)
    BY <1>1, <2>3 DEF DiveReturns, DiveType
  <2> QED
    BY <2>1, <2>2, <2>3
<1>5. \A c \in Calls : Underway(c)' <=> Underway(c)
  BY <1>2 DEF Underway
<1> QED
  BY <1>1, <1>2, <1>3, <1>4, <1>5, ViewStep

LEMMA SpinnerInvStep == SpinnerInv /\ [GenNext]_genVars => SpinnerInv'
<1> SUFFICES ASSUME SpinnerInv, [GenNext]_genVars
             PROVE  SpinnerInv'
  OBVIOUS
<1>1. CASE \/ \E k \in Categories \union {None} : PickCategory(k)
           \/ CategoryEffect \/ EnterPrompt \/ LeaveView \/ BackToMain \/ NewAnalysis
  BY <1>1, PageStep
<1>2. ASSUME NEW c \in Calls, \/ HandlerFails(c) \/ HandlerStores(c)
                              \/ CloudAnswers(c) \/ CloudFails(c) \/ LocalFails(c)
                              \/ \E b \in BOOLEAN : Generate(c, b) \/ LocalAnswers(c, b)
      PROVE  SpinnerInv'
  BY <1>2, CallGoesOn, GenerateStep, CallEnds
<1>3. ASSUME NEW d \in Dives, DeepDive(d) \/ \E b \in BOOLEAN : DiveHandled(d, b) \/ DiveReturns(d, b)
      PROVE  SpinnerInv'
  BY <1>3, DiveStep
<1>4. CASE UNCHANGED genVars
  BY <1>4 DEF genVars, SpinnerInv, GenTypeOK, SpinnerHonest, Underway
<1> QED
  BY <1>1, <1>2, <1>3, <1>4 DEF GenNext

(* However calls, categories, unmounts and voice commands overlap, the      *)
(* spinner turns exactly while the call that may still show a report is     *)
(* under way.                                                               *)
THEOREM SpinnerIsHonest == GenSpec => []SpinnerHonest
  BY SpinnerInvInit, SpinnerInvStep, PTL DEF GenSpec, SpinnerInv

\* The types of the page and of its calls (AnalysisView.jsx).
LEMMA GenTyped == GenSpec => []GenTypeOK
BY SpinnerInvInit, SpinnerInvStep, PTL DEF GenSpec, SpinnerInv

-----------------------------------------------------------------------------
(***************************************************************************)
(* That a confirmed link signs at most one token, for every number of      *)
(* tickets and of checks under way together.  The property is not           *)
(* inductive: what a check may consume was decided two statements earlier.  *)
(* LoginInv adds what a check that has got so far knows of its ticket.      *)
(***************************************************************************)
\* A row says "approved" only after its link was confirmed.
ApprovedOK == \A t \in Tickets : tickets[t] = "approved" => t \in confirmed

\* A check beyond its first statement has read an approved row.
CheckOK(p) == checks[p].at \in {"user", "consume"} => checks[p].token \in confirmed
ChecksOK == \A p \in Polls : CheckOK(p)

LoginInv == LoginTypeOK /\ ApprovedOK /\ ChecksOK /\ OneLoginPerApproval

-----------------------------------------------------------------------------
LEMMA LoginInvInit == LoginInit => LoginInv
  BY LoginAssumption DEF LoginInit, LoginInv, LoginTypeOK, ApprovedOK, ChecksOK, CheckOK,
     OneLoginPerApproval, TicketStates, PageStages, Answers, Resting

\* The parts other than the types follow from little: rows change only as CheckFrame says.
LEMMA PageOnly ==
  ASSUME LoginInv, UNCHANGED <<tickets, checks, confirmed, minted>>
  PROVE  ApprovedOK' /\ ChecksOK' /\ OneLoginPerApproval'
  BY DEF LoginInv, ApprovedOK, ChecksOK, CheckOK, OneLoginPerApproval

LEMMA PageMoves ==
  ASSUME LoginInv, Submit \/ Refused \/ Leave \/ Reset
  PROVE  LoginInv'
<1>1. UNCHANGED <<tickets, owner, checks, confirmed, minted>>
  BY DEF Submit, Refused, Leave, Reset
<1>2. LoginTypeOK'
  BY <1>1 DEF LoginInv, LoginTypeOK, Submit, Refused, Leave, Reset, PageStages
<1> QED
  BY <1>1, <1>2, PageOnly DEF LoginInv

LEMMA TicketMoves ==
  ASSUME LoginInv, NEW t \in Tickets, NEW arrives \in BOOLEAN,
         ConfirmLink(t) \/ RejectLink(t) \/ TicketExpires(t) \/ TicketIssued(t, arrives)
  PROVE  LoginInv'
<1> USE DEF HasRow
<1>1. LoginTypeOK'
  BY LoginAssumption DEF LoginInv, LoginTypeOK, ConfirmLink, RejectLink, TicketExpires, TicketIssued,
     TicketStates, PageStages
<1>2. ApprovedOK'
  BY DEF LoginInv, LoginTypeOK, ApprovedOK, ConfirmLink, RejectLink, TicketExpires, TicketIssued
<1>3. ChecksOK'
  BY DEF LoginInv, ChecksOK, CheckOK, ConfirmLink, RejectLink, TicketExpires, TicketIssued
<1>4. OneLoginPerApproval'
  BY DEF LoginInv, LoginTypeOK, OneLoginPerApproval, ConfirmLink, RejectLink, TicketExpires, TicketIssued
<1> QED
  BY <1>1, <1>2, <1>3, <1>4 DEF LoginInv

LEMMA OwnerMoves ==
  ASSUME LoginInv, NEW o \in {"allowed", "blocked", "deleted"}, OwnerChanges(o)
  PROVE  LoginInv'
<1>1. LoginTypeOK'
  BY DEF LoginInv, LoginTypeOK, OwnerChanges
<1> QED
  BY <1>1, PageOnly DEF LoginInv, OwnerChanges

\* A check that sets out or comes back holds no knowledge of its ticket.
LEMMA CheckTravels ==
  ASSUME LoginInv, NEW p \in Polls, SendsCheck(p) \/ CheckAnswered(p) \/ CheckLost(p)
  PROVE  LoginInv'
<1>1. LoginTypeOK'
  <2>1. CASE SendsCheck(p)
    BY <2>1 DEF LoginInv, LoginTypeOK, SendsCheck
  <2>2. CASE CheckAnswered(p)
    BY <2>2, LoginAssumption DEF LoginInv, LoginTypeOK, CheckAnswered, PageStages, Resting, Answers
  <2>3. CASE CheckLost(p)
    BY <2>3 DEF LoginInv, LoginTypeOK, CheckLost, Resting
  <2> QED
    BY <2>1, <2>2, <2>3
<1>2. ChecksOK'
  BY DEF LoginInv, LoginTypeOK, ChecksOK, CheckOK, SendsCheck, CheckAnswered, CheckLost, Resting
<1>3. ApprovedOK' /\ OneLoginPerApproval'
  BY DEF LoginInv, ApprovedOK, OneLoginPerApproval, SendsCheck, CheckAnswered, CheckLost
<1> QED
  BY <1>1, <1>2, <1>3 DEF LoginInv

\* Only an approved row sends a check on to the account.
LEMMA TicketRead ==
  ASSUME LoginInv, NEW p \in Polls, ReadTicket(p)
  PROVE  LoginInv'
<1> DEFINE t == checks[p].token
           a == TicketAnswer(t)
<1>1. t \in Tickets
  BY DEF LoginInv, LoginTypeOK, ReadTicket
<1>2. a \in {"not_found", "expired", "pending", "user"} /\ (a = "user" => tickets[t] = "approved")
  BY <1>1 DEF LoginInv, LoginTypeOK, TicketAnswer, TicketStates
<1>3. a = "user" => t \in confirmed
  BY <1>1, <1>2 DEF LoginInv, ApprovedOK
<1>4. checks' = [checks EXCEPT ![p].at = a] /\ UNCHANGED <<tickets, owner, page, confirmed, minted>>
  BY DEF ReadTicket, CheckMoves
<1> HIDE DEF a
<1>5. LoginTypeOK'
  BY <1>1, <1>2, <1>4, LoginAssumption DEF LoginInv, LoginTypeOK, Answers
<1>6. ChecksOK'
  BY <1>2, <1>3, <1>4 DEF LoginInv, LoginTypeOK, ChecksOK, CheckOK
<1>7. ApprovedOK' /\ OneLoginPerApproval'
  BY <1>4 DEF LoginInv, ApprovedOK, OneLoginPerApproval
<1> QED
  BY <1>5, <1>6, <1>7 DEF LoginInv

LEMMA OwnerRead ==
  ASSUME LoginInv, NEW p \in Polls, ReadOwner(p)
  PROVE  LoginInv'
<1>1. checks[p].token \in Tickets /\ checks[p].token \in confirmed
  BY DEF LoginInv, LoginTypeOK, ChecksOK, CheckOK, ReadOwner
<1>2. LoginTypeOK'
  BY <1>1, LoginAssumption DEF LoginInv, LoginTypeOK, ReadOwner, CheckMoves, Answers, TicketStates
<1>3. ChecksOK'
  BY <1>1 DEF LoginInv, LoginTypeOK, ChecksOK, CheckOK, ReadOwner, CheckMoves
<1>4. ApprovedOK' /\ OneLoginPerApproval'
  BY <1>1 DEF LoginInv, LoginTypeOK, ApprovedOK, OneLoginPerApproval, ReadOwner
<1> QED
  BY <1>2, <1>3, <1>4 DEF LoginInv

\* The one step that signs: the row is there, so nothing was signed for it, and it goes.
LEMMA ConsumeOnce ==
  ASSUME LoginInv, NEW p \in Polls, Consume(p)
  PROVE  LoginInv'
<1> DEFINE t == checks[p].token
<1>1. t \in Tickets /\ t \in confirmed
  BY DEF LoginInv, LoginTypeOK, ChecksOK, CheckOK, Consume
<1>2. Consumed(t) => minted[t] = 0
  BY <1>1 DEF LoginInv, LoginTypeOK, OneLoginPerApproval, Consumed, HasRow
<1>3. LoginTypeOK'
  BY <1>1, LoginAssumption DEF LoginInv, LoginTypeOK, Consume, CheckMoves, Answers, TicketStates
<1>4. ChecksOK'
  BY DEF LoginInv, LoginTypeOK, ChecksOK, CheckOK, Consume, CheckMoves
<1>5. ApprovedOK'
  BY <1>1 DEF LoginInv, LoginTypeOK, ApprovedOK, Consume
<1>6. OneLoginPerApproval'
  BY <1>1, <1>2 DEF LoginInv, LoginTypeOK, OneLoginPerApproval, Consume
<1> QED
  BY <1>3, <1>4, <1>5, <1>6 DEF LoginInv

-----------------------------------------------------------------------------
LEMMA LoginInvStep == LoginInv /\ [LoginNext]_loginVars => LoginInv'
<1> SUFFICES ASSUME LoginInv, [LoginNext]_loginVars
             PROVE  LoginInv'
  OBVIOUS
<1>1. CASE Submit \/ Refused \/ Leave \/ Reset
  BY <1>1, PageMoves
<1>2. ASSUME NEW t \in Tickets, NEW arrives \in BOOLEAN,
             ConfirmLink(t) \/ RejectLink(t) \/ TicketExpires(t) \/ TicketIssued(t, arrives)
      PROVE  LoginInv'
  BY <1>2, TicketMoves
<1>3. ASSUME NEW o \in {"allowed", "blocked", "deleted"}, OwnerChanges(o)
      PROVE  LoginInv'
  BY <1>3, OwnerMoves
<1>4. ASSUME NEW p \in Polls, SendsCheck(p) \/ CheckAnswered(p) \/ CheckLost(p)
      PROVE  LoginInv'
  BY <1>4, CheckTravels
<1>5. ASSUME NEW p \in Polls, CheckStep(p)
      PROVE  LoginInv'
  BY <1>5, TicketRead, OwnerRead, ConsumeOnce DEF CheckStep
<1>6. CASE UNCHANGED loginVars
  BY <1>6 DEF loginVars, LoginInv, LoginTypeOK, ApprovedOK, ChecksOK, CheckOK, OneLoginPerApproval
<1> QED
  BY <1>1, <1>2, <1>3, <1>4, <1>5, <1>6 DEF LoginNext

(* The invariant of the tickets and the checks: what every later statement  *)
(* of POST /check/:token relies on.                                         *)
THEOREM LoginInvariant == LoginSpec => []LoginInv
  BY LoginInvInit, LoginInvStep, PTL DEF LoginSpec

(* However many checks run together, whatever is approved, rejected, late,  *)
(* blocked or deleted between their statements, one confirmed link signs at *)
(* most one token and its ticket is gone.                                   *)
THEOREM LoginOncePerApproval == LoginSpec => []OneLoginPerApproval
  BY LoginInvariant, PTL DEF LoginInv

(* The variables keep their types.                                          *)
THEOREM LoginTyped == LoginSpec => []LoginTypeOK
  BY LoginInvariant, PTL DEF LoginInv

-----------------------------------------------------------------------------
(***************************************************************************)
(* Passkeys: a signed response opens at most one session, for every number *)
(* of clients and challenges, also when several clients send it at once. A *)
(* request that is past its challenge opens its session only after further *)
(* awaits; PasskeyInv adds that a challenge that can still be taken has    *)
(* opened nothing (UnopenedOK) and that nobody is past it yet (PastOK).    *)
(***************************************************************************)
CeremonyType == [kind : ChallengeKinds, holds : Challenges \union {NoChallenge}, at : CeremonySteps]
FailureType == [count : Nat, expires : BOOLEAN]

\* Who may hold what, where.
HoldsOK ==
    \A c \in Clients :
       /\ ceremony[c].kind # "password" => ceremony[c].holds \in Challenges
       /\ ceremony[c].at = "lock" => ceremony[c].kind # "reg"
       /\ ceremony[c].at \in {"signing", "take"} => ceremony[c].kind # "password"
SignedOK == \A r \in signed : r[2] \notin fresh
\* A challenge that can still be taken is kept under one key and has opened nothing.
UnopenedOK ==
    /\ \A k \in {"reg", "auth"} : stored[k] # NoChallenge => opened[stored[k]] = 0
    /\ stored["reg"] = stored["auth"] => stored["auth"] = NoChallenge
    /\ \A ch \in fresh : opened[ch] = 0
PastOK == \A c \in Past, k \in {"reg", "auth"} : stored[k] # ceremony[c].holds

PasskeyInv == PasskeyTypeOK /\ HoldsOK /\ SignedOK /\ UnopenedOK /\ PastOK /\ ChallengeOnce

\* Whoever is past a challenge holds one, and it is not fresh.
LEMMA PastHolds ==
  ASSUME PasskeyInv, NEW c \in Past
  PROVE  c \in Clients /\ ceremony[c].holds \in Challenges \ fresh /\ ceremony[c].holds # NoChallenge
         /\ ceremony[c].kind \in {"reg", "auth"}
  BY PasskeyAssumption DEF Past, PasskeyInv, PasskeyTypeOK, ChallengeKinds, HoldsOK

\* Steps in which nobody gets past a challenge, none is handed out and no session is opened.
LEMMA QuietCeremony ==
  ASSUME PasskeyInv, ceremony' \in [Clients -> CeremonyType], HoldsOK',
         \A d \in Clients : ceremony'[d].holds \notin fresh,
         Past' \subseteq Past, \A d \in Past' : ceremony'[d].holds = ceremony[d].holds,
         stored' \in [{"reg", "auth"} -> Challenges \cup {NoChallenge}],
         \A k \in {"reg", "auth"} : stored'[k] \in {stored[k], NoChallenge},
         UNCHANGED <<fresh, opened>>, passkeys' \subseteq Challenges,
         signed' \subseteq {"reg", "auth"} \X Challenges, SignedOK',
         failures' \in FailureType, failures'.count = 0 => ~failures'.expires
  PROVE  PasskeyInv'
<1>1. NoChallenge \notin fresh
  BY PasskeyAssumption DEF PasskeyInv, PasskeyTypeOK
<1>2. PasskeyTypeOK'
  BY <1>1 DEF PasskeyInv, PasskeyTypeOK, CeremonyType, FailureType
<1>3. UnopenedOK'
  BY DEF PasskeyInv, UnopenedOK
<1>4. \A d \in Past' : d \in Past /\ ceremony'[d].holds = ceremony[d].holds /\ ceremony[d].holds # NoChallenge
  BY PastHolds
<1>5. PastOK'
  BY <1>4 DEF PasskeyInv, PastOK
<1>6. ChallengeOnce'
  <2>1. \A d \in Past' : ceremony'[d].kind \in {"reg", "auth"}
    BY DEF Past, CeremonyType, ChallengeKinds
  <2> QED
    BY <1>4, <1>5, <2>1 DEF PasskeyInv, ChallengeOnce, PastOK
<1> QED
  BY <1>2, <1>3, <1>5, <1>6 DEF PasskeyInv

\* What one client's step does to those who are past a challenge.
LEMMA OneCeremony ==
  ASSUME PasskeyInv, NEW c \in Clients, ceremony' \in [Clients -> CeremonyType],
         \A d \in Clients \ {c} : ceremony'[d] = ceremony[d]
  PROVE  /\ Past' \subseteq Past \cup {c}
         /\ c \in Past' <=> ceremony'[c].kind # "password" /\ ceremony'[c].at \in {"judge", "clear"}
         /\ \A d \in Past' \ {c} : d \in Past /\ ceremony'[d] = ceremony[d]
  BY DEF Past

LEMMA RequestOptionsStep ==
  ASSUME PasskeyInv, NEW c \in Clients, NEW kind \in ChallengeKinds, NEW ch \in Challenges,
         RequestOptions(c, kind, ch)
  PROVE  PasskeyInv'
<1> DEFINE new == [kind |-> kind, holds |-> ch, at |-> "signing"]
<1>1. new \in CeremonyType /\ kind \in {"reg", "auth"} /\ ch \in fresh /\ ch # NoChallenge
  BY PasskeyAssumption DEF CeremonyType, CeremonySteps, ChallengeKinds, RequestOptions
<1>2. /\ ceremony' \in [Clients -> CeremonyType] /\ ceremony'[c] = new
      /\ \A d \in Clients \ {c} : ceremony'[d] = ceremony[d]
  BY <1>1 DEF RequestOptions, PasskeyInv, PasskeyTypeOK, CeremonyType
<1>3. /\ stored' \in [{"reg", "auth"} -> Challenges \cup {NoChallenge}] /\ stored'[kind] = ch
      /\ \A k \in {"reg", "auth"} \ {kind} : stored'[k] = stored[k]
  BY <1>1 DEF RequestOptions, PasskeyInv, PasskeyTypeOK
<1>4. fresh' = fresh \ {ch} /\ UNCHANGED <<failures, signed, passkeys, opened>>
  BY DEF RequestOptions
<1>5. PasskeyTypeOK'
  BY <1>2, <1>3, <1>4 DEF PasskeyInv, PasskeyTypeOK, CeremonyType
<1>6. c \notin Past' /\ \A d \in Past' : d \in Past /\ ceremony'[d] = ceremony[d] /\ ceremony[d].holds # ch
  <2>1. c \notin Past'
    BY <1>2 DEF Past
  <2>2. \A d \in Past' : d \in Past /\ ceremony'[d] = ceremony[d]
    BY <1>2, <2>1, OneCeremony
  <2> QED
    BY <1>1, <2>1, <2>2, PastHolds
<1>7. HoldsOK' /\ SignedOK'
  BY <1>1, <1>2, <1>4 DEF PasskeyInv, HoldsOK, SignedOK
<1>8. UnopenedOK'
  <2>1. \A k \in {"reg", "auth"} : stored[k] # ch
    BY <1>1 DEF PasskeyInv, PasskeyTypeOK
  <2> QED
    BY <1>1, <1>3, <1>4, <2>1 DEF PasskeyInv, UnopenedOK
<1>9. PastOK'
  BY <1>3, <1>6 DEF PasskeyInv, PastOK
<1>10. ChallengeOnce'
  <2>1. \A d \in Past' : ceremony'[d].kind \in {"reg", "auth"}
    BY <1>2 DEF Past, CeremonyType, ChallengeKinds
  <2> QED
    BY <1>4, <1>6, <1>9, <2>1 DEF PasskeyInv, ChallengeOnce, PastOK
<1> QED
  BY <1>5, <1>7, <1>8, <1>9, <1>10 DEF PasskeyInv

\* A ceremony goes on without taking a challenge or opening a session.
LEMMA GoesStep ==
  ASSUME PasskeyInv, NEW c \in Clients,
         \/ \E b \in BOOLEAN : Sign(c, b) \/ RecordFailure(c, b)
         \/ \E kind \in ChallengeKinds, ch \in Challenges : Resubmit(c, kind, ch)
         \/ SendPassword(c) \/ CheckLock(c) \/ Rejected(c)
         \/ RefusedAsBlocked(c) \/ RegisterPasskey(c) \/ PasskeyAccepted(c)
  PROVE  PasskeyInv'
<1>1. ceremony[c] \in CeremonyType /\ ceremony \in [Clients -> CeremonyType] /\ failures \in FailureType
      /\ passkeys \subseteq Challenges /\ ceremony[c].holds \notin fresh
      /\ signed \subseteq {"reg", "auth"} \X Challenges /\ NoChallenge \notin fresh
      /\ (failures.count = 0 => ~failures.expires)
  BY PasskeyAssumption DEF PasskeyInv, PasskeyTypeOK, CeremonyType, FailureType
<1> DEFINE Follows(new) ==
        \/ new.kind = "password" /\ new.holds = NoChallenge /\ new.at \in {"idle", "lock"}
        \/ <<new.kind, new.holds>> \in signed /\ new.at = Entry(new.kind)
        \/ /\ new.kind = ceremony[c].kind /\ new.holds = ceremony[c].holds /\ new.at # "signing"
           /\ new.at = "lock" => new.kind # "reg"
           /\ new.at = "take" => new.kind # "password"
           /\ new.at \in {"judge", "clear"} => new.kind = "password" \/ c \in Past
<1>2. \E new \in CeremonyType : ceremony' = [ceremony EXCEPT ![c] = new] /\ Follows(new)
  <2> DEFINE moved(at) == [ceremony[c] EXCEPT !.at = at]
  <2>1. /\ \A at \in CeremonySteps : moved(at) \in CeremonyType
        /\ \A at \in CeremonySteps : /\ moved(at).kind = ceremony[c].kind
                                     /\ moved(at).holds = ceremony[c].holds /\ moved(at).at = at
        /\ \A at : Goes(c, at) => ceremony' = [ceremony EXCEPT ![c] = moved(at)]
    BY <1>1 DEF CeremonyType, Goes
  <2>2. /\ Unused \in CeremonyType /\ [Unused EXCEPT !.at = "lock"] \in CeremonyType
        /\ Follows(Unused) /\ Follows([Unused EXCEPT !.at = "lock"])
    BY DEF Unused, CeremonyType, CeremonySteps, ChallengeKinds
  <2>3. ASSUME NEW at \in CeremonySteps \ {"signing"}, Goes(c, at),
               at = "lock" => ceremony[c].kind # "reg", at = "take" => ceremony[c].kind # "password",
               at \in {"judge", "clear"} => ceremony[c].kind = "password" \/ c \in Past
        PROVE  \E new \in CeremonyType : ceremony' = [ceremony EXCEPT ![c] = new] /\ Follows(new)
    <3>1. moved(at) \in CeremonyType /\ ceremony' = [ceremony EXCEPT ![c] = moved(at)] /\ Follows(moved(at))
      BY <2>1, <2>3
    <3> QED
      BY <3>1
  <2>4. ASSUME NEW b \in BOOLEAN, Sign(c, b)
        PROVE  \E new \in CeremonyType : ceremony' = [ceremony EXCEPT ![c] = new] /\ Follows(new)
    <3>1. CASE b
      BY <2>2, <2>4, <3>1 DEF Sign
    <3>2. CASE ~b
      <4>1. /\ Goes(c, Entry(ceremony[c].kind)) /\ ceremony[c].kind # "password"
            /\ Entry(ceremony[c].kind) \in {"take", "lock"}
            /\ Entry(ceremony[c].kind) = "lock" => ceremony[c].kind # "reg"
        BY <2>4, <3>2 DEF Sign, Entry, PasskeyInv, HoldsOK
      <4> QED
        BY <2>3, <4>1 DEF CeremonySteps
    <3> QED
      BY <3>1, <3>2
  <2>5. ASSUME NEW kind \in ChallengeKinds, NEW ch \in Challenges, Resubmit(c, kind, ch)
        PROVE  \E new \in CeremonyType : ceremony' = [ceremony EXCEPT ![c] = new] /\ Follows(new)
    <3> DEFINE new == [kind |-> kind, holds |-> ch, at |-> Entry(kind)]
    <3>1. new \in CeremonyType /\ Follows(new) /\ ceremony' = [ceremony EXCEPT ![c] = new]
      BY <2>5 DEF Resubmit, Entry, CeremonyType, CeremonySteps
    <3> QED
      BY <3>1
  <2>6. CASE SendPassword(c)
    BY <2>2, <2>6 DEF SendPassword
  <2>7. CASE CheckLock(c)
    <3>1. ceremony[c].kind \in {"auth", "password"}
      BY <1>1, <2>7 DEF CheckLock, PasskeyInv, HoldsOK, CeremonyType, ChallengeKinds
    <3>2. CASE LoginLocked
      BY <2>3, <2>7, <3>2 DEF CheckLock, CeremonySteps
    <3>3. CASE ~LoginLocked /\ ceremony[c].kind = "auth"
      BY <2>3, <2>7, <3>3 DEF CheckLock, CeremonySteps
    <3>4. CASE ~LoginLocked /\ ceremony[c].kind = "password"
      BY <2>3, <2>7, <3>4 DEF CheckLock, CeremonySteps
    <3> QED
      BY <3>1, <3>2, <3>3, <3>4
  <2>8. CASE PasskeyAccepted(c)
    <3>1. Goes(c, "clear") /\ (ceremony[c].kind = "password" \/ c \in Past)
      BY <2>8 DEF PasskeyAccepted, Past
    <3> QED
      BY <2>3, <3>1 DEF CeremonySteps
  <2>9. CASE Goes(c, "idle") \/ Goes(c, "fail")
    BY <2>3, <2>9 DEF CeremonySteps
  <2> QED
    BY <2>4, <2>5, <2>6, <2>7, <2>8, <2>9 DEF RecordFailure, Rejected, RefusedAsBlocked, RegisterPasskey
<1>3. PICK new \in CeremonyType : ceremony' = [ceremony EXCEPT ![c] = new] /\ Follows(new)
  BY <1>2
<1>4. /\ UNCHANGED <<stored, fresh, opened>> /\ passkeys' \subseteq Challenges
      /\ failures' \in FailureType /\ (failures'.count = 0 => ~failures'.expires)
  <2>1. RegisterPasskey(c) => ceremony[c].holds \in Challenges
    BY DEF RegisterPasskey, PasskeyInv, HoldsOK
  <2>2. UNCHANGED <<stored, fresh, opened>> /\ passkeys' \subseteq Challenges
    BY <1>1, <2>1 DEF Sign, RecordFailure, Resubmit, SendPassword, CheckLock, Rejected, RefusedAsBlocked, RegisterPasskey, PasskeyAccepted
  <2>3. CASE UNCHANGED failures
    BY <1>1, <2>2, <2>3
  <2>4. CASE failures' = [count |-> 0, expires |-> FALSE]
    BY <2>2, <2>4 DEF FailureType
  <2>5. CASE \E b \in BOOLEAN : RecordFailure(c, b)
    BY <1>1, <2>2, <2>5 DEF RecordFailure, FailureType
  <2> QED
    BY <2>3, <2>4, <2>5 DEF Sign, Resubmit, SendPassword, CheckLock, Rejected, RefusedAsBlocked, RegisterPasskey, PasskeyAccepted
<1>5. signed' \subseteq {"reg", "auth"} \X Challenges /\ SignedOK'
  <2>1. \A b \in BOOLEAN : Sign(c, b) => signed' \subseteq {"reg", "auth"} \X Challenges /\ SignedOK'
    <3> SUFFICES ASSUME NEW b \in BOOLEAN, Sign(c, b)
                 PROVE  signed' \subseteq {"reg", "auth"} \X Challenges /\ SignedOK'
      OBVIOUS
    <3>1. ceremony[c].kind \in {"reg", "auth"} /\ ceremony[c].holds \in Challenges \ fresh /\ fresh' = fresh
      BY <1>1 DEF Sign, PasskeyInv, HoldsOK, CeremonyType, ChallengeKinds
    <3>2. signed' = signed \/ signed' = signed \cup {<<ceremony[c].kind, ceremony[c].holds>>}
      BY DEF Sign
    <3> QED
      BY <1>1, <3>1, <3>2 DEF PasskeyInv, SignedOK
  <2>2. UNCHANGED signed => signed' \subseteq {"reg", "auth"} \X Challenges /\ SignedOK'
    BY <1>1, <1>4 DEF PasskeyInv, SignedOK
  <2> QED
    BY <2>1, <2>2 DEF RecordFailure, Resubmit, SendPassword, CheckLock, Rejected, RefusedAsBlocked, RegisterPasskey, PasskeyAccepted
<1>6. /\ ceremony' \in [Clients -> CeremonyType] /\ ceremony'[c] = new
      /\ \A d \in Clients \ {c} : ceremony'[d] = ceremony[d]
  BY <1>1, <1>3
<1>7. /\ new.kind # "password" => new.holds \in Challenges
      /\ new.at = "lock" => new.kind # "reg"
      /\ new.at \in {"signing", "take"} => new.kind # "password"
      /\ new.holds \notin fresh
  <2>1. ceremony[c].kind # "password" => ceremony[c].holds \in Challenges
    BY DEF PasskeyInv, HoldsOK
  <2>2. \A r \in signed : r[1] \in {"reg", "auth"} /\ r[2] \in Challenges \ fresh
    BY <1>1 DEF PasskeyInv, SignedOK
  <2>3. <<new.kind, new.holds>> \in signed => new.kind \in {"reg", "auth"} /\ new.holds \in Challenges \ fresh
    BY <2>2
  <2> QED
    BY <1>1, <1>3, <2>1, <2>3 DEF Entry
<1>8. HoldsOK' /\ \A d \in Clients : ceremony'[d].holds \notin fresh
  BY <1>6, <1>7 DEF PasskeyInv, PasskeyTypeOK, HoldsOK
<1>9. Past' \subseteq Past /\ \A d \in Past' : ceremony'[d].holds = ceremony[d].holds
  <2>1. c \in Past' => c \in Past /\ new.holds = ceremony[c].holds
    BY <1>3, <1>6 DEF Past, Entry
  <2> QED
    BY <1>6, <2>1, OneCeremony
<1>10. stored' \in [{"reg", "auth"} -> Challenges \cup {NoChallenge}] /\ \A k \in {"reg", "auth"} : stored'[k] = stored[k]
  BY <1>4 DEF PasskeyInv, PasskeyTypeOK
<1> QED
  BY <1>4, <1>5, <1>6, <1>8, <1>9, <1>10, QuietCeremony

LEMMA TakeChallengeStep ==
  ASSUME PasskeyInv, NEW c \in Clients, TakeChallenge(c)
  PROVE  PasskeyInv'
<1> DEFINE kind == ceremony[c].kind
           ch == ceremony[c].holds
           matches == stored[kind] = ch
           at == IF matches THEN "judge" ELSE IF kind = "auth" THEN "fail" ELSE "idle"
<1>1. /\ ceremony \in [Clients -> CeremonyType] /\ at \in CeremonySteps /\ ch \in Challenges \ fresh
      /\ kind \in {"reg", "auth"} /\ stored \in [{"reg", "auth"} -> Challenges \cup {NoChallenge}]
  BY DEF TakeChallenge, PasskeyInv, PasskeyTypeOK, CeremonyType, CeremonySteps, ChallengeKinds, HoldsOK
<1>2. /\ ceremony' \in [Clients -> CeremonyType] /\ \A d \in Clients \ {c} : ceremony'[d] = ceremony[d]
      /\ ceremony'[c].kind = kind /\ ceremony'[c].holds = ch /\ ceremony'[c].at = at
  BY <1>1 DEF TakeChallenge, Goes, CeremonyType
<1>3. /\ stored' \in [{"reg", "auth"} -> Challenges \cup {NoChallenge}]
      /\ \A k \in {"reg", "auth"} : stored'[k] = IF k = kind THEN NoChallenge ELSE stored[k]
  BY <1>1 DEF TakeChallenge, Kept
<1>4. UNCHANGED <<fresh, failures, signed, passkeys, opened>>
  BY DEF TakeChallenge
<1>5. HoldsOK' /\ SignedOK' /\ \A d \in Clients : ceremony'[d].holds \notin fresh
  BY <1>1, <1>2, <1>4 DEF PasskeyInv, PasskeyTypeOK, HoldsOK, SignedOK
<1>6. CASE ~matches
  <2>1. Past' \subseteq Past /\ \A d \in Past' : ceremony'[d].holds = ceremony[d].holds
    BY <1>2, <1>6, OneCeremony
  <2> QED
    BY <1>2, <1>3, <1>4, <1>5, <2>1, QuietCeremony DEF PasskeyInv, PasskeyTypeOK, FailureType
<1>7. CASE matches
  <2>1. stored[kind] = ch /\ opened[ch] = 0 /\ ch # NoChallenge /\ \A k \in {"reg", "auth"} : stored'[k] # ch
    <3>1. stored[kind] = ch /\ ch # NoChallenge
      BY <1>1, <1>7, PasskeyAssumption
    <3>2. opened[ch] = 0 /\ \A k \in {"reg", "auth"} \ {kind} : stored[k] # ch
      BY <1>1, <3>1 DEF PasskeyInv, UnopenedOK
    <3> QED
      BY <1>1, <1>3, <3>1, <3>2
  <2>2. \A d \in Past' \ {c} : d \in Past /\ ceremony'[d] = ceremony[d] /\ ceremony[d].holds # ch
    <3>1. \A d \in Past : ceremony[d].holds # ch
      BY <1>1, <2>1 DEF PasskeyInv, PastOK
    <3> QED
      BY <1>2, <3>1, OneCeremony
  <2>3. NoChallenge \notin fresh
    BY PasskeyAssumption DEF PasskeyInv, PasskeyTypeOK
  <2>4. PasskeyTypeOK'
    BY <1>2, <1>3, <1>4, <1>5, <2>3 DEF PasskeyInv, PasskeyTypeOK, CeremonyType
  <2>5. UnopenedOK'
    BY <1>1, <1>3, <1>4 DEF PasskeyInv, UnopenedOK
  <2>6. \A d \in Past' : ceremony'[d].holds # NoChallenge /\ ceremony'[d].kind \in {"reg", "auth"}
    BY <1>1, <1>2, <2>1, <2>2, PastHolds
  <2>7. PastOK'
    BY <1>2, <1>3, <2>1, <2>2, <2>6 DEF PasskeyInv, PastOK
  <2>8. \A d \in Past' : opened[ceremony'[d].holds] = 0
    BY <1>2, <2>1, <2>2 DEF PasskeyInv, ChallengeOnce
  <2>9. \A d, e \in Past' : ceremony'[e].holds = ceremony'[d].holds => e = d
    BY <1>2, <2>2 DEF PasskeyInv, ChallengeOnce
  <2>10. ChallengeOnce'
    BY <1>4, <2>6, <2>7, <2>8, <2>9 DEF PasskeyInv, ChallengeOnce, PastOK
  <2> QED
    BY <1>5, <2>4, <2>5, <2>7, <2>10 DEF PasskeyInv
<1> QED
  BY <1>6, <1>7

LEMMA OpenSessionStep ==
  ASSUME PasskeyInv, NEW c \in Clients, OpenSession(c)
  PROVE  PasskeyInv'
<1> DEFINE ch == ceremony[c].holds
<1>1. /\ ceremony \in [Clients -> CeremonyType] /\ opened \in [Challenges -> 0..MaxSessions]
      /\ stored \in [{"reg", "auth"} -> Challenges \cup {NoChallenge}]
  BY DEF PasskeyInv, PasskeyTypeOK, CeremonyType
<1>2. /\ ceremony' \in [Clients -> CeremonyType] /\ \A d \in Clients \ {c} : ceremony'[d] = ceremony[d]
      /\ ceremony'[c].kind = ceremony[c].kind /\ ceremony'[c].holds = ch /\ ceremony'[c].at = "idle"
  BY <1>1 DEF OpenSession, Goes, CeremonyType, CeremonySteps
<1>3. /\ UNCHANGED <<stored, fresh, signed, passkeys>> /\ failures' \in FailureType
      /\ failures'.count = 0 => ~failures'.expires
  BY DEF OpenSession, FailureType
<1>4. /\ HoldsOK' /\ SignedOK' /\ \A d \in Clients : ceremony'[d].holds \notin fresh
      /\ \A d \in Past' : d # c /\ d \in Past /\ ceremony'[d] = ceremony[d]
  <2>1. c \notin Past'
    BY <1>2 DEF Past
  <2> QED
    BY <1>2, <1>3, <2>1, OneCeremony DEF PasskeyInv, PasskeyTypeOK, HoldsOK, SignedOK
<1>5. CASE ceremony[c].kind # "auth"
  <2>1. opened' = opened
    BY <1>5 DEF OpenSession
  <2> QED
    BY <1>1, <1>2, <1>3, <1>4, <2>1, QuietCeremony DEF PasskeyInv, PasskeyTypeOK
<1>6. CASE ceremony[c].kind = "auth"
  <2>1. c \in Past /\ ch \in Challenges \ fresh /\ ch # NoChallenge
    BY <1>6, PastHolds DEF OpenSession, Past
  <2>2. opened[ch] = 0 /\ (\A k \in {"reg", "auth"} : stored[k] # ch) /\ \A d \in Past' : ceremony[d].holds # ch
    BY <1>4, <2>1 DEF PasskeyInv, ChallengeOnce, PastOK
  <2>3. /\ opened' \in [Challenges -> 0..MaxSessions] /\ opened'[ch] = 1
        /\ \A x \in Challenges \ {ch} : opened'[x] = opened[x]
    BY <1>1, <1>6, <2>1, <2>2, PasskeyAssumption DEF OpenSession
  <2>4. PasskeyTypeOK'
    BY <1>2, <1>3, <1>4, <2>3 DEF PasskeyInv, PasskeyTypeOK, CeremonyType, FailureType
  <2>5. UnopenedOK'
    BY <1>1, <1>3, <2>1, <2>2, <2>3 DEF PasskeyInv, PasskeyTypeOK, UnopenedOK
  <2>6. PastOK'
    BY <1>3, <1>4 DEF PasskeyInv, PastOK
  <2>7. \A x \in Challenges : opened'[x] <= 1
    BY <2>3 DEF PasskeyInv, ChallengeOnce
  <2>8. \A d \in Past' : ceremony[d].holds \in Challenges \ {ch} /\ ceremony[d].kind \in {"reg", "auth"}
    BY <1>4, <2>2, PastHolds
  <2>9. \A d \in Past' : opened'[ceremony'[d].holds] = 0 /\ stored'[ceremony'[d].kind] # ceremony'[d].holds
    BY <1>3, <1>4, <2>3, <2>8 DEF PasskeyInv, ChallengeOnce
  <2>10. \A d, e \in Past' : ceremony'[e].holds = ceremony'[d].holds => e = d
    BY <1>4 DEF PasskeyInv, ChallengeOnce
  <2> QED
    BY <1>4, <2>4, <2>5, <2>6, <2>7, <2>9, <2>10 DEF PasskeyInv, ChallengeOnce
<1> QED
  BY <1>5, <1>6

LEMMA ElapseStep ==
  ASSUME PasskeyInv,
         \/ LockoutEnds \/ \E kind \in {"reg", "auth"} : ChallengeExpires(kind)
         \/ \E ch \in Challenges : RemovePasskey(ch)
  PROVE  PasskeyInv'
<1>1. /\ ceremony' = ceremony /\ UNCHANGED <<fresh, signed, opened>> /\ passkeys' \subseteq Challenges
      /\ failures' \in FailureType /\ (failures'.count = 0 => ~failures'.expires)
  <2>1. ceremony' = ceremony /\ UNCHANGED <<fresh, signed, opened>> /\ passkeys' \subseteq Challenges
    BY DEF LockoutEnds, ChallengeExpires, RemovePasskey, PasskeyInv, PasskeyTypeOK
  <2>2. UNCHANGED failures \/ failures' = [count |-> 0, expires |-> FALSE]
    BY DEF LockoutEnds, ChallengeExpires, RemovePasskey
  <2>3. failures \in FailureType /\ (failures.count = 0 => ~failures.expires)
    BY DEF PasskeyInv, PasskeyTypeOK, FailureType
  <2>4. CASE UNCHANGED failures
    BY <2>1, <2>3, <2>4
  <2>5. CASE failures' = [count |-> 0, expires |-> FALSE]
    BY <2>1, <2>5 DEF FailureType
  <2> QED
    BY <2>2, <2>4, <2>5
<1>2. /\ stored' \in [{"reg", "auth"} -> Challenges \cup {NoChallenge}]
      /\ \A k \in {"reg", "auth"} : stored'[k] \in {stored[k], NoChallenge}
  BY DEF LockoutEnds, ChallengeExpires, RemovePasskey, PasskeyInv, PasskeyTypeOK
<1>3. /\ ceremony' \in [Clients -> CeremonyType] /\ HoldsOK' /\ SignedOK' /\ Past' = Past
      /\ signed' \subseteq {"reg", "auth"} \X Challenges /\ \A d \in Clients : ceremony'[d].holds \notin fresh
  BY <1>1 DEF PasskeyInv, PasskeyTypeOK, CeremonyType, HoldsOK, SignedOK, Past
<1> QED
  BY <1>1, <1>2, <1>3, QuietCeremony

LEMMA PasskeyInvInit == PasskeyInit => PasskeyInv
<1> SUFFICES ASSUME PasskeyInit
             PROVE  PasskeyInv
  OBVIOUS
<1>1. Unused \in CeremonyType /\ Unused.kind = "password" /\ Unused.holds = NoChallenge /\ Unused.at = "idle"
  BY DEF Unused, CeremonyType, CeremonySteps, ChallengeKinds
<1>2. ceremony \in [Clients -> CeremonyType] /\ \A c \in Clients : ceremony[c] = Unused
  BY <1>1 DEF PasskeyInit
<1>3. PasskeyTypeOK
  BY <1>1, <1>2, PasskeyAssumption DEF PasskeyInit, PasskeyTypeOK, CeremonyType
<1>4. HoldsOK /\ SignedOK /\ UnopenedOK /\ Past = {}
  BY <1>1, <1>2 DEF PasskeyInit, HoldsOK, SignedOK, UnopenedOK, Past
<1>5. PastOK /\ ChallengeOnce
  BY <1>4 DEF PasskeyInit, PastOK, ChallengeOnce
<1> QED
  BY <1>3, <1>4, <1>5 DEF PasskeyInv

LEMMA PasskeyInvStep == PasskeyInv /\ [PasskeyNext]_passkeyVars => PasskeyInv'
<1> SUFFICES ASSUME PasskeyInv, [PasskeyNext]_passkeyVars
             PROVE  PasskeyInv'
  OBVIOUS
<1>1. CASE PasskeyNext
  BY <1>1, RequestOptionsStep, GoesStep, TakeChallengeStep, OpenSessionStep, ElapseStep DEF PasskeyNext
<1>2. CASE UNCHANGED passkeyVars
  BY <1>2 DEF passkeyVars, PasskeyInv, PasskeyTypeOK, HoldsOK, SignedOK, UnopenedOK, PastOK, Past, ChallengeOnce
<1> QED
  BY <1>1, <1>2

(***************************************************************************)
(* A signed response opens one session, however often, by whichever        *)
(* clients and how close together it is sent, and of the requests that     *)
(* carry it one at most is ever past its challenge.                        *)
(* (webauthnChallengeStore.js, consumeChallenge)                           *)
(***************************************************************************)
THEOREM ChallengesOpenOnce == PasskeySpec => []ChallengeOnce
BY PasskeyInvInit, PasskeyInvStep, PTL DEF PasskeySpec, PasskeyInv

\* The types of the passkeys (webauthn.js, webauthnChallengeStore.js).
LEMMA PasskeyTyped == PasskeySpec => []PasskeyTypeOK
BY PasskeyInvInit, PasskeyInvStep, PTL DEF PasskeySpec, PasskeyInv

-----------------------------------------------------------------------------
(***************************************************************************)
(* The lockout. A request that is past the lock can still count a failure; *)
(* it got there while the count was below the limit, and a failure counted *)
(* is a request less past the lock.  That a registration counts none       *)
(* (FailOK) is why they are not among them.                                *)
(***************************************************************************)
Races(x) == x.at \in {"take", "judge", "fail"} /\ x.kind # "reg"
PastLock == {c \in Clients : Races(ceremony[c])}
FailOK == \A c \in Clients : ceremony[c].at = "fail" => ceremony[c].kind # "reg"
LockInv == PasskeyInv /\ FailOK /\ FailuresBounded

LEMMA FailuresBound ==
  /\ FailuresBounded <=> failures.count + Cardinality(PastLock) < MaxFailures + Cardinality(Clients)
  /\ FailuresBounded' <=> failures'.count + Cardinality(PastLock') < MaxFailures + Cardinality(Clients)
  BY DEF FailuresBounded, PastLock, Races

LEMMA FiniteCounts ==
  ASSUME NEW S, NEW T \in SUBSET S, IsFiniteSet(S)
  PROVE  IsFiniteSet(T) /\ Cardinality(S) \in Nat /\ Cardinality(T) \in Nat /\ Cardinality(T) <= Cardinality(S)
<1>1. IsFiniteSet(T) /\ Cardinality(T) <= Cardinality(S)
  BY FS_Subset
<1> QED
  BY <1>1, FS_CardinalityType

\* Nobody gets past the lock and nothing is counted, somebody does while it is
\* open, or a failure is counted for one who was past it.
LEMMA StaysBounded ==
  ASSUME PasskeyInv, FailuresBounded, failures'.count \in Nat,
         \/ PastLock' \subseteq PastLock /\ failures'.count <= failures.count
         \/ PastLock' \subseteq Clients /\ failures'.count < MaxFailures
         \/ /\ failures'.count = failures.count + 1
            /\ \E c \in PastLock : PastLock' = PastLock \ {c}
  PROVE  FailuresBounded'
<1>1. PastLock \subseteq Clients /\ IsFiniteSet(Clients) /\ MaxFailures \in Nat /\ failures.count \in Nat
  BY PasskeyAssumption DEF PastLock, PasskeyInv, PasskeyTypeOK
<1>2. IsFiniteSet(PastLock) /\ Cardinality(PastLock) \in Nat /\ Cardinality(Clients) \in Nat
  BY <1>1, FiniteCounts
<1>3. failures.count + Cardinality(PastLock) < MaxFailures + Cardinality(Clients)
  BY FailuresBound
<1>4. CASE PastLock' \subseteq PastLock /\ failures'.count <= failures.count
  <2>1. Cardinality(PastLock') \in Nat /\ Cardinality(PastLock') <= Cardinality(PastLock)
    BY <1>2, <1>4, FiniteCounts
  <2> QED
    BY <1>1, <1>2, <1>3, <1>4, <2>1, FailuresBound
<1>5. CASE PastLock' \subseteq Clients /\ failures'.count < MaxFailures
  <2>1. Cardinality(PastLock') \in Nat /\ Cardinality(PastLock') <= Cardinality(Clients)
    BY <1>1, <1>5, FiniteCounts
  <2> QED
    BY <1>1, <1>2, <1>5, <2>1, FailuresBound
<1>6. ASSUME NEW c \in PastLock, PastLock' = PastLock \ {c}, failures'.count = failures.count + 1
      PROVE  FailuresBounded'
  <2>1. Cardinality(PastLock') = Cardinality(PastLock) - 1
    BY <1>2, <1>6, FS_RemoveElement
  <2> QED
    BY <1>1, <1>2, <1>3, <1>6, <2>1, FailuresBound
<1> QED
  BY <1>4, <1>5, <1>6

\* What one client's step does to those past the lock.
LEMMA OneRacer ==
  ASSUME PasskeyInv, NEW c \in Clients, NEW new, ceremony' = [ceremony EXCEPT ![c] = new]
  PROVE  /\ PastLock' \subseteq Clients
         /\ (Races(new) => Races(ceremony[c])) => PastLock' \subseteq PastLock
         /\ ~Races(new) => PastLock' = PastLock \ {c}
<1>1. ceremony \in [Clients -> CeremonyType]
  BY DEF PasskeyInv, PasskeyTypeOK, CeremonyType
<1>2. \A d \in Clients : ceremony'[d] = IF d = c THEN new ELSE ceremony[d]
  BY <1>1
<1> QED
  BY <1>2 DEF PastLock, Races

LEMMA FailOKKept ==
  ASSUME PasskeyInv, FailOK, NEW c \in Clients, NEW new, ceremony' = [ceremony EXCEPT ![c] = new],
         new.at = "fail" => new.kind # "reg"
  PROVE  FailOK'
<1>1. ceremony \in [Clients -> CeremonyType]
  BY DEF PasskeyInv, PasskeyTypeOK, CeremonyType
<1>2. \A d \in Clients : ceremony'[d] = IF d = c THEN new ELSE ceremony[d]
  BY <1>1
<1> QED
  BY <1>2 DEF FailOK

LEMMA GoesTo ==
  ASSUME PasskeyInv, NEW c \in Clients, NEW at, Goes(c, at)
  PROVE  \E new : /\ ceremony' = [ceremony EXCEPT ![c] = new]
                  /\ new.at = at /\ new.kind = ceremony[c].kind
<1>1. ceremony[c] \in CeremonyType
  BY DEF PasskeyInv, PasskeyTypeOK, CeremonyType
<1> DEFINE new == [ceremony[c] EXCEPT !.at = at]
<1>2. new.at = at /\ new.kind = ceremony[c].kind
  BY <1>1 DEF CeremonyType
<1>3. ceremony' = [ceremony EXCEPT ![c] = new]
  BY DEF Goes
<1> QED
  BY <1>2, <1>3

LEMMA ClientsLocked ==
  ASSUME LockInv, NEW c \in Clients,
         \/ \E kind \in ChallengeKinds, ch \in Challenges : RequestOptions(c, kind, ch)
         \/ \E kind \in ChallengeKinds, ch \in Challenges : Resubmit(c, kind, ch)
         \/ \E b \in BOOLEAN : Sign(c, b) \/ RecordFailure(c, b)
         \/ SendPassword(c) \/ CheckLock(c) \/ TakeChallenge(c) \/ Rejected(c)
         \/ RefusedAsBlocked(c) \/ RegisterPasskey(c) \/ PasskeyAccepted(c) \/ OpenSession(c)
  PROVE  FailOK' /\ FailuresBounded'
<1>0. PasskeyInv /\ FailOK /\ FailuresBounded /\ failures.count \in Nat /\ MaxFailures \in Nat
  BY PasskeyAssumption DEF LockInv, PasskeyInv, PasskeyTypeOK
<1>1. ASSUME NEW new, ceremony' = [ceremony EXCEPT ![c] = new], new.at = "fail" => new.kind # "reg",
             Races(new) => Races(ceremony[c]), failures' = failures \/ failures' = [count |-> 0, expires |-> FALSE]
      PROVE  FailOK' /\ FailuresBounded'
  <2>1. PastLock' \subseteq PastLock
    BY <1>0, <1>1, OneRacer
  <2>2. failures'.count \in Nat /\ failures'.count <= failures.count
    BY <1>0, <1>1
  <2> QED
    BY <1>0, <1>1, <2>1, <2>2, FailOKKept, StaysBounded
<1>2. ASSUME NEW at, Goes(c, at), at = "fail" => ceremony[c].kind # "reg",
             at \in {"take", "judge", "fail"} => ceremony[c].kind = "reg" \/ Races(ceremony[c]),
             failures' = failures \/ failures' = [count |-> 0, expires |-> FALSE]
      PROVE  FailOK' /\ FailuresBounded'
  <2>1. PICK new : ceremony' = [ceremony EXCEPT ![c] = new] /\ new.at = at /\ new.kind = ceremony[c].kind
    BY <1>0, <1>2, GoesTo
  <2>2. new.at = "fail" => new.kind # "reg"
    BY <1>2, <2>1
  <2>3. Races(new) => Races(ceremony[c])
    BY <1>2, <2>1 DEF Races
  <2> QED
    BY <1>1, <1>2, <2>1, <2>2, <2>3
<1>3. ASSUME NEW kind \in ChallengeKinds, NEW ch \in Challenges, RequestOptions(c, kind, ch)
      PROVE  FailOK' /\ FailuresBounded'
  <2> DEFINE new == [kind |-> kind, holds |-> ch, at |-> "signing"]
  <2>1. ceremony' = [ceremony EXCEPT ![c] = new] /\ failures' = failures /\ new.at = "signing"
    BY <1>3 DEF RequestOptions
  <2> HIDE DEF new
  <2> QED
    BY <1>1, <2>1 DEF Races
<1>4. CASE SendPassword(c)
  <2> DEFINE new == [Unused EXCEPT !.at = "lock"]
  <2>1. ceremony' = [ceremony EXCEPT ![c] = new] /\ failures' = failures /\ new.at = "lock"
    BY <1>4 DEF SendPassword, Unused
  <2> HIDE DEF new
  <2> QED
    BY <1>1, <2>1 DEF Races
<1>5. ASSUME NEW b \in BOOLEAN, Sign(c, b)
      PROVE  FailOK' /\ FailuresBounded'
  <2>1. CASE b
    <3>1. ceremony' = [ceremony EXCEPT ![c] = Unused] /\ failures' = failures /\ Unused.at = "idle"
      BY <1>5, <2>1 DEF Sign, Unused
    <3> QED
      BY <1>1, <3>1 DEF Races
  <2>2. CASE ~b
    BY <1>2, <1>5, <2>2 DEF Sign, Entry
  <2> QED
    BY <2>1, <2>2
<1>6. ASSUME NEW kind \in ChallengeKinds, NEW ch \in Challenges, Resubmit(c, kind, ch)
      PROVE  FailOK' /\ FailuresBounded'
  <2> DEFINE new == [kind |-> kind, holds |-> ch, at |-> Entry(kind)]
  <2>1. ceremony' = [ceremony EXCEPT ![c] = new] /\ failures' = failures /\ ~Races(new) /\ new.at # "fail"
    BY <1>6 DEF Resubmit, Entry, Races
  <2> HIDE DEF new
  <2> QED
    BY <1>1, <2>1
<1>7. CASE CheckLock(c)
  <2>1. CASE LoginLocked
    BY <1>2, <1>7, <2>1 DEF CheckLock
  <2>2. CASE ~LoginLocked
    <3>1. failures' = failures /\ failures.count < MaxFailures
      BY <1>0, <1>7, <2>2 DEF CheckLock, LoginLocked
    <3>2. PICK at \in {"take", "judge"} : Goes(c, at)
      BY <1>7, <2>2 DEF CheckLock
    <3>3. PICK new : ceremony' = [ceremony EXCEPT ![c] = new] /\ new.at = at /\ new.kind = ceremony[c].kind
      BY <1>0, <3>2, GoesTo
    <3>4. PastLock' \subseteq Clients
      BY <1>0, <3>3, OneRacer
    <3> QED
      BY <1>0, <3>1, <3>2, <3>3, <3>4, FailOKKept, StaysBounded
  <2> QED
    BY <2>1, <2>2
<1>8. CASE TakeChallenge(c)
  <2> DEFINE matches == stored[ceremony[c].kind] = ceremony[c].holds
             at == IF matches THEN "judge" ELSE IF ceremony[c].kind = "auth" THEN "fail" ELSE "idle"
  <2>1. Goes(c, at) /\ failures' = failures /\ ceremony[c].at = "take"
    BY <1>8 DEF TakeChallenge
  <2>2. at = "fail" => ceremony[c].kind # "reg"
    OBVIOUS
  <2> HIDE DEF at
  <2> QED
    BY <1>2, <2>1, <2>2 DEF Races
<1>9. CASE Rejected(c)
  BY <1>2, <1>9 DEF Rejected, Races
<1>10. CASE RefusedAsBlocked(c) \/ RegisterPasskey(c) \/ PasskeyAccepted(c) \/ OpenSession(c)
  <2>1. PICK at \in {"idle", "clear"} : Goes(c, at)
    BY <1>10 DEF RefusedAsBlocked, RegisterPasskey, PasskeyAccepted, OpenSession
  <2>2. failures' = failures \/ failures' = [count |-> 0, expires |-> FALSE]
    BY <1>10 DEF RefusedAsBlocked, RegisterPasskey, PasskeyAccepted, OpenSession
  <2> QED
    BY <1>2, <2>1, <2>2
<1>11. ASSUME NEW b \in BOOLEAN, RecordFailure(c, b)
       PROVE  FailOK' /\ FailuresBounded'
  <2>1. Goes(c, "idle") /\ failures'.count = failures.count + 1 /\ ceremony[c].at = "fail"
    BY <1>11 DEF RecordFailure
  <2>2. PICK new : ceremony' = [ceremony EXCEPT ![c] = new] /\ new.at = "idle"
    BY <1>0, <2>1, GoesTo
  <2>3. c \in PastLock
    BY <1>0, <2>1 DEF FailOK, PastLock, Races
  <2>4. PastLock' = PastLock \ {c}
    BY <1>0, <2>2, OneRacer DEF Races
  <2>5. failures'.count \in Nat
    BY <1>0, <2>1
  <2> QED
    BY <1>0, <2>1, <2>2, <2>3, <2>4, <2>5, FailOKKept, StaysBounded
<1> QED
  BY <1>3, <1>4, <1>5, <1>6, <1>7, <1>8, <1>9, <1>10, <1>11

LEMMA LockInvStep == LockInv /\ [PasskeyNext]_passkeyVars => LockInv'
<1> SUFFICES ASSUME LockInv, [PasskeyNext]_passkeyVars
             PROVE  LockInv'
  OBVIOUS
<1>0. PasskeyInv /\ FailOK /\ FailuresBounded /\ failures.count \in Nat
  BY DEF LockInv, PasskeyInv, PasskeyTypeOK
<1>1. PasskeyInv'
  BY <1>0, PasskeyInvStep
<1>2. ASSUME ceremony' = ceremony, failures' = failures \/ failures' = [count |-> 0, expires |-> FALSE]
      PROVE  FailOK' /\ FailuresBounded'
  <2>1. FailOK' /\ PastLock' = PastLock
    BY <1>0, <1>2 DEF FailOK, PastLock
  <2>2. failures'.count \in Nat /\ failures'.count <= failures.count
    BY <1>0, <1>2
  <2> QED
    BY <1>0, <2>1, <2>2, StaysBounded
<1>3. CASE \/ LockoutEnds \/ \E kind \in {"reg", "auth"} : ChallengeExpires(kind)
           \/ \E ch \in Challenges : RemovePasskey(ch)
  <2>1. ceremony' = ceremony /\ (failures' = failures \/ failures' = [count |-> 0, expires |-> FALSE])
    BY <1>3 DEF LockoutEnds, ChallengeExpires, RemovePasskey
  <2> QED
    BY <1>1, <1>2, <2>1 DEF LockInv
<1>4. CASE UNCHANGED passkeyVars
  BY <1>1, <1>2, <1>4 DEF LockInv, passkeyVars
<1> QED
  BY <1>1, <1>3, <1>4, ClientsLocked DEF PasskeyNext, LockInv

\* The requests that passed the lock together push the count of failures past
\* the limit by less than there are requests (loginThrottle.ts).
THEOREM FailuresStayBounded == PasskeySpec => []FailuresBounded
<1>1. PasskeyInit => LockInv
  <2> SUFFICES ASSUME PasskeyInit
               PROVE  LockInv
    OBVIOUS
  <2>1. \A c \in Clients : ceremony[c].at = "idle"
    BY DEF PasskeyInit, Unused
  <2>2. FailOK /\ PastLock = {}
    BY <2>1 DEF FailOK, PastLock, Races
  <2>3. Cardinality(PastLock) = 0 /\ Cardinality(Clients) \in Nat /\ MaxFailures \in Nat \ {0}
    BY <2>2, FS_EmptySet, FS_CardinalityType, PasskeyAssumption
  <2>4. FailuresBounded
    BY <2>3, FailuresBound DEF PasskeyInit
  <2> QED
    BY <2>2, <2>4, PasskeyInvInit DEF LockInv
<1>2. LockInv /\ [PasskeyNext]_passkeyVars => LockInv'
  BY LockInvStep
<1>3. LockInv => FailuresBounded
  BY DEF LockInv
<1> QED
  BY <1>1, <1>2, <1>3, PTL DEF PasskeySpec

-----------------------------------------------------------------------------
(***************************************************************************)
(* The union the clients are checked in.  A step of it is a step of one    *)
(* part and leaves the others as they are, so it is a behaviour of every   *)
(* part and what is proved of a part holds in it.                          *)
(***************************************************************************)
LEMMA EachSide ==
    ClientsSpec => /\ SessionSpec /\ ModeSpec /\ ModelSpec /\ UpdateSpec /\ GenSpec /\ ChatSpec /\ MeetSpec
                   /\ WizardSpec /\ ConsoleSpec /\ LoginSpec /\ PasskeySpec /\ VoiceSpec
<1>1. ClientsInit => /\ SessionInit /\ ModeInit /\ ModelInit /\ UpdateInit /\ GenInit /\ ChatInit /\ MeetInit
                     /\ WizardInit /\ ConsoleInit /\ LoginInit /\ PasskeyInit /\ VoiceInit
  BY DEF ClientsInit
<1>2. [ClientsNext]_ClientsVars =>
         /\ [SessionNext]_sessionVars /\ [ModeNext]_modeVars /\ [ModelNext]_modelVars /\ [UpdateNext]_updateVars
         /\ [GenNext]_genVars /\ [ChatNext]_chatVars /\ [MeetNext]_meetVars /\ [WizardNext]_wizardVars
         /\ [ConsoleNext]_consoleVars /\ [LoginNext]_loginVars /\ [PasskeyNext]_passkeyVars
         /\ [VoiceNext]_voiceVars
  BY DEF ClientsNext, ClientsVars
<1> QED
  BY <1>1, <1>2, PTL DEF ClientsSpec, SessionSpec, ModeSpec, ModelSpec, UpdateSpec, GenSpec, ChatSpec, MeetSpec,
     WizardSpec, ConsoleSpec, LoginSpec, PasskeySpec, VoiceSpec

\* Every part of the clients that is checked beside the others keeps its types, and the failures
\* counted for a login stay within their bound, for every value of the constants.
THEOREM ClientsTyped == ClientsSpec => []ClientsTypeOK
<1>1. ClientsInit => side \in Sides
  BY DEF ClientsInit
<1>2. side \in Sides /\ [ClientsNext]_ClientsVars => (side \in Sides)'
  BY DEF ClientsNext, ClientsVars
<1>3. ClientsSpec => [](side \in Sides)
  BY <1>1, <1>2, PTL DEF ClientsSpec
<1>4. /\ SessionTypeOK /\ ModeTypeOK /\ ModelTypeOK /\ UpdateTypeOK /\ GenTypeOK /\ ChatTypeOK /\ MeetTypeOK
      /\ WizardTypeOK /\ ConsoleTypeOK /\ LoginTypeOK /\ PasskeyTypeOK /\ FailuresBounded
      /\ VoiceTypeOK /\ side \in Sides
      => ClientsTypeOK
  BY SidesAssumption DEF ClientsTypeOK
<1> QED
  BY <1>3, <1>4, EachSide, SessionTyped, ModeTyped, ModelTyped, UpdatesTyped, GenTyped, ChatTyped, MeetingTyped,
     WizardTyped, ConsoleTyped, LoginTyped, PasskeyTyped, FailuresStayBounded, VoiceTyped, PTL

\* What the parts promise, in the union: the run of the clients checks all of it on one instance.
\* The debt of a revocation is the one that needs the keychain.
THEOREM ClientsKeepAll ==
    ClientsSpec => [](/\ Keychain => DebtKept
                      /\ AutoServed /\ ModelIntact /\ UpdateSafe /\ SpinnerHonest /\ OneVoice /\ MeshComplete
                      /\ PagesFit /\ OneLoginPerApproval /\ ChallengeOnce /\ VoiceHonest)
<1>1. SessionSpec => [](Keychain => DebtKept)
  <2>1. CASE Keychain
    BY <2>1, DebtIsKept, PTL
  <2>2. CASE ~Keychain
    <3>1. Keychain => DebtKept
      BY <2>2
    <3> QED
      BY <3>1, PTL
  <2> QED
    BY <2>1, <2>2
<1> QED
  BY <1>1, EachSide, AutoIsServed, ModelStaysIntact, UpdatesAreSafe, SpinnerIsHonest, AnswersHaveOneVoice,
     MeetingMeshes, PagesAlwaysFit, LoginOncePerApproval, ChallengesOpenOnce, VoiceIsHonest, PTL

=============================================================================
