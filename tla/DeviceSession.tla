--------------------------- MODULE DeviceSession ---------------------------
(***************************************************************************)
(* The session of one desktop installation: desktop/auth/session.js with   *)
(* its encrypted store and the device_meta row, against the row of this    *)
(* device on the server (server/src/routes/devices.js) and the signed-in   *)
(* user of the renderer (LoginPage.jsx, App.jsx, DashboardPage.jsx).  The  *)
(* renderer does not wait for establishOnlineSession, so the user may log  *)
(* out, forget the device or log in again while one is under way; and the  *)
(* password form's answer may come when the passkey form has signed in.    *)
(***************************************************************************)
EXTENDS Naturals, FiniteSets

CONSTANTS
    Accounts,       \* user codes
    NoAccount,      \* no user code
    Logins,         \* invocations of establishOnlineSession
    Keychain,       \* safeStorage can encrypt: the store survives a restart
    MaxTries,       \* register attempts of one login (3 in the code)
    MaxForgets      \* bound: how often the user forgets the device

ASSUME SessionAssumption ==
    /\ NoAccount \notin Accounts
    /\ Keychain \in BOOLEAN
    /\ MaxTries \in Nat \ {0}
    /\ MaxForgets \in Nat

VARIABLES
    store,          \* session.enc: a session (user), a revoke debt (debt), or neither
    meta,           \* device_meta.last_authorized_user_id
    row,            \* the server's row of this device
    ui,             \* the signed-in user of the renderer
    login,          \* what each establishOnlineSession has come to
    verify,         \* the offline logins that await bcrypt: the sessions they loaded
    deletes,        \* accounts whose fire-and-forget DELETE is under way
    revoked,        \* accounts whose DELETE the server has done and not yet answered
    owed,           \* history: accounts forgotten while no login, online or offline, was under
                    \* way, and not logged in since
    alone,          \* history: those of them that had no earlier DELETE under way either
    forgotten,      \* history: the device was forgotten, and no login has begun since
    forgets         \* how often the device was forgotten

sessionVars == <<store, meta, row, ui, login, verify, deletes, revoked, owed, alone, forgotten, forgets>>

Null == [user |-> NoAccount, hash |-> FALSE, signedOut |-> FALSE, debt |-> NoAccount]
Session(u, h) == [user |-> u, hash |-> h, signedOut |-> FALSE, debt |-> NoAccount]
Debt(u) == [user |-> NoAccount, hash |-> FALSE, signedOut |-> TRUE, debt |-> u]
NoLogin == [at |-> "new", user |-> NoAccount, password |-> FALSE, tries |-> 0]
LoginSteps == {"new", "settle", "settled", "register", "registered", "over"}

SessionTypeOK ==
    /\ store \in [user : Accounts \cup {NoAccount}, hash : BOOLEAN, signedOut : BOOLEAN,
                  debt : Accounts \cup {NoAccount}]
    /\ meta \in Accounts \cup {NoAccount}
    /\ row \in [user : Accounts \cup {NoAccount}, revoked : BOOLEAN]
    /\ ui \in Accounts \cup {NoAccount}
    /\ login \in [Logins -> [at : LoginSteps, user : Accounts \cup {NoAccount},
                             password : BOOLEAN, tries : 0..MaxTries]]
    /\ verify \subseteq [user : Accounts, hash : {TRUE}, signedOut : BOOLEAN,
                         debt : Accounts \cup {NoAccount}]
    /\ deletes \subseteq Accounts /\ revoked \subseteq Accounts /\ owed \subseteq Accounts
    /\ alone \subseteq owed
    /\ forgotten \in BOOLEAN
    /\ forgets \in 0..MaxForgets

SessionInit ==
    /\ store = Null /\ meta = NoAccount
    /\ row = [user |-> NoAccount, revoked |-> FALSE]
    /\ ui = NoAccount
    /\ login = [l \in Logins |-> NoLogin]
    /\ verify = {}
    /\ deletes = {} /\ revoked = {} /\ owed = {} /\ alone = {}
    /\ forgotten = FALSE /\ forgets = 0

-----------------------------------------------------------------------------
Step(l, to) == login' = [login EXCEPT ![l].at = to]
UnderWay == {l \in Logins : login[l].at \notin {"new", "over"}}

\* No login is under way, online or offline.
NobodyLogsIn == UnderWay = {} /\ verify = {}

\* getSession: what the renderer restores at a start, and whom main acts for.
ActiveUser(s) == IF s.signedOut THEN NoAccount ELSE s.user

\* DELETE /api/devices/:deviceId with a token of u: a row of another account,
\* or one already revoked, is left alone and the answer is a success all the same.
RowRevokedBy(u) == IF row.user = u THEN [user |-> u, revoked |-> TRUE] ELSE row

\* Fault: the tombstone is cleared without looking at whether it is still there.
MutWithoutDebt(u) == Null

\* clearPendingRevokeTombstoneIfCurrent: only the debt that was attempted.
WithoutDebt(u) == IF store.debt = u /\ store.user = NoAccount THEN Null ELSE store

\* establishOnlineSession up to its first request.
Begun(u, password) == [at |-> IF store.debt = u THEN "settle" ELSE "register",
                       user |-> u, password |-> password, tries |-> 0]

(***************************************************************************)
(* An online login is answered.  The renderer shows u as signed in at once *)
(* (whoever the other form of the page has signed in by now); the device   *)
(* is registered behind it.  A debt of the same account is settled first.  *)
(***************************************************************************)
LogIn(l, u, password) ==
    /\ login[l].at = "new"
    /\ ui' = u
    /\ login' = [login EXCEPT ![l] = Begun(u, password)]
    /\ owed' = owed \ {u} /\ alone' = alone \ {u} /\ forgotten' = FALSE
    /\ UNCHANGED <<store, meta, row, verify, deletes, revoked, forgets>>

\* tryPendingRevokeWithFreshJwt reaches the server.
Settle(l) ==
    /\ login[l].at = "settle"
    /\ row' = RowRevokedBy(login[l].user)
    /\ Step(l, "settled")
    /\ UNCHANGED <<store, meta, ui, verify, deletes, revoked, owed, alone, forgotten, forgets>>

\* ... and its success comes back.
SettleAnswered(l) ==
    /\ login[l].at = "settled"
    /\ store' = WithoutDebt(login[l].user)
    /\ Step(l, "register")
    /\ UNCHANGED <<meta, row, ui, verify, deletes, revoked, owed, alone, forgotten, forgets>>

\* ... or the request or its answer is lost: the debt stays where it is.
SettleFails(l) ==
    /\ login[l].at \in {"settle", "settled"}
    /\ Step(l, "register")
    /\ UNCHANGED <<store, meta, row, ui, verify, deletes, revoked, owed, alone, forgotten, forgets>>

\* POST /register: inserted, or given to the caller with any revocation cleared.
RegisteredRow(u) == [user |-> u, revoked |-> FALSE]

Register(l) ==
    /\ login[l].at = "register"
    /\ row' = RegisteredRow(login[l].user)
    /\ Step(l, "registered")
    /\ UNCHANGED <<store, meta, ui, verify, deletes, revoked, owed, alone, forgotten, forgets>>

\* A try whose request or answer is lost or that ends in a 5xx is repeated up to
\* MaxTries times; the last one, or a 4xx, ends the login without a session.
RegisterFails(l) ==
    /\ login[l].at \in {"register", "registered"}
    /\ \/ /\ login[l].tries + 1 < MaxTries
          /\ login' = [login EXCEPT ![l].at = "register", ![l].tries = @ + 1]
       \/ Step(l, "over")
    /\ UNCHANGED <<store, meta, row, ui, verify, deletes, revoked, owed, alone, forgotten, forgets>>

\* The answer is in, the password is hashed: session and device_meta are written.
Establish(l) ==
    /\ login[l].at = "registered"
    /\ store' = Session(login[l].user, login[l].password)
    /\ meta' = login[l].user
    /\ Step(l, "over")
    /\ UNCHANGED <<row, ui, verify, deletes, revoked, owed, alone, forgotten, forgets>>

-----------------------------------------------------------------------------
\* An offline login, when the online one has failed: the checks, and the load of the session
\* it will write back.  The passkey form may have signed in meanwhile.
VerifyOffline(u) ==
    /\ meta = u /\ store.user = u /\ store.hash
    /\ verify' = verify \cup {store}
    /\ forgotten' = FALSE
    /\ UNCHANGED <<store, meta, row, ui, login, deletes, revoked, owed, alone, forgets>>

\* bcrypt agrees: the session that was loaded is saved as signed in.
VerifyAccepts(cached) ==
    /\ cached \in verify
    /\ store' = [cached EXCEPT !.signedOut = FALSE]
    /\ ui' = cached.user
    /\ verify' = verify \ {cached}
    /\ UNCHANGED <<meta, row, login, deletes, revoked, owed, alone, forgotten, forgets>>

VerifyRejects(cached) ==
    /\ cached \in verify
    /\ verify' = verify \ {cached}
    /\ UNCHANGED <<store, meta, row, ui, login, deletes, revoked, owed, alone, forgotten, forgets>>

\* fullLogout: the session stays stored for the next offline login.
LogOut ==
    /\ ui # NoAccount
    /\ ui' = NoAccount
    /\ store' = IF store = Null THEN store ELSE [store EXCEPT !.signedOut = TRUE]
    /\ UNCHANGED <<meta, row, login, verify, deletes, revoked, owed, alone, forgotten, forgets>>

\* The token of the renderer expires: back to the login page, the store as it was.
TokenExpires ==
    /\ ui # NoAccount
    /\ ui' = NoAccount
    /\ UNCHANGED <<store, meta, row, login, verify, deletes, revoked, owed, alone, forgotten, forgets>>

(***************************************************************************)
(* "Forget this device", by the user or because an administrator blocked   *)
(* the account.  What is owed to the server is the account of the stored   *)
(* session; in offline mode no DELETE is sent.                             *)
(***************************************************************************)
ForgetDevice(online) ==
    /\ ui # NoAccount /\ forgets < MaxForgets
    /\ ui' = NoAccount /\ meta' = NoAccount /\ forgets' = forgets + 1
    /\ IF store.user = NoAccount
       THEN /\ store' = IF store.debt = NoAccount THEN Null ELSE store
            /\ UNCHANGED <<deletes, owed, alone>>
       ELSE /\ store' = Debt(store.user)
            /\ deletes' = IF online THEN deletes \cup {store.user} ELSE deletes
            /\ owed' = IF NobodyLogsIn THEN owed \cup {store.user} ELSE owed
            /\ alone' = IF NobodyLogsIn /\ store.user \notin deletes \cup revoked
                        THEN alone \cup {store.user} ELSE alone
    /\ forgotten' = TRUE
    /\ UNCHANGED <<row, login, verify, revoked>>

DeleteArrives(u) ==
    /\ u \in deletes
    /\ row' = RowRevokedBy(u)
    /\ deletes' = deletes \ {u}
    /\ revoked' = revoked \cup {u}
    /\ UNCHANGED <<store, meta, ui, login, verify, owed, alone, forgotten, forgets>>

DeleteAnswered(u) ==
    /\ u \in revoked
    /\ store' = WithoutDebt(u)
    /\ revoked' = revoked \ {u}
    /\ UNCHANGED <<meta, row, ui, login, verify, deletes, owed, alone, forgotten, forgets>>

DeleteLost(u) ==
    /\ u \in deletes \cup revoked
    /\ deletes' = deletes \ {u} /\ revoked' = revoked \ {u}
    /\ UNCHANGED <<store, meta, row, ui, login, verify, owed, alone, forgotten, forgets>>

(***************************************************************************)
(* The application is closed and started again: what was under way is      *)
(* gone, and so is a store that could not be encrypted.  The renderer      *)
(* restores the stored session unless its token has expired.               *)
(***************************************************************************)
RestartApp ==
    /\ store' = IF Keychain THEN store ELSE Null
    /\ ui' \in {ActiveUser(store'), NoAccount}
    /\ login' = [l \in Logins |-> IF l \in UnderWay THEN [login[l] EXCEPT !.at = "over"] ELSE login[l]]
    /\ verify' = {} /\ deletes' = {} /\ revoked' = {}
    /\ UNCHANGED <<meta, row, owed, alone, forgotten, forgets>>

SessionNext ==
    \/ \E l \in Logins, u \in Accounts, password \in BOOLEAN : LogIn(l, u, password)
    \/ \E l \in Logins :
          Settle(l) \/ SettleAnswered(l) \/ SettleFails(l) \/ Register(l) \/ RegisterFails(l) \/ Establish(l)
    \/ \E u \in Accounts : VerifyOffline(u) \/ DeleteArrives(u) \/ DeleteAnswered(u) \/ DeleteLost(u)
    \/ \E cached \in verify : VerifyAccepts(cached) \/ VerifyRejects(cached)
    \/ LogOut \/ TokenExpires
    \/ \E online \in BOOLEAN : ForgetDevice(online)
    \/ RestartApp

SessionSpec == SessionInit /\ [][SessionNext]_sessionVars

-----------------------------------------------------------------------------
(* While the server still lets a forgotten account use this device, the     *)
(* installation remembers that it owes the revocation: no lost DELETE, late *)
(* answer, restart or login of another account makes it forget, if no       *)
(* login, no offline verification and no earlier DELETE was under way when  *)
(* it was forgotten (session.js, forgetDevice and                           *)
(* tryPendingRevokeWithFreshJwt).                                           *)
DebtKept ==
    \A u \in alone : row = [user |-> u, revoked |-> FALSE] => store.debt = u

(* The same with an earlier DELETE of the account still unanswered, whose   *)
(* answer must "clear only the exact encrypted revoke debt that was         *)
(* attempted" (session.js:60-61).                                           *)
EveryDebtKept ==
    \A u \in owed : row = [user |-> u, revoked |-> FALSE] => store.debt = u

(* Forgetting the device removes the usable session and the right to log in *)
(* offline until the next login (session.js:256-257, "Full device           *)
(* revocation: removes the usable local session/offline credential").       *)
ForgetHolds == forgotten => store.user = NoAccount /\ meta = NoAccount

(* A device with a usable session is not revoked on the server: a DELETE    *)
(* sent before the login does not undo it (session.js:284).                 *)
RegisteredStays ==
    store.user # NoAccount /\ meta = store.user => row # [user |-> meta, revoked |-> TRUE]

(* Main acts for the user the renderer shows (main.js, currentUserCode).    *)
ActsForUser == ui # NoAccount /\ ActiveUser(store) # NoAccount => ActiveUser(store) = ui
=============================================================================
