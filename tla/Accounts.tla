----------------------------- MODULE Accounts -----------------------------
(***************************************************************************)
(* The server's user accounts: the session check of every request with its *)
(* cache of blocked users (server/src/middleware/auth.js, blockedUserCache *)
(* .js) and what administrators do to accounts (routes/auth.js): create,   *)
(* change the role, block, rename and delete.                              *)
(*                                                                         *)
(* A token carries the code and the role its holder had when it was        *)
(* issued.  One action is one statement; a rename is a transaction that    *)
(* holds the row of the account while it moves the tables one by one.      *)
(***************************************************************************)
EXTENDS Integers, FiniteSets

CONSTANTS People,      \* who holds an account or a token
          Codes,       \* user codes
          AuthReqs,    \* requests to the server
          NoUser,      \* no row in auth_users
          MovedTables, \* tables a rename moves
          OtherTables, \* tables that name their owner and that it does not move
          MaxActions   \* bound on what administrators do

ASSUME AccountsAssumption ==
    /\ IsFiniteSet(Codes) /\ MaxActions \in Nat
    /\ MovedTables \cap OtherTables = {}
    /\ NoUser \notin [person: People, admin: BOOLEAN, blocked: BOOLEAN]
    /\ (\E c, d \in Codes : c # d) /\ (\E p, q \in People : p # q)   \* two administrators to start with

VARIABLES user,     \* auth_users, by code
          tokens,   \* tokens that have been issued; an expiry only takes requests away
          rows,     \* what people have saved, with the code it is filed under
          request,  \* where each request is
          blockedCache, \* the cached answers
          adminActs \* administrators' actions so far

accountVars == <<user, tokens, rows, request, blockedCache, adminActs>>

Tables == MovedTables \cup OtherTables
Account == [person: People, admin: BOOLEAN, blocked: BOOLEAN]
Token == [person: People, code: Codes, admin: BOOLEAN]

\* orderly is history: the row was saved with a token that names the code its
\* holder has, and no rename of that code was under way.
SavedRow == [table: Tables, person: People, owner: Codes, orderly: BOOLEAN]

Admins == {c \in Codes : user[c] # NoUser /\ user[c].admin}

\* Two administrators, each with a token; which codes and people they are makes no difference.
TwoOf(S) == CHOOSE two \in S \X S : two[1] # two[2]
AccountsInit ==
    /\ LET code == TwoOf(Codes)
           person == TwoOf(People)
           Admin(i) == [person |-> person[i], admin |-> TRUE, blocked |-> FALSE]
       IN  /\ user = [e \in Codes |->
                         CASE e = code[1] -> Admin(1) [] e = code[2] -> Admin(2) [] OTHER -> NoUser]
           /\ tokens = {[person |-> person[i], code |-> code[i], admin |-> TRUE] : i \in 1..2}
    /\ rows = {}
    /\ request = [r \in AuthReqs |-> [at |-> "idle"]]
    /\ blockedCache = [c \in Codes |-> "none"]
    /\ adminActs = 0

RenamesOf(c) == {r \in AuthReqs : request[r].at = "renaming" /\ c \in {request[r].from, request[r].to}}

\* The row lock and the unique key that a rename holds.
Locked(c) == RenamesOf(c) # {}

To(r, state) == request' = [request EXCEPT ![r] = state]

(***************************************************************************)
(* Sessions.                                                               *)
(***************************************************************************)
LogIn(c) ==
    /\ user[c] # NoUser /\ ~user[c].blocked
    /\ tokens' = tokens \cup {[person |-> user[c].person, code |-> c, admin |-> user[c].admin]}
    /\ UNCHANGED <<user, rows, request, blockedCache, adminActs>>

Blocked(c) == user[c] # NoUser /\ user[c].blocked

\* isUserBlocked, answered from the cache.
AuthHit(r, t) ==
    /\ request[r].at = "idle" /\ t \in tokens /\ blockedCache[t.code] # "none"
    /\ To(r, IF blockedCache[t.code] = "clear" THEN [at |-> "served", token |-> t]
                                               ELSE [at |-> "idle"])
    /\ UNCHANGED <<user, tokens, rows, blockedCache, adminActs>>

\* The cache has no answer: the database is asked; a code without an account is
\* not blocked ...
AuthMiss(r, t) ==
    /\ request[r].at = "idle" /\ t \in tokens /\ blockedCache[t.code] = "none"
    /\ To(r, [at |-> "checked", token |-> t, blocked |-> Blocked(t.code)])
    /\ UNCHANGED <<user, tokens, rows, blockedCache, adminActs>>

\* ... and its answer is cached.
AuthStore(r) ==
    /\ request[r].at = "checked"
    /\ blockedCache' = [blockedCache EXCEPT ![request[r].token.code] =
                           IF request[r].blocked THEN "blocked" ELSE "clear"]
    /\ To(r, IF request[r].blocked THEN [at |-> "idle"]
                                   ELSE [at |-> "served", token |-> request[r].token])
    /\ UNCHANGED <<user, tokens, rows, adminActs>>

EntryExpires(c) ==
    /\ blockedCache[c] # "none"
    /\ blockedCache' = [blockedCache EXCEPT ![c] = "none"]
    /\ UNCHANGED <<user, tokens, rows, request, adminActs>>

\* A route saves something: the row is filed under the code of the token.
SaveRow(r, table) ==
    /\ request[r].at = "served"
    /\ LET t == request[r].token
       IN  rows' = rows \cup
              {[table |-> table, person |-> t.person, owner |-> t.code,
                orderly |-> /\ user[t.code] # NoUser /\ user[t.code].person = t.person
                            /\ ~Locked(t.code)]}
    /\ To(r, [at |-> "idle"])
    /\ UNCHANGED <<user, tokens, blockedCache, adminActs>>

(***************************************************************************)
(* Administration.                                                         *)
(***************************************************************************)

\* requireAdmin looks at the token alone.
Administrate(r) ==
    /\ request[r].at = "served" /\ request[r].token.admin
    /\ adminActs < MaxActions /\ adminActs' = adminActs + 1

\* A new account is a new person's.
CreateUser(r, c, p, admin) ==
    /\ Administrate(r) /\ user[c] = NoUser /\ ~Locked(c)
    /\ \A d \in Codes : user[d] # NoUser => user[d].person # p
    /\ \A x \in tokens \cup rows : x.person # p
    /\ user' = [user EXCEPT ![c] = [person |-> p, admin |-> admin, blocked |-> FALSE]]
    /\ To(r, [at |-> "idle"])
    /\ UNCHANGED <<tokens, rows, blockedCache>>

\* PATCH with a role: also the administrator's own.
SetRole(r, c, admin) ==
    /\ Administrate(r) /\ user[c] # NoUser /\ ~Locked(c)
    /\ user' = [user EXCEPT ![c].admin = admin]
    /\ To(r, [at |-> "idle"])
    /\ UNCHANGED <<tokens, rows, blockedCache>>

\* PATCH with blocked: the row is written first ...
SetBlocked(r, c, blocked) ==
    /\ Administrate(r) /\ user[c] # NoUser /\ ~Locked(c)
    /\ blocked => c # request[r].token.code
    /\ user' = [user EXCEPT ![c].blocked = blocked]
    /\ To(r, [at |-> "blocking", code |-> c, blocked |-> blocked])
    /\ UNCHANGED <<tokens, rows, blockedCache>>

\* ... and then the cache.
InvalidateBlockedCache(r) ==
    /\ request[r].at = "blocking"
    /\ blockedCache' = [blockedCache EXCEPT ![request[r].code] =
                           IF request[r].blocked THEN "blocked" ELSE "clear"]
    /\ To(r, [at |-> "idle"])
    /\ UNCHANGED <<user, tokens, rows, adminActs>>

\* The rename has found the account and the new code free, and has updated the
\* account's row.
StartRename(r, from, to) ==
    /\ Administrate(r)
    /\ from # to /\ from # request[r].token.code
    /\ user[from] # NoUser /\ user[to] = NoUser /\ ~Locked(from) /\ ~Locked(to)
    /\ To(r, [at |-> "renaming", from |-> from, to |-> to, left |-> MovedTables, taken |-> {}])
    /\ UNCHANGED <<user, tokens, rows, blockedCache>>

\* Fault: the table is not among those that are updated.
MutTaken(r, table) == {}

\* UPDATE <table> SET user_code: the rows committed when the statement starts.
Taken(r, table) == {row \in rows : row.table = table /\ row.owner = request[r].from}

MoveTable(r, table) ==
    /\ request[r].at = "renaming" /\ table \in request[r].left
    /\ request' = [request EXCEPT ![r].left = @ \ {table}, ![r].taken = @ \cup Taken(r, table)]
    /\ UNCHANGED <<user, tokens, rows, blockedCache, adminActs>>

CommitRename(r) ==
    /\ request[r].at = "renaming" /\ request[r].left = {}
    /\ LET from == request[r].from
           to == request[r].to
       IN  /\ user' = [user EXCEPT ![to] = user[from], ![from] = NoUser]
           /\ rows' = (rows \ request[r].taken)
                         \cup {[row EXCEPT !.owner = to] : row \in request[r].taken}
    /\ To(r, [at |-> "idle"])
    /\ UNCHANGED <<tokens, blockedCache, adminActs>>

RollbackRename(r) ==
    /\ request[r].at = "renaming"
    /\ To(r, [at |-> "idle"])
    /\ UNCHANGED <<user, tokens, rows, blockedCache, adminActs>>

\* DELETE: the administrators are counted ...
CountAdmins(r, c) ==
    /\ Administrate(r) /\ c # request[r].token.code
    /\ To(r, [at |-> "counted", code |-> c, count |-> Cardinality(Admins)])
    /\ UNCHANGED <<user, tokens, rows, blockedCache>>

\* ... the account is looked up, and the last administrator refused ...
CheckLastAdmin(r) ==
    /\ request[r].at = "counted"
    /\ To(r, IF request[r].code \in Admins /\ request[r].count <= 1
             THEN [at |-> "idle"]
             ELSE [at |-> "deleting", code |-> request[r].code])
    /\ UNCHANGED <<user, tokens, rows, blockedCache, adminActs>>

\* ... and the row is deleted.
DeleteUser(r) ==
    /\ request[r].at = "deleting" /\ ~Locked(request[r].code)
    /\ user' = [user EXCEPT ![request[r].code] = NoUser]
    /\ To(r, [at |-> "idle"])
    /\ UNCHANGED <<tokens, rows, blockedCache, adminActs>>

(***************************************************************************)
(* The behaviours.                                                         *)
(***************************************************************************)
Authenticate(r) == (\E t \in tokens : AuthHit(r, t) \/ AuthMiss(r, t)) \/ AuthStore(r)

Rename(r) ==
    \/ \E from, to \in Codes : StartRename(r, from, to)
    \/ \E table \in MovedTables : MoveTable(r, table)
    \/ CommitRename(r) \/ RollbackRename(r)

RemoveUser(r) == (\E c \in Codes : CountAdmins(r, c)) \/ CheckLastAdmin(r) \/ DeleteUser(r)

HandleRequest(r) ==
    \/ Authenticate(r)
    \/ \E table \in Tables : SaveRow(r, table)
    \/ \E c \in Codes, p \in People, admin \in BOOLEAN : CreateUser(r, c, p, admin)
    \/ \E c \in Codes, admin \in BOOLEAN : SetRole(r, c, admin)
    \/ \E c \in Codes, blocked \in BOOLEAN : SetBlocked(r, c, blocked)
    \/ InvalidateBlockedCache(r)
    \/ Rename(r)
    \/ RemoveUser(r)

AccountsNext ==
    \/ \E r \in AuthReqs : HandleRequest(r)
    \/ \E c \in Codes : LogIn(c) \/ EntryExpires(c)

AccountsSpec == AccountsInit /\ [][AccountsNext]_accountVars

(***************************************************************************)
(* Properties.                                                             *)
(***************************************************************************)

\* Every variable has its type.
AccountsTypeOK ==
    /\ user \in [Codes -> Account \cup {NoUser}]
    /\ tokens \subseteq Token
    /\ rows \subseteq SavedRow
    /\ \A r \in AuthReqs : request[r].at \in {"idle", "checked", "served", "blocking", "renaming",
                                              "counted", "deleting"}
    /\ blockedCache \in [Codes -> {"none", "clear", "blocked"}]
    /\ adminActs \in 0..MaxActions

\* Through renames, renames that are rolled back, and renames back to a code
\* that was used before, what people saved under the code they had stays filed
\* under the code they have.  Only the tables a rename moves are meant, and no
\* row that was saved with an old token, or while the rename was under way.
HistoryFollows ==
    \A row \in rows : row.orderly /\ row.table \in MovedTables =>
        \A c \in Codes : user[c] # NoUser /\ user[c].person = row.person => row.owner = c

\* The same of every table that names its owner, which is what the comment on
\* the rename route asks for.  uploaded_files is not among the tables it moves.
AllHistoryFollows ==
    \A row \in rows : row.orderly =>
        \A c \in Codes : user[c] # NoUser /\ user[c].person = row.person => row.owner = c

\* Deleting an account never removes the last administrator.  Two
\* administrators who delete each other both count two.
LastAdminStays ==
    [][\A r \in AuthReqs :
          request[r].at = "deleting" /\ request'[r].at = "idle" /\ Admins # {} => Admins' # {}]_accountVars

\* What authMiddleware says of a block: when the cache has been brought up to
\* date, a blocked person's requests are refused.  The token of a person who
\* was renamed before names a code that no account has.
BlockReaches ==
    [][\A r \in AuthReqs, c \in Codes :
          /\ request[r].at = "idle" /\ request'[r].at = "checked"
          /\ Blocked(c) /\ user[c].person = request'[r].token.person
          => request'[r].blocked]_accountVars

\* The cache agrees with the table unless an update of it is under way.  A
\* lookup that read the table before a block stores its answer after it.
CacheCurrent ==
    \A c \in Codes : blockedCache[c] = "clear" /\ Blocked(c) =>
        \E r \in AuthReqs : request[r].at = "blocking" /\ request[r].code = c
=============================================================================
