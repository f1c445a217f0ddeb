---------------------------- MODULE BciGateway ----------------------------
(***************************************************************************)
(* The bridge from ANATOLIA-Q's server to BCI: the client that holds a BCI *)
(* token for a user (server/src/services/bciClient.js), and on BCI's side  *)
(* the session route that provisions a shadow account and keeps its role   *)
(* in step (bci/src/services/gatewayProvisioning.js), and the role check   *)
(* of every request.  One user is modelled; the tokens and accounts of     *)
(* different users are independent.                                        *)
(***************************************************************************)
EXTENDS Integers

CONSTANTS BciCalls,    \* calls of callBci for the user
          MaxChanges   \* bound on changes of the user's role

ASSUME GatewayAssumption == MaxChanges \in Nat

VARIABLES role,      \* the user's role in ANATOLIA-Q
          cached,    \* tokenCache holds a token that has not expired
          account,   \* the shadow user exists in BCI
          bciRoles,  \* its rows of user_roles
          bciCall,   \* where each call is
          session,   \* where the session request of each call is, on BCI's side
          changes,   \* changes of role so far
          overlapped, \* history: two session requests were under way at once
          granted,   \* history: the role of the session granted last
          broken     \* history: since then a session broke off with the roles deleted

gatewayVars ==
    <<role, cached, account, bciRoles, bciCall, session, changes, overlapped, granted, broken>>

AnatoliaRoles == {"admin", "analyst"}   \* requireAnalyst turns a viewer away

MapAnatoliaRoleToBci(r) == IF r = "admin" THEN "security_admin" ELSE "analyst"

BciRoles == {MapAnatoliaRoleToBci(r) : r \in AnatoliaRoles}

Outcomes == {"ok", "forbidden", "timeout", "conflict", "outage"}

GatewayInit ==
    /\ role \in AnatoliaRoles
    /\ cached = FALSE
    /\ account = FALSE
    /\ bciRoles = {}
    /\ bciCall = [c \in BciCalls |-> [at |-> "idle"]]
    /\ session = [c \in BciCalls |-> "none"]
    /\ changes = 0
    /\ overlapped = FALSE
    /\ granted = "none"
    /\ broken = FALSE

UnderWay(c) == session[c] \in {"find", "create", "clear", "grant"}

(***************************************************************************)
(* ANATOLIA-Q's side.                                                      *)
(***************************************************************************)

\* callBci, and getBciToken up to its first await: a token in the cache is
\* used, otherwise the role is asserted and a session asked for.
CallBci(c) ==
    /\ bciCall[c].at = "idle"
    /\ bciCall' = [bciCall EXCEPT ![c] = [at |-> IF cached THEN "requesting" ELSE "connecting",
                                          as |-> MapAnatoliaRoleToBci(role)]]
    /\ session' = [session EXCEPT ![c] = IF cached THEN "none" ELSE "find"]
    /\ overlapped' = (overlapped \/ (~cached /\ \E d \in BciCalls \ {c} : UnderWay(d)))
    /\ UNCHANGED <<role, cached, account, bciRoles, changes, granted, broken>>

\* The session is answered and its token cached.
CacheToken(c) ==
    /\ bciCall[c].at = "connecting" /\ session[c] = "issued"
    /\ cached' = TRUE
    /\ session' = [session EXCEPT ![c] = "none"]
    /\ bciCall' = [bciCall EXCEPT ![c] = [at |-> "requesting", as |-> @.as]]
    /\ UNCHANGED <<role, account, bciRoles, changes, overlapped, granted, broken>>

Answer(c, outcome, powers) ==
    bciCall' = [bciCall EXCEPT ![c] = [at |-> "answered", as |-> bciCall[c].as,
                                       outcome |-> outcome, powers |-> powers]]

\* The session request was refused: callBci answers that BCI is unreachable.
SessionFails(c) ==
    /\ bciCall[c].at = "connecting" /\ session[c] \in {"conflict", "outage"}
    /\ Answer(c, session[c], {})
    /\ session' = [session EXCEPT ![c] = "none"]
    /\ UNCHANGED <<role, cached, account, bciRoles, changes, overlapped, granted, broken>>

\* One of the two timeouts passes; BCI does not notice.
CallTimesOut(c) ==
    /\ bciCall[c].at \in {"connecting", "requesting"}
    /\ Answer(c, "timeout", {})
    /\ UNCHANGED <<role, cached, account, bciRoles, session, changes, overlapped, granted, broken>>

TokenExpires ==
    /\ cached /\ cached' = FALSE
    /\ UNCHANGED <<role, account, bciRoles, bciCall, session, changes, overlapped, granted, broken>>

\* An administrator changes the user's role.
ChangeRole ==
    /\ changes < MaxChanges /\ changes' = changes + 1
    /\ role' \in AnatoliaRoles \ {role}
    /\ UNCHANGED <<cached, account, bciRoles, bciCall, session, overlapped, granted, broken>>

(***************************************************************************)
(* BCI's side: POST /gateway/session, one SQL statement at a time.         *)
(***************************************************************************)
ToSession(c, stage) == session' = [session EXCEPT ![c] = stage]

FindShadowUser(c) ==
    /\ session[c] = "find"
    /\ ToSession(c, IF account THEN "clear" ELSE "create")
    /\ UNCHANGED <<role, cached, account, bciRoles, bciCall, changes, overlapped, granted, broken>>

\* UNIQUE (org_id, email): the slower of two creations throws.
CreateShadowUser(c) ==
    /\ session[c] = "create"
    /\ account' = TRUE
    /\ ToSession(c, IF account THEN "conflict" ELSE "clear")
    /\ UNCHANGED <<role, cached, bciRoles, bciCall, changes, overlapped, granted, broken>>

\* Fault: the roles of an earlier visit are kept.
MutClearRoles(c) ==
    /\ session[c] = "clear"
    /\ ToSession(c, "grant")
    /\ UNCHANGED <<role, cached, account, bciRoles, bciCall, changes, overlapped, granted, broken>>

ClearRoles(c) ==
    /\ session[c] = "clear"
    /\ bciRoles' = {}
    /\ ToSession(c, "grant")
    /\ UNCHANGED <<role, cached, account, bciCall, changes, overlapped, granted, broken>>

\* The primary key of user_roles: granting a role that is there throws.
GrantRole(c) ==
    /\ session[c] = "grant"
    /\ LET r == bciCall[c].as
       IN  /\ bciRoles' = bciRoles \cup {r}
           /\ ToSession(c, IF r \in bciRoles THEN "conflict" ELSE "issued")
           /\ granted' = IF r \in bciRoles THEN granted ELSE r
           /\ broken' = (broken /\ r \in bciRoles)
    /\ UNCHANGED <<role, cached, account, bciCall, changes, overlapped>>

\* A statement fails, or what follows the last one.  The statements are no
\* transaction: when the INSERT fails, the DELETE before it stays.
SessionBreaks(c) ==
    /\ UnderWay(c) \/ session[c] = "issued"
    /\ ToSession(c, "outage")
    /\ broken' = (broken \/ session[c] = "grant")
    /\ UNCHANGED <<role, cached, account, bciRoles, bciCall, changes, overlapped, granted>>

\* requireAuth and requirePermission read the roles the user holds now.
ExecuteRequest(c) ==
    /\ bciCall[c].at = "requesting"
    /\ Answer(c, IF bciRoles = {} THEN "forbidden" ELSE "ok", bciRoles)
    /\ UNCHANGED <<role, cached, account, bciRoles, session, changes, overlapped, granted, broken>>

(***************************************************************************)
(* The behaviours.                                                         *)
(***************************************************************************)
HandleCall(c) ==
    \/ CallBci(c) \/ CacheToken(c) \/ SessionFails(c) \/ CallTimesOut(c)
    \/ FindShadowUser(c) \/ CreateShadowUser(c) \/ ClearRoles(c) \/ GrantRole(c)
    \/ SessionBreaks(c) \/ ExecuteRequest(c)

GatewayNext ==
    \/ \E c \in BciCalls : HandleCall(c)
    \/ TokenExpires \/ ChangeRole

GatewaySpec == GatewayInit /\ [][GatewayNext]_gatewayVars

(***************************************************************************)
(* Properties.                                                             *)
(***************************************************************************)

\* Every variable has its type.
GatewayTypeOK ==
    /\ role \in AnatoliaRoles
    /\ cached \in BOOLEAN /\ account \in BOOLEAN /\ overlapped \in BOOLEAN
    /\ bciRoles \subseteq BciRoles
    /\ \A c \in BciCalls : /\ bciCall[c].at \in {"idle", "connecting", "requesting", "answered"}
                           /\ bciCall[c].at = "answered" => bciCall[c].outcome \in Outcomes
    /\ session \in [BciCalls -> {"none", "find", "create", "clear", "grant", "issued",
                                 "conflict", "outage"}]
    /\ changes \in 0..MaxChanges
    /\ granted \in BciRoles \cup {"none"} /\ broken \in BOOLEAN

\* As long as session requests do not overlap, nothing is refused by a
\* constraint, a call is executed with one role, and between two requests the
\* account holds exactly the role granted last - or none, when since then a
\* request has broken off between its DELETE and its INSERT.  A request that
\* breaks off before its DELETE leaves the role of the grant before it.
RoleInStep ==
    ~overlapped =>
        /\ (\A c \in BciCalls : ~UnderWay(c)) =>
              bciRoles = IF broken THEN {} ELSE {granted} \ {"none"}
        /\ \A c \in BciCalls : session[c] # "conflict"
        /\ \A c \in BciCalls : bciCall[c].at = "answered" /\ bciCall[c].outcome = "ok" =>
              \E r \in BciRoles : bciCall[c].powers = {r}

\* RoleInStep without the exception: an INSERT that fails leaves the account
\* with no role at all, although no two requests overlap.
RoleHeld ==
    ~overlapped /\ (\A c \in BciCalls : ~UnderWay(c)) => bciRoles = {granted} \ {"none"}

\* What gatewayProvisioning.js says of a user whose role was lowered: the next
\* request BCI serves is served with the new role.  The token in the cache is
\* used for ten minutes without a session request that would tell BCI.
DemotionShows ==
    \A c \in BciCalls :
        bciCall[c].at = "answered" /\ "security_admin" \in bciCall[c].powers =>
            bciCall[c].as = "security_admin"

\* What the test of the overview says: while BCI is up, an analyst's calls are
\* answered.  The two calls of an overview miss the cache together; on a first
\* visit both create the account, later both grant the role, and one throws.
ReachableAnswers ==
    \A c \in BciCalls : bciCall[c].at = "answered" => bciCall[c].outcome # "conflict"

\* No call is turned away for want of a role that ANATOLIA-Q has asserted.
\* Another session request has deleted the role and not yet granted it again.
NeverRoleless ==
    \A c \in BciCalls : bciCall[c].at = "answered" => bciCall[c].outcome # "forbidden"
=============================================================================
