----------------------------- MODULE LoginFlow ------------------------------
(***************************************************************************)
(* Login by mail approval: the tickets of server/src/routes/auth.js        *)
(* (approval_tokens), the links an operator follows, the checks of          *)
(* client/src/pages/LoginPage.jsx and the stages of that page.  One        *)
(* account that is no administrator, one page.                             *)
(***************************************************************************)
EXTENDS Naturals

CONSTANTS
    Tickets,        \* approval tokens
    Polls,          \* requests to /check/:token that may be under way together
    NoTicket

ASSUME LoginAssumption == NoTicket \notin Tickets

VARIABLES
    tickets,        \* approval_tokens: the row of each, "late" past its expires_at
    owner,          \* the row of the account in auth_users
    page,           \* LoginPage: stage, token, loading, and the setTimeout of onLogin
    checks,         \* requests to /check/:token: how far the handler is, or its answer
    confirmed,      \* history: tickets whose link was confirmed
    minted          \* history: tokens signed for each ticket

loginVars == <<tickets, owner, page, checks, confirmed, minted>>

TicketStates == {"none", "pending", "approved", "late", "gone"}
PageStages == {"idle", "awaiting", "approved", "expired", "left"}
Answers == {"approved", "expired", "not_found", "pending", "error"}
Resting == [at |-> "idle", token |-> NoTicket]

LoginTypeOK ==
    /\ tickets \in [Tickets -> TicketStates]
    /\ owner \in {"allowed", "blocked", "deleted"}
    /\ page \in [stage : PageStages, token : Tickets \union {NoTicket}, loading : BOOLEAN, leaving : BOOLEAN]
    /\ page.stage = "awaiting" => page.token # NoTicket
    /\ checks \in [Polls -> [at : {"idle", "select", "user", "consume"} \union Answers,
                            token : Tickets \union {NoTicket}]]
    /\ \A p \in Polls : checks[p].at = "idle" <=> checks[p].token = NoTicket
    /\ confirmed \subseteq Tickets
    /\ minted \in [Tickets -> Nat]

LoginInit ==
    /\ tickets = [t \in Tickets |-> "none"]
    /\ owner = "allowed"
    /\ page = [stage |-> "idle", token |-> NoTicket, loading |-> FALSE, leaving |-> FALSE]
    /\ checks = [p \in Polls |-> Resting]
    /\ confirmed = {}
    /\ minted = [t \in Tickets |-> 0]

-----------------------------------------------------------------------------
HasRow(t) == tickets[t] \in {"pending", "approved", "late"}

\* handleLogin.
Submit ==
    /\ page.stage = "idle" /\ ~page.loading
    /\ page' = [page EXCEPT !.loading = TRUE]
    /\ UNCHANGED <<tickets, owner, checks, confirmed, minted>>

\* login-request is refused: wrong password, locked, blocked, an error.
Refused ==
    /\ page.loading
    /\ page' = [page EXCEPT !.loading = FALSE]
    /\ UNCHANGED <<tickets, owner, checks, confirmed, minted>>

\* login-request inserts a ticket; its answer may be lost, and the page shows an error.
TicketIssued(t, arrives) ==
    /\ page.loading /\ owner = "allowed"
    /\ tickets[t] = "none"
    /\ tickets' = [tickets EXCEPT ![t] = "pending"]
    /\ page' = IF arrives THEN [page EXCEPT !.loading = FALSE, !.token = t, !.stage = "awaiting"]
                          ELSE [page EXCEPT !.loading = FALSE]
    /\ UNCHANGED <<owner, checks, confirmed, minted>>

\* POST /approve/:token.
ConfirmLink(t) ==
    /\ tickets[t] = "pending"
    /\ tickets' = [tickets EXCEPT ![t] = "approved"]
    /\ confirmed' = confirmed \union {t}
    /\ UNCHANGED <<owner, page, checks, minted>>

\* POST /reject/:token.
RejectLink(t) ==
    /\ HasRow(t)
    /\ tickets' = [tickets EXCEPT ![t] = "gone"]
    /\ UNCHANGED <<owner, page, checks, confirmed, minted>>

\* Ten minutes pass.
TicketExpires(t) ==
    /\ tickets[t] \in {"pending", "approved"}
    /\ tickets' = [tickets EXCEPT ![t] = "late"]
    /\ UNCHANGED <<owner, page, checks, confirmed, minted>>

\* An administrator blocks, unblocks or deletes the account.
OwnerChanges(o) ==
    /\ owner # "deleted" /\ o # owner
    /\ owner' = o
    /\ UNCHANGED <<tickets, page, checks, confirmed, minted>>

-----------------------------------------------------------------------------
CheckMoves(p, at) == checks' = [checks EXCEPT ![p].at = at]

\* The interval of the page fires; a request that is late does not hold the next one back.
SendsCheck(p) ==
    /\ page.stage = "awaiting" /\ checks[p].at = "idle"
    /\ checks' = [checks EXCEPT ![p] = [at |-> "select", token |-> page.token]]
    /\ UNCHANGED <<tickets, owner, page, confirmed, minted>>

\* What the first statement of the handler leads to.
TicketAnswer(t) ==
    CASE tickets[t] \in {"none", "gone"} -> "not_found"
      [] tickets[t] = "late" -> "expired"
      [] tickets[t] = "pending" -> "pending"
      [] OTHER -> "user"

ReadTicket(p) ==
    /\ checks[p].at = "select"
    /\ CheckMoves(p, TicketAnswer(checks[p].token))
    /\ UNCHANGED <<tickets, owner, page, confirmed, minted>>

\* The account is gone (the ticket goes too), blocked, or may log in.
ReadOwner(p) ==
    /\ checks[p].at = "user"
    /\ CheckMoves(p, IF owner = "allowed" THEN "consume" ELSE "error")
    /\ tickets' = IF owner = "deleted" THEN [tickets EXCEPT ![checks[p].token] = "gone"] ELSE tickets
    /\ UNCHANGED <<owner, page, confirmed, minted>>

\* Fault: the token is signed whether or not the DELETE found the row.
MutConsumed(t) == TRUE

\* DELETE ... RETURNING found the row.
Consumed(t) == HasRow(t)

Consume(p) ==
    LET t == checks[p].token IN
    /\ checks[p].at = "consume"
    /\ tickets' = [tickets EXCEPT ![t] = "gone"]
    /\ minted' = IF Consumed(t) THEN [minted EXCEPT ![t] = @ + 1] ELSE minted
    /\ CheckMoves(p, IF Consumed(t) THEN "approved" ELSE "error")
    /\ UNCHANGED <<owner, page, confirmed>>

\* The answer reaches the page, which applies it whatever the page shows by then.
CheckAnswered(p) ==
    /\ checks[p].at \in Answers
    /\ checks' = [checks EXCEPT ![p] = Resting]
    /\ page' = CASE page.stage = "left" -> page
                 [] checks[p].at = "approved" -> [page EXCEPT !.stage = "approved", !.leaving = TRUE]
                 [] checks[p].at \in {"expired", "not_found"} -> [page EXCEPT !.stage = "expired"]
                 [] OTHER -> page
    /\ UNCHANGED <<tickets, owner, confirmed, minted>>

\* The answer is lost: what the server did stays done.
CheckLost(p) ==
    /\ checks[p].at \in Answers
    /\ checks' = [checks EXCEPT ![p] = Resting]
    /\ UNCHANGED <<tickets, owner, page, confirmed, minted>>

\* The setTimeout of the approved answer: onLogin, and the page is left.
Leave ==
    /\ page.leaving
    /\ page' = [page EXCEPT !.leaving = FALSE, !.stage = "left"]
    /\ UNCHANGED <<tickets, owner, checks, confirmed, minted>>

\* The buttons cancel and retry.
Reset ==
    /\ page.stage \in {"awaiting", "expired"}
    /\ page' = [page EXCEPT !.stage = "idle", !.token = NoTicket]
    /\ UNCHANGED <<tickets, owner, checks, confirmed, minted>>

CheckStep(p) == ReadTicket(p) \/ ReadOwner(p) \/ Consume(p)

LoginNext ==
    \/ Submit \/ Refused \/ Leave \/ Reset
    \/ \E t \in Tickets : ConfirmLink(t) \/ RejectLink(t) \/ TicketExpires(t)
                          \/ \E arrives \in BOOLEAN : TicketIssued(t, arrives)
    \/ \E o \in {"allowed", "blocked", "deleted"} : OwnerChanges(o)
    \/ \E p \in Polls : SendsCheck(p) \/ CheckStep(p) \/ CheckAnswered(p) \/ CheckLost(p)

LoginSpec == LoginInit /\ [][LoginNext]_loginVars

(***************************************************************************)
(* The interval keeps firing, the server answers, the network does not     *)
(* lose every answer, and time passes.                                     *)
(***************************************************************************)
LoginFairness ==
    /\ \A p \in Polls : /\ WF_loginVars(SendsCheck(p)) /\ WF_loginVars(CheckStep(p))
                        /\ SF_loginVars(CheckAnswered(p))
    /\ \A t \in Tickets : WF_loginVars(TicketExpires(t))
    /\ WF_loginVars(Leave)

LoginFairSpec == LoginSpec /\ LoginFairness

-----------------------------------------------------------------------------
(* However many checks are under way together, a ticket signs at most one    *)
(* token, only after its link was confirmed, and then its row is gone: "an  *)
(* approval token is meant to authorize exactly one login" (auth.js:329).   *)
OneLoginPerApproval ==
    \A t \in Tickets : minted[t] > 0 => minted[t] = 1 /\ t \in confirmed /\ tickets[t] = "gone"

(* A page that waits is released: approved, expired, or reset, also when    *)
(* the account is blocked or deleted meanwhile and answers are lost.        *)
WaitEnds == page.stage = "awaiting" ~> page.stage # "awaiting"

(* A confirmed ticket of a page that still waits logs that page in.         *)
ApprovalArrives ==
    \A t \in Tickets :
        (t \in confirmed /\ minted[t] > 0 /\ page.token = t /\ page.stage = "awaiting") ~>
            page.stage \in {"approved", "left", "idle"}

(* A page that shows the form again after the user cancelled does not turn  *)
(* to a login (the button of LoginPage.jsx:486).                            *)
CancelHolds == [][page.stage = "idle" => page'.stage # "approved"]_loginVars
=============================================================================
