---------------------------- MODULE SyncLedger ----------------------------
(***************************************************************************)
(* What POST /api/sync/push promises about one operation, without          *)
(* connections, row locks or transactions: an operation is answered once,  *)
(* the answer is what the row dictates at that moment, the row changes in  *)
(* the same step, and the answer is kept.  The one concession is to an     *)
(* operation that races the record's creation: it may be answered from a   *)
(* moment at which the row did not exist yet.                              *)
(*                                                                         *)
(* The other writers of the table are here as what they do to a row: the   *)
(* server generates it, the web history page deletes it, the hardware      *)
(* worker rewrites its content.                                            *)
(***************************************************************************)
EXTENDS SyncOps

VARIABLES rows,      \* the analyses table
          ledger,    \* the sync_operations table
          request    \* the requests devices have made, by operation id

vars == <<rows, ledger, request>>

Init ==
    /\ rows = [r \in Records |-> NoRow]
    /\ ledger = [o \in Ops |-> NoEntry]
    /\ request = [o \in Ops |-> NoRequest]

\* A device queues an operation; its content never changes afterwards.
Submit(o) ==
    /\ request[o] = NoRequest
    /\ request'[o] \in Request
    /\ request' = [request EXCEPT ![o] = request'[o]]
    /\ UNCHANGED <<rows, ledger>>

Unanswered(o) == request[o] # NoRequest /\ ledger[o] = NoEntry

\* The operation takes effect and is answered, in one step.
Perform(o) ==
    /\ Unanswered(o)
    /\ LET q == request[o]
           row == rows[q.rec]
       IN  /\ rows' = [rows EXCEPT ![q.rec] = RowAfter(row, q)]
           /\ ledger' = [ledger EXCEPT ![o] = Recorded(Answer(row, q))]
    /\ UNCHANGED request

\* Answered as if the row did not exist: an update or a delete that looked
\* for the row before the transaction that creates it committed.
AnswerAbsent(o) ==
    /\ Unanswered(o)
    /\ request[o].kind # "create"
    /\ ledger' = [ledger EXCEPT ![o] = Recorded(Answer(NoRow, request[o]))]
    /\ UNCHANGED <<rows, request>>

\* POST /api/analysis/generate saves a report under a client id of its own.
Generate(r) ==
    /\ ~Exists(rows[r])
    /\ rows' = [rows EXCEPT ![r] = Generated]
    /\ UNCHANGED <<ledger, request>>

\* DELETE /api/history/:id: the tombstone keeps the version it found.
DeleteFromWeb(r) ==
    /\ Exists(rows[r])
    /\ rows' = [rows EXCEPT ![r].deleted = TRUE]
    /\ UNCHANGED <<ledger, request>>

\* The hardware worker writes back a content it read at some earlier moment,
\* with one more section.
RewriteContent(r) ==
    /\ Exists(rows[r])
    /\ rows'[r] \in Row
    /\ rows'[r].version = rows[r].version + 1
    /\ rows'[r].deleted = rows[r].deleted
    /\ rows' = [rows EXCEPT ![r] = rows'[r]]
    /\ UNCHANGED <<ledger, request>>

Next ==
    \/ \E o \in Ops : Submit(o) \/ Perform(o) \/ AnswerAbsent(o)
    \/ \E r \in Records : Generate(r) \/ DeleteFromWeb(r) \/ RewriteContent(r)

Spec == Init /\ [][Next]_vars
=============================================================================
