------------------------------ MODULE SyncOps ------------------------------
(***************************************************************************)
(* What one queued operation does to one row of the server's analyses      *)
(* table: the three branches of applyOperation in server/src/routes/       *)
(* sync.js as functions of the row it has locked and of the request.       *)
(* The server (SyncServer), the promise it makes (SyncLedger) and the      *)
(* devices' view of it (DesktopSync) share these definitions.              *)
(*                                                                         *)
(* A report's title and content are one datum, the id of the operation     *)
(* whose payload they are.                                                 *)
(***************************************************************************)
EXTENDS Integers

CONSTANTS Records,   \* client ids of reports (analyses.client_id)
          Ops,       \* operation ids (sync_queue.id, sync_operations.operation_id)
          Web,       \* the author of a report generated on the server
          NoOp       \* no operation: a null payload

ASSUME NoOpAssumption == Web \notin Ops /\ NoOp \notin Ops \cup {Web}

Kinds == {"create", "update", "delete"}
Statuses == {"applied", "conflict", "error"}
Contents == Ops \cup {Web, NoOp}

(***************************************************************************)
(* version 0 stands for "no such row"; sections counts the hardware        *)
(* sections quantumJobQueue.js has appended to the content.                *)
(***************************************************************************)
Row == [version: Nat, deleted: BOOLEAN, content: Contents, sections: Nat]
NoRow == [version |-> 0, deleted |-> FALSE, content |-> NoOp, sections |-> 0]
Generated == [version |-> 1, deleted |-> FALSE, content |-> Web, sections |-> 0]
Exists(row) == row.version > 0

Request == [kind: Kinds, rec: Records, base: Nat, content: Contents]
NoRequest == [kind |-> "none"]

Response == [status: Statuses, version: Nat, payload: Contents, deleted: BOOLEAN]
Entry == [status: Statuses, version: Nat, payload: Contents]
NoEntry == [status |-> "none"]

\* The optimistic-concurrency test (current.version !== baseVersion).
Stale(row, q) == row.version # q.base

\* TRUE iff the operation changes the row: the INSERT and the two UPDATEs.
Writes(row, q) ==
    \/ q.kind = "create" /\ ~Exists(row)
    \/ q.kind = "update" /\ Exists(row) /\ ~Stale(row, q)
    \/ q.kind = "delete" /\ Exists(row) /\ ~row.deleted /\ ~Stale(row, q)

\* The row an operation that writes leaves behind.  COALESCE keeps the
\* stored content when the payload carries none; a tombstone stays one.
Written(row, q) ==
    LET kept == q.content = NoOp
    IN  IF q.kind = "create"
          THEN [version |-> 1, deleted |-> FALSE, content |-> q.content, sections |-> 0]
          ELSE [version  |-> row.version + 1,
                deleted  |-> IF q.kind = "delete" THEN TRUE ELSE row.deleted,
                content  |-> IF kept THEN row.content ELSE q.content,
                sections |-> IF kept THEN row.sections ELSE 0]

RowAfter(row, q) == IF Writes(row, q) THEN Written(row, q) ELSE row

Status(row, q) ==
    CASE q.kind = "update" /\ ~Exists(row) -> "error"      \* not_found
      [] q.kind = "update" /\ Exists(row) /\ Stale(row, q) -> "conflict"
      [] q.kind = "delete" /\ Exists(row) /\ ~row.deleted /\ Stale(row, q) -> "conflict"
      [] OTHER -> "applied"

\* Fault: the answer is computed from the row as it was before the write.
MutAnswer(row, q) ==
    [status |-> Status(row, q), version |-> row.version, payload |-> row.content,
     deleted |-> row.deleted]

\* The result object of applyOperation; a null version is 0, a null payload NoOp.
Answer(row, q) ==
    LET after == RowAfter(row, q)
        status == Status(row, q)
    IN  [status  |-> status,
         version |-> IF status = "error" THEN 0 ELSE after.version,
         payload |-> CASE q.kind = "create" -> after.content
                       [] q.kind = "update" /\ status = "applied" -> after.content
                       [] status = "conflict" /\ ~row.deleted -> row.content
                       [] OTHER -> NoOp,
         deleted |-> status = "conflict" /\ row.deleted]

\* Fault: the whole result object is stored.
MutRecorded(answer) == answer

\* The columns of sync_operations: the ledger has no "deleted" column, so a
\* replayed answer never carries the flag.
Recorded(answer) ==
    [status |-> answer.status, version |-> answer.version, payload |-> answer.payload]
Replay(entry) ==
    [status |-> entry.status, version |-> entry.version,
     payload |-> entry.payload, deleted |-> FALSE]
=============================================================================
