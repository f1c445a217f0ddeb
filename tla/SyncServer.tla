---------------------------- MODULE SyncServer ----------------------------
(***************************************************************************)
(* The server side of report synchronisation as it runs: every pushed      *)
(* operation is a PostgreSQL transaction at READ COMMITTED on a pooled     *)
(* connection (applyOperation, server/src/routes/sync.js), interleaved     *)
(* with the other operations, with the web history page's delete           *)
(* (routes/history.js), with the hardware worker's append                  *)
(* (services/quantumJobQueue.js) and with the devices' pulls.              *)
(*                                                                         *)
(* A transaction's writes are visible to others when it commits; the row   *)
(* lock of SELECT ... FOR UPDATE (or of an uncommitted INSERT) is held     *)
(* until then.  Revisions come from a sequence: they are taken when the    *)
(* statement runs and never returned, so they commit in any order.         *)
(***************************************************************************)
EXTENDS SyncOps, FiniteSets

CONSTANTS Conns,        \* pooled database connections
          Devices,      \* devices that pull
          PullLimit,    \* rows per pulled page
          MaxBase,      \* bound on the versions a request may name
          MaxRevision   \* bound on the revisions the sequence hands out

ASSUME BoundsAssumption ==
    PullLimit \in Nat \ {0} /\ MaxBase \in Nat /\ MaxRevision \in Nat

VARIABLES rows,      \* committed analyses rows
          revision,  \* committed analyses.sync_revision, 0 for no row
          sequence,  \* analyses_sync_revision_seq: the last value handed out
          ledger,    \* committed sync_operations rows
          request,   \* the operations devices have queued
          tx,        \* the transaction open on each connection
          cursor,    \* each device's sync_state.pull_cursor
          fetched,   \* history: the revision of each record a device last pulled
          answers,   \* history: every answer sent for an operation
          effects    \* history: the versions committed by operations

vars == <<rows, revision, sequence, ledger, request, tx, cursor, fetched,
          answers, effects>>

(***************************************************************************)
(* A transaction: its phase, the operation it applies (NoOp for a writer   *)
(* that is not a push), the record, the row its first query returned,      *)
(* whether it holds the record's row lock, and the write it will commit.   *)
(***************************************************************************)
Phases == {"open", "selected", "written", "checked", "read", "ready"}
Tx == [phase: Phases, op: Contents, rec: Records, seen: Row,
       lock: BOOLEAN, write: BOOLEAN, row: Row, revision: Nat]
Idle == [phase |-> "idle"]

Opened(phase, o, r, row) ==
    [phase |-> phase, op |-> o, rec |-> r, seen |-> row, lock |-> FALSE,
     write |-> FALSE, row |-> row, revision |-> 0]

Init ==
    /\ rows = [r \in Records |-> NoRow]
    /\ revision = [r \in Records |-> 0]
    /\ sequence = 0
    /\ ledger = [o \in Ops |-> NoEntry]
    /\ request = [o \in Ops |-> NoRequest]
    /\ tx = [c \in Conns |-> Idle]
    /\ cursor = [d \in Devices |-> 0]
    /\ fetched = [d \in Devices |-> [r \in Records |-> 0]]
    /\ answers = [o \in Ops |-> {}]
    /\ effects = {}

\* Fault: the row is read without FOR UPDATE.
MutLocked(r, c) == FALSE

\* Another transaction holds the record's row lock, or has inserted the
\* record and not committed yet.
Locked(r, c) ==
    \E d \in Conns \ {c} : tx[d] # Idle /\ tx[d].rec = r /\ tx[d].lock

\* Bound: a request is taken up only while the sequence has a revision left
\* for it and for every transaction already open.
Room == sequence + Cardinality({c \in Conns : tx[c] # Idle}) < MaxRevision

Advance(c, phase) == tx' = [tx EXCEPT ![c].phase = phase]
Release(c) == tx' = [tx EXCEPT ![c] = Idle]

\* Fault: the revision is computed as the last one plus one, without taking it.
MutStamp(c, phase, row) ==
    /\ UNCHANGED sequence
    /\ tx' = [tx EXCEPT ![c].phase = phase, ![c].row = row, ![c].write = TRUE,
                        ![c].lock = TRUE, ![c].revision = sequence + 1]

\* Takes the next revision for a statement that leaves row for tx[c].rec.
Stamp(c, phase, row) ==
    /\ sequence' = sequence + 1
    /\ tx' = [tx EXCEPT ![c].phase = phase, ![c].row = row, ![c].write = TRUE,
                        ![c].lock = TRUE, ![c].revision = sequence + 1]

(***************************************************************************)
(* Pushed operations.                                                      *)
(***************************************************************************)

\* Client ids are random: a new report's is one nobody has used.
Unused(r) ==
    /\ ~Exists(rows[r])
    /\ \A c \in Conns : tx[c] # Idle => tx[c].rec # r
    /\ \A o \in Ops : request[o] # NoRequest => request[o].rec # r

\* Reports a device may hold: its own creations and what it has pulled.
Known(r) ==
    Exists(rows[r]) \/ \E o \in Ops : request[o] # NoRequest /\ request[o].rec = r

\* A device queues operation o on a report it created or has pulled.  Only
\* an update or a delete names the version it was made against; only a
\* delete, or an update re-queued from the conflict of a delete, has no content.
Submit(o) ==
    /\ request[o] = NoRequest
    /\ \E kind \in Kinds, r \in Records, base \in 1 .. MaxBase, content \in {o, NoOp} :
          /\ IF kind = "create" THEN Unused(r) ELSE Known(r)
          /\ kind = "create" => content = o
          /\ kind = "delete" => content = NoOp
          /\ kind = "create" => base = 1
          /\ request' = [request EXCEPT ![o] =
                [kind |-> kind, rec |-> r, content |-> content,
                 base |-> IF kind = "create" THEN 0 ELSE base]]
    /\ UNCHANGED <<rows, revision, sequence, ledger, tx, cursor, fetched, answers, effects>>

\* BEGIN and the ledger lookup find no earlier answer.  A push is repeated
\* whenever the device has not seen its answer, so the same operation may
\* be open on several connections.
Begin(c, o) ==
    /\ tx[c] = Idle /\ request[o] # NoRequest /\ ledger[o] = NoEntry /\ Room
    /\ tx' = [tx EXCEPT ![c] = Opened("open", o, request[o].rec, NoRow)]
    /\ UNCHANGED <<rows, revision, sequence, ledger, request, cursor, fetched, answers, effects>>

\* The lookup finds one: it is replayed.
ReplayAnswer(c, o) ==
    /\ tx[c] = Idle /\ request[o] # NoRequest /\ ledger[o] # NoEntry
    /\ answers' = [answers EXCEPT ![o] = @ \cup {Replay(ledger[o])}]
    /\ UNCHANGED <<rows, revision, sequence, ledger, request, tx, cursor, fetched, effects>>

\* SELECT ... FOR UPDATE: waits for the lock of a committed row, finds
\* nothing when the row is missing or not committed yet.
SelectForUpdate(c) ==
    /\ tx[c].phase = "open"
    /\ LET row == rows[tx[c].rec]
       IN  /\ Exists(row) => ~Locked(tx[c].rec, c)
           /\ tx' = [tx EXCEPT ![c].phase = "selected", ![c].seen = row,
                               ![c].row = row, ![c].lock = Exists(row)]
    /\ UNCHANGED <<rows, revision, sequence, ledger, request, cursor, fetched, answers, effects>>

\* The create, update or delete branch.  An INSERT waits for another
\* transaction's uncommitted insert of the same client id.
Apply(c) ==
    /\ tx[c].phase = "selected"
    /\ LET q == request[tx[c].op]
           seen == tx[c].seen
       IN  IF Writes(seen, q)
             THEN /\ ~Exists(seen) => ~Exists(rows[tx[c].rec]) /\ ~Locked(tx[c].rec, c)
                  /\ Stamp(c, "written", Written(seen, q))
             ELSE Advance(c, "written") /\ UNCHANGED sequence
    /\ UNCHANGED <<rows, revision, ledger, request, cursor, fetched, answers, effects>>

\* Fault: the operation id is not unique in the ledger.
MutLog(c) ==
    /\ tx[c].phase = "written"
    /\ Advance(c, "ready")
    /\ UNCHANGED <<rows, revision, sequence, ledger, request, cursor, fetched, answers, effects>>

\* INSERT INTO sync_operations waits for another transaction's uncommitted
\* insert of the same operation id.
Log(c) ==
    /\ tx[c].phase = "written"
    /\ ledger[tx[c].op] = NoEntry
    /\ ~ \E d \in Conns : tx[d].phase = "ready" /\ tx[d].op = tx[c].op
    /\ Advance(c, "ready")
    /\ UNCHANGED <<rows, revision, sequence, ledger, request, cursor, fetched, answers, effects>>

\* Fault: the exception is swallowed and the transaction left open.
MutDuplicateKey(c) == FALSE /\ UNCHANGED vars

\* A unique index rejects the INSERT of a client id or of an operation id
\* that committed since this transaction looked: ROLLBACK.
DuplicateKey(c) ==
    /\ \/ /\ tx[c].phase = "selected" /\ request[tx[c].op].kind = "create"
          /\ ~Exists(tx[c].seen) /\ Exists(rows[tx[c].rec])
       \/ tx[c].phase = "written" /\ ledger[tx[c].op] # NoEntry
    /\ Release(c)
    /\ UNCHANGED <<rows, revision, sequence, ledger, request, cursor, fetched, answers, effects>>

\* Any other exception, a lost connection or a server restart: ROLLBACK.
Fail(c) ==
    /\ tx[c] # Idle
    /\ Release(c)
    /\ UNCHANGED <<rows, revision, sequence, ledger, request, cursor, fetched, answers, effects>>

(***************************************************************************)
(* The other writers of the analyses table.                                *)
(***************************************************************************)

\* A report generated on the server is inserted under a fresh client id.
GenerateReport(c, r) ==
    /\ tx[c] = Idle /\ Unused(r) /\ Room
    /\ sequence' = sequence + 1
    /\ tx' = [tx EXCEPT ![c] = [phase |-> "ready", op |-> NoOp, rec |-> r,
                                seen |-> NoRow, lock |-> TRUE, write |-> TRUE,
                                row |-> Generated, revision |-> sequence + 1]]
    /\ UNCHANGED <<rows, revision, ledger, request, cursor, fetched, answers, effects>>

\* DELETE /api/history/:id reads the row, and returns 404 for a tombstone ...
CheckDelete(c, r) ==
    /\ tx[c] = Idle /\ Exists(rows[r]) /\ ~rows[r].deleted /\ Room
    /\ tx' = [tx EXCEPT ![c] = Opened("checked", NoOp, r, rows[r])]
    /\ UNCHANGED <<rows, revision, sequence, ledger, request, cursor, fetched, answers, effects>>

\* ... then updates whatever the row has become: a new revision, no new version.
DeleteFromWeb(c) ==
    /\ tx[c].phase = "checked" /\ ~Locked(tx[c].rec, c)
    /\ Stamp(c, "ready", [rows[tx[c].rec] EXCEPT !.deleted = TRUE])
    /\ UNCHANGED <<rows, revision, ledger, request, cursor, fetched, answers, effects>>

\* The hardware worker reads a report's content ...
ReadContent(c, r) ==
    /\ tx[c] = Idle /\ Exists(rows[r]) /\ Room
    /\ tx' = [tx EXCEPT ![c] = Opened("read", NoOp, r, rows[r])]
    /\ UNCHANGED <<rows, revision, sequence, ledger, request, cursor, fetched, answers, effects>>

\* Fault: the worker writes back the deletion mark it read, too.
MutAppended(row, read) ==
    [version |-> row.version + 1, deleted |-> read.deleted,
     content |-> read.content, sections |-> read.sections + 1]

\* ... and writes it back with the hardware section appended.
Appended(row, read) ==
    [version |-> row.version + 1, deleted |-> row.deleted,
     content |-> read.content, sections |-> read.sections + 1]

AppendSection(c) ==
    /\ tx[c].phase = "read" /\ ~Locked(tx[c].rec, c)
    /\ Stamp(c, "ready", Appended(rows[tx[c].rec], tx[c].seen))
    /\ UNCHANGED <<rows, revision, ledger, request, cursor, fetched, answers, effects>>

\* COMMIT (of an explicit transaction, or of one statement on its own).
Commit(c) ==
    /\ tx[c].phase = "ready"
    /\ LET t == tx[c]
       IN  /\ rows' = IF t.write THEN [rows EXCEPT ![t.rec] = t.row] ELSE rows
           /\ revision' = IF t.write THEN [revision EXCEPT ![t.rec] = t.revision] ELSE revision
           /\ IF t.op = NoOp
                THEN UNCHANGED <<ledger, answers, effects>>
                ELSE LET answer == Answer(t.seen, request[t.op])
                     IN  /\ ledger' = [ledger EXCEPT ![t.op] = Recorded(answer)]
                         /\ answers' = [answers EXCEPT ![t.op] = @ \cup {answer}]
                         /\ effects' = effects \cup
                              {e \in {[op |-> t.op, rec |-> t.rec, version |-> t.row.version]} : t.write}
    /\ Release(c)
    /\ UNCHANGED <<sequence, request, cursor, fetched>>

(***************************************************************************)
(* GET /api/sync/pull: the committed rows past the cursor, lowest revision *)
(* first, at most PullLimit; the cursor moves to the last one.             *)
(***************************************************************************)
Beyond(d) == {r \in Records : revision[r] > cursor[d]}

\* Fault: the cursor moves to the last revision of the table, not of the page.
MutLastOf(page) == {r \in Records : \A s \in Records : revision[s] <= revision[r]}

LastOf(page) == {r \in page : \A s \in page : revision[s] <= revision[r]}

Pull(d) ==
    \E page \in SUBSET Beyond(d) :
       /\ Cardinality(page) <= PullLimit
       /\ page # Beyond(d) => Cardinality(page) = PullLimit
       /\ \A r \in page, s \in Beyond(d) \ page : revision[r] <= revision[s]
       /\ fetched' = [fetched EXCEPT ![d] =
                        [r \in Records |-> IF r \in page THEN revision[r] ELSE @[r]]]
       /\ cursor' \in {[cursor EXCEPT ![d] = revision[r]] : r \in LastOf(page)}
       /\ UNCHANGED <<rows, revision, sequence, ledger, request, tx, answers, effects>>

Push(c) ==
    \/ \E o \in Ops : Begin(c, o) \/ ReplayAnswer(c, o)
    \/ SelectForUpdate(c) \/ Apply(c) \/ Log(c) \/ DuplicateKey(c)
OtherWriter(c) ==
    \/ \E r \in Records : GenerateReport(c, r) \/ CheckDelete(c, r) \/ ReadContent(c, r)
    \/ DeleteFromWeb(c) \/ AppendSection(c)

Next ==
    \/ \E o \in Ops : Submit(o)
    \/ \E c \in Conns : Push(c) \/ OtherWriter(c) \/ Commit(c) \/ Fail(c)
    \/ \E d \in Devices : Pull(d)

Spec == Init /\ [][Next]_vars

(***************************************************************************)
(* A statement that is not blocked runs, and PostgreSQL queues those that  *)
(* wait for a row, so one that is let in time and again is not starved.    *)
(* Nothing makes a transaction fail, a device push or a worker append.     *)
(***************************************************************************)
Step(c) ==
    \/ SelectForUpdate(c) \/ Apply(c) \/ Log(c) \/ DuplicateKey(c)
    \/ DeleteFromWeb(c) \/ AppendSection(c) \/ Commit(c)
FairSpec == Spec /\ \A c \in Conns : SF_vars(Step(c))

(***************************************************************************)
(* Properties.                                                             *)
(***************************************************************************)

TypeOK ==
    /\ rows \in [Records -> Row]
    /\ revision \in [Records -> Nat]
    /\ sequence \in Nat
    /\ ledger \in [Ops -> Entry \cup {NoEntry}]
    /\ request \in [Ops -> Request \cup {NoRequest}]
    /\ tx \in [Conns -> Tx \cup {Idle}]
    /\ cursor \in [Devices -> Nat]
    /\ fetched \in [Devices -> [Records -> Nat]]
    /\ answers \in [Ops -> SUBSET Response]
    /\ effects \subseteq [op: Ops, rec: Records, version: Nat]

\* No edit is lost: an operation that changes a record produces the version
\* after the one it was made against, and no two produce the same version
\* (desktop/README.md:71-73, the server rejects rather than overwrites).
NoLostUpdate ==
    /\ \A e \in effects : e.version = request[e.op].base + 1
    /\ \A e, f \in effects : e.rec = f.rec /\ e.version = f.version => e = f

\* However often and on however many connections at once a push is repeated,
\* its operation has at most one effect; the ledger says "applied" of an
\* update exactly when it has it, at that version (desktop/README.md:69-71).
AnswerMatchesEffect ==
    /\ \A e, f \in effects : e.op = f.op => e = f
    /\ \A e \in effects : ledger[e.op] # NoEntry /\ ledger[e.op].status = "applied"
    /\ \A o \in Ops :
         ledger[o] # NoEntry /\ ledger[o].status = "applied" /\ request[o].kind = "update"
           => [op |-> o, rec |-> request[o].rec, version |-> ledger[o].version] \in effects

\* A delete that found its record and was told "applied" has deleted it for
\* good, whatever updates, web deletes and appends run around it.
DeletesHold ==
    \A o \in Ops :
       ledger[o] # NoEntry /\ request[o].kind = "delete"
         /\ ledger[o].status = "applied" /\ ledger[o].version > 0
         => rows[request[o].rec].deleted

\* Two rows never carry the same revision: a page cut between two rows
\* never splits a tie (idx_analyses_sync_revision).
UniqueRevisions ==
    \A r, s \in Records : r # s /\ Exists(rows[r]) => revision[r] # revision[s]

\* Every repetition of a push is answered like the first (sync.js:71,
\* "returns the originally-recorded result").
ReplayIsFaithful == \A o \in Ops : Cardinality(answers[o]) <= 1

\* Repetitions agree on what the ledger records.
AnswersAgree ==
    \A o \in Ops : \A a, b \in answers[o] : Recorded(a) = Recorded(b)

\* A page skips nothing: of every row committed by then that the cursor
\* moves past, the device has fetched the current state, wherever the page
\* was cut.
PullSkipsNothing ==
    [][\A d \in Devices, r \in Records :
         cursor[d] < revision[r] /\ revision[r] <= cursor'[d]
         => fetched'[d][r] = revision[r]]_vars

\* A device has fetched the current state of every row its cursor is past
\* (desktop/README.md:74, a pull "fetches everything changed since" it).
CursorComplete ==
    \A d \in Devices, r \in Records :
       revision[r] <= cursor[d] => fetched[d][r] = revision[r]

\* An update is applied to a tombstone only if it names a version the
\* record had after a delete: an edit made without knowing of the delete is
\* rejected, the web delete being "symmetric with the existing native-only
\* path" (history.js:301-304).
StaleEditsRejected ==
    [][\A o \in Ops :
         /\ ledger[o] = NoEntry /\ ledger'[o] # NoEntry
         /\ request[o].kind = "update" /\ ledger'[o].status = "applied"
         /\ rows[request[o].rec].deleted
         => \E e \in effects : /\ request[e.op].kind = "delete"
                              /\ e.rec = request[o].rec
                              /\ e.version <= request[o].base]_vars

\* The content of a live record is replaced only by an operation made
\* against the version it replaces (desktop/README.md:71-73): an accepted edit does
\* not vanish.
EditsSurvive ==
    [][\A r \in Records :
         rows[r].content \in Ops /\ rows'[r].content # rows[r].content
         => \E e \in effects' \ effects : e.rec = r]_vars

\* Every push that is taken up is carried to its end: no set of
\* transactions waits for one another's locks.
PushesEnd == \A c \in Conns : tx[c] # Idle ~> tx[c] = Idle

\* The server implements the promise of SyncLedger.
Promise == INSTANCE SyncLedger
KeepsPromise == Promise!Spec
=============================================================================
