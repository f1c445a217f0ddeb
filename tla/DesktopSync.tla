---------------------------- MODULE DesktopSync ----------------------------
(***************************************************************************)
(* Offline-first reports on the devices of one user: the local analyses    *)
(* table, the durable queue of operations, the conflicts table and the     *)
(* pull cursor of each device (desktop/db/analysesRepo.js, desktop/sync/)  *)
(* against the server's promise of SyncLedger.                             *)
(*                                                                         *)
(* main.js starts a sync run after every local write, on a timer, on       *)
(* reconnection and on demand, and nothing keeps two runs apart.  A run    *)
(* gives up the thread only where it awaits the network, so each action    *)
(* below is the code between two awaits, except that the results of one    *)
(* response are taken one at a time: they are of different records.        *)
(*                                                                         *)
(* Title and content are encrypted on the device and decrypted on the way  *)
(* to the server; as in SyncOps they are one datum.                        *)
(***************************************************************************)
EXTENDS SyncOps, FiniteSetsExt

CONSTANTS Devices,      \* installations the user is signed in on
          Runs,         \* sync runs that may be under way on one device
          MaxAttempts,  \* queue.js MAX_ATTEMPTS
          MaxPasses,    \* engine.js MAX_PUSH_PASSES
          PullLimit,    \* rows per pulled page
          Resolutions,  \* the choices users make in the conflict dialog
          MaxLosses,    \* bound on network and server failures
          MaxCrashes,   \* bound on application crashes and restarts
          MaxWeb        \* bound on actions at the web client

ASSUME LimitsAssumption ==
    /\ MaxAttempts \in Nat \ {0} /\ MaxPasses \in Nat \ {0} /\ PullLimit \in Nat \ {0}
    /\ IsFiniteSet(Records) /\ Resolutions \subseteq {"kept_local", "kept_server"}
    /\ MaxLosses \in Nat /\ MaxCrashes \in Nat /\ MaxWeb \in Nat

VARIABLES rows,       \* server: analyses
          revision,   \* server: analyses.sync_revision, 0 for no row
          ledger,     \* server: sync_operations
          late,       \* server: operations received from a device that has given up on them
          local,      \* devices: analyses
          queue,      \* devices: sync_queue
          conflicts,  \* devices: conflicts, by the operation that conflicted
          cursor,     \* devices: sync_state.pull_cursor
          run,        \* devices: the sync runs
          losses, crashes, web    \* counters of the bounded events

server == <<rows, revision, ledger, late>>
counters == <<losses, crashes, web>>
vars == <<server, local, queue, conflicts, cursor, run, counters>>

LocalRow == [version: Nat, deleted: BOOLEAN, content: Contents,
             status: {"pending", "synced", "conflict"}]
NoLocal == [version |-> 0, deleted |-> FALSE, content |-> NoOp, status |-> "none"]

\* place is the order of created_at; waiting is next_attempt_at > now;
\* settles is the operation whose conflict a re-queued edit settles.
Item == [dev: Devices, kind: Kinds, rec: Records, base: Nat, content: Contents,
         status: {"pending", "in_flight", "done", "failed"}, attempts: Nat,
         waiting: BOOLEAN, place: Nat, settles: Ops \cup {NoOp}]
NoItem == [status |-> "none"]

Conflict == [content: Contents, payload: Contents, version: Nat, deleted: BOOLEAN,
             resolution: {"none", "kept_local", "kept_server"}]
NoConflict == [resolution |-> "absent"]

(***************************************************************************)
(* A run pushes ("push": waiting for the response, todo not yet applied by *)
(* the server; "results": the response has arrived) in several passes,     *)
(* then pulls ("pull": the request is out; "page": the response is back).  *)
(***************************************************************************)
Idle == [phase |-> "idle"]
Pushing(pass, due) == [phase |-> "push", pass |-> pass, todo |-> due, replies |-> {}]
Pulling(since) == [phase |-> "pull", since |-> since]

Init ==
    /\ rows = [r \in Records |-> NoRow]
    /\ revision = [r \in Records |-> 0]
    /\ ledger = [o \in Ops |-> NoEntry]
    /\ late = {}
    /\ local = [d \in Devices |-> [r \in Records |-> NoLocal]]
    /\ queue = [o \in Ops |-> NoItem]
    /\ conflicts = [o \in Ops |-> NoConflict]
    /\ cursor = [d \in Devices |-> 0]
    /\ run = [d \in Devices |-> [s \in Runs |-> Idle]]
    /\ losses = 0 /\ crashes = 0 /\ web = 0

(***************************************************************************)
(* The queue.                                                              *)
(***************************************************************************)
Queued(d) == {o \in Ops : queue[o] # NoItem /\ queue[o].dev = d}
On(d, r) == {o \in Queued(d) : queue[o].rec = r}
Live(o) == queue[o].status \in {"pending", "in_flight"}

\* hasPendingOrInFlight
HasLive(d, r) == \E o \in On(d, r) : Live(o)

Enqueue(o, d, kind, r, base, content, settles) ==
    /\ queue[o] = NoItem
    /\ queue' = [queue EXCEPT ![o] =
          [dev |-> d, kind |-> kind, rec |-> r, base |-> base, content |-> content,
           status |-> "pending", attempts |-> 0, waiting |-> FALSE,
           place |-> Cardinality(Queued(d)) + 1, settles |-> settles]]

\* Fault: every due operation of a record is sent at once.
MutDue(d) == {o \in Queued(d) : queue[o].status = "pending" /\ ~queue[o].waiting}

\* getDueOperations: the oldest of the due operations of each record.
Due(d) ==
    LET ready == {o \in Queued(d) : queue[o].status = "pending" /\ ~queue[o].waiting}
    IN  {o \in ready : \A p \in ready :
            queue[p].rec = queue[o].rec => queue[o].place <= queue[p].place}

MarkAll(q, os, status) == [o \in Ops |-> IF o \in os THEN [q[o] EXCEPT !.status = status] ELSE q[o]]

\* Fault: gives up one attempt early.
MutFailed(item) ==
    [item EXCEPT !.attempts = @ + 1, !.waiting = TRUE,
                 !.status = IF item.attempts + 2 >= MaxAttempts THEN "failed" ELSE "pending"]

\* Fault: the operation is not put back to pending.
MutStuck(item) == [item EXCEPT !.attempts = @ + 1, !.waiting = TRUE]

\* markFailed: back to pending behind a backoff, or given up.
Failed(item) ==
    [item EXCEPT !.attempts = @ + 1, !.waiting = TRUE,
                 !.status = IF item.attempts + 1 >= MaxAttempts THEN "failed" ELSE "pending"]

FailAll(q, os) == [o \in Ops |-> IF o \in os THEN Failed(q[o]) ELSE q[o]]

\* cancelQueuedFor
Cancelled(d, r) == MarkAll(queue, {o \in On(d, r) : Live(o)}, "failed")

(***************************************************************************)
(* The user, on a device: the row changes and the operation is queued in   *)
(* one local transaction.                                                  *)
(***************************************************************************)
Create(d, o, r) ==
    /\ ~Exists(rows[r]) /\ \A p \in Ops : queue[p] # NoItem => queue[p].rec # r
    /\ local' = [local EXCEPT ![d][r] =
          [version |-> 1, deleted |-> FALSE, content |-> o, status |-> "pending"]]
    /\ Enqueue(o, d, "create", r, 0, o, NoOp)
    /\ UNCHANGED <<server, conflicts, cursor, run, counters>>

Shown(d, r) == local[d][r] # NoLocal /\ ~local[d][r].deleted

Update(d, o, r) ==
    /\ Shown(d, r)
    /\ local' = [local EXCEPT ![d][r].version = @ + 1, ![d][r].content = o,
                              ![d][r].status = "pending"]
    /\ Enqueue(o, d, "update", r, local[d][r].version, o, NoOp)
    /\ UNCHANGED <<server, conflicts, cursor, run, counters>>

Remove(d, o, r) ==
    /\ Shown(d, r)
    /\ local' = [local EXCEPT ![d][r].version = @ + 1, ![d][r].deleted = TRUE,
                              ![d][r].status = "pending"]
    /\ Enqueue(o, d, "delete", r, local[d][r].version, NoOp, NoOp)
    /\ UNCHANGED <<server, conflicts, cursor, run, counters>>

Unresolved(o) == conflicts[o].resolution = "none"

\* resolveConflict, kept_server: the server's side as the conflict recorded
\* it; with neither a tombstone nor a payload the transaction throws.
KeepServer(o) ==
    LET c == conflicts[o]
        d == queue[o].dev
        r == queue[o].rec
    IN  /\ Unresolved(o) /\ "kept_server" \in Resolutions
        /\ \/ /\ c.deleted
              /\ local' = [local EXCEPT ![d][r].deleted = TRUE, ![d][r].version = c.version,
                                        ![d][r].status = "synced"]
           \/ /\ ~c.deleted /\ c.payload # NoOp
              /\ local' = [local EXCEPT ![d][r] =
                    [version |-> c.version, deleted |-> FALSE, content |-> c.payload,
                     status |-> "synced"]]
        /\ conflicts' = [conflicts EXCEPT ![o].resolution = "kept_server"]
        /\ UNCHANGED <<server, queue, cursor, run, counters>>

\* resolveConflict, kept_local: whatever the operation was, an update with
\* its payload is queued against the server's version.
KeepLocal(o, n) ==
    LET d == queue[o].dev
        r == queue[o].rec
    IN  /\ Unresolved(o) /\ "kept_local" \in Resolutions
        /\ local' = [local EXCEPT ![d][r].version = conflicts[o].version,
                                  ![d][r].status = "pending"]
        /\ Enqueue(n, d, "update", r, conflicts[o].version, conflicts[o].content, o)
        /\ conflicts' = [conflicts EXCEPT ![o].resolution = "kept_local"]
        /\ UNCHANGED <<server, cursor, run, counters>>

(***************************************************************************)
(* A sync run: pushing.                                                    *)
(***************************************************************************)

\* One iteration of the push loop: the due operations are marked in flight
\* and sent; with none left (or after MaxPasses) the run goes on to pull.
BeginPass(d, s, pass) ==
    IF Due(d) = {} \/ pass > MaxPasses
      THEN run' = [run EXCEPT ![d][s] = Pulling(cursor[d])] /\ UNCHANGED queue
      ELSE /\ run' = [run EXCEPT ![d][s] = Pushing(pass, Due(d))]
           /\ queue' = MarkAll(queue, Due(d), "in_flight")

StartSync(d, s) ==
    /\ run[d][s] = Idle
    /\ BeginPass(d, s, 1)
    /\ UNCHANGED <<server, local, conflicts, cursor, counters>>

\* What the request says of an operation, and what the server does with it
\* (SyncLedger's Perform).
Sent(o) ==
    [kind |-> queue[o].kind, rec |-> queue[o].rec, base |-> queue[o].base,
     content |-> queue[o].content]
Perform(o) ==
    LET q == Sent(o)
        row == rows[q.rec]
    IN  /\ rows' = [rows EXCEPT ![q.rec] = RowAfter(row, q)]
        /\ revision' = IF Writes(row, q)
                         THEN [revision EXCEPT ![q.rec] = Max({revision[r] : r \in Records}) + 1]
                         ELSE revision
        /\ ledger' = [ledger EXCEPT ![o] = Recorded(Answer(row, q))]

Replied(d, s, o, answer) ==
    run' = [run EXCEPT ![d][s].todo = @ \ {o}, ![d][s].replies = @ \cup {[op |-> o, answer |-> answer]}]

\* Fault: the ledger is not consulted.
MutServe(d, s, o) ==
    /\ run[d][s].phase = "push" /\ o \in run[d][s].todo
    /\ Perform(o) /\ Replied(d, s, o, Answer(rows[queue[o].rec], Sent(o)))
    /\ UNCHANGED <<late, local, queue, conflicts, cursor, counters>>

\* One operation of the request: performed and answered, or replayed.
Serve(d, s, o) ==
    /\ run[d][s].phase = "push" /\ o \in run[d][s].todo
    /\ IF ledger[o] = NoEntry
         THEN Perform(o) /\ Replied(d, s, o, Answer(rows[queue[o].rec], Sent(o)))
         ELSE Replied(d, s, o, Replay(ledger[o])) /\ UNCHANGED <<rows, revision, ledger>>
    /\ UNCHANGED <<late, local, queue, conflicts, cursor, counters>>

\* The operation's transaction fails: it is answered, and not recorded.
ServeFails(d, s, o) ==
    /\ losses < MaxLosses /\ losses' = losses + 1
    /\ run[d][s].phase = "push" /\ o \in run[d][s].todo
    /\ Replied(d, s, o, [status |-> "error", version |-> 0, payload |-> NoOp, deleted |-> FALSE])
    /\ UNCHANGED <<server, local, queue, conflicts, cursor, crashes, web>>

\* The server gets to what a device has stopped waiting for, or never does.
ServeLate(o) ==
    /\ o \in late
    /\ late' = late \ {o}
    /\ IF ledger[o] = NoEntry THEN Perform(o) ELSE UNCHANGED <<rows, revision, ledger>>
    /\ UNCHANGED <<local, queue, conflicts, cursor, run, counters>>

Deliver(d, s) ==
    /\ run[d][s].phase = "push" /\ run[d][s].todo = {}
    /\ run' = [run EXCEPT ![d][s].phase = "results"]
    /\ UNCHANGED <<server, local, queue, conflicts, cursor, counters>>

\* The request or its response is lost: every operation of the pass backs
\* off, and the run goes on to pull.
LosePush(d, s) ==
    LET sent == run[d][s].todo \cup {p.op : p \in run[d][s].replies}
    IN  /\ losses < MaxLosses /\ losses' = losses + 1
        /\ run[d][s].phase = "push"
        /\ queue' = FailAll(queue, sent)
        /\ run' = [run EXCEPT ![d][s] = Pulling(cursor[d])]
        /\ late' \in {late, late \cup run[d][s].todo}
        /\ UNCHANGED <<rows, revision, ledger, local, conflicts, cursor, crashes, web>>

(***************************************************************************)
(* The results of a response.                                              *)
(***************************************************************************)
Reply(d, s) == IF run[d][s].phase = "results" THEN run[d][s].replies ELSE {}
Taken(d, s, p) == run' = [run EXCEPT ![d][s].replies = @ \ {p}]

\* markDone, then applyApplied.  A null version (a delete of what the server
\* never had) violates NOT NULL on analyses.version: the run ends there.
TakeApplied(d, s, p) ==
    LET r == queue[p.op].rec
    IN  /\ p \in Reply(d, s) /\ p.answer.status = "applied"
        /\ queue' = MarkAll(queue, {p.op}, "done")
        /\ IF p.answer.version > 0
             THEN /\ local' = [local EXCEPT ![d][r].version = p.answer.version,
                                            ![d][r].status = "synced"]
                  /\ Taken(d, s, p)
             ELSE UNCHANGED local /\ run' = [run EXCEPT ![d][s] = Idle]
        /\ UNCHANGED <<server, conflicts, cursor, counters>>

\* recordConflict: both sides of it ...
Noted(o, answer) ==
    [content |-> queue[o].content, payload |-> answer.payload,
     version |-> answer.version, deleted |-> answer.deleted, resolution |-> "none"]

\* ... and everything else queued for the record is cancelled.
TakeConflict(d, s, p) ==
    LET r == queue[p.op].rec
    IN  /\ p \in Reply(d, s) /\ p.answer.status = "conflict"
        /\ conflicts' = [conflicts EXCEPT ![p.op] = Noted(p.op, p.answer)]
        /\ local' = [local EXCEPT ![d][r].status = "conflict"]
        /\ queue' = Cancelled(d, r)
        /\ Taken(d, s, p)
        /\ UNCHANGED <<server, cursor, counters>>

TakeError(d, s, p) ==
    /\ p \in Reply(d, s) /\ p.answer.status = "error"
    /\ queue' = FailAll(queue, {p.op})
    /\ Taken(d, s, p)
    /\ UNCHANGED <<server, local, conflicts, cursor, counters>>

NextPass(d, s) ==
    /\ run[d][s].phase = "results" /\ run[d][s].replies = {}
    /\ BeginPass(d, s, run[d][s].pass + 1)
    /\ UNCHANGED <<server, local, conflicts, cursor, counters>>

(***************************************************************************)
(* A sync run: pulling.                                                    *)
(***************************************************************************)

\* The server answers GET /api/sync/pull with one page.
Fetch(d, s) ==
    /\ run[d][s].phase = "pull"
    /\ LET since == run[d][s].since
           beyond == {r \in Records : revision[r] > since}
       IN  \E page \in SUBSET beyond :
              /\ Cardinality(page) <= PullLimit
              /\ page # beyond => Cardinality(page) = PullLimit
              /\ \A r \in page, t \in beyond \ page : revision[r] < revision[t]
              /\ run' = [run EXCEPT ![d][s] =
                    [phase |-> "page", rows |-> [r \in page |-> rows[r]],
                     next |-> Max({since} \cup {revision[r] : r \in page}),
                     more |-> Cardinality(page) = PullLimit]]
    /\ UNCHANGED <<server, local, queue, conflicts, cursor, counters>>

\* Fault: tombstones are skipped.
MutPulled(mine, row) ==
    IF row.deleted THEN mine
    ELSE [version |-> row.version, deleted |-> FALSE, content |-> row.content,
          status |-> "synced"]

\* applyPulled: a tombstone keeps the local content; anything else is the
\* server's row.
Pulled(mine, row) ==
    IF row.deleted
      THEN IF mine = NoLocal THEN NoLocal
           ELSE [mine EXCEPT !.deleted = TRUE, !.version = row.version, !.status = "synced"]
      ELSE [version |-> row.version, deleted |-> FALSE, content |-> row.content,
            status |-> "synced"]

\* The page is applied, except to records with an operation pending or in
\* flight, and the cursor is saved, whatever another run has saved since.
ApplyPage(d, s) ==
    /\ run[d][s].phase = "page"
    /\ LET page == run[d][s]
       IN  /\ local' = [local EXCEPT ![d] = [r \in Records |->
                 IF r \in DOMAIN page.rows /\ ~HasLive(d, r)
                   THEN Pulled(@[r], page.rows[r]) ELSE @[r]]]
           /\ cursor' = [cursor EXCEPT ![d] = page.next]
           /\ run' = [run EXCEPT ![d][s] = IF page.more THEN Pulling(page.next) ELSE Idle]
    /\ UNCHANGED <<server, queue, conflicts, counters>>

LosePull(d, s) ==
    /\ losses < MaxLosses /\ losses' = losses + 1
    /\ run[d][s].phase \in {"pull", "page"}
    /\ run' = [run EXCEPT ![d][s] = Idle]
    /\ UNCHANGED <<server, local, queue, conflicts, cursor, crashes, web>>

(***************************************************************************)
(* Time, crashes and the web client.                                       *)
(***************************************************************************)
BackoffElapses(o) ==
    /\ queue[o].status = "pending" /\ queue[o].waiting
    /\ queue' = [queue EXCEPT ![o].waiting = FALSE]
    /\ UNCHANGED <<server, local, conflicts, cursor, run, counters>>

\* The application is closed or killed and started again, possibly between
\* markDone and applyApplied: the database stays as it is, the runs are gone.
Crash(d) ==
    /\ crashes < MaxCrashes /\ crashes' = crashes + 1
    /\ \E done \in SUBSET {p.op : p \in {q \in UNION {Reply(d, s) : s \in Runs} :
                                           q.answer.status = "applied"}} :
          Cardinality(done) <= 1 /\ queue' = MarkAll(queue, done, "done")
    /\ run' = [run EXCEPT ![d] = [s \in Runs |-> Idle]]
    /\ late' \in {late, late \cup UNION {run[d][s].todo : s \in
                                        {t \in Runs : run[d][t].phase = "push"}}}
    /\ UNCHANGED <<rows, revision, ledger, local, conflicts, cursor, losses, web>>

\* A report generated online, and the web history page's delete.
GenerateReport(r) ==
    /\ web < MaxWeb /\ web' = web + 1
    /\ ~Exists(rows[r]) /\ \A p \in Ops : queue[p] # NoItem => queue[p].rec # r
    /\ rows' = [rows EXCEPT ![r] = Generated]
    /\ revision' = [revision EXCEPT ![r] = Max({revision[t] : t \in Records}) + 1]
    /\ UNCHANGED <<ledger, late, local, queue, conflicts, cursor, run, losses, crashes>>

WebDelete(r) ==
    /\ web < MaxWeb /\ web' = web + 1
    /\ Exists(rows[r]) /\ ~rows[r].deleted
    /\ rows' = [rows EXCEPT ![r].deleted = TRUE]
    /\ revision' = [revision EXCEPT ![r] = Max({revision[t] : t \in Records}) + 1]
    /\ UNCHANGED <<ledger, late, local, queue, conflicts, cursor, run, losses, crashes>>

User(d) ==
    \E o \in Ops, r \in Records : Create(d, o, r) \/ Update(d, o, r) \/ Remove(d, o, r)
Dialog == \E o \in Ops : KeepServer(o) \/ \E n \in Ops : KeepLocal(o, n)
Push(d, s) ==
    \/ StartSync(d, s) \/ Deliver(d, s) \/ NextPass(d, s)
    \/ \E o \in Ops : Serve(d, s, o)
    \/ \E p \in Reply(d, s) : TakeApplied(d, s, p) \/ TakeConflict(d, s, p) \/ TakeError(d, s, p)
Pull(d, s) == Fetch(d, s) \/ ApplyPage(d, s)
Loss(d, s) == LosePush(d, s) \/ LosePull(d, s) \/ \E o \in Ops : ServeFails(d, s, o)

Next ==
    \/ \E d \in Devices : User(d) \/ Crash(d)
    \/ \E d \in Devices, s \in Runs : Push(d, s) \/ Pull(d, s) \/ Loss(d, s)
    \/ \E o \in Ops : ServeLate(o) \/ BackoffElapses(o)
    \/ \E r \in Records : GenerateReport(r) \/ WebDelete(r)
    \/ Dialog

Spec == Init /\ [][Next]_vars

\* While the user is signed in and online a run starts at least every sync
\* interval (main.js) and goes on while the server answers; backoffs end.
FairSpec ==
    /\ Spec
    /\ \A d \in Devices, s \in Runs : WF_vars(Push(d, s)) /\ WF_vars(Pull(d, s))
    /\ \A o \in Ops : WF_vars(BackoffElapses(o))

(***************************************************************************)
(* Properties.                                                             *)
(***************************************************************************)
RunState ==
    {Idle} \cup [phase: {"push", "results"}, pass: 1 .. MaxPasses, todo: SUBSET Ops,
                 replies: SUBSET [op: Ops, answer: Response]]
           \cup [phase: {"pull"}, since: Nat]
           \cup [phase: {"page"}, rows: UNION {[R -> Row] : R \in SUBSET Records},
                 next: Nat, more: BOOLEAN]

TypeOK ==
    /\ rows \in [Records -> Row]
    /\ revision \in [Records -> Nat]
    /\ ledger \in [Ops -> Entry \cup {NoEntry}]
    /\ late \subseteq Ops
    /\ local \in [Devices -> [Records -> LocalRow \cup {NoLocal}]]
    /\ queue \in [Ops -> Item \cup {NoItem}]
    /\ conflicts \in [Ops -> Conflict \cup {NoConflict}]
    /\ cursor \in [Devices -> Nat]
    /\ \A d \in Devices, s \in Runs :
         run[d][s].phase # "page" => run[d][s] \in RunState
    /\ losses \in 0 .. MaxLosses /\ crashes \in 0 .. MaxCrashes /\ web \in 0 .. MaxWeb

\* Operations on a record are sent in the order they were made: none is in
\* flight while an earlier one is pending or in flight (queue.js:12-16).
InOrder ==
    \A o, p \in Ops :
       /\ queue[o].status = "in_flight" /\ p \in On(queue[o].dev, queue[o].rec)
       /\ queue[p].place < queue[o].place
       => ~Live(p)

\* A run of its device still has an operation that is in flight.
InHand(o) ==
    \E s \in Runs :
       LET u == run[queue[o].dev][s]
       IN  u.phase \in {"push", "results"} /\ o \in u.todo \cup {p.op : p \in u.replies}

\* An operation marked in flight belongs to a run that is still going:
\* nothing else will ever look at it again, for getDueOperations reads only
\* pending ones (queue.js:5-7, "a queued op is never dropped").
InFlightOwned == \A o \in Ops : queue[o].status = "in_flight" => InHand(o)

\* An operation leaves the queue for a reason: done means the server has
\* applied it, failed means its attempts are used up or a conflict on its
\* record is on disk for the user to settle (desktop/README.md:89-91).
NothingDropped ==
    \A o \in Ops :
       /\ queue[o].status = "done" => ledger[o] # NoEntry /\ ledger[o].status = "applied"
       /\ queue[o].status = "failed" =>
            \/ queue[o].attempts >= MaxAttempts
            \/ \E p \in On(queue[o].dev, queue[o].rec) : conflicts[p] # NoConflict

\* Once a device's delete is done the record is gone from the server for
\* good (sync.js:174, "desired end state (gone) already holds").
DeletesLand ==
    \A o \in Ops :
       queue[o].status = "done" /\ queue[o].kind = "delete"
         => LET row == rows[queue[o].rec] IN Exists(row) => row.deleted

\* A device that is done with a record: nothing queued, no open conflict, no
\* page under way, the cursor past the record's last change.
Settled(d, r) ==
    /\ ~HasLive(d, r) /\ \A o \in On(d, r) : ~Unresolved(o)
    /\ \A o \in On(d, r) : queue[o].status = "failed" => queue[o].attempts < MaxAttempts
    /\ \A s \in Runs : run[d][s].phase # "page"
    /\ Exists(rows[r]) /\ revision[r] <= cursor[d]

\* Devices reconcile: a device that is done with a record shows what the
\* server has.
Converged ==
    \A d \in Devices, r \in Records : Settled(d, r) =>
       IF rows[r].deleted THEN ~Shown(d, r)
       ELSE /\ Shown(d, r)
            /\ local[d][r].version = rows[r].version
            /\ local[d][r].content = rows[r].content

\* A deletion reaches the server for good, and every device that is done
\* with a record ends with what the server has (engine.js:93-99).
Reconciled == DeletesLand /\ Converged

\* Every conflict can be settled either way: the server's side is a
\* tombstone or a payload (desktop/README.md:81-83).
ConflictsResolvable ==
    \A o \in Ops : Unresolved(o) => conflicts[o].deleted \/ conflicts[o].payload # NoOp

\* Only somebody else's change makes an operation conflict (desktop/README.md:71-73,
\* an operation carries the version it was edited against).
OwnEditsNeverConflict ==
    \A o \in Ops :
       ledger[o] # NoEntry /\ ledger[o].status = "conflict" =>
         \E p \in Ops : /\ queue[p].status # "none" /\ queue[p].dev # queue[o].dev
                        /\ queue[p].rec = queue[o].rec
                        /\ ledger[p] # NoEntry /\ ledger[p].status = "applied"

\* Keeping the local side of a conflict makes it the server's: once the
\* re-queued operation is applied the report is deleted exactly if the local
\* side had deleted it (conflict.js:77-79, "re-queues the local edit").
KeptLocalLands ==
    [][\A o \in Ops :
         /\ ledger[o] = NoEntry /\ ledger'[o] # NoEntry /\ ledger'[o].status = "applied"
         /\ queue[o].settles # NoOp
         => rows'[queue[o].rec].deleted <=> queue[queue[o].settles].kind = "delete"]_vars

\* The last local edit of a report in conflict is on one of its two sides
\* (desktop/README.md:79-80, "both sides are recorded ... never silently discarded").
LastEditInConflict ==
    \A o \in Ops : Unresolved(o) =>
       LET d == queue[o].dev
           r == queue[o].rec
           edits == {p \in On(d, r) : queue[p].kind = "update" /\ queue[p].content # NoOp}
       IN  \A p \in edits :
              (queue[p].status = "failed" /\ \A q \in On(d, r) : queue[q].place <= queue[p].place)
              => conflicts[p] # NoConflict

\* The server has answered a delete of the device as applied although it did
\* not have the record: serverVersion is null, and no run survives taking it.
NullAnswered(d) ==
    \E o \in Queued(d) : ledger[o] # NoEntry /\ ledger[o].status = "applied" /\ ledger[o].version = 0

\* Every queued operation is settled, one way or the other
\* (desktop/README.md:89-91), unless the device has been answered a null
\* version: then what was in flight beside that delete may stay so.
QueueDrains ==
    \A o \in Ops :
       queue[o].status = "pending" ~>
          \/ queue[o].status \in {"done", "failed"}
          \/ queue[o].status = "in_flight" /\ ~InHand(o) /\ NullAnswered(queue[o].dev)

\* QueueDrains without the exception.
QueueNeverWedged ==
    \A o \in Ops : queue[o].status = "pending" ~> queue[o].status \in {"done", "failed"}

\* The devices use the server as SyncLedger promises it.
Ledger == INSTANCE SyncLedger WITH
            request <- [o \in Ops |-> IF queue[o] = NoItem THEN NoRequest ELSE Sent(o)]
UsesLedger == Ledger!Spec
=============================================================================
