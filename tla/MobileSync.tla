----------------------------- MODULE MobileSync -----------------------------
(***************************************************************************)
(* A report on the installed Android app: its row, the queued edits, the   *)
(* recorded conflicts and the pull cursor of mobile/db and mobile/sync,    *)
(* and the sync runs mobileBridge.js starts over them.  The protocol is    *)
(* DesktopSync's, the storage is not: every statement of the local         *)
(* database is awaited, so a run, an edit and the conflict dialog          *)
(* interleave between a read and the write it decides, and an action here  *)
(* is what happens between two awaits.                                     *)
(*                                                                         *)
(* One report: statements about different reports touch different rows,    *)
(* and a pass sends one operation of each (getDueOperations), so here a    *)
(* pass sends one operation and a pull has one page.  What the server does *)
(* with an operation is SyncOps; its ledger makes a repeat harmless.       *)
(***************************************************************************)
EXTENDS Integers, Sequences, FiniteSets

CONSTANTS Report,      \* the report
          Edits,       \* operation ids (sync_queue.id)
          Online,      \* the content others give the report
          NoEdit,      \* no content, no operation
          Slots,       \* sync runs that may be under way together
          PushTries,   \* queue.js MAX_ATTEMPTS
          MaxPasses,   \* engine.js MAX_PUSH_PASSES
          MaxMishaps   \* bound on failed requests, kills and changes made elsewhere

S == INSTANCE SyncOps WITH Records <- {Report}, Ops <- Edits, Web <- Online, NoOp <- NoEdit

ASSUME MobileAssumption ==
    /\ Online \notin Edits /\ NoEdit \notin Edits \cup {Online}
    /\ IsFiniteSet(Edits)
    /\ PushTries \in Nat \ {0} /\ MaxPasses \in Nat \ {0} /\ MaxMishaps \in Nat

VARIABLES serverRow,   \* server: the row of analyses
          change,      \* server: its sync_revision
          ledger,      \* server: sync_operations
          mine,        \* app: the row of analyses
          outbox,      \* app: sync_queue
          clashes,     \* app: conflicts, in the order they were detected
          pulledTo,    \* app: sync_state.pull_cursor
          runs,        \* app: the calls of performSync under way
          choice,      \* app: the resolveConflict under way
          connectivity, \* app: connectivityState
          mishaps      \* counter of the bounded events

mobileVars == <<serverRow, change, ledger, mine, outbox, clashes, pulledTo, runs, choice,
                connectivity, mishaps>>
serverSide == <<serverRow, change, ledger>>

Mishap == mishaps < MaxMishaps /\ mishaps' = mishaps + 1

NoCopy == [version |-> 0, deleted |-> FALSE, content |-> NoEdit, status |-> "none"]

\* "typed": the edit has read the row and awaits the encryption of its text.
\* place is the order of created_at, waiting is next_attempt_at > now.
NoOperation == [kind |-> "none", base |-> 0, content |-> NoEdit, status |-> "unused",
                tries |-> 0, waiting |-> FALSE, place |-> 0]
NoChoice == [at |-> 0, how |-> "none"]

\* A run between two awaits: with an operation, with its answer, or at rest.
Rest == [at |-> "rest"]
WithEdit(at, e, left) == [at |-> at, edit |-> e, left |-> left]
WithAnswer(at, e, left, says) == [at |-> at, edit |-> e, left |-> left, says |-> says]

MobileInit ==
    /\ serverRow = S!NoRow /\ change = 0 /\ ledger = [e \in Edits |-> S!NoEntry]
    /\ mine = NoCopy /\ outbox = [e \in Edits |-> NoOperation]
    /\ clashes = << >> /\ pulledTo = 0
    /\ runs = [s \in Slots |-> Rest] /\ choice = NoChoice /\ connectivity = "local"
    /\ mishaps = 0

(***************************************************************************)
(* The queue.                                                              *)
(***************************************************************************)
Enqueued == {e \in Edits : outbox[e].status \notin {"unused", "typed"}}
OnItsWay(e) == outbox[e].status \in {"pending", "in_flight"}

\* hasPendingOrInFlight
AnyOnItsWay == \E e \in Edits : OnItsWay(e)

\* getDueOperations: the oldest one that is due.
DueNow ==
    LET ready == {e \in Edits : outbox[e].status = "pending" /\ ~outbox[e].waiting}
    IN  {e \in ready : \A f \in ready : outbox[e].place <= outbox[f].place}

Enqueue(e, kind, base, content) ==
    outbox' = [outbox EXCEPT ![e] =
        [kind |-> kind, base |-> base, content |-> content, status |-> "pending", tries |-> 0,
         waiting |-> FALSE, place |-> Cardinality(Enqueued) + 1]]

\* cancelQueuedFor
CancelQueued ==
    [e \in Edits |-> IF OnItsWay(e) THEN [outbox[e] EXCEPT !.status = "failed"] ELSE outbox[e]]

\* Fault: gives up one attempt early.
MutGivenUp(tries) == tries >= PushTries - 1

GivenUp(tries) == tries >= PushTries

(***************************************************************************)
(* The user.                                                               *)
(***************************************************************************)
Untouched == \A e \in Edits : outbox[e] = NoOperation

\* crypto.randomUUID: an id that is not in use, and the ids are interchangeable.
Fresh(e) ==
    outbox[e] = NoOperation /\ e = (CHOOSE f \in Edits : outbox[f] = NoOperation)

CreateHere(e) ==
    /\ ~S!Exists(serverRow) /\ Untouched /\ Fresh(e)
    /\ mine' = [version |-> 1, deleted |-> FALSE, content |-> e, status |-> "pending"]
    /\ Enqueue(e, "create", 0, e)
    /\ UNCHANGED <<serverSide, clashes, pulledTo, runs, choice, connectivity, mishaps>>

\* updateAnalysis and deleteAnalysis read the row ...
EditBegins(e, kind) ==
    /\ mine # NoCopy /\ ~mine.deleted /\ Fresh(e)
    /\ outbox' = [outbox EXCEPT ![e] =
          [NoOperation EXCEPT !.kind = kind, !.base = mine.version, !.status = "typed",
                              !.content = IF kind = "update" THEN e ELSE NoEdit]]
    /\ UNCHANGED <<serverSide, mine, clashes, pulledTo, runs, choice, connectivity, mishaps>>

\* ... and write it and the operation in one transaction later.
EditLands(e) ==
    LET o == outbox[e]
    IN  /\ o.status = "typed"
        /\ mine' = [mine EXCEPT !.version = @ + 1, !.status = "pending",
                                !.content = IF o.kind = "update" THEN e ELSE @,
                                !.deleted = @ \/ o.kind = "delete"]
        /\ Enqueue(e, o.kind, o.base, o.content)
        /\ UNCHANGED <<serverSide, clashes, pulledTo, runs, choice, connectivity, mishaps>>

\* resolveConflict finds the conflict unresolved ...
Choose(i, how) ==
    /\ choice = NoChoice /\ clashes[i].resolution = "none"
    /\ choice' = [at |-> i, how |-> how]
    /\ UNCHANGED <<serverSide, mine, outbox, clashes, pulledTo, runs, connectivity, mishaps>>

Resolved == /\ clashes' = [clashes EXCEPT ![choice.at].resolution = choice.how]
            /\ choice' = NoChoice
            /\ UNCHANGED <<serverSide, pulledTo, runs, connectivity, mishaps>>

\* ... and writes the side that was chosen: the server's,
TakeTheirs ==
    LET c == clashes[choice.at]
    IN  /\ choice.how = "kept_server"
        /\ \/ /\ c.deleted
              /\ mine' = [mine EXCEPT !.deleted = TRUE, !.version = c.version,
                                      !.status = "synced"]
           \/ /\ ~c.deleted /\ c.payload # NoEdit
              /\ mine' = [version |-> c.version, deleted |-> FALSE, content |-> c.payload,
                          status |-> "synced"]
        /\ UNCHANGED outbox /\ Resolved

\* or the local one, queued as an update against the server's version; with
\* neither a tombstone nor a payload the server's side cannot be written.
TakeOurs(n) ==
    LET c == clashes[choice.at]
    IN  /\ choice.how = "kept_local" /\ Fresh(n)
        /\ mine' = [mine EXCEPT !.version = c.version, !.status = "pending"]
        /\ Enqueue(n, "update", c.version, outbox[c.edit].content)
        /\ Resolved

ChoiceThrows ==
    /\ choice.how = "kept_server"
    /\ ~clashes[choice.at].deleted /\ clashes[choice.at].payload = NoEdit
    /\ choice' = NoChoice
    /\ UNCHANGED <<serverSide, mine, outbox, clashes, pulledTo, runs, connectivity, mishaps>>

(***************************************************************************)
(* performSync: after every local write, on a timer, on demand, and on     *)
(* every change of connectivityState to "cloud".  left counts the passes.  *)
(***************************************************************************)
Moves(s, to) == runs' = [runs EXCEPT ![s] = to]
At(s, at) == runs[s].at = at
App == <<mine, outbox, clashes, pulledTo, choice>>

\* A call of performSync; the slots are interchangeable.
FreeSlot(s) == At(s, "rest") /\ s = (CHOOSE t \in Slots : At(t, "rest"))

Trigger(s) ==
    /\ FreeSlot(s) /\ Moves(s, [at |-> "called"])
    /\ UNCHANGED <<serverSide, App, connectivity, mishaps>>

NextPush(left) == [at |-> "due", left |-> left]

Starts(s) ==
    /\ At(s, "called") /\ Moves(s, NextPush(MaxPasses)) /\ connectivity' = "sync"
    /\ UNCHANGED <<serverSide, App, mishaps>>

\* The operation is read while it is pending ...
ReadDue(s) ==
    /\ At(s, "due")
    /\ IF DueNow = {} \/ runs[s].left = 0
         THEN Moves(s, [at |-> "pull"])
         ELSE \E e \in DueNow : Moves(s, WithEdit("mark", e, runs[s].left - 1))
    /\ UNCHANGED <<serverSide, App, connectivity, mishaps>>

\* ... and marked and sent whatever has become of it since.
MarkAndSend(s) ==
    /\ At(s, "mark") /\ Moves(s, WithEdit("sent", runs[s].edit, runs[s].left))
    /\ outbox' = [outbox EXCEPT ![runs[s].edit].status = "in_flight"]
    /\ UNCHANGED <<serverSide, mine, clashes, pulledTo, choice, connectivity, mishaps>>

\* The server performs an operation once and repeats its answer after that.
Answered(s) ==
    LET e == runs[s].edit
        q == [kind |-> outbox[e].kind, base |-> outbox[e].base, content |-> outbox[e].content]
    IN  /\ At(s, "sent")
        /\ IF ledger[e] = S!NoEntry
             THEN /\ serverRow' = S!RowAfter(serverRow, q)
                  /\ change' = IF S!Writes(serverRow, q) THEN change + 1 ELSE change
                  /\ ledger' = [ledger EXCEPT ![e] = S!Recorded(S!Answer(serverRow, q))]
                  /\ Moves(s, WithAnswer("answer", e, runs[s].left, S!Answer(serverRow, q)))
             ELSE /\ Moves(s, WithAnswer("answer", e, runs[s].left, S!Replay(ledger[e])))
                  /\ UNCHANGED serverSide
        /\ UNCHANGED <<App, connectivity, mishaps>>

\* The request or its answer is lost: the operation backs off, the run pulls.
PushLost(s) ==
    /\ Mishap
    /\ At(s, "sent") \/ At(s, "answer")
    /\ Moves(s, WithEdit("failing", runs[s].edit, 0))
    /\ UNCHANGED <<serverSide, App, connectivity>>

\* The result: markDone, ...
Done(s) ==
    /\ At(s, "answer") /\ runs[s].says.status = "applied"
    /\ outbox' = [outbox EXCEPT ![runs[s].edit].status = "done"]
    /\ Moves(s, WithAnswer("applied", runs[s].edit, runs[s].left, runs[s].says))
    /\ UNCHANGED <<serverSide, mine, clashes, pulledTo, choice, connectivity, mishaps>>

\* ... then applyApplied.  A null version violates NOT NULL and ends the run.
Applied(s) ==
    LET version == runs[s].says.version
    IN  /\ At(s, "applied")
        /\ IF version > 0
             THEN /\ mine' = [mine EXCEPT !.version = version, !.status = "synced"]
                  /\ Moves(s, NextPush(runs[s].left))
             ELSE UNCHANGED mine /\ Moves(s, [at |-> "check"])
        /\ UNCHANGED <<serverSide, outbox, clashes, pulledTo, choice, connectivity, mishaps>>

\* recordConflict: the two sides in one transaction, ...
ClashRecorded(s) ==
    LET says == runs[s].says
    IN  /\ At(s, "answer") /\ says.status = "conflict"
        /\ clashes' = Append(clashes, [edit |-> runs[s].edit, payload |-> says.payload,
                                       version |-> says.version, deleted |-> says.deleted,
                                       resolution |-> "none"])
        /\ mine' = [mine EXCEPT !.status = "conflict"]
        /\ Moves(s, WithEdit("cancel", runs[s].edit, runs[s].left))
        /\ UNCHANGED <<serverSide, outbox, pulledTo, choice, connectivity, mishaps>>

\* ... and what is queued for the report by then is cancelled.
QueueCancelled(s) ==
    /\ At(s, "cancel") /\ outbox' = CancelQueued /\ Moves(s, NextPush(runs[s].left))
    /\ UNCHANGED <<serverSide, mine, clashes, pulledTo, choice, connectivity, mishaps>>

PushRefused(s) ==
    /\ At(s, "answer") /\ runs[s].says.status = "error"
    /\ Moves(s, WithEdit("failing", runs[s].edit, runs[s].left))
    /\ UNCHANGED <<serverSide, App, connectivity, mishaps>>

\* markFailed reads the attempts ...
TriesRead(s) ==
    /\ At(s, "failing")
    /\ Moves(s, [at |-> "failed", edit |-> runs[s].edit, left |-> runs[s].left,
                tries |-> outbox[runs[s].edit].tries + 1])
    /\ UNCHANGED <<serverSide, App, connectivity, mishaps>>

\* ... and puts the operation back behind a backoff, or gives it up.  After a
\* lost request (left is 0) the run goes on to pull.
TriesWritten(s) ==
    LET r == runs[s]
    IN  /\ At(s, "failed")
        /\ outbox' = [outbox EXCEPT ![r.edit].tries = r.tries, ![r.edit].waiting = TRUE,
                          ![r.edit].status = IF GivenUp(r.tries) THEN "failed" ELSE "pending"]
        /\ Moves(s, NextPush(r.left))
        /\ UNCHANGED <<serverSide, mine, clashes, pulledTo, choice, connectivity, mishaps>>

BackoffOver(e) ==
    /\ outbox[e].status = "pending" /\ outbox[e].waiting
    /\ outbox' = [outbox EXCEPT ![e].waiting = FALSE]
    /\ UNCHANGED <<serverSide, mine, clashes, pulledTo, runs, choice, connectivity, mishaps>>

(***************************************************************************)
(* Pulling.                                                                *)
(***************************************************************************)
AskSince(s) ==
    /\ At(s, "pull") /\ Moves(s, [at |-> "asked", since |-> pulledTo])
    /\ UNCHANGED <<serverSide, App, connectivity, mishaps>>

PageArrives(s) ==
    /\ At(s, "asked")
    /\ Moves(s, IF S!Exists(serverRow) /\ change > runs[s].since
                 THEN [at |-> "page", row |-> serverRow, next |-> change]
                 ELSE [at |-> "save", next |-> runs[s].since])
    /\ UNCHANGED <<serverSide, App, connectivity, mishaps>>

PullLost(s) ==
    /\ Mishap
    /\ At(s, "asked") /\ Moves(s, [at |-> "check"])
    /\ UNCHANGED <<serverSide, App, connectivity>>

\* buildPulledRecordStatement: no statement for a report with an edit on its
\* way, nor for a tombstone of a report the app never had ...
StatementBuilt(s) ==
    LET r == runs[s]
        skip == AnyOnItsWay \/ (r.row.deleted /\ mine = NoCopy)
    IN  /\ At(s, "page")
        /\ Moves(s, IF skip THEN [at |-> "save", next |-> r.next]
                   ELSE [at |-> "write", row |-> r.row, next |-> r.next,
                         insert |-> mine = NoCopy])
        /\ UNCHANGED <<serverSide, App, connectivity, mishaps>>

\* ... and it runs when every statement of the page has been built.  Another
\* run's INSERT in the meantime makes this one violate the primary key.
PageWritten(s) ==
    LET r == runs[s]
    IN  /\ At(s, "write")
        /\ IF r.insert /\ mine # NoCopy
             THEN UNCHANGED mine /\ Moves(s, [at |-> "check"])
             ELSE /\ mine' = IF r.row.deleted
                               THEN [mine EXCEPT !.deleted = TRUE, !.version = r.row.version,
                                                 !.status = "synced"]
                               ELSE [version |-> r.row.version, deleted |-> FALSE,
                                     content |-> r.row.content, status |-> "synced"]
                  /\ Moves(s, [at |-> "save", next |-> r.next])
        /\ UNCHANGED <<serverSide, outbox, clashes, pulledTo, choice, connectivity, mishaps>>

CursorSaved(s) ==
    /\ At(s, "save") /\ pulledTo' = runs[s].next /\ Moves(s, [at |-> "check"])
    /\ UNCHANGED <<serverSide, mine, outbox, clashes, choice, connectivity, mishaps>>

(***************************************************************************)
(* checkConnectivity at the end of a run and on its own timer: a change to *)
(* "cloud" calls performSync.                                              *)
(***************************************************************************)
ConnectivityChecked(s) ==
    /\ At(s, "check") /\ connectivity' \in {"cloud", "local"}
    /\ Moves(s, IF connectivity' = "cloud" /\ connectivity # "cloud"
                  THEN [at |-> "called"] ELSE Rest)
    /\ UNCHANGED <<serverSide, App, mishaps>>

ConnectivityPolled(s) ==
    /\ FreeSlot(s) /\ connectivity' \in {"cloud", "local"} \ {connectivity}
    /\ Moves(s, IF connectivity' = "cloud" THEN [at |-> "called"] ELSE Rest)
    /\ UNCHANGED <<serverSide, App, mishaps>>

\* The app is closed or killed: the database stays as it is.
Killed ==
    /\ Mishap
    /\ runs' = [s \in Slots |-> Rest] /\ choice' = NoChoice /\ connectivity' = "local"
    /\ outbox' = [e \in Edits |-> IF outbox[e].status = "typed" THEN NoOperation ELSE outbox[e]]
    /\ UNCHANGED <<serverSide, mine, clashes, pulledTo>>

\* The user's other devices and the web pages: a report is generated, edited
\* or deleted there.
Elsewhere ==
    /\ Mishap /\ change' = change + 1
    /\ \/ /\ ~S!Exists(serverRow) /\ Untouched
          /\ serverRow' = S!Generated
       \/ /\ S!Exists(serverRow)
          /\ serverRow' = [serverRow EXCEPT !.version = @ + 1, !.content = Online]
       \/ /\ S!Exists(serverRow) /\ ~serverRow.deleted
          /\ \E version \in {serverRow.version, serverRow.version + 1} :
                serverRow' = [serverRow EXCEPT !.version = version, !.deleted = TRUE]
    /\ UNCHANGED <<ledger, App, runs, connectivity>>

MobileUser ==
    \/ \E e \in Edits : CreateHere(e) \/ EditLands(e) \/ TakeOurs(e)
    \/ \E e \in Edits, kind \in {"update", "delete"} : EditBegins(e, kind)
    \/ \E i \in DOMAIN clashes, how \in {"kept_server", "kept_local"} : Choose(i, how)
    \/ TakeTheirs \/ ChoiceThrows
MobileRun(s) ==
    \/ Trigger(s) \/ Starts(s) \/ ReadDue(s) \/ MarkAndSend(s) \/ Answered(s) \/ PushLost(s)
    \/ Done(s) \/ Applied(s) \/ ClashRecorded(s) \/ QueueCancelled(s)
    \/ PushRefused(s) \/ TriesRead(s) \/ TriesWritten(s)
    \/ AskSince(s) \/ PageArrives(s) \/ PullLost(s) \/ StatementBuilt(s) \/ PageWritten(s)
    \/ CursorSaved(s) \/ ConnectivityChecked(s) \/ ConnectivityPolled(s)

MobileNext ==
    \/ MobileUser \/ Killed \/ Elsewhere
    \/ \E s \in Slots : MobileRun(s)
    \/ \E e \in Edits : BackoffOver(e)

MobileSpec == MobileInit /\ [][MobileNext]_mobileVars

-----------------------------------------------------------------------------
Copy == [version: Nat, deleted: BOOLEAN, content: S!Contents,
         status: {"none", "pending", "synced", "conflict"}]
Operation == [kind: {"none", "create", "update", "delete"}, base: Nat, content: S!Contents,
              status: {"unused", "typed", "pending", "in_flight", "done", "failed"},
              tries: Nat, waiting: BOOLEAN, place: Nat]
Clash == [edit: Edits, payload: S!Contents, version: Nat, deleted: BOOLEAN,
          resolution: {"none", "kept_server", "kept_local"}]
RunState ==
    [at: {"rest", "called", "pull", "check"}] \cup [at: {"due"}, left: Nat]
    \cup [at: {"mark", "sent", "failing", "cancel"}, edit: Edits, left: Nat]
    \cup [at: {"failed"}, edit: Edits, left: Nat, tries: Nat]
    \cup [at: {"answer", "applied"}, edit: Edits, left: Nat, says: S!Response]
    \cup [at: {"asked"}, since: Nat] \cup [at: {"save"}, next: Nat]
    \cup [at: {"page"}, row: S!Row, next: Nat]
    \cup [at: {"write"}, row: S!Row, next: Nat, insert: BOOLEAN]

MobileTypeOK ==
    /\ serverRow \in S!Row /\ change \in Nat
    /\ ledger \in [Edits -> S!Entry \cup {S!NoEntry}]
    /\ mine \in Copy /\ outbox \in [Edits -> Operation]
    /\ clashes \in Seq(Clash) /\ pulledTo \in Nat
    /\ runs \in [Slots -> RunState]
    /\ choice = NoChoice \/ choice \in [at: 1 .. Len(clashes), how: {"kept_server", "kept_local"}]
    /\ connectivity \in {"local", "sync", "cloud"} /\ mishaps \in 0 .. MaxMishaps

\* However runs, edits and the dialog interleave, no edit vanishes from the app: one that is done
\* was applied, one that has failed used up its attempts or stands behind a conflict on disk
\* (queue.js, "a queued op is never dropped").  And a row shown as synced is at a version the
\* server has reached; its text may be one the server has not had yet (SyncedIsServers).
EditsKept ==
    /\ \A e \in Edits :
         /\ outbox[e].status = "done" => ledger[e] # S!NoEntry /\ ledger[e].status = "applied"
         /\ outbox[e].status = "failed" => outbox[e].tries >= PushTries \/ clashes # << >>
    /\ mine.status = "synced" => mine.version <= serverRow.version

\* Disagreements with the code, reached by overlapping runs or by an edit during a run.

\* A report shown as synced shows a text the server has had (entityHandlers.js applyApplied).  The
\* answer to an edit marks the row synced whatever has been written into it since that edit.
SyncedIsServers ==
    mine.status = "synced" /\ mine.content \in Edits =>
        \E e \in Edits : /\ outbox[e].content = mine.content
                        /\ ledger[e] # S!NoEntry /\ ledger[e].status = "applied"

\* A report that was deleted on the app stays deleted (analysesRepo.js, "Soft delete").
DeletedStays ==
    \A e \in Edits : outbox[e].kind = "delete" /\ outbox[e].status = "done"
                       => serverRow.deleted \/ ~S!Exists(serverRow)

\* A conflict is recorded once for an edit (conflict.js, "both sides of a conflict").
OneClashPerEdit ==
    \A i, j \in DOMAIN clashes : clashes[i].edit = clashes[j].edit => i = j

\* An operation that is done stays done (queue.js markDone).
DoneStays ==
    [][\A e \in Edits : outbox[e].status = "done" => outbox'[e].status = "done"]_mobileVars

\* A report with an edit on its way is never overwritten by a pull (engine.js,
\* "A record with local edits still in flight is never overwritten here").
NotOverwritten ==
    [][\A s \in Slots : At(s, "write") /\ runs'[s].at = "save" => ~AnyOnItsWay]_mobileVars

\* An app with nothing to send, no conflict and a cursor that has caught up shows the server's
\* report (engine.js, "Pulls everything new since the locally stored cursor").
MobileConverged ==
    (/\ \A s \in Slots : At(s, "rest")
     /\ \A e \in Edits : outbox[e].status \in {"unused", "done"}
     /\ S!Exists(serverRow) /\ pulledTo >= change)
    => IF serverRow.deleted THEN mine = NoCopy \/ mine.deleted
       ELSE mine.content = serverRow.content /\ mine.version = serverRow.version

\* Only a reconnection calls performSync (mobileBridge.js, "A reconnect (local -> cloud)").
OnlyReconnects ==
    [][\A s \in Slots :
         At(s, "check") /\ runs'[s].at = "called" => connectivity = "local"]_mobileVars
=============================================================================
