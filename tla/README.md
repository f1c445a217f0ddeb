# ANATOLIA-Q: specifications and proofs

ANATOLIA-Q writes analysis reports with AI models. It is a server (Express and
PostgreSQL), a web client, an offline-first desktop application (Electron) with
a mobile twin, and BCI, a separate control plane for security scans. This
directory holds TLA+ models of the parts whose correctness depends on the order
of events, TLC configurations that check them on small instances, and TLAPS
proofs of what matters most for every instance.

    tlc -workers 2 -config SyncServer.cfg MCSyncServer     # check one run
    tlapm SyncServerProofs.tla                             # check the proofs

## 1. The system

| component | state | operations | what is hard | what makes it correct |
|---|---|---|---|---|
| server: report synchronisation (`server/src/routes/sync.js`, `history.js`) | `analyses` rows with `version`, `deleted_at`, `sync_revision`; the `sync_operations` ledger | push (one transaction per operation), pull, web delete | repeated and concurrent pushes, READ COMMITTED snapshots, row locks, a sequence that commits out of order | no edit is lost, an operation has one effect and one answer, deletes hold, nothing is skipped by a pull, no lock cycle |
| desktop: sync engine and local store (`desktop/sync`, `desktop/db`) | local `analyses`, `sync_queue`, `conflicts`, `sync_state` | local edits, `runSync` (push passes, then pull), `resolveConflict` | runs that overlap, lost responses, backoffs, crashes, answers for a row that has moved on | nothing leaves the queue without a reason, operations go out in order, devices converge, conflicts can be settled |
| desktop: main process (`desktop/main.js`) | timers, IPC | starts a run after every write, on a timer, on reconnection, on demand | no guard against a second run | as above |
| BCI: scan queue and worker (`bci/src/services/jobQueue.js`, `worker.js`) | `scan_jobs`, `asset_risk_snapshots` | enqueue, cancel, claim, complete, fail, sweep | updates by id alone, decisions read in one statement and written in another, slow or dead workers | no attempt is run twice, retries are bounded, every job ends |
| server: hardware verification queue (`quantumJobQueue.js`) | `quantum_hardware_jobs`, sections appended to reports | enqueue, claim, reclaim, append, complete, fail, the in-process fallback | reclaim of a job whose instance is only slow; crash between append and completion; attempts written as they were at the claim | no job is verified by two instances, every job ends |
| desktop: session and devices (`desktop/auth/session.js`, `server/src/routes/devices.js`) | the stored session or its tombstone with a revoke debt, the `devices` row, the signed-in user | login, offline login (both forms of the page at once), logout, forget | state loaded before an `await` and saved after it; a late DELETE; a login or verification under way when the device is forgotten | a revocation that is owed is paid or still known |
| desktop: mode and connectivity (`appMode.js`, `connectivity.js`) | mode, intervals and their handles | switch, reconcile, poll, start, stop | the mode changes while a reconciliation awaits | automatic mode has its services |
| local AI models (`localAI/`, `LocalAIPanel.jsx`) | the partial and the installed file, the runtime | download, resume, stop, cancel, verify, remove, load | two downloads into one file; open files that follow a rename; cancel against completion | what is installed is the whole model |
| updates (`main.js`, `version.js`, `UpdateBanner.jsx`) | release list, pending and downloaded update, banner | check, approve, download, install, dismiss; multi-range responses | a newer release between two steps; a client that leaves a multi-range response | nothing is installed that was not approved and downloaded whole |
| mobile twin (`client/src/mobile`, `mobileBridge.js`) | as the desktop, over asynchronous storage; the connectivity state | as the desktop, with a sync run on every change to "cloud" | runs, edits and the conflict dialog interleave at every statement; a kill between any two | no edit is lost, no row is called synced at a version the server has not reached |
| server: login and passkeys (`routes/auth.js`, `webauthn.js`, `lib/`) | `approval_tokens`, challenges, failure counter | request, confirm or reject a link, check; ceremonies | repeated checks and responses, from several clients at once; a counter that loses its expiry | one login per approval, a challenge is used once, a waiting page is released |
| server: accounts (`routes/auth.js`, `middleware/auth.js`, `blockedUserCache.js`) | `auth_users`, tokens, block cache, tables that name an owner | create, role, block, rename, delete | tokens that outlive a rename or block; a cache filled with what was read before a block | what a person saved stays theirs |
| server: presence and meetings (`socket.js`, `onlineState.ts`, `EmergencyChatPanel.jsx`) | the map of online users, rooms, peer connections | register, register as someone else, disconnect, block; start, join, leave, signal, kick, end, lose a connection, reconnect | an old connection that closes after the new one registered; offers that cross; a lost connection nobody is told of | nobody closed stays listed, those who are in a meeting are connected |
| web client: analysis and consultation (`AnalysisView.jsx`, `ConsultChat.jsx`) | the report, scenario and spinner; bubbles | generate, cancel, change category, deep dive; stream, stop | answers to a call the page has given up | the spinner tells the truth, a bubble speaks with one voice |
| web client: cyber console (`CyberAnalysisContent.jsx`, `CyberNewAnalysisWizard.jsx`) | step, asset, engines, job, result; tab, detail | select, start, poll, reset; tabs, hand-over | effects whose answers come after they were run again; polls that outlive a reset | a page shows what belongs to its selection |
| voice assistant and spoken consultation (`GlobalVoiceAssistant.jsx`, `VoiceChat.jsx`) | per voice: on or open, what it shows, its recognizer, its timer; the browser's recognizers and utterances | toggle, open, close, click, listen, speak; what the browser reports | one microphone and one loudspeaker, two components that only send each other `aq:pause` and `aq:resume`; safety timers; the end of what was cut off comes later | what is shown is under way, and the assistant wakes again |
| server: concurrency gates (`uploadConcurrency.js`, `quantumProcess.js`) | counters, a queue of callers | acquire, release | a slot handed over while others are released or fail | the counter is the number of holders, and who waits is served |
| server: report generation (`routes/analysis.js`, `analysisOrchestrator.js`) | inserts finished reports | generate, chat | provider fallback | appears where its results meet other writers |
| server: bridge to BCI (`bciClient.js`, `gatewayProvisioning.js`) | token cache; shadow account and its role | call, session, provision | the role is deleted and inserted again, without a transaction, while calls are served | the account has the role granted last, and a call one role |
| BCI: findings (`analysisPipeline.js`, `correlation.js`, `verify.js`) | observations, findings, scores, remediation | observe, correlate, verify, decide | two jobs on one finding, a pipeline run again | nothing is called more certain than it is |
| AI providers and decision intelligence | none that persists | fallback, scoring | arithmetic on reals | out of reach, except the order of the fallback |
| BCI: policy, compute gateway | scopes | decide, select | pure algorithms | single statements |
| memory, files, e-mail, benchmarks, BCI's user interface, Android shell | single statements, rendering | | nothing interleaves | not worth a model |

How they meet: a device's queue becomes requests of `POST /api/sync/push`; the
server's `analyses` table is also written by report generation, by the web
history page and by the hardware worker; `GET /api/sync/pull` brings all of
that back to the devices. The desktop's session decides whose reports are
synchronised, its mode whether they are. BCI shares no table with the rest; the
server calls it over HTTP for a user, and the cyber pages show what it answers. `PROJECT.json`
lists the components with their status, and the hazards line by line.

## 2. Modules

| module | models | states and actions against the code |
|---|---|---|
| `SyncOps` | the three branches of `applyOperation` | functions of the locked row and the request: `Writes`, `Written`, `Status`, `Answer`, `Recorded`, `Replay`. Title and content are one datum, the id of the operation whose payload they are |
| `SyncLedger` | what a push promises, without connections and locks | `Perform` takes effect and answers in one step. `AnswerAbsent` is the one concession: an update or delete may be answered from before the record's creation |
| `SyncServer` | the server as it runs | one action per statement: `Begin` (BEGIN and the ledger lookup), `SelectForUpdate`, `Apply`, `Log`, `Commit`, `DuplicateKey` and `Fail` (ROLLBACK), `ReplayAnswer`; `GenerateReport`, `CheckDelete`/`DeleteFromWeb`, `ReadContent`/`AppendSection` for the other writers; `Pull` |
| `DesktopSync` | the devices of one user against `SyncLedger`'s server | one action per stretch of code between two `await`s; the results of one response are taken one at a time, for they concern different records |
| `MobileSync` | one report on the phone: row, queued edits, conflicts, cursor, and the server's row | one action per stretch between two awaits: `ReadDue`, `MarkAndSend`, `Answered`, `Done`, `Applied`, `ClashRecorded`, `QueueCancelled`, `TriesRead`, `TriesWritten` of a push; `AskSince` to `CursorSaved` of a pull; `EditBegins`/`EditLands` around the encryption of a text; `ConnectivityChecked` |
| `ScanJobs` | BCI's scan queue | one action per SQL statement or transaction; `FailJob`/`WriteFailure` and `SweepTimedOutJobs`/`WriteSweep` are the two halves of a read and a later write |
| `HardwareJobs` | the hardware verification queue | `PollTable` is one statement of a poll tick (`Reclaim`, `Claim`), `Process` one statement of `processJob`, `completeJob` or `failJob`; `GrowsStale` is time passing; `sections` counts what was appended |
| `DeviceSession` | one installation's session and its row on the server | one action per stretch between `await`s of `establishOnlineSession` (`LogIn`, `Settle...`, `Register...`, `Establish`), `verifyOfflineLogin` (`VerifyOffline`, `VerifyAccepts`: the sessions that verifications have loaded are a set), `forgetDevice` with its DELETE in flight, `RestartApp`. The passkey form stays usable while a password is verified, so a login may begin and end in between |
| `AppMode` | mode, monitor and timers | `SetMode`, `ReconcileStarts/Checked/Synced` around the awaits, `Poll` and sync runs; an interval is counted and a handle says whether it can be stopped |
| `LocalModel` | model files, panel, runtime | a download is at one of its awaits; a write goes through the open file (desktop, following renames) or by name (Android). A file is a length and whether each block is where it belongs |
| `AppUpdate` | releases, update, banner | `CheckFeed`, `Approve`, `Downloaded`, `InstallUpdate` of `main.js` and `CheckLatest`, `ApproveApk`, `ApkArrives` of the phone |
| `RangeProxy` | `sendMultipartRanges` | the prefetch window, the write loop under backpressure, a client that leaves |
| `LoginFlow` | approval by mail | one statement of `/check/:token` per step (`ReadTicket`, `ReadOwner`, `Consume`), the links, the page's polls and stages |
| `PasskeyLogin` | ceremonies, challenges, lockout | `RequestOptions`, `Sign`, `TakeChallenge`, the judgement, the failure counter with its separate expiry; `Resubmit` sends a signed response again, from any client and at any time |
| `Accounts` | accounts, block cache, owners | one statement per action; a rename is a transaction that moves table by table and may roll back |
| `Presence` | who is online | each handler at each of its awaits; `SetOnline` and `RegisterReturns` for the token of any account, on a connection that may have registered another |
| `Meeting` | panels with their sockets and the `video:*` handlers | messages in order per socket; a panel's handlers keep the variables of the render that attached them; `CloseTab` and `Reconnect` are a connection that is lost for good, or replaced by one with another id under the same panel |
| `Generation`, `ConsultChat` | the analysis page; the consultation stream | calls under way and what their handlers do when they answer; providers in turn, the reader, the bubble |
| `CyberWizard`, `CyberConsole` | the cyber pages | effects flushed with the event that changes their dependencies; answers of dead effects still come |
| `CyberPages` | the two beside each other | they share no state; `PagesFit` is about both |
| `VoiceTurns` | the two voices and the browser's recognizers and utterances | one action per handler (`Toggle`, `ClickMic`, `CloseChat`, `HearCommand`, `HearQuestion`, `VoiceEnds`) or timer (`StartMic`, `StartEar`, `PauseEnds`, `VoiceTooLong`); `abort()` and `cancel()` mark what is cut off, and its event comes later |
| `ResourceGates` | the Python pool and the upload gate | acquire, spawn, time-out, hand-over of a slot; `finish` and `close` of a response |
| `BciGateway` | one user's calls to BCI | `CallBci`, the session route statement by statement (`SessionBreaks` after any of them), `ExecuteRequest` with the role checked then |
| `Findings` | observations, findings, scores | `RunPipeline` statement by statement for each scan's run, `VerifyFix`, a person's `HandleFinding` |
| `SyncServerProofs`, `DesktopProofs`, `RetryProofs`, `ClientProofs`, `ShellProofs`, `MeetingProofs`, `ServerProofs`, `BciProofs` | | the TLAPS proofs |
| `MCSyncServer`, `MCDesktopSync` | | symmetry sets for TLC |
| `MCClients`, `MCServerProcess`, `MCQueues`, `MCRetries` | | unions of components that share no state, for TLC |

The last four need a word. Most of the newer components share no variable, and
a product of their behaviours would only multiply states. `MCClients` therefore
takes twelve of them as a *disjoint union*: the constant-through-time variable
`side` names the one a behaviour is about, the others keep their initial state.
TLC explores each component in full and adds the state counts up. An invariant
of one component is checked over all sides and is about its own. That the union loses
nothing is proved too: a step of it is a step of one component that leaves the others
alone (`EachSide`, `EachPart`), so what is proved of a component holds in it. Where
components do interact they are one module: the page and the server in
`LoginFlow` and `Meeting`, session and server in `DeviceSession`, both sides of
HTTP in `BciGateway`.

`SyncServer` is shown to implement `SyncLedger` (`KeepsPromise`, checked and
proved), and `DesktopSync` uses the server only as `SyncLedger` allows
(`UsesLedger`, checked and proved). So the devices' properties, checked against a server
of atomic operations, hold for one of transactions, with one difference: in
`DesktopSync` a request is performed at one moment while `SyncLedger` also
allows `AnswerAbsent`.

Definitions commented "Fault:" and named `Mut...` are plausible bugs. Nothing
uses them; each is put in the place of the definition after it to see that the
property named in `PROJECT.json` notices.

What the models leave out of the parts they cover: encryption at rest (title
and content pass through it unchanged), device authorisation of a push,
validation of a request's form, `audit` rows, notifications, the stores' fallback
from Redis to memory, the fail-open answer of the block check when the database
is down,
and in BCI the check before a scan is queued, heartbeats, and what an
engine does. Two
verifications that loaded the same session are one member of `verify`. In `Meeting` a tab that
survives a lost connection has its next one at once (its messages in between are lost either way).
On the phone a null version (the desktop's `DesktopWedge`, section 4) would leave the other reports of a pass
in flight; with one report it leaves nothing behind. A probe of the wizard that fails
(`CyberNewAnalysisWizard.jsx:252`) leaves a state that an answer without engines reaches too and
has no action; `StartRename` takes the first statements of a rename in one step, as nobody reads
between them what they write. In `VoiceTurns` a component's refs and its state are one (React's delay
between them is left out), the voices are loaded, a session has one consultation window, and
dictation into a text field (`useVoice.js`) is absent.

## 3. Runs

Bounds are CONSTANTs, and each is the smallest at which the case it is for
happens.

`MaxBase` and `MaxRevision` bound the versions a request may name and the values the
sequence hands out; `MaxAttempts` is the code's `MAX_ATTEMPTS` or `max_attempts`
(2 here: a retry, and a last one that fails), `MaxPasses` is `MAX_PUSH_PASSES`
(20 in the code; 2 or 3 here, as no instance queues more operations per record),
`PullLimit` the page size (1 or 2, so that pages are cut), `MaxLosses`,
`MaxCrashes` and `MaxWeb` the failures, crashes and actions at the web client.
Two connections, devices, runs or workers are what the code's races need: each
is between one actor that has read and another that writes. The same holds of
the unions: two logins, reconciliations, downloads, calls, exchanges, panels (one
more id for a connection made when another was lost), three things that users do in a meeting,
sockets that replace each other, two accounts that register on either,
ceremonies and checks under way together; one ticket, since tickets do not meet,
but two challenges, since one replaces the other; three codes, so that a freed
one is taken again, and one request at a time for renames in `ServerProcess`,
two in `RenameFiles`; two engines, the number whose agreement confirms a finding;
three calls for one worker slot, so that a queue forms; five ranges for a window of
two. The phone has one report, since statements about two touch different rows, two edits
of it, two sync runs of at most two passes, an edit given up at its second try, and
one mishap (a failed request, a kill or a change elsewhere) at any point.
Two recognizers are one that is cut off while the next starts; one utterance and one
consultation suffice, as each replaces the last.

For the invariants, the action properties and the refinements the bounds do not matter: all of
them are also proved (section 5).

`ClientsTypeOK` and `ServerTypeOK` also carry two counters a component must keep
in its limits, `FailuresBounded` (the lockout may be passed by one less than the
requests that run together) and `RangesBounded` (the prefetch window). `PagesFit`
(`CyberPages`) is `PlanFits` of the wizard and `NoStalePrefill` of the console, and
`Reconciled` is `DeletesLand` and `Converged` of `DesktopSync`. `NoReconnectLoop`
(`AppMode`) and `NothingUncorrelated` (`Findings`) are stated in their modules and
hold under the same constants; no run lists them.

Several of the properties carry a condition: no overlapping downloads
(`ModelIntact`) or session requests (`RoleInStep`), no login, verification or earlier DELETE under way
when the device is forgotten (`DebtKept`), no row that outlives its claim (`NoDoubleWork`), no registration
waiting when the connection closes (`NoGhosts`). Where a condition excepts a case in which the code breaks the promise,
the form without it is among the disagreements below. Three more say what the code gives instead of
the promise one would expect: `EditsKept` compares versions, as a row may be called synced with a text the server has not
had (`SyncedIsServers`); `RoleInStep` says which role is left when a request breaks off, none after a
failed INSERT (`RoleHeld`); and `QueueDrains` lets an operation stay in flight on a device
that was answered a null version (`QueueNeverWedged`).

`DesktopDrain` runs `DrainSpec` (`MCDesktopSync`): `FairSpec` where operations and records are
numbers, taken in the order in which they are first queued. An identifier is random in the code, so which
one an operation gets makes no difference; this does for a liveness run what `SYMMETRY` does for the others.

Runs set `CHECK_DEADLOCK FALSE` because the instances end: once the operations
or jobs are used up and settled, nothing has to happen. That nothing is *stuck*
is what the liveness properties say. Symmetry is used in runs of invariants and
action properties only, over sets whose members the specification does not tell
apart; runs with liveness use none. In a union the members of every part change places together: a behaviour
moves only those of its own part, and one exchange costs TLC less than one for each.

| run | question | distinct states |
|---|---|---|
| `SyncServer` | two connections, repeated pushes of two operations on one record, with web deletes, appends and rollbacks: is an edit lost (`NoLostUpdate`), an operation applied twice or answered wrongly (`AnswerMatchesEffect`, `AnswersAgree`), a delete undone (`DeletesHold`); is it `SyncLedger` (`KeepsPromise`) | 168 thousand |
| `SyncServerLive` | two records: do locks of rows, client ids and operation ids form a cycle (`PushesEnd`); may a page be cut safely (`UniqueRevisions`, `PullSkipsNothing`) | 173 thousand |
| `DesktopCalm` | two devices without failures, one run at a time: are operations sent in the order of the edits (`InOrder`), do deletes land and devices converge (`Reconciled`) | 357 thousand |
| `DesktopRough` | one device, two overlapping runs, a loss and a crash: does anything leave the queue without a reason (`NothingDropped`), and is the server used as `SyncLedger` says (`UsesLedger`) | 694 thousand |
| `DesktopDrain` | one device, two records, three operations, two losses: is every operation settled, unless a null version stopped the run that had it in flight (`QueueDrains`) | 443 thousand |
| `Retries` | two queues, one side each. `scans`: two jobs, two loops, a sweep, a crash: `AttemptsExclusive`, `AttemptsLimited`. `mobile`: two edits, two runs, the dialog, a mishap: is an edit lost, or a row synced at a version ahead of the server's (`EditsKept`) | 1.9 million |
| `Queues` | one scan job, one hardware job with two instances, the login page, the pool, the voices: does every job end (`JobsEnd`), and is everyone who waits served (`NobodyWaitsForEver`: hardware jobs settle, the page is released, the pool serves, and the assistant listens again, `StaysAwake`) | 98 thousand |
| `Clients` | twelve components, one side each: `DebtKept`, `AutoServed`, `ModelIntact`, `UpdateSafe`, `SpinnerHonest`, `OneVoice`, `MeshComplete`, `PagesFit`, `OneLoginPerApproval`, `ChallengeOnce`, `VoiceHonest` | 859 thousand |
| `ServerProcess` | seven components, one side each: `NeverOverstated`, `RoleInStep`, `HistoryFollows`, `PoolExact`, `NoDoubleWork`, `NoGhosts` | 1.4 million |

`DesktopCalm` is calm for a reason: with failures or with a second run its
properties fail, which is the subject of the next section. What they show in
calm is that the protocol itself, two devices editing, deleting, conflicting
and re-queueing, is right.

`AttemptsLimited` is what the code gives instead of "a job gets `max_attempts`
tries": `max_attempts` plus one for every sweep and every worker that may have
read the job before its last attempt and write after it.

### Fairness

- Server: strong fairness of the next statement of each transaction. PostgreSQL
  queues the transactions that wait for a row, so one that could go on again
  and again does. Rollbacks, pushes and the other writers have none.
- Desktop: weak fairness of a run's steps, of starting one (a timer of five
  minutes in `main.js`, and every local write) and of the end of a backoff. None
  of the user, of losses, crashes or late deliveries.
- Hardware queue: weak fairness of each instance's poll interval and of its next
  statement, and of time passing; none of crashes. Login page: weak fairness of the
  interval, the server's statements, a ticket's expiry and the page's exit once approved;
  strong fairness of an answer arriving, since answers may be lost again and again.
  Pool: weak fairness of spawn, of the end of a process (its timer sees to it) and of
  release.
- Assistant: weak fairness of its timer and of a start of its recognizer that does not throw, and of
  the browser: a recognizer ends (browsers stop one that hears nothing), an utterance ends or its safety timer
  fires. None of the user, of what is heard, or of errors.
- BCI: weak fairness of each loop's claim and of its bookkeeping, of the end of
  a pipeline (its engines run under timeouts), of the sweep interval and of time
  passing. None of the API or of crashes.

## 4. Where code and documentation disagree

Each has a run that TLC finds violated.

- `SyncPullGap` (`CursorComplete`): revisions are taken from a sequence before commit, so
  a pull can move its cursor past one that has not committed yet; the device
  never fetches that change. `PullSkipsNothing` is what does hold.
- `DesktopWedge` (`InFlightOwned`, two records, one loss, no crash): a delete overtakes its create, which waits for its
  backoff; the server has no such row and answers "applied" with a null version; writing it fails
  on a NOT NULL column, the run ends in the middle of its results, and what else it had
  in flight stays so for ever. `QueueDrains` says that nothing else keeps an operation from being settled.
- `RenameFiles` (`AllHistoryFollows`): a rename of a user code moves a fixed list of
  tables that lacks `uploaded_files`; the files stay under the old code.
  `HistoryFollows` is what does hold.

### Further disagreements

Each of these is stated in its module and fails. To see the counterexample, copy
the configuration named, replace its properties by the one in the table and
change the constants as said (for a component of a union, set `Sides` to it alone,
and drop `SYMMETRY` for an action property). In the table, *one run* is `Runs = {s1}`, *no crash*
`MaxCrashes = 0` and *no loss* `MaxLosses = 0`.

Report synchronisation and scan queue:

| configuration | property | what happens |
|---|---|---|
| `SyncServer` | `EditsSurvive` | the hardware worker writes back a content it read earlier; an accepted edit in between is gone (`quantumJobQueue.js:141`), though `desktop/README.md:72-73` says stale writes are rejected |
| `SyncServer` | `ReplayIsFaithful` | the replay of a conflict with a deleted record lacks the deleted flag, which the ledger does not store (`sync.js:97`); `sync.js:71-72` promises the recorded result |
| `SyncServer` | `StaleEditsRejected` | the web delete leaves the version alone, so an edit made without knowing of it is applied to the tombstone (`history.js:321`); `history.js:301-302` calls it symmetric with the native delete |
| `DesktopRough` | `InFlightOwned` | operations in flight when the application is closed stay so for ever: nothing resets them (`engine.js:25`), though `desktop/README.md:92-93` says that the sync resumes from the same queue |
| `DesktopRough`, no loss, no crash | `InOrder` | a second run, or a backoff of the earlier one, lets a later operation of a record overtake (`queue.js:18`); `queue.js:12-14` says it must wait |
| `DesktopRough`, one run, no crash | `DeletesLand` | a delete that overtakes its create is answered "applied", then the create lands (`sync.js:173`) |
| `DesktopRough`, one run, no crash | `Converged` | a pulled row skipped for a queued operation is not seen again if that operation is answered by a replay (`engine.js:97`) |
| `DesktopRough`, `Devices = {d1, d2}`, one run, no crash | `ConflictsResolvable` | a conflict learnt from a replay has neither side of the server: `kept_server` throws (`conflict.js:91`) |
| `DesktopCalm`, `Resolutions = {"kept_server"}` | `Converged` | `kept_server` restores what the conflict recorded over what has been pulled since (`conflict.js:92`) |
| `DesktopCalm` | `KeptLocalLands` | keeping the local side of a conflict queues an update whatever the operation was, so a kept delete does not delete (`conflict.js:108`) |
| `DesktopRough`, one run, no loss, no crash | `OwnEditsNeverConflict` | an answer sets the local version back below queued edits; the next edit conflicts with the device's own (`entityHandlers.js:18`) |
| `DesktopDrain` | `QueueNeverWedged` | the operation of another record in the pass that took a null version stays in flight for ever (`engine.js:69`; the case of `DesktopWedge`) |
| `DesktopCalm` | `LastEditInConflict` | a conflict keeps the payload that conflicted and cancels later edits, which are on neither side (`conflict.js:49`) |
| `Retries`, `scans` | `AttemptsBounded`, `FailedIsFinal` | a late decision requeues a job whose attempts are used up, or overwrites FAILED (`jobQueue.js:215`, `:231`) |
| `Retries`, `scans` | `CancelIsFinal` | `completeJob` and `failJob` overwrite CANCELLED (`jobQueue.js:190`) |
| `Retries`, `scans` | `NoCoverageIsFinal` | a job in NO_COVERAGE can be cancelled, and the sweep requeues it (`jobQueue.js:131`, `:227`), although `:195` calls it terminal |
| `Retries`, `scans` | `SnapshotsAreReal` | a job cancelled just after `completeJob` gets a snapshot (`worker.js:58`) |

The phone (`Retries`, side `mobile`), whose runs read, send and write one queue between them:

| property | what happens |
|---|---|
| `DoneStays` | the second of two runs that read one operation marks it in flight again after the first has marked it done (`queue.js:36-38`), and its next answer, or the loss of it, decides it again |
| `DeletedStays` | while one run has the create on its way the other sends the delete; answered first, it is applied to nothing, and the create lands after it (`queue.js:19-34`, which says a create must land before a later delete) |
| `OneClashPerEdit` | two runs that sent the same edit both record its conflict; the dialog shows it twice (`conflict.js:11-26`) |
| `NotOverwritten` | an edit made after the statement of a pulled page was built is overwritten by it (`engine.js:94-99`, `:120-124`) |
| `SyncedIsServers` | an edit is written into the row while its create is on its way; the answer to the create calls the row synced, with a text the server has not had (`entityHandlers.js:18`) |
| `MobileConverged` | a row skipped by one run's pull is not fetched again, when a kill comes between `markDone` and `applyApplied` of the other (`engine.js:66-68`) |
| `OnlyReconnects` | `performSync` sets "sync", its closing check sets "cloud", and the listener of that change calls `performSync`: runs follow each other without end while the phone is online (`mobileBridge.js:156`, `:176`, `:474`; the comment at `:472` means a reconnect from "local", which is what `desktop/connectivity.js:54-62` tests) |

Sides of `Clients`:

| side | property | what happens |
|---|---|---|
| `session` | `ForgetHolds` | a login or an offline verification under way when the device is forgotten stores its session after it (`session.js:185`, `:256-257`) |
| `session` | `EveryDebtKept` | the answer of an earlier DELETE clears the tombstone of a later forget (`session.js:60-61`). `DebtKept` also excepts a login or verification under way: one that loaded its session before saves it over the tombstone (`session.js:171-187`), and the page lets a passkey sign in while a password is verified (`LoginPage.jsx:409`) |
| `session` | `RegisteredStays` | a DELETE sent before a new login arrives after its registration (`session.js:284`) |
| `session` | `ActsForUser` | the renderer does not wait for the session: main still acts for the previous user (`main.js:332`) |
| `mode` | `OfflineQuiet` | a reconciliation that awaits starts the services after the switch to offline (`appMode.js:88`, `:99-101`) |
| `mode` | `OneTimerEach` | a second `start()` or `startTimers()` loses the first handle (`connectivity.js:45`, `main.js:872-878`) |
| `model` | `OneDownload`, `InstalledWhole` | nothing keeps a second download out after the panel is mounted again; both append to one file (`modelManager.js:27`) |
| `model` | `CancelSettles` | a cancel while the response is being opened is lost and the call hangs |
| `model`, `MaxLoads = 2` | `OneRuntime` | two queries that both await the load build two runtimes (`llmProvider.js`) |
| `update` | `InstallsShown`, `HandsOver` | a release found while another downloads changes what the banner names; the end of an approval reaches a banner that was reset |
| `login` (in `Queues`, which has the fairness) | `ApprovalArrives` | the answer that carries the token is lost; the ticket is consumed (`auth.js:333`) |
| `login` | `CancelHolds` | a check sent before the user cancelled logs the page in (`LoginPage.jsx:486`) |
| `passkey` | `LockEnds` | a failure between INCR and EXPIRE leaves a counter that never goes (`loginThrottle.ts:47-48`) |
| `generation` | `ArrivesFresh` | a change of category does not stop a generation (`AnalysisView.jsx:86-87`) |
| `generation`, `Categories = {k1, k2}` | `DiveFresh` | a deep dive is not tied to its generation (`AnalysisView.jsx:331-342`) |
| `generation` | `StoredOnce`, `ResetHolds` | the local fallback after a lost answer saves a second report; a late answer fills a page that was reset |
| `chat` | `CompleteIsComplete`, `UserWordsKept` | a stream that breaks off without an error, or that is stopped, leaves a bubble that reads as complete (`ConsultChat.jsx:166-169`); a late chunk writes into the last bubble, whoever's it is (`:160`) |
| `meeting` | `ListedInRoom`, `LostAreDropped` | when `disconnect` is handled Socket.IO has emptied `socket.rooms`, so the loop that should take a lost participant off the list and tell the others does nothing (`socket.js:338-350`) |
| `meeting` | `OneCaller`, `CameraReleased`, `MediaFlows`, `InIsIn` | handlers keep the camera of the render that attached them, so who joined first may offer (`EmergencyChatPanel.jsx:108-111`), send nothing, or keep the camera on |
| `meeting` | `ListedIsIn` | a camera prompt that is granted after its panel was closed joins a meeting that nobody shows; the others see a participant who is not there |
| `wizard` | `JobFits`, `OptimisedOnce` | going back to another asset keeps the engines chosen for the last (`CyberNewAnalysisWizard.jsx:178-179`); polls overlap (`:316-332`) and each that sees the end optimises (`:357-359`). One failed poll clears the interval for good (`:328-330`) |
| `console` | `NextUnlocks`, `NoYank`, `EditsOwn`, `WizardHoldsKeys` | what unlocked a step outlives it (`CyberAnalysisContent.jsx:657-659`), a scan that ends moves a user who is elsewhere (`:662-665`), a detail answer fills the form of another asset (`:270-302`), keys reach the console under the wizard (`:1386-1401`) |
| `voice` | `HungUp` | a click less than 200 ms before hanging up, or the end of a cancelled utterance and an answer after it, opens the microphone of a closed window (`VoiceChat.jsx:181`, `:211-215`) |
| `voice` | `OneListener` | the error or end of the recognizer that `aq:pause` aborted schedules the assistant in under a second instead of thirty (`GlobalVoiceAssistant.jsx:167-179`, `:191-197`) |
| `voice` | `NoEcho` | the safety timer of twenty seconds takes a long answer for spoken and listens to the rest (`VoiceChat.jsx:40`); a language command restarts the microphone under its own reply |
| `voice` | `PauseHolds` | pausing cancels the utterance, whose end leaves PAUSED and listens again (`VoiceChat.jsx:243-247`) |
| `voice` | `HearsOut` | after a language command the timer aborts the recognizer that listens to start another, whose error sets the timer again (`GlobalVoiceAssistant.jsx:167-179`) |

Sides of `ServerProcess`:

| side | property | what happens |
|---|---|---|
| `hardware`, `MaxSections = 2` | `OneSection` | an instance that dies between the append and the completion appends again; so does one whose row was reclaimed (`quantumJobQueue.js:143`) |
| `gates` | `ProcessesBounded` | a killed process still runs when its slot is given away (`quantumProcess.js:57`) |
| `gates` | `UploadsBounded` | `finish` and `close` both release the slot (`uploadConcurrency.js:2`, `:27`) |
| `ranges` | `ServerSurvives` | a prefetched range that fails before it is awaited is an unhandled rejection (`version.js:171-203`) |
| `ranges`, with `WF_rangeVars(RangeNext)` | `ResponseSettles` | a client that leaves while the loop awaits `drain` holds it for ever (`version.js:197`) |
| `findings` | `AgreementConfirms`, `RiskFresh` | of two correlations of a finding the one that read fewer sources writes last (`correlation.js:79-82`, `:99-102`) |
| `findings` | `VerdictStands` | the next scan computes the status of a rejected finding anew |
| `gateway` | `DemotionShows` | a cached token keeps the old role for ten minutes (`bciClient.js:49`; `gatewayProvisioning.js:23-27`) |
| `gateway` | `RoleHeld` | the INSERT fails after the DELETE, and the account has no role until the next session (`gatewayProvisioning.js:43-44`; `:23-27` says whatever is asserted shows on the next request) |
| `gateway` | `ReachableAnswers`, `NeverRoleless` | two calls that miss the cache together both create the account or the role and one throws, or one is served between the delete and the insert (`gatewayProvisioning.js:43`) |
| `presence` | `StaysOnline` | of two tabs the newer closes, and the user is offline with the older open (`socket.js:351`) |
| `presence` | `NoEarlierGhosts` | after a change of account on one connection, its end takes only the later nickname off the list; the earlier stays (`socket.js:351`, `client/src/services/socket.js:12-28`) |
| `presence` | `BlockedAreOut` | only the socket registered last is closed by a block (`auth.js:511`) |
| `accounts`, `AuthReqs = {q1, q2}` | `LastAdminStays` | two administrators delete each other (`auth.js:608-614`) |
| `accounts`, `AuthReqs = {q1, q2}` | `BlockReaches`, `CacheCurrent` | the token of a renamed person names a code nobody has (`middleware/auth.js:28-34`); a lookup stores after the block what it read before (`blockedUserCache.js:48-49`) |

Met while reading and not modelled: the hardware worker passes a user code where
the map of online users is keyed by nickname (`quantumJobQueue.js:154`); a finding in
VERIFIED_FIXED that is observed again stays closed; `bci/README.md:232-235` describes a policy
gate the pipeline no longer has.

## 5. Proofs

Assumed of the constants: `NoOpAssumption` (the author of server reports and
the null payload are no operation ids), `BoundsAssumption`, `LimitsAssumption` and
`QueueAssumption` (limits are numbers; records, jobs, workers and sweeps are finite sets), and of the
other modules one assumption each: that the null values are no members of their
sets, that limits are numbers, and, where members are counted or put in a sequence, that
there are finitely many (panels in `MeetingAssumption`, clients in `PasskeyAssumption`). `SidesAssumption` says that the
sides of a union are names of components. Three theorems have a hypothesis. `DebtIsKept` assumes `Keychain`, that the
operating system's key store is there; without it the code keeps no tombstone
across a restart. `SentInOrder` assumes `Calm`: no losses, no crashes and one run at a time, the
constants of `DesktopCalm`. Without it `InOrder` fails (section 4), for an operation that waits
for its backoff is overtaken. `ReconcilesInCalm` assumes that and `OnlyLocal`, that no conflict is
settled with the server's side, also as in `DesktopCalm`; without either, devices do not converge (section 4). No theorem depends on how many records, operations, connections, devices, jobs,
workers, tickets, codes, downloads, versions, recognizers, panels or calls there are.

**`SyncServerProofs`** proves `TypeOK`, `NoLostUpdate`, `AnswerMatchesEffect`,
`DeletesHold` and `KeepsPromise`. None of the properties is inductive: whether a
commit loses an edit depends on what its transaction read before. `IInv` adds
what each transaction knows. `PushOK`: while it holds the row lock, the row it
read is the committed row, and its write is that row's `RowAfter`; without the
lock it has seen no row and writes nothing. `WriterOK`: another writer adds a
version without undeleting, or marks the row deleted. `Exclusive`: a row lock and an
operation id have one holder. `RowsOK`, `RequestsOK` and `EffectsOK` tie rows, requests
and effects together (a committed effect's version is at most the row's).
There is one lemma per action; `OneTx` is the frame they share, for most steps change
one transaction. Only `Commit` changes tables, and its lemma is split by what it
writes. For the refinement, `Commit` of a push is `Perform` if it held the lock or created the row
and `AnswerAbsent` otherwise; commits of the others are
`Generate`, `DeleteFromWeb` and `RewriteContent`; every other step but `Submit`
is a stutter.

Its second half builds on `IInv` and proves what devices see:
`AnswersAgree`, `UniqueRevisions` and `PullSkipsNothing`. `AnswersOK` says that
everything ever answered is what the ledger records (a commit finds no answer
yet, because `PushOK` says the ledger had no entry). `RevisionsOK` says that what the
sequence has handed out belongs to one row or to one open transaction. A row
left out of a page it is not past would have to share its revision with the
page's last row, so `PullSkipsNothing` follows from uniqueness.

**`DesktopProofs`** proves `TypeOK`, `NothingDropped`, `UsesLedger`, `InOrder` and `Reconciled`. `DInv` holds
whatever is lost, retried, killed or run twice. Beside the types it says that what a run carries is of
its own device (`RunsTyped`), and that an answer "applied" in a run's hands is the ledger's
(`AnswersOK`). As the ledger keeps its entries, the queue its operations and a conflict its record
(`LedgerKept`, `QueueKept`, `ConflictsKept`), an operation marked done has been applied, and
one marked failed has used up its tries or is explained by a conflict. Under the mapping that reads the requests
off the queue (`Requests`), a request that is performed, at its time or late, is `Perform`,
and everything on the device is a stutter or `Submit`; so the devices rely on no more than what
`SyncServer` keeps.

For `SentInOrder` a second invariant, `CalmInv`, adds three parts. `WInv`: revisions and pages are
of rows that exist (a new revision is one past the greatest, which exists because the records are
finite, `Greatest`), the operations of a device have places of their own, a record has one creation. `QInv`: nothing
waits for a backoff, what is in flight is carried by the one run, one operation of each record,
and it is the oldest still live (`Ordered`). `KInv`: an edit that is queued follows its creation in
the queue or finds the row (`Grounded`), so no answer is an error (`Answerable`); this is what keeps the
run from ever putting an operation behind a backoff. `CalmSteps` reduces every step of the
specification to one of eleven shapes, and each part is proved against those.

For `ReconcilesInCalm` a third, `RInv`, accounts for every revision a cursor has passed. `Covered`: a page
in hand holds the current row of every record it will take the cursor past, since a row that changes
meanwhile gets a revision beyond any the cursor can reach (`Reachable`). `Beyond`: an operation that was
applied has put its record past the device's cursor, unless it deleted what was deleted; this needs
that what is sent is not in the ledger (`Unsent`) and that a creation finds no row (`Fresh`). `Hidden`
and `Gone` say the same of deletions on the device and on the server. Then `Agreed` is inductive: a device that
is done with a record either has its last row, or has that change still before it. A conflict
that is settled leaves a live operation (`ConflictsOpen`), which is where `OnlyLocal` is used.

**`RetryProofs`** is about what is sent or run again: BCI's scan queue and the phone. `TypeOK`,
`AttemptsExclusive` and `AttemptsLimited` of the queue:
for the last, `Limited` counts what may still put a job into the queue: its
place in it, the sweeps and the failing workers that have read "retry" and not
written it (`Potential`). Once attempts reach `MaxAttempts` nothing joins that
count, a write moves one unit to the queue (`Trades`) and a claim moves one unit
to the attempts, so the sum stays below `Limit`. `AttemptsHad` (a worker's attempt is one
its job has had) makes a fresh claim different from every attempt under way.
`PhoneKeepsEdits` proves `EditsKept` from `MobileInv`:
what a run carries from one await to the next stays true although the rows it came from move
on, for the server's version only grows, its ledger keeps its entries and a conflict stays on disk
(`Grows`). So an "applied" in hand is in the ledger and no newer than the server's row, and so
are a page, a pending dialog and the phone's synced row (`RunGood`, `ClashesPast`, `MinePast`). Its last conjunct is about versions, not texts.

**`ShellProofs`** proves six properties of the pages and the shell. `VoiceHonest` with
`VoiceInv`: whatever arrives, a status is left in the step that lets its recognizer, request or
utterance go. `AutoServed` with `AutoInv`: an interval whose handle is held runs, and automatic mode
in an open window is polled, with the timer running or a reconciliation under way that will see to
it. `UpdateSafe` needs that the phone is never ready to restart. `OneVoice` with `OneWriter`:
only the provider that is tried has written, as it is followed by another only while it has sent nothing.
`ModelIntact` with `Tidy`: while downloads do not overlap at most one is under way (`Alone`), none
writes into the installed file, and what is verified is whole until it is renamed. `PagesFit` from `WizardInv` (the effect
that is alive asks for what is on the screen, so the answer it accepts fits) and
`ConsoleInv` (a target that is handed over is consumed in the step that enters the scans tab).

The types of the same components are not free either, and each needs a fact of its own. An
interval is stopped only through a handle that names one (`Named`), so their counts do not go
below zero. The feed offers the newest release whose installers are there, and there is one
(`UpdateTypeInv`). A model that generates has been loaded (`QueryTyped`). The wizard's next candidate
exists because a probe has a class left to try, the least of which is found by well-foundedness
(`AskTyped`, `SmallestIn`), and it polls only a scan the server has (`Counted`). The
console saves under the id of an asset because a detail that has loaded anything is of a selected one
(`DetailTyped`).

**`MeetingProofs`** proves `MeshComplete`. Two panels are connected by the one with the smaller id, which calls when
it hears of the other, and neither side knows what is on its way. `MeshInv` follows the call for
each pair that is `Settled` (in the meeting for the server and for the panel, with no join on its way).
`CallerOK`: the caller has a message that names the other before it, or is connected, or has
offered and its offer or the answer is in one of the four channels. `CalleeOK`: unless the callee is connected, the offer has yet
to reach it. Both say that a message which would take a connection down (`Left`) is followed by one
that brings it up again (`Followed`), which is where the order of each socket's messages counts. When every channel is
empty, only "connected" is left. `InOK` and `PeopleOK` keep panels, list and room in step, the latter for connections that are
up; `SockOK` says that without a connection there is no panel and nothing on its way to the server, so a lost
connection leaves the pairs that are still there as they were, and a tab that reconnects is in nobody's list; `CameraOK` is needed for the types.

**`ClientProofs`** proves four properties of the session, the analysis page and who gets in. For `DebtKept`, `SessionInv` says why a
debt may be dropped where the code drops it: a session holds no debt (`StoreOK`), a
login past its registration leaves nothing usable to anybody who is owed (`LoginsOK`), so does a
verification under way (`VerifyOK`), and an answered DELETE has arrived (`AnswersOK`). `SpinnerHonest`
needs only the types beside it. `OneLoginPerApproval`: what a check may consume was
decided two statements earlier, so `LoginInv` says that an approved row was
confirmed, and that a check past its first statement names a confirmed ticket;
that only one consumes it is the row itself, gone in the same step. `ChallengeOnce` with
`PasskeyInv`: a challenge that can still be taken has opened nothing and is kept under one key (`UnopenedOK`), one that a
response was signed for is not handed out again (`SignedOK`), and one that a request is past is kept under none (`PastOK`), as taking it deletes it;
so of any number of requests with one response a single one gets past it.

`FailuresStayBounded` bounds the lockout's counter. A request reads the lock once and may count a failure
much later, so `LockInv` counts the requests past the lock (`PastLock`) together with the failures: one enters while the
count is below the limit, and a failure counted is a request less past the lock. That a registration
counts none is `FailOK`.

**`ServerProofs`** is about the server process. `NoDoubleWork`: `HwInv` adds that rows in processing and
claims have an attempt left (`RowsOK`), that an instance's claims are of different
jobs (`ClaimsOK`: else it could let go of a job and still hold it), and, while
no row has outlived its claim, that a job in hand is in processing and not stale
(`FreshOK`) and in one hand (`Apart`). A claim takes pending rows only, a reclaim stale
ones only; by `FreshOK` neither is in anybody's hand. `PoolExact`: `PoolInv` adds that no call waits twice
(`OneEach`), so that taking the head of the queue leaves exactly the others, and that the holders are a finite set,
whose cardinality a hand-over leaves alone. `HistoryFollows` speaks of committed rows;
`AccountsInv` adds that a person has one account, that a rename under way holds
its codes alone (`RenamesOK`), and that it has taken every orderly row of the tables it has
passed (`TakenOK`). At the commit no table is left, so what it took is everything. `RangesBounded`:
every fetch ahead of the loop is within its window and every range behind it was
written whole (`AheadOK`, `BehindOK`, parts of `RangeInv`). `NoGhosts` with
`PresenceInv`: only a hasty connection has a registration waiting when it is closed, and another that
is closing removes the nickname it has (`ClosingOK`); the administrators' sockets are registered (`AdminsOK`).

**`BciProofs`** is about BCI's findings and roles. `RoleInStep`: without overlap one
session request is under way and each of its statements finds what the one before left, or what one
that broke off left
(`AloneOK`); the powers a call was executed with are one role (`PowersOK`). `NeverOverstated`: what a
pipeline has read and not yet written is at most what the sources warrant now, since sources are only added
(`StagesOK`, `Supported`), and scores grow with the sources; so a late write understates at worst.

**The unions.** `ClientsTypeOK`, `ServerTypeOK` and `RetriesTypeOK` follow from the types of the
components. `ClientsKeepAll`, `ServerKeepsAll` and `RetriesKeepAll` say that the other
properties of those runs hold in the union as well, `DebtKept` if `Keychain`, the rest without a
hypothesis.

Only model-checked: liveness (`PushesEnd`, `QueueDrains`, `JobsEnd`, `NobodyWaitsForEver`), which is beyond the
prover; every invariant, action property and refinement a run checks is proved. Induction over data is out of
its reach too; where a proof needs a greatest or least element it argues from a
counterexample, over the library's well-foundedness of strict inclusion or of "less than" (`Greatest`, `SmallestIn`).

## 6. Not modelled, and the plan

In order:

1. The phone's session (`client/src/mobile/auth/session.js`), `DeviceSession`'s protocol with
   its own storage and lockout, and several reports in one page of `MobileSync`.
2. The fallback of challenges, counters and presence from Redis to memory, over
   several server instances.
3. `bci`'s scopes and policy engine, and the compute gateway's selection, as
   operators against a reference definition.
4. Remaining tabs of the cyber console, the emergency chat's text messages.

Left aside for good: provider calls, prompts, rendering, e-mail, benchmarks,
numerical and quantum code (no state, or arithmetic on reals), generated and
vendored code, the Android shell.
