----------------------------- MODULE ScanJobs -----------------------------
(***************************************************************************)
(* BCI's scan queue: the scan_jobs table (bci/src/services/jobQueue.js),   *)
(* the worker loops that take jobs from it (bci/src/worker.js), the        *)
(* timeout sweeper of each worker process and the cancel route.            *)
(*                                                                         *)
(* One action is one SQL statement, or one transaction.  The updates that  *)
(* end a job name it by id alone, not by status or by who holds it, and    *)
(* failJob and the sweeper write what an earlier statement read.           *)
(***************************************************************************)
EXTENDS Integers, FiniteSets

CONSTANTS Jobs,         \* scan_jobs.id
          Workers,      \* worker loops, of all worker processes
          Sweepers,     \* timeout sweeps that may be under way
          MaxAttempts,  \* scan_jobs.max_attempts
          MaxCrashes    \* bound on worker crashes

ASSUME QueueAssumption ==
    /\ MaxAttempts \in Nat \ {0} /\ MaxCrashes \in Nat
    /\ IsFiniteSet(Jobs) /\ IsFiniteSet(Workers) /\ IsFiniteSet(Sweepers)

VARIABLES job,       \* the table; timeout is timeout_at: unset, ahead or past
          worker,    \* what each loop is at
          sweep,     \* the decisions a sweep has read and not written yet
          snapshots, \* asset_risk_snapshots: the job and its status at the time
          crashes    \* worker crashes so far

vars == <<job, worker, sweep, snapshots, crashes>>

Ended == {"COMPLETED", "FAILED", "CANCELLED", "TIMED_OUT"}
Terminal == Ended \cup {"NO_COVERAGE"}
Statuses == Terminal \cup {"none", "QUEUED", "ANALYZING"}

Job == [status: Statuses, attempts: Nat, created: Nat, timeout: {"unset", "ahead", "past"}]

\* A loop is idle, runs the pipeline on an attempt of a job, has completed
\* one and not recorded its risk snapshot, or has read what failJob decides by.
Idle == [phase |-> "idle"]
Busy == [phase: {"running", "completed", "failing"}, job: Jobs, attempt: Nat, next: Statuses]

Init ==
    /\ job = [j \in Jobs |-> [status |-> "none", attempts |-> 0, created |-> 0, timeout |-> "unset"]]
    /\ worker = [w \in Workers |-> Idle]
    /\ sweep = [s \in Sweepers |-> {}]
    /\ snapshots = {}
    /\ crashes = 0

SetStatus(j, status) == job' = [job EXCEPT ![j].status = status]

\* Fault: a job is requeued whatever it has used up.
MutRetryOr(j, exhausted) == "QUEUED"

\* Fault: a requeued job gets a status scan_jobs_status_check does not know.
MutRetryStatus(j, exhausted) == IF job[j].attempts >= MaxAttempts THEN exhausted ELSE "RETRYING"

\* A job with attempts left goes back to the queue.
RetryOr(j, exhausted) == IF job[j].attempts >= MaxAttempts THEN exhausted ELSE "QUEUED"

(***************************************************************************)
(* The API.                                                                *)
(***************************************************************************)

\* enqueueScan: policy, planner and engine checks have accepted the request.
EnqueueScan(j) ==
    /\ job[j].status = "none"
    /\ job' = [job EXCEPT ![j].status = "QUEUED",
                          ![j].created = Cardinality({k \in Jobs : job[k].status # "none"}) + 1]
    /\ UNCHANGED <<worker, sweep, snapshots, crashes>>

CancelJob(j) ==
    /\ job[j].status \notin Ended \cup {"none"}
    /\ SetStatus(j, "CANCELLED")
    /\ UNCHANGED <<worker, sweep, snapshots, crashes>>

(***************************************************************************)
(* A worker loop.                                                          *)
(***************************************************************************)

\* Fault: the attempt is not counted when the job is claimed.
MutClaimNextJob(w, j) ==
    /\ worker[w] = Idle /\ job[j].status = "QUEUED"
    /\ job' = [job EXCEPT ![j].status = "ANALYZING", ![j].timeout = "ahead"]
    /\ worker' = [worker EXCEPT ![w] = [phase |-> "running", job |-> j,
                                        attempt |-> job[j].attempts + 1, next |-> "none"]]
    /\ UNCHANGED <<sweep, snapshots, crashes>>

\* claimNextJob: the oldest queued job, taken under its row lock.
ClaimNextJob(w, j) ==
    /\ worker[w] = Idle /\ job[j].status = "QUEUED"
    /\ \A k \in Jobs : job[k].status = "QUEUED" => job[j].created <= job[k].created
    /\ job' = [job EXCEPT ![j].status = "ANALYZING", ![j].attempts = @ + 1,
                          ![j].timeout = "ahead"]
    /\ worker' = [worker EXCEPT ![w] = [phase |-> "running", job |-> j,
                                        attempt |-> job[j].attempts + 1, next |-> "none"]]
    /\ UNCHANGED <<sweep, snapshots, crashes>>

\* The pipeline ran an engine: completeJob.
CompleteJob(w) ==
    /\ worker[w].phase = "running"
    /\ SetStatus(worker[w].job, "COMPLETED")
    /\ worker' = [worker EXCEPT ![w].phase = "completed"]
    /\ UNCHANGED <<sweep, snapshots, crashes>>

\* The pipeline ran none: markNoCoverage.
MarkNoCoverage(w) ==
    /\ worker[w].phase = "running"
    /\ SetStatus(worker[w].job, "NO_COVERAGE")
    /\ worker' = [worker EXCEPT ![w] = Idle]
    /\ UNCHANGED <<sweep, snapshots, crashes>>

\* recordAssetRiskSnapshotsForTarget; a failure of it is logged and ignored.
RecordSnapshot(w) ==
    /\ worker[w].phase = "completed"
    /\ \/ snapshots' = snapshots \cup {[job |-> worker[w].job, status |-> job[worker[w].job].status]}
       \/ UNCHANGED snapshots
    /\ worker' = [worker EXCEPT ![w] = Idle]
    /\ UNCHANGED <<job, sweep, crashes>>

\* The pipeline, or the update that ends the job, threw: failJob reads the
\* attempts used up so far ...
FailJob(w) ==
    /\ worker[w].phase = "running"
    /\ worker' = [worker EXCEPT ![w].phase = "failing", ![w].next = RetryOr(worker[w].job, "FAILED")]
    /\ UNCHANGED <<job, sweep, snapshots, crashes>>

\* ... and then updates the job.
WriteFailure(w) ==
    /\ worker[w].phase = "failing"
    /\ SetStatus(worker[w].job, worker[w].next)
    /\ worker' = [worker EXCEPT ![w] = Idle]
    /\ UNCHANGED <<sweep, snapshots, crashes>>

\* The process dies, with any sweep it had under way, and its supervisor
\* starts a new one.
Crash(w) ==
    /\ crashes < MaxCrashes /\ crashes' = crashes + 1
    /\ worker' = [worker EXCEPT ![w] = Idle]
    /\ \E lost \in SUBSET Sweepers :
          sweep' = [s \in Sweepers |-> IF s \in lost THEN {} ELSE sweep[s]]
    /\ UNCHANGED <<job, snapshots>>

(***************************************************************************)
(* The timeout sweep.                                                      *)
(***************************************************************************)
TimeoutPasses(j) ==
    /\ job[j].timeout = "ahead"
    /\ job' = [job EXCEPT ![j].timeout = "past"]
    /\ UNCHANGED <<worker, sweep, snapshots, crashes>>

\* Fault: a job that is being analysed is left alone.
MutOverdue(j) ==
    job[j].status \notin Ended \cup {"none", "QUEUED", "ANALYZING"} /\ job[j].timeout = "past"

\* NO_COVERAGE is not in the query's list of states to leave alone.
Overdue(j) == job[j].status \notin Ended \cup {"none", "QUEUED"} /\ job[j].timeout = "past"

\* sweepTimedOutJobs reads the overdue jobs ...
SweepTimedOutJobs(s) ==
    /\ sweep[s] = {} /\ \E j \in Jobs : Overdue(j)
    /\ sweep' = [sweep EXCEPT ![s] =
          {[job |-> j, next |-> RetryOr(j, "TIMED_OUT")] : j \in {k \in Jobs : Overdue(k)}}]
    /\ UNCHANGED <<job, worker, snapshots, crashes>>

\* ... and updates them one by one.
WriteSweep(s) ==
    \E decision \in sweep[s] :
       /\ SetStatus(decision.job, decision.next)
       /\ sweep' = [sweep EXCEPT ![s] = @ \ {decision}]
       /\ UNCHANGED <<worker, snapshots, crashes>>

Work(w) ==
    \/ \E j \in Jobs : ClaimNextJob(w, j)
    \/ CompleteJob(w) \/ MarkNoCoverage(w) \/ RecordSnapshot(w) \/ FailJob(w) \/ WriteFailure(w)
Sweep(s) == SweepTimedOutJobs(s) \/ WriteSweep(s)

Next ==
    \/ \E j \in Jobs : EnqueueScan(j) \/ CancelJob(j) \/ TimeoutPasses(j)
    \/ \E w \in Workers : Work(w) \/ Crash(w)
    \/ \E s \in Sweepers : Sweep(s)

Spec == Init /\ [][Next]_vars

\* The loops and the sweep interval run and time passes; a pipeline ends,
\* for its engines run under timeouts (scanExecution.js); nobody has to cancel.
FairSpec ==
    /\ Spec
    /\ \A w \in Workers :
         /\ WF_vars(\E j \in Jobs : ClaimNextJob(w, j))
         /\ WF_vars(RecordSnapshot(w)) /\ WF_vars(WriteFailure(w))
         /\ WF_vars(CompleteJob(w) \/ MarkNoCoverage(w) \/ FailJob(w))
    /\ \A s \in Sweepers : WF_vars(Sweep(s))
    /\ \A j \in Jobs : WF_vars(TimeoutPasses(j))

(***************************************************************************)
(* Properties.                                                             *)
(***************************************************************************)
TypeOK ==
    /\ job \in [Jobs -> Job]
    /\ worker \in [Workers -> Busy \cup {Idle}]
    /\ sweep \in [Sweepers -> SUBSET [job: Jobs, next: Statuses]]
    /\ snapshots \subseteq [job: Jobs, status: Statuses]
    /\ crashes \in 0 .. MaxCrashes

\* No attempt of a job is ever run by two workers (jobQueue.js:148-149), even
\* when the job has been taken from a worker that was too slow.
AttemptsExclusive ==
    \A v, w \in Workers :
       v # w /\ worker[v] # Idle /\ worker[w] # Idle /\ worker[v].job = worker[w].job
         => worker[v].attempt # worker[w].attempt

\* A job is started at most max_attempts times, and once more for every
\* sweep and every failing worker whose decision was overtaken.
AttemptsLimited ==
    \A j \in Jobs : job[j].attempts <= MaxAttempts + Cardinality(Sweepers) + Cardinality(Workers)

\* Every job is over at some time, and stays over (jobQueue.js:207-208,
\* 221-223): retries end, and no crash leaves a job in ANALYZING.
JobsEnd == \A j \in Jobs : <>[](job[j].status \in Terminal \cup {"none"})

\* "A job gets max_attempts tries total" (jobQueue.js:207).
AttemptsBounded == \A j \in Jobs : job[j].attempts <= MaxAttempts

\* "... then it's FAILED for good" (jobQueue.js:208).
FailedIsFinal == [][\A j \in Jobs : job[j].status = "FAILED" => job'[j].status = "FAILED"]_vars

\* A cancelled job stays cancelled: its scan, if one is under way, neither
\* completes it nor puts it back into the queue (bci/README.md:52-53).
CancelIsFinal == [][\A j \in Jobs : job[j].status = "CANCELLED" => job'[j].status = "CANCELLED"]_vars

\* NO_COVERAGE is "a distinct terminal status" (jobQueue.js:195).
NoCoverageIsFinal ==
    [][\A j \in Jobs : job[j].status = "NO_COVERAGE" => job'[j].status = "NO_COVERAGE"]_vars

\* A risk snapshot is written for a completed job only, never for a
\* cancelled or failed one (worker.js:55-58).
SnapshotsAreReal == \A r \in snapshots : r.status = "COMPLETED"
=============================================================================
