---------------------------- MODULE HardwareJobs ----------------------------
(***************************************************************************)
(* The hardware verification of generated reports: the table               *)
(* quantum_hardware_jobs, the pollers of the server instances that claim   *)
(* its rows (server/src/services/quantumJobQueue.js), and the in-process   *)
(* path a failed enqueue falls back to (analysisQuantumEngines.js).  Each  *)
(* job has a report of its own.                                            *)
(***************************************************************************)
EXTENDS Naturals, FiniteSets

CONSTANTS
    HwWorkers,        \* server instances
    HwJobs,         \* verification requests
    HwMaxAttempts,    \* MAX_ATTEMPTS
    BatchSize,      \* BATCH_SIZE
    MaxSections     \* bound: sections counted in a report

ASSUME HardwareAssumption == HwMaxAttempts \in Nat \ {0} /\ BatchSize \in Nat \ {0} /\ MaxSections \in Nat \ {0}

VARIABLES
    hw,             \* rows: status, attempts, and whether updated_at is STALE_PROCESSING_MS ago
    work,           \* of each instance: the rows it holds and how far the current one is
    sections,       \* sections appended to the report of each job
    outlived        \* history: a row became stale while an instance still worked on it

hwVars == <<hw, work, sections, outlived>>

HwStatuses == {"none", "pending", "processing", "completed", "failed", "inProcess"}
HwRow(s, a) == [status |-> s, attempts |-> a, stale |-> FALSE]
\* A row as RETURNING * gave it: the job and the attempts it had then.
Claims == [job : HwJobs, attempts : 0..HwMaxAttempts]
HwSteps == {"idle", "next", "verify", "read", "write", "complete", "fail"}
HwResting == [held |-> {}, now |-> {}, at |-> "idle"]

HwTypeOK ==
    /\ hw \in [HwJobs -> [status : HwStatuses, attempts : 0..HwMaxAttempts, stale : BOOLEAN]]
    /\ work \in [HwWorkers -> [held : SUBSET Claims, now : SUBSET Claims, at : HwSteps]]
    /\ \A w \in HwWorkers :
          /\ work[w].now = {} <=> work[w].at \in {"idle", "next"}
          /\ work[w].at = "idle" => work[w].held = {}
    /\ sections \in [HwJobs -> 0..MaxSections]
    /\ outlived \in BOOLEAN

HwInit ==
    /\ hw = [j \in HwJobs |-> HwRow("none", 0)]
    /\ work = [w \in HwWorkers |-> HwResting]
    /\ sections = [j \in HwJobs |-> 0]
    /\ outlived = FALSE

-----------------------------------------------------------------------------
At(w, step) == work[w].at = step
Current(w) == CHOOSE c \in work[w].now : TRUE
Holds(w, j) == \E c \in work[w].held \union work[w].now : c.job = j
Advanced(w) == IF work[w].held = {} THEN HwResting ELSE [work[w] EXCEPT !.now = {}, !.at = "next"]

\* scheduleHardwareVerification: a row, or the in-process run when there is none.
Schedule(j, enqueued) ==
    /\ hw[j].status = "none"
    /\ hw' = [hw EXCEPT ![j] = HwRow(IF enqueued THEN "pending" ELSE "inProcess", 0)]
    /\ UNCHANGED <<work, sections, outlived>>

\* Fault: a stale row is never taken back.
MutReclaimed(j) == hw[j]

\* Fault: a row in processing is taken back whatever its age.
MutOrphaned(j) == hw[j].status = "processing"

\* STALE_PROCESSING_MS have passed since the row was claimed.
Orphaned(j) == hw[j].status = "processing" /\ hw[j].stale

Reclaimed(j) ==
    IF Orphaned(j)
    THEN HwRow(IF hw[j].attempts + 1 >= HwMaxAttempts THEN "failed" ELSE "pending", hw[j].attempts + 1)
    ELSE hw[j]

\* reclaimStaleJobs, which the poller runs before it claims.
Reclaim(w) ==
    /\ At(w, "idle")
    /\ \E j \in HwJobs : Orphaned(j)
    /\ hw' = [j \in HwJobs |-> Reclaimed(j)]
    /\ UNCHANGED <<work, sections, outlived>>

Claimable == {j \in HwJobs : hw[j].status = "pending" /\ hw[j].attempts < HwMaxAttempts}

(***************************************************************************)
(* claimBatch: one statement with FOR UPDATE SKIP LOCKED; the order of     *)
(* created_at is left open.                                                *)
(***************************************************************************)
Claim(w, jobs) ==
    /\ At(w, "idle")
    /\ \A j \in HwJobs : ~Orphaned(j)
    /\ jobs # {}
    /\ Cardinality(jobs) = BatchSize \/ (jobs = Claimable /\ Cardinality(jobs) < BatchSize)
    /\ hw' = [j \in HwJobs |-> IF j \in jobs THEN HwRow("processing", hw[j].attempts) ELSE hw[j]]
    /\ work' = [work EXCEPT ![w] = [held |-> {[job |-> j, attempts |-> hw[j].attempts] : j \in jobs},
                                    now |-> {}, at |-> "next"]]
    /\ UNCHANGED <<sections, outlived>>

\* The loop over the batch takes the next row.
NextOfBatch(w) ==
    /\ At(w, "next")
    /\ \E c \in work[w].held :
          work' = [work EXCEPT ![w] = [held |-> @.held \ {c}, now |-> {c}, at |-> "verify"]]
    /\ UNCHANGED <<hw, sections, outlived>>

Step(w, at) == work' = [work EXCEPT ![w].at = at]

\* IBM's answer: a result, none at all (the job is completed without a section), or an error.
HardwareAnswers(w, at) ==
    /\ At(w, "verify")
    /\ at \in {"read", "complete", "fail"}
    /\ Step(w, at)
    /\ UNCHANGED <<hw, sections, outlived>>

\* The report is read; the update writes what was read and the section.
ReadReport(w) ==
    /\ At(w, "read")
    /\ Step(w, "write")
    /\ UNCHANGED <<hw, sections, outlived>>

WriteReport(w) ==
    /\ At(w, "write")
    /\ Step(w, "complete")
    /\ sections' = [sections EXCEPT ![Current(w).job] = IF @ < MaxSections THEN @ + 1 ELSE @]
    /\ UNCHANGED <<hw, outlived>>

\* A statement of processJob throws.
ProcessThrows(w) ==
    /\ work[w].at \in {"read", "write", "complete"}
    /\ Step(w, "fail")
    /\ UNCHANGED <<hw, sections, outlived>>

CompleteHwJob(w) ==
    /\ At(w, "complete")
    /\ hw' = [hw EXCEPT ![Current(w).job] = HwRow("completed", @.attempts)]
    /\ work' = [work EXCEPT ![w] = Advanced(w)]
    /\ UNCHANGED <<sections, outlived>>

\* failJob writes the attempts of the claim, plus one; its own failure is swallowed.
FailHwJob(w, written) ==
    /\ At(w, "fail")
    /\ hw' = IF written
             THEN LET a == Current(w).attempts + 1
                  IN  [hw EXCEPT ![Current(w).job] = HwRow(IF a >= HwMaxAttempts THEN "failed" ELSE "pending", a)]
             ELSE hw
    /\ work' = [work EXCEPT ![w] = Advanced(w)]
    /\ UNCHANGED <<sections, outlived>>

-----------------------------------------------------------------------------
\* Ten minutes pass.
GrowsStale(j) ==
    /\ hw[j].status = "processing" /\ ~hw[j].stale
    /\ hw' = [hw EXCEPT ![j].stale = TRUE]
    /\ outlived' = (outlived \/ \E w \in HwWorkers : Holds(w, j))
    /\ UNCHANGED <<work, sections>>

\* An instance is restarted.
CrashInstance(w) ==
    /\ ~At(w, "idle")
    /\ work' = [work EXCEPT ![w] = HwResting]
    /\ UNCHANGED <<hw, sections, outlived>>

\* The in-process run appends to the content the report was generated with, or ends without.
InProcessEnds(j, appended) ==
    /\ hw[j].status = "inProcess"
    /\ hw' = [hw EXCEPT ![j].status = "completed"]
    /\ sections' = IF appended THEN [sections EXCEPT ![j] = 1] ELSE sections
    /\ UNCHANGED <<work, outlived>>

PollTable(w) == Reclaim(w) \/ \E jobs \in SUBSET Claimable : Claim(w, jobs)
Process(w) ==
    \/ \E at \in HwSteps : HardwareAnswers(w, at)
    \/ NextOfBatch(w) \/ ReadReport(w) \/ WriteReport(w) \/ ProcessThrows(w) \/ CompleteHwJob(w)
    \/ \E written \in BOOLEAN : FailHwJob(w, written)

HwNext ==
    \/ \E w \in HwWorkers : PollTable(w) \/ Process(w) \/ CrashInstance(w)
    \/ \E j \in HwJobs : GrowsStale(j) \/ \E b \in BOOLEAN : Schedule(j, b) \/ InProcessEnds(j, b)

HwSpec == HwInit /\ [][HwNext]_hwVars

(***************************************************************************)
(* The poll timer of each instance fires, what an instance has begun it    *)
(* goes on with unless it is restarted, and time passes.                   *)
(***************************************************************************)
HwFairness ==
    /\ \A w \in HwWorkers : WF_hwVars(PollTable(w)) /\ WF_hwVars(Process(w))
    /\ \A j \in HwJobs : WF_hwVars(GrowsStale(j))

HwFairSpec == HwSpec /\ HwFairness

-----------------------------------------------------------------------------
(* While no instance works on a row longer than STALE_PROCESSING_MS, no job *)
(* is held by two instances, and a job an instance holds is in processing:  *)
(* "multiple server instances can run the same poller without               *)
(* double-processing a job" (quantumJobQueue.js:13-15).                     *)
NoDoubleWork ==
    ~outlived =>
        /\ \A v, w \in HwWorkers, j \in HwJobs : Holds(v, j) /\ Holds(w, j) => v = w
        /\ \A w \in HwWorkers, j \in HwJobs : Holds(w, j) => hw[j].status = "processing"

(* A persisted job ends, completed or failed, whatever crashes, throws and  *)
(* late writes happen on the way: no job stays in processing forever, and   *)
(* none is retried forever, although failJob may write fewer attempts than  *)
(* the row has (quantumJobQueue.js:34-38).                                  *)
HwJobsSettle ==
    \A j \in HwJobs : hw[j].status \in {"pending", "processing"} ~> hw[j].status \in {"completed", "failed"}

(* One section per job: the reclaimed job of an instance that died between  *)
(* appending and completing appends a second one.                           *)
OneSection == \A j \in HwJobs : sections[j] <= 1
=============================================================================
