----------------------------- MODULE Findings -----------------------------
(***************************************************************************)
(* BCI's findings: the analysis pipeline that turns what the engines of a  *)
(* scan report into observations (bci/src/services/analysisPipeline.js),   *)
(* the correlation that folds observations into findings and scores them   *)
(* (correlation.js, verification.js, confidence.js, risk.js), the people   *)
(* and remediations that move a finding along (routes/findings.js,         *)
(* remediation.js) and the targeted re-check of a fix (verify.js).         *)
(*                                                                         *)
(* A worker process runs several pipelines at once, and none of them takes *)
(* a transaction: one action is one SQL statement.                         *)
(***************************************************************************)
EXTENDS Integers, FiniteSets

CONSTANTS Scans,        \* scan_jobs.id
          Runs,         \* attempts at a scan, each running the pipeline once
          Engines,      \* the engines the planner may choose
          Keys,         \* correlation keys: one finding each
          Checks,       \* verify-fix requests
          NoFinding,    \* no row
          Moves,        \* the workflow statuses people may choose here
          MaxDecisions  \* bound on what people do

ASSUME FindingsAssumption ==
    /\ IsFiniteSet(Runs) /\ IsFiniteSet(Engines) /\ IsFiniteSet(Keys)
    /\ Moves \subseteq {"ASSIGNED", "IN_REMEDIATION", "READY_FOR_VERIFICATION", "MITIGATED", "DEFERRED"}
    /\ MaxDecisions \in Nat

VARIABLES kind,       \* the category of what a key stands for; it never changes
          observed,   \* normalized_observations
          sources,    \* finding_sources, by finding
          finding,    \* findings, by correlation key
          pipe,       \* where each run is
          remedy,     \* remediations, at most one for each finding
          check,      \* the re-checks under way
          present,    \* the weaknesses the targets really have
          decisions,  \* how often people have acted
          judged      \* history: the findings whose verification a person set

findVars == <<kind, observed, sources, finding, pipe, remedy, check, present, decisions, judged>>

Observation == [scan: Scans, run: Runs, engine: Engines, key: Keys]

Workflow == {"ASSIGNED", "IN_REMEDIATION", "READY_FOR_VERIFICATION", "MITIGATED", "DEFERRED"}
FindingStatus == Workflow \cup {"NEW", "CONFIRMED", "VERIFIED_FIXED", "FALSE_POSITIVE", "ACCEPTED_RISK"}
Verdicts == {"UNVERIFIED", "LIKELY", "MANUAL_REVIEW_REQUIRED", "CONFIRMED", "REJECTED"}

Row == [status: FindingStatus, verification: Verdicts, confidence: 0..95, risk: 0..95]

NewFinding == [status |-> "NEW", verification |-> "UNVERIFIED", confidence |-> 0, risk |-> 0]

ASSUME NoFindingAssumption == NoFinding \notin Row

\* Found by a live probe, a secret, or neither.
Kinds == {"live", "secret", "static"}
LiveKeys == {k \in Keys : kind[k] = "live"}

FindingsInit ==
    /\ kind \in [Keys -> Kinds]
    /\ observed = {}
    /\ sources = [k \in Keys |-> {}]
    /\ finding = [k \in Keys |-> NoFinding]
    /\ pipe = [r \in Runs |-> [at |-> "idle"]]
    /\ remedy = [k \in Keys |-> "none"]
    /\ check = [v \in Checks |-> [at |-> "none"]]
    /\ present \in SUBSET Keys
    /\ decisions = 0
    /\ judged = {}

Set(k, field, value) == finding' = [finding EXCEPT ![k][field] = value]

(***************************************************************************)
(* Scoring: what the sources of a finding make of it.                      *)
(***************************************************************************)

DistinctEngines(seen) == {o.engine : o \in seen}

\* Fault: reports are counted instead of the engines that made them.
MutComputeVerificationStatus(k, seen) ==
    CASE seen = {} -> "UNVERIFIED"
      [] seen # {} /\ (k \in LiveKeys \/ Cardinality(seen) >= 2) -> "CONFIRMED"
      [] OTHER -> IF kind[k] = "secret" THEN "MANUAL_REVIEW_REQUIRED" ELSE "LIKELY"

\* A live probe has checked what it reports; otherwise two engines have to
\* agree, and a lone secret goes to a person.
ComputeVerificationStatus(k, seen) ==
    CASE seen = {} -> "UNVERIFIED"
      [] seen # {} /\ (k \in LiveKeys \/ Cardinality(DistinctEngines(seen)) >= 2) -> "CONFIRMED"
      [] OTHER -> IF kind[k] = "secret" THEN "MANUAL_REVIEW_REQUIRED" ELSE "LIKELY"

\* A base by the number of engines, more when confirmed.  A CVSS score, which
\* adds five whatever the sources, is left out, and the cap at 50 of a finding
\* for manual review is never reached without it.
ComputeConfidenceScore(seen, verdict) ==
    LET n == Cardinality(DistinctEngines(seen))
        base == CASE n = 0 -> 0 [] n = 1 -> 40 [] n = 2 -> 65 [] OTHER -> 85
    IN  IF verdict = "CONFIRMED" THEN base + 10 ELSE base

Warranted(k) == ComputeConfidenceScore(sources[k], ComputeVerificationStatus(k, sources[k]))

(***************************************************************************)
(* The pipeline.                                                           *)
(***************************************************************************)

\* runAnalysisPipeline: the plan has at least one engine.
StartPipeline(r, s) ==
    /\ pipe[r].at = "idle"
    /\ pipe' = [pipe EXCEPT ![r] = [at |-> "engines", scan |-> s, left |-> Engines]]
    /\ UNCHANGED <<kind, observed, sources, finding, remedy, check, present, decisions, judged>>

\* One engine runs and what it reports is stored and normalised.  It may be
\* skipped, may fail, or may fail after some rows went in; a live probe
\* reports nothing that is not there.
RunEngine(r, e) ==
    /\ pipe[r].at = "engines" /\ e \in pipe[r].left
    /\ \E found \in SUBSET Keys :
          /\ found \cap LiveKeys \subseteq present
          /\ observed' = observed \cup
                {[scan |-> pipe[r].scan, run |-> r, engine |-> e, key |-> k] : k \in found}
    /\ pipe' = [pipe EXCEPT ![r].left = @ \ {e}]
    /\ UNCHANGED <<kind, sources, finding, remedy, check, present, decisions, judged>>

\* The observations of a scan that back no finding yet.
Uncorrelated(s) ==
    {o \in observed : o.scan = s /\ \A k \in Keys : o \notin sources[k]}

\* correlateJobObservations reads them and groups them by key.
StartCorrelation(r) ==
    /\ pipe[r].at = "engines" /\ pipe[r].left = {}
    /\ pipe' = [pipe EXCEPT ![r] = [at |-> "groups", scan |-> pipe[r].scan,
                                    todo |-> Uncorrelated(pipe[r].scan)]]
    /\ UNCHANGED <<kind, observed, sources, finding, remedy, check, present, decisions, judged>>

\* INSERT ... ON CONFLICT DO UPDATE: a finding that exists keeps its status.
MergeFinding(r, k) ==
    /\ pipe[r].at = "groups" /\ \E o \in pipe[r].todo : o.key = k
    /\ finding' = [finding EXCEPT ![k] = IF @ = NoFinding THEN NewFinding ELSE @]
    /\ pipe' = [pipe EXCEPT ![r] = [at |-> "sources", scan |-> pipe[r].scan, key |-> k,
                                    todo |-> pipe[r].todo,
                                    group |-> {o \in pipe[r].todo : o.key = k}]]
    /\ UNCHANGED <<kind, observed, sources, remedy, check, present, decisions, judged>>

\* ON CONFLICT DO NOTHING: another run of the scan may have added it.
AddSource(r, o) ==
    /\ pipe[r].at = "sources" /\ o \in pipe[r].group
    /\ sources' = [sources EXCEPT ![pipe[r].key] = @ \cup {o}]
    /\ pipe' = [pipe EXCEPT ![r].group = @ \ {o}, ![r].todo = @ \ {o}]
    /\ UNCHANGED <<kind, observed, finding, remedy, check, present, decisions, judged>>

\* recomputeFindingScores reads all the sources of the finding ...
ReadSources(r) ==
    /\ pipe[r].at = "sources" /\ pipe[r].group = {}
    /\ pipe' = [pipe EXCEPT ![r] = [at |-> "score", scan |-> pipe[r].scan, key |-> pipe[r].key,
                                    todo |-> pipe[r].todo, seen |-> sources[pipe[r].key]]]
    /\ UNCHANGED <<kind, observed, sources, finding, remedy, check, present, decisions, judged>>

\* ... and then writes the verdict and the confidence they give.
WriteScores(r) ==
    /\ pipe[r].at = "score"
    /\ LET k == pipe[r].key
           verdict == ComputeVerificationStatus(k, pipe[r].seen)
       IN  finding' = [finding EXCEPT ![k].verification = verdict,
                                      ![k].confidence = ComputeConfidenceScore(pipe[r].seen, verdict)]
    /\ pipe' = [pipe EXCEPT ![r] = [at |-> "rescore", scan |-> pipe[r].scan, key |-> pipe[r].key,
                                    todo |-> pipe[r].todo]]
    /\ UNCHANGED <<kind, observed, sources, remedy, check, present, decisions, judged>>

\* recomputeFindingRisk reads the finding ...
ReadFinding(r) ==
    /\ pipe[r].at = "rescore"
    /\ pipe' = [pipe EXCEPT ![r] = [at |-> "risk", scan |-> pipe[r].scan, key |-> pipe[r].key,
                                    todo |-> pipe[r].todo,
                                    confidence |-> finding[pipe[r].key].confidence]]
    /\ UNCHANGED <<kind, observed, sources, finding, remedy, check, present, decisions, judged>>

\* ... and writes its risk.  The vulnerability and the asset, which do not
\* change here, make the risk a growing function of the confidence: it is
\* represented by the confidence it was computed from.
WriteRisk(r) ==
    /\ pipe[r].at = "risk"
    /\ Set(pipe[r].key, "risk", pipe[r].confidence)
    /\ pipe' = [pipe EXCEPT ![r] = [at |-> "groups", scan |-> pipe[r].scan, todo |-> pipe[r].todo]]
    /\ UNCHANGED <<kind, observed, sources, remedy, check, present, decisions, judged>>

FinishPipeline(r) ==
    /\ pipe[r].at = "groups" /\ pipe[r].todo = {}
    /\ pipe' = [pipe EXCEPT ![r] = [at |-> "done"]]
    /\ UNCHANGED <<kind, observed, sources, finding, remedy, check, present, decisions, judged>>

\* A statement throws, or the process dies: the scan may be run again.
AbortPipeline(r) ==
    /\ pipe[r].at \notin {"idle", "done", "aborted"}
    /\ pipe' = [pipe EXCEPT ![r] = [at |-> "aborted"]]
    /\ UNCHANGED <<kind, observed, sources, finding, remedy, check, present, decisions, judged>>

(***************************************************************************)
(* People.                                                                 *)
(***************************************************************************)
Decide(k) ==
    /\ finding[k] # NoFinding
    /\ decisions < MaxDecisions /\ decisions' = decisions + 1

\* PATCH status: any step of the workflow, from any status.
MoveFinding(k, status) ==
    /\ Decide(k) /\ Set(k, "status", status)
    /\ UNCHANGED <<kind, observed, sources, pipe, remedy, check, present, judged>>

ConfirmFinding(k) ==
    /\ Decide(k)
    /\ finding' = [finding EXCEPT ![k].status = "CONFIRMED", ![k].verification = "CONFIRMED"]
    /\ judged' = judged \cup {k}
    /\ UNCHANGED <<kind, observed, sources, pipe, remedy, check, present>>

RejectFinding(k) ==
    /\ Decide(k)
    /\ finding' = [finding EXCEPT ![k].status = "FALSE_POSITIVE", ![k].verification = "REJECTED"]
    /\ judged' = judged \cup {k}
    /\ UNCHANGED <<kind, observed, sources, pipe, remedy, check, present>>

AcceptRisk(k) ==
    /\ Decide(k) /\ Set(k, "status", "ACCEPTED_RISK")
    /\ UNCHANGED <<kind, observed, sources, pipe, remedy, check, present, judged>>

\* createRemediation, with an assignee or without.
CreateRemediation(k, assigned) ==
    /\ remedy[k] = "none" /\ finding[k] # NoFinding
    /\ remedy' = [remedy EXCEPT ![k] = "OPEN"]
    /\ IF assigned /\ finding[k].status = "NEW" THEN Set(k, "status", "ASSIGNED") ELSE UNCHANGED finding
    /\ UNCHANGED <<kind, observed, sources, pipe, check, present, decisions, judged>>

\* updateRemediationStatus: the remediation is written, then the finding it
\* is for, whatever the finding's status.  Nothing reads a remediation in
\* between, so the two statements are one step.
MoveRemediation(k, status) ==
    /\ remedy[k] # "none" /\ Decide(k)
    /\ remedy' = [remedy EXCEPT ![k] = status]
    /\ CASE status = "IN_PROGRESS" -> Set(k, "status", "IN_REMEDIATION")
         [] status = "DONE" -> Set(k, "status", "READY_FOR_VERIFICATION")
         [] OTHER -> UNCHANGED finding
    /\ UNCHANGED <<kind, observed, sources, pipe, check, present, judged>>

\* The weakness is repaired, or comes back.
TargetChanges(k) ==
    /\ decisions < MaxDecisions /\ decisions' = decisions + 1
    /\ present' = IF k \in present THEN present \ {k} ELSE present \cup {k}
    /\ UNCHANGED <<kind, observed, sources, finding, pipe, remedy, check, judged>>

(***************************************************************************)
(* verifyFix: one finding is probed again.                                 *)
(***************************************************************************)
\* It loads the finding with its sources and probes the target; without a live
\* source there is nothing to probe, and a probe that fails tells nothing.
ProbeFix(v, k) ==
    /\ check[v].at = "none" /\ finding[k] # NoFinding
    /\ \E result \in {"FIX_VERIFIED", "VULNERABILITY_REMAINS", "INCONCLUSIVE"} :
          /\ result # "INCONCLUSIVE" => k \in LiveKeys /\ sources[k] # {}
          /\ result = "FIX_VERIFIED" => k \notin present
          /\ result = "VULNERABILITY_REMAINS" => k \in present
          /\ check' = [check EXCEPT ![v] = [at |-> "probed", key |-> k, result |-> result]]
    /\ UNCHANGED <<kind, observed, sources, finding, pipe, remedy, present, decisions, judged>>

\* recordVerificationRun: the finding is named by id alone.
RecordVerification(v) ==
    /\ check[v].at = "probed"
    /\ check' = [check EXCEPT ![v] = [at |-> "recorded"]]
    /\ IF check[v].result = "FIX_VERIFIED"
       THEN Set(check[v].key, "status", "VERIFIED_FIXED")
       ELSE UNCHANGED finding
    /\ UNCHANGED <<kind, observed, sources, pipe, remedy, present, decisions, judged>>

(***************************************************************************)
(* The behaviours.                                                         *)
(***************************************************************************)
RunPipeline(r) ==
    \/ \E s \in Scans : StartPipeline(r, s)
    \/ \E e \in Engines : RunEngine(r, e)
    \/ StartCorrelation(r)
    \/ \E k \in Keys : MergeFinding(r, k)
    \/ pipe[r].at = "sources" /\ \E o \in pipe[r].group : AddSource(r, o)
    \/ ReadSources(r) \/ WriteScores(r) \/ ReadFinding(r) \/ WriteRisk(r)
    \/ FinishPipeline(r) \/ AbortPipeline(r)

HandleFinding(k) ==
    \/ \E status \in Moves : MoveFinding(k, status)
    \/ ConfirmFinding(k) \/ RejectFinding(k) \/ AcceptRisk(k)
    \/ \E assigned \in BOOLEAN : CreateRemediation(k, assigned)
    \/ \E status \in {"OPEN", "IN_PROGRESS", "DONE"} : MoveRemediation(k, status)
    \/ TargetChanges(k)

VerifyFix(v) == (\E k \in Keys : ProbeFix(v, k)) \/ RecordVerification(v)

FindingsNext ==
    \/ \E r \in Runs : RunPipeline(r)
    \/ \E k \in Keys : HandleFinding(k)
    \/ \E v \in Checks : VerifyFix(v)

FindingsSpec == FindingsInit /\ [][FindingsNext]_findVars

(***************************************************************************)
(* Properties.                                                             *)
(***************************************************************************)

\* Every variable has its type.
FindingsTypeOK ==
    /\ kind \in [Keys -> Kinds]
    /\ observed \subseteq Observation
    /\ sources \in [Keys -> SUBSET Observation]
    /\ finding \in [Keys -> Row \cup {NoFinding}]
    /\ \A r \in Runs : pipe[r].at \in {"idle", "engines", "groups", "sources", "score", "rescore",
                                       "risk", "done", "aborted"}
    /\ remedy \in [Keys -> {"none", "OPEN", "IN_PROGRESS", "DONE"}]
    /\ \A v \in Checks : check[v].at \in {"none", "probed", "recorded"}
    /\ present \subseteq Keys /\ judged \subseteq Keys
    /\ decisions \in 0..MaxDecisions

\* However the workers' correlations interleave, break off and are run again,
\* a finding is never called confirmed by fewer engines than it takes, unless a
\* person confirmed it, and its confidence and its risk never stand above what
\* its sources warrant.
NeverOverstated ==
    \A k \in Keys : finding[k] # NoFinding =>
        /\ finding[k].verification = "CONFIRMED" =>
              \/ k \in judged
              \/ k \in LiveKeys /\ sources[k] # {}
              \/ \E o, p \in sources[k] : o.engine # p.engine
        /\ finding[k].confidence <= Warranted(k)
        /\ finding[k].risk <= Warranted(k)

\* When a run of the pipeline ends well, everything it observed backs the one
\* finding of its key, also what an earlier attempt at the scan left behind.
NothingUncorrelated ==
    \A r \in Runs : pipe[r].at = "done" =>
        \A o \in observed : o.run = r =>
            /\ finding[o.key] # NoFinding
            /\ o \in sources[o.key]
            /\ \A k \in Keys \ {o.key} : o \notin sources[k]

Quiet == \A r \in Runs : pipe[r].at \in {"idle", "done"}

\* What correlation.js says of a second engine that agrees: once no pipeline is
\* under way, and none has failed, two engines have confirmed the finding.
\* Two correlations of one key write in the wrong order.
AgreementConfirms ==
    Quiet => \A k \in Keys \ judged :
        Cardinality(DistinctEngines(sources[k])) >= 2 => finding[k].verification = "CONFIRMED"

\* What correlation.js says of the risk: it follows every change of the
\* confidence.
RiskFresh ==
    Quiet => \A k \in Keys : finding[k] # NoFinding => finding[k].risk = finding[k].confidence

\* A person's verdict on a finding stands until a person changes it.  The next
\* scan that reports the finding computes the verification status anew.
VerdictStands ==
    \A k \in Keys : finding[k] # NoFinding /\ finding[k].status = "FALSE_POSITIVE" =>
        finding[k].verification = "REJECTED"
=============================================================================
