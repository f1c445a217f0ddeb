----------------------------- MODULE CyberWizard ----------------------------
(***************************************************************************)
(* The wizard that starts a scan and waits for it, asset, engines, compute *)
(* mode, scan and result (client/src/components/CyberNewAnalysisWizard.jsx).*)
(* An effect runs in the step of the event that changes its dependencies:  *)
(* React flushes it before it handles the next event.  An effect that is   *)
(* run again while its answers are awaited marks them dead (alive = false);*)
(* of the dead ones the last is kept, because its answer still comes.      *)
(***************************************************************************)
EXTENDS Naturals, FiniteSets

CONSTANTS
    Assets,         \* registered assets, each with a target
    Made,           \* what createAsset() registers
    NumClasses,     \* SCAN_CLASSES are 1..NumClasses, in their order
    NoAsset,
    MaxPolls,       \* bound: polls of one scan under way
    MaxRuns         \* bound: remediation optimisations counted

ASSUME WizardAssumption ==
    /\ Made \notin Assets /\ NoAsset \notin Assets \union {Made}
    /\ NumClasses \in Nat \ {0} /\ MaxPolls \in Nat /\ MaxRuns \in Nat

VARIABLES
    wizard,         \* the state of the mounted wizard
    asking,         \* the effect of step 1 that is under way, or NoAsk
    stale,          \* the last effect of step 1 that was run again, or NoAsk
    creation,       \* checkDuplicateAndCreate(): what it awaits
    scan            \* the wizard's scan job: on the server and in the page

wizardVars == <<wizard, asking, stale, creation, scan>>

Classes == 1..NumClasses
Terminal == {"COMPLETED", "NO_COVERAGE", "FAILED"}
Statuses == {"QUEUED", "RUNNING"} \union Terminal
Known == Assets \union {Made}
Plan(asset, class) == [asset |-> asset, class |-> class]
NoPlan == Plan(NoAsset, 0)
NoAsk == [asset |-> NoAsset, class |-> 0, touched |-> FALSE, caps |-> FALSE, at |-> "none", tried |-> {}]

WizardTypeOK ==
    /\ wizard.step \in 0..4 /\ wizard.asset \in Known \union {NoAsset} /\ wizard.class \in Classes
    /\ wizard.by \in {"default", "user", "bci"} /\ wizard.touched \in BOOLEAN
    /\ wizard.caps \in BOOLEAN /\ wizard.probed \in BOOLEAN
    /\ wizard.plan.asset \in Known \union {NoAsset} /\ wizard.plan.class \in 0..NumClasses
    /\ asking.at \in {"none", "scope", "plan", "probe"} /\ stale.at \in {"none", "scope", "plan", "probe"}
    /\ creation \in {"none", "checking", "creating", "naming"}
    /\ scan.real \in Statuses \union {"none"} /\ scan.seen \in Statuses \union {"none"}
    /\ scan.polls \subseteq Statuses /\ Cardinality(scan.polls) <= MaxPolls
    /\ scan.timer \in BOOLEAN /\ scan.starting \in BOOLEAN /\ scan.runs \in 0..MaxRuns
    /\ scan.of.asset \in Known \union {NoAsset}

WizardInit ==
    /\ wizard = [step |-> 0, asset |-> NoAsset, class |-> 1, by |-> "default", touched |-> FALSE,
                 caps |-> FALSE, probed |-> FALSE, plan |-> NoPlan]
    /\ asking = NoAsk /\ stale = NoAsk /\ creation = "none"
    /\ scan = [real |-> "none", seen |-> "none", polls |-> {}, timer |-> FALSE, starting |-> FALSE,
               runs |-> 0, of |-> NoPlan, chosen |-> NoPlan]

-----------------------------------------------------------------------------
(* The effects that follow an event.                                       *)

\* The effect on the target resets what was chosen for the one before.
Retarget(w, asset) ==
    IF asset = w.asset THEN w
    ELSE [w EXCEPT !.asset = asset, !.touched = FALSE, !.caps = FALSE, !.probed = FALSE]

AsksFor(w) ==
    IF w.step = 1 /\ w.asset # NoAsset
    THEN [asset |-> w.asset, class |-> w.class, touched |-> w.touched, caps |-> w.caps, at |-> "scope", tried |-> {}]
    ELSE NoAsk
Depends(w) == <<w.step, w.asset, w.class, w.touched, w.caps>>

\* The effect of step 1 runs again when a dependency changed; the last one is dead from then on.
Shows(w) ==
    IF Depends(w) = Depends(wizard) THEN wizard' = w /\ UNCHANGED <<asking, stale>>
    ELSE /\ wizard' = IF AsksFor(w) = NoAsk THEN w ELSE [w EXCEPT !.plan = NoPlan]
         /\ asking' = AsksFor(w)
         /\ stale' = IF asking = NoAsk THEN stale ELSE asking

\* The effect of step 4 optimises again for every job object it is given.
Optimises(s, w) ==
    IF w.step = 4 /\ s.seen = "COMPLETED" /\ s.runs < MaxRuns THEN [s EXCEPT !.runs = @ + 1] ELSE s

-----------------------------------------------------------------------------
(* Step 0: the asset.                                                      *)

SelectExisting(a) ==
    /\ wizard.step = 0
    /\ Shows(Retarget(wizard, a))
    /\ UNCHANGED <<creation, scan>>

CheckDuplicateAndCreate ==
    /\ wizard.step = 0 /\ wizard.asset = NoAsset /\ creation = "none"
    /\ creation' = "checking"
    /\ UNCHANGED <<wizard, asking, stale, scan>>

\* The check, the creation and the naming of the asset answer one after the other; any may fail.
\* A duplicate ends the call too: its button is SelectExisting.
CreationGoesOn ==
    /\ creation \in {"checking", "creating"}
    /\ creation' \in {"none", IF creation = "checking" THEN "creating" ELSE "naming"}
    /\ UNCHANGED <<wizard, asking, stale, scan>>

AssetCreated ==
    /\ creation = "naming"
    /\ creation' = "none"
    /\ \/ Shows(Retarget(wizard, Made)) /\ scan' = Optimises(scan, wizard)
       \/ UNCHANGED <<wizard, asking, stale, scan>>

-----------------------------------------------------------------------------
(* Steps 1 and 2: engines and mode.                                        *)

PickClass(c) ==
    /\ wizard.step = 1 /\ c # wizard.class
    /\ Shows([wizard EXCEPT !.class = c, !.by = "user", !.touched = TRUE, !.caps = FALSE])
    /\ UNCHANGED <<creation, scan>>

\* toggleCapability(): another choice of capabilities, never an empty one; the effect runs again for it.
ToggleCapability ==
    /\ wizard.step = 1 /\ wizard.plan # NoPlan /\ wizard.caps
    /\ wizard' = [wizard EXCEPT !.plan = NoPlan]
    /\ asking' = AsksFor(wizard)
    /\ stale' = IF asking = NoAsk THEN stale ELSE asking
    /\ UNCHANGED <<creation, scan>>

\* Fault: the answers of an effect that was run again are followed too.
MutAlive(ask) == ask # NoAsk

\* An answer to an effect that is no longer alive changes nothing.
Alive(ask) == ask = asking /\ ask # NoAsk
HasAnswered(ask) == IF ask = asking THEN asking' = NoAsk /\ UNCHANGED stale ELSE stale' = NoAsk /\ UNCHANGED asking
AsksNext(ask, next) ==
    IF ask = asking THEN asking' = next /\ UNCHANGED stale ELSE stale' = next /\ UNCHANGED asking

ScopeAnswers(ask) ==
    /\ ask.at = "scope"
    /\ \/ Alive(ask) /\ AsksNext(ask, [ask EXCEPT !.at = "plan"])
       \/ HasAnswered(ask)                                            \* denied, failed or dead
    /\ UNCHANGED <<wizard, creation, scan>>

\* The plan is shown, or the defaults are chosen first and the effect runs again for them.
ShowsPlan(ask) ==
    \/ /\ ~ask.caps /\ Alive(ask)
       /\ Shows([wizard EXCEPT !.caps = TRUE])
    \/ /\ wizard' = [wizard EXCEPT !.plan = Plan(ask.asset, ask.class)]
       /\ HasAnswered(ask)

PlanAnswers(ask) ==
    /\ ask.at = "plan"
    /\ IF Alive(ask)
       THEN \/ ShowsPlan(ask)
            \/ /\ ~ask.touched /\ ~wizard.probed /\ NumClasses > 1   \* nothing executable in this class
               /\ wizard' = [wizard EXCEPT !.probed = TRUE]
               /\ AsksNext(ask, [ask EXCEPT !.at = "probe", !.tried = {ask.class}])
            \/ HasAnswered(ask) /\ UNCHANGED wizard                   \* the request failed
       ELSE HasAnswered(ask) /\ UNCHANGED wizard
    /\ UNCHANGED <<creation, scan>>

\* Candidate classes are tried in their order, from the lowest.
Candidate(ask) == CHOOSE c \in Classes \ ask.tried : \A d \in Classes \ ask.tried : c <= d

ProbeAnswers(ask) ==
    /\ ask.at = "probe"
    /\ IF ~Alive(ask) THEN HasAnswered(ask) /\ UNCHANGED wizard
       ELSE \/ Shows([wizard EXCEPT !.class = Candidate(ask), !.by = "bci", !.caps = FALSE])
            \/ /\ ask.tried \union {Candidate(ask)} # Classes
               /\ AsksNext(ask, [ask EXCEPT !.tried = @ \union {Candidate(ask)}])
               /\ UNCHANGED wizard
            \/ /\ ask.tried \union {Candidate(ask)} = Classes   \* none has one: the plan as it came
               /\ ShowsPlan(ask)
    /\ UNCHANGED <<creation, scan>>

Proceeds == CASE wizard.step = 0 -> wizard.asset # NoAsset
              [] wizard.step = 1 -> wizard.plan # NoPlan /\ wizard.caps
              [] wizard.step = 2 -> TRUE

NextStep ==
    /\ wizard.step < 3 /\ Proceeds
    /\ Shows([wizard EXCEPT !.step = @ + 1])
    /\ UNCHANGED <<creation, scan>>

PrevStep ==
    /\ wizard.step \in {1, 2}
    /\ Shows([wizard EXCEPT !.step = @ - 1])
    /\ UNCHANGED <<creation, scan>>

-----------------------------------------------------------------------------
(* Steps 3 and 4: the scan and its result.                                 *)

\* The effect on the job's status: an interval while it is not terminal.
Watches(s, status) ==
    IF status = s.seen THEN s ELSE [s EXCEPT !.seen = status, !.timer = status \notin Terminal]
\* Only these two statuses show the result.
ShowsResult == {"COMPLETED", "NO_COVERAGE"}
Advances(s, status) ==
    LET w == IF status \in ShowsResult THEN [wizard EXCEPT !.step = 4] ELSE wizard
    IN  Shows(w) /\ scan' = Optimises(Watches(s, status), w)

StartAnalysis ==
    /\ wizard.step = 3 /\ scan.seen = "none" /\ ~scan.starting
    /\ scan' = [scan EXCEPT !.starting = TRUE, !.of = Plan(wizard.asset, wizard.class), !.chosen = wizard.plan]
    /\ UNCHANGED <<wizard, asking, stale, creation>>

\* The route queues the job, or refuses it (engines it does not recommend) or fails.
ScanCreated ==
    /\ scan.starting
    /\ \/ Advances([scan EXCEPT !.real = "QUEUED", !.starting = FALSE], "QUEUED")
       \/ scan' = [scan EXCEPT !.starting = FALSE] /\ UNCHANGED <<wizard, asking, stale>>
    /\ UNCHANGED <<creation>>

After(status) == CASE status = "QUEUED" -> {"RUNNING", "FAILED"}
                   [] status = "RUNNING" -> Terminal \union {"QUEUED"}
                   [] OTHER -> {}
WorkerMoves ==
    /\ \E status \in After(scan.real) : scan' = [scan EXCEPT !.real = status]
    /\ UNCHANGED <<wizard, asking, stale, creation>>

Tick ==
    /\ scan.timer /\ Cardinality(scan.polls \union {scan.real}) <= MaxPolls
    /\ scan' = [scan EXCEPT !.polls = @ \union {scan.real}]
    /\ UNCHANGED <<wizard, asking, stale, creation>>

PollAnswers(status) ==
    /\ status \in scan.polls
    /\ Advances([scan EXCEPT !.polls = @ \ {status}], status)
    /\ UNCHANGED <<creation>>

\* A poll that fails clears the interval; nothing starts another while the status stays.
PollFails(status) ==
    /\ status \in scan.polls
    /\ scan' = [scan EXCEPT !.polls = @ \ {status}, !.timer = FALSE]
    /\ UNCHANGED <<wizard, asking, stale, creation>>

-----------------------------------------------------------------------------
WizardNext ==
    \/ \E a \in Assets : SelectExisting(a)
    \/ CheckDuplicateAndCreate \/ CreationGoesOn \/ AssetCreated
    \/ ToggleCapability \/ \E c \in Classes : PickClass(c)
    \/ \E ask \in {asking, stale} : ScopeAnswers(ask) \/ PlanAnswers(ask) \/ ProbeAnswers(ask)
    \/ NextStep \/ PrevStep
    \/ StartAnalysis \/ ScanCreated \/ WorkerMoves \/ Tick
    \/ \E status \in Statuses : PollAnswers(status) \/ PollFails(status)

WizardSpec == WizardInit /\ [][WizardNext]_wizardVars

-----------------------------------------------------------------------------
(* Properties                                                              *)

\* While the engines are being chosen, the plan on the screen is BCI's answer for the asset and
\* the class on the screen, however the answers of earlier ones are delayed; and a class picked by
\* the user stays ("once true, BCI never overrides their choice",
\* CyberNewAnalysisWizard.jsx:186-187).  Both rest on the alive flag of the effect.
PlanFits ==
    /\ wizard.step = 1 /\ wizard.plan # NoPlan => wizard.plan = Plan(wizard.asset, wizard.class)
    /\ wizard.touched => wizard.by = "user"

\* "BCI recommends, the user narrows the checked set -- never widens it"
\* (CyberNewAnalysisWizard.jsx:178-179): the engines sent with a scan were planned for its target.
JobFits == scan.of # NoPlan => scan.chosen = scan.of

\* The optimisation is run once for the scan: "the real per-scan remediation optimization run
\* against exactly this job's findings" (CyberNewAnalysisWizard.jsx:357-359).
OptimisedOnce == scan.runs <= 1

=============================================================================
