----------------------------- MODULE Generation -----------------------------
(***************************************************************************)
(* One analysis from the form to the report: the page of                   *)
(* client/src/components/AnalysisView.jsx, the router that falls back from *)
(* the cloud to the local model (services/analysisRouter.js), and the      *)
(* handlers of server/src/routes/analysis.js.  The counter of              *)
(* generationIdRef is kept as the call it belongs to: every increment      *)
(* makes it belong to the new call, or to none.                            *)
(***************************************************************************)
EXTENDS Naturals

CONSTANTS
    Calls,          \* invocations of generate()
    Dives,          \* invocations of deepDiveScenario()
    Categories,
    None,           \* no call, dive or category
    Native          \* the page runs in a shell with a local model

ASSUME GenerationAssumption ==
    /\ None \notin Calls \union Dives \union Categories
    /\ Native \in BOOLEAN

VARIABLES
    view,           \* the state of the mounted AnalysisView
    calls,          \* what each generate() awaits, and how far its handler is on the server
    dives,          \* what each deepDiveScenario() awaits, for which category
    left,           \* calls that were current in a view when it was unmounted
    rows,           \* calls and dives inserted into analyses by the server
    kept            \* calls saved to the device's history

genVars == <<view, calls, dives, left, rows, kept>>

Mounted(category) ==
    [category |-> category, due |-> FALSE, prompt |-> FALSE, current |-> None, loading |-> FALSE,
     result |-> None, scenario |-> None, diving |-> None, error |-> FALSE]

GenTypeOK ==
    /\ view \in [category : Categories \union {None}, due : BOOLEAN, prompt : BOOLEAN,
                 current : Calls \union {None}, loading : BOOLEAN, result : Calls \union {None},
                 scenario : Dives \union {None}, diving : Dives \union {None}, error : BOOLEAN]
    /\ calls \in [Calls -> [at : {"unused", "cloud", "local", "done"}, category : Categories \union {None},
                            handler : {"none", "ai", "answer", "failed"}]]
    /\ dives \in [Dives -> [at : {"unused", "asked", "stored", "failed", "done"}, category : Categories \union {None},
                            mounted : BOOLEAN]]
    /\ left \subseteq Calls /\ rows \subseteq Calls \union Dives /\ kept \subseteq Calls

GenInit ==
    /\ view = Mounted(None)
    /\ calls = [c \in Calls |-> [at |-> "unused", category |-> None, handler |-> "none"]]
    /\ dives = [d \in Dives |-> [at |-> "unused", category |-> None, mounted |-> TRUE]]
    /\ left = {} /\ rows = {} /\ kept = {}

-----------------------------------------------------------------------------
Underway(c) == calls[c].at \in {"cloud", "local"}

\* setCategory: by a picker, the wizard, or a voice command.  The effect on it comes later.
PickCategory(k) ==
    /\ k # view.category
    /\ view' = [view EXCEPT !.category = k, !.due = TRUE]
    /\ UNCHANGED <<calls, dives, left, rows, kept>>

\* Fault: the effect supersedes the call but leaves the spinner to it.
MutCleared(v) == [v EXCEPT !.current = None, !.error = FALSE]

\* What the effect on [category] resets; the result stays.
Cleared(v) == [v EXCEPT !.current = None, !.error = FALSE, !.loading = FALSE]

CategoryEffect ==
    /\ view.due
    /\ view' = [Cleared(view) EXCEPT !.due = FALSE]
    /\ UNCHANGED <<calls, dives, left, rows, kept>>

EnterPrompt ==
    /\ view.category # None /\ ~view.prompt
    /\ view' = [view EXCEPT !.prompt = TRUE]
    /\ UNCHANGED <<calls, dives, left, rows, kept>>

\* The dashboard shows another view and this one is unmounted; a new one starts afresh.
LeaveView ==
    /\ left' = left \union ({view.current} \ {None})
    /\ view' = Mounted(view.category)
    /\ dives' = [d \in Dives |-> [dives[d] EXCEPT !.mounted = dives[d].at = "unused"]]
    /\ UNCHANGED <<calls, rows, kept>>

\* generate(): the button looks at loading and at a locked form, a voice command at neither.
Generate(c, offline) ==
    /\ view.category # None /\ view.prompt
    /\ calls[c].at = "unused"
    /\ view' = [view EXCEPT !.current = c, !.loading = TRUE, !.error = FALSE, !.result = None, !.scenario = None]
    /\ calls' = [calls EXCEPT ![c] = [at |-> IF offline THEN "local" ELSE "cloud", category |-> view.category,
                                      handler |-> IF offline THEN "none" ELSE "ai"]]
    /\ UNCHANGED <<dives, left, rows, kept>>

-----------------------------------------------------------------------------
\* The handler is refused by the class of the data, or every provider fails.
HandlerFails(c) ==
    /\ calls[c].handler = "ai"
    /\ calls' = [calls EXCEPT ![c].handler = "failed"]
    /\ UNCHANGED <<view, dives, left, rows, kept>>

\* The report is generated: INSERT INTO analyses, the completion event, and the answer, which may find nobody.
HandlerStores(c) ==
    /\ calls[c].handler = "ai"
    /\ calls' = [calls EXCEPT ![c].handler = "answer"]
    /\ rows' = rows \union {c}
    /\ UNCHANGED <<view, dives, left, kept>>

-----------------------------------------------------------------------------
\* The continuation of generate() after its await; `shown` when a report arrived.
GenSettled(c, shown) ==
    IF view.current # c THEN view
    ELSE [view EXCEPT !.loading = FALSE, !.result = IF shown THEN c ELSE @, !.error = IF shown THEN @ ELSE TRUE]

Finish(c, shown) ==
    /\ calls' = [calls EXCEPT ![c].at = "done"]
    /\ view' = GenSettled(c, shown)

CloudAnswers(c) ==
    /\ calls[c].at = "cloud" /\ calls[c].handler = "answer"
    /\ Finish(c, TRUE)
    /\ UNCHANGED <<dives, left, rows, kept>>

\* An error answer, or no answer while the handler goes on: the local model is asked.
CloudFails(c) ==
    /\ calls[c].at = "cloud"
    /\ IF Native THEN calls' = [calls EXCEPT ![c].at = "local"] /\ UNCHANGED view
                 ELSE Finish(c, FALSE)
    /\ UNCHANGED <<dives, left, rows, kept>>

\* The local model answers; unless it is superseded the report goes to the history, if that works.
LocalAnswers(c, saves) ==
    /\ Native /\ calls[c].at = "local"
    /\ Finish(c, TRUE)
    /\ kept' = IF saves /\ c \in left \union {view.current} THEN kept \union {c} ELSE kept
    /\ UNCHANGED <<dives, left, rows>>

LocalFails(c) ==
    /\ calls[c].at = "local"
    /\ Finish(c, FALSE)
    /\ UNCHANGED <<dives, left, rows, kept>>

-----------------------------------------------------------------------------
\* deepDiveScenario() for a scenario of the result on screen.
DeepDive(d) ==
    /\ view.result # None /\ view.scenario = None /\ view.diving = None
    /\ dives[d].at = "unused"
    /\ dives' = [dives EXCEPT ![d] = [at |-> "asked", category |-> view.category, mounted |-> TRUE]]
    /\ view' = [view EXCEPT !.diving = d, !.scenario = None]
    /\ UNCHANGED <<calls, left, rows, kept>>

DiveHandled(d, stores) ==
    /\ dives[d].at = "asked"
    /\ dives' = [dives EXCEPT ![d].at = IF stores THEN "stored" ELSE "failed"]
    /\ rows' = IF stores THEN rows \union {d} ELSE rows
    /\ UNCHANGED <<view, calls, left, kept>>

\* Its continuation asks for no generation.
DiveReturns(d, arrives) ==
    /\ dives[d].at \in {"stored", "failed"}
    /\ dives' = [dives EXCEPT ![d].at = "done"]
    /\ view' = CASE ~dives[d].mounted -> view
                 [] arrives /\ dives[d].at = "stored" -> [view EXCEPT !.diving = None, !.scenario = d]
                 [] OTHER -> [view EXCEPT !.diving = None, !.error = TRUE]
    /\ UNCHANGED <<calls, left, rows, kept>>

BackToMain ==
    /\ view.scenario # None
    /\ view' = [view EXCEPT !.scenario = None]
    /\ UNCHANGED <<calls, dives, left, rows, kept>>

\* reset(): by its button, or by voice whatever is under way.
NewAnalysis ==
    /\ view.category # None
    /\ view' = [view EXCEPT !.result = None, !.scenario = None, !.prompt = FALSE, !.error = FALSE]
    /\ UNCHANGED <<calls, dives, left, rows, kept>>

GenNext ==
    \/ \E k \in Categories \union {None} : PickCategory(k)
    \/ CategoryEffect \/ EnterPrompt \/ LeaveView \/ BackToMain \/ NewAnalysis
    \/ \E c \in Calls : \/ HandlerFails(c) \/ HandlerStores(c)
                        \/ CloudAnswers(c) \/ CloudFails(c) \/ LocalFails(c)
                        \/ \E b \in BOOLEAN : Generate(c, b) \/ LocalAnswers(c, b)
    \/ \E d \in Dives : DeepDive(d) \/ \E b \in BOOLEAN : DiveHandled(d, b) \/ DiveReturns(d, b)

GenSpec == GenInit /\ [][GenNext]_genVars

-----------------------------------------------------------------------------
(* However calls, categories and voice commands overlap, the spinner turns  *)
(* exactly while the call that may still show a report is under way.        *)
SpinnerHonest == view.loading <=> view.current # None /\ Underway(view.current)

(* "that stale settlement must not clobber whatever the user is looking at  *)
(* *now*" (AnalysisView.jsx:86-87), said of generate(): a report that       *)
(* arrives is one of the category on screen.                                *)
ArrivesFresh ==
    [][view'.result \in Calls \ {view.result} => calls[view'.result].category = view.category]_genVars

(* The same of a scenario.                                                  *)
DiveFresh ==
    [][view'.scenario \in Dives \ {view.scenario} => dives[view'.scenario].category = view.category]_genVars

(* The fallback after a lost answer does not write the same analysis twice, *)
(* once on the server and once on the device (which syncs it).              *)
StoredOnce == rows \intersect kept = {}

(* After a reset nothing of the analysis that was left comes back.          *)
ResetHolds ==
    [][~view.prompt /\ view.result = None => view'.result = None]_genVars
=============================================================================
