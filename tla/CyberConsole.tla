----------------------------- MODULE CyberConsole ---------------------------
(***************************************************************************)
(* The cyber console around its tabs                                       *)
(* (client/src/components/CyberAnalysisContent.jsx): which tab is shown,   *)
(* what unlocks the next one, the detail of an asset, the target handed    *)
(* from an asset to the scans tab, and the scan that tab waits for.        *)
(***************************************************************************)
EXTENDS Naturals, Sequences

CONSTANTS
    Owned,          \* assets, each with a target
    NoOwned

ASSUME ConsoleAssumption == NoOwned \notin Owned

VARIABLES
    console,        \* shown tab, canAdvance, pendingScanTarget, wizardOpen
    form,           \* the required field of the mounted tab: assets' and scans' own
    visit,          \* how the visit to the scans tab began: the target handed to it, if any
    detail,         \* the selected asset, the one loaded, and the loads under way
    saved,          \* <<asset, name's owner>> of every saved edit
    watch,          \* the scan of the scans tab: on the server, as polled, waited for
    yanked          \* a scan that ended changed the tab of a user who had left the scans tab

consoleVars == <<console, form, visit, detail, saved, watch, yanked>>

\* TABS in their order; findings stands for reports too, engines for quantum, outside the flow.
Flow == <<"dashboard", "assets", "scans", "findings">>
Tabs == {Flow[i] : i \in 1..Len(Flow)} \union {"engines"}
Place(tab) == CHOOSE i \in 1..Len(Flow) : Flow[i] = tab
ScanStatuses == {"none", "open", "COMPLETED", "ENDED"}     \* ENDED: terminal but not complete
NoForm == [filled |-> FALSE, target |-> NoOwned, submitted |-> FALSE]
NoDetail == [id |-> NoOwned, loaded |-> NoOwned, loads |-> {}]

ConsoleTypeOK ==
    /\ console \in [tab : Tabs, can : BOOLEAN, pending : Owned \union {NoOwned}, wizard : BOOLEAN]
    /\ form \in [filled : BOOLEAN, target : Owned \union {NoOwned}, submitted : BOOLEAN]
    /\ visit \in Owned \union {NoOwned}
    /\ detail \in [id : Owned \union {NoOwned}, loaded : Owned \union {NoOwned}, loads : SUBSET Owned]
    /\ saved \subseteq Owned \X Owned
    /\ watch \in [real : ScanStatuses, poll : ScanStatuses, waiting : BOOLEAN] /\ yanked \in BOOLEAN

ConsoleInit ==
    /\ console = [tab |-> "dashboard", can |-> TRUE, pending |-> NoOwned, wizard |-> FALSE]
    /\ form = NoForm /\ visit = NoOwned /\ detail = NoDetail /\ saved = {}
    /\ watch = [real |-> "none", poll |-> "none", waiting |-> FALSE] /\ yanked = FALSE

-----------------------------------------------------------------------------
(* Moving between the tabs.                                                *)

\* A tab with required fields says whether they are filled, on mount and whenever they change.
Unlocks(tab, f) == tab \in {"assets", "scans"} => f.filled \/ f.submitted

\* The scans tab reads the pending target as it mounts, and consumes it.
Consumes(pending) == NoOwned
Prefilled(pending) == [NoForm EXCEPT !.filled = pending # NoOwned, !.target = pending]

\* changeTab: the same tab again sets canAdvance and mounts nothing.
Enters(tab, c) ==
    IF tab = console.tab
    THEN /\ console' = [c EXCEPT !.can = TRUE]
         /\ UNCHANGED <<form, visit, detail, watch>>
    ELSE LET f == IF tab = "scans" THEN Prefilled(c.pending) ELSE NoForm
         IN  /\ form' = f
             /\ console' = [c EXCEPT !.tab = tab, !.can = Unlocks(tab, f),
                                     !.pending = IF tab = "scans" THEN Consumes(c.pending) ELSE @]
             /\ visit' = IF tab = "scans" THEN c.pending ELSE NoOwned
             /\ detail' = NoDetail
             /\ watch' = [watch EXCEPT !.waiting = FALSE]

\* The sidebar is under the overlay of an open wizard.
Sidebar(tab) ==
    /\ ~console.wizard
    /\ Enters(tab, console)
    /\ UNCHANGED <<saved, yanked>>

\* The buttons and the keys Enter and Escape; the listener of the keys is the window's, and an
\* open wizard does not stop it.
GoNext ==
    /\ console.tab \in {Flow[i] : i \in 1..Len(Flow) - 1} /\ console.can
    /\ Enters(Flow[Place(console.tab) + 1], console)
    /\ UNCHANGED <<saved, yanked>>
GoPrev ==
    /\ console.tab \in {Flow[i] : i \in 2..Len(Flow)}
    /\ Enters(Flow[Place(console.tab) - 1], console)
    /\ UNCHANGED <<saved, yanked>>

OpenWizard ==
    /\ console.tab = "dashboard" /\ ~console.wizard
    /\ console' = [console EXCEPT !.wizard = TRUE]
    /\ UNCHANGED <<form, visit, detail, saved, watch, yanked>>

\* Its close button, or onGoToFindings.
CloseWizard ==
    /\ console.wizard
    /\ \/ /\ console' = [console EXCEPT !.wizard = FALSE]
          /\ UNCHANGED <<form, visit, detail, watch>>
       \/ Enters("findings", [console EXCEPT !.wizard = FALSE])
    /\ UNCHANGED <<saved, yanked>>

-----------------------------------------------------------------------------
(* The assets tab and the detail of an asset.                              *)

Types(f) ==
    /\ form' = f /\ console' = [console EXCEPT !.can = Unlocks(console.tab, f)]
    /\ UNCHANGED <<visit, detail, saved, watch, yanked>>

FillOrEmpty ==
    /\ console.tab \in {"assets", "scans"} /\ ~console.wizard
    /\ Types([form EXCEPT !.filled = ~@, !.target = NoOwned])

\* onCreate of the assets tab empties its fields when the asset and its identifier are stored.
CreateAsset ==
    /\ console.tab = "assets" /\ ~console.wizard /\ form.filled
    /\ Types(NoForm)

\* A row of the list.  The detail is not keyed by the asset: another one keeps what was loaded.
SelectAsset(a) ==
    /\ console.tab = "assets" /\ ~console.wizard /\ a # detail.id
    /\ detail' = [detail EXCEPT !.id = a, !.loads = @ \union {a}]
    /\ UNCHANGED <<console, form, visit, saved, watch, yanked>>

CloseDetail ==
    /\ console.tab = "assets" /\ ~console.wizard /\ detail.id # NoOwned
    /\ detail' = NoDetail
    /\ UNCHANGED <<console, form, visit, saved, watch, yanked>>

\* load(): the answer of whichever asset is shown, and its name put in the form of the edit.
AssetLoads(a) ==
    /\ a \in detail.loads
    /\ detail' = [detail EXCEPT !.loaded = a, !.loads = @ \ {a}]
    /\ UNCHANGED <<console, form, visit, saved, watch, yanked>>
AssetFails(a) ==
    /\ a \in detail.loads
    /\ detail' = [detail EXCEPT !.loads = @ \ {a}]
    /\ UNCHANGED <<console, form, visit, saved, watch, yanked>>

\* saveEdit(): the name in the form, under the id selected, and the asset is loaded again.
SaveEdit ==
    /\ detail.loaded # NoOwned /\ ~console.wizard
    /\ saved' = saved \union {<<detail.id, detail.loaded>>}
    /\ detail' = [detail EXCEPT !.loads = @ \union {detail.id}]
    /\ UNCHANGED <<console, form, visit, watch, yanked>>

\* From the list, or from the detail with the target of what it has loaded.
StartScanFor(a) ==
    /\ console.tab = "assets" /\ ~console.wizard
    /\ Enters("scans", [console EXCEPT !.pending = a])
    /\ UNCHANGED <<saved, yanked>>

-----------------------------------------------------------------------------
(* The scans tab.                                                          *)

CreateScan ==
    /\ console.tab = "scans" /\ ~console.wizard /\ form.filled /\ watch.real = "none"
    /\ form' = [NoForm EXCEPT !.submitted = TRUE]
    /\ console' = [console EXCEPT !.can = TRUE]
    /\ watch' = [watch EXCEPT !.real = "open", !.waiting = TRUE]
    /\ UNCHANGED <<visit, detail, saved, yanked>>

ScanEnds ==
    /\ watch.real = "open"
    /\ \E status \in {"COMPLETED", "ENDED"} : watch' = [watch EXCEPT !.real = status]
    /\ UNCHANGED <<console, form, visit, detail, saved, yanked>>

PollScan ==
    /\ watch.waiting /\ watch.poll = "none"
    /\ watch' = [watch EXCEPT !.poll = watch.real]
    /\ UNCHANGED <<console, form, visit, detail, saved, yanked>>

\* onScanCompleted is changeTab('findings'), whatever the tab shown by now.
PollAnswered ==
    /\ watch.poll # "none"
    /\ IF watch.poll = "COMPLETED"
       THEN /\ IF console.tab = "findings"
               THEN console' = [console EXCEPT !.can = TRUE] /\ UNCHANGED <<form, visit, detail>>
               ELSE /\ console' = [console EXCEPT !.tab = "findings", !.can = TRUE]
                    /\ form' = NoForm /\ visit' = NoOwned /\ detail' = NoDetail
            /\ yanked' = (yanked \/ console.tab \notin {"scans", "findings"})
       ELSE UNCHANGED <<console, form, visit, detail, yanked>>
    /\ watch' = [watch EXCEPT !.poll = "none", !.waiting = @ /\ watch.poll = "open"]
    /\ UNCHANGED saved

\* A failed poll, or the last of SCAN_POLL_MAX_ATTEMPTS, ends the waiting.
PollGivesUp ==
    /\ watch.poll # "none"
    /\ watch' = [watch EXCEPT !.poll = "none", !.waiting = FALSE]
    /\ UNCHANGED <<console, form, visit, detail, saved, yanked>>

-----------------------------------------------------------------------------
ConsoleNext ==
    \/ \E tab \in Tabs : Sidebar(tab)
    \/ GoNext \/ GoPrev \/ OpenWizard \/ CloseWizard
    \/ FillOrEmpty \/ CreateAsset \/ CloseDetail \/ SaveEdit
    \/ \E a \in Owned : SelectAsset(a) \/ AssetLoads(a) \/ AssetFails(a) \/ StartScanFor(a)
    \/ CreateScan \/ ScanEnds \/ PollScan \/ PollAnswered \/ PollGivesUp

ConsoleSpec == ConsoleInit /\ [][ConsoleNext]_consoleVars

-----------------------------------------------------------------------------
(* Properties                                                              *)

\* The target in the field of the scans tab is one handed to this visit by "Start Scan", so that
\* "a later plain sidebar switch to Scans never re-prefills a stale target"
\* (CyberAnalysisContent.jsx:1348-1350), however the tabs were left and entered in between.
NoStalePrefill ==
    /\ form.target # NoOwned => form.target = visit
    /\ console.tab = "scans" => console.pending = NoOwned

\* "The wizard's Next/Enter only unlocks once this step's required field (the scan target) is
\* actually filled in -- or a scan has already been started this visit"
\* (CyberAnalysisContent.jsx:657-659).
NextUnlocks == console.can => Unlocks(console.tab, form)

\* "so a scan finishing never yanks a user's attention away from something else"
\* (CyberAnalysisContent.jsx:662-665).
NoYank == ~yanked

\* The name saved for an asset is one that was read from it.
EditsOwn == \A edit \in saved : edit[1] = edit[2]

\* Enter and Escape do not move the console under an open wizard.
WizardHoldsKeys == [][console.wizard /\ console'.wizard => console'.tab = console.tab]_consoleVars

=============================================================================
