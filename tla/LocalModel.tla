----------------------------- MODULE LocalModel -----------------------------
(***************************************************************************)
(* The model file of the local AI and the settings panel that downloads,   *)
(* stops, cancels and removes it (components/LocalAIPanel.jsx), on the     *)
(* desktop (desktop/localAI) and on Android (client/src/mobile/localAI).   *)
(* A download writes <file>.download, hashes it and renames it.  The       *)
(* desktop writes through an open file, which follows a rename and         *)
(* survives a deletion; Android appends by name.  The bytes are blocks: a  *)
(* file is its length and whether every block is where it belongs.         *)
(***************************************************************************)
EXTENDS Naturals, FiniteSets

CONSTANTS
    Downloads,      \* calls of downloadModel
    Blocks,         \* bound: the length of the model
    MaxMounts,      \* bound: times the panel is opened again
    MaxLoads,       \* bound: runtimes that queries have loaded
    NoDownload

ASSUME LocalModelAssumption ==
    Blocks \in Nat \ {0} /\ MaxMounts \in Nat /\ MaxLoads \in Nat /\ NoDownload \notin Downloads

VARIABLES
    android,        \* which of the twins
    partial, file,     \* <file>.download and <file>
    dl,             \* the downloads
    activeDownload,         \* activeDownload of the manager the registry now holds
    modelPage,          \* the open panel: the download it awaits, what it shows
    mounts,         \* times the panel was opened again
    query,          \* the local-llm query: "idle", "verify", "load" or "generate"
    loads,          \* runtimes loaded and not disposed
    badLoad,        \* history: a runtime was given a file that was not whole
    overlapped      \* history: two downloads were under way together

modelVars == <<android, partial, file, dl, activeDownload, modelPage, mounts, query, loads, badLoad, overlapped>>

NoFile == [len |-> 0, good |-> TRUE, here |-> FALSE]
File(n, g) == [len |-> n, good |-> g, here |-> TRUE]
Whole(f) == f.here /\ f.good /\ f.len = Blocks
Contents == {File(n, g) : n \in 0..(Blocks + 2), g \in BOOLEAN} \union {NoFile}

Steps == {"idle", "opening", "stream", "flush", "verify", "verified", "failed", "hung"}
Targets == {"partial", "file", "gone"}
FreshDownload == [at |-> "idle", pos |-> 0, append |-> FALSE, into |-> "gone", own |-> FALSE,
          cancelled |-> FALSE, del |-> FALSE]

DownloadsUnderWay == {d \in Downloads : dl[d].at # "idle"}
Writing == {d \in Downloads : dl[d].at \in {"opening", "stream", "flush"}}

ModelTypeOK ==
    /\ android \in BOOLEAN
    /\ partial \in Contents /\ file \in Contents
    /\ dl \in [Downloads -> [at : Steps, pos : 0..Blocks, append : BOOLEAN, into : Targets,
                             own : BOOLEAN, cancelled : BOOLEAN, del : BOOLEAN]]
    /\ activeDownload \in Downloads \union {NoDownload}
    /\ modelPage \in [awaits : Downloads \union {NoDownload}, shows : {"nothing", "partial", "installed"}]
    /\ mounts \in 0..MaxMounts
    /\ query \in {"idle", "verify", "load", "generate"}
    /\ loads \in 0..MaxLoads
    /\ badLoad \in BOOLEAN /\ overlapped \in BOOLEAN

ModelInit ==
    /\ android \in BOOLEAN
    /\ partial = NoFile /\ file = NoFile
    /\ dl = [d \in Downloads |-> FreshDownload]
    /\ activeDownload = NoDownload
    /\ modelPage = [awaits |-> NoDownload, shows |-> "nothing"]
    /\ mounts = 0 /\ query = "idle" /\ loads = 0
    /\ badLoad = FALSE /\ overlapped = FALSE

-----------------------------------------------------------------------------
\* refresh: the status of the two files; Android does not report the partial one.
Status(p, f) == IF f.here THEN "installed" ELSE IF p.here /\ p.len > 0 /\ ~android THEN "partial" ELSE "nothing"

(***************************************************************************)
(* The files' names.  A stream that is open on the desktop keeps the file  *)
(* it was opened on, under whatever name that now has.                     *)
(***************************************************************************)
Unlinked(name) == [d \in Downloads |-> IF dl[d].into = name THEN [dl[d] EXCEPT !.into = "gone"] ELSE dl[d]]
Renamed == [d \in Downloads |-> [dl[d] EXCEPT !.into =
               CASE @ = "partial" -> "file" [] @ = "file" -> "gone" [] OTHER -> @]]

\* A block written at position pos of f, or appended to it; intact is what came over the network.
Put(f, pos, append, intact) ==
    LET at == IF append THEN f.len ELSE pos
    IN  File(IF at < f.len THEN f.len ELSE at + 1, f.good /\ intact /\ at = pos /\ pos <= f.len)

\* own: the download's end clears activeDownload of the registry's manager.
\* status on Android rebuilds the manager, which then knows of no download.
Rebuilt(ds) == IF android THEN [d \in Downloads |-> [ds[d] EXCEPT !.own = FALSE]] ELSE ds
ActiveAfterStatus == IF android THEN NoDownload ELSE activeDownload

-----------------------------------------------------------------------------
\* handleDownload, downloadModel up to its request.
Download(d) ==
    /\ modelPage.awaits = NoDownload /\ modelPage.shows # "installed"
    /\ dl[d].at = "idle"
    /\ dl' = [dl EXCEPT ![d] = [FreshDownload EXCEPT !.at = "opening", !.own = TRUE]]
    /\ activeDownload' = d
    /\ modelPage' = [modelPage EXCEPT !.awaits = d]
    /\ overlapped' = (overlapped \/ DownloadsUnderWay # {})
    /\ UNCHANGED <<android, partial, file, mounts, query, loads, badLoad>>

(***************************************************************************)
(* The response: 206 continues behind the bytes that were there, 200       *)
(* starts again, and a Range behind the end is refused.                    *)
(***************************************************************************)
Respond(d, resumed) ==
    /\ dl[d].at = "opening" /\ ~dl[d].cancelled
    /\ resumed => partial.len \in 1..(Blocks - 1)
    /\ partial' = IF resumed THEN partial ELSE File(0, TRUE)
    /\ dl' = [dl EXCEPT ![d].at = "stream", ![d].into = "partial", ![d].append = resumed \/ android,
                        ![d].pos = IF resumed THEN partial.len ELSE 0]
    /\ UNCHANGED <<android, file, activeDownload, modelPage, mounts, query, loads, badLoad, overlapped>>

ReceiveBlock(d, intact) ==
    /\ dl[d].at = "stream" /\ ~dl[d].cancelled /\ dl[d].pos < Blocks
    /\ dl' = [dl EXCEPT ![d].pos = @ + 1]
    /\ LET name == IF android THEN "partial" ELSE dl[d].into
       IN  /\ partial.len < Blocks + 2 /\ file.len < Blocks + 2
           /\ partial' = IF name = "partial" THEN Put(partial, dl[d].pos, dl[d].append, intact) ELSE partial
           /\ file' = IF name = "file" THEN Put(file, dl[d].pos, dl[d].append, intact) ELSE file
    /\ UNCHANGED <<android, activeDownload, modelPage, mounts, query, loads, badLoad, overlapped>>

\* The last byte has come; the desktop's file is still being flushed.
ResponseEnds(d) ==
    /\ dl[d].at = "stream" /\ ~dl[d].cancelled /\ dl[d].pos = Blocks
    /\ dl' = [dl EXCEPT ![d].at = IF android THEN "verify" ELSE "flush"]
    /\ UNCHANGED <<android, partial, file, activeDownload, modelPage, mounts, query, loads, badLoad, overlapped>>

\* out emits finish; activeDownload is cleared before the hash is taken.
Flushed(d) ==
    /\ dl[d].at = "flush"
    /\ dl' = [dl EXCEPT ![d].at = "verify", ![d].into = "gone", ![d].own = FALSE]
    /\ activeDownload' = IF dl[d].own THEN NoDownload ELSE activeDownload
    /\ UNCHANGED <<android, partial, file, modelPage, mounts, query, loads, badLoad, overlapped>>

\* The connection fails, or the stall watchdog ends a silent one.
ConnectionFails(d) ==
    /\ dl[d].at \in {"opening", "stream"} /\ ~dl[d].cancelled
    /\ dl' = [dl EXCEPT ![d].at = "failed"]
    /\ UNCHANGED <<android, partial, file, activeDownload, modelPage, mounts, query, loads, badLoad, overlapped>>

\* A cancelled request rejects.
Aborts(d) ==
    /\ dl[d].at \in {"opening", "stream"} /\ dl[d].cancelled
    /\ dl' = [dl EXCEPT ![d].at = "failed"]
    /\ UNCHANGED <<android, partial, file, activeDownload, modelPage, mounts, query, loads, badLoad, overlapped>>

\* Fault: what the hash says is not looked at.
MutVerified(d) == TRUE

\* verifyChecksum
Verified(d) == Whole(partial)

\* The hash is compared: a mismatch deletes the partial file.
Verify(d) ==
    /\ dl[d].at = "verify"
    /\ IF Verified(d)
       THEN dl' = [dl EXCEPT ![d].at = "verified"] /\ UNCHANGED partial
       ELSE dl' = [Unlinked("partial") EXCEPT ![d].at = "failed"] /\ partial' = NoFile
    /\ UNCHANGED <<android, file, activeDownload, modelPage, mounts, query, loads, badLoad, overlapped>>

(***************************************************************************)
(* The end of a download: the panel that awaits it shows the new status.  *)
(***************************************************************************)
Ended(d, ds, p, f) ==
    LET shown == modelPage.awaits = d
    IN  /\ dl' = (IF shown \/ f # file THEN Rebuilt([ds EXCEPT ![d] = FreshDownload]) ELSE [ds EXCEPT ![d] = FreshDownload])
        /\ activeDownload' = (IF dl[d].own \/ (android /\ (shown \/ f # file)) THEN NoDownload ELSE activeDownload)
        /\ modelPage' = IF shown THEN [awaits |-> NoDownload, shows |-> Status(p, f)] ELSE modelPage
        /\ partial' = p /\ file' = f

\* rename, which fails when the partial file is gone.
Install(d) ==
    /\ dl[d].at = "verified"
    /\ IF partial.here THEN Ended(d, Renamed, NoFile, partial) ELSE Ended(d, dl, partial, file)
    /\ UNCHANGED <<android, mounts, query, loads, badLoad, overlapped>>

\* The rejection: a cancel that asked for it deletes the partial file.
DownloadRejects(d) ==
    /\ dl[d].at = "failed"
    /\ IF dl[d].cancelled /\ dl[d].del THEN Ended(d, Unlinked("partial"), NoFile, file)
                                       ELSE Ended(d, dl, partial, file)
    /\ UNCHANGED <<android, mounts, query, loads, badLoad, overlapped>>

-----------------------------------------------------------------------------
(***************************************************************************)
(* cancelDownload, from the buttons of a running download or from those of *)
(* a paused one.  Destroying a file that is being flushed settles nothing: *)
(* it emits neither finish nor error.                                      *)
(***************************************************************************)
Cancel(del) ==
    /\ modelPage.shows # "installed"
    /\ modelPage.awaits # NoDownload \/ (del /\ modelPage.shows = "partial")
    /\ LET d == activeDownload
           deletes == del /\ d = NoDownload
           next == IF d = NoDownload THEN IF deletes THEN Unlinked("partial") ELSE dl
                   ELSE [dl EXCEPT ![d].cancelled = TRUE, ![d].del = del,
                                   ![d].at = IF @ = "flush" THEN "hung" ELSE @]
       IN  /\ partial' = IF deletes THEN NoFile ELSE partial
           /\ dl' = IF del THEN Rebuilt(next) ELSE next
           /\ activeDownload' = IF del THEN ActiveAfterStatus ELSE activeDownload
           /\ modelPage' = IF del THEN [modelPage EXCEPT !.shows = Status(partial', file)] ELSE modelPage
    /\ UNCHANGED <<android, file, mounts, query, loads, badLoad, overlapped>>

\* removeModel: every file of every tier, whatever is being downloaded.
RemoveModel ==
    /\ modelPage.shows = "installed"
    /\ partial' = NoFile /\ file' = NoFile
    /\ dl' = Rebuilt([d \in Downloads |-> [dl[d] EXCEPT !.into = "gone"]])
    /\ activeDownload' = ActiveAfterStatus
    /\ modelPage' = [modelPage EXCEPT !.shows = "nothing"]
    /\ UNCHANGED <<android, mounts, query, loads, badLoad, overlapped>>

\* The user picks another tier and this one again: setModelTier makes a new manager.
SelectTier ==
    /\ modelPage.awaits = NoDownload /\ modelPage.shows # "installed" /\ activeDownload # NoDownload
    /\ dl' = [d \in Downloads |-> [dl[d] EXCEPT !.own = FALSE]]
    /\ activeDownload' = NoDownload
    /\ modelPage' = [modelPage EXCEPT !.shows = Status(partial, file)]
    /\ UNCHANGED <<android, partial, file, mounts, query, loads, badLoad, overlapped>>

\* The panel is closed and opened: its state is new, the downloads go on.
Remount ==
    /\ mounts < MaxMounts
    /\ mounts' = mounts + 1
    /\ modelPage' = [awaits |-> NoDownload, shows |-> Status(partial, file)]
    /\ dl' = Rebuilt(dl) /\ activeDownload' = ActiveAfterStatus
    /\ UNCHANGED <<android, partial, file, query, loads, badLoad, overlapped>>

-----------------------------------------------------------------------------
\* ai:query: a provider, and with it a runtime cache, of its own for each query.
Query ==
    /\ query = "idle" /\ file.here
    /\ query' = IF android THEN "load" ELSE "verify"
    /\ UNCHANGED <<android, partial, file, dl, activeDownload, modelPage, mounts, loads, badLoad, overlapped>>

\* getRuntime hashes the file before each load.
QueryVerifies ==
    /\ query = "verify"
    /\ query' = IF Whole(file) THEN "load" ELSE "idle"
    /\ UNCHANGED <<android, partial, file, dl, activeDownload, modelPage, mounts, loads, badLoad, overlapped>>

QueryLoads ==
    /\ query = "load"
    /\ IF file.here
       THEN /\ loads < MaxLoads /\ loads' = loads + 1
            /\ badLoad' = (badLoad \/ ~Whole(file))
            /\ query' = "generate"
       ELSE query' = "idle" /\ UNCHANGED <<loads, badLoad>>
    /\ UNCHANGED <<android, partial, file, dl, activeDownload, modelPage, mounts, overlapped>>

\* An answer leaves the runtime loaded; a timeout disposes of it.
QueryEnds(timedOut) ==
    /\ query = "generate"
    /\ query' = "idle"
    /\ loads' = IF timedOut THEN loads - 1 ELSE loads
    /\ UNCHANGED <<android, partial, file, dl, activeDownload, modelPage, mounts, badLoad, overlapped>>

ModelNext ==
    \/ \E d \in Downloads :
          \/ Download(d) \/ ResponseEnds(d) \/ Flushed(d) \/ ConnectionFails(d)
          \/ Aborts(d) \/ Verify(d) \/ Install(d) \/ DownloadRejects(d)
    \/ \E d \in Downloads, resumed \in BOOLEAN : Respond(d, resumed)
    \/ \E d \in Downloads, intact \in BOOLEAN : ReceiveBlock(d, intact)
    \/ \E del \in BOOLEAN : Cancel(del)
    \/ RemoveModel \/ SelectTier \/ Remount
    \/ Query \/ QueryVerifies \/ QueryLoads
    \/ \E timedOut \in BOOLEAN : QueryEnds(timedOut)

ModelSpec == ModelInit /\ [][ModelNext]_modelVars

-----------------------------------------------------------------------------
(* As long as no two downloads were ever under way together, the installed  *)
(* file is the whole model and no query loads anything else, however often  *)
(* downloads were stopped, resumed, cancelled or removed under way          *)
(* (modelManager.js, downloadModel: "never leaves a file at the real        *)
(* modelPath that isModelInstalled() would wrongly treat as ready").        *)
ModelIntact == ~overlapped => (file.here => Whole(file)) /\ ~badLoad

(* "There is only ever one download at a time" (modelManager.js:27).        *)
OneDownload == Cardinality(DownloadsUnderWay) <= 1

(* The same promise without the condition: two downloads that append to one *)
(* file may leave an installed model that is not whole.                     *)
InstalledWhole == file.here => Whole(file)

(* A cancel ends the download (main.js: the pending call "settles (rejects) *)
(* on its own once the aborted request/stream actually stops").             *)
CancelSettles == \A d \in Downloads : dl[d].at # "hung"

(* "getRuntime() itself only runs once per process" (llmProvider.js): one   *)
(* runtime is loaded at a time.                                             *)
OneRuntime == loads <= 1
=============================================================================
