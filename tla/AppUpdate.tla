----------------------------- MODULE AppUpdate -----------------------------
(***************************************************************************)
(* Installing a new version: the releases the server lists, what the       *)
(* desktop's main process knows of an update (pendingUpdate and            *)
(* updateReadyToInstall of main.js, electron-updater's download), what     *)
(* Android fetches (mobileUpdate), and the banner both show.  Versions are *)
(* numbers, 0 is none and the running version is 1.                        *)
(***************************************************************************)
EXTENDS Naturals

CONSTANTS MaxVersion        \* bound: the newest release

ASSUME UpdateAssumption == MaxVersion \in Nat /\ MaxVersion > 1

VARIABLES
    phone,          \* Android rather than the desktop
    released,       \* the latest release, drafts excluded
    assets,         \* the releases whose installers are all uploaded
    pending,        \* pendingUpdate
    ready,          \* updateReadyToInstall
    fetching,       \* the version that is being downloaded
    fetched,        \* the installer on disk
    banner,         \* the renderer's state
    awaited,        \* the banner on screen awaits its download
    hash,           \* Android: the hash is known of what is being downloaded
    applied         \* the installer that was started and what the banner had said it was

updateVars == <<phone, released, assets, pending, ready, fetching, fetched, banner, awaited, hash, applied>>

Versions == 0..MaxVersion
Stages == {"idle", "downloading", "ready", "error", "dismissed"}

UpdateTypeOK ==
    /\ phone \in BOOLEAN
    /\ released \in Versions /\ assets \subseteq Versions
    /\ pending \in Versions /\ ready \in BOOLEAN
    /\ fetching \in Versions /\ fetched \in Versions
    /\ banner \in [info : Versions, digest : BOOLEAN, stage : Stages, dismissed : Versions]
    /\ awaited \in BOOLEAN /\ hash \in BOOLEAN
    /\ applied \in [version : Versions, shown : Versions, digest : BOOLEAN]

NoBanner == [info |-> 0, digest |-> FALSE, stage |-> "idle", dismissed |-> 0]

UpdateInit ==
    /\ phone \in BOOLEAN
    /\ released = 1 /\ assets = {1}
    /\ pending = 0 /\ ready = FALSE /\ fetching = 0 /\ fetched = 0
    /\ banner = NoBanner /\ awaited = FALSE /\ hash = FALSE
    /\ applied = [version |-> 0, shown |-> 0, digest |-> FALSE]

-----------------------------------------------------------------------------
\* A release is public minutes before its build jobs upload the installers.
Publish ==
    /\ released < MaxVersion
    /\ released' = released + 1
    /\ UNCHANGED <<phone, assets, pending, ready, fetching, fetched, banner, awaited, hash, applied>>

Upload ==
    /\ released \notin assets
    /\ assets' = assets \union {released}
    /\ UNCHANGED <<phone, released, pending, ready, fetching, fetched, banner, awaited, hash, applied>>

\* findReleaseAssetByFilename: the newest release that has the feed file.
FeedVersion == CHOOSE v \in assets : \A w \in assets : w <= v

\* The effect that shows a dismissed banner again unless this version is the dismissed one.
Reappears(b) ==
    IF b.stage = "dismissed" /\ b.info # b.dismissed THEN [b EXCEPT !.stage = "idle", !.dismissed = 0] ELSE b

\* setInfo
Shown(v, digest) == Reappears([banner EXCEPT !.info = v, !.digest = digest])

\* setStage by the approval that the banner on screen awaits.
UpdateSettled(stage) == IF awaited THEN Reappears([banner EXCEPT !.stage = stage]) ELSE banner

(***************************************************************************)
(* The desktop: checkForUpdates, and the listener of update-available.     *)
(* electron-updater (external) downloads one version at a time.            *)
(***************************************************************************)
CheckFeed ==
    /\ ~phone /\ FeedVersion > 1 /\ pending # FeedVersion
    /\ pending' = FeedVersion
    /\ ready' = FALSE
    /\ banner' = Shown(FeedVersion, TRUE)
    /\ UNCHANGED <<phone, released, assets, fetching, fetched, awaited, hash, applied>>

\* Fault: approving an update leaves the readiness of the last one.
MutUnready(r) == r

\* update:approve forgets what was downloaded before.
Unready(r) == FALSE

Approve ==
    /\ ~phone /\ banner.info # 0 /\ banner.stage \in {"idle", "error"}
    /\ pending # 0
    /\ banner' = [banner EXCEPT !.stage = "downloading"]
    /\ awaited' = TRUE
    /\ ready' = Unready(ready)
    /\ fetching' = IF fetching = 0 THEN pending ELSE fetching
    /\ UNCHANGED <<phone, released, assets, pending, fetched, hash, applied>>

\* update-downloaded, and downloadUpdate resolves.
Downloaded ==
    /\ ~phone /\ fetching # 0
    /\ fetched' = fetching /\ fetching' = 0
    /\ ready' = TRUE
    /\ banner' = UpdateSettled("ready")
    /\ awaited' = FALSE
    /\ UNCHANGED <<phone, released, assets, pending, hash, applied>>

\* An error, a wrong sha512, or the watchdog's cancellation of a silent download.
DownloadFails ==
    /\ fetching # 0
    /\ fetching' = 0
    /\ banner' = UpdateSettled("error")
    /\ awaited' = FALSE
    /\ UNCHANGED <<phone, released, assets, pending, ready, fetched, hash, applied>>

\* update:install; the application quits into the installer.
InstallUpdate ==
    /\ ~phone /\ banner.stage = "ready" /\ applied.version = 0
    /\ IF ready THEN applied' = [version |-> fetched, shown |-> banner.info, digest |-> TRUE] /\ UNCHANGED banner
                ELSE banner' = [banner EXCEPT !.stage = "error"] /\ UNCHANGED applied
    /\ UNCHANGED <<phone, released, assets, pending, ready, fetching, fetched, awaited, hash>>

Dismiss ==
    /\ banner.info # 0 /\ banner.stage # "dismissed"
    /\ banner' = [banner EXCEPT !.stage = "dismissed", !.dismissed = banner.info]
    /\ UNCHANGED <<phone, released, assets, pending, ready, fetching, fetched, awaited, hash, applied>>

\* The page is reloaded; on the desktop it asks main for the update at once.
Reload ==
    /\ banner # NoBanner
    /\ banner' = [NoBanner EXCEPT !.info = IF phone THEN 0 ELSE pending, !.digest = ~phone /\ pending # 0]
    /\ awaited' = FALSE
    /\ UNCHANGED <<phone, released, assets, pending, ready, fetching, fetched, hash, applied>>

-----------------------------------------------------------------------------
(***************************************************************************)
(* Android: GET /latest describes the latest release alone, and nothing is *)
(* offered until its APK is there; the hash may be missing.                *)
(***************************************************************************)
CheckLatest(digest) ==
    /\ phone /\ released > 1 /\ released \in assets
    /\ banner' = Shown(released, digest)
    /\ UNCHANGED <<phone, released, assets, pending, ready, fetching, fetched, awaited, hash, applied>>

ApproveApk ==
    /\ phone /\ banner.info # 0 /\ banner.stage \in {"idle", "error"} /\ fetching = 0
    /\ banner' = [banner EXCEPT !.stage = "downloading"]
    /\ awaited' = TRUE
    /\ fetching' = banner.info /\ hash' = banner.digest
    /\ UNCHANGED <<phone, released, assets, pending, ready, fetched, applied>>

\* The hash is compared when the server gave one.
Accepted(v, digest) == digest => v = fetching

(***************************************************************************)
(* The download ends: /download/android looks the latest release up once more.  A dismissal   *)
(* of the stage alone is undone by the effect on the version.              *)
(***************************************************************************)
ApkArrives ==
    /\ phone /\ fetching # 0
    /\ IF released \in assets /\ Accepted(released, hash)
       THEN /\ applied' = [version |-> released, shown |-> fetching, digest |-> hash]
            /\ fetched' = released
            /\ banner' = UpdateSettled("dismissed")
       ELSE /\ banner' = UpdateSettled("error")
            /\ UNCHANGED <<applied, fetched>>
    /\ fetching' = 0 /\ awaited' = FALSE
    /\ UNCHANGED <<phone, released, assets, pending, ready, hash>>

UpdateNext ==
    \/ Publish \/ Upload \/ CheckFeed \/ Approve \/ Downloaded \/ DownloadFails \/ InstallUpdate
    \/ Dismiss \/ Reload \/ ApproveApk \/ ApkArrives
    \/ \E digest \in BOOLEAN : CheckLatest(digest)

UpdateSpec == UpdateInit /\ [][UpdateNext]_updateVars

-----------------------------------------------------------------------------
(* The desktop never offers to install while an installer is still being    *)
(* downloaded, nor before one was, whatever is found, approved, dismissed   *)
(* or reloaded in between; and the APK that Android opens is the version    *)
(* its banner named, although the server looks the latest release up again  *)
(* for the download, provided it gave a hash (main.js, update:approve and   *)
(* update:install; mobileBridge.js, mobileUpdate.approve).                  *)
UpdateSafe ==
    /\ ready => fetching = 0 /\ fetched # 0
    /\ phone /\ applied.digest => applied.version = applied.shown

(* "v{info.version} downloaded." (UpdateBanner.jsx): the installer that     *)
(* "Install and Restart" starts is the version the banner names.            *)
InstallsShown == ~phone => applied.version = applied.shown

(* After the APK was handed to "Android's own install prompt" the banner    *)
(* is dismissed (UpdateBanner.jsx, approve).                                *)
HandsOver == [][phone /\ applied' # applied /\ awaited => banner'.stage = "dismissed"]_updateVars
=============================================================================
