------------------------------ MODULE AppMode ------------------------------
(***************************************************************************)
(* The background services of the desktop's main process: the mode         *)
(* ('auto' or 'offline', desktop/appMode.js), the connectivity monitor     *)
(* (desktop/connectivity.js) and the timers main.js starts and stops.      *)
(* setInterval returns a handle and nothing else knows the interval, so a  *)
(* number of intervals that run is kept beside whether the handle names    *)
(* one of them.                                                            *)
(***************************************************************************)
EXTENDS Naturals

CONSTANTS
    Reconciles,     \* invocations of reconcileAuto
    MaxTimers,      \* bound: intervals of one kind
    MaxActive       \* bound: sync runs at a time

ASSUME ModeAssumption == MaxTimers \in Nat /\ MaxActive \in Nat

VARIABLES
    mac,                \* macOS, where the process outlives its windows
    mode, preference,   \* main's mode and the renderer's setting
    win,                \* the window: "loading", "open" or "closed"
    booting,            \* main still awaits createWindow
    running,            \* backgroundServicesRunning
    polls, pollHeld,    \* connectivity polls that run; whether `timer` names one
    timers, timerHeld,  \* sync (and update) intervals that run; whether syncTimer names one
    reconcile,          \* what each reconcileAuto awaits
    conn, previous,     \* state and previousState of the monitor
    session,            \* "none", "valid" or "expired"
    active,             \* sync runs that something other than a reconcileAuto started
    downSeen,           \* history: a check has failed since the last reconnection
    looped              \* history: a reconnection came without one

modeVars == <<mac, mode, preference, win, booting, running, polls, pollHeld, timers, timerHeld,
              reconcile, conn, previous, session, active, downSeen, looped>>
pollVars == <<polls, pollHeld>>
timerVars == <<timers, timerHeld>>
connVars == <<conn, previous, active, downSeen, looped>>
userVars == <<mac, preference, win, booting, session>>

Modes == {"auto", "offline"}
States == {"local", "cloud", "sync"}

ModeTypeOK ==
    /\ mac \in BOOLEAN /\ mode \in Modes /\ preference \in Modes
    /\ win \in {"loading", "open", "closed"}
    /\ booting \in BOOLEAN /\ running \in BOOLEAN /\ downSeen \in BOOLEAN /\ looped \in BOOLEAN
    /\ polls \in 0..MaxTimers /\ pollHeld \in BOOLEAN
    /\ timers \in 0..MaxTimers /\ timerHeld \in BOOLEAN
    /\ reconcile \in [Reconciles -> {"idle", "check", "sync"}]
    /\ conn \in States /\ previous \in States
    /\ session \in {"none", "valid", "expired"}
    /\ active \in 0..MaxActive

ModeInit ==
    /\ mac \in BOOLEAN /\ mode \in Modes /\ preference \in Modes
    /\ win = "loading" /\ booting = TRUE /\ running = FALSE
    /\ polls = 0 /\ pollHeld = FALSE /\ timers = 0 /\ timerHeld = FALSE
    /\ reconcile = [r \in Reconciles |-> "idle"]
    /\ conn = "local" /\ previous = "local"
    /\ session \in {"none", "valid", "expired"}
    /\ active = 0 /\ downSeen = TRUE /\ looped = FALSE

-----------------------------------------------------------------------------
\* connectivity.start: a second start loses the handle of the first interval.
StartPolling == polls < MaxTimers /\ polls' = polls + 1 /\ pollHeld' = TRUE

\* startTimers, through the wrapper that flags the services as running.
StartTimers == timers < MaxTimers /\ timers' = timers + 1 /\ timerHeld' = TRUE /\ running' = TRUE

\* pauseBackgroundServices: what the handles still name is stopped.
PauseServices ==
    /\ polls' = (IF pollHeld THEN polls - 1 ELSE polls) /\ pollHeld' = FALSE
    /\ timers' = (IF timerHeld THEN timers - 1 ELSE timers) /\ timerHeld' = FALSE
    /\ running' = FALSE

\* performSync gets as far as runSync.
SyncStarts == mode = "auto" /\ session = "valid"

\* onReconnect: the state setState leaves behind is 'local'.
Reconnects(s) == s = "cloud" /\ conn = "local"

\* setState
SetState(s) ==
    /\ conn' = s
    /\ previous' = IF s = conn THEN previous ELSE conn

Witness(s) ==
    /\ looped' = (looped \/ (Reconnects(s) /\ ~downSeen))
    /\ downSeen' = (s = "local" \/ (downSeen /\ ~Reconnects(s)))

(***************************************************************************)
(* The end of a checkOnce that found s; ended is 1 if a sync run that was  *)
(* counted ends with it.  A reconnection starts a run of its own, whose    *)
(* markSyncing comes at once.                                              *)
(***************************************************************************)
Checked(s, ended) ==
    /\ s \in {"local", "cloud"}
    /\ IF Reconnects(s) /\ SyncStarts
       THEN /\ active - ended < MaxActive
            /\ active' = active - ended + 1
            /\ conn' = "sync" /\ previous' = s
       ELSE /\ active' = active - ended
            /\ SetState(s)
    /\ Witness(s)

\* performSync as the timer, the menu or a local write starts it.
StartSync ==
    /\ SyncStarts /\ active < MaxActive
    /\ win = "open" \/ timers > 0
    /\ active' = active + 1
    /\ SetState("sync")
    /\ UNCHANGED <<mode, running, reconcile, downSeen, looped, userVars, pollVars, timerVars>>

\* A run ends with a check, or runSync throws and leaves the state at 'sync'.
EndSync ==
    /\ active > 0
    /\ \/ \E s \in {"local", "cloud"} : Checked(s, 1)
       \/ active' = active - 1 /\ UNCHANGED <<conn, previous, downSeen, looped>>
    /\ UNCHANGED <<mode, running, reconcile, userVars, pollVars, timerVars>>

\* The periodic check of an interval that runs.
Poll ==
    /\ polls > 0
    /\ \E s \in {"local", "cloud"} : Checked(s, 0)
    /\ UNCHANGED <<mode, running, reconcile, userVars, pollVars, timerVars>>

-----------------------------------------------------------------------------
\* Fault: services flagged as running are taken to be polling already.
MutReconcileStarts(r) ==
    /\ reconcile[r] = "idle"
    /\ reconcile' = [reconcile EXCEPT ![r] = "check"]
    /\ IF running THEN UNCHANGED pollVars ELSE StartPolling

\* reconcileAuto up to its first await.
ReconcileStarts(r) ==
    /\ reconcile[r] = "idle"
    /\ reconcile' = [reconcile EXCEPT ![r] = "check"]
    /\ StartPolling

\* appMode.set: the way back to 'auto' goes through reconcileAuto.
SetMode(m, r) ==
    /\ mode' = m
    /\ IF m = "offline"
       THEN PauseServices /\ UNCHANGED reconcile
       ELSE ReconcileStarts(r) /\ UNCHANGED <<running, timerVars>>

\* The renderer has loaded; App.jsx pushes its setting to main.
Mount(r) ==
    /\ win = "loading"
    /\ win' = "open"
    /\ SetMode(preference, r)
    /\ UNCHANGED <<mac, preference, booting, session, connVars>>

\* The user flips the setting.
Flip(m, r) ==
    /\ win = "open" /\ m # preference
    /\ preference' = m
    /\ SetMode(m, r)
    /\ UNCHANGED <<mac, win, booting, session, connVars>>

(***************************************************************************)
(* The check of a reconciliation is answered: with an expired session the  *)
(* user is prompted and the timers start, otherwise a sync run comes       *)
(* first.  The mode is not looked at again.                                *)
(***************************************************************************)
ReconcileChecked(r) ==
    /\ reconcile[r] = "check"
    /\ \E s \in {"local", "cloud"} :
          IF SyncStarts
          THEN /\ reconcile' = [reconcile EXCEPT ![r] = "sync"]
               /\ conn' = "sync" /\ previous' = s
               /\ Witness(s)
               /\ IF Reconnects(s) THEN active < MaxActive /\ active' = active + 1
                                   ELSE UNCHANGED active
               /\ UNCHANGED <<running, timerVars>>
          ELSE /\ reconcile' = [reconcile EXCEPT ![r] = "idle"]
               /\ Checked(s, 0)
               /\ StartTimers
    /\ UNCHANGED <<mode, userVars, pollVars>>

\* Its sync run has ended, well or not.
ReconcileSynced(r) ==
    /\ reconcile[r] = "sync"
    /\ reconcile' = [reconcile EXCEPT ![r] = "idle"]
    /\ \/ \E s \in {"local", "cloud"} : Checked(s, 0)
       \/ UNCHANGED connVars
    /\ StartTimers
    /\ UNCHANGED <<mode, userVars, pollVars>>

-----------------------------------------------------------------------------
\* startBackgroundServices: not in offline mode.  Its performSync marks the state.
StartServices ==
    IF mode = "offline"
    THEN UNCHANGED <<running, connVars, pollVars, timerVars>>
    ELSE /\ StartPolling /\ StartTimers
         /\ IF SyncStarts
            THEN active < MaxActive /\ active' = active + 1 /\ SetState("sync") /\ UNCHANGED <<downSeen, looped>>
            ELSE UNCHANGED connVars

\* createWindow has returned.
Boot ==
    /\ booting
    /\ booting' = FALSE
    /\ StartServices
    /\ UNCHANGED <<mac, mode, preference, win, session, reconcile>>

\* macOS: the last window is closed, and the dock icon opens another.
CloseWindows ==
    /\ mac /\ win # "closed" /\ ~booting
    /\ win' = "closed"
    /\ PauseServices
    /\ UNCHANGED <<mac, mode, preference, booting, session, reconcile, connVars>>

Activate ==
    /\ win = "closed"
    /\ win' = "loading"
    /\ IF running THEN UNCHANGED <<running, connVars, pollVars, timerVars>> ELSE StartServices
    /\ UNCHANGED <<mac, mode, preference, booting, session, reconcile>>

\* The user logs in or out, or the stored token expires.
SessionChanges(s) ==
    /\ session # s
    /\ session' = s
    /\ UNCHANGED <<mac, mode, preference, win, booting, running, reconcile, connVars, pollVars, timerVars>>

ModeNext ==
    \/ StartSync \/ EndSync \/ Poll
    \/ \E r \in Reconciles : Mount(r) \/ ReconcileChecked(r) \/ ReconcileSynced(r)
    \/ \E m \in Modes, r \in Reconciles : Flip(m, r)
    \/ Boot \/ CloseWindows \/ Activate
    \/ \E s \in {"none", "valid", "expired"} : SessionChanges(s)

ModeSpec == ModeInit /\ [][ModeNext]_modeVars

-----------------------------------------------------------------------------
ModeSettled == ~booting /\ win = "open" /\ \A r \in Reconciles : reconcile[r] = "idle"

(* However the mode was switched back and forth while reconciliations were  *)
(* under way, and windows were closed and opened again on macOS: in 'auto', *)
(* in an open window, once they have ended, the connection is polled and    *)
(* the sync timer runs (appMode.js, reconcileAuto).                         *)
AutoServed == ModeSettled /\ mode = "auto" => polls > 0 /\ timers > 0

(* A run started by a reconnection follows a check that failed since the    *)
(* previous one: the end of a sync run does not start the next              *)
(* (connectivity.js:54-62 tells of the loop this once was).                 *)
NoReconnectLoop == ~looped

(* Offline mode "stops the timers/polling" (appMode.js:99-101).             *)
OfflineQuiet == ModeSettled /\ mode = "offline" => polls = 0 /\ timers = 0

(* One interval of each kind, as main.js:872-878 has it ("doubling up       *)
(* connectivity's poll interval and the sync/update timers").               *)
OneTimerEach == polls <= 1 /\ timers <= 1
=============================================================================
