--------------------------- MODULE MCDesktopSync ---------------------------
(***************************************************************************)
(* DesktopSync on small instances.                                         *)
(***************************************************************************)
EXTENDS DesktopSync, TLC

Symmetry == Permutations(Ops) \cup Permutations(Devices) \cup Permutations(Runs)

(***************************************************************************)
(* Symmetry is unsound with liveness.  There operations and records are    *)
(* 1, 2, ... and take their identifiers in the order in which they are     *)
(* first queued: which random identifier one has makes no difference.      *)
(***************************************************************************)
InTurn ==
    /\ \A o, p \in Ops : p < o /\ queue[o] # NoItem => queue[p] # NoItem
    /\ \A o \in Ops, r \in Records : queue[o] # NoItem /\ r < queue[o].rec =>
          \E p \in Ops : p < o /\ queue[p] # NoItem /\ queue[p].rec = r

DrainNext == Next /\ InTurn'
DrainSpec ==
    /\ Init /\ [][DrainNext]_vars
    /\ \A d \in Devices, s \in Runs : WF_vars(Push(d, s)) /\ WF_vars(Pull(d, s))
    /\ \A o \in Ops : WF_vars(BackoffElapses(o))
=============================================================================
