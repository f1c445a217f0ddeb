----------------------------- MODULE MCRetries -----------------------------
(***************************************************************************)
(* The two durable queues whose entries are retried by workers that        *)
(* overlap: the scan jobs of the BCI and the edits of the mobile app.      *)
(* They are checked together as a disjoint union: side says which queue a  *)
(* behaviour is about, and the state of the other stays as it was.         *)
(***************************************************************************)
EXTENDS ScanJobs, MobileSync, TLC

CONSTANT Sides      \* the queues looked at
VARIABLE side

RetriesInit == side \in Sides /\ Init /\ MobileInit

RetriesNext ==
    /\ UNCHANGED side
    /\ \/ side = "scans" /\ Next /\ UNCHANGED mobileVars
       \/ side = "mobile" /\ MobileNext /\ UNCHANGED vars

RetriesVars == <<side, vars, mobileVars>>
RetriesSpec == RetriesInit /\ [][RetriesNext]_RetriesVars

-----------------------------------------------------------------------------
\* Jobs are interchangeable, and so are worker loops and sweeps.
Symmetry == Permutations(Jobs) \cup Permutations(Workers) \cup Permutations(Sweepers)

\* Both queues keep their types (jobQueue.js, mobile/sync/queue.js).
RetriesTypeOK == TypeOK /\ MobileTypeOK

=============================================================================
