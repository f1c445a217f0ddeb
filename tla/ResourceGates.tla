--------------------------- MODULE ResourceGates ----------------------------
(***************************************************************************)
(* The two counters that bound the work of the server process: the slots   *)
(* of the Python workers (server/src/services/quantumProcess.js) and the   *)
(* gate of the upload route (server/src/middleware/uploadConcurrency.js).  *)
(***************************************************************************)
EXTENDS Naturals, FiniteSets, Sequences, SequencesExt

CONSTANTS
    Computations,           \* calls of runQuantumWorker
    MaxWorkers,     \* MAX_CONCURRENT_QUANTUM_WORKERS
    Uploads,        \* requests to POST /analysis/upload
    MaxUploads      \* MAX_CONCURRENT_UPLOADS

ASSUME GatesAssumption == MaxWorkers \in Nat \ {0} /\ MaxUploads \in Nat \ {0}

VARIABLES
    computation,            \* of each call: how far it is
    proc,           \* of each call: its process
    activeWorkers, waitQueue,
    upload,         \* of each request: how far it is, and whether finish came
    activeUploads

gatesVars == <<computation, proc, activeWorkers, waitQueue, upload, activeUploads>>

GatesTypeOK ==
    /\ computation \in [Computations -> {"new", "waiting", "granted", "running", "settled", "done"}]
    /\ proc \in [Computations -> {"none", "alive", "killed", "exited"}]
    /\ \A j \in Computations : computation[j] = "running" => proc[j] \in {"alive", "killed"}
    /\ activeWorkers \in 0..MaxWorkers
    /\ waitQueue \in Seq(Computations)
    /\ upload \in [Uploads -> {"new", "refused", "buffered", "finished", "closed"}]
    /\ activeUploads \in 0..MaxUploads

GatesInit ==
    /\ computation = [j \in Computations |-> "new"] /\ proc = [j \in Computations |-> "none"]
    /\ activeWorkers = 0 /\ waitQueue = <<>>
    /\ upload = [u \in Uploads |-> "new"] /\ activeUploads = 0

Holders == {j \in Computations : computation[j] \in {"granted", "running", "settled"}}

-----------------------------------------------------------------------------
uploadSide == <<upload, activeUploads>>
workerSide == <<computation, proc, activeWorkers, waitQueue>>

\* acquireSlot.
Acquire(j) ==
    /\ computation[j] = "new"
    /\ IF activeWorkers < MaxWorkers
       THEN /\ activeWorkers' = activeWorkers + 1
            /\ computation' = [computation EXCEPT ![j] = "granted"]
            /\ UNCHANGED waitQueue
       ELSE /\ waitQueue' = Append(waitQueue, j)
            /\ computation' = [computation EXCEPT ![j] = "waiting"]
            /\ UNCHANGED activeWorkers
    /\ UNCHANGED <<proc, uploadSide>>

\* The subprocess is spawned, or cannot be.
Spawn(j, started) ==
    /\ computation[j] = "granted"
    /\ computation' = [computation EXCEPT ![j] = IF started THEN "running" ELSE "settled"]
    /\ proc' = [proc EXCEPT ![j] = IF started THEN "alive" ELSE "none"]
    /\ UNCHANGED <<activeWorkers, waitQueue, uploadSide>>

\* The timer: SIGKILL is sent and the call ends without waiting for the process.
TimesOut(j) ==
    /\ computation[j] = "running"
    /\ computation' = [computation EXCEPT ![j] = "settled"]
    /\ proc' = [proc EXCEPT ![j] = "killed"]
    /\ UNCHANGED <<activeWorkers, waitQueue, uploadSide>>

\* Too much output: the process is killed, and the call ends when it closes.
Overflows(j) ==
    /\ computation[j] = "running" /\ proc[j] = "alive"
    /\ proc' = [proc EXCEPT ![j] = "killed"]
    /\ UNCHANGED <<computation, activeWorkers, waitQueue, uploadSide>>

\* The close event of the process, with a result, a failure or after a kill.
ProcessCloses(j) ==
    /\ proc[j] \in {"alive", "killed"}
    /\ proc' = [proc EXCEPT ![j] = "exited"]
    /\ computation' = IF computation[j] = "running" THEN [computation EXCEPT ![j] = "settled"] ELSE computation
    /\ UNCHANGED <<activeWorkers, waitQueue, uploadSide>>

\* Fault: the slot is handed over and also counted free.
MutFreed == IF activeWorkers > 0 THEN activeWorkers - 1 ELSE 0

\* The count after a slot was given back: handed to the first in line, it does not change.
Freed == IF waitQueue # <<>> THEN activeWorkers ELSE IF activeWorkers > 0 THEN activeWorkers - 1 ELSE 0

\* releaseSlot, in the finally block.
Release(j) ==
    /\ computation[j] = "settled"
    /\ activeWorkers' = Freed
    /\ IF waitQueue # <<>>
       THEN /\ computation' = [computation EXCEPT ![j] = "done", ![Head(waitQueue)] = "granted"]
            /\ waitQueue' = Tail(waitQueue)
       ELSE /\ computation' = [computation EXCEPT ![j] = "done"]
            /\ UNCHANGED waitQueue
    /\ UNCHANGED <<proc, uploadSide>>

-----------------------------------------------------------------------------
\* uploadConcurrencyGate.
EnterGate(u) ==
    /\ upload[u] = "new"
    /\ IF activeUploads >= MaxUploads
       THEN upload' = [upload EXCEPT ![u] = "refused"] /\ UNCHANGED activeUploads
       ELSE upload' = [upload EXCEPT ![u] = "buffered"] /\ activeUploads' = activeUploads + 1
    /\ UNCHANGED workerSide

Given == IF activeUploads > 0 THEN activeUploads - 1 ELSE 0

\* The response is sent: finish releases the slot.
Finish(u) ==
    /\ upload[u] = "buffered"
    /\ upload' = [upload EXCEPT ![u] = "finished"]
    /\ activeUploads' = Given
    /\ UNCHANGED workerSide

\* The connection closes, after finish or instead of it: close releases a slot.
Close(u) ==
    /\ upload[u] \in {"buffered", "finished"}
    /\ upload' = [upload EXCEPT ![u] = "closed"]
    /\ activeUploads' = Given
    /\ UNCHANGED workerSide

Settle(j) == TimesOut(j) \/ ProcessCloses(j)

GatesNext ==
    \/ \E j \in Computations : Acquire(j) \/ Overflows(j) \/ Settle(j) \/ Release(j)
                       \/ \E b \in BOOLEAN : Spawn(j, b)
    \/ \E u \in Uploads : EnterGate(u) \/ Finish(u) \/ Close(u)

GatesSpec == GatesInit /\ [][GatesNext]_gatesVars

(* The timer of a call fires if its process does not close first.           *)
GatesFairness ==
    \A j \in Computations : /\ WF_gatesVars(\E b \in BOOLEAN : Spawn(j, b))
                    /\ WF_gatesVars(Settle(j)) /\ WF_gatesVars(Release(j))

GatesFairSpec == GatesSpec /\ GatesFairness

-----------------------------------------------------------------------------
(* The counter is the number of calls that hold a slot, and nobody waits    *)
(* while a slot is free: "Calls beyond the cap queue in arrival order and   *)
(* run as slots free up" (quantumProcess.js:56-59).                         *)
PoolExact ==
    /\ activeWorkers = Cardinality(Holders)
    /\ ToSet(waitQueue) = {j \in Computations : computation[j] = "waiting"}
    /\ waitQueue # <<>> => activeWorkers = MaxWorkers

(* A call that waits is served, whatever processes hang, fail or flood.     *)
PoolServes == \A j \in Computations : computation[j] = "waiting" ~> computation[j] = "done"

(* "Caps how many Python/Qiskit subprocesses [...] can run at once across   *)
(* the whole process" (quantumProcess.js:56).                               *)
ProcessesBounded == Cardinality({j \in Computations : proc[j] \in {"alive", "killed"}}) <= MaxWorkers

(* "Bounds how many of this route's uploads are held in memory at once"     *)
(* (uploadConcurrency.js:2).                                                *)
UploadsBounded == Cardinality({u \in Uploads : upload[u] = "buffered"}) <= MaxUploads
=============================================================================
