---------------------------- MODULE RetryProofs ----------------------------
(***************************************************************************)
(* The two durable queues whose entries are retried: proofs about the scan *)
(* jobs of the BCI and about the edits of the phone, and that both hold in *)
(* the union they are checked in.                                          *)
(***************************************************************************)
EXTENDS MCRetries, FiniteSetTheorems, TLAPS

-----------------------------------------------------------------------------
(***************************************************************************)
(* What holds of the scan queue for any number of jobs, workers, sweeps    *)
(* and attempts: the types, that no attempt is run twice, and the bound on *)
(* the attempts of a job.                                                  *)
(***************************************************************************)
(***************************************************************************)
(* The inductive invariant.  The attempts a job may still get are what its *)
(* place in the queue and the decisions to requeue it that have been read  *)
(* and not written add up to; once the attempts are used up no decision    *)
(* joins them.                                                             *)
(***************************************************************************)

\* The sweeps and the failing workers about to put j back into the queue.
Sweeping(j) == {s \in Sweepers : [job |-> j, next |-> "QUEUED"] \in sweep[s]}
Failing(j) ==
    {w \in Workers : /\ worker[w].phase = "failing" /\ worker[w].job = j
                     /\ worker[w].next = "QUEUED"}
InQueue(j) == IF job[j].status = "QUEUED" THEN 1 ELSE 0
Potential(j) ==
    job[j].attempts + InQueue(j) + Cardinality(Sweeping(j)) + Cardinality(Failing(j))
Limit == MaxAttempts + Cardinality(Sweepers) + Cardinality(Workers)

Limited == \A j \in Jobs : job[j].attempts >= MaxAttempts => Potential(j) <= Limit
Unstarted == \A j \in Jobs : job[j].status = "none" => job[j].attempts = 0

\* A worker's attempt is one its job has had.
AttemptsHad ==
    \A w \in Workers : worker[w] # Idle => worker[w].attempt <= job[worker[w].job].attempts

\* A decision that is to be written makes no job a new one.
Decided ==
    /\ \A w \in Workers : worker[w].phase = "failing" => worker[w].next # "none"
    /\ \A s \in Sweepers : \A decision \in sweep[s] : decision.next # "none"

IInv ==
    /\ TypeOK
    /\ Unstarted
    /\ Decided
    /\ AttemptsHad
    /\ AttemptsExclusive
    /\ Limited

(***************************************************************************)
(* Counting.                                                               *)
(***************************************************************************)

\* The counts of the potential are natural numbers, at most all there are.
LEMMA Counts ==
    ASSUME NEW Z \in SUBSET Sweepers, NEW W \in SUBSET Workers
    PROVE  /\ Cardinality(Z) \in Nat /\ Cardinality(W) \in Nat
           /\ Cardinality(Sweepers) \in Nat /\ Cardinality(Workers) \in Nat
           /\ Cardinality(Z) <= Cardinality(Sweepers)
           /\ Cardinality(W) <= Cardinality(Workers)
  BY QueueAssumption, FS_Subset, FS_CardinalityType

\* Fewer sweeps, or fewer workers, count for no more.
LEMMA Fewer ==
    ASSUME NEW Z \in SUBSET Sweepers, NEW T \in SUBSET Z
    PROVE  Cardinality(T) <= Cardinality(Z)
  BY QueueAssumption, FS_Subset

\* The same of workers.
LEMMA FewerWorkers ==
    ASSUME NEW Z \in SUBSET Workers, NEW T \in SUBSET Z
    PROVE  Cardinality(T) <= Cardinality(Z)
  BY QueueAssumption, FS_Subset

\* Without one of its members a set counts for one less.
LEMMA OneLess ==
    ASSUME NEW Z, IsFiniteSet(Z), NEW x \in Z, NEW T \in SUBSET (Z \ {x})
    PROVE  Cardinality(T) + 1 <= Cardinality(Z)
  <1>1. Cardinality(Z \ {x}) = Cardinality(Z) - 1
    BY FS_RemoveElement
  <1>2. IsFiniteSet(Z \ {x})
    BY FS_RemoveElement
  <1>3. Cardinality(T) <= Cardinality(Z \ {x}) /\ Cardinality(T) \in Nat
    BY <1>2, FS_Subset, FS_CardinalityType
  <1>4. Cardinality(Z) \in Nat
    BY FS_CardinalityType
  <1> QED BY <1>1, <1>3, <1>4

\* The bound of j survives a step that neither starts j nor adds to what may
\* put it back into the queue.
LEMMA Shrinks ==
    ASSUME TypeOK, Limited, NEW j \in Jobs,
           job'[j].attempts = job[j].attempts,
           InQueue(j)' <= InQueue(j),
           Sweeping(j)' \subseteq Sweeping(j),
           Failing(j)' \subseteq Failing(j)
    PROVE  job'[j].attempts >= MaxAttempts => Potential(j)' <= Limit
  <1> SUFFICES ASSUME job[j].attempts >= MaxAttempts
               PROVE  Potential(j)' <= Limit
    OBVIOUS
  <1>1. Potential(j) <= Limit
    BY DEF Limited
  <1>2. Sweeping(j) \in SUBSET Sweepers /\ Failing(j) \in SUBSET Workers
    BY DEF Sweeping, Failing
  <1>3. /\ Cardinality(Sweeping(j)') <= Cardinality(Sweeping(j))
        /\ Cardinality(Failing(j)') <= Cardinality(Failing(j))
    BY <1>2, Fewer, FewerWorkers
  <1>4. Sweeping(j)' \in SUBSET Sweepers /\ Failing(j)' \in SUBSET Workers
    BY <1>2
  <1>5. /\ Cardinality(Sweeping(j)) \in Nat /\ Cardinality(Sweeping(j)') \in Nat
        /\ Cardinality(Failing(j)) \in Nat /\ Cardinality(Failing(j)') \in Nat
        /\ Limit \in Nat
    BY <1>2, <1>4, Counts, QueueAssumption DEF Limit
  <1>6. job[j].attempts \in Nat /\ InQueue(j) \in Nat /\ InQueue(j)' \in Nat
    BY DEF TypeOK, Job, InQueue
  <1>7. /\ Potential(j)  = job[j].attempts + InQueue(j) + Cardinality(Sweeping(j))
                             + Cardinality(Failing(j))
        /\ Potential(j)' = job'[j].attempts + InQueue(j)' + Cardinality(Sweeping(j)')
                             + Cardinality(Failing(j)')
    BY DEF Potential
  <1> QED BY <1>1, <1>3, <1>5, <1>6, <1>7

\* The bound of j survives a step that writes one decision to put it back
\* into the queue: the place in the queue counts for the decision that is gone.
LEMMA Trades ==
    ASSUME TypeOK, Limited, NEW j \in Jobs, job[j].attempts >= MaxAttempts,
           job'[j].attempts = job[j].attempts,
           \/ /\ Failing(j)' = Failing(j)
              /\ \E s \in Sweeping(j) : Sweeping(j)' \subseteq Sweeping(j) \ {s}
           \/ /\ Sweeping(j)' = Sweeping(j)
              /\ \E w \in Failing(j) : Failing(j)' \subseteq Failing(j) \ {w}
    PROVE  Potential(j)' <= Limit
  <1> DEFINE Z == Cardinality(Sweeping(j))
             F == Cardinality(Failing(j))
             SS == Cardinality(Sweeping(j)')
             FF == Cardinality(Failing(j)')
  <1>1. Sweeping(j) \in SUBSET Sweepers /\ Failing(j) \in SUBSET Workers
    BY DEF Sweeping, Failing
  <1>2. IsFiniteSet(Sweeping(j)) /\ IsFiniteSet(Failing(j))
    BY <1>1, QueueAssumption, FS_Subset
  <1>3. Sweeping(j)' \in SUBSET Sweepers /\ Failing(j)' \in SUBSET Workers
    BY <1>1
  <1>4. Z \in Nat /\ F \in Nat /\ SS \in Nat /\ FF \in Nat /\ Limit \in Nat
    BY <1>1, <1>3, Counts, QueueAssumption DEF Limit
  <1>5. SS + FF + 1 <= Z + F
    <2>1. CASE /\ Failing(j)' = Failing(j)
               /\ \E s \in Sweeping(j) : Sweeping(j)' \subseteq Sweeping(j) \ {s}
      <3>1. SS + 1 <= Z
        BY <1>2, <2>1, OneLess
      <3>2. FF = F
        BY <2>1
      <3> QED BY <1>4, <3>1, <3>2
    <2>2. CASE /\ Sweeping(j)' = Sweeping(j)
               /\ \E w \in Failing(j) : Failing(j)' \subseteq Failing(j) \ {w}
      <3>1. FF + 1 <= F
        BY <1>2, <2>2, OneLess
      <3>2. SS = Z
        BY <2>2
      <3> QED BY <1>4, <3>1, <3>2
    <2> QED BY <2>1, <2>2
  <1>6. /\ job[j].attempts \in Nat
        /\ InQueue(j) \in 0 .. 1 /\ InQueue(j)' \in 0 .. 1
    BY DEF TypeOK, Job, InQueue
  <1>7. Potential(j) <= Limit
    BY DEF Limited
  <1>8. /\ Potential(j)  = job[j].attempts + InQueue(j) + Z + F
        /\ Potential(j)' = job[j].attempts + InQueue(j)' + SS + FF
    BY DEF Potential
  <1> HIDE DEF Z, F, SS, FF
  <1> QED BY <1>4, <1>5, <1>6, <1>7, <1>8

\* An update of the status keeps the table's type and touches nothing else.
LEMMA StatusLemma ==
    ASSUME job \in [Jobs -> Job], NEW j \in Jobs, NEW st \in Statuses, SetStatus(j, st)
    PROVE  /\ job' \in [Jobs -> Job]
           /\ job'[j].status = st
           /\ \A k \in Jobs \ {j} : job'[k] = job[k]
           /\ \A k \in Jobs : job'[k].attempts = job[k].attempts
  BY DEF SetStatus, Job

(***************************************************************************)
(* The steps of the API.                                                   *)
(***************************************************************************)

\* The invariant holds of an empty queue.
LEMMA InitIInv == Init => IInv
  <1> SUFFICES ASSUME Init PROVE IInv
    OBVIOUS
  <1> USE DEF Init
  <1>1. TypeOK
    BY QueueAssumption DEF TypeOK, Job, Statuses, Terminal, Ended, Idle
  <1>2. Unstarted /\ Decided /\ AttemptsHad /\ AttemptsExclusive
    BY DEF Unstarted, Decided, Idle, AttemptsHad, AttemptsExclusive
  <1>3. Limited
    BY QueueAssumption DEF Limited
  <1> QED BY <1>1, <1>2, <1>3 DEF IInv

\* A new job has had no attempt, so its bound is not in question.
LEMMA EnqueueStep ==
    ASSUME IInv, NEW j \in Jobs, EnqueueScan(j)
    PROVE  IInv'
  <1> DEFINE n == Cardinality({k \in Jobs : job[k].status # "none"}) + 1
  <1>1. n \in Nat
    BY QueueAssumption, FS_Subset, FS_CardinalityType
  <1>2. /\ job' = [job EXCEPT ![j] = [job[j] EXCEPT !.status = "QUEUED", !.created = n]]
        /\ job[j].status = "none"
        /\ UNCHANGED <<worker, sweep, snapshots, crashes>>
    BY DEF EnqueueScan, IInv, TypeOK, Job
  <1> HIDE DEF n
  <1> USE DEF IInv
  <1>3. /\ job' \in [Jobs -> Job]
        /\ job'[j].status = "QUEUED"
        /\ \A k \in Jobs \ {j} : job'[k] = job[k]
        /\ \A k \in Jobs : job'[k].attempts = job[k].attempts
    BY <1>1, <1>2 DEF TypeOK, Job, Statuses
  <1>4. TypeOK'
    BY <1>2, <1>3 DEF TypeOK
  <1>5. Unstarted' /\ Decided' /\ AttemptsHad' /\ AttemptsExclusive'
    BY <1>2, <1>3 DEF TypeOK, Unstarted, Decided, AttemptsHad, AttemptsExclusive, Busy
  <1>6. ASSUME NEW k \in Jobs
        PROVE  job'[k].attempts >= MaxAttempts => Potential(k)' <= Limit
    <2>1. CASE k = j
      <3>1. job'[k].attempts = 0
        BY <1>2, <1>3, <2>1 DEF Unstarted
      <3> QED BY <3>1, QueueAssumption
    <2>2. CASE k # j
      <3>1. InQueue(k)' = InQueue(k) /\ InQueue(k) \in Nat
        BY <1>3, <2>2 DEF InQueue
      <3>2. Sweeping(k)' = Sweeping(k) /\ Failing(k)' = Failing(k)
        BY <1>2 DEF Sweeping, Failing
      <3>3. InQueue(k)' <= InQueue(k)
        BY <3>1
      <3> QED BY <1>3, <3>2, <3>3, Shrinks
    <2> QED BY <2>1, <2>2
  <1> QED BY <1>4, <1>5, <1>6 DEF Limited

\* Cancelling, and the passing of a timeout, take a job out of the queue at
\* most.
LEMMA CancelStep ==
    ASSUME IInv, NEW j \in Jobs, CancelJob(j) \/ TimeoutPasses(j)
    PROVE  IInv'
  <1> USE DEF IInv, CancelJob, TimeoutPasses, SetStatus
  <1>1. TypeOK'
    BY DEF TypeOK, Job, Statuses, Terminal, Ended
  <1>2. \A k \in Jobs : job'[k].attempts = job[k].attempts
    BY DEF TypeOK, Job
  <1>3. Unstarted' /\ Decided' /\ AttemptsHad' /\ AttemptsExclusive'
    BY <1>2 DEF TypeOK, Unstarted, Decided, AttemptsHad, AttemptsExclusive, Busy, Job
  <1>4. ASSUME NEW k \in Jobs
        PROVE  job'[k].attempts >= MaxAttempts => Potential(k)' <= Limit
    <2>1. InQueue(k)' <= InQueue(k)
      BY DEF TypeOK, InQueue, Job
    <2>2. Sweeping(k)' = Sweeping(k) /\ Failing(k)' = Failing(k)
      BY DEF Sweeping, Failing
    <2> QED BY <1>2, <2>1, <2>2, Shrinks
  <1> QED BY <1>1, <1>3, <1>4 DEF Limited

(***************************************************************************)
(* The steps of a worker.                                                  *)
(***************************************************************************)

\* A claim turns a place in the queue into an attempt.  The last attempt the
\* job is allowed finds no more decisions than there are sweeps and workers.
LEMMA ClaimStep ==
    ASSUME IInv, NEW w \in Workers, NEW j \in Jobs, ClaimNextJob(w, j)
    PROVE  IInv'
  <1> USE DEF IInv, ClaimNextJob
  <1>1. TypeOK'
    BY DEF TypeOK, Job, Busy, Statuses, Terminal, Ended
  <1>2. /\ job'[j].attempts = job[j].attempts + 1
        /\ \A k \in Jobs \ {j} : job'[k] = job[k]
        /\ worker'[w].attempt = job[j].attempts + 1 /\ worker'[w].job = j
        /\ \A v \in Workers \ {w} : worker'[v] = worker[v]
    BY DEF TypeOK, Job
  <1>3. /\ \A k \in Jobs : job[k].attempts \in Nat
        /\ \A v \in Workers : worker[v] # Idle => worker[v].job \in Jobs /\ worker[v].attempt \in Nat
    BY DEF TypeOK, Job, Busy
  <1>4. Unstarted' /\ Decided'
    BY DEF TypeOK, Unstarted, Decided, Job
  <1> HIDE DEF ClaimNextJob
  <1>5. AttemptsHad'
    <2>1. ASSUME NEW v \in Workers, worker'[v] # Idle
          PROVE  worker'[v].attempt <= job'[worker'[v].job].attempts
      <3>1. CASE v = w
        BY <1>2, <1>3, <3>1
      <3>2. CASE v # w
        BY <1>2, <1>3, <2>1, <3>2 DEF AttemptsHad
      <3> QED BY <3>1, <3>2
    <2> QED BY <2>1 DEF AttemptsHad
  <1>6. AttemptsExclusive'
    BY <1>2, <1>3 DEF AttemptsHad, AttemptsExclusive
  <1>7. ASSUME NEW k \in Jobs
        PROVE  job'[k].attempts >= MaxAttempts => Potential(k)' <= Limit
    <2>1. Sweeping(k)' = Sweeping(k)
      BY DEF Sweeping, ClaimNextJob
    <2>2. Failing(k)' = Failing(k)
      BY DEF Failing, TypeOK, Idle, ClaimNextJob
    <2>3. CASE k # j
      <3>1. InQueue(k)' = InQueue(k) /\ InQueue(k) \in Nat
        BY <1>2, <2>3 DEF InQueue
      <3>2. InQueue(k)' <= InQueue(k)
        BY <3>1
      <3>3. job'[k].attempts = job[k].attempts
        BY <1>2, <2>3
      <3> QED BY <2>1, <2>2, <3>2, <3>3, Shrinks
    <2>4. CASE k = j
      <3>1. InQueue(k) = 1 /\ InQueue(k)' = 0
        BY <2>4 DEF InQueue, TypeOK, Job, ClaimNextJob
      <3>2. /\ Cardinality(Sweeping(k)) \in Nat /\ Cardinality(Failing(k)) \in Nat
            /\ Cardinality(Sweepers) \in Nat /\ Cardinality(Workers) \in Nat
            /\ Cardinality(Sweeping(k)) <= Cardinality(Sweepers)
            /\ Cardinality(Failing(k)) <= Cardinality(Workers)
        <4>1. Sweeping(k) \in SUBSET Sweepers /\ Failing(k) \in SUBSET Workers
          BY DEF Sweeping, Failing
        <4> QED BY <4>1, Counts
      <3>3. Potential(k)' = job[k].attempts + 1 + Cardinality(Sweeping(k))
                               + Cardinality(Failing(k))
        BY <1>2, <1>3, <2>1, <2>2, <2>4, <3>1, <3>2 DEF Potential
      <3>4. CASE job[k].attempts >= MaxAttempts
        <4>1. Potential(k) <= Limit
          BY <3>4 DEF Limited
        <4>2. Potential(k)' = Potential(k)
          BY <1>3, <3>1, <3>2, <3>3 DEF Potential
        <4> QED BY <4>1, <4>2
      <3>5. CASE ~(job[k].attempts >= MaxAttempts)
        BY <1>3, <3>2, <3>3, <3>5, QueueAssumption DEF Limit
      <3> QED BY <3>4, <3>5
    <2> QED BY <2>3, <2>4
  <1> QED BY <1>1, <1>4, <1>5, <1>6, <1>7 DEF Limited

\* Ending an attempt, and recording its snapshot, put nothing into the queue.
LEMMA EndStep ==
    ASSUME IInv, NEW w \in Workers,
           CompleteJob(w) \/ MarkNoCoverage(w) \/ RecordSnapshot(w)
    PROVE  IInv'
  <1> USE DEF IInv, CompleteJob, MarkNoCoverage, RecordSnapshot, SetStatus
  <1>0. worker[w] \in Busy /\ worker[w].job \in Jobs /\ worker[w].phase # "failing"
    BY DEF TypeOK, Idle, Busy
  <1>1. TypeOK'
    BY <1>0 DEF TypeOK, Job, Busy, Statuses, Terminal, Ended
  <1>2. \A k \in Jobs : job'[k].attempts = job[k].attempts
    BY <1>0 DEF TypeOK, Job
  <1>3. /\ worker'[w] = Idle \/ /\ worker'[w].job = worker[w].job
                                /\ worker'[w].attempt = worker[w].attempt
        /\ worker[w] # Idle
        /\ \A v \in Workers \ {w} : worker'[v] = worker[v]
    BY <1>0 DEF TypeOK, Busy, Idle
  <1>4. Unstarted' /\ Decided'
    BY <1>0, <1>2 DEF TypeOK, Unstarted, Decided, Job, Idle, Busy
  <1>5. AttemptsHad'
    <2>1. \A v \in Workers : worker[v] # Idle => worker[v].job \in Jobs
      BY DEF TypeOK, Busy
    <2> QED BY <1>2, <1>3, <2>1 DEF AttemptsHad
  <1>6. AttemptsExclusive'
    BY <1>3 DEF AttemptsExclusive
  <1>7. ASSUME NEW k \in Jobs
        PROVE  job'[k].attempts >= MaxAttempts => Potential(k)' <= Limit
    <2>1. InQueue(k)' <= InQueue(k)
      BY <1>0 DEF TypeOK, InQueue, Job
    <2>2. Sweeping(k)' = Sweeping(k)
      BY DEF Sweeping
    <2>3. Failing(k)' \subseteq Failing(k)
      <3>1. worker'[w].phase # "failing"
        BY <1>0 DEF TypeOK, Busy, Idle
      <3> QED BY <1>3, <3>1 DEF Failing
    <2> QED BY <1>2, <2>1, <2>2, <2>3, Shrinks
  <1> QED BY <1>1, <1>4, <1>5, <1>6, <1>7 DEF Limited

\* failJob decides for the queue only while attempts are left.
LEMMA FailStep ==
    ASSUME IInv, NEW w \in Workers, FailJob(w)
    PROVE  IInv'
  <1> USE DEF IInv, FailJob
  <1>0. worker[w] \in Busy /\ worker[w].job \in Jobs /\ worker[w] # Idle
    BY DEF TypeOK, Idle, Busy
  <1>1. TypeOK'
    BY <1>0 DEF TypeOK, Busy, Statuses, Terminal, Ended, RetryOr
  <1>2. /\ UNCHANGED <<job, sweep>> /\ worker'[w] # Idle
        /\ worker'[w].job = worker[w].job /\ worker'[w].attempt = worker[w].attempt
        /\ worker'[w].next = RetryOr(worker[w].job, "FAILED")
        /\ \A v \in Workers \ {w} : worker'[v] = worker[v]
    BY <1>0 DEF TypeOK, Busy, Idle
  <1> HIDE DEF FailJob
  <1>3. Unstarted' /\ Decided'
    BY <1>2 DEF Unstarted, Decided, RetryOr
  <1>4. AttemptsHad'
    BY <1>0, <1>2 DEF AttemptsHad
  <1>5. AttemptsExclusive'
    BY <1>0, <1>2 DEF AttemptsExclusive
  <1>6. ASSUME NEW k \in Jobs, job[k].attempts >= MaxAttempts
        PROVE  Potential(k)' <= Limit
    <2>1. InQueue(k)' = InQueue(k) /\ InQueue(k) \in Nat /\ Sweeping(k)' = Sweeping(k)
      BY <1>2 DEF InQueue, Sweeping
    <2>2. Failing(k)' \subseteq Failing(k)
      <3>1. ASSUME NEW v \in Failing(k)' PROVE v \in Failing(k)
        <4>1. CASE v = w
          BY <1>2, <1>6, <3>1, <4>1 DEF Failing, RetryOr
        <4>2. CASE v # w
          BY <1>2, <3>1, <4>2 DEF Failing
        <4> QED BY <4>1, <4>2
      <3> QED BY <3>1
    <2>3. job'[k].attempts = job[k].attempts /\ InQueue(k)' <= InQueue(k)
      BY <1>2, <2>1
    <2> QED BY <1>6, <2>1, <2>2, <2>3, Shrinks
  <1>7. Limited'
    BY <1>2, <1>6 DEF Limited
  <1> QED BY <1>1, <1>3, <1>4, <1>5, <1>7

\* Writing a decision to requeue a job trades the decision for a place in the
\* queue.
LEMMA WriteFailureStep ==
    ASSUME IInv, NEW w \in Workers, WriteFailure(w)
    PROVE  IInv'
  <1> DEFINE j == worker[w].job
             st == worker[w].next
  <1> USE DEF IInv
  <1>0. /\ j \in Jobs /\ st \in Statuses /\ worker[w] # Idle
        /\ worker[w].phase = "failing" /\ SetStatus(j, st)
        /\ worker' = [worker EXCEPT ![w] = Idle]
        /\ UNCHANGED <<sweep, snapshots, crashes>>
    BY DEF TypeOK, Idle, Busy, WriteFailure
  <1>1. /\ job' \in [Jobs -> Job] /\ job'[j].status = st
        /\ \A k \in Jobs \ {j} : job'[k] = job[k]
        /\ \A k \in Jobs : job'[k].attempts = job[k].attempts
    BY <1>0, StatusLemma DEF TypeOK
  <1>2. worker'[w] = Idle /\ \A v \in Workers \ {w} : worker'[v] = worker[v]
    BY <1>0 DEF TypeOK
  <1>3. TypeOK'
    BY <1>0, <1>1 DEF TypeOK
  <1>4. Unstarted'
    BY <1>0, <1>1 DEF Unstarted, Decided
  <1>5. Decided'
    BY <1>0, <1>2 DEF Decided, Idle
  <1>6. AttemptsHad'
    BY <1>1, <1>2 DEF AttemptsHad, TypeOK, Busy
  <1>7. AttemptsExclusive'
    BY <1>2 DEF AttemptsExclusive
  <1>8. ASSUME NEW k \in Jobs, job[k].attempts >= MaxAttempts
        PROVE  Potential(k)' <= Limit
    <2>1. Sweeping(k)' = Sweeping(k)
      BY <1>0 DEF Sweeping
    <2>2. Failing(k)' = Failing(k) \ {w}
      BY <1>0, <1>2 DEF Failing, Idle
    <2>3. CASE k = j /\ st = "QUEUED"
      <3>1. w \in Failing(k)
        BY <1>0, <2>3 DEF Failing
      <3> QED BY <1>1, <1>8, <2>1, <2>2, <2>3, <3>1, Trades DEF InQueue, Failing
    <2>4. CASE ~(k = j /\ st = "QUEUED")
      <3>1. InQueue(k)' <= InQueue(k)
        BY <1>1, <2>4 DEF InQueue
      <3> QED BY <1>1, <1>8, <2>1, <2>2, <3>1, Shrinks
    <2> QED BY <2>3, <2>4
  <1>9. Limited'
    BY <1>1, <1>8 DEF Limited
  <1> QED BY <1>3, <1>4, <1>5, <1>6, <1>7, <1>9

(***************************************************************************)
(* The steps of a sweep, and crashes.                                      *)
(***************************************************************************)

\* A sweep decides for the queue only while attempts are left.
LEMMA SweepStep ==
    ASSUME IInv, NEW s \in Sweepers, SweepTimedOutJobs(s)
    PROVE  IInv'
  <1> DEFINE new == {[job |-> j, next |-> RetryOr(j, "TIMED_OUT")] : j \in {k \in Jobs : Overdue(k)}}
  <1> USE DEF IInv
  <1>0. /\ sweep' = [sweep EXCEPT ![s] = new]
        /\ UNCHANGED <<job, worker, snapshots, crashes>>
    BY DEF SweepTimedOutJobs
  <1>1. new \subseteq [job: Jobs, next: Statuses \ {"none"}]
    BY DEF RetryOr, Statuses, Terminal, Ended
  <1>2. ASSUME NEW k \in Jobs, [job |-> k, next |-> "QUEUED"] \in new
        PROVE  ~(job[k].attempts >= MaxAttempts)
    BY <1>2 DEF RetryOr
  <1> HIDE DEF new
  <1>3. TypeOK'
    BY <1>0, <1>1 DEF TypeOK
  <1>4. Unstarted' /\ AttemptsHad' /\ AttemptsExclusive'
    BY <1>0 DEF Unstarted, AttemptsHad, AttemptsExclusive
  <1>5. Decided'
    BY <1>0, <1>1 DEF Decided, TypeOK
  <1>6. ASSUME NEW k \in Jobs, job[k].attempts >= MaxAttempts
        PROVE  Potential(k)' <= Limit
    <2>1. InQueue(k)' = InQueue(k) /\ InQueue(k) \in Nat /\ Failing(k)' = Failing(k)
      BY <1>0 DEF InQueue, Failing
    <2>2. Sweeping(k)' \subseteq Sweeping(k)
      BY <1>0, <1>2, <1>6 DEF Sweeping, TypeOK
    <2>3. InQueue(k)' <= InQueue(k) /\ job'[k].attempts = job[k].attempts
      BY <1>0, <2>1
    <2> QED BY <1>6, <2>1, <2>2, <2>3, Shrinks
  <1>7. Limited'
    BY <1>0, <1>6 DEF Limited
  <1> QED BY <1>3, <1>4, <1>5, <1>7

\* Writing one decision of a sweep trades it likewise.
LEMMA WriteSweepStep ==
    ASSUME IInv, NEW s \in Sweepers, WriteSweep(s)
    PROVE  IInv'
  <1> USE DEF IInv
  <1>1. PICK d \in sweep[s] :
           /\ SetStatus(d.job, d.next)
           /\ sweep' = [sweep EXCEPT ![s] = @ \ {d}]
           /\ UNCHANGED <<worker, snapshots, crashes>>
    BY DEF WriteSweep
  <1>2. d \in [job: Jobs, next: Statuses] /\ d.next # "none"
    BY DEF TypeOK, Decided
  <1>3. /\ job' \in [Jobs -> Job] /\ job'[d.job].status = d.next
        /\ \A k \in Jobs \ {d.job} : job'[k] = job[k]
        /\ \A k \in Jobs : job'[k].attempts = job[k].attempts
    BY <1>1, <1>2, StatusLemma DEF TypeOK
  <1>4. /\ sweep'[s] = sweep[s] \ {d}
        /\ \A q \in Sweepers \ {s} : sweep'[q] = sweep[q]
    BY <1>1 DEF TypeOK
  <1>5. TypeOK'
    BY <1>1, <1>3 DEF TypeOK
  <1>6. Unstarted'
    BY <1>2, <1>3 DEF Unstarted
  <1>7. Decided'
    BY <1>1, <1>4 DEF Decided
  <1>8. AttemptsHad' /\ AttemptsExclusive'
    BY <1>1, <1>3 DEF AttemptsHad, AttemptsExclusive, TypeOK, Busy
  <1>9. ASSUME NEW k \in Jobs, job[k].attempts >= MaxAttempts
        PROVE  Potential(k)' <= Limit
    <2>1. Failing(k)' = Failing(k)
      BY <1>1 DEF Failing
    <2>2. Sweeping(k)' \subseteq Sweeping(k)
      BY <1>4 DEF Sweeping
    <2>3. CASE k = d.job /\ d.next = "QUEUED"
      <3>1. d = [job |-> k, next |-> "QUEUED"]
        BY <1>2, <2>3
      <3>2. s \in Sweeping(k) /\ Sweeping(k)' \subseteq Sweeping(k) \ {s}
        BY <1>4, <2>2, <3>1 DEF Sweeping
      <3> QED BY <1>3, <1>9, <2>1, <2>3, <3>2, Trades DEF Sweeping
    <2>4. CASE ~(k = d.job /\ d.next = "QUEUED")
      <3>1. InQueue(k)' <= InQueue(k)
        BY <1>3, <2>4 DEF InQueue
      <3> QED BY <1>3, <1>9, <2>1, <2>2, <3>1, Shrinks
    <2> QED BY <2>3, <2>4
  <1>10. Limited'
    BY <1>3, <1>9 DEF Limited
  <1> QED BY <1>5, <1>6, <1>7, <1>8, <1>10

\* A crash forgets decisions; it makes none.
LEMMA CrashStep ==
    ASSUME IInv, NEW w \in Workers, Crash(w)
    PROVE  IInv'
  <1> USE DEF IInv
  <1>1. PICK lost \in SUBSET Sweepers :
           sweep' = [s \in Sweepers |-> IF s \in lost THEN {} ELSE sweep[s]]
    BY DEF Crash
  <1>2. /\ worker' = [worker EXCEPT ![w] = Idle]
        /\ UNCHANGED <<job, snapshots>>
        /\ crashes < MaxCrashes /\ crashes' = crashes + 1
    BY DEF Crash
  <1>3. worker'[w] = Idle /\ \A v \in Workers \ {w} : worker'[v] = worker[v]
    BY <1>2 DEF TypeOK
  <1>4. \A s \in Sweepers : sweep'[s] \subseteq sweep[s]
    BY <1>1
  <1>5. TypeOK'
    BY <1>1, <1>2, QueueAssumption DEF TypeOK
  <1>6. Unstarted' /\ Decided' /\ AttemptsHad' /\ AttemptsExclusive'
    BY <1>2, <1>3, <1>4 DEF Unstarted, Decided, AttemptsHad, AttemptsExclusive, Idle
  <1>7. ASSUME NEW k \in Jobs
        PROVE  job'[k].attempts >= MaxAttempts => Potential(k)' <= Limit
    <2>1. InQueue(k)' = InQueue(k) /\ InQueue(k) \in Nat
      BY <1>2 DEF InQueue
    <2>2. Sweeping(k)' \subseteq Sweeping(k) /\ Failing(k)' \subseteq Failing(k)
      BY <1>3, <1>4 DEF Sweeping, Failing, Idle
    <2>3. InQueue(k)' <= InQueue(k) /\ job'[k].attempts = job[k].attempts
      BY <1>2, <2>1
    <2> QED BY <2>2, <2>3, Shrinks
  <1>8. Limited'
    BY <1>7 DEF Limited
  <1> QED BY <1>5, <1>6, <1>8

(***************************************************************************)
(* The theorems.                                                           *)
(***************************************************************************)

\* Every step of the queue keeps the invariant.
LEMMA NextStep == IInv /\ [Next]_vars => IInv'
  <1> SUFFICES ASSUME IInv, [Next]_vars PROVE IInv'
    OBVIOUS
  <1>1. ASSUME NEW j \in Jobs, EnqueueScan(j) \/ CancelJob(j) \/ TimeoutPasses(j) PROVE IInv'
    BY <1>1, EnqueueStep, CancelStep
  <1>2. ASSUME NEW w \in Workers, Work(w) PROVE IInv'
    BY <1>2, ClaimStep, EndStep, FailStep, WriteFailureStep DEF Work
  <1>3. ASSUME NEW w \in Workers, Crash(w) PROVE IInv'
    BY <1>3, CrashStep
  <1>4. ASSUME NEW s \in Sweepers, Sweep(s) PROVE IInv'
    BY <1>4, SweepStep, WriteSweepStep DEF Sweep
  <1>5. CASE UNCHANGED vars
    BY <1>5 DEF vars, IInv, TypeOK, Unstarted, Decided, AttemptsHad, AttemptsExclusive,
         Limited, Potential, InQueue, Sweeping, Failing
  <1> QED BY <1>1, <1>2, <1>3, <1>4, <1>5 DEF Next

\* The invariant holds in every state the specification reaches.
THEOREM Inductive == Spec => []IInv
  BY InitIInv, NextStep, PTL DEF Spec

\* Every state of the queue has its type (jobQueue.js, migration 0005).
THEOREM TypeCorrect == Spec => []TypeOK
  BY Inductive, PTL DEF IInv

\* However often a job is swept away from a slow worker and claimed again, no
\* two workers run the same attempt of it (jobQueue.js:148-149).
THEOREM NoAttemptTwice == Spec => []AttemptsExclusive
  BY Inductive, PTL DEF IInv

\* Retries end: a job is started max_attempts times, and once more for each
\* sweep and each worker whose decision to requeue it came late
\* (jobQueue.js:209-239).
THEOREM RetriesAreLimited == Spec => []AttemptsLimited
  <1>1. ASSUME IInv PROVE AttemptsLimited
    <2> SUFFICES ASSUME NEW j \in Jobs PROVE job[j].attempts <= Limit
      BY DEF AttemptsLimited, Limit
    <2>1. Sweeping(j) \in SUBSET Sweepers /\ Failing(j) \in SUBSET Workers
      BY DEF Sweeping, Failing
    <2>2. /\ Cardinality(Sweeping(j)) \in Nat /\ Cardinality(Failing(j)) \in Nat
          /\ Cardinality(Sweepers) \in Nat /\ Cardinality(Workers) \in Nat
      BY <2>1, Counts
    <2>3. job[j].attempts \in Nat /\ InQueue(j) \in Nat
      BY <1>1 DEF IInv, TypeOK, Job, InQueue
    <2>4. CASE job[j].attempts >= MaxAttempts
      <3>1. Potential(j) <= Limit
        BY <1>1, <2>4 DEF IInv, Limited
      <3> QED BY <2>2, <2>3, <3>1, QueueAssumption DEF Potential, Limit
    <2>5. CASE ~(job[j].attempts >= MaxAttempts)
      BY <2>2, <2>3, <2>5, QueueAssumption DEF Limit
    <2> QED BY <2>4, <2>5
  <1> QED BY <1>1, Inductive, PTL

-----------------------------------------------------------------------------
(***************************************************************************)
(* The phone's queue.  What a run carries between two awaits stays true    *)
(* although the rows it was read from move on: the server's version and    *)
(* its ledger only grow, and a conflict stays on disk.  So an answer that  *)
(* is applied late still marks only what the server has applied, and a     *)
(* page that is written late only brings a version the server has had.     *)
(***************************************************************************)
LedgerType == [Edits -> S!Entry \cup {S!NoEntry}]

IsApplied(led, e) == led[e] # S!NoEntry /\ led[e].status = "applied"

RunGood(r, version, led, noted) ==
    /\ r.at \in {"answer", "applied"} =>
          /\ r.says.version <= version
          /\ r.says.status = "applied" => IsApplied(led, r.edit)
    /\ r.at = "applied" => r.says.status = "applied"
    /\ r.at = "cancel" => noted # << >>
    /\ r.at \in {"page", "write"} => r.row.version <= version

OperationGood(o, e, led, noted) ==
    /\ o.status = "done" => IsApplied(led, e)
    /\ o.status = "failed" => o.tries >= PushTries \/ noted # << >>

AnswersPast == \A e \in Edits : ledger[e] # S!NoEntry => ledger[e].version <= serverRow.version
ClashesPast == \A i \in DOMAIN clashes : clashes[i].version <= serverRow.version
MinePast == mine.status = "synced" => mine.version <= serverRow.version
RunsGood == \A s \in Slots : RunGood(runs[s], serverRow.version, ledger, clashes)
OutboxGood == \A e \in Edits : OperationGood(outbox[e], e, ledger, clashes)

MobileInv ==
    MobileTypeOK /\ AnswersPast /\ ClashesPast /\ MinePast /\ RunsGood /\ OutboxGood

-----------------------------------------------------------------------------
QueuedRequest == [kind : {"none", "create", "update", "delete"}, base : Nat, content : S!Contents]

\* What applyOperation answers is no newer than the row it leaves behind.
LEMMA ServerAnswers ==
  ASSUME NEW held \in S!Row, NEW q \in QueuedRequest
  PROVE  /\ S!RowAfter(held, q) \in S!Row
         /\ held.version <= S!RowAfter(held, q).version
         /\ S!Answer(held, q) \in S!Response
         /\ S!Answer(held, q).version <= S!RowAfter(held, q).version
<1>1. S!RowAfter(held, q) \in S!Row /\ held.version <= S!RowAfter(held, q).version
  <2>1. /\ held.version \in Nat /\ held.deleted \in BOOLEAN /\ held.sections \in Nat
        /\ held.content \in S!Contents /\ q.content \in S!Contents
    BY DEF S!Row, QueuedRequest
  <2>2. S!Written(held, q) \in S!Row
    <3>1. CASE q.kind = "create"
      BY <2>1, <3>1 DEF S!Written, S!Row
    <3>2. CASE q.kind # "create"
      <4>1. PICK deleted \in BOOLEAN, content \in S!Contents, sections \in Nat :
              S!Written(held, q) = [version |-> held.version + 1, deleted |-> deleted,
                                   content |-> content, sections |-> sections]
        BY <2>1, <3>2, Zenon DEF S!Written
      <4> QED
        BY <2>1, <4>1 DEF S!Row
    <3> QED
      BY <3>1, <3>2
  <2>3. S!Writes(held, q) => held.version <= S!Written(held, q).version
    BY <2>1 DEF S!Writes, S!Written, S!Exists
  <2> QED
    BY <2>1, <2>2, <2>3 DEF S!RowAfter
<1>2. S!Status(held, q) \in S!Statuses
  BY DEF S!Status, S!Statuses
<1>3. S!RowAfter(held, q).version \in Nat /\ S!RowAfter(held, q).content \in S!Contents
      /\ held.content \in S!Contents /\ held.deleted \in BOOLEAN
  BY <1>1 DEF S!Row
<1>4. NoEdit \in S!Contents
  BY DEF S!Contents
<1>5. S!Answer(held, q).payload \in S!Contents
  BY <1>3, <1>4 DEF S!Answer
<1>6. /\ S!Answer(held, q).version \in Nat
      /\ S!Answer(held, q).version <= S!RowAfter(held, q).version
      /\ S!Answer(held, q).status \in S!Statuses
      /\ S!Answer(held, q).deleted \in BOOLEAN
  BY <1>2, <1>3 DEF S!Answer
<1>7. S!Answer(held, q) = [status |-> S!Answer(held, q).status, version |-> S!Answer(held, q).version,
                          payload |-> S!Answer(held, q).payload,
                          deleted |-> S!Answer(held, q).deleted]
  BY DEF S!Answer
<1> QED
  BY <1>1, <1>5, <1>6, <1>7 DEF S!Response

LEMMA LedgerEntries ==
  /\ \A answer \in S!Response :
        /\ S!Recorded(answer) \in S!Entry /\ S!Recorded(answer) # S!NoEntry
        /\ S!Recorded(answer).status = answer.status
        /\ S!Recorded(answer).version = answer.version
  /\ \A entry \in S!Entry :
        /\ S!Replay(entry) \in S!Response
        /\ S!Replay(entry).status = entry.status /\ S!Replay(entry).version = entry.version
  BY DEF S!Recorded, S!Replay, S!Response, S!Entry, S!NoEntry

\* What a run holds, by the place it is at.
LEMMA RunShapes ==
  ASSUME NEW r \in RunState
  PROVE  /\ r.at = "due" => r.left \in Nat
         /\ r.at \in {"mark", "sent", "failing", "cancel", "failed", "answer", "applied"}
              => r.edit \in Edits /\ r.left \in Nat
         /\ r.at = "failed" => r.tries \in Nat
         /\ r.at \in {"answer", "applied"} => r.says \in S!Response
         /\ r.at = "asked" => r.since \in Nat
         /\ r.at \in {"page", "write", "save"} => r.next \in Nat
         /\ r.at \in {"page", "write"} => r.row \in S!Row
         /\ r.at = "write" => r.insert \in BOOLEAN
  BY DEF RunState

-----------------------------------------------------------------------------
\* What never goes back: the server's version, its ledger, a recorded conflict.
Grows ==
    /\ serverRow' \in S!Row /\ serverRow.version <= serverRow'.version
    /\ ledger' \in LedgerType
    /\ \A e \in Edits : ledger[e] # S!NoEntry => ledger'[e] = ledger[e]
    /\ clashes # << >> => clashes' # << >>

LEMMA MobileTypes ==
  ASSUME MobileInv
  PROVE  /\ serverRow \in S!Row /\ serverRow.version \in Nat /\ change \in Nat
         /\ ledger \in LedgerType /\ mine \in Copy /\ outbox \in [Edits -> Operation]
         /\ clashes \in Seq(Clash) /\ pulledTo \in Nat /\ runs \in [Slots -> RunState]
         /\ connectivity \in {"local", "sync", "cloud"} /\ mishaps \in 0 .. MaxMishaps
         /\ choice = NoChoice
            \/ choice \in [at: 1 .. Len(clashes), how: {"kept_server", "kept_local"}]
  BY DEF MobileInv, MobileTypeOK, LedgerType, S!Row

LEMMA ClashTypes ==
  ASSUME MobileInv
  PROVE  \A i \in DOMAIN clashes : clashes[i] \in Clash
<1>1. DOMAIN clashes = 1 .. Len(clashes) /\ clashes \in [1 .. Len(clashes) -> Clash]
  BY MobileTypes
<1> QED
  BY <1>1

LEMMA NothingGrows ==
  ASSUME MobileInv, UNCHANGED <<serverRow, ledger, clashes>>
  PROVE  Grows
  BY MobileTypes DEF Grows

\* What a run holds stays good while the server's side grows.
LEMMA RunStaysGood ==
  ASSUME MobileInv, Grows, NEW t \in Slots
  PROVE  RunGood(runs[t], serverRow'.version, ledger', clashes')
<1>1. runs[t] \in RunState /\ RunGood(runs[t], serverRow.version, ledger, clashes)
  BY MobileTypes DEF MobileInv, RunsGood
<1>2. serverRow.version \in Nat /\ serverRow'.version \in Nat
  BY MobileTypes DEF Grows, S!Row
<1>3. CASE runs[t].at \in {"answer", "applied"}
  <2>1. runs[t].edit \in Edits /\ runs[t].says.version \in Nat
    BY <1>1, <1>3, RunShapes DEF S!Response
  <2> QED
    BY <1>1, <1>2, <1>3, <2>1 DEF RunGood, IsApplied, Grows
<1>4. CASE runs[t].at \in {"page", "write"}
  <2>1. runs[t].row.version \in Nat
    BY <1>1, <1>4, RunShapes DEF S!Row
  <2> QED
    BY <1>1, <1>2, <1>4, <2>1 DEF RunGood, Grows
<1>5. CASE runs[t].at \notin {"answer", "applied", "page", "write"}
  BY <1>1, <1>5 DEF RunGood, Grows
<1> QED
  BY <1>3, <1>4, <1>5

LEMMA RunsMove ==
  ASSUME MobileInv, Grows, NEW s \in Slots, NEW r \in RunState, Moves(s, r),
         RunGood(r, serverRow'.version, ledger', clashes')
  PROVE  runs' \in [Slots -> RunState] /\ RunsGood'
<1>1. runs' = [runs EXCEPT ![s] = r] /\ runs \in [Slots -> RunState]
  BY MobileTypes DEF Moves
<1>2. ASSUME NEW t \in Slots
      PROVE  RunGood(runs'[t], serverRow'.version, ledger', clashes')
  <2>1. CASE t = s
    BY <1>1, <2>1
  <2>2. CASE t # s
    BY <1>1, <2>2, RunStaysGood
  <2> QED
    BY <2>1, <2>2
<1> QED
  BY <1>1, <1>2 DEF RunsGood

\* An action that changes neither the server nor a run.
LEMMA RunsRest ==
  ASSUME MobileInv, UNCHANGED <<serverRow, ledger, runs>>,
         clashes' = clashes \/ clashes' # << >>
  PROVE  runs' \in [Slots -> RunState] /\ RunsGood'
<1>1. ASSUME NEW t \in Slots
      PROVE  RunGood(runs[t], serverRow.version, ledger, clashes')
  BY DEF MobileInv, RunsGood, RunGood
<1> QED
  BY <1>1, MobileTypes DEF RunsGood

LEMMA OutboxStaysGood ==
  ASSUME MobileInv, Grows, outbox' \in [Edits -> Operation],
         \A e \in Edits : \/ outbox'[e] = outbox[e]
                          \/ OperationGood(outbox'[e], e, ledger', clashes')
  PROVE  OutboxGood'
<1>1. ASSUME NEW e \in Edits, outbox'[e] = outbox[e]
      PROVE  OperationGood(outbox'[e], e, ledger', clashes')
  <2>1. OperationGood(outbox[e], e, ledger, clashes)
    BY DEF MobileInv, OutboxGood
  <2> QED
    BY <1>1, <2>1 DEF OperationGood, IsApplied, Grows
<1> QED
  BY <1>1 DEF OutboxGood

\* The server's part of the invariant when it and the conflicts stay.
LEMMA PastStays ==
  ASSUME MobileInv, UNCHANGED <<serverRow, ledger, clashes>>
  PROVE  AnswersPast' /\ ClashesPast'
  BY DEF MobileInv, AnswersPast, ClashesPast

\* Every step that only moves a run.
LEMMA OnlyRunMoves ==
  ASSUME MobileInv, UNCHANGED <<serverSide, App>>, NEW s \in Slots, NEW r \in RunState,
         Moves(s, r), RunGood(r, serverRow.version, ledger, clashes),
         connectivity' \in {"local", "sync", "cloud"}, mishaps' \in 0 .. MaxMishaps
  PROVE  MobileInv'
<1>1. UNCHANGED <<serverRow, change, ledger, mine, outbox, clashes, pulledTo, choice>>
  BY DEF serverSide, App
<1>2. Grows
  BY <1>1, NothingGrows
<1>3. runs' \in [Slots -> RunState] /\ RunsGood'
  BY <1>1, <1>2, RunsMove
<1>4. OutboxGood'
  BY <1>1, <1>2, MobileTypes, OutboxStaysGood
<1>5. AnswersPast' /\ ClashesPast' /\ MinePast'
  BY <1>1, PastStays DEF MobileInv, MinePast
<1>6. MobileTypeOK'
  BY <1>1, <1>3, MobileTypes DEF MobileTypeOK, LedgerType
<1> QED
  BY <1>3, <1>4, <1>5, <1>6 DEF MobileInv

LEMMA MobileInvInit == MobileInit => MobileInv
<1> SUFFICES ASSUME MobileInit
             PROVE  MobileInv
  OBVIOUS
<1> USE DEF MobileInit
<1>1. S!NoRow \in S!Row /\ NoCopy \in Copy /\ NoOperation \in Operation /\ Rest \in RunState
  BY DEF S!NoRow, S!Row, S!Contents, NoCopy, Copy, NoOperation, Operation, Rest, RunState
<1>2. MobileTypeOK
  BY <1>1, MobileAssumption DEF MobileTypeOK
<1>3. AnswersPast /\ ClashesPast
  BY DEF AnswersPast, ClashesPast
<1>4. MinePast
  BY DEF MinePast, NoCopy
<1>5. RunsGood
  BY DEF RunsGood, RunGood, Rest
<1>6. OutboxGood
  BY DEF OutboxGood, OperationGood, NoOperation
<1> QED
  BY <1>2, <1>3, <1>4, <1>5, <1>6 DEF MobileInv

-----------------------------------------------------------------------------
\* The steps of a run that touch no table of the app.
LEMMA QuietSteps ==
  ASSUME MobileInv, NEW s \in Slots,
         \/ Trigger(s) \/ Starts(s) \/ ReadDue(s) \/ PushLost(s) \/ PushRefused(s) \/ TriesRead(s)
         \/ AskSince(s) \/ PageArrives(s) \/ PullLost(s) \/ StatementBuilt(s)
         \/ ConnectivityChecked(s) \/ ConnectivityPolled(s)
  PROVE  MobileInv'
<1>1. /\ serverRow \in S!Row /\ pulledTo \in Nat /\ change \in Nat
      /\ outbox \in [Edits -> Operation]
      /\ connectivity \in {"local", "sync", "cloud"} /\ mishaps \in 0 .. MaxMishaps
      /\ MaxMishaps \in Nat /\ MaxPasses \in Nat
  BY MobileTypes, MobileAssumption
<1>2. runs[s] \in RunState /\ RunGood(runs[s], serverRow.version, ledger, clashes)
  BY MobileTypes DEF MobileInv, RunsGood
<1>3. /\ Rest \in RunState /\ [at |-> "called"] \in RunState /\ [at |-> "pull"] \in RunState
      /\ [at |-> "check"] \in RunState
      /\ \A r \in {Rest, [at |-> "called"], [at |-> "pull"], [at |-> "check"]} :
            RunGood(r, serverRow.version, ledger, clashes)
  BY DEF Rest, RunState, RunGood
<1>4. ASSUME NEW place \in {"mark", "failing"}, NEW e \in Edits, NEW passes \in Nat
      PROVE  /\ WithEdit(place, e, passes) \in RunState
             /\ RunGood(WithEdit(place, e, passes), serverRow.version, ledger, clashes)
  BY DEF WithEdit, RunState, RunGood
<1>5. CASE Trigger(s)
  BY <1>1, <1>3, <1>5, OnlyRunMoves DEF Trigger
<1>6. CASE Starts(s)
  <2>1. NextPush(MaxPasses) \in RunState
        /\ RunGood(NextPush(MaxPasses), serverRow.version, ledger, clashes)
    BY <1>1 DEF NextPush, RunState, RunGood
  <2> QED
    BY <1>1, <1>6, <2>1, OnlyRunMoves DEF Starts
<1>7. CASE ReadDue(s)
  <2>1. CASE DueNow = {} \/ runs[s].left = 0
    BY <1>1, <1>3, <1>7, <2>1, OnlyRunMoves DEF ReadDue
  <2>2. CASE ~(DueNow = {} \/ runs[s].left = 0)
    <3>1. PICK e \in DueNow : Moves(s, WithEdit("mark", e, runs[s].left - 1))
      BY <1>7, <2>2 DEF ReadDue
    <3>2. e \in Edits /\ runs[s].left - 1 \in Nat
      BY <1>2, <1>7, <2>2, RunShapes DEF DueNow, ReadDue, At
    <3> QED
      BY <1>1, <1>4, <1>7, <3>1, <3>2, OnlyRunMoves DEF ReadDue
  <2> QED
    BY <2>1, <2>2
<1>8. CASE PushLost(s)
  <2>1. runs[s].edit \in Edits /\ mishaps' \in 0 .. MaxMishaps
    BY <1>1, <1>2, <1>8, RunShapes DEF PushLost, At, Mishap
  <2> QED
    BY <1>1, <1>4, <1>8, <2>1, OnlyRunMoves DEF PushLost
<1>9. CASE PushRefused(s)
  <2>1. runs[s].edit \in Edits /\ runs[s].left \in Nat
    BY <1>2, <1>9, RunShapes DEF PushRefused, At
  <2> QED
    BY <1>1, <1>4, <1>9, <2>1, OnlyRunMoves DEF PushRefused
<1>10. CASE TriesRead(s)
  <2>1. runs[s].edit \in Edits /\ runs[s].left \in Nat
    BY <1>2, <1>10, RunShapes DEF TriesRead, At
  <2>2. outbox[runs[s].edit].tries + 1 \in Nat
    BY <1>1, <2>1 DEF Operation
  <2> DEFINE r == [at |-> "failed", edit |-> runs[s].edit, left |-> runs[s].left,
                   tries |-> outbox[runs[s].edit].tries + 1]
  <2>3. r \in RunState /\ RunGood(r, serverRow.version, ledger, clashes)
    BY <2>1, <2>2 DEF RunState, RunGood
  <2>4. Moves(s, r) /\ UNCHANGED <<serverSide, App, connectivity, mishaps>>
    BY <1>10 DEF TriesRead
  <2> QED
    BY <1>1, <2>3, <2>4, OnlyRunMoves
<1>11. CASE AskSince(s)
  <2>1. [at |-> "asked", since |-> pulledTo] \in RunState
        /\ RunGood([at |-> "asked", since |-> pulledTo], serverRow.version, ledger, clashes)
    BY <1>1 DEF RunState, RunGood
  <2> QED
    BY <1>1, <1>11, <2>1, OnlyRunMoves DEF AskSince
<1>12. CASE PageArrives(s)
  <2>1. runs[s].since \in Nat
    BY <1>2, <1>12, RunShapes DEF PageArrives, At
  <2> DEFINE page == [at |-> "page", row |-> serverRow, next |-> change]
             save == [at |-> "save", next |-> runs[s].since]
  <2>2. /\ page \in RunState /\ RunGood(page, serverRow.version, ledger, clashes)
        /\ save \in RunState /\ RunGood(save, serverRow.version, ledger, clashes)
    BY <1>1, <2>1, MobileTypes DEF RunState, RunGood
  <2>3. (Moves(s, page) \/ Moves(s, save)) /\ UNCHANGED <<serverSide, App, connectivity, mishaps>>
    BY <1>12 DEF PageArrives
  <2> QED
    BY <1>1, <2>2, <2>3, OnlyRunMoves
<1>13. CASE PullLost(s)
  <2>1. mishaps' \in 0 .. MaxMishaps
    BY <1>1, <1>13 DEF PullLost, Mishap
  <2> QED
    BY <1>1, <1>3, <1>13, <2>1, OnlyRunMoves DEF PullLost
<1>14. CASE StatementBuilt(s)
  <2>1. runs[s].row \in S!Row /\ runs[s].next \in Nat /\ runs[s].row.version <= serverRow.version
    BY <1>2, <1>14, RunShapes DEF StatementBuilt, At, RunGood
  <2> DEFINE save == [at |-> "save", next |-> runs[s].next]
             write == [at |-> "write", row |-> runs[s].row, next |-> runs[s].next,
                       insert |-> mine = NoCopy]
  <2>2. /\ save \in RunState /\ RunGood(save, serverRow.version, ledger, clashes)
        /\ write \in RunState /\ RunGood(write, serverRow.version, ledger, clashes)
    BY <2>1 DEF RunState, RunGood
  <2>3. (Moves(s, save) \/ Moves(s, write)) /\ UNCHANGED <<serverSide, App, connectivity, mishaps>>
    BY <1>14 DEF StatementBuilt
  <2> QED
    BY <1>1, <2>2, <2>3, OnlyRunMoves
<1>15. CASE ConnectivityChecked(s)
  BY <1>1, <1>3, <1>15, OnlyRunMoves DEF ConnectivityChecked
<1>16. CASE ConnectivityPolled(s)
  BY <1>1, <1>3, <1>16, OnlyRunMoves DEF ConnectivityPolled
<1> QED
  BY <1>5, <1>6, <1>7, <1>8, <1>9, <1>10, <1>11, <1>12, <1>13, <1>14, <1>15, <1>16

\* The steps of a run that write the queue, the report, a conflict or the cursor.
LEMMA NextPushGood ==
  ASSUME NEW passes \in Nat
  PROVE  /\ NextPush(passes) \in RunState
         /\ \A v, led, cl : RunGood(NextPush(passes), v, led, cl)
  BY DEF NextPush, RunState, RunGood

LEMMA SendKeeps ==
  ASSUME MobileInv, NEW s \in Slots, MarkAndSend(s)
  PROVE  MobileInv'
<1> DEFINE e == runs[s].edit
           r == WithEdit("sent", e, runs[s].left)
<1>1. e \in Edits /\ runs[s].left \in Nat
  BY MobileTypes, RunShapes DEF MarkAndSend, At
<1>2. /\ UNCHANGED <<serverRow, change, ledger, mine, clashes, pulledTo, choice>>
      /\ UNCHANGED <<connectivity, mishaps>>
  BY DEF MarkAndSend, serverSide
<1>3. Grows
  BY <1>2, NothingGrows
<1>4. r \in RunState /\ RunGood(r, serverRow'.version, ledger', clashes')
  BY <1>1 DEF WithEdit, RunState, RunGood
<1>5. runs' \in [Slots -> RunState] /\ RunsGood'
  <2>1. Moves(s, r)
    BY DEF MarkAndSend
  <2> QED
    BY <1>3, <1>4, <2>1, RunsMove
<1>6. outbox' \in [Edits -> Operation] /\ OutboxGood'
  <2>1. outbox' = [outbox EXCEPT ![e] = [outbox[e] EXCEPT !.status = "in_flight"]]
    BY DEF MarkAndSend
  <2>2. outbox'[e] \in Operation /\ outbox'[e].status = "in_flight"
    <3>1. outbox[e] \in Operation
      BY <1>1, MobileTypes
    <3>2. outbox'[e] = [outbox[e] EXCEPT !.status = "in_flight"]
      BY <1>1, <2>1, MobileTypes
    <3> QED
      BY <3>1, <3>2 DEF Operation
  <2>3. outbox' \in [Edits -> Operation]
    BY <1>1, <2>1, <2>2, MobileTypes
  <2>4. \A f \in Edits : outbox'[f] = outbox[f]
                         \/ OperationGood(outbox'[f], f, ledger', clashes')
    BY <1>1, <2>1, <2>2, MobileTypes DEF OperationGood
  <2> QED
    BY <1>3, <2>3, <2>4, OutboxStaysGood
<1>7. AnswersPast' /\ ClashesPast' /\ MinePast'
  BY <1>2, PastStays DEF MobileInv, MinePast
<1>8. MobileTypeOK'
  BY <1>2, <1>5, <1>6, MobileTypes DEF MobileTypeOK, LedgerType
<1> QED
  BY <1>5, <1>6, <1>7, <1>8 DEF MobileInv

LEMMA AnswerKeeps ==
  ASSUME MobileInv, NEW s \in Slots, Answered(s)
  PROVE  MobileInv'
<1> DEFINE e == runs[s].edit
           q == [kind |-> outbox[e].kind, base |-> outbox[e].base, content |-> outbox[e].content]
           says == S!Answer(serverRow, q)
<1>1. e \in Edits /\ runs[s].left \in Nat
  BY MobileTypes, RunShapes DEF Answered, At
<1>2. UNCHANGED <<mine, outbox, clashes, pulledTo, choice, connectivity, mishaps>>
  BY DEF Answered, App
<1>3. serverRow \in S!Row /\ serverRow.version \in Nat /\ change \in Nat /\ ledger \in LedgerType
  BY MobileTypes
<1>4. CASE ledger[e] = S!NoEntry
  <2> DEFINE r == WithAnswer("answer", e, runs[s].left, says)
  <2>1. q \in QueuedRequest
    BY <1>1, MobileTypes DEF Operation, QueuedRequest
  <2>2. /\ serverRow' = S!RowAfter(serverRow, q) /\ change' \in Nat
        /\ ledger' = [ledger EXCEPT ![e] = S!Recorded(says)] /\ Moves(s, r)
    BY <1>3, <1>4 DEF Answered
  <2> HIDE DEF q, r
  <2>3. /\ serverRow' \in S!Row /\ serverRow.version <= serverRow'.version
        /\ says \in S!Response /\ says.version <= serverRow'.version
    BY <1>3, <2>1, <2>2, ServerAnswers
  <2>4. /\ S!Recorded(says) \in S!Entry /\ S!Recorded(says) # S!NoEntry
        /\ S!Recorded(says).status = says.status /\ S!Recorded(says).version = says.version
    BY <2>3, LedgerEntries
  <2> HIDE DEF says
  <2>5. Grows
    BY <1>1, <1>2, <1>3, <1>4, <2>2, <2>3, <2>4 DEF Grows, LedgerType
  <2>6. r \in RunState /\ RunGood(r, serverRow'.version, ledger', clashes')
    <3>1. ledger'[e] = S!Recorded(says)
      BY <1>1, <1>3, <2>2 DEF LedgerType
    <3>2. r \in RunState
      BY <1>1, <2>3 DEF r, WithAnswer, RunState
    <3> QED
      BY <1>1, <2>3, <2>4, <3>1, <3>2 DEF r, WithAnswer, RunGood, IsApplied
  <2>7. runs' \in [Slots -> RunState] /\ RunsGood'
    BY <2>2, <2>5, <2>6, RunsMove
  <2>8. OutboxGood'
    BY <1>2, <2>5, MobileTypes, OutboxStaysGood
  <2>9. serverRow'.version \in Nat
    BY <2>3 DEF S!Row
  <2>10. AnswersPast'
    <3>1. ASSUME NEW f \in Edits, ledger'[f] # S!NoEntry
          PROVE  ledger'[f].version <= serverRow'.version
      <4>1. CASE f = e
        BY <1>1, <1>3, <2>2, <2>3, <2>4, <4>1 DEF LedgerType
      <4>2. CASE f # e
        <5>1. ledger'[f] = ledger[f] /\ ledger[f].version <= serverRow.version
          BY <1>1, <1>3, <2>2, <3>1, <4>2 DEF LedgerType, MobileInv, AnswersPast
        <5>2. ledger[f].version \in Nat
          BY <1>3, <3>1, <5>1 DEF LedgerType, S!Entry
        <5> QED
          BY <1>3, <2>3, <2>9, <5>1, <5>2
      <4> QED
        BY <4>1, <4>2
    <3> QED
      BY <3>1 DEF AnswersPast
  <2>11. ClashesPast' /\ MinePast'
    <3>1. \A i \in DOMAIN clashes : clashes[i].version \in Nat
      BY ClashTypes DEF Clash
    <3>2. mine.version \in Nat
      BY MobileTypes DEF Copy
    <3> QED
      BY <1>2, <1>3, <2>3, <2>9, <3>1, <3>2 DEF MobileInv, ClashesPast, MinePast
  <2>12. MobileTypeOK'
    BY <1>2, <2>2, <2>3, <2>5, <2>7, MobileTypes DEF MobileTypeOK, Grows, LedgerType
  <2> QED
    BY <2>7, <2>8, <2>10, <2>11, <2>12 DEF MobileInv
<1>5. CASE ledger[e] # S!NoEntry
  <2> DEFINE r == WithAnswer("answer", e, runs[s].left, S!Replay(ledger[e]))
  <2>1. Moves(s, r) /\ UNCHANGED <<serverSide, App, connectivity, mishaps>>
    BY <1>5 DEF Answered
  <2>2. ledger[e] \in S!Entry /\ ledger[e].version <= serverRow.version
    BY <1>1, <1>3, <1>5 DEF LedgerType, MobileInv, AnswersPast
  <2>3. /\ S!Replay(ledger[e]) \in S!Response
        /\ S!Replay(ledger[e]).status = ledger[e].status
        /\ S!Replay(ledger[e]).version = ledger[e].version
    BY <2>2, LedgerEntries
  <2>4. r \in RunState
    BY <1>1, <2>3 DEF WithAnswer, RunState
  <2>5. RunGood(r, serverRow.version, ledger, clashes)
    BY <1>5, <2>2, <2>3 DEF WithAnswer, RunGood, IsApplied
  <2>6. connectivity' \in {"local", "sync", "cloud"} /\ mishaps' \in 0 .. MaxMishaps
    BY <2>1, MobileTypes
  <2> QED
    BY <2>1, <2>4, <2>5, <2>6, OnlyRunMoves
<1> QED
  BY <1>4, <1>5

LEMMA DoneKeeps ==
  ASSUME MobileInv, NEW s \in Slots, Done(s)
  PROVE  MobileInv'
<1> DEFINE e == runs[s].edit
           r == WithAnswer("applied", e, runs[s].left, runs[s].says)
<1>1. /\ e \in Edits /\ runs[s].left \in Nat /\ runs[s].says \in S!Response
      /\ runs[s].says.status = "applied"
  BY MobileTypes, RunShapes DEF Done, At
<1>2. /\ UNCHANGED <<serverRow, change, ledger, mine, clashes, pulledTo, choice>>
      /\ UNCHANGED <<connectivity, mishaps>>
  BY DEF Done, serverSide
<1>3. Grows
  BY <1>2, NothingGrows
<1>4. IsApplied(ledger, e) /\ runs[s].says.version <= serverRow.version
  BY <1>1 DEF MobileInv, RunsGood, RunGood, Done, At
<1>5. r \in RunState
  BY <1>1 DEF WithAnswer, RunState
<1>6. RunGood(r, serverRow'.version, ledger', clashes')
  BY <1>1, <1>2, <1>4 DEF WithAnswer, RunGood
<1>7. runs' \in [Slots -> RunState] /\ RunsGood'
  <2>1. Moves(s, r)
    BY DEF Done
  <2> QED
    BY <1>3, <1>5, <1>6, <2>1, RunsMove
<1>8. outbox' \in [Edits -> Operation] /\ OutboxGood'
  <2>1. outbox' = [outbox EXCEPT ![e] = [outbox[e] EXCEPT !.status = "done"]]
    BY DEF Done
  <2>2. outbox'[e] \in Operation /\ outbox'[e].status = "done"
    <3>1. outbox[e] \in Operation
      BY <1>1, MobileTypes
    <3>2. outbox'[e] = [outbox[e] EXCEPT !.status = "done"]
      BY <1>1, <2>1, MobileTypes
    <3> QED
      BY <3>1, <3>2 DEF Operation
  <2>3. outbox' \in [Edits -> Operation]
    BY <1>1, <2>1, <2>2, MobileTypes
  <2>4. \A f \in Edits : outbox'[f] = outbox[f]
                         \/ OperationGood(outbox'[f], f, ledger', clashes')
    BY <1>1, <1>2, <1>4, <2>1, <2>2, MobileTypes DEF OperationGood
  <2> QED
    BY <1>3, <2>3, <2>4, OutboxStaysGood
<1>9. AnswersPast' /\ ClashesPast' /\ MinePast'
  BY <1>2, PastStays DEF MobileInv, MinePast
<1>10. MobileTypeOK'
  BY <1>2, <1>7, <1>8, MobileTypes DEF MobileTypeOK, LedgerType
<1> QED
  BY <1>7, <1>8, <1>9, <1>10 DEF MobileInv

LEMMA AppliedKeeps ==
  ASSUME MobileInv, NEW s \in Slots, Applied(s)
  PROVE  MobileInv'
<1> DEFINE version == runs[s].says.version
           check == [at |-> "check"]
<1>1. /\ runs[s].left \in Nat /\ runs[s].says \in S!Response /\ version \in Nat
      /\ version <= serverRow.version
  BY MobileTypes, RunShapes DEF Applied, At, MobileInv, RunsGood, RunGood, S!Response
<1>2. /\ UNCHANGED <<serverRow, change, ledger, outbox, clashes, pulledTo, choice, connectivity,
                     mishaps>>
  BY DEF Applied, serverSide
<1>3. Grows
  BY <1>2, NothingGrows
<1>4. runs' \in [Slots -> RunState] /\ RunsGood'
  <2>1. check \in RunState /\ RunGood(check, serverRow'.version, ledger', clashes')
    BY DEF RunState, RunGood
  <2>2. Moves(s, NextPush(runs[s].left)) \/ Moves(s, check)
    BY DEF Applied
  <2> QED
    BY <1>1, <1>3, <2>1, <2>2, NextPushGood, RunsMove
<1>5. mine' \in Copy /\ MinePast'
  <2>1. CASE version > 0
    <3>1. mine' = [mine EXCEPT !.version = version, !.status = "synced"]
      BY <2>1 DEF Applied
    <3> QED
      BY <1>1, <1>2, <3>1, MobileTypes DEF Copy, MinePast
  <2>2. CASE ~(version > 0)
    BY <1>2, <2>2, MobileTypes DEF Applied, MobileInv, MinePast
  <2> QED
    BY <2>1, <2>2
<1>6. AnswersPast' /\ ClashesPast' /\ OutboxGood'
  BY <1>2, <1>3, PastStays, MobileTypes, OutboxStaysGood
<1>7. MobileTypeOK'
  BY <1>2, <1>4, <1>5, MobileTypes DEF MobileTypeOK, LedgerType
<1> QED
  BY <1>4, <1>5, <1>6, <1>7 DEF MobileInv

LEMMA ClashKeeps ==
  ASSUME MobileInv, NEW s \in Slots, ClashRecorded(s)
  PROVE  MobileInv'
<1> DEFINE says == runs[s].says
           clash == [edit |-> runs[s].edit, payload |-> says.payload, version |-> says.version,
                     deleted |-> says.deleted, resolution |-> "none"]
           r == WithEdit("cancel", runs[s].edit, runs[s].left)
<1>1. /\ runs[s].edit \in Edits /\ runs[s].left \in Nat /\ says \in S!Response
      /\ says.version <= serverRow.version
  BY MobileTypes, RunShapes DEF ClashRecorded, At, MobileInv, RunsGood, RunGood
<1>2. /\ UNCHANGED <<serverRow, change, ledger, outbox, pulledTo, choice, connectivity, mishaps>>
      /\ clashes' = Append(clashes, clash) /\ mine' = [mine EXCEPT !.status = "conflict"]
      /\ Moves(s, r)
  BY DEF ClashRecorded, serverSide
<1>3. clash \in Clash
  BY <1>1 DEF Clash, S!Response
<1>4. /\ clashes \in Seq(Clash) /\ clashes' \in Seq(Clash) /\ clashes' # << >>
      /\ Len(clashes') = Len(clashes) + 1 /\ Len(clashes) \in Nat
      /\ \A i \in 1 .. Len(clashes) : clashes'[i] = clashes[i]
      /\ clashes'[Len(clashes) + 1] = clash
  <2> HIDE DEF clash
  <2> QED
    BY <1>2, <1>3, MobileTypes
<1>5. Grows
  BY <1>2, <1>4, MobileTypes DEF Grows
<1>6. runs' \in [Slots -> RunState] /\ RunsGood'
  <2>1. r \in RunState /\ RunGood(r, serverRow'.version, ledger', clashes')
    BY <1>1, <1>4 DEF WithEdit, RunState, RunGood
  <2> QED
    BY <1>2, <1>5, <2>1, RunsMove
<1>7. mine' \in Copy /\ MinePast'
  BY <1>2, MobileTypes DEF Copy, MinePast
<1>8. ClashesPast'
  <2>1. clash.version <= serverRow.version
    BY <1>1
  <2>2. \A i \in 1 .. Len(clashes) : clashes[i].version <= serverRow.version
    BY <1>4 DEF MobileInv, ClashesPast
  <2>3. DOMAIN clashes' = 1 .. Len(clashes) + 1
    BY <1>4
  <2> HIDE DEF clash
  <2>4. ASSUME NEW i \in 1 .. Len(clashes) + 1
        PROVE  clashes'[i].version <= serverRow.version
    BY <1>4, <2>1, <2>2
  <2> QED
    BY <1>2, <2>3, <2>4 DEF ClashesPast
<1>9. AnswersPast' /\ OutboxGood'
  BY <1>2, <1>5, MobileTypes, OutboxStaysGood DEF MobileInv, AnswersPast
<1>10. choice' = NoChoice
       \/ choice' \in [at: 1 .. Len(clashes'), how: {"kept_server", "kept_local"}]
  <2>1. \A n \in 1 .. Len(clashes) : n \in 1 .. Len(clashes')
    BY <1>4
  <2> QED
    BY <1>2, <2>1, MobileTypes
<1>11. MobileTypeOK'
  BY <1>2, <1>4, <1>6, <1>7, <1>10, MobileTypes DEF MobileTypeOK, LedgerType, NoChoice
<1> QED
  BY <1>6, <1>7, <1>8, <1>9, <1>11 DEF MobileInv

\* An action of the app that writes the queue and moves a run, and nothing else.
LEMMA QueueAndRun ==
  ASSUME MobileInv, NEW s \in Slots, NEW r \in RunState, Moves(s, r),
         UNCHANGED <<serverSide, mine, clashes, pulledTo, choice, connectivity, mishaps>>,
         RunGood(r, serverRow.version, ledger, clashes),
         outbox' \in [Edits -> Operation],
         \A e \in Edits : outbox'[e] = outbox[e] \/ OperationGood(outbox'[e], e, ledger, clashes)
  PROVE  MobileInv'
<1>1. /\ UNCHANGED <<serverRow, change, ledger, mine, clashes, pulledTo, choice>>
      /\ UNCHANGED <<connectivity, mishaps>>
  BY DEF serverSide
<1>2. Grows
  BY <1>1, NothingGrows
<1>3. runs' \in [Slots -> RunState] /\ RunsGood'
  BY <1>1, <1>2, RunsMove
<1>4. OutboxGood'
  BY <1>1, <1>2, OutboxStaysGood
<1>5. AnswersPast' /\ ClashesPast' /\ MinePast'
  BY <1>1, PastStays DEF MobileInv, MinePast
<1>6. MobileTypeOK'
  BY <1>1, <1>3, MobileTypes DEF MobileTypeOK, LedgerType
<1> QED
  BY <1>3, <1>4, <1>5, <1>6 DEF MobileInv

LEMMA CancelKeeps ==
  ASSUME MobileInv, NEW s \in Slots, QueueCancelled(s)
  PROVE  MobileInv'
<1>1. runs[s].left \in Nat /\ clashes # << >>
  BY MobileTypes, RunShapes DEF QueueCancelled, At, MobileInv, RunsGood, RunGood
<1>2. NextPush(runs[s].left) \in RunState
      /\ RunGood(NextPush(runs[s].left), serverRow.version, ledger, clashes)
  BY <1>1, NextPushGood
<1>3. ASSUME NEW e \in Edits
      PROVE  /\ outbox'[e] \in Operation
             /\ outbox'[e] = outbox[e] \/ OperationGood(outbox'[e], e, ledger, clashes)
  <2>1. outbox[e] \in Operation
    BY MobileTypes
  <2>2. CASE OnItsWay(e)
    <3>1. outbox'[e] = [outbox[e] EXCEPT !.status = "failed"]
      BY <2>2 DEF QueueCancelled, CancelQueued
    <3>2. outbox'[e] \in Operation /\ outbox'[e].status = "failed"
      BY <2>1, <3>1 DEF Operation
    <3> QED
      BY <1>1, <3>2 DEF OperationGood
  <2>3. CASE ~OnItsWay(e)
    BY <2>1, <2>3 DEF QueueCancelled, CancelQueued
  <2> QED
    BY <2>2, <2>3
<1>4. outbox' \in [Edits -> Operation]
  <2>1. outbox' = [e \in Edits |-> outbox'[e]]
    BY DEF QueueCancelled, CancelQueued
  <2> QED
    BY <1>3, <2>1
<1> QED
  BY <1>2, <1>3, <1>4, QueueAndRun DEF QueueCancelled

LEMMA TriesKeep ==
  ASSUME MobileInv, NEW s \in Slots, TriesWritten(s)
  PROVE  MobileInv'
<1> DEFINE e == runs[s].edit
           tries == runs[s].tries
           status == IF GivenUp(tries) THEN "failed" ELSE "pending"
           o == [[[outbox[e] EXCEPT !.tries = tries] EXCEPT !.waiting = TRUE]
                   EXCEPT !.status = status]
<1>1. e \in Edits /\ runs[s].left \in Nat /\ tries \in Nat
  BY MobileTypes, RunShapes DEF TriesWritten, At
<1>2. NextPush(runs[s].left) \in RunState
      /\ RunGood(NextPush(runs[s].left), serverRow.version, ledger, clashes)
  BY <1>1, NextPushGood
<1>3. status \in {"failed", "pending"} /\ (status = "failed" => tries >= PushTries)
  BY DEF GivenUp
<1>4. outbox' = [outbox EXCEPT ![e] = o]
  <2>1. outbox' = [[[outbox EXCEPT ![e].tries = tries] EXCEPT ![e].waiting = TRUE]
                     EXCEPT ![e].status = status]
    BY DEF TriesWritten
  <2>2. outbox \in [Edits -> Operation]
    BY MobileTypes
  <2> HIDE DEF status, tries, e
  <2> QED
    BY <1>1, <2>1, <2>2
<1>5. o \in Operation /\ o.status = status /\ o.tries = tries
  <2>1. outbox[e] \in Operation
    BY <1>1, MobileTypes
  <2> HIDE DEF status, tries, e
  <2> QED
    BY <1>1, <1>3, <2>1 DEF Operation
<1>6. OperationGood(o, e, ledger, clashes)
  <2> HIDE DEF status, o
  <2> QED
    BY <1>3, <1>5 DEF OperationGood
<1>7. /\ outbox' \in [Edits -> Operation]
      /\ \A f \in Edits : outbox'[f] = outbox[f] \/ OperationGood(outbox'[f], f, ledger, clashes)
  <2> HIDE DEF o
  <2> QED
    BY <1>1, <1>4, <1>5, <1>6, MobileTypes
<1> QED
  BY <1>2, <1>7, QueueAndRun DEF TriesWritten

LEMMA PageKeeps ==
  ASSUME MobileInv, NEW s \in Slots, PageWritten(s)
  PROVE  MobileInv'
<1> DEFINE there == runs[s].row
           save == [at |-> "save", next |-> runs[s].next]
           check == [at |-> "check"]
<1>1. there \in S!Row /\ runs[s].next \in Nat /\ there.version <= serverRow.version
  BY MobileTypes, RunShapes DEF PageWritten, At, MobileInv, RunsGood, RunGood
<1>2. /\ UNCHANGED <<serverRow, change, ledger, outbox, clashes, pulledTo, choice>>
      /\ UNCHANGED <<connectivity, mishaps>>
  BY DEF PageWritten, serverSide
<1>3. Grows
  BY <1>2, NothingGrows
<1>4. runs' \in [Slots -> RunState] /\ RunsGood'
  <2>1. /\ save \in RunState /\ RunGood(save, serverRow'.version, ledger', clashes')
        /\ check \in RunState /\ RunGood(check, serverRow'.version, ledger', clashes')
    BY <1>1 DEF RunState, RunGood
  <2>2. Moves(s, save) \/ Moves(s, check)
    BY DEF PageWritten
  <2> QED
    BY <1>3, <2>1, <2>2, RunsMove
<1>5. mine' \in Copy /\ MinePast'
  <2>1. there.version \in Nat /\ there.content \in S!Contents /\ mine \in Copy
    BY <1>1, MobileTypes DEF S!Row
  <2>2. \/ mine' = mine
        \/ mine' = [mine EXCEPT !.deleted = TRUE, !.version = there.version, !.status = "synced"]
        \/ mine' = [version |-> there.version, deleted |-> FALSE, content |-> there.content,
                    status |-> "synced"]
    BY DEF PageWritten
  <2>3. mine' = mine => MinePast'
    BY <1>2 DEF MobileInv, MinePast
  <2>4. mine' \in Copy /\ (mine' = mine \/ mine'.version = there.version)
    <3>1. CASE mine' = mine
      BY <2>1, <3>1
    <3>2. CASE mine' = [mine EXCEPT !.deleted = TRUE, !.version = there.version, !.status = "synced"]
      BY <2>1, <3>2 DEF Copy
    <3>3. CASE mine' = [version |-> there.version, deleted |-> FALSE, content |-> there.content,
                        status |-> "synced"]
      BY <2>1, <3>3 DEF Copy
    <3> QED
      BY <2>2, <3>1, <3>2, <3>3
  <2> QED
    BY <1>1, <1>2, <2>3, <2>4 DEF MinePast
<1>6. AnswersPast' /\ ClashesPast' /\ OutboxGood'
  BY <1>2, <1>3, PastStays, MobileTypes, OutboxStaysGood
<1>7. MobileTypeOK'
  BY <1>2, <1>4, <1>5, MobileTypes DEF MobileTypeOK, LedgerType
<1> QED
  BY <1>4, <1>5, <1>6, <1>7 DEF MobileInv

LEMMA CursorKeeps ==
  ASSUME MobileInv, NEW s \in Slots, CursorSaved(s)
  PROVE  MobileInv'
<1> DEFINE check == [at |-> "check"]
<1>1. runs[s].next \in Nat
  BY MobileTypes, RunShapes DEF CursorSaved, At
<1>2. UNCHANGED <<serverRow, change, ledger, mine, outbox, clashes, choice, connectivity, mishaps>>
      /\ pulledTo' = runs[s].next
  BY DEF CursorSaved, serverSide
<1>3. Grows
  BY <1>2, NothingGrows
<1>4. runs' \in [Slots -> RunState] /\ RunsGood'
  <2>1. check \in RunState /\ RunGood(check, serverRow'.version, ledger', clashes')
    BY DEF RunState, RunGood
  <2>2. Moves(s, check)
    BY DEF CursorSaved
  <2> QED
    BY <1>3, <2>1, <2>2, RunsMove
<1>5. AnswersPast' /\ ClashesPast' /\ OutboxGood' /\ MinePast'
  BY <1>2, <1>3, PastStays, MobileTypes, OutboxStaysGood DEF MobileInv, MinePast
<1>6. MobileTypeOK'
  BY <1>1, <1>2, <1>4, MobileTypes DEF MobileTypeOK, LedgerType
<1> QED
  BY <1>4, <1>5, <1>6 DEF MobileInv

-----------------------------------------------------------------------------
\* The user's steps leave the server and the runs alone.
LEMMA AppOnly ==
  ASSUME MobileInv,
         UNCHANGED <<serverRow, change, ledger, runs, pulledTo, connectivity, mishaps>>,
         clashes' \in Seq(Clash), clashes' = clashes \/ clashes' # << >>, ClashesPast',
         choice' = NoChoice
           \/ choice' \in [at: 1 .. Len(clashes'), how: {"kept_server", "kept_local"}],
         mine' \in Copy, MinePast', outbox' \in [Edits -> Operation],
         \A e \in Edits : \/ outbox'[e] = outbox[e]
                          \/ OperationGood(outbox'[e], e, ledger', clashes')
  PROVE  MobileInv'
<1>1. Grows
  BY MobileTypes DEF Grows
<1>2. runs' \in [Slots -> RunState] /\ RunsGood'
  BY RunsRest
<1>3. AnswersPast' /\ OutboxGood'
  BY <1>1, OutboxStaysGood DEF MobileInv, AnswersPast
<1>4. MobileTypeOK'
  BY <1>2, MobileTypes DEF MobileTypeOK, LedgerType, NoChoice
<1> QED
  BY <1>2, <1>3, <1>4 DEF MobileInv

LEMMA EnqueueKeeps ==
  ASSUME MobileInv, NEW e \in Edits, NEW kind \in {"none", "create", "update", "delete"},
         NEW base \in Nat, NEW content \in S!Contents, Enqueue(e, kind, base, content)
  PROVE  /\ outbox' \in [Edits -> Operation]
         /\ \A f \in Edits : outbox'[f] = outbox[f]
                             \/ \A led, cl : OperationGood(outbox'[f], f, led, cl)
<1> DEFINE place == Cardinality(Enqueued) + 1
           o == [kind |-> kind, base |-> base, content |-> content, status |-> "pending",
                 tries |-> 0, waiting |-> FALSE, place |-> place]
<1>1. place \in Nat
  <2>1. IsFiniteSet(Enqueued)
    BY MobileAssumption, FS_Subset DEF Enqueued
  <2> QED
    BY <2>1, FS_CardinalityType
<1>2. o \in Operation /\ \A f, led, cl : OperationGood(o, f, led, cl)
  <2> HIDE DEF place
  <2> QED
    BY <1>1 DEF Operation, OperationGood
<1>3. outbox' = [outbox EXCEPT ![e] = o]
  BY DEF Enqueue
<1> HIDE DEF o
<1> QED
  BY <1>2, <1>3, MobileTypes

\* A conflict is marked resolved: the sequence keeps its shape.
LEMMA ResolvedKeeps ==
  ASSUME MobileInv, choice # NoChoice, Resolved
  PROVE  /\ clashes' \in Seq(Clash) /\ clashes' # << >> /\ ClashesPast'
         /\ choice' = NoChoice /\ choice.at \in DOMAIN clashes
         /\ UNCHANGED <<serverRow, change, ledger, runs, pulledTo, connectivity, mishaps>>
<1> DEFINE i == choice.at
           c == [clashes[i] EXCEPT !.resolution = choice.how]
<1>1. /\ clashes \in Seq(Clash) /\ Len(clashes) \in Nat
      /\ i \in 1 .. Len(clashes) /\ choice.how \in {"kept_server", "kept_local"}
      /\ DOMAIN clashes = 1 .. Len(clashes)
  BY MobileTypes
<1>2. clashes[i] \in Clash
  BY <1>1, ClashTypes
<1>3. c \in Clash /\ c.version = clashes[i].version
  BY <1>1, <1>2 DEF Clash
<1>4. clashes' = [clashes EXCEPT ![i] = c]
  BY DEF Resolved
<1> HIDE DEF c
<1>5. /\ clashes' \in Seq(Clash) /\ Len(clashes') = Len(clashes)
      /\ DOMAIN clashes' = DOMAIN clashes
      /\ \A k \in DOMAIN clashes : clashes'[k] = IF k = i THEN c ELSE clashes[k]
  BY <1>1, <1>3, <1>4
<1>6. clashes' # << >>
  BY <1>1, <1>5
<1>7. UNCHANGED <<serverRow, change, ledger, runs, pulledTo, connectivity, mishaps>>
      /\ choice' = NoChoice
  BY DEF Resolved, serverSide
<1>8. ClashesPast'
  <2>1. \A k \in DOMAIN clashes : clashes[k].version <= serverRow.version
    BY DEF MobileInv, ClashesPast
  <2>2. \A k \in DOMAIN clashes' : clashes'[k].version <= serverRow.version
    BY <1>1, <1>3, <1>5, <2>1
  <2> QED
    BY <1>7, <2>2 DEF ClashesPast
<1> QED
  BY <1>1, <1>5, <1>6, <1>7, <1>8

LEMMA EditsKeep ==
  ASSUME MobileInv, NEW e \in Edits,
         CreateHere(e) \/ EditLands(e) \/ EditBegins(e, "update") \/ EditBegins(e, "delete")
  PROVE  MobileInv'
<1>1. /\ UNCHANGED <<serverRow, change, ledger, runs, pulledTo, connectivity, mishaps>>
      /\ clashes' = clashes /\ choice' = choice
  BY DEF CreateHere, EditLands, EditBegins, serverSide
<1>2. clashes' \in Seq(Clash) /\ ClashesPast'
      /\ (choice' = NoChoice
          \/ choice' \in [at: 1 .. Len(clashes'), how: {"kept_server", "kept_local"}])
  BY <1>1, MobileTypes, PastStays
<1>3. outbox[e] \in Operation /\ mine \in Copy /\ e \in S!Contents /\ NoEdit \in S!Contents
  BY MobileTypes DEF S!Contents
<1>4. CASE CreateHere(e)
  <2>1. mine' \in Copy /\ MinePast'
    BY <1>3, <1>4 DEF CreateHere, Copy, MinePast
  <2>2. Enqueue(e, "create", 0, e)
    BY <1>4 DEF CreateHere
  <2>3. /\ outbox' \in [Edits -> Operation]
        /\ \A f \in Edits : outbox'[f] = outbox[f]
                            \/ \A led, cl : OperationGood(outbox'[f], f, led, cl)
    BY <1>3, <2>2, EnqueueKeeps
  <2> QED
    BY <1>1, <1>2, <2>1, <2>3, AppOnly
<1>5. CASE EditLands(e)
  <2>1. /\ outbox[e].kind \in {"none", "create", "update", "delete"} /\ outbox[e].base \in Nat
        /\ outbox[e].content \in S!Contents
        /\ Enqueue(e, outbox[e].kind, outbox[e].base, outbox[e].content)
    BY <1>3, <1>5 DEF EditLands, Operation
  <2>2. mine' \in Copy /\ mine'.status = "pending"
    <3>1. PICK version \in Nat, content \in S!Contents, deleted \in BOOLEAN :
            mine' = [mine EXCEPT !.version = version, !.status = "pending",
                                 !.content = content, !.deleted = deleted]
      <4>1. /\ mine.version + 1 \in Nat
            /\ (IF outbox[e].kind = "update" THEN e ELSE mine.content) \in S!Contents
            /\ (mine.deleted \/ outbox[e].kind = "delete") \in BOOLEAN
        BY <1>3 DEF Copy
      <4>2. mine' = [mine EXCEPT !.version = mine.version + 1, !.status = "pending",
                       !.content = IF outbox[e].kind = "update" THEN e ELSE mine.content,
                       !.deleted = mine.deleted \/ outbox[e].kind = "delete"]
        BY <1>5 DEF EditLands
      <4> QED
        BY <4>1, <4>2, Zenon
    <3> QED
      BY <1>3, <3>1 DEF Copy
  <2>3. MinePast'
    BY <2>2 DEF MinePast
  <2>4. /\ outbox' \in [Edits -> Operation]
        /\ \A f \in Edits : outbox'[f] = outbox[f]
                            \/ \A led, cl : OperationGood(outbox'[f], f, led, cl)
    BY <2>1, EnqueueKeeps
  <2> QED
    BY <1>1, <1>2, <2>2, <2>3, <2>4, AppOnly
<1>6. ASSUME NEW kind \in {"update", "delete"}, EditBegins(e, kind)
      PROVE  MobileInv'
  <2> DEFINE content == IF kind = "update" THEN e ELSE NoEdit
             o == [NoOperation EXCEPT !.kind = kind, !.base = mine.version, !.status = "typed",
                                      !.content = content]
  <2>1. content \in S!Contents /\ mine.version \in Nat
    BY <1>3 DEF Copy
  <2>2. o \in Operation /\ o.status = "typed"
    <3> HIDE DEF content
    <3> QED
      BY <1>6, <2>1 DEF NoOperation, Operation
  <2>3. outbox' = [outbox EXCEPT ![e] = o] /\ mine' = mine
    BY <1>6 DEF EditBegins
  <2>4. /\ outbox' \in [Edits -> Operation]
        /\ \A f \in Edits : \/ outbox'[f] = outbox[f]
                            \/ OperationGood(outbox'[f], f, ledger', clashes')
    <3> HIDE DEF o
    <3> QED
      BY <2>2, <2>3, MobileTypes DEF OperationGood
  <2>5. MinePast'
    BY <1>1, <2>3 DEF MobileInv, MinePast
  <2> QED
    BY <1>1, <1>2, <1>3, <2>3, <2>4, <2>5, AppOnly
<1> QED
  BY <1>4, <1>5, <1>6

LEMMA DialogKeeps ==
  ASSUME MobileInv,
         \/ \E i \in DOMAIN clashes, how \in {"kept_server", "kept_local"} : Choose(i, how)
         \/ TakeTheirs \/ ChoiceThrows \/ \E e \in Edits : TakeOurs(e)
  PROVE  MobileInv'
<1>1. mine \in Copy /\ clashes \in Seq(Clash) /\ outbox \in [Edits -> Operation]
      /\ DOMAIN clashes = 1 .. Len(clashes)
  BY MobileTypes
<1>2. ASSUME NEW i \in DOMAIN clashes, NEW how \in {"kept_server", "kept_local"}, Choose(i, how)
      PROVE  MobileInv'
  <2>1. /\ UNCHANGED <<serverRow, change, ledger, runs, pulledTo, connectivity, mishaps>>
        /\ clashes' = clashes /\ mine' = mine /\ outbox' = outbox
        /\ choice' = [at |-> i, how |-> how]
    BY <1>2 DEF Choose, serverSide
  <2>2. choice' \in [at: 1 .. Len(clashes'), how: {"kept_server", "kept_local"}]
    BY <1>1, <1>2, <2>1
  <2>3. ClashesPast' /\ MinePast'
    BY <2>1, PastStays DEF MobileInv, MinePast
  <2> QED
    BY <1>1, <2>1, <2>2, <2>3, AppOnly
<1>3. CASE TakeTheirs
  <2> DEFINE c == clashes[choice.at]
  <2>1. choice # NoChoice /\ Resolved /\ outbox' = outbox
    BY <1>3 DEF TakeTheirs, NoChoice
  <2>2. c \in Clash /\ c.version <= serverRow.version
    BY <2>1, ResolvedKeeps, ClashTypes DEF MobileInv, ClashesPast
  <2>3. \/ mine' = [mine EXCEPT !.deleted = TRUE, !.version = c.version, !.status = "synced"]
        \/ mine' = [version |-> c.version, deleted |-> FALSE, content |-> c.payload,
                    status |-> "synced"]
    BY <1>3 DEF TakeTheirs
  <2>4. c.version \in Nat /\ c.payload \in S!Contents
    BY <2>2 DEF Clash
  <2>5. mine' \in Copy /\ mine'.version = c.version
    <3> HIDE DEF c
    <3>1. CASE mine' = [mine EXCEPT !.deleted = TRUE, !.version = c.version, !.status = "synced"]
      BY <1>1, <2>4, <3>1 DEF Copy
    <3>2. CASE mine' = [version |-> c.version, deleted |-> FALSE, content |-> c.payload,
                        status |-> "synced"]
      BY <2>4, <3>2 DEF Copy
    <3> QED
      BY <2>3, <3>1, <3>2
  <2>6. MinePast'
    BY <2>1, <2>2, <2>5, ResolvedKeeps DEF MinePast
  <2> QED
    BY <1>1, <2>1, <2>5, <2>6, ResolvedKeeps, AppOnly
<1>4. ASSUME NEW e \in Edits, TakeOurs(e)
      PROVE  MobileInv'
  <2> DEFINE c == clashes[choice.at]
  <2>1. /\ choice # NoChoice /\ Resolved
        /\ mine' = [mine EXCEPT !.version = c.version, !.status = "pending"]
        /\ Enqueue(e, "update", c.version, outbox[c.edit].content)
    BY <1>4 DEF TakeOurs, NoChoice
  <2>2. c \in Clash
    BY <2>1, ResolvedKeeps, ClashTypes
  <2>3. c.version \in Nat /\ c.edit \in Edits
    BY <2>2 DEF Clash
  <2> HIDE DEF c
  <2>4. outbox[c.edit].content \in S!Contents
    BY <1>1, <2>3 DEF Operation
  <2>5. mine' \in Copy /\ MinePast'
    BY <1>1, <2>1, <2>3 DEF Copy, MinePast
  <2>6. /\ outbox' \in [Edits -> Operation]
        /\ \A f \in Edits : outbox'[f] = outbox[f]
                            \/ \A led, cl : OperationGood(outbox'[f], f, led, cl)
    BY <2>1, <2>3, <2>4, EnqueueKeeps
  <2> QED
    BY <2>1, <2>5, <2>6, ResolvedKeeps, AppOnly
<1>5. CASE ChoiceThrows
  <2>1. /\ UNCHANGED <<serverRow, change, ledger, runs, pulledTo, connectivity, mishaps>>
        /\ clashes' = clashes /\ mine' = mine /\ outbox' = outbox /\ choice' = NoChoice
    BY <1>5 DEF ChoiceThrows, serverSide
  <2>2. ClashesPast' /\ MinePast'
    BY <2>1, PastStays DEF MobileInv, MinePast
  <2> QED
    BY <1>1, <2>1, <2>2, AppOnly
<1> QED
  BY <1>2, <1>3, <1>4, <1>5

LEMMA BackoffKeeps ==
  ASSUME MobileInv, NEW e \in Edits, BackoffOver(e)
  PROVE  MobileInv'
<1> DEFINE o == [outbox[e] EXCEPT !.waiting = FALSE]
<1>1. /\ UNCHANGED <<serverRow, change, ledger, runs, pulledTo, connectivity, mishaps>>
      /\ clashes' = clashes /\ choice' = choice /\ mine' = mine
      /\ outbox' = [outbox EXCEPT ![e] = o]
  BY DEF BackoffOver, serverSide
<1>2. outbox[e] \in Operation /\ outbox[e].status = "pending"
  BY MobileTypes DEF BackoffOver
<1>3. o \in Operation /\ o.status = "pending"
  BY <1>2 DEF Operation
<1>4. /\ outbox' \in [Edits -> Operation]
      /\ \A f \in Edits : \/ outbox'[f] = outbox[f]
                          \/ OperationGood(outbox'[f], f, ledger', clashes')
  <2> HIDE DEF o
  <2> QED
    BY <1>1, <1>3, MobileTypes DEF OperationGood
<1>5. ClashesPast' /\ MinePast'
  BY <1>1, PastStays DEF MobileInv, MinePast
<1> QED
  BY <1>1, <1>4, <1>5, MobileTypes, AppOnly

LEMMA KilledKeeps ==
  ASSUME MobileInv, Killed
  PROVE  MobileInv'
<1>1. /\ UNCHANGED <<serverRow, change, ledger, mine, clashes, pulledTo>>
      /\ runs' = [s \in Slots |-> Rest] /\ choice' = NoChoice /\ connectivity' = "local"
      /\ outbox' = [e \in Edits |-> IF outbox[e].status = "typed" THEN NoOperation ELSE outbox[e]]
  BY DEF Killed, serverSide
<1>2. mishaps' \in 0 .. MaxMishaps
  BY MobileTypes, MobileAssumption DEF Killed, Mishap
<1>3. NoOperation \in Operation /\ NoOperation.status = "unused" /\ Rest \in RunState
  BY DEF NoOperation, Operation, S!Contents, Rest, RunState
<1>4. Grows
  BY <1>1, NothingGrows
<1>5. outbox' \in [Edits -> Operation] /\ OutboxGood'
  <2>1. outbox' \in [Edits -> Operation]
    BY <1>1, <1>3, MobileTypes
  <2>2. \A e \in Edits : \/ outbox'[e] = outbox[e]
                         \/ OperationGood(outbox'[e], e, ledger', clashes')
    BY <1>1, <1>3 DEF OperationGood
  <2> QED
    BY <1>4, <2>1, <2>2, OutboxStaysGood
<1>6. runs' \in [Slots -> RunState] /\ RunsGood'
  BY <1>1, <1>3 DEF RunsGood, RunGood, Rest
<1>7. AnswersPast' /\ ClashesPast' /\ MinePast'
  BY <1>1, PastStays DEF MobileInv, MinePast
<1>8. MobileTypeOK'
  BY <1>1, <1>2, <1>5, <1>6, MobileTypes DEF MobileTypeOK, LedgerType
<1> QED
  BY <1>5, <1>6, <1>7, <1>8 DEF MobileInv

LEMMA ElsewhereKeeps ==
  ASSUME MobileInv, Elsewhere
  PROVE  MobileInv'
<1>1. /\ UNCHANGED <<ledger, mine, outbox, clashes, pulledTo, choice, runs, connectivity>>
      /\ change' = change + 1 /\ Mishap
  BY DEF Elsewhere, App
<1>2. serverRow' \in S!Row /\ serverRow.version <= serverRow'.version
  <2>1. serverRow \in S!Row /\ serverRow.version \in Nat
    BY MobileTypes
  <2>2. CASE ~S!Exists(serverRow) /\ serverRow' = S!Generated
    BY <2>1, <2>2 DEF S!Exists, S!Generated, S!Row, S!Contents
  <2>3. CASE serverRow' = [serverRow EXCEPT !.version = @ + 1, !.content = Online]
    <3> DEFINE above == serverRow.version + 1
    <3>1. above \in Nat /\ serverRow.version <= above
      BY <2>1
    <3>2. serverRow' = [serverRow EXCEPT !.version = above, !.content = Online]
      BY <2>3
    <3>3. Online \in S!Contents
      BY DEF S!Contents
    <3> HIDE DEF above
    <3>4. serverRow' \in S!Row /\ serverRow'.version = above
      BY <2>1, <3>1, <3>2, <3>3 DEF S!Row
    <3> QED
      BY <3>1, <3>4
  <2>4. CASE \E version \in {serverRow.version, serverRow.version + 1} :
                serverRow' = [serverRow EXCEPT !.version = version, !.deleted = TRUE]
    <3>1. PICK version \in {serverRow.version, serverRow.version + 1} :
                serverRow' = [serverRow EXCEPT !.version = version, !.deleted = TRUE]
      BY <2>4
    <3>2. version \in Nat /\ serverRow.version <= version
      BY <2>1
    <3>3. serverRow' \in S!Row /\ serverRow'.version = version
      BY <2>1, <3>1, <3>2 DEF S!Row
    <3> QED
      BY <3>2, <3>3
  <2> QED
    BY <2>2, <2>3, <2>4 DEF Elsewhere
<1>3. Grows
  BY <1>1, <1>2, MobileTypes DEF Grows
<1>4. runs' \in [Slots -> RunState] /\ RunsGood'
  BY <1>1, <1>3, MobileTypes, RunStaysGood DEF RunsGood
<1>5. OutboxGood'
  BY <1>1, <1>3, MobileTypes, OutboxStaysGood
<1>6. AnswersPast' /\ ClashesPast' /\ MinePast'
  <2>1. serverRow.version \in Nat /\ serverRow'.version \in Nat
    BY <1>2, MobileTypes DEF S!Row
  <2>2. \A e \in Edits : ledger[e] # S!NoEntry => ledger[e].version \in Nat
    BY MobileTypes DEF LedgerType, S!Entry
  <2>3. \A i \in DOMAIN clashes : clashes[i].version \in Nat
    BY ClashTypes DEF Clash
  <2>4. mine.version \in Nat
    BY MobileTypes DEF Copy
  <2>5. AnswersPast'
    BY <1>1, <1>2, <2>1, <2>2 DEF MobileInv, AnswersPast
  <2>6. ClashesPast'
    BY <1>1, <1>2, <2>1, <2>3 DEF MobileInv, ClashesPast
  <2>7. MinePast'
    BY <1>1, <1>2, <2>1, <2>4 DEF MobileInv, MinePast
  <2> QED
    BY <2>5, <2>6, <2>7
<1>7. mishaps' \in 0 .. MaxMishaps /\ change' \in Nat
  BY <1>1, MobileTypes, MobileAssumption DEF Mishap
<1>8. MobileTypeOK'
  BY <1>1, <1>2, <1>4, <1>7, MobileTypes DEF MobileTypeOK, LedgerType, NoChoice
<1> QED
  BY <1>4, <1>5, <1>6, <1>8 DEF MobileInv

LEMMA MobileInvNext == MobileInv /\ [MobileNext]_mobileVars => MobileInv'
<1> SUFFICES ASSUME MobileInv, [MobileNext]_mobileVars
             PROVE  MobileInv'
  OBVIOUS
<1>1. CASE MobileUser
  BY <1>1, EditsKeep, DialogKeeps DEF MobileUser
<1>2. ASSUME NEW s \in Slots, MobileRun(s)
      PROVE  MobileInv'
  BY <1>2, QuietSteps, SendKeeps, AnswerKeeps, DoneKeeps, AppliedKeeps, ClashKeeps, CancelKeeps,
     TriesKeep, PageKeeps, CursorKeeps DEF MobileRun
<1>3. CASE Killed
  BY <1>3, KilledKeeps
<1>4. CASE Elsewhere
  BY <1>4, ElsewhereKeeps
<1>5. ASSUME NEW e \in Edits, BackoffOver(e)
      PROVE  MobileInv'
  BY <1>5, BackoffKeeps
<1>6. CASE UNCHANGED mobileVars
  <2>1. UNCHANGED <<serverRow, change, ledger, mine, outbox, clashes, pulledTo, runs, choice,
                    connectivity, mishaps>>
    BY <1>6 DEF mobileVars
  <2>2. Grows
    BY <2>1, NothingGrows
  <2>3. OutboxGood' /\ RunsGood' /\ AnswersPast' /\ ClashesPast' /\ MinePast'
    BY <2>1, <2>2, MobileTypes, OutboxStaysGood, RunsRest, PastStays DEF MobileInv, MinePast
  <2>4. MobileTypeOK'
    BY <2>1 DEF MobileInv, MobileTypeOK, NoChoice
  <2> QED
    BY <2>3, <2>4 DEF MobileInv
<1> QED
  BY <1>1, <1>2, <1>3, <1>4, <1>5, <1>6 DEF MobileNext

LEMMA MobileInvImplies == MobileInv => EditsKept
  BY DEF MobileInv, OutboxGood, OperationGood, IsApplied, MinePast, EditsKept

\* However sync runs, edits, the conflict dialog, failures and kills interleave
\* on the phone, no edit leaves its queue unless the server has applied it, its
\* attempts are used up or a conflict is on disk (mobile/sync/queue.js), and the
\* version of a report shown as synced is one the server has reached, for any
\* number of edits, runs and failures.  Of the report's text it says nothing.
THEOREM PhoneKeepsEdits == MobileSpec => []EditsKept
<1>1. MobileInit => MobileInv
  BY MobileInvInit
<1>2. MobileInv /\ [MobileNext]_mobileVars => MobileInv'
  BY MobileInvNext
<1>3. MobileInv => EditsKept
  BY MobileInvImplies
<1> QED
  BY <1>1, <1>2, <1>3, PTL DEF MobileSpec

-----------------------------------------------------------------------------
(***************************************************************************)
(* The union.  A step of it is a step of one queue that leaves the other    *)
(* alone, so what holds of a queue holds of it in the union.                *)
(***************************************************************************)
LEMMA EachQueue == RetriesSpec => Spec /\ MobileSpec
<1>1. RetriesInit => Init /\ MobileInit
  BY DEF RetriesInit
<1>2. [RetriesNext]_RetriesVars => [Next]_vars /\ [MobileNext]_mobileVars
  BY DEF RetriesNext, RetriesVars
<1> QED
  BY <1>1, <1>2, PTL DEF RetriesSpec, Spec, MobileSpec

\* The rows of both queues, the workers and the runs keep their types, for any number
\* of them (bci/services/jobQueue.js, client/mobile/sync/queue.js).
THEOREM RetriesTyped == RetriesSpec => []RetriesTypeOK
<1>1. MobileInit => MobileInv
  BY MobileInvInit
<1>2. MobileInv /\ [MobileNext]_mobileVars => MobileInv'
  BY MobileInvNext
<1>3. MobileInv => MobileTypeOK
  BY DEF MobileInv
<1>4. MobileSpec => []MobileTypeOK
  BY <1>1, <1>2, <1>3, PTL DEF MobileSpec
<1>5. TypeOK /\ MobileTypeOK => RetriesTypeOK
  BY DEF RetriesTypeOK
<1> QED
  BY <1>4, <1>5, EachQueue, TypeCorrect, PTL

\* What the run of the union checks of either queue holds in it: no attempt is run
\* twice, attempts end, and the phone loses no edit.
THEOREM RetriesKeepAll == RetriesSpec => [](AttemptsExclusive /\ AttemptsLimited /\ EditsKept)
  BY EachQueue, NoAttemptTwice, RetriesAreLimited, PhoneKeepsEdits, PTL

=============================================================================
