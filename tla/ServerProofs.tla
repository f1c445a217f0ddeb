--------------------------- MODULE ServerProofs ---------------------------
(***************************************************************************)
(* The server: proofs about its queue of hardware verifications, the pool  *)
(* behind its concurrency gates, the accounts and their history, the       *)
(* ranges of a download, and who is shown as online; and that these and    *)
(* what BciProofs shows hold in the union they are checked in.             *)
(***************************************************************************)
EXTENDS MCServerProcess, BciProofs

-----------------------------------------------------------------------------
(***************************************************************************)
(* That no job is verified by two instances while none works longer than   *)
(* STALE_PROCESSING_MS, for every number of instances and jobs.  ClaimsOK    *)
(* is needed beside it: an instance that lets go of a job must not hold it  *)
(* under a second claim.  RowsOK bounds the attempts.                       *)
(***************************************************************************)
InHand(w) == work[w].held \cup work[w].now

\* A row in processing, and a claim, have an attempt left.
RowsOK == \A j \in HwJobs : hw[j].status = "processing" => hw[j].attempts < HwMaxAttempts

\* The claims of one instance are of different jobs, and one is current.
ClaimsOf(w) ==
    /\ \A c \in InHand(w) : c.attempts < HwMaxAttempts
    /\ \A c, d \in InHand(w) : c.job = d.job => c = d
    /\ \A c, d \in work[w].now : c = d
    /\ work[w].now \cap work[w].held = {}
ClaimsOK == \A w \in HwWorkers : ClaimsOf(w)

\* A job in hand is in processing and not stale.
FreshOK == ~outlived => \A w \in HwWorkers, j \in HwJobs : Holds(w, j) => hw[j].status = "processing" /\ ~hw[j].stale
Apart == ~outlived => \A v, w \in HwWorkers, j \in HwJobs : Holds(v, j) /\ Holds(w, j) => v = w

HwInv == HwTypeOK /\ RowsOK /\ ClaimsOK /\ FreshOK /\ Apart

-----------------------------------------------------------------------------
LEMMA HwInvImplies == HwInv => NoDoubleWork
  BY DEF HwInv, FreshOK, Apart, NoDoubleWork

LEMMA HwInvInit == HwInit => HwInv
<1> SUFFICES ASSUME HwInit
             PROVE  HwInv
  OBVIOUS
<1>1. HwTypeOK
  <2>1. hw \in [HwJobs -> [status : HwStatuses, attempts : 0..HwMaxAttempts, stale : BOOLEAN]]
    BY HardwareAssumption DEF HwInit, HwRow, HwStatuses
  <2>2. sections \in [HwJobs -> 0..MaxSections]
    BY HardwareAssumption DEF HwInit
  <2>3. work \in [HwWorkers -> [held : SUBSET Claims, now : SUBSET Claims, at : HwSteps]]
    BY DEF HwInit, HwResting, HwSteps
  <2> QED
    BY <2>1, <2>2, <2>3 DEF HwInit, HwTypeOK, HwResting
<1>2. RowsOK /\ ClaimsOK /\ FreshOK /\ Apart
  BY DEF HwInit, RowsOK, ClaimsOK, ClaimsOf, InHand, FreshOK, Apart, Holds, HwRow, HwResting
<1> QED
  BY <1>1, <1>2 DEF HwInv

\* The claims stay, and so does what is known of them.
LEMMA SameClaims ==
  ASSUME HwInv, \A w \in HwWorkers : work'[w].held = work[w].held /\ work'[w].now = work[w].now,
         outlived' = outlived
  PROVE  /\ ClaimsOK' /\ Apart'
         /\ \A w \in HwWorkers, j \in HwJobs : Holds(w, j)' <=> Holds(w, j)
  BY DEF HwInv, ClaimsOK, ClaimsOf, InHand, Apart, Holds

\* An instance lets go of claims, and the others keep theirs.
LEMMA FewerClaims ==
  ASSUME HwInv, NEW w \in HwWorkers,
         \A v \in HwWorkers \ {w} : work'[v] = work[v],
         work'[w].held \subseteq work[w].held, work'[w].now = {}, outlived' = outlived
  PROVE  /\ ClaimsOK' /\ Apart'
         /\ \A v \in HwWorkers, j \in HwJobs : Holds(v, j)' => Holds(v, j)
<1>1. \A v \in HwWorkers : InHand(v)' \subseteq InHand(v)
  BY DEF InHand
<1>2. \A v \in HwWorkers, j \in HwJobs : Holds(v, j)' => Holds(v, j)
  BY <1>1 DEF Holds, InHand
<1>3. ClaimsOK'
  BY <1>1 DEF HwInv, ClaimsOK, ClaimsOf
<1> QED
  BY <1>2, <1>3 DEF HwInv, Apart

LEMMA ScheduleStep ==
  ASSUME HwInv, NEW j \in HwJobs, NEW enqueued \in BOOLEAN, Schedule(j, enqueued)
  PROVE  HwInv'
<1>1. HwTypeOK'
  BY HardwareAssumption DEF HwInv, HwTypeOK, Schedule, HwRow, HwStatuses
<1>2. RowsOK' /\ FreshOK'
  BY DEF HwInv, HwTypeOK, RowsOK, FreshOK, Holds, Schedule, HwRow
<1> QED
  BY <1>1, <1>2, SameClaims DEF HwInv, Schedule

\* What is taken back is stale, so nobody holds it unless somebody was outlived.
LEMMA ReclaimStep ==
  ASSUME HwInv, NEW w \in HwWorkers, Reclaim(w)
  PROVE  HwInv'
<1>1. \A j \in HwJobs : /\ Reclaimed(j) \in [status : HwStatuses, attempts : 0..HwMaxAttempts, stale : BOOLEAN]
                        /\ Reclaimed(j).status = "processing" => Reclaimed(j) = hw[j]
  <2> TAKE j \in HwJobs
  <2>1. CASE Orphaned(j)
    <3>1. hw[j].attempts \in Nat /\ hw[j].attempts < HwMaxAttempts
      BY <2>1, HardwareAssumption DEF HwInv, HwTypeOK, RowsOK, Orphaned
    <3> QED
      BY <2>1, <3>1, HardwareAssumption DEF Reclaimed, HwRow, HwStatuses
  <2>2. CASE ~Orphaned(j)
    BY <2>2 DEF Reclaimed, HwInv, HwTypeOK
  <2> QED
    BY <2>1, <2>2
<1>2. HwTypeOK'
  BY <1>1 DEF HwInv, HwTypeOK, Reclaim
<1>3. RowsOK'
  BY <1>1 DEF HwInv, RowsOK, Reclaim
<1>4. FreshOK'
  BY DEF HwInv, FreshOK, Reclaim, Reclaimed, Orphaned, Holds
<1> QED
  BY <1>2, <1>3, <1>4, SameClaims DEF HwInv, Reclaim

\* The rows claimed are pending, so nobody holds them.
LEMMA ClaimStep ==
  ASSUME HwInv, NEW w \in HwWorkers, NEW jobs \in SUBSET Claimable, Claim(w, jobs)
  PROVE  HwInv'
<1> DEFINE ClaimOf(j) == [job |-> j, attempts |-> hw[j].attempts]
           batch == {ClaimOf(j) : j \in jobs}
<1>1. jobs \subseteq HwJobs /\ \A j \in jobs : hw[j].status = "pending" /\ hw[j].attempts < HwMaxAttempts
  BY DEF Claimable
<1>2. \A c \in batch : c \in Claims /\ c.job \in jobs /\ c.attempts < HwMaxAttempts
  BY <1>1 DEF HwInv, HwTypeOK, Claims
<1>3. \A c, d \in batch : c.job = d.job => c = d
  OBVIOUS
<1>4. /\ work' = [work EXCEPT ![w] = [held |-> batch, now |-> {}, at |-> "next"]]
      /\ UNCHANGED <<sections, outlived>>
  BY DEF Claim
<1>5. \A j \in HwJobs :
          /\ j \notin jobs => hw'[j] = hw[j]
          /\ j \in jobs => hw'[j].status = "processing" /\ hw'[j].attempts = hw[j].attempts /\ ~hw'[j].stale
  BY DEF Claim, HwRow
<1> HIDE DEF batch
<1>6. HwTypeOK'
  <2>1. hw' \in [HwJobs -> [status : HwStatuses, attempts : 0..HwMaxAttempts, stale : BOOLEAN]]
    BY <1>1 DEF HwInv, HwTypeOK, Claim, HwRow, HwStatuses
  <2>2. batch \subseteq Claims
    BY <1>2
  <2> QED
    BY <1>4, <2>1, <2>2 DEF HwInv, HwTypeOK, HwSteps
<1>7. RowsOK'
  BY <1>1, <1>5 DEF HwInv, RowsOK
<1>8. work'[w].held = batch /\ work'[w].now = {} /\ \A v \in HwWorkers \ {w} : work'[v] = work[v]
  BY <1>4 DEF HwInv, HwTypeOK
<1>9. ClaimsOK'
  BY <1>2, <1>3, <1>8 DEF HwInv, ClaimsOK, ClaimsOf, InHand
<1>10. \A v \in HwWorkers, j \in HwJobs : Holds(v, j)' => IF v = w THEN j \in jobs ELSE Holds(v, j)
  BY <1>2, <1>8 DEF Holds
<1>11. FreshOK'
  BY <1>1, <1>4, <1>5, <1>10 DEF HwInv, FreshOK
<1>12. Apart'
  <2>1. ~outlived => \A v \in HwWorkers, j \in jobs : ~Holds(v, j)
    BY <1>1 DEF HwInv, FreshOK
  <2> QED
    BY <1>4, <1>10, <2>1 DEF HwInv, Apart
<1> QED
  BY <1>6, <1>7, <1>9, <1>11, <1>12 DEF HwInv

LEMMA NextStep ==
  ASSUME HwInv, NEW w \in HwWorkers, NextOfBatch(w)
  PROVE  HwInv'
<1>1. PICK c \in work[w].held :
          work' = [work EXCEPT ![w] = [held |-> work[w].held \ {c}, now |-> {c}, at |-> "verify"]]
  BY DEF NextOfBatch
<1>2. UNCHANGED <<hw, sections, outlived>> /\ work[w].now = {}
  BY DEF NextOfBatch, At, HwInv, HwTypeOK
<1>3. /\ work'[w].held = work[w].held \ {c} /\ work'[w].now = {c}
      /\ \A v \in HwWorkers \ {w} : work'[v] = work[v]
  BY <1>1 DEF HwInv, HwTypeOK
<1>4. HwTypeOK'
  <2>1. c \in Claims
    BY DEF HwInv, HwTypeOK
  <2> QED
    BY <1>1, <1>2, <2>1 DEF HwInv, HwTypeOK, HwSteps
<1>5. \A v \in HwWorkers : InHand(v)' = InHand(v)
  BY <1>2, <1>3 DEF InHand
<1>6. \A v \in HwWorkers, j \in HwJobs : Holds(v, j)' <=> Holds(v, j)
  BY <1>5 DEF Holds, InHand
<1>7. ClaimsOK'
  BY <1>3, <1>5 DEF HwInv, ClaimsOK, ClaimsOf
<1>8. RowsOK' /\ FreshOK' /\ Apart'
  BY <1>2, <1>6 DEF HwInv, RowsOK, FreshOK, Apart
<1> QED
  BY <1>4, <1>7, <1>8 DEF HwInv

\* The steps that only move an instance on within its current job.
LEMMA MovesOn ==
  ASSUME HwInv, NEW w \in HwWorkers, NEW at \in {"read", "write", "complete", "fail"},
         work[w].at \in {"verify", "read", "write", "complete"}, Step(w, at),
         UNCHANGED <<hw, outlived>>, sections' \in [HwJobs -> 0..MaxSections]
  PROVE  HwInv'
<1>1. HwTypeOK'
  BY DEF HwInv, HwTypeOK, Step, HwSteps
<1>2. \A v \in HwWorkers : work'[v].held = work[v].held /\ work'[v].now = work[v].now
  BY DEF HwInv, HwTypeOK, Step
<1>3. ClaimsOK' /\ Apart' /\ \A v \in HwWorkers, j \in HwJobs : Holds(v, j)' <=> Holds(v, j)
  BY <1>2, SameClaims
<1>4. RowsOK' /\ FreshOK'
  BY <1>3 DEF HwInv, RowsOK, FreshOK
<1> QED
  BY <1>1, <1>3, <1>4 DEF HwInv

LEMMA CurrentClaim ==
  ASSUME HwInv, NEW w \in HwWorkers, ~At(w, "idle"), ~At(w, "next")
  PROVE  /\ Current(w) \in work[w].now /\ Current(w) \in Claims /\ Current(w).attempts < HwMaxAttempts
         /\ Holds(w, Current(w).job)
         /\ \A c \in work[w].held : c.job # Current(w).job
<1>1. Current(w) \in work[w].now
  BY DEF HwInv, HwTypeOK, At, Current
<1> QED
  BY <1>1 DEF HwInv, HwTypeOK, ClaimsOK, ClaimsOf, InHand, Holds

LEMMA WithinJob ==
  ASSUME HwInv, NEW w \in HwWorkers,
         (\E at \in HwSteps : HardwareAnswers(w, at)) \/ ReadReport(w) \/ WriteReport(w) \/ ProcessThrows(w)
  PROVE  HwInv'
<1>1. CASE \E at \in HwSteps : HardwareAnswers(w, at)
  BY <1>1, MovesOn DEF HardwareAnswers, At, HwInv, HwTypeOK
<1>2. CASE ReadReport(w)
  BY <1>2, MovesOn DEF ReadReport, At, HwInv, HwTypeOK
<1>3. CASE WriteReport(w)
  <2>1. Current(w).job \in HwJobs
    BY <1>3, CurrentClaim DEF WriteReport, At, Claims
  <2>2. sections' \in [HwJobs -> 0..MaxSections]
    BY <1>3, <2>1, HardwareAssumption DEF WriteReport, HwInv, HwTypeOK
  <2> QED
    BY <1>3, <2>2, MovesOn DEF WriteReport, At
<1>4. CASE ProcessThrows(w)
  BY <1>4, MovesOn DEF ProcessThrows, HwInv, HwTypeOK
<1> QED
  BY <1>1, <1>2, <1>3, <1>4

\* An instance that has done with a job lets go of its only claim on it.
LEMMA LetsGo ==
  ASSUME HwInv, NEW w \in HwWorkers, ~At(w, "idle"), ~At(w, "next"),
         NEW row \in [status : HwStatuses, attempts : 0..HwMaxAttempts, stale : BOOLEAN],
         row.status # "processing",
         hw' = [hw EXCEPT ![Current(w).job] = row] \/ hw' = hw,
         work' = [work EXCEPT ![w] = Advanced(w)], UNCHANGED <<sections, outlived>>
  PROVE  HwInv'
<1>0. PICK job \in HwJobs : job = Current(w).job
  BY CurrentClaim DEF Claims
<1>1. /\ hw' = [hw EXCEPT ![job] = row] \/ hw' = hw
      /\ Holds(w, job) /\ \A c \in work[w].held : c.job # job
  BY <1>0, CurrentClaim
<1>2. /\ Advanced(w) \in [held : SUBSET Claims, now : SUBSET Claims, at : {"idle", "next"}]
      /\ Advanced(w).held = work[w].held /\ Advanced(w).now = {}
      /\ Advanced(w).at = "idle" => work[w].held = {}
  <2>1. CASE work[w].held = {}
    BY <2>1 DEF Advanced, HwResting
  <2>2. CASE work[w].held # {}
    <3>1. Advanced(w) = [work[w] EXCEPT !.now = {}, !.at = "next"]
      BY <2>2 DEF Advanced
    <3>2. work[w] \in [held : SUBSET Claims, now : SUBSET Claims, at : HwSteps]
      BY DEF HwInv, HwTypeOK
    <3> QED
      BY <3>1, <3>2
  <2> QED
    BY <2>1, <2>2
<1>3. /\ work'[w] = Advanced(w)
      /\ \A v \in HwWorkers \ {w} : work'[v] = work[v]
  BY DEF HwInv, HwTypeOK
<1>4. HwTypeOK'
  <2>1. work' \in [HwWorkers -> [held : SUBSET Claims, now : SUBSET Claims, at : HwSteps]]
    BY <1>2, <1>3 DEF HwInv, HwTypeOK, HwSteps
  <2>2. hw' \in [HwJobs -> [status : HwStatuses, attempts : 0..HwMaxAttempts, stale : BOOLEAN]]
    BY <1>1 DEF HwInv, HwTypeOK
  <2>3. \A v \in HwWorkers : /\ work'[v].now = {} <=> work'[v].at \in {"idle", "next"}
                             /\ work'[v].at = "idle" => work'[v].held = {}
    BY <1>2, <1>3 DEF HwInv, HwTypeOK
  <2> QED
    BY <2>1, <2>2, <2>3 DEF HwInv, HwTypeOK
<1>5. ClaimsOK' /\ Apart' /\ \A v \in HwWorkers, j \in HwJobs : Holds(v, j)' => Holds(v, j)
  BY <1>2, <1>3, FewerClaims
<1>6. RowsOK'
  BY <1>1 DEF HwInv, HwTypeOK, RowsOK
<1>7. ~Holds(w, job)'
  BY <1>1, <1>2, <1>3 DEF Holds
<1>8. FreshOK'
  <2> SUFFICES ASSUME ~outlived', NEW v \in HwWorkers, NEW j \in HwJobs, Holds(v, j)'
               PROVE  hw'[j].status = "processing" /\ ~hw'[j].stale
    BY DEF FreshOK
  <2>1. Holds(v, j) /\ hw[j].status = "processing" /\ ~hw[j].stale
    BY <1>5 DEF HwInv, FreshOK
  <2>2. j # job
    BY <1>1, <1>7, <2>1 DEF HwInv, Apart
  <2> QED
    BY <1>1, <2>1, <2>2 DEF HwInv, HwTypeOK
<1> QED
  BY <1>4, <1>5, <1>6, <1>8 DEF HwInv

LEMMA JobEnds ==
  ASSUME HwInv, NEW w \in HwWorkers, CompleteHwJob(w) \/ \E written \in BOOLEAN : FailHwJob(w, written)
  PROVE  HwInv'
<1>1. ~At(w, "idle") /\ ~At(w, "next")
  BY DEF CompleteHwJob, FailHwJob, At
<1>2. Current(w) \in Claims /\ Current(w).attempts < HwMaxAttempts
  BY <1>1, CurrentClaim
<1>3. CASE CompleteHwJob(w)
  <2> DEFINE row == HwRow("completed", hw[Current(w).job].attempts)
  <2>1. row \in [status : HwStatuses, attempts : 0..HwMaxAttempts, stale : BOOLEAN] /\ row.status # "processing"
    BY <1>2 DEF HwInv, HwTypeOK, HwRow, HwStatuses, Claims
  <2>2. hw' = [hw EXCEPT ![Current(w).job] = row]
    BY <1>3 DEF CompleteHwJob
  <2> HIDE DEF row
  <2> QED
    BY <1>1, <1>3, <2>1, <2>2, LetsGo DEF CompleteHwJob
<1>4. ASSUME NEW written \in BOOLEAN, FailHwJob(w, written)
      PROVE  HwInv'
  <2> DEFINE a == Current(w).attempts + 1
             row == HwRow(IF a >= HwMaxAttempts THEN "failed" ELSE "pending", a)
  <2>1. a \in 0..HwMaxAttempts
    BY <1>2, HardwareAssumption DEF Claims
  <2>2. row \in [status : HwStatuses, attempts : 0..HwMaxAttempts, stale : BOOLEAN] /\ row.status # "processing"
    BY <2>1 DEF HwRow, HwStatuses
  <2>3. hw' = [hw EXCEPT ![Current(w).job] = row] \/ hw' = hw
    BY <1>4 DEF FailHwJob
  <2> HIDE DEF row
  <2> QED
    BY <1>1, <1>4, <2>2, <2>3, LetsGo DEF FailHwJob
<1> QED
  BY <1>3, <1>4

LEMMA CrashStep ==
  ASSUME HwInv, NEW w \in HwWorkers, CrashInstance(w)
  PROVE  HwInv'
<1>1. HwTypeOK'
  BY DEF HwInv, HwTypeOK, CrashInstance, HwResting, HwSteps
<1>2. ClaimsOK' /\ Apart' /\ \A v \in HwWorkers, j \in HwJobs : Holds(v, j)' => Holds(v, j)
  BY FewerClaims DEF HwInv, HwTypeOK, CrashInstance, HwResting
<1>3. RowsOK' /\ FreshOK'
  BY <1>2 DEF HwInv, RowsOK, FreshOK, CrashInstance
<1> QED
  BY <1>1, <1>2, <1>3 DEF HwInv

LEMMA StaleStep ==
  ASSUME HwInv, NEW j \in HwJobs, GrowsStale(j)
  PROVE  HwInv'
<1>1. HwTypeOK' /\ RowsOK'
  BY DEF HwInv, HwTypeOK, RowsOK, GrowsStale
<1>2. ClaimsOK'
  BY DEF HwInv, ClaimsOK, ClaimsOf, InHand, GrowsStale
<1>3. ~outlived' => ~outlived /\ \A w \in HwWorkers : ~Holds(w, j)
  BY DEF GrowsStale
<1>4. \A w \in HwWorkers, i \in HwJobs : Holds(w, i)' <=> Holds(w, i)
  BY DEF GrowsStale, Holds
<1>5. FreshOK' /\ Apart'
  BY <1>3, <1>4 DEF HwInv, HwTypeOK, FreshOK, Apart, GrowsStale
<1> QED
  BY <1>1, <1>2, <1>5 DEF HwInv

LEMMA InProcessStep ==
  ASSUME HwInv, NEW j \in HwJobs, NEW appended \in BOOLEAN, InProcessEnds(j, appended)
  PROVE  HwInv'
<1>1. HwTypeOK'
  BY HardwareAssumption DEF HwInv, HwTypeOK, InProcessEnds, HwStatuses
<1>2. RowsOK' /\ FreshOK'
  BY DEF HwInv, HwTypeOK, RowsOK, FreshOK, Holds, InProcessEnds
<1>3. ClaimsOK' /\ Apart'
  BY SameClaims DEF InProcessEnds
<1> QED
  BY <1>1, <1>2, <1>3 DEF HwInv

-----------------------------------------------------------------------------
LEMMA HwInvStep == HwInv /\ [HwNext]_hwVars => HwInv'
<1> SUFFICES ASSUME HwInv, [HwNext]_hwVars
             PROVE  HwInv'
  OBVIOUS
<1>1. ASSUME NEW w \in HwWorkers, PollTable(w)
      PROVE  HwInv'
  BY <1>1, ReclaimStep, ClaimStep DEF PollTable
<1>2. ASSUME NEW w \in HwWorkers, Process(w)
      PROVE  HwInv'
  BY <1>2, WithinJob, NextStep, JobEnds DEF Process
<1>3. ASSUME NEW w \in HwWorkers, CrashInstance(w)
      PROVE  HwInv'
  BY <1>3, CrashStep
<1>4. ASSUME NEW j \in HwJobs, GrowsStale(j) \/ \E b \in BOOLEAN : Schedule(j, b) \/ InProcessEnds(j, b)
      PROVE  HwInv'
  BY <1>4, StaleStep, ScheduleStep, InProcessStep
<1>5. CASE UNCHANGED hwVars
  BY <1>5 DEF hwVars, HwInv, HwTypeOK, RowsOK, ClaimsOK, ClaimsOf, InHand, FreshOK, Apart, Holds
<1> QED
  BY <1>1, <1>2, <1>3, <1>4, <1>5 DEF HwNext

(* What an instance may rely on while it works on a claimed row.            *)
THEOREM HardwareInvariant == HwSpec => []HwInv
  BY HwInvInit, HwInvStep, PTL DEF HwSpec

(* However many instances poll, reclaim, crash and fail, while none works   *)
(* longer than STALE_PROCESSING_MS no job is held by two of them, and what   *)
(* they hold is in processing.                                              *)
THEOREM NoJobTwice == HwSpec => []NoDoubleWork
  BY HardwareInvariant, HwInvImplies, PTL

(* The variables keep their types; attempts never exceed MAX_ATTEMPTS.      *)
THEOREM HardwareTyped == HwSpec => []HwTypeOK
  BY HardwareInvariant, PTL DEF HwInv

-----------------------------------------------------------------------------
(***************************************************************************)
(* The gates: the pool counts exactly the slots taken, for every number of *)
(* requests and slots and for every order of arriving, ending and giving   *)
(* up. PoolInv adds that the queue holds nobody twice (OneEach): a slot    *)
(* passed on to the head of the queue is counted once.                     *)
(***************************************************************************)
\* Nobody is in the queue twice.
OneEach == \A i, k \in 1..Len(waitQueue) : waitQueue[i] = waitQueue[k] => i = k
PoolInv == GatesTypeOK /\ PoolExact /\ OneEach /\ IsFiniteSet(Holders)

LEMMA Queues ==
  ASSUME NEW S, NEW q \in Seq(S)
  PROVE  /\ \A x \in S : ToSet(Append(q, x)) = ToSet(q) \cup {x} /\ Append(q, x) \in Seq(S)
         /\ ToSet(q) = {} <=> q = <<>>
         /\ q # <<>> => Head(q) \in ToSet(q) /\ Tail(q) \in Seq(S) /\ Head(q) = q[1]
<1>1. ASSUME NEW x \in S
      PROVE  ToSet(Append(q, x)) = ToSet(q) \cup {x}
  <2>1. /\ Len(Append(q, x)) = Len(q) + 1 /\ Append(q, x)[Len(q) + 1] = x /\ Len(q) \in Nat
        /\ \A i \in 1..Len(q) : Append(q, x)[i] = q[i]
        /\ Append(q, x) \in Seq(S)
    OBVIOUS
  <2>2. ASSUME NEW y \in ToSet(Append(q, x))
        PROVE  y \in ToSet(q) \cup {x}
    <3>1. PICK i \in 1..Len(q) + 1 : y = Append(q, x)[i]
      BY <2>1 DEF ToSet
    <3>2. i = Len(q) + 1 \/ i \in 1..Len(q)
      BY <2>1
    <3> QED
      BY <2>1, <3>1, <3>2 DEF ToSet
  <2>3. ASSUME NEW y \in ToSet(q) \cup {x}
        PROVE  y \in ToSet(Append(q, x))
    <3>1. CASE y = x
      BY <2>1, <3>1 DEF ToSet
    <3>2. CASE y \in ToSet(q)
      <4>1. PICK i \in 1..Len(q) : y = q[i]
        BY <3>2 DEF ToSet
      <4>2. i \in DOMAIN Append(q, x) /\ y = Append(q, x)[i]
        BY <2>1, <4>1
      <4> QED
        BY <4>2 DEF ToSet
    <3> QED
      BY <3>1, <3>2
  <2> QED
    BY <2>2, <2>3
<1>2. \A x \in S : Append(q, x) \in Seq(S)
  OBVIOUS
<1>3. ToSet(q) = {} <=> q = <<>>
  BY DEF ToSet
<1>4. q # <<>> => Head(q) \in ToSet(q) /\ Tail(q) \in Seq(S) /\ Head(q) = q[1]
  BY DEF ToSet
<1> QED
  BY <1>1, <1>2, <1>3, <1>4

\* The first in line leaves it.
LEMMA FirstLeaves ==
  ASSUME NEW S, NEW q \in Seq(S), q # <<>>, \A i, k \in 1..Len(q) : q[i] = q[k] => i = k
  PROVE  /\ ToSet(Tail(q)) = ToSet(q) \ {Head(q)}
         /\ \A i, k \in 1..Len(Tail(q)) : Tail(q)[i] = Tail(q)[k] => i = k
<1>1. Len(q) \in Nat /\ Len(q) > 0 /\ Len(Tail(q)) = Len(q) - 1 /\ Head(q) = q[1]
  OBVIOUS
<1>2. \A i \in 1..Len(Tail(q)) : Tail(q)[i] = q[i + 1]
  OBVIOUS
<1>3. ASSUME NEW y \in ToSet(Tail(q))
      PROVE  y \in ToSet(q) \ {Head(q)}
  <2>1. PICK i \in 1..Len(Tail(q)) : y = Tail(q)[i]
    BY DEF ToSet
  <2>2. i + 1 \in 1..Len(q) /\ i + 1 # 1 /\ y = q[i + 1]
    BY <1>1, <1>2, <2>1
  <2> QED
    BY <1>1, <2>2 DEF ToSet
<1>4. ASSUME NEW y \in ToSet(q) \ {Head(q)}
      PROVE  y \in ToSet(Tail(q))
  <2>1. PICK i \in 1..Len(q) : y = q[i]
    BY DEF ToSet
  <2>2. i - 1 \in DOMAIN Tail(q) /\ Tail(q)[i - 1] = q[i]
    BY <1>1, <1>2, <1>4, <2>1
  <2> QED
    BY <2>1, <2>2 DEF ToSet
<1>5. \A i, k \in 1..Len(Tail(q)) : Tail(q)[i] = Tail(q)[k] => i = k
  <2> SUFFICES ASSUME NEW i \in 1..Len(Tail(q)), NEW k \in 1..Len(Tail(q)), Tail(q)[i] = Tail(q)[k]
               PROVE  i = k
    OBVIOUS
  <2>1. i + 1 \in 1..Len(q) /\ k + 1 \in 1..Len(q) /\ q[i + 1] = q[k + 1]
    BY <1>1, <1>2
  <2> QED
    BY <2>1
<1> QED
  BY <1>3, <1>4, <1>5

\* Steps of a call that has its slot and keeps it, and of the upload gate.
LEMMA SlotsKept ==
  ASSUME PoolInv, GatesTypeOK', UNCHANGED <<activeWorkers, waitQueue>>,
         \A j \in Computations :
            /\ computation'[j] = "waiting" <=> computation[j] = "waiting"
            /\ computation'[j] \in {"granted", "running", "settled"}
                 <=> computation[j] \in {"granted", "running", "settled"}
  PROVE  PoolInv'
<1>1. Holders' = Holders
  BY DEF Holders
<1> QED
  BY <1>1 DEF PoolInv, PoolExact, OneEach

LEMMA AcquireStep ==
  ASSUME PoolInv, NEW j \in Computations, Acquire(j)
  PROVE  PoolInv'
<1>1. /\ computation \in [Computations -> {"new", "waiting", "granted", "running", "settled", "done"}]
      /\ activeWorkers \in 0..MaxWorkers /\ waitQueue \in Seq(Computations) /\ computation[j] = "new"
      /\ UNCHANGED <<proc, upload, activeUploads>>
  BY DEF Acquire, PoolInv, GatesTypeOK, uploadSide
<1>2. CASE activeWorkers < MaxWorkers
  <2>1. /\ activeWorkers' = activeWorkers + 1 /\ waitQueue' = waitQueue
        /\ computation' = [computation EXCEPT ![j] = "granted"]
    BY <1>2 DEF Acquire
  <2>2. Holders' = Holders \cup {j} /\ j \notin Holders
    BY <1>1, <2>1 DEF Holders
  <2>3. IsFiniteSet(Holders') /\ activeWorkers' = Cardinality(Holders')
    BY <2>1, <2>2, FS_AddElement DEF PoolInv, PoolExact
  <2>4. activeWorkers + 1 \in 0..MaxWorkers
    BY <1>1, <1>2, GatesAssumption
  <2>5. GatesTypeOK'
    BY <1>1, <2>1, <2>4 DEF PoolInv, GatesTypeOK
  <2>6. waitQueue = <<>>
    BY <1>1, <1>2, GatesAssumption DEF PoolInv, PoolExact
  <2>7. ToSet(waitQueue') = {k \in Computations : computation'[k] = "waiting"}
    BY <1>1, <2>1 DEF PoolInv, PoolExact
  <2> QED
    BY <2>1, <2>3, <2>5, <2>6, <2>7 DEF PoolInv, PoolExact, OneEach
<1>3. CASE ~(activeWorkers < MaxWorkers)
  <2>1. /\ activeWorkers' = activeWorkers /\ waitQueue' = Append(waitQueue, j)
        /\ computation' = [computation EXCEPT ![j] = "waiting"]
    BY <1>3 DEF Acquire
  <2>2. Holders' = Holders
    BY <1>1, <2>1 DEF Holders
  <2>3. activeWorkers = MaxWorkers
    BY <1>1, <1>3, GatesAssumption
  <2>4. waitQueue' \in Seq(Computations) /\ ToSet(waitQueue') = ToSet(waitQueue) \cup {j}
    BY <1>1, <2>1, Queues
  <2>5. GatesTypeOK'
    BY <1>1, <2>1, <2>4 DEF PoolInv, GatesTypeOK
  <2>6. ToSet(waitQueue') = {k \in Computations : computation'[k] = "waiting"}
    BY <1>1, <2>1, <2>4 DEF PoolInv, PoolExact
  <2>7. j \notin ToSet(waitQueue)
    BY <1>1 DEF PoolInv, PoolExact
  <2>8. OneEach'
    <3>1. \A i \in 1..Len(waitQueue) : waitQueue[i] # j
      BY <1>1, <2>7 DEF ToSet
    <3> QED
      BY <1>1, <2>1, <3>1 DEF PoolInv, OneEach
  <2> QED
    BY <2>1, <2>2, <2>3, <2>5, <2>6, <2>8 DEF PoolInv, PoolExact
<1> QED
  BY <1>2, <1>3

LEMMA WorkSteps ==
  ASSUME PoolInv, NEW j \in Computations,
         (\E b \in BOOLEAN : Spawn(j, b)) \/ TimesOut(j) \/ Overflows(j) \/ ProcessCloses(j)
  PROVE  PoolInv'
<1>1. GatesTypeOK
  BY DEF PoolInv
<1>2. UNCHANGED <<activeWorkers, waitQueue, upload, activeUploads>>
  BY DEF Spawn, TimesOut, Overflows, ProcessCloses, uploadSide
<1>3. /\ computation' \in [Computations -> {"new", "waiting", "granted", "running", "settled", "done"}]
      /\ proc' \in [Computations -> {"none", "alive", "killed", "exited"}]
      /\ \A k \in Computations : computation'[k] = "running" => proc'[k] \in {"alive", "killed"}
      /\ \A k \in Computations :
            /\ computation'[k] = "waiting" <=> computation[k] = "waiting"
            /\ computation'[k] \in {"granted", "running", "settled"}
                 <=> computation[k] \in {"granted", "running", "settled"}
  <2>1. CASE \E b \in BOOLEAN : Spawn(j, b)
    BY <1>1, <2>1 DEF GatesTypeOK, Spawn
  <2>2. CASE TimesOut(j)
    BY <1>1, <2>2 DEF GatesTypeOK, TimesOut
  <2>3. CASE Overflows(j)
    BY <1>1, <2>3 DEF GatesTypeOK, Overflows
  <2>4. CASE ProcessCloses(j)
    BY <1>1, <2>4 DEF GatesTypeOK, ProcessCloses
  <2> QED
    BY <2>1, <2>2, <2>3, <2>4
<1>4. GatesTypeOK'
  BY <1>1, <1>2, <1>3 DEF GatesTypeOK
<1> QED
  BY <1>2, <1>3, <1>4, SlotsKept

LEMMA ReleaseStep ==
  ASSUME PoolInv, NEW j \in Computations, Release(j)
  PROVE  PoolInv'
<1>1. /\ computation \in [Computations -> {"new", "waiting", "granted", "running", "settled", "done"}]
      /\ activeWorkers \in 0..MaxWorkers /\ waitQueue \in Seq(Computations) /\ computation[j] = "settled"
      /\ UNCHANGED <<proc, upload, activeUploads>> /\ j \in Holders
  BY DEF Release, PoolInv, GatesTypeOK, uploadSide, Holders
<1>2. Cardinality(Holders) \in Nat \ {0} /\ activeWorkers = Cardinality(Holders)
  BY <1>1, FS_CardinalityType, FS_EmptySet DEF PoolInv, PoolExact
<1>3. CASE waitQueue = <<>>
  <2>1. /\ activeWorkers' = activeWorkers - 1 /\ waitQueue' = waitQueue
        /\ computation' = [computation EXCEPT ![j] = "done"]
    BY <1>2, <1>3 DEF Release, Freed
  <2>2. Holders' = Holders \ {j}
    BY <1>1, <2>1 DEF Holders
  <2>3. IsFiniteSet(Holders') /\ activeWorkers' = Cardinality(Holders')
    BY <1>1, <1>2, <2>1, <2>2, FS_RemoveElement DEF PoolInv
  <2>4. activeWorkers - 1 \in 0..MaxWorkers
    BY <1>1, <1>2, GatesAssumption
  <2>5. GatesTypeOK'
    BY <1>1, <2>1, <2>4 DEF PoolInv, GatesTypeOK
  <2>6. ToSet(waitQueue') = {k \in Computations : computation'[k] = "waiting"}
    BY <1>1, <2>1 DEF PoolInv, PoolExact
  <2> QED
    BY <1>3, <2>1, <2>3, <2>5, <2>6 DEF PoolInv, PoolExact, OneEach
<1>4. CASE waitQueue # <<>>
  <2> DEFINE k == Head(waitQueue)
  <2>1. /\ activeWorkers' = activeWorkers /\ waitQueue' = Tail(waitQueue)
        /\ computation' = [computation EXCEPT ![j] = "done", ![k] = "granted"]
    BY <1>4 DEF Release, Freed
  <2>2. /\ k \in ToSet(waitQueue) /\ Tail(waitQueue) \in Seq(Computations)
        /\ ToSet(waitQueue') = ToSet(waitQueue) \ {k} /\ OneEach'
    BY <1>1, <1>4, <2>1, Queues, FirstLeaves DEF PoolInv, OneEach
  <2>3. k \in Computations /\ computation[k] = "waiting" /\ k # j /\ k \notin Holders
    BY <1>1, <2>2 DEF PoolInv, PoolExact, Holders
  <2> HIDE DEF k
  <2>4. Holders' = (Holders \ {j}) \cup {k}
    BY <1>1, <2>1, <2>3 DEF Holders
  <2>5. IsFiniteSet(Holders') /\ Cardinality(Holders') = Cardinality(Holders)
    <3>1. IsFiniteSet(Holders \ {j}) /\ Cardinality(Holders \ {j}) = Cardinality(Holders) - 1
      BY <1>1, FS_RemoveElement DEF PoolInv
    <3>2. /\ IsFiniteSet((Holders \ {j}) \cup {k})
          /\ Cardinality((Holders \ {j}) \cup {k}) = Cardinality(Holders \ {j}) + 1
      BY <2>3, <3>1, FS_AddElement
    <3> QED
      BY <1>2, <2>4, <3>1, <3>2
  <2>6. GatesTypeOK'
    BY <1>1, <2>1, <2>2, <2>3 DEF PoolInv, GatesTypeOK
  <2>7. ToSet(waitQueue') = {x \in Computations : computation'[x] = "waiting"}
    BY <1>1, <2>1, <2>2, <2>3 DEF PoolInv, PoolExact
  <2>8. activeWorkers' = MaxWorkers
    BY <1>4, <2>1 DEF PoolInv, PoolExact
  <2> QED
    BY <1>2, <2>1, <2>2, <2>5, <2>6, <2>7, <2>8 DEF PoolInv, PoolExact
<1> QED
  BY <1>3, <1>4

LEMMA UploadSteps ==
  ASSUME PoolInv, NEW u \in Uploads, EnterGate(u) \/ Finish(u) \/ Close(u)
  PROVE  PoolInv'
<1>1. GatesTypeOK
  BY DEF PoolInv
<1>2. UNCHANGED <<computation, proc, activeWorkers, waitQueue>>
  BY DEF EnterGate, Finish, Close, workerSide
<1>3. /\ upload' \in [Uploads -> {"new", "refused", "buffered", "finished", "closed"}]
      /\ activeUploads' \in 0..MaxUploads
  <2>1. activeUploads \in 0..MaxUploads /\ Given \in 0..MaxUploads
    BY <1>1, GatesAssumption DEF GatesTypeOK, Given
  <2>2. ~(activeUploads >= MaxUploads) => activeUploads + 1 \in 0..MaxUploads
    BY <2>1, GatesAssumption
  <2> QED
    BY <1>1, <2>1, <2>2 DEF GatesTypeOK, EnterGate, Finish, Close
<1>4. GatesTypeOK'
  BY <1>1, <1>2, <1>3 DEF GatesTypeOK
<1> QED
  BY <1>2, <1>4, SlotsKept

LEMMA PoolInvInit == GatesInit => PoolInv
<1> SUFFICES ASSUME GatesInit
             PROVE  PoolInv
  OBVIOUS
<1>1. Holders = {}
  BY DEF GatesInit, Holders
<1>2. ToSet(waitQueue) = {} /\ waitQueue \in Seq(Computations) /\ waitQueue = <<>>
  BY DEF GatesInit, ToSet
<1>3. GatesTypeOK
  BY <1>2, GatesAssumption DEF GatesInit, GatesTypeOK
<1>4. PoolExact
  BY <1>1, <1>2, FS_EmptySet DEF GatesInit, PoolExact
<1> QED
  BY <1>1, <1>2, <1>3, <1>4, FS_EmptySet DEF PoolInv, OneEach

LEMMA PoolInvStep == PoolInv /\ [GatesNext]_gatesVars => PoolInv'
<1> SUFFICES ASSUME PoolInv, [GatesNext]_gatesVars
             PROVE  PoolInv'
  OBVIOUS
<1>1. CASE GatesNext
  BY <1>1, AcquireStep, WorkSteps, ReleaseStep, UploadSteps DEF GatesNext, Settle
<1>2. CASE UNCHANGED gatesVars
  BY <1>2 DEF gatesVars, PoolInv, GatesTypeOK, PoolExact, OneEach, Holders
<1> QED
  BY <1>1, <1>2

(***************************************************************************)
(* The pool's counter is the number of calls that hold a slot, its queue   *)
(* the calls that wait, and nobody waits while a slot is free.             *)
(* (quantumProcess.js, acquireSlot and releaseSlot)                        *)
(***************************************************************************)
THEOREM PoolIsExact == GatesSpec => []PoolExact
<1>1. PoolInv => PoolExact
  BY DEF PoolInv
<1> QED
  BY <1>1, PoolInvInit, PoolInvStep, PTL DEF GatesSpec

\* The counters of both gates, the calls and the uploads keep their types.
THEOREM PoolTyped == GatesSpec => []GatesTypeOK
<1>1. PoolInv => GatesTypeOK
  BY DEF PoolInv
<1> QED
  BY <1>1, PoolInvInit, PoolInvStep, PTL DEF GatesSpec

-----------------------------------------------------------------------------
(***************************************************************************)
(* That history follows its owner through renames, for every number of     *)
(* codes, people, requests, tables and administrators' actions.  The        *)
(* property speaks of committed rows; AccountsInv adds what a rename under   *)
(* way knows: the codes it holds are its own (RenamesOK), and it has taken   *)
(* every row of the tables it has updated (TakenOK).                        *)
(***************************************************************************)
Renaming(r) == request[r].at = "renaming"
RenameRequest == [at : {"renaming"}, from : Codes, to : Codes, left : SUBSET MovedTables,
                  taken : SUBSET SavedRow]

\* What a state of a request carries: a rename all of its fields, a checked request its token.
Fields(state) ==
    /\ state.at = "renaming" => state \in RenameRequest
    /\ state.at \in {"checked", "served"} => state.token \in Token

RequestsOK ==
    /\ request = [r \in AuthReqs |-> request[r]]
    /\ \A r \in AuthReqs : Fields(request[r])

RowsTyped == user \in [Codes -> Account \cup {NoUser}] /\ tokens \subseteq Token /\ rows \subseteq SavedRow

\* A person has one account.
OneAccount == \A c, d \in Codes : user[c] # NoUser /\ user[d] # NoUser /\ user[c].person = user[d].person => c = d

\* A rename has found its account and the new code free; nobody else changes either.
RenamesOK ==
    /\ \A r \in AuthReqs : Renaming(r) =>
          /\ user[request[r].from] # NoUser /\ user[request[r].to] = NoUser
          /\ request[r].taken \subseteq {row \in rows : row.owner = request[r].from}
    /\ \A r, q \in AuthReqs : Renaming(r) /\ Renaming(q) /\ r # q =>
          {request[r].from, request[r].to} \cap {request[q].from, request[q].to} = {}

\* The tables a rename has updated are complete: no orderly row has come since.
TakenOK ==
    \A r \in AuthReqs, row \in rows :
        Renaming(r) /\ row.orderly /\ row.table \in MovedTables \ request[r].left /\ row.owner = request[r].from
            => row \in request[r].taken

AccountsInv == RowsTyped /\ RequestsOK /\ OneAccount /\ RenamesOK /\ TakenOK /\ HistoryFollows

-----------------------------------------------------------------------------
LEMMA NoUserIsNoAccount == NoUser \notin Account
  BY AccountsAssumption DEF Account

LEMMA TwoAreTwo == ASSUME NEW S, \E x, y \in S : x # y PROVE TwoOf(S) \in S \X S /\ TwoOf(S)[1] # TwoOf(S)[2]
<1>1. PICK x \in S, y \in S : x # y
  OBVIOUS
<1>2. <<x, y>> \in S \X S /\ <<x, y>>[1] # <<x, y>>[2]
  BY <1>1
<1> QED
  BY <1>2 DEF TwoOf

\* What a step of request r leaves of the others.
LEMMA Becomes ==
  ASSUME RequestsOK, NEW r \in AuthReqs, NEW state, To(r, state), Fields(state)
  PROVE  RequestsOK' /\ \A q \in AuthReqs : request'[q] = IF q = r THEN state ELSE request[q]
  BY DEF RequestsOK, To

\* A request that does not rename and leaves users and rows alone.
LEMMA OtherRequest ==
  ASSUME AccountsInv, NEW r \in AuthReqs, ~Renaming(r), NEW state, state.at # "renaming",
         Fields(state), To(r, state), UNCHANGED <<user, rows>>, tokens' \subseteq Token
  PROVE  AccountsInv'
<1>1. RequestsOK' /\ \A q \in AuthReqs : request'[q] = IF q = r THEN state ELSE request[q]
  BY Becomes DEF AccountsInv
<1>2. RenamesOK' /\ TakenOK'
  BY <1>1 DEF AccountsInv, RenamesOK, TakenOK, Renaming
<1> QED
  BY <1>1, <1>2 DEF AccountsInv, RowsTyped, OneAccount, HistoryFollows

LEMMA QuietRequests ==
  ASSUME AccountsInv, NEW r \in AuthReqs,
         \/ \E t \in tokens : AuthHit(r, t) \/ AuthMiss(r, t)
         \/ AuthStore(r) \/ InvalidateBlockedCache(r) \/ CheckLastAdmin(r)
         \/ \E c \in Codes : CountAdmins(r, c)
  PROVE  AccountsInv'
<1>1. tokens' \subseteq Token /\ ~Renaming(r) /\ UNCHANGED <<user, rows>>
  BY DEF AccountsInv, RowsTyped, Renaming, AuthHit, AuthMiss, AuthStore, InvalidateBlockedCache,
     CheckLastAdmin, CountAdmins, Administrate
<1> DEFINE Calm(state) == state.at # "renaming" /\ Fields(state) /\ To(r, state)
<1>2. \E state : Calm(state)
  <2>1. Fields([at |-> "idle"]) /\ \A c : Fields([at |-> "deleting", code |-> c])
    BY DEF Fields
  <2>2. \A t \in Token : /\ Fields([at |-> "served", token |-> t])
                          /\ \A b : Fields([at |-> "checked", token |-> t, blocked |-> b])
    BY DEF Fields
  <2>3. \A c, n : Fields([at |-> "counted", code |-> c, count |-> n])
    BY DEF Fields
  <2>4. ASSUME NEW t \in tokens, AuthHit(r, t)
        PROVE  \E state : Calm(state)
    BY <2>1, <2>2, <2>4 DEF AuthHit, AccountsInv, RowsTyped
  <2>5. ASSUME NEW t \in tokens, AuthMiss(r, t)
        PROVE  \E state : Calm(state)
    BY <2>2, <2>5 DEF AuthMiss, AccountsInv, RowsTyped
  <2>6. CASE AuthStore(r)
    <3>1. request[r].token \in Token
      BY <2>6 DEF AuthStore, AccountsInv, RequestsOK, Fields
    <3> QED
      BY <2>1, <2>2, <2>6, <3>1 DEF AuthStore
  <2>7. CASE InvalidateBlockedCache(r)
    BY <2>1, <2>7 DEF InvalidateBlockedCache
  <2>8. CASE CheckLastAdmin(r)
    BY <2>1, <2>8 DEF CheckLastAdmin
  <2>9. ASSUME NEW c \in Codes, CountAdmins(r, c)
        PROVE  \E state : Calm(state)
    BY <2>3, <2>9 DEF CountAdmins
  <2> QED
    BY <2>4, <2>5, <2>6, <2>7, <2>8, <2>9
<1>3. PICK state : Calm(state)
  BY <1>2
<1> QED
  BY <1>1, <1>3, OtherRequest

LEMMA LogInStep ==
  ASSUME AccountsInv, NEW c \in Codes, LogIn(c)
  PROVE  AccountsInv'
<1>1. user[c] \in Account
  BY DEF AccountsInv, RowsTyped, LogIn
<1>2. [person |-> user[c].person, code |-> c, admin |-> user[c].admin] \in Token
  BY <1>1 DEF Account, Token
<1>3. RowsTyped'
  BY <1>2 DEF AccountsInv, RowsTyped, LogIn
<1> QED
  BY <1>3 DEF AccountsInv, RequestsOK, OneAccount, RenamesOK, TakenOK, HistoryFollows, Renaming, LogIn

(***************************************************************************)
(* A row that is saved: if it is orderly its owner is its person's code,    *)
(* and no rename holds that code.                                           *)
(***************************************************************************)
LEMMA SaveStep ==
  ASSUME AccountsInv, NEW r \in AuthReqs, NEW table \in Tables, SaveRow(r, table)
  PROVE  AccountsInv'
<1> DEFINE t == request[r].token
           new == [table |-> table, person |-> t.person, owner |-> t.code,
                   orderly |-> /\ user[t.code] # NoUser /\ user[t.code].person = t.person
                               /\ ~Locked(t.code)]
<1>1. rows' = rows \cup {new} /\ UNCHANGED <<user, tokens>> /\ To(r, [at |-> "idle"]) /\ ~Renaming(r)
  BY DEF SaveRow, Renaming
<1>2. new \in SavedRow /\ t.code \in Codes
  <2>1. t \in Token
    BY DEF SaveRow, AccountsInv, RequestsOK, Fields
  <2> QED
    BY <2>1 DEF SavedRow, Token
<1>3. /\ new.person = t.person /\ new.owner = t.code
      /\ new.orderly => user[t.code] # NoUser /\ user[t.code].person = t.person /\ ~Locked(t.code)
  OBVIOUS
<1> HIDE DEF new
<1>4. RequestsOK' /\ \A q \in AuthReqs : request'[q] = IF q = r THEN [at |-> "idle"] ELSE request[q]
  BY <1>1, Becomes DEF AccountsInv, Fields
<1>5. RowsTyped' /\ OneAccount'
  BY <1>1, <1>2 DEF AccountsInv, RowsTyped, OneAccount
<1>6. RenamesOK'
  BY <1>1, <1>4 DEF AccountsInv, RenamesOK, Renaming
<1>7. TakenOK'
  <2> SUFFICES ASSUME NEW q \in AuthReqs, NEW row \in rows', Renaming(q)', row.orderly,
                      row.table \in MovedTables \ request'[q].left, row.owner = request'[q].from
               PROVE  row \in request'[q].taken
    BY DEF TakenOK
  <2>1. q # r /\ request'[q] = request[q] /\ Renaming(q)
    BY <1>4 DEF Renaming
  <2>2. CASE row \in rows
    BY <2>1, <2>2 DEF AccountsInv, TakenOK
  <2>3. CASE row = new
    <3>1. q \in RenamesOf(t.code)
      BY <1>3, <2>1, <2>3 DEF RenamesOf, Renaming
    <3> QED
      BY <1>3, <2>3, <3>1 DEF Locked
  <2> QED
    BY <1>1, <2>2, <2>3
<1>8. HistoryFollows'
  BY <1>1, <1>2, <1>3 DEF AccountsInv, OneAccount, HistoryFollows
<1> QED
  BY <1>4, <1>5, <1>6, <1>7, <1>8 DEF AccountsInv

-----------------------------------------------------------------------------
\* A step that leaves every code with its person.
SamePersons ==
    \A c \in Codes : /\ user'[c] = NoUser <=> user[c] = NoUser
                     /\ user[c] # NoUser => user'[c].person = user[c].person

LEMMA AccountEdited ==
  ASSUME AccountsInv, NEW r \in AuthReqs, ~Renaming(r), NEW state, state.at # "renaming",
         Fields(state), To(r, state), SamePersons, user' \in [Codes -> Account \cup {NoUser}],
         UNCHANGED <<tokens, rows>>
  PROVE  AccountsInv'
<1>1. RequestsOK' /\ \A q \in AuthReqs : request'[q] = IF q = r THEN state ELSE request[q]
  BY Becomes DEF AccountsInv
<1>2. RowsTyped' /\ OneAccount' /\ HistoryFollows'
  BY DEF AccountsInv, RowsTyped, OneAccount, HistoryFollows, SamePersons
<1>3. TakenOK'
  BY <1>1 DEF AccountsInv, TakenOK, Renaming
<1>4. RenamesOK'
  <2>1. \A q \in AuthReqs : Renaming(q)' => Renaming(q) /\ request'[q] = request[q]
    BY <1>1 DEF Renaming
  <2>2. \A q \in AuthReqs : Renaming(q) => request[q].from \in Codes /\ request[q].to \in Codes
    BY DEF AccountsInv, RequestsOK, Fields, RenameRequest, Renaming
  <2> QED
    BY <2>1, <2>2 DEF AccountsInv, RenamesOK, SamePersons
<1> QED
  BY <1>1, <1>2, <1>3, <1>4 DEF AccountsInv

LEMMA EditStep ==
  ASSUME AccountsInv, NEW r \in AuthReqs, NEW c \in Codes, NEW b \in BOOLEAN,
         SetRole(r, c, b) \/ SetBlocked(r, c, b)
  PROVE  AccountsInv'
<1>1. user[c] \in Account /\ ~Renaming(r) /\ UNCHANGED <<tokens, rows>>
  BY DEF AccountsInv, RowsTyped, Renaming, SetRole, SetBlocked, Administrate
<1>2. Fields([at |-> "idle"]) /\ Fields([at |-> "blocking", code |-> c, blocked |-> b])
  BY DEF Fields
<1>3. PICK new \in Account : user' = [user EXCEPT ![c] = new] /\ new.person = user[c].person
  <2>1. CASE SetRole(r, c, b)
    <3>1. [user[c] EXCEPT !.admin = b] \in Account /\ [user[c] EXCEPT !.admin = b].person = user[c].person
      BY <1>1 DEF Account
    <3> QED
      BY <2>1, <3>1 DEF SetRole
  <2>2. CASE SetBlocked(r, c, b)
    <3>1. [user[c] EXCEPT !.blocked = b] \in Account /\ [user[c] EXCEPT !.blocked = b].person = user[c].person
      BY <1>1 DEF Account
    <3> QED
      BY <2>2, <3>1 DEF SetBlocked
  <2> QED
    BY <2>1, <2>2
<1>4. SamePersons /\ user' \in [Codes -> Account \cup {NoUser}]
  BY <1>1, <1>3, NoUserIsNoAccount DEF SamePersons, AccountsInv, RowsTyped
<1> QED
  BY <1>1, <1>2, <1>4, AccountEdited DEF SetRole, SetBlocked

\* A new account is a new person's, under a code that no rename holds.
LEMMA CreateStep ==
  ASSUME AccountsInv, NEW r \in AuthReqs, NEW c \in Codes, NEW p \in People, NEW admin \in BOOLEAN,
         CreateUser(r, c, p, admin)
  PROVE  AccountsInv'
<1> DEFINE new == [person |-> p, admin |-> admin, blocked |-> FALSE]
<1>1. /\ user' = [user EXCEPT ![c] = new] /\ user[c] = NoUser /\ ~Renaming(r) /\ ~Locked(c)
      /\ UNCHANGED <<tokens, rows>> /\ To(r, [at |-> "idle"])
      /\ \A d \in Codes : user[d] # NoUser => user[d].person # p
      /\ \A row \in rows : row.person # p
  BY DEF CreateUser, Administrate, Renaming
<1>2. new \in Account /\ new.person = p
  BY DEF Account
<1> HIDE DEF new
<1>8. new # NoUser
  BY <1>2, NoUserIsNoAccount
<1>3. RequestsOK' /\ \A q \in AuthReqs : request'[q] = IF q = r THEN [at |-> "idle"] ELSE request[q]
  BY <1>1, Becomes DEF AccountsInv, Fields
<1>4. RowsTyped' /\ \A d \in Codes : user'[d] = IF d = c THEN new ELSE user[d]
  BY <1>1, <1>2 DEF AccountsInv, RowsTyped
<1>5. OneAccount' /\ HistoryFollows'
  <2>1. OneAccount'
    BY <1>1, <1>2, <1>4, <1>8 DEF AccountsInv, OneAccount
  <2>2. HistoryFollows'
    BY <1>1, <1>2, <1>4, <1>8 DEF AccountsInv, HistoryFollows
  <2> QED
    BY <2>1, <2>2
<1>6. TakenOK'
  BY <1>1, <1>3 DEF AccountsInv, TakenOK, Renaming
<1>7. RenamesOK'
  <2>1. \A q \in AuthReqs : Renaming(q)' => Renaming(q) /\ request'[q] = request[q]
    BY <1>3 DEF Renaming
  <2>2. \A q \in AuthReqs : Renaming(q) =>
            request[q].from \in Codes \ {c} /\ request[q].to \in Codes \ {c}
    BY <1>1 DEF AccountsInv, RequestsOK, Fields, RenameRequest, Renaming, Locked, RenamesOf
  <2> QED
    BY <1>1, <1>4, <2>1, <2>2 DEF AccountsInv, RenamesOK
<1> QED
  BY <1>3, <1>4, <1>5, <1>6, <1>7 DEF AccountsInv

LEMMA DeleteStep ==
  ASSUME AccountsInv, NEW r \in AuthReqs, DeleteUser(r)
  PROVE  AccountsInv'
<1> DEFINE c == request[r].code
<1>1. /\ user' = [user EXCEPT ![c] = NoUser] /\ ~Renaming(r) /\ ~Locked(c)
      /\ UNCHANGED <<tokens, rows>> /\ To(r, [at |-> "idle"])
  BY DEF DeleteUser, Renaming
<1>2. RequestsOK' /\ \A q \in AuthReqs : request'[q] = IF q = r THEN [at |-> "idle"] ELSE request[q]
  BY <1>1, Becomes DEF AccountsInv, Fields
<1>3. RowsTyped' /\ \A d \in Codes : user'[d] = IF d = c THEN NoUser ELSE user[d]
  BY <1>1 DEF AccountsInv, RowsTyped
<1>4. OneAccount' /\ HistoryFollows'
  BY <1>1, <1>3 DEF AccountsInv, OneAccount, HistoryFollows
<1>5. TakenOK'
  BY <1>1, <1>2 DEF AccountsInv, TakenOK, Renaming
<1>6. RenamesOK'
  <2>1. \A q \in AuthReqs : Renaming(q)' => Renaming(q) /\ request'[q] = request[q]
    BY <1>2 DEF Renaming
  <2>2. \A q \in AuthReqs : Renaming(q) =>
            request[q].from \in Codes \ {c} /\ request[q].to \in Codes \ {c}
    BY <1>1 DEF AccountsInv, RequestsOK, Fields, RenameRequest, Renaming, Locked, RenamesOf
  <2> QED
    BY <1>1, <1>3, <2>1, <2>2 DEF AccountsInv, RenamesOK
<1> QED
  BY <1>2, <1>3, <1>4, <1>5, <1>6 DEF AccountsInv

-----------------------------------------------------------------------------
LEMMA RenameStarts ==
  ASSUME AccountsInv, NEW r \in AuthReqs, NEW from \in Codes, NEW to \in Codes, StartRename(r, from, to)
  PROVE  AccountsInv'
<1> DEFINE new == [at |-> "renaming", from |-> from, to |-> to, left |-> MovedTables, taken |-> {}]
<1>1. /\ To(r, new) /\ UNCHANGED <<user, tokens, rows>> /\ ~Renaming(r) /\ ~Locked(from) /\ ~Locked(to)
      /\ user[from] # NoUser /\ user[to] = NoUser
  BY DEF StartRename, Administrate, Renaming
<1>2. Fields(new) /\ new.from = from /\ new.to = to /\ new.left = MovedTables /\ new.taken = {}
  BY DEF Fields, RenameRequest
<1> HIDE DEF new
<1>3. RequestsOK' /\ \A q \in AuthReqs : request'[q] = IF q = r THEN new ELSE request[q]
  BY <1>1, <1>2, Becomes DEF AccountsInv
<1>4. TakenOK'
  BY <1>1, <1>2, <1>3 DEF AccountsInv, TakenOK, Renaming
<1>5. RenamesOK'
  <2>1. \A q \in AuthReqs : Renaming(q) => {request[q].from, request[q].to} \cap {from, to} = {}
    BY <1>1 DEF Locked, RenamesOf, Renaming
  <2>2. \A q \in AuthReqs \ {r} : request'[q] = request[q]
    BY <1>3
  <2>3. request'[r] = new
    BY <1>3
  <2> QED
    BY <1>1, <1>2, <2>1, <2>2, <2>3 DEF AccountsInv, RenamesOK, Renaming
<1> QED
  BY <1>1, <1>3, <1>4, <1>5 DEF AccountsInv, RowsTyped, OneAccount, HistoryFollows

\* The table is complete: every orderly row of it under the old code has been taken.
LEMMA TableMoved ==
  ASSUME AccountsInv, NEW r \in AuthReqs, NEW table \in MovedTables, MoveTable(r, table)
  PROVE  AccountsInv'
<1>1. request[r] \in RenameRequest /\ Renaming(r) /\ UNCHANGED <<user, tokens, rows>>
  BY DEF MoveTable, AccountsInv, RequestsOK, Fields, Renaming
<1> DEFINE new == [request[r] EXCEPT !.left = @ \ {table}, !.taken = @ \cup Taken(r, table)]
<1>2. /\ new \in RenameRequest /\ new.from = request[r].from /\ new.to = request[r].to
      /\ new.left = request[r].left \ {table} /\ new.taken = request[r].taken \cup Taken(r, table)
  BY <1>1 DEF RenameRequest, Taken, AccountsInv, RowsTyped
<1>3. request' = [request EXCEPT ![r] = new]
  BY DEF MoveTable
<1> HIDE DEF new
<1>4. RequestsOK' /\ \A q \in AuthReqs : request'[q] = IF q = r THEN new ELSE request[q]
  <2>1. new.at = "renaming" /\ Fields(new)
    BY <1>2 DEF Fields, RenameRequest
  <2>2. To(r, new)
    BY <1>3 DEF To
  <2> QED
    BY <2>1, <2>2, Becomes DEF AccountsInv
<1>5. TakenOK'
  <2> SUFFICES ASSUME NEW q \in AuthReqs, NEW row \in rows, Renaming(q)', row.orderly,
                      row.table \in MovedTables \ request'[q].left, row.owner = request'[q].from
               PROVE  row \in request'[q].taken
    BY <1>1 DEF TakenOK
  <2>1. CASE q = r
    <3>1. row.table \in MovedTables \ request[r].left \/ row.table = table
      BY <1>2, <1>4, <2>1
    <3>2. row.owner = request[r].from
      BY <1>2, <1>4, <2>1
    <3>3. row \in request[r].taken \cup Taken(r, table)
      BY <1>1, <3>1, <3>2 DEF AccountsInv, TakenOK, Taken
    <3> QED
      BY <1>2, <1>4, <2>1, <3>3
  <2>2. CASE q # r
    BY <1>4, <2>2 DEF AccountsInv, TakenOK, Renaming
  <2> QED
    BY <2>1, <2>2
<1>6. RenamesOK'
  <2>1. Taken(r, table) \subseteq {row \in rows : row.owner = request[r].from}
    BY DEF Taken
  <2>2. \A q \in AuthReqs : /\ Renaming(q)' => Renaming(q)
                            /\ request'[q].from = request[q].from /\ request'[q].to = request[q].to
                            /\ q # r => request'[q].taken = request[q].taken
    BY <1>1, <1>2, <1>4 DEF Renaming
  <2>3. request'[r].taken = request[r].taken \cup Taken(r, table)
    BY <1>2, <1>4
  <2>4. \A q \in AuthReqs : Renaming(q) => request'[q].taken \subseteq {row \in rows : row.owner = request[q].from}
    BY <2>1, <2>2, <2>3 DEF AccountsInv, RenamesOK
  <2> QED
    BY <1>1, <2>2, <2>4 DEF AccountsInv, RenamesOK
<1> QED
  BY <1>1, <1>4, <1>5, <1>6 DEF AccountsInv, RowsTyped, OneAccount, HistoryFollows

LEMMA RenameRolledBack ==
  ASSUME AccountsInv, NEW r \in AuthReqs, RollbackRename(r)
  PROVE  AccountsInv'
<1>1. RequestsOK' /\ \A q \in AuthReqs : request'[q] = IF q = r THEN [at |-> "idle"] ELSE request[q]
  BY Becomes DEF AccountsInv, Fields, RollbackRename
<1>2. RenamesOK' /\ TakenOK'
  BY <1>1 DEF AccountsInv, RenamesOK, TakenOK, Renaming, RollbackRename
<1> QED
  BY <1>1, <1>2 DEF AccountsInv, RowsTyped, OneAccount, HistoryFollows, RollbackRename

LEMMA RenameCommits ==
  ASSUME AccountsInv, NEW r \in AuthReqs, CommitRename(r)
  PROVE  AccountsInv'
<1> DEFINE from == request[r].from
           to == request[r].to
           taken == request[r].taken
           Moved(row) == [row EXCEPT !.owner = to]
<1>1. /\ request[r] \in RenameRequest /\ Renaming(r) /\ request[r].left = {} /\ UNCHANGED tokens
      /\ user' = [user EXCEPT ![to] = user[from], ![from] = NoUser]
      /\ rows' = (rows \ taken) \cup {Moved(row) : row \in taken}
      /\ To(r, [at |-> "idle"])
  BY DEF CommitRename, AccountsInv, RequestsOK, Fields, Renaming
<1>2. /\ from \in Codes /\ to \in Codes /\ from # to /\ user[from] # NoUser /\ user[to] = NoUser
      /\ taken \subseteq rows /\ \A row \in taken : row.owner = from
  BY <1>1 DEF AccountsInv, RenamesOK, RenameRequest
<1>3. RequestsOK' /\ \A q \in AuthReqs : request'[q] = IF q = r THEN [at |-> "idle"] ELSE request[q]
  BY <1>1, Becomes DEF AccountsInv, Fields
<1>4. \A row \in rows : /\ Moved(row) \in SavedRow /\ Moved(row).owner = to /\ Moved(row).orderly = row.orderly
                         /\ Moved(row).table = row.table /\ Moved(row).person = row.person
  BY <1>2 DEF AccountsInv, RowsTyped, SavedRow
<1> HIDE DEF Moved
<1>5. \A d \in Codes : user'[d] = CASE d = from -> NoUser [] d = to -> user[from] [] OTHER -> user[d]
  BY <1>1, <1>2 DEF AccountsInv, RowsTyped
<1>6. RowsTyped'
  <2>1. user[from] \in Account \cup {NoUser}
    BY <1>2 DEF AccountsInv, RowsTyped
  <2>2. user' \in [Codes -> Account \cup {NoUser}]
    BY <1>1, <1>2, <2>1 DEF AccountsInv, RowsTyped
  <2>3. rows' \subseteq SavedRow
    BY <1>1, <1>2, <1>4 DEF AccountsInv, RowsTyped
  <2> QED
    BY <1>1, <2>2, <2>3 DEF AccountsInv, RowsTyped
<1>7. OneAccount'
  BY <1>2, <1>5 DEF AccountsInv, OneAccount
<1>8. \A row \in rows' : row \in rows \ taken \/ \E old \in taken : row = Moved(old)
  BY <1>1
<1>9. \A q \in AuthReqs : Renaming(q)' =>
          /\ q # r /\ Renaming(q) /\ request'[q] = request[q] /\ request[q] \in RenameRequest
          /\ {request[q].from, request[q].to} \cap {from, to} = {}
  BY <1>1, <1>3 DEF AccountsInv, RenamesOK, RequestsOK, Fields, Renaming
<1>10. RenamesOK'
  <2>1. ASSUME NEW q \in AuthReqs, Renaming(q)'
        PROVE  /\ user'[request'[q].from] # NoUser /\ user'[request'[q].to] = NoUser
               /\ request'[q].taken \subseteq {row \in rows' : row.owner = request'[q].from}
    <3>1. /\ request[q].from \in Codes \ {from, to} /\ request[q].to \in Codes \ {from, to}
          /\ Renaming(q) /\ request'[q] = request[q]
      BY <1>9, <2>1 DEF RenameRequest
    <3>2. user'[request[q].from] = user[request[q].from] /\ user'[request[q].to] = user[request[q].to]
      BY <1>5, <3>1
    <3>3. \A row \in request[q].taken : row \in rows /\ row.owner = request[q].from /\ row \notin taken
      BY <1>2, <3>1 DEF AccountsInv, RenamesOK
    <3>4. \A row \in request[q].taken : row \in rows'
      BY <1>1, <3>3
    <3> QED
      BY <3>1, <3>2, <3>3, <3>4 DEF AccountsInv, RenamesOK
  <2>2. \A p, q \in AuthReqs : Renaming(p)' /\ Renaming(q)' /\ p # q =>
            {request'[p].from, request'[p].to} \cap {request'[q].from, request'[q].to} = {}
    BY <1>9 DEF AccountsInv, RenamesOK
  <2> QED
    BY <2>1, <2>2 DEF RenamesOK
<1>11. TakenOK'
  <2> SUFFICES ASSUME NEW q \in AuthReqs, NEW row \in rows', Renaming(q)', row.orderly,
                      row.table \in MovedTables \ request'[q].left, row.owner = request'[q].from
               PROVE  row \in request'[q].taken
    BY DEF TakenOK
  <2>1. Renaming(q) /\ request'[q] = request[q] /\ row.owner # to
    BY <1>9
  <2>2. row \in rows
    BY <1>2, <1>4, <1>8, <2>1
  <2> QED
    BY <2>1, <2>2 DEF AccountsInv, TakenOK
<1>12. HistoryFollows'
  <2> SUFFICES ASSUME NEW row \in rows', row.orderly, row.table \in MovedTables, NEW d \in Codes,
                      user'[d] # NoUser, user'[d].person = row.person
               PROVE  row.owner = d
    BY DEF HistoryFollows
  <2>1. d # from /\ user'[d] = IF d = to THEN user[from] ELSE user[d]
    BY <1>2, <1>5
  <2>2. CASE row \in rows \ taken
    <3>1. CASE d = to
      <4>1. row.owner = from
        BY <1>2, <2>1, <2>2, <3>1 DEF AccountsInv, HistoryFollows
      <4>2. row \in taken
        BY <1>1, <2>2, <4>1 DEF AccountsInv, TakenOK
      <4> QED
        BY <2>2, <4>2
    <3>2. CASE d # to
      BY <2>1, <2>2, <3>2 DEF AccountsInv, HistoryFollows
    <3> QED
      BY <3>1, <3>2
  <2>3. ASSUME NEW old \in taken, row = Moved(old)
        PROVE  row.owner = d
    <3>1. /\ old \in rows /\ old.owner = from /\ old.orderly /\ old.table \in MovedTables
          /\ old.person = row.person /\ row.owner = to
      BY <1>2, <1>4, <2>3
    <3>2. d # to => old.owner = d
      BY <2>1, <3>1 DEF AccountsInv, HistoryFollows
    <3> QED
      BY <2>1, <3>1, <3>2
  <2> QED
    BY <1>8, <2>2, <2>3
<1> QED
  BY <1>3, <1>6, <1>7, <1>10, <1>11, <1>12 DEF AccountsInv

-----------------------------------------------------------------------------
LEMMA AccountsInvInit == AccountsInit => AccountsInv
<1> SUFFICES ASSUME AccountsInit
             PROVE  AccountsInv
  OBVIOUS
<1> DEFINE code == TwoOf(Codes)
           person == TwoOf(People)
           Admin(i) == [person |-> person[i], admin |-> TRUE, blocked |-> FALSE]
<1>1. /\ code[1] \in Codes /\ code[2] \in Codes /\ code[1] # code[2]
      /\ person[1] \in People /\ person[2] \in People /\ person[1] # person[2]
  BY AccountsAssumption, TwoAreTwo
<1>2. /\ user = [e \in Codes |-> CASE e = code[1] -> Admin(1) [] e = code[2] -> Admin(2) [] OTHER -> NoUser]
      /\ tokens = {[person |-> person[i], code |-> code[i], admin |-> TRUE] : i \in 1..2}
      /\ rows = {} /\ request = [r \in AuthReqs |-> [at |-> "idle"]]
  BY DEF AccountsInit
<1>3. Admin(1) \in Account /\ Admin(2) \in Account /\ Admin(1).person = person[1] /\ Admin(2).person = person[2]
  BY <1>1 DEF Account
<1>4. [person |-> person[1], code |-> code[1], admin |-> TRUE] \in Token
      /\ [person |-> person[2], code |-> code[2], admin |-> TRUE] \in Token
  BY <1>1 DEF Token
<1> HIDE DEF Admin, code, person
<1>5. user \in [Codes -> Account \cup {NoUser}] /\ \A e \in Codes : user[e] # NoUser =>
          (e = code[1] /\ user[e].person = person[1]) \/ (e = code[2] /\ user[e].person = person[2])
  BY <1>1, <1>2, <1>3
<1>6. tokens \subseteq Token
  <2>1. \A i \in 1..2 : i = 1 \/ i = 2
    OBVIOUS
  <2> QED
    BY <1>2, <1>4, <2>1
<1>7. RequestsOK /\ \A r \in AuthReqs : ~Renaming(r)
  BY <1>2 DEF RequestsOK, Fields, Renaming
<1>8. OneAccount
  BY <1>1, <1>5 DEF OneAccount
<1> QED
  BY <1>2, <1>5, <1>6, <1>7, <1>8 DEF AccountsInv, RowsTyped, RenamesOK, TakenOK, HistoryFollows

LEMMA AccountsInvStep == AccountsInv /\ [AccountsNext]_accountVars => AccountsInv'
<1> SUFFICES ASSUME AccountsInv, [AccountsNext]_accountVars
             PROVE  AccountsInv'
  OBVIOUS
<1>1. ASSUME NEW r \in AuthReqs, HandleRequest(r)
      PROVE  AccountsInv'
  <2>1. CASE Authenticate(r) \/ InvalidateBlockedCache(r)
    BY <2>1, QuietRequests DEF Authenticate
  <2>2. CASE \E table \in Tables : SaveRow(r, table)
    BY <2>2, SaveStep
  <2>3. CASE \E c \in Codes, p \in People, admin \in BOOLEAN : CreateUser(r, c, p, admin)
    BY <2>3, CreateStep
  <2>4. CASE \E c \in Codes, b \in BOOLEAN : SetRole(r, c, b) \/ SetBlocked(r, c, b)
    BY <2>4, EditStep
  <2>5. CASE Rename(r)
    BY <2>5, RenameStarts, TableMoved, RenameCommits, RenameRolledBack DEF Rename
  <2>6. CASE RemoveUser(r)
    BY <2>6, QuietRequests, DeleteStep DEF RemoveUser
  <2> QED
    BY <1>1, <2>1, <2>2, <2>3, <2>4, <2>5, <2>6 DEF HandleRequest
<1>2. ASSUME NEW c \in Codes, LogIn(c) \/ EntryExpires(c)
      PROVE  AccountsInv'
  <2>1. CASE LogIn(c)
    BY <2>1, LogInStep
  <2>2. CASE EntryExpires(c)
    BY <2>2 DEF EntryExpires, AccountsInv, RowsTyped, RequestsOK, OneAccount, RenamesOK, TakenOK,
       HistoryFollows, Renaming
  <2> QED
    BY <1>2, <2>1, <2>2
<1>3. CASE UNCHANGED accountVars
  BY <1>3 DEF accountVars, AccountsInv, RowsTyped, RequestsOK, OneAccount, RenamesOK, TakenOK,
     HistoryFollows, Renaming
<1> QED
  BY <1>1, <1>2, <1>3 DEF AccountsNext

(* What a rename under way knows of accounts, codes and rows.               *)
THEOREM AccountsInvariant == AccountsSpec => []AccountsInv
  BY AccountsInvInit, AccountsInvStep, PTL DEF AccountsSpec

(* Whatever is saved, created, deleted, renamed and rolled back between the *)
(* statements of a rename, what people saved in the tables it moves stays   *)
(* filed under the code they have.                                          *)
THEOREM HistoryFollowsRenames == AccountsSpec => []HistoryFollows
  BY AccountsInvariant, PTL DEF AccountsInv

-----------------------------------------------------------------------------
\* What AccountsInv does not speak of: how far a request is, the cache and the bound.
RequestsTyped ==
    /\ \A r \in AuthReqs : request[r].at \in {"idle", "checked", "served", "blocking", "renaming",
                                              "counted", "deleting"}
    /\ blockedCache \in [Codes -> {"none", "clear", "blocked"}]
    /\ adminActs \in 0..MaxActions

LEMMA RequestsTypedStep == AccountsInv /\ RequestsTyped /\ [AccountsNext]_accountVars => RequestsTyped'
<1> SUFFICES ASSUME AccountsInv, RequestsTyped, [AccountsNext]_accountVars
             PROVE  RequestsTyped'
  OBVIOUS
<1>1. request = [r \in AuthReqs |-> request[r]] /\ \A r \in AuthReqs : Fields(request[r])
  BY DEF AccountsInv, RequestsOK
<1>2. ASSUME NEW r \in AuthReqs, NEW state, To(r, state),
             state.at \in {"idle", "checked", "served", "blocking", "renaming", "counted", "deleting"},
             blockedCache' \in [Codes -> {"none", "clear", "blocked"}], adminActs' \in 0..MaxActions
      PROVE  RequestsTyped'
  BY <1>1, <1>2 DEF To, RequestsTyped
<1>3. adminActs < MaxActions => adminActs + 1 \in 0..MaxActions
  BY AccountsAssumption DEF RequestsTyped
<1>4. ASSUME NEW r \in AuthReqs, HandleRequest(r)
      PROVE  RequestsTyped'
  <2>1. CASE Authenticate(r) \/ InvalidateBlockedCache(r)
    <3>1. CASE \E t \in tokens : AuthHit(r, t)
      BY <1>2, <3>1 DEF AuthHit, RequestsTyped
    <3>2. CASE \E t \in tokens : AuthMiss(r, t)
      BY <1>2, <3>2 DEF AuthMiss, RequestsTyped
    <3>3. CASE AuthStore(r)
      BY <1>2, <3>3 DEF AuthStore, RequestsTyped
    <3>4. CASE InvalidateBlockedCache(r)
      BY <1>2, <3>4 DEF InvalidateBlockedCache, RequestsTyped
    <3> QED
      BY <2>1, <3>1, <3>2, <3>3, <3>4 DEF Authenticate
  <2>2. CASE \E table \in Tables : SaveRow(r, table)
    BY <1>2, <2>2 DEF SaveRow, RequestsTyped
  <2>3. CASE \E c \in Codes, p \in People, admin \in BOOLEAN : CreateUser(r, c, p, admin)
    BY <1>2, <1>3, <2>3 DEF CreateUser, Administrate, RequestsTyped
  <2>4. CASE \E c \in Codes, b \in BOOLEAN : SetRole(r, c, b) \/ SetBlocked(r, c, b)
    <3>1. CASE \E c \in Codes, b \in BOOLEAN : SetRole(r, c, b)
      BY <1>2, <1>3, <3>1 DEF SetRole, Administrate, RequestsTyped
    <3>2. CASE \E c \in Codes, b \in BOOLEAN : SetBlocked(r, c, b)
      BY <1>2, <1>3, <3>2 DEF SetBlocked, Administrate, RequestsTyped
    <3> QED
      BY <2>4, <3>1, <3>2
  <2>5. CASE Rename(r)
    <3>1. CASE \E from, to \in Codes : StartRename(r, from, to)
      BY <1>2, <1>3, <3>1 DEF StartRename, Administrate, RequestsTyped
    <3>2. CASE \E table \in MovedTables : MoveTable(r, table)
      <4>1. PICK table \in MovedTables : MoveTable(r, table)
        BY <3>2
      <4>2. request[r] \in RenameRequest
        BY <1>1, <4>1 DEF Fields, MoveTable
      <4> DEFINE state == [request[r] EXCEPT !.left = @ \ {table}, !.taken = @ \cup Taken(r, table)]
      <4>3. To(r, state)
        BY <4>1 DEF MoveTable, To
      <4>4. state.at = "renaming"
        BY <4>2 DEF RenameRequest
      <4> HIDE DEF state
      <4> QED
        BY <1>2, <4>1, <4>3, <4>4 DEF MoveTable, RequestsTyped
    <3>3. CASE CommitRename(r) \/ RollbackRename(r)
      BY <1>2, <3>3 DEF CommitRename, RollbackRename, RequestsTyped
    <3> QED
      BY <2>5, <3>1, <3>2, <3>3 DEF Rename
  <2>6. CASE RemoveUser(r)
    <3>1. CASE \E c \in Codes : CountAdmins(r, c)
      BY <1>2, <1>3, <3>1 DEF CountAdmins, Administrate, RequestsTyped
    <3>2. CASE CheckLastAdmin(r) \/ DeleteUser(r)
      BY <1>2, <3>2 DEF CheckLastAdmin, DeleteUser, RequestsTyped
    <3> QED
      BY <2>6, <3>1, <3>2 DEF RemoveUser
  <2> QED
    BY <1>4, <2>1, <2>2, <2>3, <2>4, <2>5, <2>6 DEF HandleRequest
<1>5. ASSUME NEW c \in Codes, LogIn(c) \/ EntryExpires(c)
      PROVE  RequestsTyped'
  BY <1>5 DEF LogIn, EntryExpires, RequestsTyped
<1>6. CASE UNCHANGED accountVars
  BY <1>6 DEF accountVars, RequestsTyped
<1> QED
  BY <1>4, <1>5, <1>6 DEF AccountsNext

\* Accounts, tokens, rows, requests and the cache of blocked users keep their types.
THEOREM AccountsTyped == AccountsSpec => []AccountsTypeOK
<1>1. AccountsInit => RequestsTyped
  BY AccountsAssumption DEF AccountsInit, RequestsTyped
<1>2. AccountsInv /\ RequestsTyped => AccountsTypeOK
  BY DEF AccountsInv, RowsTyped, RequestsTyped, AccountsTypeOK
<1> QED
  BY <1>1, <1>2, AccountsInvInit, AccountsInvStep, RequestsTypedStep, PTL DEF AccountsSpec

-----------------------------------------------------------------------------
(***************************************************************************)
(* The ranges of a download.  A fetch is started only within the window,   *)
(* which the loop moves on by one: AheadOK says how far, before and after   *)
(* the loop has started the next one; BehindOK that everything behind the   *)
(* loop has been read to its end.                                          *)
(***************************************************************************)
AheadOK ==
    \A i \in RangeSet : fetch[i] # "no" =>
        i <= current + (IF writing = "await" THEN Window - 1 ELSE Window)

BehindOK == \A i \in RangeSet : i < current => fetch[i] = "read" /\ i \in whole

LoopOK ==
    /\ writing \in {"await", "stream", "drain"} => current \in RangeSet
    /\ writing = "done" => current = NumRanges + 1
    /\ \A i \in whole : i <= current

RangeInv == RangeTypeOK /\ AheadOK /\ BehindOK /\ LoopOK

LEMMA RangeInvInit == RangeInit => RangeInv
  BY RangeAssumption DEF RangeInit, RangeInv, RangeTypeOK, AheadOK, BehindOK, LoopOK, RangeSet, Fetches

\* A fetch that is answered stays ahead of the loop.
LEMMA RangeAnswered ==
  ASSUME RangeInv, NEW i \in RangeSet, FetchOpens(i) \/ FetchFails(i)
  PROVE  RangeInv'
<1>1. /\ fetch[i] = "wait" /\ UNCHANGED <<current, whole, client>>
      /\ fetch' = [fetch EXCEPT ![i] = IF FetchOpens(i) THEN "open" ELSE "failed"]
      /\ \/ UNCHANGED writing
         \/ writing = "await" /\ writing' = "threw"
      /\ server' \in BOOLEAN
  BY DEF FetchOpens, FetchFails, RangeInv, RangeTypeOK
<1>2. RangeTypeOK'
  BY <1>1 DEF RangeInv, RangeTypeOK, Fetches
<1>3. current \in Nat /\ Window \in Nat /\ \A j \in RangeSet : j \in Nat
  BY RangeAssumption DEF RangeInv, RangeTypeOK, RangeSet
<1>4. \A j \in RangeSet : /\ fetch'[j] # "no" => fetch[j] # "no"
                          /\ fetch[j] = "read" => fetch'[j] = "read"
  BY <1>1 DEF RangeInv, RangeTypeOK
<1>5. AheadOK' /\ BehindOK' /\ LoopOK'
  BY <1>1, <1>3, <1>4 DEF RangeInv, AheadOK, BehindOK, LoopOK
<1> QED
  BY <1>2, <1>5 DEF RangeInv

LEMMA RangeAwaited ==
  ASSUME RangeInv, Await
  PROVE  RangeInv'
<1>1. /\ writing = "await" /\ writing' = "stream" /\ UNCHANGED <<current, whole, client, server>>
      /\ fetch' = [j \in RangeSet |-> IF Ahead(j - 1) /\ fetch[j] = "no" THEN "wait" ELSE fetch[j]]
      /\ current \in RangeSet
  BY DEF Await
<1>2. current \in Nat /\ Window \in Nat /\ \A j \in RangeSet : j \in Nat
  BY RangeAssumption DEF RangeInv, RangeTypeOK, RangeSet
<1>3. \A j \in RangeSet : /\ fetch'[j] # "no" => fetch[j] # "no" \/ j <= current + Window
                          /\ fetch[j] = "read" => fetch'[j] = "read"
  BY <1>1, <1>2 DEF Ahead
<1>4. RangeTypeOK'
  BY <1>1 DEF RangeInv, RangeTypeOK, Fetches
<1>5. AheadOK' /\ BehindOK' /\ LoopOK'
  BY <1>1, <1>2, <1>3 DEF RangeInv, AheadOK, BehindOK, LoopOK
<1> QED
  BY <1>4, <1>5 DEF RangeInv

LEMMA RangeWritten ==
  ASSUME RangeInv, BufferFills \/ Drain \/ BodyFails \/ ClientLeaves
  PROVE  RangeInv'
<1>1. /\ UNCHANGED <<fetch, current, whole, server>> /\ client' \in BOOLEAN
      /\ writing' \in {"await", "stream", "drain", "done", "threw"}
      /\ UNCHANGED writing \/ (writing \in {"stream", "drain"} /\ writing' \in {"stream", "drain", "threw"})
  BY DEF BufferFills, Drain, BodyFails, ClientLeaves, RangeInv, RangeTypeOK
<1>2. RangeTypeOK'
  BY <1>1 DEF RangeInv, RangeTypeOK
<1>3. AheadOK' /\ BehindOK' /\ LoopOK'
  BY <1>1 DEF RangeInv, AheadOK, BehindOK, LoopOK
<1> QED
  BY <1>2, <1>3 DEF RangeInv

LEMMA RangeBodyEnds ==
  ASSUME RangeInv, NEW complete \in BOOLEAN, BodyEnds(complete)
  PROVE  RangeInv'
<1>1. /\ writing = "stream" /\ fetch' = [fetch EXCEPT ![current] = "read"] /\ UNCHANGED <<client, server>>
      /\ current \in RangeSet
      /\ \/ /\ current' = current + 1 /\ whole' = whole \union {current}
            /\ writing' = IF current = NumRanges THEN "done" ELSE "await"
         \/ current' = current /\ whole' = whole /\ writing' = "threw"
  BY DEF BodyEnds, Length, RangeInv, LoopOK
<1>2. current \in Nat /\ Window \in Nat /\ NumRanges \in Nat /\ \A j \in RangeSet : j \in Nat /\ j <= NumRanges
  BY RangeAssumption DEF RangeInv, RangeTypeOK, RangeSet
<1>3. \A j \in RangeSet : fetch'[j] = IF j = current THEN "read" ELSE fetch[j]
  BY <1>1 DEF RangeInv, RangeTypeOK
<1>4. RangeTypeOK'
  <2>1. fetch' \in [RangeSet -> Fetches] /\ whole' \in SUBSET RangeSet
    BY <1>1 DEF RangeInv, RangeTypeOK, Fetches
  <2>2. current' \in 1..(NumRanges + 1)
    <3>1. current \in 1..NumRanges
      BY <1>1 DEF RangeSet
    <3>2. current + 1 \in 1..(NumRanges + 1) /\ current \in 1..(NumRanges + 1)
      BY <1>2, <3>1
    <3> QED
      BY <1>1, <3>2
  <2> QED
    BY <1>1, <2>1, <2>2 DEF RangeInv, RangeTypeOK
<1>5. AheadOK'
  <2> SUFFICES ASSUME NEW i \in RangeSet, fetch'[i] # "no"
               PROVE  i <= current' + (IF writing' = "await" THEN Window - 1 ELSE Window)
    BY DEF AheadOK
  <2>1. i <= current + Window
    BY <1>1, <1>2, <1>3 DEF RangeInv, AheadOK
  <2>2. current' + (IF writing' = "await" THEN Window - 1 ELSE Window) >= current + Window
    <3>1. (current + 1) + (Window - 1) = current + Window /\ (current + 1) + Window >= current + Window
      BY <1>2
    <3> QED
      BY <1>1, <1>2, <3>1
  <2> QED
    BY <1>1, <1>2, <2>1, <2>2
<1>6. BehindOK'
  BY <1>1, <1>2, <1>3 DEF RangeInv, BehindOK
<1>7. LoopOK'
  <2>1. \A j \in whole' : j <= current'
    <3>1. \A j \in whole : j <= current /\ j \in Nat
      BY <1>2 DEF RangeInv, LoopOK, RangeTypeOK
    <3>2. \A j \in whole : j <= current + 1
      BY <1>2, <3>1
    <3>3. current <= current + 1
      BY <1>2
    <3> QED
      BY <1>1, <3>1, <3>2, <3>3
  <2>2. writing' = "await" => current' \in RangeSet
    BY <1>1, <1>2 DEF RangeSet
  <2> QED
    BY <1>1, <2>1, <2>2 DEF LoopOK
<1> QED
  BY <1>4, <1>5, <1>6, <1>7 DEF RangeInv

\* A response that ends carries every range completely, and behind the range that is
\* written no more than a window of fetches is open (version.js, sendMultipartRanges).
THEOREM RangesStayBounded == RangeSpec => [](RangeTypeOK /\ RangesBounded)
<1>1. RangeInv /\ [RangeNext]_rangeVars => RangeInv'
  <2> SUFFICES ASSUME RangeInv, [RangeNext]_rangeVars
               PROVE  RangeInv'
    OBVIOUS
  <2>1. CASE UNCHANGED rangeVars
    BY <2>1 DEF rangeVars, RangeInv, RangeTypeOK, AheadOK, BehindOK, LoopOK
  <2> QED
    BY <2>1, RangeAnswered, RangeAwaited, RangeWritten, RangeBodyEnds DEF RangeNext
<1>2. RangeInv => RangeTypeOK /\ RangesBounded
  <2> SUFFICES ASSUME RangeInv
               PROVE  RangesBounded
    BY DEF RangeInv
  <2>1. current \in Nat /\ Window \in Nat /\ NumRanges \in Nat /\ \A j \in RangeSet : j \in Nat
    BY RangeAssumption DEF RangeInv, RangeTypeOK, RangeSet
  <2>2. writing = "done" => whole = RangeSet
    <3> SUFFICES ASSUME writing = "done"
                 PROVE  whole = RangeSet
      OBVIOUS
    <3>1. current = NumRanges + 1 /\ whole \subseteq RangeSet
      BY DEF RangeInv, LoopOK, RangeTypeOK
    <3>2. \A i \in RangeSet : i < current
      BY <2>1, <3>1 DEF RangeSet
    <3> QED
      BY <3>1, <3>2 DEF RangeInv, BehindOK
  <2>3. OpenFetches \ {current} \subseteq (current + 1)..(current + Window)
    <3> SUFFICES ASSUME NEW i \in OpenFetches, i # current
                 PROVE  i \in (current + 1)..(current + Window)
      OBVIOUS
    <3>1. i \in RangeSet /\ fetch[i] # "no" /\ fetch[i] # "read"
      BY DEF OpenFetches
    <3>2. i <= current + Window
      BY <2>1, <3>1 DEF RangeInv, AheadOK
    <3>3. ~(i < current)
      BY <3>1 DEF RangeInv, BehindOK
    <3> QED
      BY <2>1, <3>1, <3>2, <3>3
  <2>4. /\ IsFiniteSet((current + 1)..(current + Window))
        /\ Cardinality((current + 1)..(current + Window)) = Window
    <3>1. current + 1 \in Int /\ current + Window \in Int
      BY <2>1
    <3>2. (current + 1) <= (current + Window) \/ Window = 0
      BY <2>1
    <3>3. /\ IsFiniteSet((current + 1)..(current + Window))
          /\ Cardinality((current + 1)..(current + Window)) =
                IF current + 1 > current + Window THEN 0 ELSE (current + Window) - (current + 1) + 1
      BY <3>1, FS_Interval
    <3> QED
      BY <2>1, <3>3, RangeAssumption
  <2>5. Cardinality(OpenFetches \ {current}) <= Window
    BY <2>3, <2>4, FS_Subset
  <2> QED
    BY <2>2, <2>5 DEF RangesBounded, RangeInv, LoopOK
<1> QED
  BY <1>1, <1>2, RangeInvInit, PTL DEF RangeSpec

-----------------------------------------------------------------------------
(***************************************************************************)
(* Presence: no closed connection stays listed under its last nickname,    *)
(* for every number of connections and nicknames.  PresenceInv adds that   *)
(* disconnect runs once, after the connection, on its way with the         *)
(* nickname the connection has, and that a registration it overtakes is    *)
(* hasty (ClosingOK), and that an administrator is entered only by a       *)
(* registration that has returned (AdminsOK).                              *)
(***************************************************************************)
PeerType == [open : BOOLEAN, used : BOOLEAN, nick : NameOrNone, joining : SUBSET Nicknames,
             leaving : NameOrNone, closing : CloseSteps]

ClosingOK ==
    \A s \in Sockets :
       /\ peer[s].open => peer[s].closing = "none"
       /\ peer[s].joining # {} => peer[s].open \/ s \in hasty
       /\ peer[s].closing = "offline" => peer[s].leaving = peer[s].nick \/ s \in hasty
AdminsOK == \A s \in adminSockets : Registered(s)

PresenceInv == PresenceTypeOK /\ ClosingOK /\ AdminsOK /\ NoGhosts

\* Of the connections one changes.
Changes(s) ==
    /\ peer' \in [Sockets -> PeerType]
    /\ \A t \in Sockets \ {s} : peer'[t] = peer[t]
    /\ peer'[s].open \/ peer'[s].closing # "none" => peer'[s].used

\* What a step of one connection has to show: the entries of the others can only go.
LEMMA OneConnection ==
  ASSUME PresenceInv, NEW s \in Sockets, Changes(s),
         online' \in [Nicknames -> Sockets \cup {NoSocket}],
         \A n \in Nicknames : online'[n] \in {online[n], NoSocket, s},
         located' \subseteq Nicknames, blocked' \subseteq Nicknames,
         forced' \in [Nicknames -> Sockets \cup {NoSocket}],
         hasty' \in {hasty, hasty \cup {s}},
         adminSockets' \subseteq adminSockets \cup {s},
         s \in adminSockets' => Registered(s)' /\ (s \in hasty' \/ peer'[s].open \/ peer'[s].closing # "none"),
         peer'[s].open => peer'[s].closing = "none",
         peer'[s].joining # {} => peer'[s].open \/ s \in hasty',
         peer'[s].closing = "offline" => peer'[s].leaving = peer'[s].nick \/ s \in hasty',
         peer'[s].open \/ peer'[s].closing = "offline" \/ s \in hasty'
            \/ \A n \in Nicknames : peer'[s].nick = n => online'[n] # s
  PROVE  PresenceInv'
<1>1. PresenceTypeOK'
  BY DEF PresenceInv, PresenceTypeOK, Changes, PeerType
<1>2. ClosingOK'
  BY DEF PresenceInv, ClosingOK, Changes
<1>3. AdminsOK' /\ \A t \in adminSockets' : t \in hasty' \/ peer'[t].open \/ peer'[t].closing # "none"
  BY DEF PresenceInv, PresenceTypeOK, AdminsOK, Registered, NoGhosts, Changes
<1>4. ASSUME NEW n \in Nicknames, NEW t \in Sockets \ hasty', online'[n] = t, peer'[t].nick = n
      PROVE  peer'[t].open \/ peer'[t].closing = "offline"
  <2>1. CASE t = s
    BY <1>4, <2>1
  <2>2. CASE t # s
    <3>1. online[n] = t /\ peer'[t] = peer[t] /\ t \notin hasty
      BY <1>4, <2>2, PresenceAssumption DEF Changes
    <3> QED
      BY <1>4, <3>1 DEF PresenceInv, NoGhosts
  <2> QED
    BY <2>1, <2>2
<1> QED
  BY <1>1, <1>2, <1>3, <1>4 DEF PresenceInv, NoGhosts

\* What is known of one connection.
LEMMA PeerFacts ==
  ASSUME PresenceInv, NEW s \in Sockets
  PROVE  /\ peer \in [Sockets -> PeerType] /\ peer[s] \in PeerType
         /\ (peer[s].open \/ peer[s].closing # "none") => peer[s].used
         /\ online \in [Nicknames -> Sockets \cup {NoSocket}]
         /\ located \subseteq Nicknames /\ blocked \subseteq Nicknames
         /\ forced \in [Nicknames -> Sockets \cup {NoSocket}]
         /\ peer[s].open => peer[s].closing = "none"
         /\ peer[s].joining # {} => peer[s].open \/ s \in hasty
         /\ peer[s].closing = "offline" => peer[s].leaving = peer[s].nick \/ s \in hasty
         /\ s \in adminSockets => Registered(s) /\ (s \in hasty \/ peer[s].open \/ peer[s].closing # "none")
         /\ s \in hasty \/ peer[s].open \/ peer[s].closing = "offline"
               \/ \A n \in Nicknames : peer[s].nick = n => online[n] # s
<1>1. PresenceTypeOK /\ ClosingOK /\ AdminsOK /\ NoGhosts
  BY DEF PresenceInv
<1> QED
  BY <1>1 DEF PresenceTypeOK, PeerType, ClosingOK, AdminsOK, NoGhosts

LEMMA ConnectStep ==
  ASSUME PresenceInv, NEW s \in Sockets, Connect(s)
  PROVE  PresenceInv'
<1>1. /\ Changes(s) /\ peer'[s].open /\ peer'[s].closing = "none" /\ peer'[s].nick = peer[s].nick
      /\ UNCHANGED <<online, located, adminSockets, blocked, forced, hasty>>
  BY PeerFacts DEF Connect, Changes, PeerType
<1> QED
  BY <1>1, PeerFacts, OneConnection DEF Registered

LEMMA SetOnlineStep ==
  ASSUME PresenceInv, NEW s \in Sockets, NEW n \in Nicknames, SetOnline(s, n)
  PROVE  PresenceInv'
<1>1. /\ Changes(s) /\ peer'[s].open /\ peer'[s].closing = peer[s].closing /\ peer'[s].nick = peer[s].nick
      /\ UNCHANGED <<located, adminSockets, blocked, forced, hasty>> /\ peer[s].open
  BY PeerFacts DEF SetOnline, Changes, PeerType
<1>2. /\ online' \in [Nicknames -> Sockets \cup {NoSocket}]
      /\ \A m \in Nicknames : online'[m] \in {online[m], NoSocket, s}
  BY PeerFacts DEF SetOnline
<1> QED
  BY <1>1, <1>2, PeerFacts, OneConnection DEF Registered

LEMMA RegisterReturnsStep ==
  ASSUME PresenceInv, NEW s \in Sockets, NEW n \in Nicknames, RegisterReturns(s, n)
  PROVE  PresenceInv'
<1>1. PICK rest \in {peer[s].joining, peer[s].joining \ {n}} :
        peer' = [peer EXCEPT ![s].nick = n, ![s].joining = rest]
  BY DEF RegisterReturns
<1>2. /\ Changes(s) /\ peer'[s].open = peer[s].open /\ peer'[s].closing = peer[s].closing
      /\ peer'[s].nick = n /\ Registered(s)'
  BY <1>1, PeerFacts, PresenceAssumption DEF Changes, PeerType, NameOrNone, Registered
<1>3. /\ UNCHANGED <<online, located, blocked, forced, hasty>> /\ adminSockets' \subseteq adminSockets \cup {s}
      /\ peer[s].open \/ s \in hasty
  BY PeerFacts DEF RegisterReturns
<1> QED
  BY <1>2, <1>3, PeerFacts, OneConnection

LEMMA UpdateLocationStep ==
  ASSUME PresenceInv, NEW s \in Sockets, UpdateLocation(s)
  PROVE  PresenceInv'
<1>1. /\ Changes(s) /\ peer' = peer /\ UNCHANGED <<online, adminSockets, blocked, forced, hasty>>
      /\ located' \subseteq Nicknames
  BY PeerFacts DEF UpdateLocation, Registered, NameOrNone, Changes, PeerType
<1> QED
  BY <1>1, PeerFacts, OneConnection DEF Registered

\* Disconnect up to its first await, by the transport or by a block.
LEMMA ClosesStep ==
  ASSUME PresenceInv, NEW s \in Sockets, peer[s].open,
         peer' = [peer EXCEPT ![s].open = FALSE, ![s].leaving = peer[s].nick,
                              ![s].closing = IF Registered(s) THEN "offline" ELSE "none"],
         hasty' = IF peer[s].joining # {} THEN hasty \cup {s} ELSE hasty,
         adminSockets' \subseteq adminSockets, UNCHANGED <<online, located, blocked>>,
         forced' \in [Nicknames -> Sockets \cup {NoSocket}]
  PROVE  PresenceInv'
<1>1. /\ Changes(s) /\ ~peer'[s].open /\ peer'[s].closing = IF Registered(s) THEN "offline" ELSE "none"
      /\ peer'[s].nick = peer[s].nick /\ peer'[s].leaving = peer[s].nick /\ peer'[s].joining = peer[s].joining
  BY PeerFacts DEF Changes, PeerType, CloseSteps
<1>2. peer'[s].closing = "offline" \/ \A n \in Nicknames : peer'[s].nick # n
  BY <1>1, PresenceAssumption DEF Registered
<1> QED
  BY <1>1, <1>2, PeerFacts, OneConnection DEF Registered

LEMMA DisconnectStep ==
  ASSUME PresenceInv, NEW s \in Sockets, Disconnect(s)
  PROVE  PresenceInv'
<1>1. adminSockets' \subseteq adminSockets
  BY DEF Disconnect
<1> QED
  BY <1>1, PeerFacts, ClosesStep DEF Disconnect

LEMMA RemoveLocationStep ==
  ASSUME PresenceInv, NEW s \in Sockets, RemoveLocation(s)
  PROVE  PresenceInv'
<1>1. /\ Changes(s) /\ peer'[s].open = peer[s].open /\ peer'[s].closing = "none" /\ peer[s].closing = "unlocated"
      /\ peer'[s].nick = peer[s].nick /\ peer'[s].joining = peer[s].joining
      /\ UNCHANGED <<online, blocked, forced, hasty>> /\ adminSockets' = adminSockets \ {s}
      /\ located' \subseteq Nicknames
  BY PeerFacts DEF RemoveLocation, Changes, PeerType, CloseSteps
<1> QED
  BY <1>1, PeerFacts, OneConnection

LEMMA RemoveOnlineStep ==
  ASSUME PresenceInv, NEW s \in Sockets, RemoveOnline(s)
  PROVE  PresenceInv'
<1>1. /\ Changes(s) /\ peer'[s].open = peer[s].open /\ peer'[s].closing = "unlocated"
      /\ peer[s].closing = "offline" /\ peer'[s].nick = peer[s].nick /\ peer'[s].joining = peer[s].joining
      /\ UNCHANGED <<located, adminSockets, blocked, forced, hasty>>
  BY PeerFacts DEF RemoveOnline, Changes, PeerType, CloseSteps, NameOrNone
<1>2. /\ online' \in [Nicknames -> Sockets \cup {NoSocket}]
      /\ \A n \in Nicknames : online'[n] \in {online[n], NoSocket, s}
      /\ \A n \in Nicknames : peer[s].leaving = n => online'[n] = NoSocket
  BY PeerFacts DEF RemoveOnline, Without
<1>3. s \in hasty' \/ \A n \in Nicknames : peer'[s].nick = n => online'[n] # s
  BY <1>1, <1>2, PeerFacts, PresenceAssumption
<1> QED
  BY <1>1, <1>2, <1>3, PeerFacts, OneConnection DEF Registered

LEMMA BlockUserStep ==
  ASSUME PresenceInv, NEW n \in Nicknames, BlockUser(n)
  PROVE  PresenceInv'
<1>1. PresenceTypeOK'
  BY DEF BlockUser, PresenceInv, PresenceTypeOK
<1> QED
  BY <1>1 DEF BlockUser, PresenceInv, ClosingOK, AdminsOK, Registered, NoGhosts

LEMMA ForceOutStep ==
  ASSUME PresenceInv, NEW n \in Nicknames, ForceOut(n)
  PROVE  PresenceInv'
<1> DEFINE s == forced[n]
<1>1. s \in Sockets /\ forced' \in [Nicknames -> Sockets \cup {NoSocket}]
      /\ UNCHANGED <<online, located, adminSockets, blocked>>
  BY DEF ForceOut, PresenceInv, PresenceTypeOK
<1>2. CASE peer[s].open
  <2>1. /\ peer' = [peer EXCEPT ![s].open = FALSE, ![s].leaving = peer[s].nick,
                                ![s].closing = IF Registered(s) THEN "offline" ELSE "none"]
        /\ hasty' = IF peer[s].joining # {} THEN hasty \cup {s} ELSE hasty
    BY <1>2 DEF ForceOut
  <2> QED
    BY <1>1, <1>2, <2>1, ClosesStep
<1>3. CASE ~peer[s].open
  <2>1. peer' = peer /\ hasty' = hasty
    BY <1>3 DEF ForceOut
  <2>2. Changes(s)
    BY <1>1, <2>1, PeerFacts DEF Changes
  <2> QED
    BY <1>1, <2>1, <2>2, PeerFacts, OneConnection DEF Registered
<1> QED
  BY <1>2, <1>3

LEMMA PresenceInvInit == PresenceInit => PresenceInv
<1> SUFFICES ASSUME PresenceInit
             PROVE  PresenceInv
  OBVIOUS
<1>1. /\ peer \in [Sockets -> PeerType]
      /\ \A s \in Sockets : ~peer[s].open /\ peer[s].closing = "none" /\ peer[s].joining = {}
  BY DEF PresenceInit, PeerType, NameOrNone, CloseSteps
<1>2. PresenceTypeOK
  BY <1>1 DEF PresenceInit, PresenceTypeOK, PeerType
<1>3. ClosingOK /\ AdminsOK /\ NoGhosts
  BY <1>1, PresenceAssumption DEF PresenceInit, ClosingOK, AdminsOK, NoGhosts
<1> QED
  BY <1>2, <1>3 DEF PresenceInv

LEMMA PresenceInvStep == PresenceInv /\ [PresenceNext]_presenceVars => PresenceInv'
<1> SUFFICES ASSUME PresenceInv, [PresenceNext]_presenceVars
             PROVE  PresenceInv'
  OBVIOUS
<1>1. CASE PresenceNext
  BY <1>1, ConnectStep, SetOnlineStep, RegisterReturnsStep, UpdateLocationStep, DisconnectStep,
     RemoveOnlineStep, RemoveLocationStep, BlockUserStep, ForceOutStep DEF PresenceNext
<1>2. CASE UNCHANGED presenceVars
  BY <1>2 DEF presenceVars, PresenceInv, PresenceTypeOK, ClosingOK, AdminsOK, Registered, NoGhosts
<1> QED
  BY <1>1, <1>2

(***************************************************************************)
(* Nobody stays listed, with a closed connection, under the nickname it    *)
(* registered last, whatever order its handlers come in, unless it closed  *)
(* while a registration waited.  (socket.js, register and disconnect)      *)
(***************************************************************************)
THEOREM NobodyHaunts == PresenceSpec => []NoGhosts
BY PresenceInvInit, PresenceInvStep, PTL DEF PresenceSpec, PresenceInv

\* The types of the presence (socket.js, onlineState.ts).
LEMMA PresenceTyped == PresenceSpec => []PresenceTypeOK
BY PresenceInvInit, PresenceInvStep, PTL DEF PresenceSpec, PresenceInv

-----------------------------------------------------------------------------
(***************************************************************************)
(* The union.  A step of it is a step of one part that leaves the others    *)
(* alone, so what holds of a part holds of it in the union.                 *)
(***************************************************************************)
LEMMA EachPart ==
    ServerSpec => /\ FindingsSpec /\ GatewaySpec /\ AccountsSpec /\ RangeSpec /\ GatesSpec /\ HwSpec
                  /\ PresenceSpec
<1>1. ServerInit => /\ FindingsInit /\ GatewayInit /\ AccountsInit /\ RangeInit /\ GatesInit /\ HwInit
                    /\ PresenceInit
  BY DEF ServerInit
<1>2. [ServerNext]_ServerVars => /\ [FindingsNext]_findVars /\ [GatewayNext]_gatewayVars
                                 /\ [AccountsNext]_accountVars /\ [RangeNext]_rangeVars
                                 /\ [GatesNext]_gatesVars /\ [HwNext]_hwVars /\ [PresenceNext]_presenceVars
  BY DEF ServerNext, ServerVars
<1> QED
  BY <1>1, <1>2, PTL DEF ServerSpec, FindingsSpec, GatewaySpec, AccountsSpec, RangeSpec, GatesSpec, HwSpec,
     PresenceSpec

\* Every part of the server that is checked beside the others keeps its types, and the
\* ranges of a download stay within their window, for every value of the constants.
THEOREM ServerTyped == ServerSpec => []ServerTypeOK
<1>1. ServerInit => side \in Sides
  BY DEF ServerInit
<1>2. side \in Sides /\ [ServerNext]_ServerVars => (side \in Sides)'
  BY DEF ServerNext, ServerVars
<1>3. ServerSpec => [](side \in Sides)
  BY <1>1, <1>2, PTL DEF ServerSpec
<1>4. /\ FindingsTypeOK /\ GatewayTypeOK /\ AccountsTypeOK /\ RangeTypeOK /\ RangesBounded
      /\ GatesTypeOK /\ HwTypeOK /\ PresenceTypeOK /\ side \in Sides
      => ServerTypeOK
  BY SidesAssumption DEF ServerTypeOK
<1> QED
  BY <1>3, <1>4, EachPart, FindingsTyped, GatewayTyped, AccountsTyped, RangesStayBounded, PoolTyped,
     HardwareTyped, PresenceTyped, PTL

\* What the parts promise, in the union: the run of the server process checks all of it on one
\* instance.
THEOREM ServerKeepsAll ==
    ServerSpec => [](/\ NeverOverstated /\ RoleInStep /\ HistoryFollows /\ PoolExact /\ NoDoubleWork
                     /\ NoGhosts)
BY EachPart, FindingsNeverOverstated, RolesInStep, HistoryFollowsRenames, PoolIsExact, NoJobTwice,
   NobodyHaunts, PTL

=============================================================================
