--------------------------- MODULE DesktopProofs ---------------------------
(***************************************************************************)
(* The desktop engine's safety for any number of devices, records,         *)
(* operations and sync runs.  DInv needs no condition: types, and that no  *)
(* operation leaves the queue without a reason.  From it every step is a   *)
(* step of SyncLedger or a stutter.  CalmInv holds when one run goes at a  *)
(* time and nothing is lost or killed (Calm); then the operations of a     *)
(* record reach the server in the order of the edits.  RInv adds how far   *)
(* the cursors have got, when conflicts are settled with the local side:   *)
(* then deletions land and the devices end with what the server has.       *)
(***************************************************************************)
EXTENDS DesktopSync, FiniteSetTheorems, WellFoundedInduction, TLAPS

(***************************************************************************)
(* The inductive invariant, whatever is lost, retried, killed or run       *)
(* twice.                                                                  *)
(***************************************************************************)

Made == {o \in Ops : queue[o] # NoItem}

\* The operations a run carries, and the answers it has.
Answers(d, s) == IF run[d][s].phase \in {"push", "results"} THEN run[d][s].replies ELSE {}
Todo(d, s) == IF run[d][s].phase \in {"push", "results"} THEN run[d][s].todo ELSE {}
Carried(d, s) == Todo(d, s) \cup {p.op : p \in Answers(d, s)}

Applied(o) == ledger[o] # NoEntry /\ ledger[o].status = "applied"

ServerTyped ==
    /\ rows \in [Records -> Row] /\ revision \in [Records -> Nat]
    /\ ledger \in [Ops -> Entry \cup {NoEntry}] /\ late \subseteq Made
DeviceTyped ==
    /\ local \in [Devices -> [Records -> LocalRow \cup {NoLocal}]]
    /\ queue \in [Ops -> Item \cup {NoItem}] /\ IsFiniteSet(Made)
    /\ conflicts \in [Ops -> Conflict \cup {NoConflict}]
    /\ \A o \in Ops : conflicts[o] # NoConflict => o \in Made
    /\ cursor \in [Devices -> Nat]
Counted == losses \in 0 .. MaxLosses /\ crashes \in 0 .. MaxCrashes /\ web \in 0 .. MaxWeb
RunsTyped ==
    /\ run \in [Devices -> [Runs -> RunState]]
    /\ \A d \in Devices, s \in Runs : Carried(d, s) \subseteq Queued(d)

\* An answer "applied" is the ledger's.
AnswersOK ==
    \A d \in Devices, s \in Runs : \A p \in Answers(d, s) :
       p.answer.status = "applied" => Applied(p.op)

DropOK(o) ==
    /\ queue[o].status = "done" => Applied(o)
    /\ queue[o].status = "failed" =>
         \/ queue[o].attempts >= MaxAttempts
         \/ \E p \in On(queue[o].dev, queue[o].rec) : conflicts[p] # NoConflict

DInv == ServerTyped /\ DeviceTyped /\ Counted /\ RunsTyped /\ AnswersOK /\ NothingDropped

(***************************************************************************)
(* Numbers and sets.                                                       *)
(***************************************************************************)

\* A nonempty finite set of numbers has a greatest: otherwise a smallest
\* nonempty subset without one would have a smaller.
LEMMA Greatest ==
  ASSUME NEW S \in SUBSET Int, S # {}, IsFiniteSet(S)
  PROVE  \E x \in S : \A y \in S : x >= y
<1> SUFFICES ASSUME ~ \E x \in S : \A y \in S : x >= y
             PROVE  FALSE
  OBVIOUS
<1> DEFINE Bad == {T \in FiniteSubsetsOf(S) : T # {} /\ ~ \E x \in T : \A y \in T : x >= y}
<1>1. S \in Bad
  BY DEF FiniteSubsetsOf
<1>2. PICK T \in Bad : \A U \in Bad : ~(<<U, T>> \in StrictSubsetOrdering(S))
  <2>1. Bad \subseteq FiniteSubsetsOf(S)
    OBVIOUS
  <2> HIDE DEF Bad
  <2> QED
    BY <1>1, <2>1, FS_StrictSubsetOrderingWellFounded, WFMin
<1>3. PICK t \in T : TRUE
  OBVIOUS
<1>4. T \in SUBSET Int /\ IsFiniteSet(T)
  BY <1>2 DEF FiniteSubsetsOf
<1>5. CASE T \ {t} = {}
  <2>1. \A y \in T : t >= y
    BY <1>3, <1>4, <1>5
  <2> QED
    BY <1>2, <1>3, <2>1
<1>6. CASE T \ {t} # {}
  <2>1. T \ {t} \in FiniteSubsetsOf(S) /\ <<T \ {t}, T>> \in StrictSubsetOrdering(S)
    BY <1>2, <1>3, <1>4, FS_RemoveElement DEF FiniteSubsetsOf, StrictSubsetOrdering
  <2>2. PICK m \in T \ {t} : \A y \in T \ {t} : m >= y
    BY <1>2, <1>6, <2>1
  <2>3. \/ \A y \in T : m >= y
        \/ \A y \in T : t >= y
    BY <1>3, <1>4, <2>2
  <2> QED
    BY <1>2, <1>3, <2>2, <2>3
<1> QED
  BY <1>5, <1>6

LEMMA MaxIsGreatest ==
  ASSUME NEW S \in SUBSET Nat, S # {}, IsFiniteSet(S)
  PROVE  Max(S) \in S /\ \A y \in S : y <= Max(S)
<1>1. \E x \in S : \A y \in S : x >= y
  BY Greatest
<1>2. Max(S) \in S /\ \A y \in S : Max(S) >= y
  BY <1>1 DEF Max
<1> QED
  BY <1>2

\* sync_revision: the next value is above every one given.
NextRevision == Max({revision[r] : r \in Records}) + 1
LEMMA RevisionsRise ==
  ASSUME revision \in [Records -> Nat], NEW t \in Records
  PROVE  NextRevision \in Nat /\ \A r \in Records : revision[r] < NextRevision
<1> DEFINE S == {revision[r] : r \in Records}
<1>1. S \in SUBSET Nat /\ revision[t] \in S /\ \A r \in Records : revision[r] \in S
  OBVIOUS
<1>2. IsFiniteSet(S)
  <2>1. revision \in Surjection(Records, S)
    BY <1>1 DEF Surjection
  <2> QED
    BY <2>1, LimitsAssumption, FS_Surjection
<1> HIDE DEF S
<1>3. Max(S) \in Nat /\ \A y \in S : y <= Max(S)
  BY <1>1, <1>2, MaxIsGreatest
<1>4. \A r \in Records : revision[r] <= Max(S) /\ revision[r] \in Nat
  BY <1>1, <1>3
<1>5. NextRevision = Max(S) + 1
  BY DEF NextRevision, S
<1> QED
  BY <1>3, <1>4, <1>5

(***************************************************************************)
(* What the operators return.                                              *)
(***************************************************************************)
LEMMA Sentinels ==
    /\ NoItem \notin Item /\ NoEntry \notin Entry /\ NoConflict \notin Conflict
    /\ NoRequest \notin Request /\ NoRow \in Row /\ Generated \in Row
    /\ Idle \in RunState
  BY DEF NoItem, Item, NoEntry, Entry, Statuses, NoConflict, Conflict, NoRequest, Request, Kinds,
         NoRow, Generated, Row, Contents, Idle, RunState

LEMMA RowsAfter ==
  ASSUME NEW row \in Row, NEW q \in Request
  PROVE  RowAfter(row, q) \in Row
<1>1. CASE q.kind = "create"
  BY <1>1 DEF RowAfter, Written, Row, Request
<1>2. CASE q.kind = "update"
  BY <1>2 DEF RowAfter, Written, Row, Request
<1>3. CASE q.kind = "delete"
  BY <1>3 DEF RowAfter, Written, Row, Request
<1> QED
  BY <1>1, <1>2, <1>3 DEF Request, Kinds

LEMMA AnswerTyped ==
  ASSUME NEW row \in Row, NEW q \in Request
  PROVE  /\ Answer(row, q) \in Response
         /\ Recorded(Answer(row, q)) \in Entry
         /\ Recorded(Answer(row, q)).status = Answer(row, q).status
<1>0. RowAfter(row, q) \in Row
  BY RowsAfter
<1>1. Status(row, q) \in Statuses
  BY DEF Status, Statuses
<1>2. Answer(row, q) \in Response
  BY <1>0, <1>1 DEF Answer, Response, Row, Request, Contents
<1>3. Recorded(Answer(row, q)) \in Entry
  BY <1>2 DEF Recorded, Response, Entry
<1> QED
  BY <1>2, <1>3 DEF Recorded

LEMMA ReplayTyped ==
  ASSUME NEW e \in Entry
  PROVE  Replay(e) \in Response /\ Replay(e).status = e.status
  BY DEF Replay, Response, Entry

LEMMA MadeItems ==
  ASSUME DeviceTyped
  PROVE  \A o \in Ops : /\ o \in Made <=> queue[o] \in Item
                        /\ o \in Made => queue[o].dev \in Devices /\ queue[o].rec \in Records
                        /\ o \in Made => Sent(o) \in Request
                        /\ o \notin Made => queue[o].status = "none"
<1>1. \A o \in Ops : o \in Made <=> queue[o] \in Item
  BY Sentinels DEF Made, DeviceTyped
<1> QED
  BY <1>1 DEF Item, Sent, Request, Made, NoItem

(***************************************************************************)
(* The queue changes in two ways: an operation is added, or the labels of  *)
(* some change.                                                            *)
(***************************************************************************)
SameItem(o) ==
    /\ queue'[o].dev = queue[o].dev /\ queue'[o].kind = queue[o].kind /\ queue'[o].rec = queue[o].rec
    /\ queue'[o].base = queue[o].base /\ queue'[o].content = queue[o].content
    /\ queue'[o].place = queue[o].place /\ queue'[o].settles = queue[o].settles

Relabelled ==
    /\ queue' \in [Ops -> Item \cup {NoItem}] /\ Made' = Made
    /\ \A o \in Made : SameItem(o)
    /\ \A o \in Ops \ Made : queue'[o] = queue[o]

LEMMA Still ==
  ASSUME DeviceTyped, queue' = queue
  PROVE  Relabelled
  BY DEF Relabelled, DeviceTyped, SameItem, Made

LEMMA Marks ==
  ASSUME DeviceTyped, NEW os \in SUBSET Made, NEW st \in {"pending", "in_flight", "done", "failed"},
         queue' = MarkAll(queue, os, st)
  PROVE  /\ Relabelled
         /\ \A o \in os : queue'[o].status = st
         /\ \A o \in Made : queue'[o].attempts = queue[o].attempts /\ queue'[o].waiting = queue[o].waiting
         /\ \A o \in Ops \ os : queue'[o] = queue[o]
<1>1. \A o \in Ops \ os : queue'[o] = queue[o]
  BY DEF MarkAll
<1>2. ASSUME NEW o \in os
      PROVE  /\ queue'[o] \in Item /\ SameItem(o) /\ queue'[o].status = st
             /\ queue'[o].attempts = queue[o].attempts /\ queue'[o].waiting = queue[o].waiting
  <2>1. o \in Ops /\ queue[o] \in Item
    BY MadeItems DEF Made
  <2>2. queue'[o] = [queue[o] EXCEPT !.status = st]
    BY <2>1 DEF MarkAll
  <2> QED
    BY <2>1, <2>2 DEF SameItem, Item
<1>3. queue' \in [Ops -> Item \cup {NoItem}]
  <2>1. queue' = [o \in Ops |-> queue'[o]]
    BY DEF MarkAll
  <2>2. \A o \in Ops : queue'[o] \in Item \cup {NoItem}
    BY <1>1, <1>2 DEF DeviceTyped
  <2> QED
    BY <2>1, <2>2
<1>4. Made' = Made
  BY <1>1, <1>2, Sentinels DEF Made
<1>5. \A o \in Made : SameItem(o) /\ queue'[o].attempts = queue[o].attempts /\ queue'[o].waiting = queue[o].waiting
  BY <1>1, <1>2 DEF SameItem, Made
<1> QED
  BY <1>1, <1>2, <1>3, <1>4, <1>5 DEF Relabelled, Made

LEMMA Fails ==
  ASSUME DeviceTyped, NEW os \in SUBSET Made, queue' = FailAll(queue, os)
  PROVE  /\ Relabelled
         /\ \A o \in os : /\ queue'[o].status \in {"pending", "failed"}
                          /\ queue'[o].status = "failed" => queue'[o].attempts >= MaxAttempts
         /\ \A o \in Ops \ os : queue'[o] = queue[o]
<1>1. \A o \in Ops \ os : queue'[o] = queue[o]
  BY DEF FailAll
<1>2. ASSUME NEW o \in os
      PROVE  /\ queue'[o] \in Item /\ SameItem(o) /\ queue'[o].status \in {"pending", "failed"}
             /\ queue'[o].status = "failed" => queue'[o].attempts >= MaxAttempts
  <2>1. o \in Ops /\ queue[o] \in Item
    BY MadeItems DEF Made
  <2>2. queue'[o] = Failed(queue[o])
    BY <2>1 DEF FailAll
  <2> DEFINE n == queue[o].attempts + 1
             st == IF n >= MaxAttempts THEN "failed" ELSE "pending"
  <2>3. n \in Nat /\ st \in {"pending", "failed"} /\ (st = "failed" => n >= MaxAttempts)
    BY <2>1 DEF Item
  <2>4. queue'[o] = [queue[o] EXCEPT !.attempts = n, !.waiting = TRUE, !.status = st]
    BY <2>2 DEF Failed
  <2> HIDE DEF n, st
  <2> QED
    BY <2>1, <2>3, <2>4 DEF SameItem, Item
<1>3. queue' \in [Ops -> Item \cup {NoItem}]
  <2>1. queue' = [o \in Ops |-> queue'[o]]
    BY DEF FailAll
  <2>2. \A o \in Ops : queue'[o] \in Item \cup {NoItem}
    BY <1>1, <1>2 DEF DeviceTyped
  <2> QED
    BY <2>1, <2>2
<1>4. Made' = Made
  BY <1>1, <1>2, Sentinels DEF Made
<1>5. \A o \in Made : SameItem(o)
  BY <1>1, <1>2 DEF SameItem, Made
<1> QED
  BY <1>1, <1>2, <1>3, <1>4, <1>5 DEF Relabelled, Made

LEMMA SameQueues ==
  ASSUME DeviceTyped, Relabelled
  PROVE  \A d \in Devices : /\ Queued(d)' = Queued(d)
                            /\ \A r \in Records : On(d, r)' = On(d, r)
  BY DEF Relabelled, Queued, On, SameItem, Made

\* A new operation comes last.
LEMMA Enqueues ==
  ASSUME DeviceTyped, NEW o \in Ops, NEW d \in Devices, NEW kind \in Kinds, NEW r \in Records,
         NEW base \in Nat, NEW content \in Contents, NEW settles \in Ops \cup {NoOp},
         Enqueue(o, d, kind, r, base, content, settles)
  PROVE  /\ o \notin Made /\ Made' = Made \cup {o} /\ IsFiniteSet(Made')
         /\ queue' \in [Ops -> Item \cup {NoItem}]
         /\ \A p \in Ops \ {o} : queue'[p] = queue[p]
         /\ queue'[o] \in Item /\ queue'[o].dev = d /\ queue'[o].kind = kind /\ queue'[o].rec = r
         /\ queue'[o].base = base /\ queue'[o].content = content /\ queue'[o].settles = settles
         /\ queue'[o].status = "pending" /\ queue'[o].waiting = FALSE /\ queue'[o].attempts = 0
         /\ queue'[o].place = Cardinality(Queued(d)) + 1
         /\ Cardinality(Queued(d)) \in Nat
<1>1. Queued(d) \subseteq Made /\ IsFiniteSet(Made)
  BY DEF Queued, Made, DeviceTyped
<1>2. Cardinality(Queued(d)) \in Nat
  BY <1>1, FS_Subset, FS_CardinalityType
<1> DEFINE n == Cardinality(Queued(d)) + 1
           new == [dev |-> d, kind |-> kind, rec |-> r, base |-> base, content |-> content,
                   status |-> "pending", attempts |-> 0, waiting |-> FALSE, place |-> n,
                   settles |-> settles]
<1>3. n \in Nat
  BY <1>2
<1>4. queue' = [queue EXCEPT ![o] = new] /\ queue[o] = NoItem
  BY DEF Enqueue
<1> HIDE DEF n
<1>5. new \in Item
  BY <1>3 DEF Item
<1>6. /\ new.dev = d /\ new.kind = kind /\ new.rec = r /\ new.base = base /\ new.content = content
      /\ new.settles = settles /\ new.status = "pending" /\ new.waiting = FALSE /\ new.attempts = 0
      /\ new.place = n
  OBVIOUS
<1> HIDE DEF new
<1>7. queue' \in [Ops -> Item \cup {NoItem}] /\ queue'[o] = new /\ \A p \in Ops \ {o} : queue'[p] = queue[p]
  BY <1>4, <1>5 DEF DeviceTyped
<1>8. o \notin Made /\ Made' = Made \cup {o}
  BY <1>4, <1>5, <1>7, Sentinels DEF Made
<1>9. IsFiniteSet(Made')
  BY <1>1, <1>8, FS_AddElement
<1> QED
  BY <1>2, <1>5, <1>6, <1>7, <1>8, <1>9 DEF n

LEMMA MoreQueued ==
  ASSUME NEW o \in Ops, o \notin Made, \A p \in Ops \ {o} : queue'[p] = queue[p]
  PROVE  \A d \in Devices : /\ Queued(d) \subseteq Queued(d)' /\ Queued(d)' \subseteq Queued(d) \cup {o}
                            /\ \A r \in Records : On(d, r) \subseteq On(d, r)' /\ On(d, r)' \subseteq On(d, r) \cup {o}
  BY DEF Queued, On, Made

(***************************************************************************)
(* Frames.                                                                 *)
(***************************************************************************)
QueueKept == \A o \in Made : SameItem(o) /\ o \in Made'
LedgerKept == \A o \in Ops : ledger[o] # NoEntry => ledger'[o] = ledger[o]
ConflictsKept == \A o \in Ops : conflicts[o] # NoConflict => conflicts'[o] # NoConflict

LEMMA KeptQueues ==
  ASSUME DInv, QueueKept
  PROVE  \A d \in Devices : /\ Queued(d) \subseteq Queued(d)'
                            /\ \A r \in Records : On(d, r) \subseteq On(d, r)'
  BY DEF QueueKept, SameItem, Queued, On, Made

LEMMA RelabelKeeps ==
  ASSUME Relabelled
  PROVE  QueueKept
  BY DEF Relabelled, QueueKept

\* An operation whose labels stay is still not dropped.
LEMMA NoneDropped ==
  ASSUME DInv, QueueKept, LedgerKept, ConflictsKept,
         \A o \in Ops : \/ queue'[o].status = queue[o].status /\ queue'[o].attempts = queue[o].attempts
                        \/ queue'[o].status \notin {"done", "failed"}
                        \/ DropOK(o)'
  PROVE  NothingDropped'
<1> SUFFICES ASSUME NEW o \in Ops, queue'[o].status = queue[o].status,
                    queue'[o].attempts = queue[o].attempts
             PROVE  DropOK(o)'
  BY DEF NothingDropped, DropOK, Applied
<1>1. DropOK(o)
  BY DEF DInv, NothingDropped, DropOK, Applied
<1>2. CASE o \in Made
  <2>1. SameItem(o)
    BY <1>2 DEF QueueKept
  <2>2. ASSUME NEW p \in On(queue[o].dev, queue[o].rec), conflicts[p] # NoConflict
        PROVE  p \in Ops /\ queue'[p] # NoItem /\ queue'[p].dev = queue'[o].dev /\ queue'[p].rec = queue'[o].rec
               /\ conflicts'[p] # NoConflict
    <3>1. p \in Made /\ queue[p].dev = queue[o].dev /\ queue[p].rec = queue[o].rec
      BY DEF On, Queued, Made
    <3> QED
      BY <3>1, <2>1, <2>2 DEF QueueKept, SameItem, ConflictsKept, Made
  <2>3. ASSUME queue[o].status = "done"
        PROVE  Applied(o)'
    BY <1>1, <2>3 DEF DropOK, Applied, LedgerKept
  <2>4. ASSUME queue[o].status = "failed"
        PROVE  queue[o].attempts >= MaxAttempts
                 \/ \E p \in Ops : /\ queue'[p] # NoItem /\ queue'[p].dev = queue'[o].dev
                                   /\ queue'[p].rec = queue'[o].rec /\ conflicts'[p] # NoConflict
    BY <1>1, <2>2, <2>4 DEF DropOK
  <2> QED
    BY <2>3, <2>4 DEF DropOK, On, Queued
<1>3. CASE o \notin Made
  BY <1>3 DEF Made, NoItem, DropOK
<1> QED
  BY <1>2, <1>3

\* One run moves.
LEMMA OneRunMoves ==
  ASSUME DInv, QueueKept, LedgerKept, NEW d \in Devices, NEW s \in Runs,
         run'[d][s] \in RunState, run' = [run EXCEPT ![d][s] = run'[d][s]],
         Carried(d, s)' \subseteq Queued(d)',
         \A p \in Answers(d, s)' : p.answer.status = "applied" => Applied(p.op)'
  PROVE  RunsTyped' /\ AnswersOK'
<1> DEFINE u == run'[d][s]
<1>1. /\ run' \in [Devices -> [Runs -> RunState]]
      /\ \A e \in Devices, t \in Runs : e # d \/ t # s => run'[e][t] = run[e][t]
  <2>1. run' = [run EXCEPT ![d][s] = u] /\ u \in RunState
    OBVIOUS
  <2> HIDE DEF u
  <2> QED
    BY <2>1 DEF DInv, RunsTyped
<1>2. \A e \in Devices, t \in Runs : e # d \/ t # s =>
         Carried(e, t)' = Carried(e, t) /\ Answers(e, t)' = Answers(e, t)
  BY <1>1 DEF Carried, Answers, Todo
<1>3. \A e \in Devices : Queued(e) \subseteq Queued(e)'
  BY KeptQueues
<1>4. RunsTyped'
  BY <1>1, <1>2, <1>3 DEF DInv, RunsTyped
<1>5. \A o \in Ops : Applied(o) => Applied(o)'
  BY DEF Applied, LedgerKept
<1>6. \A e \in Devices, t \in Runs : \A p \in Answers(e, t) : p.op \in Ops
  BY DEF DInv, RunsTyped, Carried, Queued
<1>7. AnswersOK'
  <2> SUFFICES ASSUME NEW e \in Devices, NEW t \in Runs, NEW p \in Answers(e, t)',
                      p.answer.status = "applied"
               PROVE  Applied(p.op)'
    BY DEF AnswersOK
  <2>1. CASE e = d /\ t = s
    BY <2>1
  <2>2. CASE e # d \/ t # s
    <3>1. p \in Answers(e, t)
      BY <2>2, <1>2
    <3>2. Applied(p.op) /\ p.op \in Ops
      BY <3>1, <1>6 DEF DInv, AnswersOK
    <3> QED
      BY <3>2 DEF Applied, LedgerKept
  <2> QED
    BY <2>1, <2>2
<1> QED
  BY <1>4, <1>7

LEMMA NoRunMoves ==
  ASSUME DInv, QueueKept, LedgerKept, run' = run
  PROVE  RunsTyped' /\ AnswersOK'
<1>1. \A e \in Devices, t \in Runs : Carried(e, t)' = Carried(e, t) /\ Answers(e, t)' = Answers(e, t)
  BY DEF Carried, Answers, Todo
<1>2. \A e \in Devices : Queued(e) \subseteq Queued(e)'
  BY KeptQueues
<1>3. \A e \in Devices, t \in Runs : \A p \in Answers(e, t) : p.op \in Ops
  BY DEF DInv, RunsTyped, Carried, Queued
<1> QED
  BY <1>1, <1>2, <1>3 DEF DInv, RunsTyped, AnswersOK, Applied, LedgerKept

\* The local row of one record changes.
LEMMA LocalSet ==
  ASSUME DeviceTyped, NEW d \in Devices, NEW r \in Records, local'[d][r] \in LocalRow \cup {NoLocal},
         local' = [local EXCEPT ![d][r] = local'[d][r]]
  PROVE  /\ local' \in [Devices -> [Records -> LocalRow \cup {NoLocal}]]
         /\ \A e \in Devices, t \in Records : e # d \/ t # r => local'[e][t] = local[e][t]
<1> DEFINE x == local'[d][r]
<1>1. local' = [local EXCEPT ![d][r] = x] /\ x \in LocalRow \cup {NoLocal}
  OBVIOUS
<1> HIDE DEF x
<1> QED
  BY <1>1 DEF DeviceTyped

\* Of a row, or of none, some fields are set.
LEMMA LocalRows ==
  ASSUME DeviceTyped, NEW d \in Devices, NEW r \in Records
  PROVE  /\ local[d][r].version \in Nat /\ local[d][r].deleted \in BOOLEAN /\ local[d][r].content \in Contents
         /\ \A v \in Nat, b \in BOOLEAN, st \in {"pending", "synced", "conflict"} :
               /\ [local[d][r] EXCEPT !.version = v, !.status = st] \in LocalRow
               /\ [local[d][r] EXCEPT !.deleted = b, !.version = v, !.status = st] \in LocalRow
               /\ [local[d][r] EXCEPT !.status = st] \in LocalRow
         /\ \A v \in Nat, c \in Contents, st \in {"pending", "synced", "conflict"} :
               [local[d][r] EXCEPT !.version = v, !.content = c, !.status = st] \in LocalRow
<1>1. local[d][r] \in [version : Nat, deleted : BOOLEAN, content : Contents,
                       status : {"pending", "synced", "conflict", "none"}]
  <2>1. local[d][r] \in LocalRow \/ local[d][r] = NoLocal
    BY DEF DeviceTyped
  <2>2. CASE local[d][r] \in LocalRow
    BY <2>2 DEF LocalRow
  <2>3. CASE local[d][r] = NoLocal
    BY <2>3 DEF NoLocal, Contents
  <2> QED
    BY <2>1, <2>2, <2>3
<1> QED
  BY <1>1 DEF LocalRow

(***************************************************************************)
(* One lemma per action: the user.                                         *)
(***************************************************************************)

\* An operation is added, and one local row with it.
LEMMA Adds ==
  ASSUME DInv, NEW o \in Ops, o \notin Made, Made' = Made \cup {o}, IsFiniteSet(Made'),
         queue' \in [Ops -> Item \cup {NoItem}], \A p \in Ops \ {o} : queue'[p] = queue[p],
         queue'[o].status = "pending",
         local' \in [Devices -> [Records -> LocalRow \cup {NoLocal}]],
         conflicts' \in [Ops -> Conflict \cup {NoConflict}],
         \A p \in Ops : conflicts'[p] # NoConflict <=> conflicts[p] # NoConflict,
         UNCHANGED <<server, cursor, run, counters>>
  PROVE  DInv'
<1>1. QueueKept /\ LedgerKept /\ ConflictsKept
  <2>1. \A p \in Made : p \in Ops /\ queue'[p] = queue[p] /\ p \in Made'
    BY DEF Made
  <2>2. QueueKept
    BY <2>1 DEF QueueKept, SameItem
  <2>3. ledger' = ledger
    BY DEF server
  <2> QED
    BY <2>2, <2>3 DEF LedgerKept, ConflictsKept
<1>2. ServerTyped' /\ Counted'
  BY DEF DInv, ServerTyped, Counted, server, counters
<1>3. DeviceTyped'
  BY DEF DInv, DeviceTyped
<1>4. RunsTyped' /\ AnswersOK'
  BY <1>1, NoRunMoves
<1>5. NothingDropped'
  <2>1. \A p \in Ops \ {o} : queue'[p].status = queue[p].status /\ queue'[p].attempts = queue[p].attempts
    OBVIOUS
  <2> QED
    BY <1>1, <2>1, NoneDropped
<1> QED
  BY <1>2, <1>3, <1>4, <1>5 DEF DInv

LEMMA UserStep ==
  ASSUME DInv, NEW d \in Devices, NEW o \in Ops, NEW r \in Records,
         Create(d, o, r) \/ Update(d, o, r) \/ Remove(d, o, r)
  PROVE  DInv'
<1>0. DeviceTyped /\ o \in Contents /\ NoOp \in Contents
  BY DEF DInv, Contents
<1>1. UNCHANGED <<server, conflicts, cursor, run, counters>>
  BY DEF Create, Update, Remove
<1>2. local[d][r].version \in Nat
  BY <1>0, LocalRows
<1>3. /\ o \notin Made /\ Made' = Made \cup {o} /\ IsFiniteSet(Made')
      /\ queue' \in [Ops -> Item \cup {NoItem}]
      /\ \A p \in Ops \ {o} : queue'[p] = queue[p]
      /\ queue'[o].status = "pending"
  <2>1. CASE Create(d, o, r)
    <3>1. Enqueue(o, d, "create", r, 0, o, NoOp) /\ "create" \in Kinds
      BY <2>1 DEF Create, Kinds
    <3> QED
      BY <3>1, <1>0, Enqueues
  <2>2. CASE Update(d, o, r)
    <3> DEFINE b == local[d][r].version
    <3>1. Enqueue(o, d, "update", r, b, o, NoOp) /\ "update" \in Kinds /\ b \in Nat
      BY <1>2, <2>2 DEF Update, Kinds
    <3> HIDE DEF b
    <3> QED
      BY <3>1, <1>0, Enqueues
  <2>3. CASE Remove(d, o, r)
    <3> DEFINE b == local[d][r].version
    <3>1. Enqueue(o, d, "delete", r, b, NoOp, NoOp) /\ "delete" \in Kinds /\ b \in Nat
      BY <1>2, <2>3 DEF Remove, Kinds
    <3> HIDE DEF b
    <3> QED
      BY <3>1, <1>0, Enqueues
  <2> QED
    BY <2>1, <2>2, <2>3
<1>4. local' \in [Devices -> [Records -> LocalRow \cup {NoLocal}]]
  <2> DEFINE v == local[d][r].version + 1
  <2>0. v \in Nat
    BY <1>2
  <2>1. \E x \in LocalRow : local' = [local EXCEPT ![d][r] = x]
    <3>1. CASE Create(d, o, r)
      <4>1. [version |-> 1, deleted |-> FALSE, content |-> o, status |-> "pending"] \in LocalRow
        BY <1>0 DEF LocalRow
      <4> QED
        BY <3>1, <4>1 DEF Create
    <3>2. CASE Update(d, o, r)
      <4>1. local' = [local EXCEPT ![d][r] = [local[d][r] EXCEPT !.version = v, !.content = o, !.status = "pending"]]
        BY <3>2 DEF Update, DInv, DeviceTyped
      <4>2. [local[d][r] EXCEPT !.version = v, !.content = o, !.status = "pending"] \in LocalRow
        BY <1>0, <2>0, LocalRows
      <4> QED
        BY <4>1, <4>2
    <3>3. CASE Remove(d, o, r)
      <4>1. local' = [local EXCEPT ![d][r] = [local[d][r] EXCEPT !.version = v, !.deleted = TRUE, !.status = "pending"]]
        BY <3>3 DEF Remove, DInv, DeviceTyped
      <4>2. [local[d][r] EXCEPT !.version = v, !.deleted = TRUE, !.status = "pending"] \in LocalRow
        <5>1. local[d][r] \in LocalRow
          BY <3>3 DEF Remove, Shown, DInv, DeviceTyped
        <5> QED
          BY <5>1, <2>0 DEF LocalRow
      <4> QED
        BY <4>1, <4>2
    <3> QED
      BY <3>1, <3>2, <3>3
  <2> QED
    BY <2>1 DEF DInv, DeviceTyped
<1> QED
  BY <1>1, <1>3, <1>4, Adds DEF DInv, DeviceTyped

\* A conflict that is open was recorded of an operation.
LEMMA OpenConflict ==
  ASSUME DInv, NEW o \in Ops, Unresolved(o)
  PROVE  /\ conflicts[o] \in Conflict /\ o \in Made
         /\ queue[o].dev \in Devices /\ queue[o].rec \in Records
         /\ \A how \in {"kept_local", "kept_server"} :
               /\ [conflicts[o] EXCEPT !.resolution = how] \in Conflict
               /\ [conflicts EXCEPT ![o].resolution = how] \in [Ops -> Conflict \cup {NoConflict}]
               /\ \A p \in Ops : [conflicts EXCEPT ![o].resolution = how][p] # NoConflict
                                   <=> conflicts[p] # NoConflict
<1>1. conflicts[o] # NoConflict
  BY DEF Unresolved, NoConflict
<1>2. conflicts[o] \in Conflict /\ o \in Made
  BY <1>1 DEF DInv, DeviceTyped
<1>3. ASSUME NEW how \in {"kept_local", "kept_server"}
      PROVE  /\ [conflicts[o] EXCEPT !.resolution = how] \in Conflict
             /\ [conflicts EXCEPT ![o].resolution = how] \in [Ops -> Conflict \cup {NoConflict}]
             /\ \A p \in Ops : [conflicts EXCEPT ![o].resolution = how][p] # NoConflict
                                 <=> conflicts[p] # NoConflict
  <2> DEFINE x == [conflicts[o] EXCEPT !.resolution = how]
  <2>1. x \in Conflict
    BY <1>2 DEF Conflict
  <2>2. [conflicts EXCEPT ![o].resolution = how] = [conflicts EXCEPT ![o] = x]
    OBVIOUS
  <2> HIDE DEF x
  <2>3. /\ [conflicts EXCEPT ![o] = x] \in [Ops -> Conflict \cup {NoConflict}]
        /\ \A p \in Ops : [conflicts EXCEPT ![o] = x][p] = IF p = o THEN x ELSE conflicts[p]
    BY <2>1 DEF DInv, DeviceTyped
  <2>4. \A p \in Ops : [conflicts EXCEPT ![o] = x][p] # NoConflict <=> conflicts[p] # NoConflict
    BY <1>1, <2>1, <2>3, Sentinels
  <2> QED
    BY <2>1, <2>2, <2>3, <2>4 DEF x
<1> QED
  BY <1>2, <1>3, MadeItems DEF DInv

LEMMA KeepServerStep ==
  ASSUME DInv, NEW o \in Ops, KeepServer(o)
  PROVE  DInv'
<1> DEFINE d == queue[o].dev
           r == queue[o].rec
           c == conflicts[o]
<1>1. c \in Conflict /\ o \in Made /\ d \in Devices /\ r \in Records
  BY OpenConflict DEF KeepServer
<1>2. /\ conflicts' \in [Ops -> Conflict \cup {NoConflict}]
      /\ \A p \in Ops : conflicts'[p] # NoConflict <=> conflicts[p] # NoConflict
  BY OpenConflict DEF KeepServer
<1>3. local' \in [Devices -> [Records -> LocalRow \cup {NoLocal}]]
  <2>0. c.version \in Nat /\ c.payload \in Contents
    BY <1>1 DEF Conflict
  <2>1. \E x \in LocalRow : local' = [local EXCEPT ![d][r] = x]
    <3>1. CASE c.deleted
      <4> DEFINE x == [local[d][r] EXCEPT !.deleted = TRUE, !.version = c.version, !.status = "synced"]
      <4>1. x \in LocalRow
        BY <1>1, <2>0, LocalRows DEF DInv
      <4>2. local' = [local EXCEPT ![d][r].deleted = TRUE, ![d][r].version = c.version, ![d][r].status = "synced"]
        BY <3>1 DEF KeepServer
      <4>3. local' = [local EXCEPT ![d][r] = x]
        BY <1>1, <4>2 DEF DInv, DeviceTyped
      <4> QED
        BY <4>1, <4>3
    <3>2. CASE ~c.deleted
      BY <3>2, <2>0 DEF KeepServer, LocalRow
    <3> QED
      BY <3>1, <3>2
  <2> QED
    BY <1>1, <2>1 DEF DInv, DeviceTyped
<1>4. UNCHANGED <<server, queue, cursor, run, counters>> /\ Made' = Made
  BY DEF KeepServer, Made
<1>5. QueueKept /\ LedgerKept /\ ConflictsKept
  BY <1>2, <1>4, Still, RelabelKeeps DEF LedgerKept, ConflictsKept, server, DInv
<1>6. ServerTyped' /\ Counted' /\ DeviceTyped'
  BY <1>2, <1>3, <1>4 DEF DInv, ServerTyped, Counted, server, counters, DeviceTyped
<1>7. NothingDropped'
  BY <1>4, <1>5, NoneDropped
<1> QED
  BY <1>4, <1>5, <1>6, <1>7, NoRunMoves DEF DInv

LEMMA KeepLocalStep ==
  ASSUME DInv, NEW o \in Ops, NEW n \in Ops, KeepLocal(o, n)
  PROVE  DInv'
<1> DEFINE d == queue[o].dev
           r == queue[o].rec
           c == conflicts[o]
<1>1. c \in Conflict /\ o \in Made /\ d \in Devices /\ r \in Records
  BY OpenConflict DEF KeepLocal
<1>2. /\ conflicts' \in [Ops -> Conflict \cup {NoConflict}]
      /\ \A p \in Ops : conflicts'[p] # NoConflict <=> conflicts[p] # NoConflict
  BY OpenConflict DEF KeepLocal
<1>3. c.version \in Nat /\ c.content \in Contents /\ "update" \in Kinds /\ o \in Ops \cup {NoOp}
  BY <1>1 DEF Conflict, Kinds
<1>4. local' \in [Devices -> [Records -> LocalRow \cup {NoLocal}]]
  <2> DEFINE x == [local[d][r] EXCEPT !.version = c.version, !.status = "pending"]
  <2>1. x \in LocalRow
    BY <1>1, <1>3, LocalRows DEF DInv
  <2>2. local' = [local EXCEPT ![d][r] = x]
    BY <1>1 DEF KeepLocal, DInv, DeviceTyped
  <2> HIDE DEF x
  <2> QED
    BY <1>1, <2>1, <2>2 DEF DInv, DeviceTyped
<1>5. Enqueue(n, d, "update", r, c.version, c.content, o)
  BY DEF KeepLocal
<1>6. /\ n \notin Made /\ Made' = Made \cup {n} /\ IsFiniteSet(Made')
      /\ queue' \in [Ops -> Item \cup {NoItem}]
      /\ \A p \in Ops \ {n} : queue'[p] = queue[p]
      /\ queue'[n].status = "pending"
  <2> DEFINE b == c.version
             x == c.content
  <2>1. Enqueue(n, d, "update", r, b, x, o) /\ b \in Nat /\ x \in Contents
    BY <1>3, <1>5
  <2> HIDE DEF b, x, d, r
  <2> QED
    BY <1>1, <1>3, <2>1, Enqueues DEF DInv
<1> QED
  BY <1>2, <1>4, <1>6, Adds DEF KeepLocal

(***************************************************************************)
(* One lemma per action: pushing.                                          *)
(***************************************************************************)
PushState == [phase : {"push", "results"}, pass : 1 .. MaxPasses, todo : SUBSET Ops,
              replies : SUBSET [op : Ops, answer : Response]]
PageState == [phase : {"page"}, rows : UNION {[R -> Row] : R \in SUBSET Records},
              next : Nat, more : BOOLEAN]

LEMMA RunStates ==
  ASSUME DInv, NEW d \in Devices, NEW s \in Runs
  PROVE  /\ run[d][s] \in RunState
         /\ run[d][s].phase \in {"push", "results"} => run[d][s] \in PushState
         /\ run[d][s].phase = "pull" => run[d][s].since \in Nat
         /\ run[d][s].phase = "page" => run[d][s] \in PageState
<1>1. run[d][s] \in RunState
  BY DEF DInv, RunsTyped
<1> QED
  BY <1>1 DEF RunState, PushState, PageState, Idle

LEMMA RunSet ==
  ASSUME DInv, NEW d \in Devices, NEW s \in Runs, NEW u, run' = [run EXCEPT ![d][s] = u]
  PROVE  run'[d][s] = u /\ run' = [run EXCEPT ![d][s] = run'[d][s]]
BY DEF DInv, RunsTyped

\* A step of one run in which the server, the conflicts and the local rows stay.
LEMMA RunStep ==
  ASSUME DInv, NEW d \in Devices, NEW s \in Runs, NEW u \in RunState, run' = [run EXCEPT ![d][s] = u],
         u.phase \in {"push", "results"} =>
            /\ u.todo \cup {p.op : p \in u.replies} \subseteq Queued(d)
            /\ \A p \in u.replies : p.answer.status = "applied" => Applied(p.op),
         Relabelled,
         \A o \in Ops : \/ queue'[o].status = queue[o].status /\ queue'[o].attempts = queue[o].attempts
                        \/ queue'[o].status \notin {"done", "failed"}
                        \/ DropOK(o)',
         local' \in [Devices -> [Records -> LocalRow \cup {NoLocal}]],
         conflicts' \in [Ops -> Conflict \cup {NoConflict}],
         \A o \in Ops : conflicts'[o] # NoConflict => conflicts[o] # NoConflict \/ o \in Made,
         ConflictsKept,
         cursor' \in [Devices -> Nat],
         rows' = rows, revision' = revision, ledger' = ledger, late' \subseteq Made, Counted'
  PROVE  DInv'
<1>1. QueueKept /\ LedgerKept
  BY RelabelKeeps DEF LedgerKept
<1>2. run'[d][s] = u /\ run' = [run EXCEPT ![d][s] = run'[d][s]]
  BY RunSet
<1>3. Queued(d) \subseteq Queued(d)'
  BY SameQueues DEF DInv
<1>4. Carried(d, s)' \subseteq Queued(d)' /\ \A p \in Answers(d, s)' : p.answer.status = "applied" => Applied(p.op)'
  BY <1>1, <1>2, <1>3 DEF Carried, Todo, Answers, Applied
<1>5. RunsTyped' /\ AnswersOK'
  BY <1>1, <1>2, <1>4, OneRunMoves
<1>6. NothingDropped'
  BY <1>1, NoneDropped
<1>7. ServerTyped' /\ DeviceTyped'
  BY DEF DInv, ServerTyped, DeviceTyped, Relabelled
<1> QED
  BY <1>5, <1>6, <1>7 DEF DInv

LEMMA PassBegins ==
  ASSUME DInv, NEW d \in Devices, NEW s \in Runs, NEW pass \in Nat \ {0}, BeginPass(d, s, pass),
         UNCHANGED <<server, local, conflicts, cursor, counters>>
  PROVE  DInv'
<1>1. Due(d) \subseteq Queued(d) /\ Queued(d) \subseteq Made /\ Made \subseteq Ops
  BY DEF Due, Queued, Made
<1>2. UNCHANGED <<rows, revision, ledger, late, local, conflicts, cursor>> /\ Counted'
  BY DEF DInv, Counted, server, counters
<1>3. ConflictsKept
  BY <1>2 DEF ConflictsKept
<1>4. CASE Due(d) = {} \/ pass > MaxPasses
  <2> DEFINE u == Pulling(cursor[d])
  <2>1. run' = [run EXCEPT ![d][s] = u] /\ queue' = queue
    BY <1>4 DEF BeginPass
  <2>2. u \in RunState /\ u.phase = "pull"
    BY DEF Pulling, RunState, DInv, DeviceTyped
  <2>3. Relabelled
    BY <2>1, Still DEF DInv
  <2> HIDE DEF u
  <2> QED
    BY <2>1, <2>2, <2>3, <1>2, <1>3, RunStep DEF DInv, DeviceTyped, ServerTyped
<1>5. CASE ~(Due(d) = {} \/ pass > MaxPasses)
  <2> DEFINE u == Pushing(pass, Due(d))
  <2>1. run' = [run EXCEPT ![d][s] = u] /\ queue' = MarkAll(queue, Due(d), "in_flight")
    BY <1>5 DEF BeginPass
  <2>2. pass \in 1 .. MaxPasses
    BY <1>5, LimitsAssumption
  <2>3. u \in RunState /\ u.todo = Due(d) /\ u.replies = {}
    BY <1>1, <2>2 DEF Pushing, RunState
  <2>4. /\ Relabelled /\ \A o \in Due(d) : queue'[o].status = "in_flight"
        /\ \A o \in Ops \ Due(d) : queue'[o] = queue[o]
    BY <1>1, <2>1, Marks DEF DInv
  <2> HIDE DEF u
  <2> QED
    BY <1>1, <2>1, <2>3, <2>4, <1>2, <1>3, RunStep DEF DInv, DeviceTyped, ServerTyped
<1> QED
  BY <1>4, <1>5

LEMMA BeginSteps ==
  ASSUME DInv, NEW d \in Devices, NEW s \in Runs, StartSync(d, s) \/ NextPass(d, s)
  PROVE  DInv'
<1>1. CASE StartSync(d, s)
  BY <1>1, PassBegins DEF StartSync
<1>2. CASE NextPass(d, s)
  <2>1. run[d][s].pass \in 1 .. MaxPasses
    BY <1>2, RunStates DEF NextPass, PushState
  <2>2. run[d][s].pass + 1 \in Nat \ {0}
    BY <2>1, LimitsAssumption
  <2> QED
    BY <1>2, <2>2, PassBegins DEF NextPass
<1> QED
  BY <1>1, <1>2

\* An operation takes effect on the server.
LEMMA Performs ==
  ASSUME DInv, NEW o \in Made, ledger[o] = NoEntry, Perform(o)
  PROVE  /\ rows' \in [Records -> Row] /\ revision' \in [Records -> Nat]
         /\ ledger' \in [Ops -> Entry \cup {NoEntry}]
         /\ LedgerKept
         /\ Answer(rows[queue[o].rec], Sent(o)) \in Response
         /\ Answer(rows[queue[o].rec], Sent(o)).status = "applied" => Applied(o)'
<1> DEFINE q == Sent(o)
           r == queue[o].rec
           e == Recorded(Answer(rows[r], q))
<1>1. o \in Ops /\ q \in Request /\ r \in Records /\ q.rec = r
  BY MadeItems DEF DInv, Made, Sent
<1>2. rows[r] \in Row
  BY <1>1 DEF DInv, ServerTyped
<1>3. Answer(rows[r], q) \in Response /\ e \in Entry /\ e.status = Answer(rows[r], q).status
  BY <1>1, <1>2, AnswerTyped
<1>4. RowAfter(rows[r], q) \in Row
  BY <1>1, <1>2, RowsAfter
<1>5. /\ rows' = [rows EXCEPT ![r] = RowAfter(rows[r], q)]
      /\ revision' = IF Writes(rows[r], q) THEN [revision EXCEPT ![r] = NextRevision] ELSE revision
      /\ ledger' = [ledger EXCEPT ![o] = e]
  BY <1>1 DEF Perform, NextRevision
<1>6. NextRevision \in Nat
  BY <1>1, RevisionsRise DEF DInv, ServerTyped
<1> HIDE DEF q, e
<1>7. rows' \in [Records -> Row] /\ revision' \in [Records -> Nat]
  BY <1>1, <1>4, <1>5, <1>6 DEF DInv, ServerTyped
<1>8. /\ ledger' \in [Ops -> Entry \cup {NoEntry}] /\ ledger'[o] = e
      /\ \A p \in Ops \ {o} : ledger'[p] = ledger[p]
  BY <1>1, <1>3, <1>5 DEF DInv, ServerTyped
<1>9. LedgerKept
  BY <1>8 DEF LedgerKept
<1>10. Answer(rows[r], q).status = "applied" => Applied(o)'
  BY <1>3, <1>8, Sentinels DEF Applied
<1> QED
  BY <1>3, <1>7, <1>8, <1>9, <1>10 DEF q

\* A run gets one answer.
LEMMA AnswerArrives ==
  ASSUME DInv, NEW d \in Devices, NEW s \in Runs, run[d][s].phase = "push",
         NEW o \in run[d][s].todo, NEW answer \in Response, Replied(d, s, o, answer),
         LedgerKept, answer.status = "applied" => Applied(o)',
         UNCHANGED <<queue, local, conflicts, cursor>>
  PROVE  RunsTyped' /\ AnswersOK' /\ DeviceTyped' /\ NothingDropped' /\ o \in Made
<1> DEFINE p == [op |-> o, answer |-> answer]
           u == [run[d][s] EXCEPT !.todo = @ \ {o}, !.replies = @ \cup {p}]
<1>1. run[d][s] \in PushState
  BY RunStates
<1>2. o \in Ops /\ p \in [op : Ops, answer : Response] /\ p.op = o /\ p.answer = answer
  BY <1>1 DEF PushState
<1> HIDE DEF p
<1>3. /\ u \in PushState /\ u.todo = run[d][s].todo \ {o} /\ u.replies = run[d][s].replies \cup {p}
      /\ u.phase = "push"
  BY <1>1, <1>2 DEF PushState
<1>4. run' = [run EXCEPT ![d][s] = u]
  BY DEF Replied, p, DInv, RunsTyped
<1> HIDE DEF u
<1>5. run'[d][s] = u /\ run' = [run EXCEPT ![d][s] = run'[d][s]] /\ u \in RunState
  BY <1>3, <1>4, RunSet DEF RunState, PushState
<1>6. Relabelled /\ QueueKept
  BY Still, RelabelKeeps DEF DInv
<1>7. Queued(d)' = Queued(d)
  BY <1>6, SameQueues DEF DInv
<1>8. Carried(d, s) \subseteq Queued(d) /\ o \in Carried(d, s)
  BY DEF DInv, RunsTyped, Carried, Todo
<1>9. Carried(d, s)' \subseteq Queued(d)'
  BY <1>2, <1>3, <1>5, <1>7, <1>8 DEF Carried, Todo, Answers
<1>10. \A x \in Answers(d, s)' : x.answer.status = "applied" => Applied(x.op)'
  <2> SUFFICES ASSUME NEW x \in Answers(d, s)', x.answer.status = "applied"
               PROVE  Applied(x.op)'
    OBVIOUS
  <2>1. x = p \/ x \in Answers(d, s)
    BY <1>3, <1>5 DEF Answers
  <2>2. CASE x = p
    BY <2>2, <1>2
  <2>3. CASE x \in Answers(d, s)
    <3>1. Applied(x.op) /\ x.op \in Ops
      BY <2>3, <1>1 DEF DInv, AnswersOK, Answers, PushState
    <3> QED
      BY <3>1 DEF Applied, LedgerKept
  <2> QED
    BY <2>1, <2>2, <2>3
<1>11. ConflictsKept /\ DeviceTyped'
  BY <1>6 DEF ConflictsKept, DInv, DeviceTyped, Relabelled
<1>12. NothingDropped'
  BY <1>6, <1>11, NoneDropped
<1> QED
  BY <1>5, <1>6, <1>8, <1>9, <1>10, <1>11, <1>12, OneRunMoves DEF Queued, Made

LEMMA ServeStep ==
  ASSUME DInv, NEW d \in Devices, NEW s \in Runs, NEW o \in Ops, Serve(d, s, o)
  PROVE  DInv'
<1>1. run[d][s].phase = "push" /\ o \in run[d][s].todo /\ o \in Made
  <2>1. Carried(d, s) \subseteq Queued(d) /\ o \in Carried(d, s)
    BY DEF Serve, DInv, RunsTyped, Carried, Todo
  <2> QED
    BY <2>1 DEF Serve, Queued, Made
<1>2. Made' = Made /\ late' = late /\ Counted'
  BY DEF Serve, Made, counters, DInv, Counted
<1>3. CASE ledger[o] = NoEntry
  <2>1. Perform(o) /\ Replied(d, s, o, Answer(rows[queue[o].rec], Sent(o)))
    BY <1>3 DEF Serve
  <2>2. /\ ServerTyped' /\ LedgerKept
        /\ Answer(rows[queue[o].rec], Sent(o)) \in Response
        /\ Answer(rows[queue[o].rec], Sent(o)).status = "applied" => Applied(o)'
    BY <1>1, <1>2, <1>3, <2>1, Performs DEF DInv, ServerTyped
  <2> QED
    BY <1>1, <1>2, <2>1, <2>2, AnswerArrives DEF Serve, DInv
<1>4. CASE ledger[o] # NoEntry
  <2>1. Replied(d, s, o, Replay(ledger[o])) /\ UNCHANGED <<rows, revision, ledger>>
    BY <1>4 DEF Serve
  <2>2. ledger[o] \in Entry /\ Replay(ledger[o]) \in Response /\ Replay(ledger[o]).status = ledger[o].status
    BY <1>4, ReplayTyped DEF DInv, ServerTyped
  <2>3. ServerTyped' /\ LedgerKept /\ (Replay(ledger[o]).status = "applied" => Applied(o)')
    BY <1>2, <1>4, <2>1, <2>2 DEF DInv, ServerTyped, LedgerKept, Applied
  <2> QED
    BY <1>1, <1>2, <2>1, <2>2, <2>3, AnswerArrives DEF Serve, DInv
<1> QED
  BY <1>3, <1>4

LEMMA ServeFailsStep ==
  ASSUME DInv, NEW d \in Devices, NEW s \in Runs, NEW o \in Ops, ServeFails(d, s, o)
  PROVE  DInv'
<1> DEFINE answer == [status |-> "error", version |-> 0, payload |-> NoOp, deleted |-> FALSE]
<1>1. answer \in Response /\ answer.status = "error"
  BY DEF Response, Statuses, Contents
<1>2. Replied(d, s, o, answer) /\ run[d][s].phase = "push" /\ o \in run[d][s].todo
  BY DEF ServeFails
<1> HIDE DEF answer
<1>3. /\ UNCHANGED <<queue, local, conflicts, cursor>> /\ ServerTyped' /\ LedgerKept /\ Counted'
  BY LimitsAssumption DEF ServeFails, server, DInv, ServerTyped, LedgerKept, Counted, Made
<1> QED
  BY <1>1, <1>2, <1>3, AnswerArrives DEF DInv

LEMMA ServeLateStep ==
  ASSUME DInv, NEW o \in Ops, ServeLate(o)
  PROVE  DInv'
<1>1. o \in Made /\ Made' = Made /\ late' \subseteq Made
  BY DEF ServeLate, DInv, ServerTyped, Made
<1>2. UNCHANGED <<local, queue, conflicts, cursor, run>> /\ Counted'
  BY DEF ServeLate, counters, DInv, Counted
<1>3. ServerTyped' /\ LedgerKept
  <2>1. CASE ledger[o] = NoEntry
    BY <1>1, <2>1, Performs DEF ServeLate, DInv, ServerTyped
  <2>2. CASE ledger[o] # NoEntry
    BY <1>1, <2>2 DEF ServeLate, DInv, ServerTyped, LedgerKept
  <2> QED
    BY <2>1, <2>2
<1>4. Relabelled /\ QueueKept /\ ConflictsKept /\ DeviceTyped'
  BY <1>1, <1>2, Still, RelabelKeeps DEF DInv, ConflictsKept, DeviceTyped
<1> QED
  BY <1>2, <1>3, <1>4, NoRunMoves, NoneDropped DEF DInv

LEMMA DeliverStep ==
  ASSUME DInv, NEW d \in Devices, NEW s \in Runs, Deliver(d, s)
  PROVE  DInv'
<1> DEFINE u == [run[d][s] EXCEPT !.phase = "results"]
<1>1. run[d][s] \in PushState
  BY RunStates DEF Deliver
<1>2. u \in PushState /\ u.todo = run[d][s].todo /\ u.replies = run[d][s].replies /\ u.phase = "results"
  BY <1>1 DEF PushState
<1>3. run' = [run EXCEPT ![d][s] = u]
  BY DEF Deliver, DInv, RunsTyped
<1> HIDE DEF u
<1>4. u.todo \cup {p.op : p \in u.replies} \subseteq Queued(d)
      /\ \A p \in u.replies : p.answer.status = "applied" => Applied(p.op)
  BY <1>2 DEF Deliver, DInv, RunsTyped, AnswersOK, Carried, Todo, Answers
<1>5. UNCHANGED <<rows, revision, ledger, late, local, queue, conflicts, cursor>> /\ Counted'
  BY DEF Deliver, server, counters, DInv, Counted
<1>6. Relabelled /\ ConflictsKept /\ u \in RunState
  BY <1>2, <1>5, Still DEF DInv, ConflictsKept, RunState, PushState
<1> QED
  BY <1>3, <1>4, <1>5, <1>6, RunStep DEF DInv, DeviceTyped, ServerTyped

LEMMA LosePushStep ==
  ASSUME DInv, NEW d \in Devices, NEW s \in Runs, LosePush(d, s)
  PROVE  DInv'
<1> DEFINE sent == run[d][s].todo \cup {p.op : p \in run[d][s].replies}
           u == Pulling(cursor[d])
<1>1. Carried(d, s) = sent /\ run[d][s].todo \subseteq sent
  BY DEF LosePush, Carried, Todo, Answers
<1>2. sent \subseteq Made
  BY <1>1 DEF DInv, RunsTyped, Queued, Made
<1>3. queue' = FailAll(queue, sent) /\ run' = [run EXCEPT ![d][s] = u]
  BY DEF LosePush
<1>4. late' \subseteq Made
  BY <1>1, <1>2 DEF LosePush, DInv, ServerTyped
<1> HIDE DEF sent
<1>5. /\ Relabelled
      /\ \A o \in sent : /\ queue'[o].status \in {"pending", "failed"}
                         /\ queue'[o].status = "failed" => queue'[o].attempts >= MaxAttempts
      /\ \A o \in Ops \ sent : queue'[o] = queue[o]
  BY <1>2, <1>3, Fails DEF DInv
<1>6. u \in RunState /\ u.phase = "pull"
  BY DEF Pulling, RunState, DInv, DeviceTyped
<1> HIDE DEF u
<1>7. UNCHANGED <<rows, revision, ledger, local, conflicts, cursor>> /\ ConflictsKept
  BY DEF LosePush, ConflictsKept
<1>8. Counted'
  BY LimitsAssumption DEF LosePush, DInv, Counted
<1>9. \A o \in Ops : \/ queue'[o].status = queue[o].status /\ queue'[o].attempts = queue[o].attempts
                     \/ queue'[o].status \notin {"done", "failed"}
                     \/ DropOK(o)'
  <2> SUFFICES ASSUME NEW o \in sent, queue'[o].status = "failed"
               PROVE  DropOK(o)'
    BY <1>5
  <2> QED
    BY <1>5 DEF DropOK
<1> QED
  BY <1>3, <1>4, <1>5, <1>6, <1>7, <1>8, <1>9, RunStep DEF DInv, DeviceTyped

(***************************************************************************)
(* One lemma per action: the results.                                      *)
(***************************************************************************)
LEMMA Replying ==
  ASSUME DInv, NEW d \in Devices, NEW s \in Runs, NEW p \in Reply(d, s)
  PROVE  /\ run[d][s] \in PushState /\ run[d][s].phase = "results" /\ p \in run[d][s].replies
         /\ p.op \in Made /\ p.op \in Queued(d) /\ p.answer \in Response
         /\ queue[p.op] \in Item /\ queue[p.op].dev = d /\ queue[p.op].rec \in Records
         /\ p.answer.status = "applied" => Applied(p.op)
<1>1. run[d][s].phase = "results" /\ p \in run[d][s].replies
  BY DEF Reply
<1>2. run[d][s] \in PushState
  BY <1>1, RunStates
<1>3. p \in Answers(d, s) /\ p.op \in Carried(d, s)
  BY <1>1 DEF Answers, Carried
<1>4. p.op \in Queued(d) /\ p.op \in Made
  BY <1>3 DEF DInv, RunsTyped, Queued, Made
<1> QED
  BY <1>1, <1>2, <1>3, <1>4, MadeItems DEF DInv, AnswersOK, PushState, Made, Queued

\* A run has taken one result.
LEMMA ResultTaken ==
  ASSUME DInv, NEW d \in Devices, NEW s \in Runs, NEW p \in Reply(d, s), Taken(d, s, p)
  PROVE  \E u \in RunState :
            /\ run' = [run EXCEPT ![d][s] = u] /\ u.phase = "results"
            /\ u.replies = run[d][s].replies \ {p} /\ u.todo = run[d][s].todo
            /\ u.todo \cup {x.op : x \in u.replies} \subseteq Queued(d)
            /\ \A x \in u.replies : x.answer.status = "applied" => Applied(x.op)
<1> DEFINE u == [run[d][s] EXCEPT !.replies = @ \ {p}]
<1>1. run[d][s] \in PushState /\ run[d][s].phase = "results"
  BY Replying
<1>2. u \in PushState /\ u.phase = "results" /\ u.replies = run[d][s].replies \ {p} /\ u.todo = run[d][s].todo
  BY <1>1 DEF PushState
<1>3. run' = [run EXCEPT ![d][s] = u]
  BY DEF Taken, DInv, RunsTyped
<1> HIDE DEF u
<1>4. u.todo \cup {x.op : x \in u.replies} \subseteq Carried(d, s) /\ u.replies \subseteq Answers(d, s)
  BY <1>1, <1>2 DEF Carried, Todo, Answers
<1>5. u \in RunState
  BY <1>2 DEF RunState, PushState
<1> QED
  BY <1>2, <1>3, <1>4, <1>5 DEF DInv, RunsTyped, AnswersOK

LEMMA TakeAppliedStep ==
  ASSUME DInv, NEW d \in Devices, NEW s \in Runs, NEW p \in Reply(d, s), TakeApplied(d, s, p)
  PROVE  DInv'
<1> DEFINE r == queue[p.op].rec
<1>1. p.op \in Made /\ r \in Records /\ p.answer \in Response /\ Applied(p.op)
  BY Replying DEF TakeApplied
<1>2. queue' = MarkAll(queue, {p.op}, "done") /\ p.op \in Ops
  BY <1>1 DEF TakeApplied, Made
<1>3. /\ Relabelled /\ queue'[p.op].status = "done"
      /\ \A o \in Ops \ {p.op} : queue'[o] = queue[o]
  <2> DEFINE os == {p.op}
  <2>1. os \in SUBSET Made /\ queue' = MarkAll(queue, os, "done") /\ p.op \in os
    BY <1>1, <1>2
  <2>2. os \subseteq {p.op}
    OBVIOUS
  <2> HIDE DEF os
  <2>3. /\ Relabelled /\ \A o \in os : queue'[o].status = "done"
        /\ \A o \in Ops \ os : queue'[o] = queue[o]
    BY <2>1, Marks DEF DInv
  <2> QED
    BY <2>1, <2>2, <2>3
<1>4. /\ UNCHANGED <<rows, revision, ledger, late, conflicts, cursor>> /\ Counted' /\ ConflictsKept
  BY DEF TakeApplied, server, counters, ConflictsKept, DInv, Counted
<1>5. local' \in [Devices -> [Records -> LocalRow \cup {NoLocal}]]
  <2>1. CASE p.answer.version > 0
    <3> DEFINE x == [local[d][r] EXCEPT !.version = p.answer.version, !.status = "synced"]
    <3>1. p.answer.version \in Nat
      BY <1>1 DEF Response
    <3>2. x \in LocalRow
      BY <1>1, <3>1, LocalRows DEF DInv
    <3>3. local' = [local EXCEPT ![d][r] = x]
      BY <1>1, <2>1 DEF TakeApplied, DInv, DeviceTyped
    <3> HIDE DEF x
    <3> QED
      BY <1>1, <3>2, <3>3 DEF DInv, DeviceTyped
  <2>2. CASE ~(p.answer.version > 0)
    BY <2>2 DEF TakeApplied, DInv, DeviceTyped
  <2> QED
    BY <2>1, <2>2
<1>6. \E u \in RunState :
        /\ run' = [run EXCEPT ![d][s] = u]
        /\ u.phase \in {"push", "results"} =>
            /\ u.todo \cup {x.op : x \in u.replies} \subseteq Queued(d)
            /\ \A x \in u.replies : x.answer.status = "applied" => Applied(x.op)
  <2>1. CASE Taken(d, s, p)
    BY <2>1, ResultTaken
  <2>2. CASE run' = [run EXCEPT ![d][s] = Idle]
    BY <2>2, Sentinels DEF Idle
  <2> QED
    BY <2>1, <2>2 DEF TakeApplied
<1>7. \A o \in Ops : \/ queue'[o].status = queue[o].status /\ queue'[o].attempts = queue[o].attempts
                     \/ queue'[o].status \notin {"done", "failed"}
                     \/ DropOK(o)'
  BY <1>1, <1>3, <1>4 DEF DropOK, Applied
<1> QED
  BY <1>3, <1>4, <1>5, <1>6, <1>7, RunStep DEF DInv, DeviceTyped, ServerTyped

LEMMA TakeConflictStep ==
  ASSUME DInv, NEW d \in Devices, NEW s \in Runs, NEW p \in Reply(d, s), TakeConflict(d, s, p)
  PROVE  DInv'
<1> DEFINE r == queue[p.op].rec
           os == {o \in On(d, r) : Live(o)}
           c == Noted(p.op, p.answer)
<1>1. p.op \in Made /\ p.op \in Ops /\ r \in Records /\ p.answer \in Response /\ queue[p.op] \in Item
      /\ p.op \in On(d, r)
  BY Replying DEF Made, On
<1>2. queue' = MarkAll(queue, os, "failed") /\ os \subseteq Made /\ os \subseteq On(d, r)
  BY DEF TakeConflict, Cancelled, On, Queued, Made
<1>3. c \in Conflict
  BY <1>1 DEF Noted, Conflict, Item, Response
<1>4. conflicts' = [conflicts EXCEPT ![p.op] = c]
  BY DEF TakeConflict
<1> HIDE DEF c
<1>5. /\ conflicts' \in [Ops -> Conflict \cup {NoConflict}] /\ conflicts'[p.op] # NoConflict
      /\ \A o \in Ops \ {p.op} : conflicts'[o] = conflicts[o]
  BY <1>1, <1>3, <1>4, Sentinels DEF DInv, DeviceTyped
<1>6. ConflictsKept
  BY <1>5 DEF ConflictsKept
<1> HIDE DEF os
<1>7. /\ Relabelled /\ \A o \in os : queue'[o].status = "failed"
      /\ \A o \in Ops \ os : queue'[o] = queue[o]
  BY <1>2, Marks DEF DInv
<1>8. local' \in [Devices -> [Records -> LocalRow \cup {NoLocal}]]
  <2> DEFINE x == [local[d][r] EXCEPT !.status = "conflict"]
  <2>1. x \in LocalRow
    BY <1>1, LocalRows DEF DInv
  <2>2. local' = [local EXCEPT ![d][r] = x]
    BY <1>1 DEF TakeConflict, DInv, DeviceTyped
  <2> HIDE DEF x
  <2> QED
    BY <1>1, <2>1, <2>2 DEF DInv, DeviceTyped
<1>9. \A o \in Ops : \/ queue'[o].status = queue[o].status /\ queue'[o].attempts = queue[o].attempts
                     \/ queue'[o].status \notin {"done", "failed"}
                     \/ DropOK(o)'
  <2> SUFFICES ASSUME NEW o \in os
               PROVE  DropOK(o)'
    BY <1>7
  <2>1. o \in Made /\ p.op \in Made /\ SameItem(o) /\ SameItem(p.op)
    BY <1>1, <1>2, <1>7 DEF Relabelled
  <2>2. queue[o].dev = queue[p.op].dev /\ queue[o].rec = queue[p.op].rec
    BY <1>1, <1>2 DEF On, Queued
  <2>3. /\ queue'[p.op] # NoItem /\ queue'[p.op].dev = queue'[o].dev /\ queue'[p.op].rec = queue'[o].rec
        /\ conflicts'[p.op] # NoConflict
    BY <1>1, <1>5, <1>7, <2>1, <2>2 DEF SameItem, Relabelled, Made
  <2> QED
    BY <1>1, <1>7, <2>3 DEF DropOK, On, Queued
<1>10. UNCHANGED <<rows, revision, ledger, late, cursor>> /\ Counted'
  BY DEF TakeConflict, server, counters, DInv, Counted
<1>11. Taken(d, s, p)
  BY DEF TakeConflict
<1>12. \E u \in RunState :
        /\ run' = [run EXCEPT ![d][s] = u]
        /\ u.todo \cup {x.op : x \in u.replies} \subseteq Queued(d)
        /\ \A x \in u.replies : x.answer.status = "applied" => Applied(x.op)
  BY <1>11, ResultTaken
<1>13. \A o \in Ops : conflicts'[o] # NoConflict => conflicts[o] # NoConflict \/ o \in Made
  BY <1>1, <1>5
<1>14. PICK u \in RunState :
        /\ run' = [run EXCEPT ![d][s] = u]
        /\ u.todo \cup {x.op : x \in u.replies} \subseteq Queued(d)
        /\ \A x \in u.replies : x.answer.status = "applied" => Applied(x.op)
  BY <1>12
<1>15. late' \subseteq Made /\ cursor' \in [Devices -> Nat]
  BY <1>10 DEF DInv, ServerTyped, DeviceTyped
<1> HIDE DEF r
<1> QED
  BY <1>5, <1>6, <1>7, <1>8, <1>9, <1>10, <1>13, <1>14, <1>15, RunStep

LEMMA TakeErrorStep ==
  ASSUME DInv, NEW d \in Devices, NEW s \in Runs, NEW p \in Reply(d, s), TakeError(d, s, p)
  PROVE  DInv'
<1>1. p.op \in Made /\ queue' = FailAll(queue, {p.op}) /\ Taken(d, s, p)
  BY Replying DEF TakeError
<1>2. /\ Relabelled
      /\ /\ queue'[p.op].status \in {"pending", "failed"}
         /\ queue'[p.op].status = "failed" => queue'[p.op].attempts >= MaxAttempts
      /\ \A o \in Ops \ {p.op} : queue'[o] = queue[o]
  BY <1>1, Fails DEF DInv
<1>3. UNCHANGED <<rows, revision, ledger, late, local, conflicts, cursor>> /\ Counted' /\ ConflictsKept
  BY DEF TakeError, server, counters, DInv, Counted, ConflictsKept
<1>4. \A o \in Ops : \/ queue'[o].status = queue[o].status /\ queue'[o].attempts = queue[o].attempts
                     \/ queue'[o].status \notin {"done", "failed"}
                     \/ DropOK(o)'
  BY <1>2 DEF DropOK
<1>5. \E u \in RunState :
        /\ run' = [run EXCEPT ![d][s] = u]
        /\ u.todo \cup {x.op : x \in u.replies} \subseteq Queued(d)
        /\ \A x \in u.replies : x.answer.status = "applied" => Applied(x.op)
  BY <1>1, ResultTaken
<1> QED
  BY <1>2, <1>3, <1>4, <1>5, RunStep DEF DInv, DeviceTyped, ServerTyped

(***************************************************************************)
(* One lemma per action: pulling.                                          *)
(***************************************************************************)

\* A run moves on while the queue stands still.
LEMMA QuietRun ==
  ASSUME DInv, NEW d \in Devices, NEW s \in Runs, NEW u \in RunState, run' = [run EXCEPT ![d][s] = u],
         u.phase \notin {"push", "results"},
         local' \in [Devices -> [Records -> LocalRow \cup {NoLocal}]], cursor' \in [Devices -> Nat],
         UNCHANGED <<server, queue, conflicts>>, Counted'
  PROVE  DInv'
<1>1. Relabelled /\ ConflictsKept
  BY Still DEF DInv, ConflictsKept
<1> QED
  BY <1>1, RunStep DEF DInv, DeviceTyped, ServerTyped, server

LEMMA FetchStep ==
  ASSUME DInv, NEW d \in Devices, NEW s \in Runs, Fetch(d, s)
  PROVE  DInv'
<1> DEFINE since == run[d][s].since
           beyond == {r \in Records : revision[r] > since}
<1>1. PICK page \in SUBSET beyond :
        run' = [run EXCEPT ![d][s] =
                  [phase |-> "page", rows |-> [r \in page |-> rows[r]],
                   next |-> Max({since} \cup {revision[r] : r \in page}),
                   more |-> Cardinality(page) = PullLimit]]
  BY DEF Fetch
<1>2. since \in Nat
  BY RunStates DEF Fetch
<1>3. page \subseteq Records
  OBVIOUS
<1> DEFINE S == {since} \cup {revision[r] : r \in page}
<1>4. Max(S) \in Nat
  <2>1. S \in SUBSET Nat /\ S # {}
    BY <1>2, <1>3 DEF DInv, ServerTyped
  <2>2. IsFiniteSet(S)
    <3> DEFINE T == {revision[r] : r \in page}
               f == [r \in page |-> revision[r]]
    <3>1. f \in Surjection(page, T)
      BY DEF Surjection
    <3>2. IsFiniteSet(page)
      BY <1>3, LimitsAssumption, FS_Subset
    <3>3. IsFiniteSet(T)
      BY <3>1, <3>2, FS_Surjection
    <3> HIDE DEF T
    <3>4. S = T \cup {since}
      BY DEF T
    <3> QED
      BY <3>3, <3>4, FS_AddElement
  <2> HIDE DEF S
  <2> QED
    BY <2>1, <2>2, MaxIsGreatest
<1> DEFINE n == Max(S)
           f == [r \in page |-> rows[r]]
           u == [phase |-> "page", rows |-> f, next |-> n, more |-> Cardinality(page) = PullLimit]
<1>5. run' = [run EXCEPT ![d][s] = u]
  BY <1>1
<1>6. n \in Nat /\ f \in [page -> Row] /\ page \in SUBSET Records
  BY <1>3, <1>4 DEF DInv, ServerTyped
<1> HIDE DEF n, f, since, S
<1>7. u \in RunState /\ u.phase = "page"
  BY <1>6 DEF RunState
<1> HIDE DEF u
<1>8. UNCHANGED <<server, local, queue, conflicts, cursor>> /\ Counted'
  BY DEF Fetch, counters, DInv, Counted
<1> QED
  BY <1>5, <1>7, <1>8, QuietRun DEF DInv, DeviceTyped

LEMMA PulledTyped ==
  ASSUME NEW mine \in LocalRow \cup {NoLocal}, NEW row \in Row
  PROVE  Pulled(mine, row) \in LocalRow \cup {NoLocal}
<1>1. CASE row.deleted
  <2>1. CASE mine = NoLocal
    BY <1>1, <2>1 DEF Pulled
  <2>2. CASE mine # NoLocal
    BY <1>1, <2>2 DEF Pulled, LocalRow, Row
  <2> QED
    BY <2>1, <2>2
<1>2. CASE ~row.deleted
  BY <1>2 DEF Pulled, LocalRow, Row
<1> QED
  BY <1>1, <1>2

LEMMA ApplyPageStep ==
  ASSUME DInv, NEW d \in Devices, NEW s \in Runs, ApplyPage(d, s)
  PROVE  DInv'
<1> DEFINE page == run[d][s]
           u == IF page.more THEN Pulling(page.next) ELSE Idle
           f == [r \in Records |-> IF r \in DOMAIN page.rows /\ ~HasLive(d, r)
                                   THEN Pulled(local[d][r], page.rows[r]) ELSE local[d][r]]
<1>1. page \in PageState
  BY RunStates DEF ApplyPage
<1>2. page.next \in Nat /\ \A r \in DOMAIN page.rows : page.rows[r] \in Row
  BY <1>1 DEF PageState
<1>3. /\ local' = [local EXCEPT ![d] = f] /\ cursor' = [cursor EXCEPT ![d] = page.next]
      /\ run' = [run EXCEPT ![d][s] = u]
  BY DEF ApplyPage, DInv, DeviceTyped
<1>4. f \in [Records -> LocalRow \cup {NoLocal}]
  <2> SUFFICES ASSUME NEW r \in Records
               PROVE  f[r] \in LocalRow \cup {NoLocal}
    OBVIOUS
  <2>1. local[d][r] \in LocalRow \cup {NoLocal}
    BY DEF DInv, DeviceTyped
  <2> QED
    BY <1>2, <2>1, PulledTyped
<1>5. u \in RunState /\ u.phase \notin {"push", "results"}
  BY <1>2 DEF Pulling, Idle, RunState
<1> HIDE DEF u, f
<1>6. /\ local' \in [Devices -> [Records -> LocalRow \cup {NoLocal}]] /\ cursor' \in [Devices -> Nat]
  BY <1>2, <1>3, <1>4 DEF DInv, DeviceTyped
<1>7. UNCHANGED <<server, queue, conflicts>> /\ Counted'
  BY DEF ApplyPage, counters, DInv, Counted
<1> QED
  BY <1>3, <1>5, <1>6, <1>7, QuietRun

LEMMA LosePullStep ==
  ASSUME DInv, NEW d \in Devices, NEW s \in Runs, LosePull(d, s)
  PROVE  DInv'
<1>1. UNCHANGED <<server, local, queue, conflicts, cursor>> /\ Counted'
  BY LimitsAssumption DEF LosePull, DInv, Counted
<1>2. run' = [run EXCEPT ![d][s] = Idle] /\ Idle \in RunState /\ Idle.phase = "idle"
  BY Sentinels DEF LosePull, Idle
<1> QED
  BY <1>1, <1>2, QuietRun DEF DInv, DeviceTyped

(***************************************************************************)
(* One lemma per action: time, crashes and the web client.                 *)
(***************************************************************************)
LEMMA BackoffElapsesStep ==
  ASSUME DInv, NEW o \in Ops, BackoffElapses(o)
  PROVE  DInv'
<1>1. UNCHANGED <<server, local, conflicts, cursor, run>> /\ Counted'
  BY DEF BackoffElapses, counters, DInv, Counted
<1>2. o \in Made /\ queue[o] \in Item
  BY MadeItems DEF BackoffElapses, DInv
<1> DEFINE x == [queue[o] EXCEPT !.waiting = FALSE]
<1>3. x \in Item /\ x.status = queue[o].status /\ x.attempts = queue[o].attempts
      /\ x.dev = queue[o].dev /\ x.kind = queue[o].kind /\ x.rec = queue[o].rec
      /\ x.base = queue[o].base /\ x.content = queue[o].content
      /\ x.place = queue[o].place /\ x.settles = queue[o].settles
  BY <1>2 DEF Item
<1>4. queue' = [queue EXCEPT ![o] = x]
  BY DEF BackoffElapses
<1> HIDE DEF x
<1>5. /\ queue' \in [Ops -> Item \cup {NoItem}] /\ queue'[o] = x
      /\ \A p \in Ops \ {o} : queue'[p] = queue[p]
  BY <1>3, <1>4 DEF DInv, DeviceTyped
<1>6. Relabelled
  BY <1>2, <1>3, <1>5, Sentinels DEF Relabelled, Made, SameItem
<1>7. QueueKept /\ LedgerKept /\ ConflictsKept /\ ServerTyped' /\ DeviceTyped'
  BY <1>1, <1>6, RelabelKeeps DEF LedgerKept, ConflictsKept, server, DInv, ServerTyped, DeviceTyped, Relabelled
<1>8. NothingDropped'
  BY <1>3, <1>5, <1>7, NoneDropped
<1> QED
  BY <1>1, <1>7, <1>8, NoRunMoves DEF DInv

\* What a crash finds answered but not yet taken: answers "applied" are the ledger's.
LEMMA CrashStep ==
  ASSUME DInv, NEW d \in Devices, Crash(d)
  PROVE  DInv'
<1> DEFINE answered == {p.op : p \in {q \in UNION {Reply(d, s) : s \in Runs} : q.answer.status = "applied"}}
           given == UNION {run[d][s].todo : s \in {t \in Runs : run[d][t].phase = "push"}}
<1>1. PICK done \in SUBSET answered : queue' = MarkAll(queue, done, "done")
  BY DEF Crash
<1>2. ASSUME NEW o \in answered
      PROVE  o \in Made /\ Applied(o)
  <2>1. PICK p \in UNION {Reply(d, s) : s \in Runs} : o = p.op /\ p.answer.status = "applied"
    OBVIOUS
  <2>2. PICK s \in Runs : p \in Reply(d, s)
    BY <2>1
  <2> QED
    BY <2>1, <2>2, Replying
<1>3. given \subseteq Made
  <2> SUFFICES ASSUME NEW s \in Runs, run[d][s].phase = "push"
               PROVE  run[d][s].todo \subseteq Made
    OBVIOUS
  <2>1. Carried(d, s) \subseteq Queued(d) /\ run[d][s].todo \subseteq Carried(d, s)
    BY DEF DInv, RunsTyped, Carried, Todo
  <2> QED
    BY <2>1 DEF Queued, Made
<1>4. late' \subseteq Made
  BY <1>3 DEF Crash, DInv, ServerTyped
<1>5. run' = [run EXCEPT ![d] = [s \in Runs |-> Idle]]
  BY DEF Crash
<1>6. UNCHANGED <<rows, revision, ledger, local, conflicts, cursor>>
  BY DEF Crash
<1>7. Counted'
  BY LimitsAssumption DEF Crash, DInv, Counted
<1>8. done \in SUBSET Made /\ \A o \in done : Applied(o)
  BY <1>1, <1>2
<1> HIDE DEF answered, given
<1>9. /\ Relabelled /\ \A o \in done : queue'[o].status = "done"
      /\ \A o \in Ops \ done : queue'[o] = queue[o]
  BY <1>1, <1>8, Marks DEF DInv
<1>10. QueueKept /\ LedgerKept /\ ConflictsKept /\ ServerTyped' /\ DeviceTyped'
  BY <1>4, <1>6, <1>9, RelabelKeeps DEF LedgerKept, ConflictsKept, DInv, ServerTyped, DeviceTyped, Relabelled
<1>11. NothingDropped'
  <2>1. \A o \in done : DropOK(o)'
    BY <1>6, <1>8, <1>9 DEF DropOK, Applied
  <2> QED
    BY <1>9, <1>10, <2>1, NoneDropped
<1>12. RunsTyped' /\ AnswersOK'
  <2>1. run' \in [Devices -> [Runs -> RunState]]
    BY <1>5, Sentinels DEF DInv, RunsTyped
  <2>2. ASSUME NEW e \in Devices, NEW s \in Runs
        PROVE  /\ Carried(e, s)' \subseteq Queued(e)'
               /\ \A p \in Answers(e, s)' : p.answer.status = "applied" => Applied(p.op)'
    <3>1. Queued(e) \subseteq Queued(e)'
      BY <1>9, SameQueues DEF DInv
    <3>2. CASE e = d
      <4>1. run'[e][s] = Idle
        BY <1>5, <3>2 DEF DInv, RunsTyped
      <4> QED
        BY <4>1 DEF Idle, Carried, Todo, Answers
    <3>3. CASE e # d
      <4>1. run'[e][s] = run[e][s]
        BY <1>5, <3>3 DEF DInv, RunsTyped
      <4>2. Carried(e, s)' = Carried(e, s) /\ Answers(e, s)' = Answers(e, s)
        BY <4>1 DEF Carried, Todo, Answers
      <4> QED
        BY <1>6, <3>1, <4>2 DEF DInv, RunsTyped, AnswersOK, Applied
    <3> QED
      BY <3>2, <3>3
  <2> QED
    BY <2>1, <2>2 DEF RunsTyped, AnswersOK
<1> QED
  BY <1>7, <1>10, <1>11, <1>12 DEF DInv

LEMMA WebStep ==
  ASSUME DInv, NEW r \in Records, GenerateReport(r) \/ WebDelete(r)
  PROVE  DInv'
<1>1. NextRevision \in Nat
  BY RevisionsRise DEF DInv, ServerTyped
<1>2. revision' = [revision EXCEPT ![r] = NextRevision]
  BY DEF GenerateReport, WebDelete, NextRevision
<1>3. UNCHANGED <<ledger, late, local, queue, conflicts, cursor, run>> /\ Counted'
  BY LimitsAssumption DEF GenerateReport, WebDelete, DInv, Counted
<1>4. \E row \in Row : rows' = [rows EXCEPT ![r] = row]
  <2>1. CASE GenerateReport(r)
    BY <2>1, Sentinels DEF GenerateReport
  <2>2. CASE WebDelete(r)
    <3>1. [rows[r] EXCEPT !.deleted = TRUE] \in Row
      BY DEF DInv, ServerTyped, Row
    <3>2. rows' = [rows EXCEPT ![r] = [rows[r] EXCEPT !.deleted = TRUE]]
      BY <2>2 DEF WebDelete, DInv, ServerTyped
    <3> QED
      BY <3>1, <3>2
  <2> QED
    BY <2>1, <2>2
<1>5. rows' \in [Records -> Row] /\ revision' \in [Records -> Nat] /\ Made' = Made
  BY <1>1, <1>2, <1>3, <1>4 DEF DInv, ServerTyped, Made
<1>6. Relabelled /\ QueueKept /\ LedgerKept /\ ConflictsKept /\ ServerTyped' /\ DeviceTyped'
  BY <1>3, <1>5, Still, RelabelKeeps DEF LedgerKept, ConflictsKept, DInv, ServerTyped, DeviceTyped
<1>7. NothingDropped'
  BY <1>3, <1>6, NoneDropped
<1> QED
  BY <1>3, <1>6, <1>7, NoRunMoves DEF DInv

(***************************************************************************)
(* The invariant holds from the start, and every step keeps it.            *)
(***************************************************************************)
LEMMA DInit ==
  ASSUME Init
  PROVE  DInv
<1>1. Made = {} /\ IsFiniteSet(Made)
  BY FS_EmptySet DEF Init, Made
<1>2. ServerTyped /\ DeviceTyped /\ Counted
  BY <1>1, Sentinels, LimitsAssumption DEF Init, ServerTyped, DeviceTyped, Counted
<1>3. \A d \in Devices, s \in Runs : Carried(d, s) = {} /\ Answers(d, s) = {}
  BY DEF Init, Idle, Carried, Todo, Answers
<1>4. RunsTyped /\ AnswersOK
  BY <1>3, Sentinels DEF Init, RunsTyped, AnswersOK
<1>5. NothingDropped
  BY DEF Init, NothingDropped, NoItem
<1> QED
  BY <1>2, <1>4, <1>5 DEF DInv

LEMMA DStutter ==
  ASSUME DInv, UNCHANGED vars
  PROVE  DInv'
<1>1. /\ UNCHANGED <<rows, revision, ledger, late, local, queue, conflicts, cursor, run>>
      /\ UNCHANGED <<losses, crashes, web>>
  BY DEF vars, server, counters
<1>2. Relabelled /\ QueueKept /\ LedgerKept /\ ConflictsKept /\ Counted' /\ ServerTyped' /\ DeviceTyped'
  BY <1>1, Still, RelabelKeeps DEF LedgerKept, ConflictsKept, DInv, Counted, ServerTyped, DeviceTyped, Made
<1>3. NothingDropped'
  BY <1>1, <1>2, NoneDropped
<1> QED
  BY <1>1, <1>2, <1>3, NoRunMoves DEF DInv

LEMMA DNext ==
  ASSUME DInv, Next
  PROVE  DInv'
<1>1. ASSUME NEW d \in Devices, User(d) \/ Crash(d)
      PROVE  DInv'
  BY <1>1, UserStep, CrashStep DEF User
<1>2. ASSUME NEW d \in Devices, NEW s \in Runs, Push(d, s)
      PROVE  DInv'
  BY <1>2, BeginSteps, DeliverStep, ServeStep, TakeAppliedStep, TakeConflictStep, TakeErrorStep DEF Push
<1>3. ASSUME NEW d \in Devices, NEW s \in Runs, Pull(d, s) \/ Loss(d, s)
      PROVE  DInv'
  BY <1>3, FetchStep, ApplyPageStep, LosePushStep, LosePullStep, ServeFailsStep DEF Pull, Loss
<1>4. ASSUME NEW o \in Ops, ServeLate(o) \/ BackoffElapses(o)
      PROVE  DInv'
  BY <1>4, ServeLateStep, BackoffElapsesStep
<1>5. ASSUME NEW r \in Records, GenerateReport(r) \/ WebDelete(r)
      PROVE  DInv'
  BY <1>5, WebStep
<1>6. CASE Dialog
  BY <1>6, KeepServerStep, KeepLocalStep DEF Dialog
<1> QED
  BY <1>1, <1>2, <1>3, <1>4, <1>5, <1>6 DEF Next

LEMMA DTypes ==
  ASSUME DInv
  PROVE  TypeOK
  BY DEF DInv, ServerTyped, DeviceTyped, RunsTyped, Counted, TypeOK, Made

\* The state of the devices and of the server keeps its types, whatever is
\* lost, retried, killed or run twice.
THEOREM TypeCorrect == Spec => []TypeOK
<1>1. Spec => []DInv
  BY DInit, DNext, DStutter, PTL DEF Spec
<1> QED
  BY <1>1, DTypes, PTL

\* An operation leaves the queue for a reason: done means that the server
\* has applied it, failed that its attempts are used up or a conflict on its
\* record waits for the user, whatever is lost, retried, killed or run twice
\* (queue.js, engine.js).
THEOREM NothingIsDropped == Spec => []NothingDropped
<1>1. Spec => []DInv
  BY DInit, DNext, DStutter, PTL DEF Spec
<1>2. DInv => NothingDropped
  BY DEF DInv
<1> QED
  BY <1>1, <1>2, PTL

(***************************************************************************)
(* The devices use the server as SyncLedger promises it: what a device has *)
(* queued is a request, its serving the promised step, all else a stutter. *)
(***************************************************************************)
Requests == [o \in Ops |-> IF queue[o] = NoItem THEN NoRequest ELSE Sent(o)]

\* The operators SyncLedger is built from are the devices' own.
LEMMA SameOps ==
    /\ Ledger!NoRow = NoRow /\ Ledger!Generated = Generated
    /\ Ledger!NoRequest = NoRequest /\ Ledger!NoEntry = NoEntry
    /\ Ledger!Request = Request
    /\ \A row : Ledger!Exists(row) <=> Exists(row)
  BY DEF Ledger!NoRow, NoRow, Ledger!Generated, Generated, Ledger!NoRequest, NoRequest,
         Ledger!NoEntry, NoEntry, Ledger!Request, Request, Ledger!Kinds, Kinds,
         Ledger!Contents, Contents, Ledger!Exists, Exists

\* So is the effect of an operation on a row.
LEMMA SameEffect ==
  ASSUME NEW row, NEW q
  PROVE  /\ Ledger!RowAfter(row, q) = RowAfter(row, q)
         /\ Ledger!Recorded(Ledger!Answer(row, q)) = Recorded(Answer(row, q))
<1>1. Ledger!Writes(row, q) <=> Writes(row, q)
  BY DEF Ledger!Writes, Writes, Ledger!Exists, Exists, Ledger!Stale, Stale
<1>2. Ledger!Written(row, q) = Written(row, q)
  BY DEF Ledger!Written, Written
<1>3. Ledger!RowAfter(row, q) = RowAfter(row, q)
  BY <1>1, <1>2 DEF Ledger!RowAfter, RowAfter
<1>4. Ledger!Status(row, q) = Status(row, q)
  BY DEF Ledger!Status, Status, Ledger!Exists, Exists, Ledger!Stale, Stale
<1>5. Ledger!Answer(row, q) = Answer(row, q)
  BY <1>3, <1>4 DEF Ledger!Answer, Answer
<1> QED
  BY <1>3, <1>5 DEF Ledger!Recorded, Recorded

LEMMA LedgerInit ==
  ASSUME Init
  PROVE  Ledger!Init
<1>1. Requests = [o \in Ops |-> NoRequest]
  BY DEF Init, Requests
<1> QED
  BY <1>1, SameOps DEF Init, Ledger!Init, Requests

\* Whatever only relabels the queue leaves every request as it was.
LEMMA SameRequests ==
  ASSUME Relabelled
  PROVE  Requests' = Requests
<1>1. ASSUME NEW o \in Ops
      PROVE  (IF queue'[o] = NoItem THEN NoRequest ELSE Sent(o)')
               = (IF queue[o] = NoItem THEN NoRequest ELSE Sent(o))
  <2>1. CASE o \in Made
    BY <2>1 DEF Relabelled, SameItem, Sent, Made
  <2>2. CASE o \notin Made
    BY <2>2 DEF Relabelled, Made
  <2> QED
    BY <2>1, <2>2
<1> QED
  BY <1>1 DEF Requests

\* A step that relabels the queue and leaves the server alone is a stutter.
LEMMA StutterStep ==
  ASSUME Relabelled, UNCHANGED <<rows, ledger>>
  PROVE  UNCHANGED Ledger!vars
  BY SameRequests DEF Ledger!vars, Requests

\* What is queued is submitted.
LEMMA SubmitStep ==
  ASSUME DeviceTyped, NEW o \in Ops, o \notin Made, queue' \in [Ops -> Item \cup {NoItem}],
         queue'[o] \in Item, \A p \in Ops \ {o} : queue'[p] = queue[p], UNCHANGED <<rows, ledger>>
  PROVE  Ledger!Next
<1>1. Requests[o] = NoRequest
  BY DEF Requests, Made
<1>2. queue'[o] # NoItem
  BY Sentinels
<1>3. Requests'[o] = Sent(o)' /\ Sent(o)' \in Request
  BY <1>2 DEF Requests, Sent, Item, Request
<1>4. \A p \in Ops \ {o} : Requests'[p] = Requests[p]
  BY DEF Requests, Sent
<1>5. Requests \in [Ops -> Request \cup {NoRequest}] /\ Requests' = [p \in Ops |-> Requests'[p]]
  BY MadeItems DEF Requests, Made
<1>6. Requests' = [Requests EXCEPT ![o] = Requests'[o]]
  BY <1>4, <1>5
<1>7. Ledger!Submit(o)
  BY <1>1, <1>3, <1>6, SameOps DEF Ledger!Submit, Requests
<1> QED
  BY <1>7 DEF Ledger!Next

\* An operation that takes effect does what was promised.
LEMMA PerformStep ==
  ASSUME DInv, NEW o \in Made, ledger[o] = NoEntry, Perform(o), queue' = queue
  PROVE  Ledger!Next
<1>1. o \in Ops /\ Sent(o) \in Request /\ Sent(o).rec = queue[o].rec
  BY MadeItems DEF DInv, Made, Sent
<1>2. Requests[o] = Sent(o) /\ Requests' = Requests
  BY <1>1, Still, SameRequests DEF Requests, Made, DInv
<1>3. Sent(o) # NoRequest
  BY <1>1, Sentinels
<1>4. Ledger!Unanswered(o)
  BY <1>1, <1>2, <1>3, SameOps DEF Ledger!Unanswered, Requests
<1>5. /\ rows' = [rows EXCEPT ![Sent(o).rec] = RowAfter(rows[Sent(o).rec], Sent(o))]
      /\ ledger' = [ledger EXCEPT ![o] = Recorded(Answer(rows[Sent(o).rec], Sent(o)))]
  BY DEF Perform
<1>6. /\ rows' = [rows EXCEPT ![Requests[o].rec] = Ledger!RowAfter(rows[Requests[o].rec], Requests[o])]
      /\ ledger' = [ledger EXCEPT ![o] = Ledger!Recorded(Ledger!Answer(rows[Requests[o].rec], Requests[o]))]
  BY <1>2, <1>5, SameEffect
<1>7. Ledger!Perform(o)
  BY <1>2, <1>4, <1>6 DEF Ledger!Perform, Requests
<1> QED
  BY <1>1, <1>7 DEF Ledger!Next

LEMMA LedgerUser ==
  ASSUME DInv, NEW d \in Devices, NEW o \in Ops, NEW r \in Records,
         Create(d, o, r) \/ Update(d, o, r) \/ Remove(d, o, r)
  PROVE  Ledger!Next
<1>0. DeviceTyped /\ o \in Contents /\ NoOp \in Contents /\ local[d][r].version \in Nat
  BY LocalRows DEF DInv, Contents
<1>1. UNCHANGED <<rows, ledger>>
  BY DEF Create, Update, Remove, server
<1> DEFINE b == local[d][r].version
<1>2. \/ Enqueue(o, d, "create", r, 0, o, NoOp)
      \/ Enqueue(o, d, "update", r, b, o, NoOp)
      \/ Enqueue(o, d, "delete", r, b, NoOp, NoOp)
  BY DEF Create, Update, Remove
<1>3. b \in Nat /\ {"create", "update", "delete"} \subseteq Kinds
  BY <1>0 DEF Kinds
<1> HIDE DEF b
<1>4. /\ o \notin Made /\ queue' \in [Ops -> Item \cup {NoItem}] /\ queue'[o] \in Item
      /\ \A p \in Ops \ {o} : queue'[p] = queue[p]
  <2>1. CASE Enqueue(o, d, "create", r, 0, o, NoOp)
    BY <2>1, <1>0, <1>3, Enqueues
  <2>2. CASE Enqueue(o, d, "update", r, b, o, NoOp)
    BY <2>2, <1>0, <1>3, Enqueues
  <2>3. CASE Enqueue(o, d, "delete", r, b, NoOp, NoOp)
    BY <2>3, <1>0, <1>3, Enqueues
  <2> QED
    BY <1>2, <2>1, <2>2, <2>3
<1> QED
  BY <1>0, <1>1, <1>4, SubmitStep

LEMMA LedgerKeepLocal ==
  ASSUME DInv, NEW o \in Ops, NEW n \in Ops, KeepLocal(o, n)
  PROVE  Ledger!Next
<1> DEFINE d == queue[o].dev
           r == queue[o].rec
           b == conflicts[o].version
           x == conflicts[o].content
<1>1. conflicts[o] \in Conflict /\ d \in Devices /\ r \in Records
  BY OpenConflict DEF KeepLocal
<1>2. b \in Nat /\ x \in Contents /\ "update" \in Kinds
  BY <1>1 DEF Conflict, Kinds
<1>3. Enqueue(n, d, "update", r, b, x, o) /\ UNCHANGED <<rows, ledger>>
  BY DEF KeepLocal, server
<1> HIDE DEF d, r, b, x
<1>4. /\ n \notin Made /\ queue' \in [Ops -> Item \cup {NoItem}] /\ queue'[n] \in Item
      /\ \A p \in Ops \ {n} : queue'[p] = queue[p]
  BY <1>1, <1>2, <1>3, Enqueues DEF DInv
<1> QED
  BY <1>3, <1>4, SubmitStep DEF DInv

LEMMA LedgerServe ==
  ASSUME DInv, NEW o \in Ops, ServeLate(o) \/ \E d \in Devices, s \in Runs : Serve(d, s, o)
  PROVE  Ledger!Next \/ UNCHANGED Ledger!vars
<1>1. o \in Made /\ queue' = queue
  <2>1. CASE ServeLate(o)
    BY <2>1 DEF ServeLate, DInv, ServerTyped, Made
  <2>2. ASSUME NEW d \in Devices, NEW s \in Runs, Serve(d, s, o)
        PROVE  o \in Made /\ queue' = queue
    <3>1. Carried(d, s) \subseteq Queued(d) /\ o \in Carried(d, s)
      BY <2>2 DEF Serve, DInv, RunsTyped, Carried, Todo
    <3> QED
      BY <2>2, <3>1 DEF Serve, Queued, Made
  <2> QED
    BY <2>1, <2>2
<1>2. CASE ledger[o] = NoEntry
  BY <1>1, <1>2, PerformStep DEF Serve, ServeLate
<1>3. CASE ledger[o] # NoEntry
  <2>1. UNCHANGED <<rows, ledger>>
    BY <1>3 DEF Serve, ServeLate
  <2> QED
    BY <1>1, <2>1, Still, StutterStep DEF DInv
<1> QED
  BY <1>2, <1>3

LEMMA LedgerWeb ==
  ASSUME DInv, NEW r \in Records, GenerateReport(r) \/ WebDelete(r)
  PROVE  Ledger!Next
<1>1. Requests' = Requests /\ ledger' = ledger
  BY Still, SameRequests DEF DInv, GenerateReport, WebDelete
<1>2. CASE GenerateReport(r)
  <2>1. Ledger!Generate(r)
    BY <1>1, <1>2, SameOps DEF GenerateReport, Ledger!Generate, Requests
  <2> QED
    BY <2>1 DEF Ledger!Next
<1>3. CASE WebDelete(r)
  <2>1. Ledger!DeleteFromWeb(r)
    BY <1>1, <1>3, SameOps DEF WebDelete, Ledger!DeleteFromWeb, Requests
  <2> QED
    BY <2>1 DEF Ledger!Next
<1> QED
  BY <1>2, <1>3

\* A step that starts a pass, takes an answer, loses one or crashes relabels.
LEMMA RelabelStep ==
  ASSUME DInv, NEW d \in Devices,
         \/ Crash(d)
         \/ \E s \in Runs : \/ StartSync(d, s) \/ NextPass(d, s) \/ LosePush(d, s)
                            \/ \E p \in Reply(d, s) :
                                  TakeApplied(d, s, p) \/ TakeConflict(d, s, p) \/ TakeError(d, s, p)
  PROVE  Relabelled
<1>0. DeviceTyped
  BY DEF DInv
<1>1. CASE Crash(d)
  <2> DEFINE answered == {p.op : p \in {q \in UNION {Reply(d, s) : s \in Runs} : q.answer.status = "applied"}}
  <2>1. PICK done \in SUBSET answered : queue' = MarkAll(queue, done, "done")
    BY <1>1 DEF Crash
  <2>2. answered \subseteq Made
    <3> SUFFICES ASSUME NEW p \in UNION {Reply(d, s) : s \in Runs}
                 PROVE  p.op \in Made
      OBVIOUS
    <3>1. PICK s \in Runs : p \in Reply(d, s)
      OBVIOUS
    <3> QED
      BY <3>1, Replying
  <2> HIDE DEF answered
  <2>3. done \in SUBSET Made
    BY <2>2
  <2> QED
    BY <1>0, <2>1, <2>3, Marks
<1>2. ASSUME NEW s \in Runs, StartSync(d, s) \/ NextPass(d, s)
      PROVE  Relabelled
  <2>1. queue' = queue \/ queue' = MarkAll(queue, Due(d), "in_flight")
    BY <1>2 DEF StartSync, NextPass, BeginPass
  <2>2. Due(d) \in SUBSET Made
    BY DEF Due, Queued, Made
  <2> QED
    BY <1>0, <2>1, <2>2, Marks, Still
<1>3. ASSUME NEW s \in Runs, LosePush(d, s)
      PROVE  Relabelled
  <2> DEFINE sent == run[d][s].todo \cup {p.op : p \in run[d][s].replies}
  <2>1. Carried(d, s) = sent /\ queue' = FailAll(queue, sent)
    BY <1>3 DEF LosePush, Carried, Todo, Answers
  <2> HIDE DEF sent
  <2>2. sent \in SUBSET Made
    BY <2>1 DEF DInv, RunsTyped, Queued, Made
  <2> QED
    BY <1>0, <2>1, <2>2, Fails
<1>4. ASSUME NEW s \in Runs, NEW p \in Reply(d, s),
             TakeApplied(d, s, p) \/ TakeConflict(d, s, p) \/ TakeError(d, s, p)
      PROVE  Relabelled
  <2> DEFINE one == {p.op}
             all == {o \in On(d, queue[p.op].rec) : Live(o)}
  <2>1. \/ queue' = MarkAll(queue, one, "done")
        \/ queue' = MarkAll(queue, all, "failed")
        \/ queue' = FailAll(queue, one)
    BY <1>4 DEF TakeApplied, TakeConflict, Cancelled, TakeError
  <2>2. one \in SUBSET Made /\ all \in SUBSET Made
    BY Replying DEF On, Queued, Made
  <2> HIDE DEF one, all
  <2> QED
    BY <1>0, <2>1, <2>2, Marks, Fails
<1> QED
  BY <1>1, <1>2, <1>3, <1>4

\* Every step of the devices is a step of the promise, or none.
LEMMA LedgerStep ==
  ASSUME DInv, [Next]_vars
  PROVE  [Ledger!Next]_(Ledger!vars)
<1>1. ASSUME NEW d \in Devices, User(d)
      PROVE  Ledger!Next
  BY <1>1, LedgerUser DEF User
<1>2. ASSUME NEW d \in Devices, Crash(d)
      PROVE  UNCHANGED Ledger!vars
  BY <1>2, RelabelStep, StutterStep DEF Crash
<1>3. ASSUME NEW d \in Devices, NEW s \in Runs, Push(d, s)
      PROVE  [Ledger!Next]_(Ledger!vars)
  <2>1. CASE StartSync(d, s) \/ NextPass(d, s)
    BY <2>1, RelabelStep, StutterStep DEF StartSync, NextPass, server
  <2>2. CASE Deliver(d, s)
    BY <2>2, Still, StutterStep DEF Deliver, server, DInv
  <2>3. CASE \E o \in Ops : Serve(d, s, o)
    BY <2>3, LedgerServe
  <2>4. CASE \E p \in Reply(d, s) : TakeApplied(d, s, p) \/ TakeConflict(d, s, p) \/ TakeError(d, s, p)
    <3>1. UNCHANGED <<rows, ledger>>
      BY <2>4 DEF TakeApplied, TakeConflict, TakeError, server
    <3> QED
      BY <2>4, <3>1, RelabelStep, StutterStep
  <2> QED
    BY <1>3, <2>1, <2>2, <2>3, <2>4 DEF Push
<1>4. ASSUME NEW d \in Devices, NEW s \in Runs, Pull(d, s) \/ LosePull(d, s) \/ \E o \in Ops : ServeFails(d, s, o)
      PROVE  UNCHANGED Ledger!vars
  <2>1. UNCHANGED <<rows, ledger, queue>>
    BY <1>4 DEF Pull, Fetch, ApplyPage, LosePull, ServeFails, server
  <2> QED
    BY <2>1, Still, StutterStep DEF DInv
<1>5. ASSUME NEW d \in Devices, NEW s \in Runs, LosePush(d, s)
      PROVE  UNCHANGED Ledger!vars
  BY <1>5, RelabelStep, StutterStep DEF LosePush
<1>6. ASSUME NEW o \in Ops, ServeLate(o)
      PROVE  [Ledger!Next]_(Ledger!vars)
  BY <1>6, LedgerServe
<1>7. ASSUME NEW o \in Ops, BackoffElapses(o)
      PROVE  UNCHANGED Ledger!vars
  <2>1. Requests' = Requests
    <3>1. o \in Made /\ queue[o] \in Item
      BY <1>7, MadeItems DEF BackoffElapses, DInv
    <3>2. \A p \in Ops : (queue'[p] = NoItem <=> queue[p] = NoItem) /\ Sent(p)' = Sent(p)
      <4> DEFINE x == [queue[o] EXCEPT !.waiting = FALSE]
      <4>1. /\ x \in Item /\ x.kind = queue[o].kind /\ x.rec = queue[o].rec
            /\ x.base = queue[o].base /\ x.content = queue[o].content
        BY <3>1 DEF Item
      <4>2. queue' = [queue EXCEPT ![o] = x]
        BY <1>7 DEF BackoffElapses
      <4> HIDE DEF x
      <4>3. queue'[o] = x /\ \A p \in Ops \ {o} : queue'[p] = queue[p]
        BY <4>2 DEF DInv, DeviceTyped
      <4> QED
        BY <3>1, <4>1, <4>3, Sentinels DEF Sent
    <3> QED
      BY <3>2 DEF Requests
  <2> QED
    BY <1>7, <2>1 DEF BackoffElapses, server, Ledger!vars, Requests
<1>8. ASSUME NEW r \in Records, GenerateReport(r) \/ WebDelete(r)
      PROVE  Ledger!Next
  BY <1>8, LedgerWeb
<1>9. CASE Dialog
  <2>1. ASSUME NEW o \in Ops, KeepServer(o)
        PROVE  UNCHANGED Ledger!vars
    BY <2>1, Still, StutterStep DEF KeepServer, server, DInv
  <2> QED
    BY <1>9, <2>1, LedgerKeepLocal DEF Dialog
<1>10. CASE UNCHANGED vars
  BY <1>10, Still, StutterStep DEF vars, server, DInv
<1> QED
  BY <1>1, <1>2, <1>3, <1>4, <1>5, <1>6, <1>7, <1>8, <1>9, <1>10 DEF Next, Loss

\* The devices, with their queues, conflicts, lost requests and restarts,
\* use the server as SyncLedger promises it (sync.js applyOperation).
THEOREM DevicesUseLedger == Spec => UsesLedger
<1>1. Spec => []DInv
  BY DInit, DNext, DStutter, PTL DEF Spec
<1> QED
  BY <1>1, LedgerInit, LedgerStep, PTL DEF Spec, UsesLedger, Ledger!Spec

(***************************************************************************)
(* What every step does to the server and to the queues.                   *)
(***************************************************************************)
Added(o, d, r) ==
    /\ o \notin Made /\ Made' = Made \cup {o}
    /\ \A p \in Ops \ {o} : queue'[p] = queue[p]
    /\ queue'[o] \in Item /\ queue'[o].dev = d /\ queue'[o].rec = r /\ queue'[o].status = "pending"
    /\ queue'[o].waiting = FALSE /\ queue'[o].place = Cardinality(Queued(d)) + 1
    /\ \/ queue'[o].kind = "create" /\ ~Exists(rows[r]) /\ \A p \in Made : queue[p].rec # r
       \/ /\ queue'[o].kind \in {"update", "delete"}
          /\ \/ local[d][r] # NoLocal
             \/ \E c \in Made : conflicts[c] # NoConflict /\ queue[c].dev = d /\ queue[c].rec = r
    /\ queue'[o].kind = "delete" => local'[d][r].deleted
    /\ queue'[o].kind = "update" => local'[d][r].deleted = local[d][r].deleted
    /\ \A e \in Devices, t \in Records : e # d \/ t # r => local'[e][t] = local[e][t]
    /\ \A p \in Ops : conflicts'[p] # NoConflict <=> conflicts[p] # NoConflict
    /\ UNCHANGED <<rows, revision, ledger, late, cursor, run>>

\* What queueing an operation does.
Queues(o, d, kind, r) ==
    /\ o \notin Made /\ Made' = Made \cup {o}
    /\ \A p \in Ops \ {o} : queue'[p] = queue[p]
    /\ queue'[o] \in Item /\ queue'[o].dev = d /\ queue'[o].kind = kind /\ queue'[o].rec = r
    /\ queue'[o].status = "pending" /\ queue'[o].waiting = FALSE
    /\ queue'[o].place = Cardinality(Queued(d)) + 1

LEMMA EnqueueQueues ==
  ASSUME DeviceTyped, NEW o \in Ops, NEW d \in Devices, NEW kind \in Kinds, NEW r \in Records,
         NEW base \in Nat, NEW content \in Contents, NEW settles \in Ops \cup {NoOp},
         Enqueue(o, d, kind, r, base, content, settles)
  PROVE  Queues(o, d, kind, r)
BY Enqueues DEF Queues

LEMMA UserAdds ==
  ASSUME DInv, NEW d \in Devices, NEW o \in Ops, NEW r \in Records,
         Create(d, o, r) \/ Update(d, o, r) \/ Remove(d, o, r)
  PROVE  Added(o, d, r)
<1>0. /\ DeviceTyped /\ o \in Contents /\ NoOp \in Contents /\ local[d][r].version \in Nat
      /\ {"create", "update", "delete"} \subseteq Kinds
  BY LocalRows DEF DInv, Contents, Kinds
<1>1. /\ UNCHANGED <<rows, revision, ledger, late, cursor, run>>
      /\ \A p \in Ops : conflicts'[p] # NoConflict <=> conflicts[p] # NoConflict
  BY DEF Create, Update, Remove, server
<1>2. CASE Create(d, o, r)
  <2>1. Enqueue(o, d, "create", r, 0, o, NoOp) /\ ~Exists(rows[r]) /\ \A p \in Made : queue[p].rec # r
    BY <1>2 DEF Create, Made
  <2>2. \A e \in Devices, t \in Records : e # d \/ t # r => local'[e][t] = local[e][t]
    <3> DEFINE x == [version |-> 1, deleted |-> FALSE, content |-> o, status |-> "pending"]
    <3>1. local' = [local EXCEPT ![d][r] = x]
      BY <1>2 DEF Create
    <3> HIDE DEF x
    <3> QED
      BY <3>1 DEF DInv, DeviceTyped
  <2>3. Queues(o, d, "create", r)
    BY <1>0, <2>1, EnqueueQueues
  <2> QED
    BY <1>1, <2>1, <2>2, <2>3 DEF Added, Queues
<1>3. CASE Update(d, o, r)
  <2> DEFINE b == local[d][r].version
             v == local[d][r].version + 1
             x == [local[d][r] EXCEPT !.version = v, !.content = o, !.status = "pending"]
  <2>1. Enqueue(o, d, "update", r, b, o, NoOp) /\ b \in Nat
    BY <1>0, <1>3 DEF Update
  <2> HIDE DEF b
  <2>2. Queues(o, d, "update", r)
    BY <1>0, <2>1, EnqueueQueues
  <2>3. local[d][r] \in LocalRow
    BY <1>3 DEF Update, Shown, DInv, DeviceTyped
  <2>4. local' = [local EXCEPT ![d][r] = x]
    BY <1>3 DEF Update, DInv, DeviceTyped
  <2>5. x.deleted = local[d][r].deleted
    BY <2>3 DEF LocalRow
  <2> HIDE DEF x
  <2>6. local'[d][r] = x /\ \A e \in Devices, t \in Records : e # d \/ t # r => local'[e][t] = local[e][t]
    BY <2>4 DEF DInv, DeviceTyped
  <2> QED
    BY <1>1, <1>3, <2>2, <2>5, <2>6 DEF Added, Queues, Update, Shown
<1>4. CASE Remove(d, o, r)
  <2> DEFINE b == local[d][r].version
             v == local[d][r].version + 1
             x == [local[d][r] EXCEPT !.version = v, !.deleted = TRUE, !.status = "pending"]
  <2>1. Enqueue(o, d, "delete", r, b, NoOp, NoOp) /\ b \in Nat
    BY <1>0, <1>4 DEF Remove
  <2> HIDE DEF b
  <2>2. Queues(o, d, "delete", r)
    BY <1>0, <2>1, EnqueueQueues
  <2>3. local[d][r] \in LocalRow
    BY <1>4 DEF Remove, Shown, DInv, DeviceTyped
  <2>4. local' = [local EXCEPT ![d][r] = x]
    BY <1>4 DEF Remove, DInv, DeviceTyped
  <2>5. x.deleted = TRUE
    BY <2>3 DEF LocalRow
  <2> HIDE DEF x
  <2>6. local'[d][r] = x /\ \A e \in Devices, t \in Records : e # d \/ t # r => local'[e][t] = local[e][t]
    BY <2>4 DEF DInv, DeviceTyped
  <2> QED
    BY <1>1, <1>4, <2>2, <2>5, <2>6 DEF Added, Queues, Remove, Shown
<1> QED
  BY <1>2, <1>3, <1>4

LEMMA DialogAdds ==
  ASSUME DInv, NEW o \in Ops, NEW n \in Ops, KeepLocal(o, n)
  PROVE  Added(n, queue[o].dev, queue[o].rec) /\ queue[o].dev \in Devices /\ queue[o].rec \in Records
<1> DEFINE d == queue[o].dev
           r == queue[o].rec
           b == conflicts[o].version
           c == conflicts[o].content
           x == [local[d][r] EXCEPT !.version = b, !.status = "pending"]
<1>1. conflicts[o] \in Conflict /\ d \in Devices /\ r \in Records /\ o \in Made /\ conflicts[o] # NoConflict
  BY OpenConflict, Sentinels DEF KeepLocal
<1>2. b \in Nat /\ c \in Contents /\ "update" \in Kinds
  BY <1>1 DEF Conflict, Kinds
<1>3. Enqueue(n, d, "update", r, b, c, o) /\ UNCHANGED <<rows, revision, ledger, late, cursor, run>>
  BY DEF KeepLocal, server
<1>4. local' = [local EXCEPT ![d][r] = x]
  BY <1>1 DEF KeepLocal, DInv, DeviceTyped
<1>5. x.deleted = local[d][r].deleted
  BY <1>1 DEF DInv, DeviceTyped, LocalRow, NoLocal
<1>6. \A p \in Ops : conflicts'[p] # NoConflict <=> conflicts[p] # NoConflict
  BY OpenConflict DEF KeepLocal
<1>7. queue[o].dev = d /\ queue[o].rec = r
  OBVIOUS
<1> HIDE DEF d, r, b, c, x
<1>8. Queues(n, d, "update", r)
  BY <1>1, <1>2, <1>3, EnqueueQueues DEF DInv
<1>9. local'[d][r] = x /\ \A e \in Devices, t \in Records : e # d \/ t # r => local'[e][t] = local[e][t]
  BY <1>1, <1>4 DEF DInv, DeviceTyped
<1>10. Added(n, d, r)
  BY <1>1, <1>3, <1>5, <1>6, <1>7, <1>8, <1>9 DEF Added, Queues
<1> QED
  BY <1>1, <1>10 DEF d, r

\* An operation takes effect: its row changes if the operation writes.
Performed(o) ==
    LET r == queue[o].rec
    IN  /\ o \in Made /\ r \in Records /\ ledger[o] = NoEntry
        /\ rows'[r] = RowAfter(rows[r], Sent(o)) /\ \A t \in Records \ {r} : rows'[t] = rows[t]
        /\ revision'[r] = IF Writes(rows[r], Sent(o)) THEN NextRevision ELSE revision[r]
        /\ \A t \in Records \ {r} : revision'[t] = revision[t]
        /\ ledger'[o] = Recorded(Answer(rows[r], Sent(o))) /\ \A p \in Ops \ {o} : ledger'[p] = ledger[p]

LEMMA PerformDoes ==
  ASSUME DInv, NEW o \in Made, ledger[o] = NoEntry, Perform(o)
  PROVE  Performed(o)
<1> DEFINE q == Sent(o)
           r == queue[o].rec
           e == Recorded(Answer(rows[r], q))
           a == RowAfter(rows[r], q)
           v == IF Writes(rows[r], q) THEN NextRevision ELSE revision[r]
<1>1. o \in Ops /\ r \in Records /\ q.rec = r
  BY MadeItems DEF DInv, Made, Sent
<1>2. /\ rows' = [rows EXCEPT ![r] = a] /\ ledger' = [ledger EXCEPT ![o] = e]
      /\ \A t \in Records : revision'[t] = IF t = r THEN v ELSE revision[t]
  BY <1>1 DEF Perform, NextRevision, DInv, ServerTyped
<1> HIDE DEF e, a, v, r
<1>3. /\ rows'[r] = a /\ \A t \in Records \ {r} : rows'[t] = rows[t]
      /\ ledger'[o] = e /\ \A p \in Ops \ {o} : ledger'[p] = ledger[p]
  BY <1>1, <1>2 DEF DInv, ServerTyped
<1> QED
  BY <1>1, <1>2, <1>3 DEF Performed, e, a, v, r

ServerStill == UNCHANGED <<rows, revision, ledger>>

LEMMA ServerSteps ==
  ASSUME DInv, [Next]_vars
  PROVE  \/ ServerStill
         \/ queue' = queue /\ \E o \in Made : Performed(o)
         \/ UNCHANGED <<ledger, queue, run, late, local, conflicts, cursor>> /\ \E r \in Records : GenerateReport(r) \/ WebDelete(r)
<1>1. ASSUME NEW o \in Made, queue' = queue,
             IF ledger[o] = NoEntry THEN Perform(o) ELSE UNCHANGED <<rows, revision, ledger>>
      PROVE  ServerStill \/ Performed(o)
  BY <1>1, PerformDoes DEF ServerStill
<1>2. ASSUME NEW d \in Devices, NEW s \in Runs, NEW o \in Ops, Serve(d, s, o)
      PROVE  queue' = queue /\ o \in Made /\ (ServerStill \/ Performed(o))
  <2>1. Carried(d, s) \subseteq Queued(d) /\ o \in Carried(d, s)
    BY <1>2 DEF Serve, DInv, RunsTyped, Carried, Todo
  <2> QED
    BY <1>1, <1>2, <2>1 DEF Serve, Queued, Made
<1>3. ASSUME NEW o \in Ops, ServeLate(o)
      PROVE  queue' = queue /\ o \in Made /\ (ServerStill \/ Performed(o))
  BY <1>1, <1>3 DEF ServeLate, DInv, ServerTyped
<1>4. ASSUME NEW r \in Records, GenerateReport(r) \/ WebDelete(r)
      PROVE  UNCHANGED <<ledger, queue, run, late, local, conflicts, cursor>>
  BY <1>4 DEF GenerateReport, WebDelete
<1>5. ASSUME NEW d \in Devices, User(d) \/ Crash(d)
      PROVE  ServerStill
  BY <1>5 DEF User, Create, Update, Remove, Crash, server, ServerStill
<1>6. ASSUME NEW d \in Devices, NEW s \in Runs, Push(d, s)
      PROVE  ServerStill \/ (queue' = queue /\ \E o \in Made : Performed(o))
  <2>1. CASE \E o \in Ops : Serve(d, s, o)
    BY <1>2, <2>1
  <2>2. CASE \/ StartSync(d, s) \/ Deliver(d, s) \/ NextPass(d, s)
             \/ \E p \in Reply(d, s) : TakeApplied(d, s, p) \/ TakeConflict(d, s, p) \/ TakeError(d, s, p)
    BY <2>2 DEF StartSync, Deliver, NextPass, TakeApplied, TakeConflict, TakeError, server, ServerStill
  <2> QED
    BY <1>6, <2>1, <2>2 DEF Push
<1>7. ASSUME NEW d \in Devices, NEW s \in Runs, Pull(d, s) \/ Loss(d, s)
      PROVE  ServerStill
  BY <1>7 DEF Pull, Fetch, ApplyPage, Loss, LosePush, LosePull, ServeFails, server, ServerStill
<1>8. ASSUME NEW o \in Ops, BackoffElapses(o)
      PROVE  ServerStill
  BY <1>8 DEF BackoffElapses, server, ServerStill
<1>9. CASE Dialog
  BY <1>9 DEF Dialog, KeepServer, KeepLocal, server, ServerStill
<1>10. CASE UNCHANGED vars
  BY <1>10 DEF vars, server, ServerStill
<1> QED
  BY <1>3, <1>4, <1>5, <1>6, <1>7, <1>8, <1>9, <1>10 DEF Next

LEMMA BackoffRelabels ==
  ASSUME DInv, NEW o \in Ops, BackoffElapses(o)
  PROVE  Relabelled
<1>1. o \in Made /\ queue[o] \in Item
  BY MadeItems DEF BackoffElapses, DInv
<1> DEFINE x == [queue[o] EXCEPT !.waiting = FALSE]
<1>2. x \in Item /\ x.dev = queue[o].dev /\ x.kind = queue[o].kind /\ x.rec = queue[o].rec
      /\ x.base = queue[o].base /\ x.content = queue[o].content
      /\ x.place = queue[o].place /\ x.settles = queue[o].settles
  BY <1>1 DEF Item
<1>3. queue' = [queue EXCEPT ![o] = x]
  BY DEF BackoffElapses
<1> HIDE DEF x
<1>4. /\ queue' \in [Ops -> Item \cup {NoItem}] /\ queue'[o] = x
      /\ \A p \in Ops \ {o} : queue'[p] = queue[p]
  BY <1>2, <1>3 DEF DInv, DeviceTyped
<1> QED
  BY <1>1, <1>2, <1>4, Sentinels DEF Relabelled, Made, SameItem

LEMMA QueueSteps ==
  ASSUME DInv, [Next]_vars
  PROVE  Relabelled \/ \E o \in Ops, d \in Devices, r \in Records : Added(o, d, r)
<1>1. ASSUME queue' = queue
      PROVE  Relabelled
  BY <1>1, Still DEF DInv
<1>2. ASSUME NEW d \in Devices, User(d)
      PROVE  \E o \in Ops, e \in Devices, r \in Records : Added(o, e, r)
  BY <1>2, UserAdds DEF User
<1>3. ASSUME NEW d \in Devices, Crash(d)
      PROVE  Relabelled
  BY <1>3, RelabelStep
<1>4. ASSUME NEW d \in Devices, NEW s \in Runs, Push(d, s)
      PROVE  Relabelled
  <2>1. CASE Deliver(d, s) \/ \E o \in Ops : Serve(d, s, o)
    BY <1>1, <2>1 DEF Deliver, Serve
  <2>2. CASE \/ StartSync(d, s) \/ NextPass(d, s)
             \/ \E p \in Reply(d, s) : TakeApplied(d, s, p) \/ TakeConflict(d, s, p) \/ TakeError(d, s, p)
    BY <2>2, RelabelStep
  <2> QED
    BY <1>4, <2>1, <2>2 DEF Push
<1>5. ASSUME NEW d \in Devices, NEW s \in Runs, Pull(d, s) \/ Loss(d, s)
      PROVE  Relabelled
  <2>1. CASE LosePush(d, s)
    BY <2>1, RelabelStep
  <2>2. CASE Pull(d, s) \/ LosePull(d, s) \/ \E o \in Ops : ServeFails(d, s, o)
    BY <1>1, <2>2 DEF Pull, Fetch, ApplyPage, LosePull, ServeFails
  <2> QED
    BY <1>5, <2>1, <2>2 DEF Loss
<1>6. ASSUME NEW o \in Ops, ServeLate(o) \/ BackoffElapses(o)
      PROVE  Relabelled
  BY <1>1, <1>6, BackoffRelabels DEF ServeLate
<1>7. ASSUME NEW r \in Records, GenerateReport(r) \/ WebDelete(r)
      PROVE  Relabelled
  BY <1>1, <1>7 DEF GenerateReport, WebDelete
<1>8. CASE Dialog
  <2>1. ASSUME NEW o \in Ops, KeepServer(o)
        PROVE  Relabelled
    BY <1>1, <2>1 DEF KeepServer
  <2> QED
    BY <1>8, <2>1, DialogAdds DEF Dialog
<1>9. CASE UNCHANGED vars
  BY <1>1, <1>9 DEF vars
<1> QED
  BY <1>2, <1>3, <1>4, <1>5, <1>6, <1>7, <1>8, <1>9 DEF Next

(***************************************************************************)
(* Whatever happens, rows stay, revisions rise and places are given once.  *)
(***************************************************************************)
\* What one operation does to a row.
LEMMA WrittenRow ==
  ASSUME NEW row \in Row, NEW q \in Request
  PROVE  /\ Writes(row, q) => Exists(RowAfter(row, q))
         /\ ~Writes(row, q) => RowAfter(row, q) = row
         /\ Exists(row) => Exists(RowAfter(row, q))
         /\ Exists(row) /\ row.deleted => RowAfter(row, q).deleted
<1>1. CASE Writes(row, q)
  <2>1. RowAfter(row, q) = Written(row, q)
    BY <1>1 DEF RowAfter
  <2>2. CASE q.kind = "create"
    BY <1>1, <2>1, <2>2 DEF Written, Exists, Writes, Row
  <2>3. CASE q.kind # "create"
    <3>1. Written(row, q).version = row.version + 1 /\ (row.deleted => Written(row, q).deleted)
      BY <2>3 DEF Written
    <3> QED
      BY <1>1, <2>1, <2>3, <3>1 DEF Exists, Row
  <2> QED
    BY <2>2, <2>3
<1>2. CASE ~Writes(row, q)
  BY <1>2 DEF RowAfter
<1> QED
  BY <1>1, <1>2

LEMMA ServerMoves ==
  ASSUME DInv, [Next]_vars, NEW r \in Records
  PROVE  /\ Exists(rows[r]) => Exists(rows'[r])
         /\ Exists(rows[r]) /\ rows[r].deleted => rows'[r].deleted
         /\ \/ rows'[r] = rows[r] /\ revision'[r] = revision[r]
            \/ Exists(rows'[r]) /\ revision'[r] = NextRevision
<1>0. /\ rows \in [Records -> Row] /\ revision \in [Records -> Nat] /\ rows[r] \in Row
      /\ NextRevision \in Nat /\ \A t \in Records : revision[t] < NextRevision
  BY RevisionsRise DEF DInv, ServerTyped
<1>1. CASE ServerStill
  BY <1>1 DEF ServerStill
<1>2. ASSUME NEW o \in Made, Performed(o)
      PROVE  /\ Exists(rows[r]) => Exists(rows'[r])
             /\ Exists(rows[r]) /\ rows[r].deleted => rows'[r].deleted
             /\ \/ rows'[r] = rows[r] /\ revision'[r] = revision[r]
                \/ Exists(rows'[r]) /\ revision'[r] = NextRevision
  <2>1. Sent(o) \in Request
    BY MadeItems DEF DInv, Made
  <2>2. CASE queue[o].rec = r
    <3> DEFINE a == RowAfter(rows[r], Sent(o))
    <3>1. rows'[r] = a /\ revision'[r] = IF Writes(rows[r], Sent(o)) THEN NextRevision ELSE revision[r]
      BY <1>2, <2>2 DEF Performed
    <3>2. /\ Writes(rows[r], Sent(o)) => Exists(a)
          /\ ~Writes(rows[r], Sent(o)) => a = rows[r]
          /\ Exists(rows[r]) => Exists(a)
          /\ Exists(rows[r]) /\ rows[r].deleted => a.deleted
      BY <1>0, <2>1, WrittenRow
    <3> HIDE DEF a
    <3> QED
      BY <3>1, <3>2
  <2>3. CASE queue[o].rec # r
    BY <1>2, <2>3 DEF Performed
  <2> QED
    BY <2>2, <2>3
<1>3. ASSUME NEW t \in Records, GenerateReport(t) \/ WebDelete(t)
      PROVE  /\ Exists(rows[r]) => Exists(rows'[r])
             /\ Exists(rows[r]) /\ rows[r].deleted => rows'[r].deleted
             /\ \/ rows'[r] = rows[r] /\ revision'[r] = revision[r]
                \/ Exists(rows'[r]) /\ revision'[r] = NextRevision
  <2>1. revision' = [revision EXCEPT ![t] = NextRevision]
    BY <1>3 DEF GenerateReport, WebDelete, NextRevision
  <2>2. CASE t # r
    BY <1>0, <1>3, <2>1, <2>2 DEF GenerateReport, WebDelete
  <2>3. CASE t = r
    <3>1. CASE GenerateReport(t)
      BY <1>0, <2>1, <2>3, <3>1 DEF GenerateReport, Generated, Exists
    <3>2. CASE WebDelete(t)
      <4>1. rows'[r] = [rows[r] EXCEPT !.deleted = TRUE]
        BY <1>0, <2>3, <3>2 DEF WebDelete
      <4>2. rows'[r].deleted /\ rows'[r].version = rows[r].version
        BY <1>0, <4>1 DEF Row
      <4> QED
        BY <1>0, <2>1, <2>3, <3>2, <4>2 DEF WebDelete, Exists
    <3> QED
      BY <1>3, <3>1, <3>2
  <2> QED
    BY <2>2, <2>3
<1> QED
  BY <1>1, <1>2, <1>3, ServerSteps

\* Every step leaves a page as it is, or fetches it.
LEMMA PageSteps ==
  ASSUME DInv, [Next]_vars, NEW d \in Devices, NEW s \in Runs, run'[d][s].phase = "page"
  PROVE  run'[d][s] = run[d][s] \/ Fetch(d, s)
<1>1. ASSUME NEW e \in Devices, NEW t \in Runs, NEW u, run' = [run EXCEPT ![e][t] = u], u.phase # "page"
      PROVE  run'[d][s] = run[d][s]
  <2>1. run'[e][t] = u /\ \A f \in Devices, v \in Runs : f # e \/ v # t => run'[f][v] = run[f][v]
    BY <1>1 DEF DInv, RunsTyped
  <2> QED
    BY <1>1, <2>1
<1>2. ASSUME NEW e \in Devices, NEW t \in Runs, StartSync(e, t) \/ NextPass(e, t)
      PROVE  run'[d][s] = run[d][s]
  <2>1. PICK pass : \/ run' = [run EXCEPT ![e][t] = Pulling(cursor[e])]
                    \/ run' = [run EXCEPT ![e][t] = Pushing(pass, Due(e))]
    BY <1>2 DEF StartSync, NextPass, BeginPass
  <2> DEFINE u == Pulling(cursor[e])
             w == Pushing(pass, Due(e))
  <2>2. u.phase = "pull" /\ w.phase = "push"
    BY DEF Pulling, Pushing
  <2> HIDE DEF u, w
  <2>3. run' = [run EXCEPT ![e][t] = u] \/ run' = [run EXCEPT ![e][t] = w]
    BY <2>1 DEF u, w
  <2> QED
    BY <1>1, <2>2, <2>3
<1>3. ASSUME NEW e \in Devices, NEW t \in Runs, NEW o \in Ops, NEW a,
             run[e][t].phase = "push", Replied(e, t, o, a)
      PROVE  run'[d][s] = run[d][s]
  <2> DEFINE u == [run[e][t] EXCEPT !.todo = @ \ {o}, !.replies = @ \cup {[op |-> o, answer |-> a]}]
  <2>1. run' = [run EXCEPT ![e][t] = u]
    BY <1>3 DEF Replied, DInv, RunsTyped
  <2>2. u.phase = "push"
    BY <1>3, RunStates DEF PushState
  <2> HIDE DEF u
  <2> QED
    BY <1>1, <2>1, <2>2
<1>4. ASSUME NEW e \in Devices, NEW t \in Runs, Deliver(e, t)
      PROVE  run'[d][s] = run[d][s]
  <2> DEFINE u == [run[e][t] EXCEPT !.phase = "results"]
  <2>1. run' = [run EXCEPT ![e][t] = u]
    BY <1>4 DEF Deliver, DInv, RunsTyped
  <2>2. u.phase = "results"
    BY <1>4, RunStates DEF Deliver, PushState
  <2> HIDE DEF u
  <2> QED
    BY <1>1, <2>1, <2>2
<1>5. ASSUME NEW e \in Devices, NEW t \in Runs, NEW p \in Reply(e, t),
             TakeApplied(e, t, p) \/ TakeConflict(e, t, p) \/ TakeError(e, t, p)
      PROVE  run'[d][s] = run[d][s]
  <2>1. CASE Taken(e, t, p)
    <3>1. \E u \in RunState : run' = [run EXCEPT ![e][t] = u] /\ u.phase = "results"
      BY <2>1, ResultTaken
    <3> QED
      BY <1>1, <3>1
  <2>2. CASE run' = [run EXCEPT ![e][t] = Idle]
    BY <1>1, <2>2 DEF Idle
  <2> QED
    BY <1>5, <2>1, <2>2 DEF TakeApplied, TakeConflict, TakeError
<1>6. ASSUME NEW e \in Devices, NEW t \in Runs, Fetch(e, t)
      PROVE  run'[d][s] = run[d][s] \/ Fetch(d, s)
  <2>1. \E u : run' = [run EXCEPT ![e][t] = u]
    BY <1>6 DEF Fetch
  <2>2. \A f \in Devices, v \in Runs : f # e \/ v # t => run'[f][v] = run[f][v]
    BY <2>1 DEF DInv, RunsTyped
  <2> QED
    BY <1>6, <2>2
<1>7. ASSUME NEW e \in Devices, NEW t \in Runs, ApplyPage(e, t) \/ LosePush(e, t) \/ LosePull(e, t)
      PROVE  run'[d][s] = run[d][s]
  <2>1. PICK since : \/ run' = [run EXCEPT ![e][t] = Pulling(since)]
                     \/ run' = [run EXCEPT ![e][t] = Idle]
    BY <1>7 DEF ApplyPage, LosePush, LosePull
  <2> DEFINE u == Pulling(since)
             w == Idle
  <2>2. u.phase = "pull" /\ w.phase = "idle"
    BY DEF Pulling, Idle
  <2> HIDE DEF u, w
  <2>3. run' = [run EXCEPT ![e][t] = u] \/ run' = [run EXCEPT ![e][t] = w]
    BY <2>1 DEF u, w
  <2> QED
    BY <1>1, <2>2, <2>3
<1>8. ASSUME NEW e \in Devices, Crash(e)
      PROVE  run'[d][s] = run[d][s]
  <2>1. run' = [run EXCEPT ![e] = [v \in Runs |-> Idle]]
    BY <1>8 DEF Crash
  <2>2. CASE d = e
    BY <2>1, <2>2 DEF Idle, DInv, RunsTyped
  <2>3. CASE d # e
    BY <2>1, <2>3 DEF DInv, RunsTyped
  <2> QED
    BY <2>2, <2>3
<1>9. ASSUME NEW e \in Devices, NEW t \in Runs, NEW o \in Ops, Serve(e, t, o) \/ ServeFails(e, t, o)
      PROVE  run'[d][s] = run[d][s]
  BY <1>3, <1>9 DEF Serve, ServeFails
<1>10. ASSUME run' = run
      PROVE  run'[d][s] = run[d][s]
  BY <1>10
<1>11. ASSUME NEW o \in Ops, ServeLate(o) \/ BackoffElapses(o)
      PROVE  run' = run
  BY <1>11 DEF ServeLate, BackoffElapses
<1>12. ASSUME NEW r \in Records, GenerateReport(r) \/ WebDelete(r)
      PROVE  run' = run
  BY <1>12 DEF GenerateReport, WebDelete
<1>13. ASSUME NEW e \in Devices, User(e)
      PROVE  run' = run
  BY <1>13 DEF User, Create, Update, Remove
<1>14. ASSUME Dialog
      PROVE  run' = run
  BY <1>14 DEF Dialog, KeepServer, KeepLocal
<1>15. ASSUME NEW e \in Devices, NEW t \in Runs, Push(e, t)
      PROVE  run'[d][s] = run[d][s]
  BY <1>2, <1>4, <1>5, <1>9, <1>15 DEF Push
<1>16. ASSUME NEW e \in Devices, NEW t \in Runs, Pull(e, t) \/ Loss(e, t)
      PROVE  run'[d][s] = run[d][s] \/ Fetch(d, s)
  BY <1>6, <1>7, <1>9, <1>16 DEF Pull, Loss
<1> QED
  BY <1>8, <1>10, <1>11, <1>12, <1>13, <1>14, <1>15, <1>16 DEF Next, vars

\* A page holds rows that exist: their revisions are beyond the cursor.
Fetched(d, s, page) ==
    LET since == run[d][s].since
        beyond == {r \in Records : revision[r] > since}
    IN  /\ page \subseteq beyond
        /\ \A r \in page, t \in beyond \ page : revision[r] < revision[t]
        /\ DOMAIN run'[d][s].rows = page /\ \A r \in page : run'[d][s].rows[r] = rows[r]
        /\ run'[d][s].next \in Nat
        /\ run'[d][s].next = since \/ \E r \in page : run'[d][s].next = revision[r]
        /\ since <= run'[d][s].next /\ \A r \in page : revision[r] <= run'[d][s].next

LEMMA FetchDoes ==
  ASSUME DInv, NEW d \in Devices, NEW s \in Runs, Fetch(d, s)
  PROVE  run[d][s].since \in Nat /\ \E page \in SUBSET Records : Fetched(d, s, page)
<1> DEFINE since == run[d][s].since
           beyond == {r \in Records : revision[r] > since}
<1>1. PICK page \in SUBSET beyond :
        /\ \A r \in page, t \in beyond \ page : revision[r] < revision[t]
        /\ run' = [run EXCEPT ![d][s] =
                  [phase |-> "page", rows |-> [r \in page |-> rows[r]],
                   next |-> Max({since} \cup {revision[r] : r \in page}),
                   more |-> Cardinality(page) = PullLimit]]
  BY DEF Fetch
<1>2. since \in Nat
  BY RunStates DEF Fetch
<1>3. page \in SUBSET Records
  OBVIOUS
<1> DEFINE S == {since} \cup {revision[r] : r \in page}
<1>4. Max(S) \in S /\ \A y \in S : y <= Max(S)
  <2>1. S \in SUBSET Nat /\ S # {}
    BY <1>2, <1>3 DEF DInv, ServerTyped
  <2>2. IsFiniteSet(S)
    <3> DEFINE T == {revision[r] : r \in page}
               f == [r \in page |-> revision[r]]
    <3>1. f \in Surjection(page, T)
      BY DEF Surjection
    <3>2. IsFiniteSet(page)
      BY <1>3, LimitsAssumption, FS_Subset
    <3>3. IsFiniteSet(T)
      BY <3>1, <3>2, FS_Surjection
    <3> HIDE DEF T
    <3>4. S = T \cup {since}
      BY DEF T
    <3> QED
      BY <3>3, <3>4, FS_AddElement
  <2> HIDE DEF S
  <2> QED
    BY <2>1, <2>2, MaxIsGreatest
<1> DEFINE n == Max(S)
           f == [r \in page |-> rows[r]]
           u == [phase |-> "page", rows |-> f, next |-> n, more |-> Cardinality(page) = PullLimit]
<1>5. run' = [run EXCEPT ![d][s] = u]
  BY <1>1
<1>6. /\ n \in Nat /\ (n = since \/ \E r \in page : n = revision[r])
      /\ since <= n /\ \A r \in page : revision[r] <= n
  <2>1. \A y \in S : y \in Nat
    BY <1>2, <1>3 DEF DInv, ServerTyped
  <2> QED
    BY <1>4, <2>1
<1>7. DOMAIN f = page /\ \A r \in page : f[r] = rows[r]
  OBVIOUS
<1> HIDE DEF n, f, S
<1>8. run'[d][s].rows = f /\ run'[d][s].next = n
  BY <1>5 DEF DInv, RunsTyped
<1> QED
  BY <1>1, <1>2, <1>3, <1>6, <1>7, <1>8 DEF Fetched

(***************************************************************************)
(* Whatever happens: a revision is a row's, the rows of a page have one,   *)
(* a device's operations have places of their own, and a record is created *)
(* once.                                                                   *)
(***************************************************************************)
Revised == \A r \in Records : revision[r] > 0 => Exists(rows[r])
Paged ==
    \A d \in Devices, s \in Runs : run[d][s].phase = "page" =>
       \A r \in DOMAIN run[d][s].rows : revision[r] > 0
Placed ==
    \A d \in Devices :
       /\ \A o \in Queued(d) : queue[o].place <= Cardinality(Queued(d))
       /\ \A o, p \in Queued(d) : queue[o].place = queue[p].place => o = p
CreatedOnce ==
    \A o, p \in Made :
       queue[o].kind = "create" /\ queue[p].kind = "create" /\ queue[o].rec = queue[p].rec => o = p
WInv == Revised /\ Paged /\ Placed /\ CreatedOnce

LEMMA WInit ==
  ASSUME Init
  PROVE  WInv
<1>1. Made = {} /\ \A d \in Devices : Queued(d) = {}
  BY DEF Init, Made, Queued
<1>2. \A d \in Devices, s \in Runs : run[d][s].phase = "idle"
  BY DEF Init, Idle
<1> QED
  BY <1>1, <1>2 DEF Init, WInv, Revised, Paged, Placed, CreatedOnce

LEMMA RevisedKept ==
  ASSUME DInv, Revised, [Next]_vars
  PROVE  Revised'
<1> SUFFICES ASSUME NEW r \in Records, revision'[r] > 0
             PROVE  Exists(rows'[r])
  BY DEF Revised, Exists
<1> QED
  BY ServerMoves DEF Revised

LEMMA PagedKept ==
  ASSUME DInv, Paged, [Next]_vars
  PROVE  Paged'
<1> SUFFICES ASSUME NEW d \in Devices, NEW s \in Runs, run'[d][s].phase = "page",
                    NEW r \in DOMAIN run'[d][s].rows
             PROVE  revision'[r] > 0
  BY DEF Paged
<1>1. r \in Records /\ revision[r] > 0
  <2>1. CASE run'[d][s] = run[d][s]
    <3>1. r \in Records
      BY <2>1, RunStates DEF PageState
    <3> QED
      BY <2>1, <3>1 DEF Paged
  <2>2. CASE Fetch(d, s)
    <3>1. run[d][s].since \in Nat
      BY <2>2, FetchDoes
    <3>2. r \in Records /\ revision[r] > run[d][s].since /\ revision[r] \in Nat
      BY <2>2, FetchDoes DEF Fetched, DInv, ServerTyped
    <3> QED
      BY <3>1, <3>2
  <2> QED
    BY <2>1, <2>2, PageSteps
<1>2. revision[r] \in Nat /\ (revision'[r] = revision[r] \/ revision'[r] = NextRevision)
  BY <1>1, ServerMoves DEF DInv, ServerTyped
<1>3. NextRevision \in Nat /\ revision[r] < NextRevision
  BY <1>1, RevisionsRise DEF DInv, ServerTyped
<1> QED
  BY <1>1, <1>2, <1>3

LEMMA PlacedKept ==
  ASSUME DInv, Placed, [Next]_vars
  PROVE  Placed'
<1>1. CASE Relabelled
  <2> SUFFICES ASSUME NEW d \in Devices
               PROVE  /\ \A o \in Queued(d)' : queue'[o].place <= Cardinality(Queued(d)')
                      /\ \A o, p \in Queued(d)' : queue'[o].place = queue'[p].place => o = p
    BY DEF Placed
  <2>1. Queued(d)' = Queued(d) /\ Queued(d) \subseteq Made
    BY <1>1, SameQueues DEF DInv, Queued, Made
  <2>2. \A o \in Queued(d) : queue'[o].place = queue[o].place
    BY <1>1, <2>1 DEF Relabelled, SameItem
  <2> QED
    BY <2>1, <2>2 DEF Placed
<1>2. ASSUME NEW o \in Ops, NEW d \in Devices, NEW r \in Records, Added(o, d, r)
      PROVE  Placed'
  <2>1. \A e \in Devices : e # d => Queued(e)' = Queued(e)
    BY <1>2 DEF Added, Queued, Made
  <2>2. Queued(d)' = Queued(d) \cup {o} /\ o \notin Queued(d)
    BY <1>2, Sentinels DEF Added, Queued, Made
  <2>3. IsFiniteSet(Queued(d)) /\ Cardinality(Queued(d)) \in Nat
    <3>1. Queued(d) \subseteq Made /\ IsFiniteSet(Made)
      BY DEF Queued, Made, DInv, DeviceTyped
    <3> QED
      BY <3>1, FS_Subset, FS_CardinalityType
  <2> DEFINE n == Cardinality(Queued(d))
  <2>4. Cardinality(Queued(d)') = n + 1 /\ n \in Nat
    BY <2>2, <2>3, FS_AddElement
  <2>5. \A p \in Ops \ {o} : queue'[p] = queue[p]
    BY <1>2 DEF Added
  <2>6. queue'[o].place = n + 1
    BY <1>2 DEF Added
  <2>7. \A p \in Queued(d) : queue[p].place \in Nat /\ queue[p].place <= n /\ queue'[p].place = queue[p].place /\ p # o
    <3> SUFFICES ASSUME NEW p \in Queued(d)
                 PROVE  queue[p].place \in Nat /\ queue[p].place <= n /\ queue'[p].place = queue[p].place /\ p # o
      OBVIOUS
    <3>1. p \in Ops /\ p # o /\ queue[p] \in Item
      BY <2>2, MadeItems DEF DInv, Queued, Made
    <3> QED
      BY <2>5, <3>1 DEF Placed, Item
  <2> HIDE DEF n
  <2>8. /\ \A p \in Queued(d)' : queue'[p].place <= Cardinality(Queued(d)')
        /\ \A p, q \in Queued(d)' : queue'[p].place = queue'[q].place => p = q
    <3>1. \A p \in Queued(d)' : queue'[p].place <= n + 1
      BY <2>2, <2>4, <2>6, <2>7
    <3>2. \A p, q \in Queued(d) : queue[p].place = queue[q].place => p = q
      BY DEF Placed
    <3>3. \A p \in Queued(d) : queue'[p].place # n + 1
      BY <2>4, <2>7
    <3> QED
      BY <2>2, <2>4, <2>6, <2>7, <3>1, <3>2, <3>3
  <2>9. ASSUME NEW e \in Devices, e # d
        PROVE  /\ \A p \in Queued(e)' : queue'[p].place <= Cardinality(Queued(e)')
               /\ \A p, q \in Queued(e)' : queue'[p].place = queue'[q].place => p = q
    <3>1. Queued(e)' = Queued(e) /\ \A p \in Queued(e) : queue'[p] = queue[p]
      BY <2>1, <2>5, <2>9, <1>2 DEF Added, Queued, Made
    <3> QED
      BY <3>1 DEF Placed
  <2> QED
    BY <2>8, <2>9 DEF Placed
<1> QED
  BY <1>1, <1>2, QueueSteps

LEMMA CreatedOnceKept ==
  ASSUME DInv, CreatedOnce, [Next]_vars
  PROVE  CreatedOnce'
<1>1. CASE Relabelled
  BY <1>1 DEF Relabelled, SameItem, CreatedOnce
<1>2. ASSUME NEW o \in Ops, NEW d \in Devices, NEW r \in Records, Added(o, d, r)
      PROVE  CreatedOnce'
  <2>1. \A p \in Made : p # o /\ p \in Ops /\ queue'[p] = queue[p]
    BY <1>2 DEF Added, Made
  <2>2. Made' = Made \cup {o} /\ queue'[o].rec = r /\ (queue'[o].kind = "create" => \A p \in Made : queue[p].rec # r)
    BY <1>2 DEF Added
  <2> QED
    BY <2>1, <2>2 DEF CreatedOnce
<1> QED
  BY <1>1, <1>2, QueueSteps

LEMMA WNext ==
  ASSUME DInv, WInv, [Next]_vars
  PROVE  WInv'
BY RevisedKept, PagedKept, PlacedKept, CreatedOnceKept DEF WInv

(***************************************************************************)
(* In calm weather - nothing is lost, nothing crashes, one run at a time - *)
(* what each step does, field by field.                                    *)
(***************************************************************************)
Calm == MaxLosses = 0 /\ MaxCrashes = 0 /\ \A s, t \in Runs : s = t

OnlyRun(d, s) == \A e \in Devices, t \in Runs : e # d \/ t # s => run'[e][t] = run[e][t]

LEMMA RunAt ==
  ASSUME DInv, NEW d \in Devices, NEW s \in Runs, NEW u, run' = [run EXCEPT ![d][s] = u]
  PROVE  run'[d][s] = u /\ OnlyRun(d, s)
BY DEF DInv, RunsTyped, OnlyRun

PullBegins(d, s) ==
    /\ Carried(d, s) = {} /\ OnlyRun(d, s) /\ run'[d][s] = Pulling(cursor[d])
    /\ UNCHANGED <<rows, revision, ledger, late, local, queue, conflicts, cursor>>

PushBegins(d, s) ==
    /\ Carried(d, s) = {} /\ OnlyRun(d, s)
    /\ run'[d][s].phase = "push" /\ run'[d][s].todo = Due(d) /\ run'[d][s].replies = {}
    /\ Relabelled /\ \A o \in Due(d) : queue'[o].status = "in_flight"
    /\ \A o \in Made : queue'[o].waiting = queue[o].waiting
    /\ \A o \in Ops \ Due(d) : queue'[o] = queue[o]
    /\ UNCHANGED <<rows, revision, ledger, late, local, conflicts, cursor>>

LEMMA PassDoes ==
  ASSUME DInv, NEW d \in Devices, NEW s \in Runs, NEW pass, BeginPass(d, s, pass), Carried(d, s) = {},
         UNCHANGED <<rows, revision, ledger, late, local, conflicts, cursor>>
  PROVE  PullBegins(d, s) \/ PushBegins(d, s)
<1>1. CASE Due(d) = {} \/ pass > MaxPasses
  <2>1. run' = [run EXCEPT ![d][s] = Pulling(cursor[d])] /\ queue' = queue
    BY <1>1 DEF BeginPass
  <2> QED
    BY <2>1, RunAt DEF PullBegins
<1>2. CASE ~(Due(d) = {} \/ pass > MaxPasses)
  <2> DEFINE due == Due(d)
             u == Pushing(pass, due)
  <2>1. run' = [run EXCEPT ![d][s] = u] /\ queue' = MarkAll(queue, due, "in_flight")
    BY <1>2 DEF BeginPass
  <2>2. u.phase = "push" /\ u.todo = due /\ u.replies = {}
    BY DEF Pushing
  <2>3. due \in SUBSET Made
    BY DEF Due, Queued, Made
  <2> HIDE DEF due, u
  <2>4. /\ Relabelled /\ \A o \in due : queue'[o].status = "in_flight"
        /\ \A o \in Made : queue'[o].waiting = queue[o].waiting
        /\ \A o \in Ops \ due : queue'[o] = queue[o]
    BY <2>1, <2>3, Marks DEF DInv
  <2>5. run'[d][s] = u /\ OnlyRun(d, s)
    BY <2>1, RunAt
  <2> QED
    BY <2>2, <2>4, <2>5 DEF PushBegins, due
<1> QED
  BY <1>1, <1>2

LEMMA BeginDoes ==
  ASSUME DInv, NEW d \in Devices, NEW s \in Runs,
         StartSync(d, s) \/ (NextPass(d, s) /\ run[d][s].todo = {})
  PROVE  PullBegins(d, s) \/ PushBegins(d, s)
<1>1. Carried(d, s) = {}
  <2>1. CASE StartSync(d, s)
    BY <2>1 DEF StartSync, Idle, Carried, Todo, Answers
  <2>2. CASE NextPass(d, s) /\ run[d][s].todo = {}
    BY <2>2 DEF NextPass, Carried, Todo, Answers
  <2> QED
    BY <2>1, <2>2
<1>2. UNCHANGED <<rows, revision, ledger, late, local, conflicts, cursor>> /\ \E pass : BeginPass(d, s, pass)
  BY DEF StartSync, NextPass, server
<1> QED
  BY <1>1, <1>2, PassDoes

AnswerComes(d, s, o, a) ==
    /\ OnlyRun(d, s) /\ run[d][s].phase = "push" /\ run'[d][s].phase = "push" /\ o \in run[d][s].todo
    /\ run'[d][s].todo = run[d][s].todo \ {o}
    /\ \E p : /\ p.op = o /\ p.answer = a
              /\ run'[d][s].replies = run[d][s].replies \cup {p}

LEMMA RepliedDoes ==
  ASSUME DInv, NEW d \in Devices, NEW s \in Runs, run[d][s].phase = "push",
         NEW o \in run[d][s].todo, NEW a, Replied(d, s, o, a)
  PROVE  AnswerComes(d, s, o, a)
<1> DEFINE p == [op |-> o, answer |-> a]
           u == [run[d][s] EXCEPT !.todo = @ \ {o}, !.replies = @ \cup {p}]
<1>1. run[d][s] \in PushState
  BY RunStates
<1>2. u.todo = run[d][s].todo \ {o} /\ u.replies = run[d][s].replies \cup {p} /\ u.phase = "push"
  BY <1>1 DEF PushState
<1>3. run' = [run EXCEPT ![d][s] = u]
  BY DEF Replied, DInv, RunsTyped
<1>4. p.op = o /\ p.answer = a
  OBVIOUS
<1> HIDE DEF u, p
<1>5. run'[d][s] = u /\ OnlyRun(d, s)
  BY <1>3, RunAt
<1> QED
  BY <1>2, <1>4, <1>5 DEF AnswerComes

Serves(d, s, o) ==
    /\ UNCHANGED <<late, local, queue, conflicts, cursor>> /\ o \in Made
    /\ \/ Performed(o) /\ AnswerComes(d, s, o, Answer(rows[queue[o].rec], Sent(o)))
       \/ ledger[o] # NoEntry /\ ServerStill /\ AnswerComes(d, s, o, Replay(ledger[o]))

LEMMA ServeDoes ==
  ASSUME DInv, NEW d \in Devices, NEW s \in Runs, NEW o \in Ops, Serve(d, s, o)
  PROVE  Serves(d, s, o)
<1>1. run[d][s].phase = "push" /\ o \in run[d][s].todo /\ UNCHANGED <<late, local, queue, conflicts, cursor>>
  BY DEF Serve
<1>2. o \in Made
  <2>1. Carried(d, s) \subseteq Queued(d) /\ o \in Carried(d, s)
    BY <1>1 DEF DInv, RunsTyped, Carried, Todo
  <2> QED
    BY <2>1 DEF Queued, Made
<1>3. CASE ledger[o] = NoEntry
  BY <1>1, <1>2, <1>3, PerformDoes, RepliedDoes DEF Serve, Serves
<1>4. CASE ledger[o] # NoEntry
  BY <1>1, <1>2, <1>4, RepliedDoes DEF Serve, Serves, ServerStill
<1> QED
  BY <1>3, <1>4

Delivers(d, s) ==
    /\ OnlyRun(d, s) /\ run[d][s].phase = "push" /\ run'[d][s].phase = "results"
    /\ run[d][s].todo = {} /\ run'[d][s].todo = {} /\ run'[d][s].replies = run[d][s].replies
    /\ UNCHANGED <<rows, revision, ledger, late, local, queue, conflicts, cursor>>

LEMMA DeliverDoes ==
  ASSUME DInv, NEW d \in Devices, NEW s \in Runs, Deliver(d, s)
  PROVE  Delivers(d, s)
<1> DEFINE u == [run[d][s] EXCEPT !.phase = "results"]
<1>1. run[d][s] \in PushState
  BY RunStates DEF Deliver
<1>2. u.todo = run[d][s].todo /\ u.replies = run[d][s].replies /\ u.phase = "results"
  BY <1>1 DEF PushState
<1>3. run' = [run EXCEPT ![d][s] = u]
  BY DEF Deliver, DInv, RunsTyped
<1> HIDE DEF u
<1>4. run'[d][s] = u /\ OnlyRun(d, s)
  BY <1>3, RunAt
<1> QED
  BY <1>2, <1>4 DEF Deliver, Delivers, server

\* The answer p is taken; the operations os leave the queue.
Takes(d, s, p, os, st) ==
    /\ OnlyRun(d, s) /\ run[d][s].phase = "results" /\ run'[d][s].phase = "results"
    /\ p \in run[d][s].replies /\ p.op \in Queued(d)
    /\ run'[d][s].todo = run[d][s].todo /\ run'[d][s].replies = run[d][s].replies \ {p}
    /\ st \in {"done", "failed"} /\ os \subseteq Made
    /\ Relabelled /\ \A o \in os : queue'[o].status = st
    /\ \A o \in Made : queue'[o].waiting = queue[o].waiting
    /\ \A o \in Ops \ os : queue'[o] = queue[o]
    /\ UNCHANGED <<rows, revision, ledger, late, cursor>>

LEMMA TakenDoes ==
  ASSUME DInv, NEW d \in Devices, NEW s \in Runs, NEW p \in Reply(d, s), Taken(d, s, p),
         NEW os \in SUBSET Made, NEW st \in {"done", "failed"}, queue' = MarkAll(queue, os, st),
         UNCHANGED <<rows, revision, ledger, late, cursor>>
  PROVE  Takes(d, s, p, os, st)
<1>1. PICK u \in RunState :
        /\ run' = [run EXCEPT ![d][s] = u] /\ u.phase = "results"
        /\ u.replies = run[d][s].replies \ {p} /\ u.todo = run[d][s].todo
  BY ResultTaken
<1>2. run'[d][s] = u /\ OnlyRun(d, s)
  BY <1>1, RunAt
<1>3. /\ Relabelled /\ \A o \in os : queue'[o].status = st
      /\ \A o \in Made : queue'[o].waiting = queue[o].waiting
      /\ \A o \in Ops \ os : queue'[o] = queue[o]
  BY Marks DEF DInv
<1> QED
  BY <1>1, <1>2, <1>3, Replying DEF Takes

Applies(d, s, p) ==
    /\ p \in run[d][s].replies /\ p.answer.status = "applied" /\ p.op \in Made
    /\ Takes(d, s, p, {p.op}, "done") /\ conflicts' = conflicts
    /\ local'[d][queue[p.op].rec].deleted = local[d][queue[p.op].rec].deleted
    /\ \A e \in Devices, t \in Records : e # d \/ t # queue[p.op].rec => local'[e][t] = local[e][t]

LEMMA ApplyDoes ==
  ASSUME DInv, NEW d \in Devices, NEW s \in Runs, NEW p \in Reply(d, s), TakeApplied(d, s, p),
         p.answer.version > 0
  PROVE  Applies(d, s, p)
<1> DEFINE r == queue[p.op].rec
           x == [local[d][r] EXCEPT !.version = p.answer.version, !.status = "synced"]
<1>1. p.op \in Made /\ r \in Records /\ p \in run[d][s].replies
  BY Replying
<1>2. /\ queue' = MarkAll(queue, {p.op}, "done") /\ Taken(d, s, p) /\ conflicts' = conflicts
      /\ UNCHANGED <<rows, revision, ledger, late, cursor>>
  BY DEF TakeApplied, server
<1>3. Takes(d, s, p, {p.op}, "done")
  <2> DEFINE os == {p.op}
  <2>1. os \in SUBSET Made /\ queue' = MarkAll(queue, os, "done")
    BY <1>1, <1>2
  <2> HIDE DEF os
  <2>2. Takes(d, s, p, os, "done")
    BY <1>2, <2>1, TakenDoes
  <2> QED
    BY <2>2 DEF os
<1>4. local' = [local EXCEPT ![d][r] = x]
  BY <1>1 DEF TakeApplied, DInv, DeviceTyped
<1>5. x.deleted = local[d][r].deleted
  BY <1>1 DEF DInv, DeviceTyped, LocalRow, NoLocal
<1> HIDE DEF x
<1>6. local'[d][r] = x /\ \A e \in Devices, t \in Records : e # d \/ t # r => local'[e][t] = local[e][t]
  BY <1>1, <1>4 DEF DInv, DeviceTyped
<1> QED
  BY <1>1, <1>2, <1>3, <1>5, <1>6 DEF Applies, TakeApplied

LiveOn(d, r) == {o \in On(d, r) : Live(o)}
Clashes(d, s, p) ==
    /\ p \in run[d][s].replies /\ p.answer.status = "conflict" /\ p.op \in Made
    /\ Takes(d, s, p, LiveOn(d, queue[p.op].rec), "failed")
    /\ conflicts'[p.op].resolution = "none" /\ \A o \in Ops \ {p.op} : conflicts'[o] = conflicts[o]
    /\ local'[d][queue[p.op].rec].deleted = local[d][queue[p.op].rec].deleted
    /\ \A e \in Devices, t \in Records : e # d \/ t # queue[p.op].rec => local'[e][t] = local[e][t]

LEMMA ClashDoes ==
  ASSUME DInv, NEW d \in Devices, NEW s \in Runs, NEW p \in Reply(d, s), TakeConflict(d, s, p)
  PROVE  Clashes(d, s, p)
<1> DEFINE r == queue[p.op].rec
           x == [local[d][r] EXCEPT !.status = "conflict"]
           c == Noted(p.op, p.answer)
           os == LiveOn(d, r)
<1>1. p.op \in Made /\ p.op \in Ops /\ r \in Records /\ p \in run[d][s].replies
  BY Replying DEF Made
<1>2. /\ queue' = MarkAll(queue, os, "failed") /\ Taken(d, s, p)
      /\ UNCHANGED <<rows, revision, ledger, late, cursor>>
  BY DEF TakeConflict, Cancelled, LiveOn, server
<1>3. os \in SUBSET Made
  BY DEF LiveOn, On, Queued, Made
<1>4. local' = [local EXCEPT ![d][r] = x]
  BY <1>1 DEF TakeConflict, DInv, DeviceTyped
<1>5. x.deleted = local[d][r].deleted
  BY <1>1 DEF DInv, DeviceTyped, LocalRow, NoLocal
<1>6. conflicts' = [conflicts EXCEPT ![p.op] = c] /\ c.resolution = "none"
  BY DEF TakeConflict, Noted
<1> HIDE DEF x, c, os
<1>7. Takes(d, s, p, os, "failed")
  BY <1>2, <1>3, TakenDoes
<1>8. local'[d][r] = x /\ \A e \in Devices, t \in Records : e # d \/ t # r => local'[e][t] = local[e][t]
  BY <1>1, <1>4 DEF DInv, DeviceTyped
<1>9. conflicts'[p.op] = c /\ \A o \in Ops \ {p.op} : conflicts'[o] = conflicts[o]
  BY <1>1, <1>6 DEF DInv, DeviceTyped
<1> QED
  BY <1>1, <1>5, <1>6, <1>7, <1>8, <1>9 DEF Clashes, TakeConflict, os

Fetches(d, s) ==
    /\ OnlyRun(d, s) /\ run[d][s].phase = "pull" /\ run'[d][s].phase = "page"
    /\ run[d][s].since \in Nat /\ \E page \in SUBSET Records : Fetched(d, s, page)
    /\ UNCHANGED <<rows, revision, ledger, late, local, queue, conflicts, cursor>>

LEMMA FetchMoves ==
  ASSUME DInv, NEW d \in Devices, NEW s \in Runs, Fetch(d, s)
  PROVE  Fetches(d, s)
<1> DEFINE since == run[d][s].since
<1>0. PICK S \in SUBSET {r \in Records : revision[r] > since} :
        run' = [run EXCEPT ![d][s] =
                  [phase |-> "page", rows |-> [r \in S |-> rows[r]],
                   next |-> Max({since} \cup {revision[r] : r \in S}),
                   more |-> Cardinality(S) = PullLimit]]
  BY DEF Fetch
<1> DEFINE page == [r \in S |-> rows[r]]
           n == Max({since} \cup {revision[r] : r \in S})
           more == Cardinality(S) = PullLimit
<1>1. run' = [run EXCEPT ![d][s] = [phase |-> "page", rows |-> page, next |-> n, more |-> more]]
  BY <1>0
<1> HIDE DEF page, n, more
<1> DEFINE u == [phase |-> "page", rows |-> page, next |-> n, more |-> more]
<1>2. u.phase = "page" /\ run' = [run EXCEPT ![d][s] = u]
  BY <1>1
<1> HIDE DEF u
<1>3. run'[d][s].phase = "page" /\ OnlyRun(d, s)
  BY <1>2, RunAt
<1>4. run[d][s].since \in Nat /\ \E p \in SUBSET Records : Fetched(d, s, p)
  BY FetchDoes
<1>5. run[d][s].phase = "pull" /\ UNCHANGED <<rows, revision, ledger, late, local, queue, conflicts, cursor>>
  BY DEF Fetch, server
<1> QED
  BY <1>3, <1>4, <1>5 DEF Fetches

PageApplied(d, s) ==
    LET page == run[d][s]
    IN  /\ OnlyRun(d, s) /\ page.phase = "page" /\ page.next \in Nat
        /\ \A r \in DOMAIN page.rows : r \in Records /\ page.rows[r] \in Row
        /\ run'[d][s] = Pulling(page.next) \/ run'[d][s] = Idle
        /\ cursor'[d] = page.next /\ \A e \in Devices \ {d} : cursor'[e] = cursor[e]
        /\ \A r \in Records :
              local'[d][r] = IF r \in DOMAIN page.rows /\ ~HasLive(d, r)
                             THEN Pulled(local[d][r], page.rows[r]) ELSE local[d][r]
        /\ \A e \in Devices \ {d}, r \in Records : local'[e][r] = local[e][r]
        /\ UNCHANGED <<rows, revision, ledger, late, queue, conflicts>>

LEMMA PageDoes ==
  ASSUME DInv, NEW d \in Devices, NEW s \in Runs, ApplyPage(d, s)
  PROVE  PageApplied(d, s)
<1> DEFINE page == run[d][s]
           u == IF page.more THEN Pulling(page.next) ELSE Idle
           f == [r \in Records |-> IF r \in DOMAIN page.rows /\ ~HasLive(d, r)
                                   THEN Pulled(local[d][r], page.rows[r]) ELSE local[d][r]]
<1>1. page \in PageState
  BY RunStates DEF ApplyPage
<1>2. page.next \in Nat /\ \A r \in DOMAIN page.rows : r \in Records /\ page.rows[r] \in Row
  BY <1>1 DEF PageState
<1>3. /\ local' = [local EXCEPT ![d] = f] /\ cursor' = [cursor EXCEPT ![d] = page.next]
      /\ run' = [run EXCEPT ![d][s] = u]
  BY DEF ApplyPage, DInv, DeviceTyped
<1>4. \A r \in Records : f[r] = IF r \in DOMAIN page.rows /\ ~HasLive(d, r)
                                THEN Pulled(local[d][r], page.rows[r]) ELSE local[d][r]
  OBVIOUS
<1> HIDE DEF u, f
<1>5. run'[d][s] = u /\ OnlyRun(d, s)
  BY <1>3, RunAt
<1>6. local'[d] = f /\ \A e \in Devices \ {d} : local'[e] = local[e]
  BY <1>3 DEF DInv, DeviceTyped
<1>7. cursor'[d] = page.next /\ \A e \in Devices \ {d} : cursor'[e] = cursor[e]
  BY <1>3 DEF DInv, DeviceTyped
<1>8. u = Pulling(page.next) \/ u = Idle
  BY DEF u
<1>9. UNCHANGED <<rows, revision, ledger, late, queue, conflicts>> /\ page.phase = "page"
  BY DEF ApplyPage, server
<1> QED
  BY <1>2, <1>4, <1>5, <1>6, <1>7, <1>8, <1>9 DEF PageApplied

(***************************************************************************)
(* The calm invariant, its first half: the queue and the runs.             *)
(***************************************************************************)
NoDelay == late = {} /\ \A o \in Made : ~queue[o].waiting
Delivered == \A d \in Devices, s \in Runs : run[d][s].phase = "results" => run[d][s].todo = {}
AnsweredOnce ==
    \A d \in Devices, s \in Runs : \A p, q \in Answers(d, s) :
       p.op \notin Todo(d, s) /\ (p.op = q.op => p = q)

\* What a run carries is in flight, one operation of each record; what is in
\* flight is carried; and it is the oldest that is still live.
Flying == \A d \in Devices, s \in Runs : \A o \in Carried(d, s) : queue[o].status = "in_flight"
OnePerRecord ==
    \A d \in Devices, s \in Runs : \A o, p \in Carried(d, s) : queue[o].rec = queue[p].rec => o = p
Owned ==
    \A d \in Devices, s \in Runs : \A o \in Queued(d) :
       queue[o].status = "in_flight" => o \in Carried(d, s)
Ordered ==
    \A d \in Devices, r \in Records : \A o, p \in On(d, r) :
       queue[o].status = "in_flight" /\ queue[p].place < queue[o].place => ~Live(p)

QInv == NoDelay /\ Delivered /\ AnsweredOnce /\ Flying /\ OnePerRecord /\ Owned /\ Ordered

\* Its second half: what is known of the server.  An edit is of a row that
\* exists, or follows its creation in the queue.
Grounded ==
    \A d \in Devices, r \in Records : \A o \in On(d, r) :
       queue[o].status = "pending" /\ queue[o].kind # "create" =>
          \/ Exists(rows[r])
          \/ \E c \in On(d, r) : Live(c) /\ queue[c].kind = "create" /\ queue[c].place < queue[o].place
Landed ==
    \A o \in Made : queue[o].status = "in_flight" /\ queue[o].kind # "create" =>
       Exists(rows[queue[o].rec])
Sourced ==
    \A d \in Devices, r \in Records : local[d][r] # NoLocal =>
       Exists(rows[r]) \/ \E c \in On(d, r) : Live(c) /\ queue[c].kind = "create"
Answerable ==
    \A d \in Devices, s \in Runs : \A p \in Answers(d, s) :
       p.answer.status # "error" /\ p.answer.version > 0 /\ Exists(rows[queue[p.op].rec])
LedgerSound ==
    \A o \in Ops : ledger[o] # NoEntry =>
       /\ o \in Made /\ ledger[o].status # "error" /\ ledger[o].version > 0
       /\ Exists(rows[queue[o].rec])
ConflictsSound == \A o \in Ops : conflicts[o] # NoConflict => Exists(rows[queue[o].rec])

KInv == Grounded /\ Landed /\ Sourced /\ Answerable /\ LedgerSound /\ ConflictsSound

CalmInv == DInv /\ WInv /\ QInv /\ KInv

CalmStep ==
    \/ \E o \in Ops, d \in Devices, r \in Records : Added(o, d, r)
    \/ \E o \in Ops : KeepServer(o)
    \/ \E d \in Devices, s \in Runs :
          \/ PullBegins(d, s) \/ PushBegins(d, s) \/ Delivers(d, s) \/ Fetches(d, s) \/ PageApplied(d, s)
          \/ \E o \in Ops : Serves(d, s, o)
          \/ \E p \in run[d][s].replies : Applies(d, s, p) \/ Clashes(d, s, p)
    \/ \E r \in Records : GenerateReport(r) \/ WebDelete(r)
    \/ UNCHANGED vars

LEMMA CalmSteps ==
  ASSUME Calm, CalmInv, [Next]_vars
  PROVE  CalmStep
<1>0. DInv /\ NoDelay /\ Delivered /\ Answerable
  BY DEF CalmInv, QInv, KInv
<1>1. losses = 0 /\ crashes = 0 /\ ~(losses < MaxLosses) /\ ~(crashes < MaxCrashes)
  BY <1>0 DEF Calm, DInv, Counted
<1>2. ASSUME NEW d \in Devices, NEW s \in Runs, Push(d, s)
      PROVE  CalmStep
  <2>1. CASE StartSync(d, s)
    BY <1>0, <2>1, BeginDoes DEF CalmStep
  <2>2. CASE NextPass(d, s)
    <3>1. run[d][s].todo = {}
      BY <1>0, <2>2 DEF NextPass, Delivered
    <3> QED
      BY <1>0, <2>2, <3>1, BeginDoes DEF CalmStep
  <2>3. CASE Deliver(d, s)
    BY <1>0, <2>3, DeliverDoes DEF CalmStep
  <2>4. ASSUME NEW o \in Ops, Serve(d, s, o)
        PROVE  CalmStep
    BY <1>0, <2>4, ServeDoes DEF CalmStep
  <2>5. ASSUME NEW p \in Reply(d, s), TakeApplied(d, s, p) \/ TakeConflict(d, s, p) \/ TakeError(d, s, p)
        PROVE  CalmStep
    <3>1. p \in run[d][s].replies /\ p \in Answers(d, s)
      BY <1>0, Replying DEF Answers
    <3>2. p.answer.status # "error" /\ p.answer.version > 0
      BY <1>0, <3>1 DEF Answerable
    <3>3. Applies(d, s, p) \/ Clashes(d, s, p)
      BY <1>0, <2>5, <3>2, ApplyDoes, ClashDoes DEF TakeError
    <3> QED
      BY <3>1, <3>3 DEF CalmStep
  <2> QED
    BY <1>2, <2>1, <2>2, <2>3, <2>4, <2>5 DEF Push
<1>3. ASSUME NEW d \in Devices, NEW s \in Runs, Pull(d, s) \/ Loss(d, s)
      PROVE  CalmStep
  <2>1. ~Loss(d, s)
    BY <1>1 DEF Loss, LosePush, LosePull, ServeFails
  <2> QED
    BY <1>0, <1>3, <2>1, FetchMoves, PageDoes DEF Pull, CalmStep
<1>4. ASSUME NEW d \in Devices, User(d) \/ Crash(d)
      PROVE  CalmStep
  BY <1>0, <1>1, <1>4, UserAdds DEF User, Crash, CalmStep
<1>5. ASSUME NEW o \in Ops, ServeLate(o) \/ BackoffElapses(o)
      PROVE  FALSE
  <2>1. ~ServeLate(o)
    BY <1>0 DEF NoDelay, ServeLate
  <2>2. ASSUME BackoffElapses(o)
        PROVE  FALSE
    <3>1. o \in Made
      BY <1>0, <2>2, MadeItems DEF BackoffElapses, DInv
    <3> QED
      BY <1>0, <2>2, <3>1 DEF BackoffElapses, NoDelay
  <2> QED
    BY <1>5, <2>1, <2>2
<1>6. CASE Dialog
  <2>1. ASSUME NEW o \in Ops, NEW n \in Ops, KeepLocal(o, n)
        PROVE  CalmStep
    BY <1>0, <2>1, DialogAdds DEF CalmStep
  <2> QED
    BY <1>6, <2>1 DEF Dialog, CalmStep
<1> QED
  BY <1>2, <1>3, <1>4, <1>5, <1>6 DEF Next, CalmStep

(***************************************************************************)
(* The first half is kept.                                                 *)
(***************************************************************************)
\* What a run carries, from its fields.
LEMMA Carries ==
  ASSUME DInv, NEW d \in Devices, NEW s \in Runs
  PROVE  /\ Carried(d, s) \subseteq Queued(d) /\ Carried(d, s) \subseteq Made
         /\ run[d][s].phase \in {"push", "results"} =>
              Todo(d, s) = run[d][s].todo /\ Answers(d, s) = run[d][s].replies
         /\ run'[d][s].phase \in {"push", "results"} =>
              Todo(d, s)' = run'[d][s].todo /\ Answers(d, s)' = run'[d][s].replies
         /\ run[d][s].phase \notin {"push", "results"} => Todo(d, s) = {} /\ Answers(d, s) = {} /\ Carried(d, s) = {}
         /\ run'[d][s].phase \notin {"push", "results"} => Todo(d, s)' = {} /\ Answers(d, s)' = {} /\ Carried(d, s)' = {}
         /\ run'[d][s] = run[d][s] => /\ Todo(d, s)' = Todo(d, s) /\ Answers(d, s)' = Answers(d, s)
                                      /\ Carried(d, s)' = Carried(d, s)
BY DEF DInv, RunsTyped, Carried, Todo, Answers, Queued, Made

\* Nothing is carried differently, and the queue stands still.
LEMMA QStill ==
  ASSUME DInv, QInv, queue' = queue, late' = late,
         \A d \in Devices, s \in Runs : Carried(d, s)' = Carried(d, s), Delivered', AnsweredOnce'
  PROVE  QInv'
<1>1. /\ Made' = Made
      /\ \A d \in Devices : Queued(d)' = Queued(d) /\ \A r \in Records : On(d, r)' = On(d, r)
      /\ \A o \in Ops : Live(o)' <=> Live(o)
  BY DEF Made, Queued, On, Live
<1>2. NoDelay' /\ Flying' /\ OnePerRecord' /\ Owned'
  BY <1>1 DEF QInv, NoDelay, Flying, OnePerRecord, Owned
<1>3. Ordered'
  BY <1>1 DEF QInv, Ordered, On, Queued
<1> QED
  BY <1>2, <1>3 DEF QInv

LEMMA QRunsStill ==
  ASSUME DInv, QInv, queue' = queue, late' = late, run' = run
  PROVE  QInv'
<1>1. \A d \in Devices, s \in Runs :
         /\ Carried(d, s)' = Carried(d, s) /\ Todo(d, s)' = Todo(d, s) /\ Answers(d, s)' = Answers(d, s)
  BY Carries
<1>2. Delivered' /\ AnsweredOnce'
  BY <1>1 DEF QInv, Delivered, AnsweredOnce
<1> QED
  BY <1>1, <1>2, QStill

LEMMA QAdded ==
  ASSUME DInv, WInv, QInv, NEW o \in Ops, NEW d \in Devices, NEW r \in Records, Added(o, d, r)
  PROVE  QInv'
<1>1. /\ o \notin Made /\ Made' = Made \cup {o} /\ late' = late /\ run' = run
      /\ \A p \in Ops \ {o} : queue'[p] = queue[p]
      /\ queue'[o].dev = d /\ queue'[o].rec = r /\ queue'[o].status = "pending" /\ queue'[o].waiting = FALSE
      /\ queue'[o].place = Cardinality(Queued(d)) + 1
  BY DEF Added
<1>2. \A e \in Devices, s \in Runs :
         /\ Carried(e, s)' = Carried(e, s) /\ Todo(e, s)' = Todo(e, s) /\ Answers(e, s)' = Answers(e, s)
         /\ Carried(e, s) \subseteq Made
  BY <1>1, Carries
<1>3. Delivered' /\ AnsweredOnce'
  BY <1>1, <1>2 DEF QInv, Delivered, AnsweredOnce
<1>4. \A p \in Made : p \in Ops /\ p # o /\ queue'[p] = queue[p]
  BY <1>1 DEF Made
<1>5. NoDelay' /\ Flying' /\ OnePerRecord'
  BY <1>1, <1>2, <1>4 DEF QInv, NoDelay, Flying, OnePerRecord
<1>6. /\ \A e \in Devices : Queued(e)' \subseteq Queued(e) \cup {o}
      /\ \A e \in Devices, t \in Records : On(e, t)' \subseteq On(e, t) \cup {o}
      /\ \A e \in Devices : Queued(e) \subseteq Made /\ \A t \in Records : On(e, t) \subseteq Queued(e)
  BY <1>1, MoreQueued DEF Queued, On, Made
<1>7. Owned'
  BY <1>1, <1>2, <1>4, <1>6 DEF QInv, Owned
<1>8. Ordered'
  <2> SUFFICES ASSUME NEW e \in Devices, NEW t \in Records, NEW p \in On(e, t)', NEW q \in On(e, t)',
                      queue'[p].status = "in_flight", queue'[q].place < queue'[p].place
               PROVE  ~Live(q)'
    BY DEF Ordered
  <2>1. p # o /\ p \in On(e, t) /\ p \in Queued(e) /\ p \in Made /\ queue'[p] = queue[p]
    BY <1>1, <1>4, <1>6
  <2>2. CASE q = o
    <3>1. e = d
      BY <1>1, <2>2 DEF On, Queued
    <3>2. queue[p].place <= Cardinality(Queued(d))
      BY <2>1, <3>1 DEF WInv, Placed
    <3>3. queue[p].place \in Nat
      BY <2>1, MadeItems DEF DInv, Made, Item
    <3>4. Cardinality(Queued(d)) \in Nat
      <4>1. Queued(d) \subseteq Made /\ IsFiniteSet(Made)
        BY <1>6 DEF DInv, DeviceTyped
      <4> QED
        BY <4>1, FS_Subset, FS_CardinalityType
    <3> QED
      BY <1>1, <2>1, <2>2, <3>2, <3>3, <3>4
  <2>3. CASE q # o
    <3>1. q \in On(e, t) /\ queue'[q] = queue[q]
      BY <1>1, <1>6, <2>3 DEF On, Queued
    <3>2. ~Live(q)
      BY <2>1, <3>1 DEF QInv, Ordered
    <3> QED
      BY <3>1, <3>2 DEF Live
  <2> QED
    BY <2>2, <2>3
<1> QED
  BY <1>3, <1>5, <1>7, <1>8 DEF QInv

\* Only one run moves, and it carries what it carried.
LEMMA QOneRun ==
  ASSUME DInv, QInv, NEW d \in Devices, NEW s \in Runs, OnlyRun(d, s), queue' = queue, late' = late,
         Carried(d, s)' = Carried(d, s),
         run'[d][s].phase = "results" => run'[d][s].todo = {},
         \A p, q \in Answers(d, s)' : p.op \notin Todo(d, s)' /\ (p.op = q.op => p = q)
  PROVE  QInv'
<1>1. \A e \in Devices, t \in Runs : e # d \/ t # s =>
         /\ run'[e][t] = run[e][t]
         /\ Carried(e, t)' = Carried(e, t) /\ Todo(e, t)' = Todo(e, t) /\ Answers(e, t)' = Answers(e, t)
  BY Carries DEF OnlyRun
<1>2. \A e \in Devices, t \in Runs : Carried(e, t)' = Carried(e, t)
  BY <1>1
<1>3. Delivered'
  BY <1>1 DEF QInv, Delivered
<1>4. AnsweredOnce'
  <2> SUFFICES ASSUME NEW e \in Devices, NEW t \in Runs
               PROVE  \A p, q \in Answers(e, t)' : p.op \notin Todo(e, t)' /\ (p.op = q.op => p = q)
    BY DEF AnsweredOnce
  <2>1. CASE e = d /\ t = s
    BY <2>1
  <2>2. CASE e # d \/ t # s
    BY <1>1, <2>2 DEF QInv, AnsweredOnce
  <2> QED
    BY <2>1, <2>2
<1> QED
  BY <1>2, <1>3, <1>4, QStill

LEMMA QServes ==
  ASSUME DInv, QInv, NEW d \in Devices, NEW s \in Runs, NEW o \in Ops, Serves(d, s, o)
  PROVE  QInv'
<1>1. PICK p : /\ OnlyRun(d, s) /\ run[d][s].phase = "push" /\ run'[d][s].phase = "push"
               /\ o \in run[d][s].todo /\ p.op = o
               /\ run'[d][s].todo = run[d][s].todo \ {o}
               /\ run'[d][s].replies = run[d][s].replies \cup {p}
               /\ queue' = queue /\ late' = late
  BY DEF Serves, AnswerComes
<1>2. /\ Todo(d, s) = run[d][s].todo /\ Answers(d, s) = run[d][s].replies
      /\ Todo(d, s)' = run'[d][s].todo /\ Answers(d, s)' = run'[d][s].replies
  BY <1>1, Carries
<1>3. Carried(d, s)' = Carried(d, s)
  BY <1>1, <1>2 DEF Carried
<1>4. \A q, x \in Answers(d, s)' : q.op \notin Todo(d, s)' /\ (q.op = x.op => q = x)
  <2>1. \A q, x \in run[d][s].replies : q.op \notin run[d][s].todo /\ (q.op = x.op => q = x)
    BY <1>2 DEF QInv, AnsweredOnce
  <2> QED
    BY <1>1, <1>2, <2>1
<1> QED
  BY <1>1, <1>3, <1>4, QOneRun

LEMMA QDelivers ==
  ASSUME DInv, QInv, NEW d \in Devices, NEW s \in Runs, Delivers(d, s)
  PROVE  QInv'
<1>1. /\ Todo(d, s) = run[d][s].todo /\ Answers(d, s) = run[d][s].replies
      /\ Todo(d, s)' = run'[d][s].todo /\ Answers(d, s)' = run'[d][s].replies
  BY Carries DEF Delivers
<1>2. Carried(d, s)' = Carried(d, s) /\ Answers(d, s)' = Answers(d, s) /\ Todo(d, s)' = Todo(d, s)
  BY <1>1 DEF Delivers, Carried
<1>3. \A p, q \in Answers(d, s)' : p.op \notin Todo(d, s)' /\ (p.op = q.op => p = q)
  BY <1>2 DEF QInv, AnsweredOnce
<1> QED
  BY <1>2, <1>3, QOneRun DEF Delivers

LEMMA QPulls ==
  ASSUME DInv, QInv, NEW d \in Devices, NEW s \in Runs,
         PullBegins(d, s) \/ Fetches(d, s) \/ PageApplied(d, s)
  PROVE  QInv'
<1>1. /\ OnlyRun(d, s) /\ queue' = queue /\ late' = late
      /\ run'[d][s].phase \notin {"push", "results"}
  BY DEF PullBegins, Fetches, PageApplied, Pulling, Idle
<1>2. Carried(d, s) = {}
  BY Carries DEF PullBegins, Fetches, PageApplied
<1>3. Carried(d, s)' = {} /\ Answers(d, s)' = {}
  BY <1>1, Carries
<1> QED
  BY <1>1, <1>2, <1>3, QOneRun

\* A pass sends the oldest live operation of each record.
LEMMA QPushBegins ==
  ASSUME Calm, DInv, WInv, QInv, NEW d \in Devices, NEW s \in Runs, PushBegins(d, s)
  PROVE  QInv'
<1>1. /\ Carried(d, s) = {} /\ OnlyRun(d, s)
      /\ run'[d][s].phase = "push" /\ run'[d][s].todo = Due(d) /\ run'[d][s].replies = {}
      /\ Relabelled /\ \A o \in Due(d) : queue'[o].status = "in_flight"
      /\ \A o \in Made : queue'[o].waiting = queue[o].waiting
      /\ \A o \in Ops \ Due(d) : queue'[o] = queue[o]
      /\ late' = late
  BY DEF PushBegins
<1>2. Todo(d, s)' = Due(d) /\ Answers(d, s)' = {} /\ Carried(d, s)' = Due(d)
  BY <1>1, Carries DEF Carried
<1>3. \A e \in Devices, t \in Runs : e # d =>
         /\ run'[e][t] = run[e][t] /\ Carried(e, t) \subseteq Queued(e)
         /\ Carried(e, t)' = Carried(e, t) /\ Todo(e, t)' = Todo(e, t) /\ Answers(e, t)' = Answers(e, t)
  BY <1>1, Carries DEF OnlyRun
<1>4. \A t \in Runs : t = s
  BY DEF Calm
<1>5. /\ Made' = Made /\ \A e \in Devices : Queued(e)' = Queued(e) /\ Queued(e) \subseteq Made
      /\ \A e \in Devices, r \in Records : On(e, r)' = On(e, r) /\ On(e, r) \subseteq Queued(e)
      /\ \A o \in Made : queue'[o].rec = queue[o].rec /\ queue'[o].place = queue[o].place
      /\ Made \subseteq Ops
  BY <1>1, SameQueues DEF DInv, Relabelled, SameItem, Queued, On, Made
<1>6. Due(d) \subseteq Queued(d) /\ \A e \in Devices : e # d => \A o \in Queued(e) : o \notin Due(d)
  BY DEF Due, Queued
<1>7. \A o, p \in Due(d) : queue[o].rec = queue[p].rec => o = p
  <2> SUFFICES ASSUME NEW o \in Due(d), NEW p \in Due(d), queue[o].rec = queue[p].rec
               PROVE  o = p
    OBVIOUS
  <2>1. queue[o].place <= queue[p].place /\ queue[p].place <= queue[o].place
    BY DEF Due
  <2>2. queue[o].place \in Nat /\ queue[p].place \in Nat
    BY <1>5, <1>6, MadeItems DEF DInv, Made, Item
  <2> QED
    BY <1>6, <2>1, <2>2 DEF WInv, Placed
<1>8. NoDelay'
  BY <1>1, <1>5 DEF QInv, NoDelay
<1>9. Delivered'
  BY <1>1, <1>3, <1>4 DEF QInv, Delivered
<1>10. AnsweredOnce'
  BY <1>2, <1>3, <1>4 DEF QInv, AnsweredOnce
<1>11. Flying'
  <2> SUFFICES ASSUME NEW e \in Devices, NEW t \in Runs, NEW o \in Carried(e, t)'
               PROVE  queue'[o].status = "in_flight"
    BY DEF Flying
  <2>1. CASE e = d
    BY <1>1, <1>2, <1>4, <2>1
  <2>2. CASE e # d
    <3>1. o \in Carried(e, t) /\ o \in Queued(e) /\ o \in Ops \ Due(d)
      BY <1>3, <1>5, <1>6, <2>2
    <3> QED
      BY <1>1, <3>1 DEF QInv, Flying
  <2> QED
    BY <2>1, <2>2
<1>12. OnePerRecord'
  <2> SUFFICES ASSUME NEW e \in Devices, NEW t \in Runs, NEW o \in Carried(e, t)', NEW p \in Carried(e, t)',
                      queue'[o].rec = queue'[p].rec
               PROVE  o = p
    BY DEF OnePerRecord
  <2>1. CASE e = d
    <3>1. o \in Due(d) /\ p \in Due(d) /\ o \in Made /\ p \in Made
      BY <1>2, <1>4, <1>5, <1>6, <2>1
    <3> QED
      BY <1>5, <1>7, <3>1
  <2>2. CASE e # d
    <3>1. o \in Carried(e, t) /\ p \in Carried(e, t) /\ o \in Made /\ p \in Made
      BY <1>3, <1>5, <2>2
    <3> QED
      BY <1>5, <3>1 DEF QInv, OnePerRecord
  <2> QED
    BY <2>1, <2>2
<1>13. Owned'
  <2> SUFFICES ASSUME NEW e \in Devices, NEW t \in Runs, NEW o \in Queued(e), queue'[o].status = "in_flight"
               PROVE  o \in Carried(e, t)'
    BY <1>5 DEF Owned
  <2>1. CASE e = d
    <3>1. CASE o \in Due(d)
      BY <1>2, <1>4, <2>1, <3>1
    <3>2. CASE o \notin Due(d)
      <4>1. queue[o].status = "in_flight"
        BY <1>1, <1>5, <3>2
      <4> QED
        BY <1>1, <2>1, <4>1 DEF QInv, Owned
    <3> QED
      BY <3>1, <3>2
  <2>2. CASE e # d
    <3>1. queue'[o] = queue[o]
      BY <1>1, <1>5, <1>6, <2>2
    <3> QED
      BY <1>3, <2>2, <3>1 DEF QInv, Owned
  <2> QED
    BY <2>1, <2>2
<1>14. Ordered'
  <2> SUFFICES ASSUME NEW e \in Devices, NEW r \in Records, NEW o \in On(e, r), NEW p \in On(e, r),
                      queue'[o].status = "in_flight", queue'[p].place < queue'[o].place
               PROVE  ~Live(p)'
    BY <1>5 DEF Ordered
  <2>0. o \in Made /\ p \in Made /\ o \in Queued(e) /\ p \in Queued(e) /\ queue[p].place < queue[o].place
    BY <1>5
  <2>1. CASE e = d
    <3>1. \A q \in Queued(d) : queue[q].status # "in_flight"
      BY <1>1 DEF QInv, Owned
    <3>2. o \in Due(d)
      BY <1>1, <2>0, <2>1, <3>1, <1>5
    <3>3. ~(queue[p].status = "pending" /\ ~queue[p].waiting)
      <4>1. queue[o].place \in Nat /\ queue[p].place \in Nat
        BY <2>0, MadeItems DEF DInv, Made, Item
      <4>2. queue[p].rec = queue[o].rec
        BY DEF On
      <4> QED
        BY <2>0, <2>1, <3>2, <4>1, <4>2 DEF Due
    <3>4. queue[p].status # "pending"
      BY <2>0, <3>3 DEF QInv, NoDelay
    <3>5. p \notin Due(d)
      BY <3>4 DEF Due
    <3>6. queue'[p] = queue[p]
      BY <1>1, <1>5, <2>0, <3>5
    <3> QED
      BY <2>0, <2>1, <3>1, <3>4, <3>6 DEF Live
  <2>2. CASE e # d
    <3>1. queue'[o] = queue[o] /\ queue'[p] = queue[p]
      BY <1>1, <1>5, <1>6, <2>0, <2>2
    <3> QED
      BY <3>1 DEF QInv, Ordered, Live
  <2> QED
    BY <2>1, <2>2
<1> QED
  BY <1>8, <1>9, <1>10, <1>11, <1>12, <1>13, <1>14 DEF QInv

\* An answer is taken: of what the run carries, its operation alone leaves
\* the queue.
LEMMA QTakes ==
  ASSUME Calm, DInv, QInv, NEW d \in Devices, NEW s \in Runs, NEW p \in run[d][s].replies,
         NEW os, NEW st, Takes(d, s, p, os, st), os \subseteq Queued(d), Carried(d, s) \cap os = {p.op}
  PROVE  QInv'
<1>1. /\ OnlyRun(d, s) /\ run[d][s].phase = "results" /\ run'[d][s].phase = "results"
      /\ run'[d][s].todo = run[d][s].todo /\ run'[d][s].replies = run[d][s].replies \ {p}
      /\ st \in {"done", "failed"} /\ os \subseteq Made
      /\ Relabelled /\ \A o \in os : queue'[o].status = st
      /\ \A o \in Made : queue'[o].waiting = queue[o].waiting
      /\ \A o \in Ops \ os : queue'[o] = queue[o]
      /\ late' = late
  BY DEF Takes
<1>2. /\ Todo(d, s) = run[d][s].todo /\ Answers(d, s) = run[d][s].replies
      /\ Todo(d, s)' = run'[d][s].todo /\ Answers(d, s)' = run'[d][s].replies
  BY <1>1, Carries
<1>3. run[d][s].todo = {}
  BY <1>1 DEF QInv, Delivered
<1>4. Carried(d, s)' = Carried(d, s) \ {p.op}
  <2>1. \A q \in run[d][s].replies : q.op = p.op => q = p
    BY <1>2 DEF QInv, AnsweredOnce
  <2> QED
    BY <1>1, <1>2, <1>3, <2>1 DEF Carried
<1>5. \A e \in Devices, t \in Runs : e # d =>
         /\ run'[e][t] = run[e][t] /\ Carried(e, t) \subseteq Queued(e)
         /\ Carried(e, t)' = Carried(e, t) /\ Todo(e, t)' = Todo(e, t) /\ Answers(e, t)' = Answers(e, t)
  BY <1>1, Carries DEF OnlyRun
<1>6. \A t \in Runs : t = s
  BY DEF Calm
<1>7. /\ Made' = Made /\ \A e \in Devices : Queued(e)' = Queued(e) /\ Queued(e) \subseteq Made
      /\ \A e \in Devices, r \in Records : On(e, r)' = On(e, r) /\ On(e, r) \subseteq Queued(e)
      /\ \A o \in Made : queue'[o].rec = queue[o].rec /\ queue'[o].place = queue[o].place
      /\ Made \subseteq Ops
  BY <1>1, SameQueues DEF DInv, Relabelled, SameItem, Queued, On, Made
<1>8. \A e \in Devices : e # d => \A o \in Queued(e) : o \notin os
  BY DEF Queued
<1>9. Carried(d, s) \subseteq Queued(d)
  BY Carries
<1>10. NoDelay'
  BY <1>1, <1>7 DEF QInv, NoDelay
<1>11. Delivered'
  BY <1>1, <1>3, <1>5, <1>6 DEF QInv, Delivered
<1>12. AnsweredOnce'
  <2> SUFFICES ASSUME NEW e \in Devices, NEW t \in Runs
               PROVE  \A x, y \in Answers(e, t)' : x.op \notin Todo(e, t)' /\ (x.op = y.op => x = y)
    BY DEF AnsweredOnce
  <2>1. CASE e = d
    BY <1>1, <1>2, <1>6, <2>1 DEF QInv, AnsweredOnce
  <2>2. CASE e # d
    BY <1>5, <2>2 DEF QInv, AnsweredOnce
  <2> QED
    BY <2>1, <2>2
<1>13. Flying'
  <2> SUFFICES ASSUME NEW e \in Devices, NEW t \in Runs, NEW o \in Carried(e, t)'
               PROVE  queue'[o].status = "in_flight"
    BY DEF Flying
  <2>1. o \in Carried(e, t) /\ o \notin os /\ o \in Ops
    BY <1>4, <1>5, <1>6, <1>7, <1>8, <1>9
  <2> QED
    BY <1>1, <2>1 DEF QInv, Flying
<1>14. \A e \in Devices, t \in Runs : Carried(e, t)' \subseteq Carried(e, t) /\ Carried(e, t) \subseteq Made
  BY <1>4, <1>5, <1>6, <1>7, <1>9
<1>15. OnePerRecord'
  <2> SUFFICES ASSUME NEW e \in Devices, NEW t \in Runs, NEW o \in Carried(e, t)', NEW x \in Carried(e, t)',
                      queue'[o].rec = queue'[x].rec
               PROVE  o = x
    BY DEF OnePerRecord
  <2>1. o \in Carried(e, t) /\ x \in Carried(e, t) /\ o \in Made /\ x \in Made
    BY <1>14
  <2> QED
    BY <1>7, <2>1 DEF QInv, OnePerRecord
<1>16. \A o \in Made : queue'[o].status = "in_flight" => queue'[o] = queue[o] /\ o \notin os
  BY <1>1, <1>7
<1>17. Owned'
  <2> SUFFICES ASSUME NEW e \in Devices, NEW t \in Runs, NEW o \in Queued(e), queue'[o].status = "in_flight"
               PROVE  o \in Carried(e, t)'
    BY <1>7 DEF Owned
  <2>1. queue[o].status = "in_flight" /\ o \notin os
    BY <1>7, <1>16
  <2>2. o \in Carried(e, t)
    BY <2>1 DEF QInv, Owned
  <2>3. CASE e = d
    BY <1>4, <1>6, <2>1, <2>2, <2>3
  <2>4. CASE e # d
    BY <1>5, <2>2, <2>4
  <2> QED
    BY <2>3, <2>4
<1>18. Ordered'
  <2> SUFFICES ASSUME NEW e \in Devices, NEW r \in Records, NEW o \in On(e, r), NEW x \in On(e, r),
                      queue'[o].status = "in_flight", queue'[x].place < queue'[o].place
               PROVE  ~Live(x)'
    BY <1>7 DEF Ordered
  <2>1. o \in Made /\ x \in Made
    BY <1>7
  <2>2. queue[o].status = "in_flight" /\ queue[x].place < queue[o].place
    BY <1>7, <1>16, <2>1
  <2>3. ~Live(x)
    BY <2>2 DEF QInv, Ordered
  <2>4. queue'[x] = queue[x] \/ queue'[x].status = st
    BY <1>1, <1>7, <2>1
  <2> QED
    BY <1>1, <2>3, <2>4 DEF Live
<1> QED
  BY <1>10, <1>11, <1>12, <1>13, <1>15, <1>17, <1>18 DEF QInv

LEMMA QResults ==
  ASSUME Calm, DInv, QInv, NEW d \in Devices, NEW s \in Runs, NEW p \in run[d][s].replies,
         Applies(d, s, p) \/ Clashes(d, s, p)
  PROVE  QInv'
<1>1. run[d][s].phase = "results" /\ p.op \in Queued(d) /\ p.op \in Carried(d, s)
  BY Carries DEF Applies, Clashes, Takes, Carried
<1>2. CASE Applies(d, s, p)
  <2> DEFINE os == {p.op}
  <2>1. os \subseteq Queued(d) /\ Carried(d, s) \cap os = {p.op} /\ Takes(d, s, p, os, "done")
    BY <1>1, <1>2 DEF Applies
  <2> HIDE DEF os
  <2> QED
    BY <2>1, QTakes
<1>3. CASE Clashes(d, s, p)
  <2> DEFINE os == LiveOn(d, queue[p.op].rec)
  <2>1. os \subseteq Queued(d) /\ Takes(d, s, p, os, "failed")
    BY <1>3 DEF Clashes, LiveOn, On
  <2>2. queue[p.op].status = "in_flight"
    BY <1>1 DEF QInv, Flying
  <2>3. p.op \in os
    BY <1>1, <2>2 DEF LiveOn, On, Live
  <2>4. \A o \in Carried(d, s) : o \in os => o = p.op
    BY <1>1 DEF QInv, OnePerRecord, LiveOn, On
  <2> HIDE DEF os
  <2>5. Carried(d, s) \cap os = {p.op}
    BY <1>1, <2>3, <2>4
  <2> QED
    BY <2>1, <2>5, QTakes
<1> QED
  BY <1>2, <1>3

LEMMA QKept ==
  ASSUME Calm, CalmInv, CalmStep
  PROVE  QInv'
<1>0. DInv /\ WInv /\ QInv
  BY DEF CalmInv
<1>1. ASSUME NEW o \in Ops, KeepServer(o)
      PROVE  QInv'
  BY <1>0, <1>1, QRunsStill DEF KeepServer, server
<1>2. ASSUME NEW r \in Records, GenerateReport(r) \/ WebDelete(r)
      PROVE  QInv'
  BY <1>0, <1>2, QRunsStill DEF GenerateReport, WebDelete
<1>3. CASE UNCHANGED vars
  BY <1>0, <1>3, QRunsStill DEF vars, server
<1> QED
  BY <1>0, <1>1, <1>2, <1>3, QAdded, QPulls, QPushBegins, QDelivers, QServes, QResults DEF CalmStep

(***************************************************************************)
(* The second half is kept.                                                *)
(***************************************************************************)
\* Rows stay, and operations stay on their records.
LEMMA Stays ==
  ASSUME DInv, [Next]_vars
  PROVE  /\ \A r \in Records : Exists(rows[r]) => Exists(rows'[r])
         /\ \A o \in Made : /\ o \in Made' /\ queue[o].rec \in Records
                            /\ queue'[o].rec = queue[o].rec /\ queue'[o].kind = queue[o].kind
                            /\ queue'[o].dev = queue[o].dev /\ queue'[o].place = queue[o].place
<1>1. CASE Relabelled
  BY <1>1, MadeItems, ServerMoves DEF DInv, Relabelled, SameItem, Made
<1>2. ASSUME NEW o \in Ops, NEW d \in Devices, NEW r \in Records, Added(o, d, r)
      PROVE  \A p \in Made : p \in Made' /\ queue'[p] = queue[p]
  BY <1>2 DEF Added, Made
<1> QED
  BY <1>1, <1>2, QueueSteps, MadeItems, ServerMoves DEF DInv, Made

\* An operation that creates a row or finds one is answered, with a version.
LEMMA AnswerSound ==
  ASSUME NEW row \in Row, NEW q \in Request, q.kind = "create" \/ Exists(row)
  PROVE  /\ Answer(row, q).status # "error" /\ Answer(row, q).version > 0
         /\ Exists(RowAfter(row, q))
<1>1. Exists(RowAfter(row, q))
  <2>1. CASE Exists(row)
    BY <2>1, WrittenRow
  <2>2. CASE ~Exists(row)
    BY <2>2, WrittenRow DEF Writes
  <2> QED
    BY <2>1, <2>2
<1>2. Status(row, q) # "error"
  <2>1. CASE q.kind = "create"
    BY <2>1 DEF Status
  <2>2. CASE q.kind # "create"
    BY <2>2 DEF Status
  <2> QED
    BY <2>1, <2>2
<1>3. Answer(row, q).status = Status(row, q)
  BY DEF Answer
<1>4. Answer(row, q).version = RowAfter(row, q).version
  BY <1>2 DEF Answer
<1> QED
  BY <1>1, <1>2, <1>3, <1>4 DEF Exists

\* Whatever is served creates a row or finds one.
LEMMA ServedSound ==
  ASSUME CalmInv, NEW d \in Devices, NEW s \in Runs, NEW o \in Ops, Serves(d, s, o)
  PROVE  \/ /\ Performed(o) /\ queue[o].rec \in Records /\ Exists(rows'[queue[o].rec])
            /\ Answer(rows[queue[o].rec], Sent(o)).status # "error"
            /\ Answer(rows[queue[o].rec], Sent(o)).version > 0
            /\ AnswerComes(d, s, o, Answer(rows[queue[o].rec], Sent(o)))
         \/ ledger[o] # NoEntry /\ ServerStill /\ AnswerComes(d, s, o, Replay(ledger[o]))
<1>0. DInv /\ QInv /\ KInv
  BY DEF CalmInv
<1> SUFFICES ASSUME Performed(o), AnswerComes(d, s, o, Answer(rows[queue[o].rec], Sent(o)))
             PROVE  /\ queue[o].rec \in Records /\ Exists(rows'[queue[o].rec])
                    /\ Answer(rows[queue[o].rec], Sent(o)).status # "error"
                    /\ Answer(rows[queue[o].rec], Sent(o)).version > 0
  BY DEF Serves
<1> DEFINE r == queue[o].rec
<1>1. o \in Made /\ r \in Records /\ rows'[r] = RowAfter(rows[r], Sent(o)) /\ rows[r] \in Row
  BY <1>0 DEF Performed, DInv, ServerTyped
<1>2. Sent(o) \in Request /\ Sent(o).kind = queue[o].kind
  BY <1>0, <1>1, MadeItems DEF DInv, Made, Sent
<1>3. o \in Carried(d, s)
  BY DEF AnswerComes, Carried, Todo
<1>4. queue[o].kind = "create" \/ Exists(rows[r])
  BY <1>0, <1>1, <1>3 DEF QInv, Flying, KInv, Landed
<1> QED
  BY <1>1, <1>2, <1>4, AnswerSound

\* What the calm steps leave alone.
LEMMA CalmFrames ==
  /\ \A o \in Ops : KeepServer(o) => queue' = queue /\ ledger' = ledger
  /\ \A o \in Ops, d \in Devices, r \in Records : Added(o, d, r) => ledger' = ledger
  /\ \A d \in Devices, s \in Runs :
        /\ PullBegins(d, s) \/ Delivers(d, s) \/ Fetches(d, s) \/ PageApplied(d, s) =>
              queue' = queue /\ conflicts' = conflicts /\ ledger' = ledger
        /\ PushBegins(d, s) => conflicts' = conflicts /\ ledger' = ledger
        /\ \A o \in Ops : Serves(d, s, o) => queue' = queue /\ conflicts' = conflicts
        /\ \A p \in run[d][s].replies : /\ Applies(d, s, p) => conflicts' = conflicts /\ ledger' = ledger
                                       /\ Clashes(d, s, p) => ledger' = ledger
  /\ \A r \in Records : GenerateReport(r) \/ WebDelete(r) =>
        queue' = queue /\ conflicts' = conflicts /\ ledger' = ledger
  /\ UNCHANGED vars => queue' = queue /\ conflicts' = conflicts /\ ledger' = ledger
<1>1. \A o \in Ops : KeepServer(o) => queue' = queue /\ ledger' = ledger
  BY DEF KeepServer, server
<1>2. \A o \in Ops, d \in Devices, r \in Records : Added(o, d, r) => ledger' = ledger
  BY DEF Added, server
<1>3. ASSUME NEW d \in Devices, NEW s \in Runs
      PROVE  /\ PullBegins(d, s) => queue' = queue /\ conflicts' = conflicts /\ ledger' = ledger
             /\ PageApplied(d, s) => queue' = queue /\ conflicts' = conflicts /\ ledger' = ledger
             /\ PushBegins(d, s) => conflicts' = conflicts /\ ledger' = ledger
  BY DEF PullBegins, PushBegins, PageApplied
<1>4. ASSUME NEW d \in Devices, NEW s \in Runs
      PROVE  /\ Delivers(d, s) => queue' = queue /\ conflicts' = conflicts /\ ledger' = ledger
             /\ Fetches(d, s) => queue' = queue /\ conflicts' = conflicts /\ ledger' = ledger
  BY DEF Delivers, Fetches
<1>5. ASSUME NEW d \in Devices, NEW s \in Runs, NEW o \in Ops, Serves(d, s, o)
      PROVE  queue' = queue /\ conflicts' = conflicts
  BY <1>5 DEF Serves
<1>6. ASSUME NEW d \in Devices, NEW s \in Runs, NEW p \in run[d][s].replies
      PROVE  /\ Applies(d, s, p) => conflicts' = conflicts /\ ledger' = ledger
             /\ Clashes(d, s, p) => ledger' = ledger
  BY DEF Applies, Clashes, Takes
<1>7. \A r \in Records : GenerateReport(r) \/ WebDelete(r) =>
        queue' = queue /\ conflicts' = conflicts /\ ledger' = ledger
  BY DEF GenerateReport, WebDelete
<1>8. UNCHANGED vars => queue' = queue /\ conflicts' = conflicts /\ ledger' = ledger
  BY DEF vars, server
<1> QED
  BY <1>1, <1>2, <1>3, <1>4, <1>5, <1>6, <1>7, <1>8

\* Only serving moves the ledger; conflicts move in three ways.
LEMMA CalmLedger ==
  ASSUME CalmStep
  PROVE  ledger' = ledger \/ \E d \in Devices, s \in Runs, o \in Ops : Serves(d, s, o)
<1>1. ASSUME NEW d \in Devices, NEW s \in Runs,
             \/ PullBegins(d, s) \/ PushBegins(d, s) \/ Delivers(d, s) \/ Fetches(d, s) \/ PageApplied(d, s)
             \/ \E p \in run[d][s].replies : Applies(d, s, p) \/ Clashes(d, s, p)
      PROVE  ledger' = ledger
  <2>1. ASSUME NEW p \in run[d][s].replies, Applies(d, s, p) \/ Clashes(d, s, p)
        PROVE  ledger' = ledger
    BY <2>1 DEF Applies, Clashes, Takes
  <2>2. CASE PullBegins(d, s) \/ PushBegins(d, s) \/ PageApplied(d, s)
    BY <2>2 DEF PullBegins, PushBegins, PageApplied
  <2>3. CASE Delivers(d, s) \/ Fetches(d, s)
    BY <2>3 DEF Delivers, Fetches
  <2> QED
    BY <1>1, <2>1, <2>2, <2>3
<1>2. ASSUME \/ \E o \in Ops : KeepServer(o) \/ \E d \in Devices, r \in Records : Added(o, d, r)
             \/ \E r \in Records : GenerateReport(r) \/ WebDelete(r)
             \/ UNCHANGED vars
      PROVE  ledger' = ledger
  BY <1>2, CalmFrames
<1> QED
  BY <1>1, <1>2 DEF CalmStep

LEMMA CalmConflicts ==
  ASSUME CalmStep
  PROVE  \/ conflicts' = conflicts
         \/ \E o \in Ops : KeepServer(o) \/ \E d \in Devices, r \in Records : Added(o, d, r)
         \/ \E d \in Devices, s \in Runs : \E p \in run[d][s].replies : Clashes(d, s, p)
<1>1. ASSUME NEW d \in Devices, NEW s \in Runs,
             \/ PullBegins(d, s) \/ PushBegins(d, s) \/ Delivers(d, s) \/ Fetches(d, s) \/ PageApplied(d, s)
             \/ \E o \in Ops : Serves(d, s, o)
             \/ \E p \in run[d][s].replies : Applies(d, s, p)
      PROVE  conflicts' = conflicts
  <2>1. ASSUME NEW p \in run[d][s].replies, Applies(d, s, p)
        PROVE  conflicts' = conflicts
    BY <2>1 DEF Applies
  <2>2. CASE PullBegins(d, s) \/ PushBegins(d, s) \/ PageApplied(d, s)
    BY <2>2 DEF PullBegins, PushBegins, PageApplied
  <2>3. CASE Delivers(d, s) \/ Fetches(d, s)
    BY <2>3 DEF Delivers, Fetches
  <2>4. ASSUME NEW o \in Ops, Serves(d, s, o)
        PROVE  conflicts' = conflicts
    BY <2>4 DEF Serves
  <2> QED
    BY <1>1, <2>1, <2>2, <2>3, <2>4
<1>2. ASSUME (\E r \in Records : GenerateReport(r) \/ WebDelete(r)) \/ UNCHANGED vars
      PROVE  conflicts' = conflicts
  BY <1>2, CalmFrames
<1> QED
  BY <1>1, <1>2 DEF CalmStep

LEMMA LedgerSoundKept ==
  ASSUME Calm, CalmInv, CalmStep, [Next]_vars
  PROVE  LedgerSound'
<1>0. DInv /\ LedgerSound
  BY DEF CalmInv, KInv
<1> SUFFICES ASSUME NEW o \in Ops, ledger'[o] # NoEntry
             PROVE  /\ o \in Made' /\ ledger'[o].status # "error" /\ ledger'[o].version > 0
                    /\ Exists(rows'[queue'[o].rec])
  BY DEF LedgerSound, Exists, Made
<1>1. CASE ledger'[o] = ledger[o]
  BY <1>0, <1>1, Stays DEF LedgerSound
<1>2. ASSUME NEW d \in Devices, NEW s \in Runs, NEW p \in Ops, Serves(d, s, p)
      PROVE  /\ o \in Made' /\ ledger'[o].status # "error" /\ ledger'[o].version > 0
             /\ Exists(rows'[queue'[o].rec])
  <2>1. CASE ledger'[o] # ledger[o]
    <3>1. p = o /\ Performed(o) /\ Exists(rows'[queue[o].rec])
          /\ Answer(rows[queue[o].rec], Sent(o)).status # "error"
          /\ Answer(rows[queue[o].rec], Sent(o)).version > 0
      BY <1>2, <2>1, ServedSound DEF ServerStill, Performed
    <3>2. ledger'[o] = Recorded(Answer(rows[queue[o].rec], Sent(o))) /\ o \in Made
      BY <3>1 DEF Performed
    <3>3. ledger'[o].status # "error" /\ ledger'[o].version > 0
      BY <3>1, <3>2 DEF Recorded
    <3> QED
      BY <1>0, <3>1, <3>2, <3>3, Stays
  <2> QED
    BY <1>1, <2>1
<1>3. CASE ~ \E d \in Devices, s \in Runs, p \in Ops : Serves(d, s, p)
  <2>1. ledger' = ledger
    BY <1>3, CalmLedger
  <2> QED
    BY <1>1, <2>1
<1> QED
  BY <1>2, <1>3

LEMMA AnswerableKept ==
  ASSUME Calm, CalmInv, CalmStep, [Next]_vars
  PROVE  Answerable'
<1>0. DInv /\ Answerable /\ LedgerSound
  BY DEF CalmInv, KInv
<1> SUFFICES ASSUME NEW d \in Devices, NEW s \in Runs, NEW p \in Answers(d, s)'
             PROVE  /\ p.answer.status # "error" /\ p.answer.version > 0
                    /\ Exists(rows'[queue'[p.op].rec])
  BY DEF Answerable, Exists
<1>1. CASE p \in Answers(d, s)
  <2>1. p.op \in Made
    BY <1>0, <1>1, Carries DEF Carried
  <2> QED
    BY <1>0, <1>1, <2>1, Stays DEF Answerable
<1>2. ASSUME NEW e \in Devices, NEW t \in Runs, OnlyRun(e, t)
      PROVE  p \in Answers(d, s) \/ (d = e /\ s = t)
  BY <1>0, <1>2, Carries DEF OnlyRun
<1>3. ASSUME run' = run
      PROVE  p \in Answers(d, s)
  BY <1>0, <1>3, Carries
<1>4. ASSUME NEW e \in Devices, NEW t \in Runs,
             PullBegins(e, t) \/ PushBegins(e, t) \/ Fetches(e, t) \/ PageApplied(e, t)
      PROVE  p \in Answers(d, s)
  <2>1. OnlyRun(e, t) /\ (run'[e][t].phase \in {"pull", "page", "idle"} \/
                            (run'[e][t].phase = "push" /\ run'[e][t].replies = {}))
    BY <1>4 DEF PullBegins, PushBegins, Fetches, PageApplied, Pulling, Idle
  <2>2. CASE d = e /\ s = t
    <3>1. Answers(d, s)' = {}
      BY <1>0, <2>1, <2>2, Carries
    <3> QED
      BY <3>1
  <2> QED
    BY <1>2, <2>1, <2>2
<1>5. ASSUME NEW e \in Devices, NEW t \in Runs, Delivers(e, t)
      PROVE  p \in Answers(d, s)
  <2>1. CASE d = e /\ s = t
    BY <1>0, <1>5, <2>1, Carries DEF Delivers
  <2> QED
    BY <1>2, <1>5, <2>1 DEF Delivers
<1>6. ASSUME NEW e \in Devices, NEW t \in Runs, NEW q \in run[e][t].replies,
             Applies(e, t, q) \/ Clashes(e, t, q)
      PROVE  p \in Answers(d, s)
  <2>1. OnlyRun(e, t) /\ run[e][t].phase = "results" /\ run'[e][t].phase = "results"
        /\ run'[e][t].replies = run[e][t].replies \ {q}
    BY <1>6 DEF Applies, Clashes, Takes
  <2>2. CASE d = e /\ s = t
    BY <1>0, <2>1, <2>2, Carries
  <2> QED
    BY <1>2, <2>1, <2>2
<1>7. ASSUME NEW e \in Devices, NEW t \in Runs, NEW o \in Ops, Serves(e, t, o)
      PROVE  /\ p.answer.status # "error" /\ p.answer.version > 0
             /\ Exists(rows'[queue'[p.op].rec])
  <2>1. PICK a : /\ AnswerComes(e, t, o, a) /\ a.status # "error" /\ a.version > 0
                 /\ Exists(rows'[queue'[o].rec])
    <3>1. o \in Made /\ queue' = queue
      BY <1>7 DEF Serves
    <3>2. CASE ledger[o] # NoEntry /\ ServerStill /\ AnswerComes(e, t, o, Replay(ledger[o]))
      <4>1. Replay(ledger[o]).status # "error" /\ Replay(ledger[o]).version > 0
        BY <1>0, <3>2 DEF LedgerSound, Replay
      <4>2. Exists(rows'[queue'[o].rec])
        BY <1>0, <3>1, <3>2 DEF LedgerSound, ServerStill
      <4> QED
        BY <3>2, <4>1, <4>2
    <3> QED
      BY <1>7, <3>1, <3>2, ServedSound
  <2>2. CASE d = e /\ s = t /\ p \notin Answers(d, s)
    <3>1. Answers(d, s) = run[d][s].replies /\ Answers(d, s)' = run'[d][s].replies
      BY <1>0, <2>1, <2>2, Carries DEF AnswerComes
    <3>2. p.op = o /\ p.answer = a
      BY <2>1, <2>2, <3>1 DEF AnswerComes
    <3> QED
      BY <2>1, <3>2
  <2> QED
    BY <1>1, <1>2, <2>1, <2>2 DEF AnswerComes
<1>8. ASSUME NEW o \in Ops, KeepServer(o)
      PROVE  run' = run
  BY <1>8 DEF KeepServer
<1> QED
  BY <1>1, <1>3, <1>4, <1>5, <1>6, <1>7, <1>8 DEF CalmStep, Added, GenerateReport, WebDelete, vars

LEMMA ConflictsSoundKept ==
  ASSUME Calm, CalmInv, CalmStep, [Next]_vars
  PROVE  ConflictsSound'
<1>0. DInv /\ ConflictsSound /\ Answerable
  BY DEF CalmInv, KInv
<1> SUFFICES ASSUME NEW o \in Ops, conflicts'[o] # NoConflict
             PROVE  Exists(rows'[queue'[o].rec])
  BY DEF ConflictsSound, Exists
<1>1. CASE conflicts[o] # NoConflict
  BY <1>0, <1>1, Stays DEF ConflictsSound, DInv, DeviceTyped
<1>2. ASSUME NEW d \in Devices, NEW s \in Runs, NEW p \in run[d][s].replies, Clashes(d, s, p),
             conflicts[o] = NoConflict
      PROVE  Exists(rows'[queue'[o].rec])
  <2>1. o = p.op /\ p.op \in Made /\ p \in Answers(d, s)
    BY <1>2 DEF Clashes, Takes, Answers
  <2>2. Exists(rows[queue[o].rec])
    BY <1>0, <2>1 DEF Answerable
  <2> QED
    BY <1>0, <2>1, <2>2, Stays
<1>3. ASSUME NEW p \in Ops, KeepServer(p)
      PROVE  conflicts[o] # NoConflict
  BY <1>0, <1>3, OpenConflict DEF KeepServer
<1>4. ASSUME NEW p \in Ops, NEW d \in Devices, NEW r \in Records, Added(p, d, r)
      PROVE  conflicts[o] # NoConflict
  BY <1>4 DEF Added
<1>5. CASE conflicts' = conflicts
  BY <1>1, <1>5
<1> QED
  BY <1>1, <1>2, <1>3, <1>4, <1>5, CalmConflicts

LEMMA LandedKept ==
  ASSUME Calm, CalmInv, CalmStep, [Next]_vars
  PROVE  Landed'
<1>0. DInv /\ QInv /\ Landed /\ Grounded
  BY DEF CalmInv, KInv
<1> SUFFICES ASSUME NEW o \in Made', queue'[o].status = "in_flight", queue'[o].kind # "create"
             PROVE  Exists(rows'[queue'[o].rec])
  BY DEF Landed, Exists
<1>1. CASE o \in Made /\ queue[o].status = "in_flight"
  BY <1>0, <1>1, Stays DEF Landed
<1>2. CASE queue' = queue
  BY <1>1, <1>2 DEF Made
<1>3. ASSUME NEW p \in Ops, NEW d \in Devices, NEW r \in Records, Added(p, d, r)
      PROVE  o \in Made /\ queue[o].status = "in_flight"
  BY <1>3 DEF Added, Made
<1>4. ASSUME NEW d \in Devices, NEW s \in Runs, NEW p \in run[d][s].replies,
             Applies(d, s, p) \/ Clashes(d, s, p)
      PROVE  o \in Made /\ queue[o].status = "in_flight"
  <2>1. PICK os, st : Takes(d, s, p, os, st)
    BY <1>4 DEF Applies, Clashes
  <2> QED
    BY <2>1 DEF Takes, Relabelled, Made
<1>5. ASSUME NEW d \in Devices, NEW s \in Runs, PushBegins(d, s)
      PROVE  Exists(rows'[queue'[o].rec])
  <2>1. /\ Made' = Made /\ Carried(d, s) = {} /\ \A p \in Ops \ Due(d) : queue'[p] = queue[p]
        /\ Due(d) \subseteq Queued(d)
    BY <1>5 DEF PushBegins, Relabelled, Due
  <2>2. CASE o \notin Due(d)
    BY <1>1, <2>1, <2>2 DEF Made
  <2>3. CASE o \in Due(d)
    <3> DEFINE r == queue[o].rec
    <3>1. o \in Made /\ o \in Queued(d) /\ queue[o].status = "pending" /\ queue[o].kind # "create"
      BY <1>0, <2>1, <2>3, Stays DEF Due
    <3>2. r \in Records /\ o \in On(d, r)
      BY <1>0, <3>1, Stays DEF On
    <3>3. ASSUME NEW c \in On(d, r), Live(c), queue[c].place < queue[o].place
          PROVE  FALSE
      <4>1. c \in Queued(d) /\ queue[c].rec = queue[o].rec /\ c \in Made
        BY <3>2, <3>3 DEF On, Queued, Made
      <4>2. queue[c].status # "in_flight"
        BY <1>0, <2>1, <4>1 DEF QInv, Owned
      <4>3. queue[c].status = "pending" /\ ~queue[c].waiting
        BY <1>0, <3>3, <4>1, <4>2 DEF Live, QInv, NoDelay
      <4>4. queue[o].place <= queue[c].place
        BY <2>3, <4>1, <4>3 DEF Due
      <4>5. queue[o].place \in Nat /\ queue[c].place \in Nat
        BY <1>0, <3>1, <4>1, MadeItems DEF DInv, Made, Item
      <4> QED
        BY <3>3, <4>4, <4>5
    <3>4. Exists(rows[r])
      BY <1>0, <3>1, <3>2, <3>3 DEF Grounded
    <3> QED
      BY <1>0, <3>1, <3>2, <3>4, Stays
  <2> QED
    BY <2>2, <2>3
<1> QED
  BY <1>2, <1>1, <1>3, <1>4, <1>5, CalmFrames DEF CalmStep

\* The creations a step takes out of the queue are of rows that exist.
LEMMA CreationsKept ==
  ASSUME Calm, CalmInv, CalmStep, [Next]_vars, NEW d \in Devices, NEW r \in Records, ~Exists(rows'[r]),
         NEW c \in On(d, r), Live(c), queue[c].kind = "create"
  PROVE  /\ c \in On(d, r)' /\ Live(c)' /\ queue'[c].kind = "create" /\ queue'[c].place = queue[c].place
<1>0. DInv /\ QInv /\ Answerable
  BY DEF CalmInv, KInv
<1>1. c \in Made /\ c \in Queued(d) /\ queue[c].rec = r /\ ~Exists(rows[r]) /\ c \in Ops
  BY <1>0, Stays DEF On, Queued, Made
<1>2. c \in On(d, r)' /\ queue'[c].kind = "create" /\ queue'[c].place = queue[c].place
  BY <1>0, <1>1, Stays DEF On, Queued, Made
<1>3. Live(c)'
  <2>1. CASE queue' = queue
    BY <2>1 DEF Live
  <2>2. ASSUME NEW o \in Ops, NEW e \in Devices, NEW t \in Records, Added(o, e, t)
        PROVE  Live(c)'
    BY <1>1, <2>2 DEF Added, Live, Made
  <2>3. ASSUME NEW e \in Devices, NEW s \in Runs, PushBegins(e, s)
        PROVE  Live(c)'
    <3>1. queue'[c] = queue[c] \/ queue'[c].status = "in_flight"
      BY <1>1, <2>3 DEF PushBegins
    <3> QED
      BY <3>1 DEF Live
  <2>4. ASSUME NEW e \in Devices, NEW s \in Runs, NEW p \in run[e][s].replies,
               Applies(e, s, p) \/ Clashes(e, s, p)
        PROVE  Live(c)'
    <3>1. p \in Answers(e, s)
      BY <2>4 DEF Applies, Clashes, Takes, Answers
    <3>2. Exists(rows[queue[p.op].rec])
      BY <1>0, <3>1 DEF Answerable
    <3>3. queue[c].rec # queue[p.op].rec
      BY <1>1, <3>2
    <3>4. queue'[c] = queue[c]
      <4>1. CASE Applies(e, s, p)
        BY <1>1, <3>3, <4>1 DEF Applies, Takes
      <4>2. CASE Clashes(e, s, p)
        BY <1>1, <3>3, <4>2 DEF Clashes, Takes, LiveOn, On
      <4> QED
        BY <2>4, <4>1, <4>2
    <3> QED
      BY <3>4 DEF Live
  <2> QED
    BY <2>1, <2>2, <2>3, <2>4, CalmFrames DEF CalmStep
<1> QED
  BY <1>2, <1>3

LEMMA GroundedKept ==
  ASSUME Calm, CalmInv, CalmStep, [Next]_vars
  PROVE  Grounded'
<1>0. DInv /\ WInv /\ KInv
  BY DEF CalmInv
<1> SUFFICES ASSUME NEW d \in Devices, NEW r \in Records, NEW o \in On(d, r)',
                    queue'[o].status = "pending", queue'[o].kind # "create", ~Exists(rows'[r])
             PROVE  \E c \in On(d, r)' : /\ Live(c)' /\ queue'[c].kind = "create"
                                         /\ queue'[c].place < queue'[o].place
  BY DEF Grounded, Exists
<1>1. ASSUME o \in On(d, r), queue[o].status = "pending", queue'[o].place = queue[o].place,
             queue'[o].kind = queue[o].kind
      PROVE  \E c \in On(d, r)' : /\ Live(c)' /\ queue'[c].kind = "create"
                                  /\ queue'[c].place < queue'[o].place
  <2>1. ~Exists(rows[r])
    BY <1>0, Stays
  <2>2. PICK c \in On(d, r) : Live(c) /\ queue[c].kind = "create" /\ queue[c].place < queue[o].place
    BY <1>0, <1>1, <2>1 DEF KInv, Grounded
  <2>3. c \in On(d, r)' /\ Live(c)' /\ queue'[c].kind = "create" /\ queue'[c].place = queue[c].place
    BY <2>2, CreationsKept
  <2> QED
    BY <1>1, <2>2, <2>3
<1>2. ASSUME NEW p \in Ops, NEW e \in Devices, NEW t \in Records, Added(p, e, t)
      PROVE  \E c \in On(d, r)' : /\ Live(c)' /\ queue'[c].kind = "create"
                                  /\ queue'[c].place < queue'[o].place
  <2>1. CASE o # p
    <3>1. queue'[o] = queue[o] /\ o \in On(d, r)
      BY <1>2, <2>1 DEF Added, On, Queued
    <3> QED
      BY <1>1, <3>1
  <2>2. CASE o = p
    <3>1. e = d /\ t = r /\ queue'[o].place = Cardinality(Queued(d)) + 1
      <4>1. queue'[o].dev = d /\ queue'[o].rec = r
        BY DEF On, Queued
      <4>2. queue'[o].dev = e /\ queue'[o].rec = t /\ queue'[o].place = Cardinality(Queued(e)) + 1
        BY <1>2, <2>2 DEF Added
      <4> QED
        BY <4>1, <4>2
    <3>2. ~Exists(rows[r])
      BY <1>0, Stays
    <3>3. local[d][r] # NoLocal
      BY <1>0, <1>2, <2>2, <3>1, <3>2 DEF Added, KInv, ConflictsSound, Made
    <3>4. PICK c \in On(d, r) : Live(c) /\ queue[c].kind = "create"
      BY <1>0, <3>2, <3>3 DEF KInv, Sourced
    <3>5. c \in On(d, r)' /\ Live(c)' /\ queue'[c].kind = "create" /\ queue'[c].place = queue[c].place
      BY <3>4, CreationsKept
    <3>6. c \in Queued(d) /\ c \in Made
      BY <3>4 DEF On, Queued, Made
    <3>7. queue[c].place <= Cardinality(Queued(d)) /\ queue[c].place \in Nat
      BY <1>0, <3>6, MadeItems DEF WInv, Placed, DInv, Made, Item
    <3>8. Cardinality(Queued(d)) \in Nat
      <4>1. Queued(d) \subseteq Made /\ IsFiniteSet(Made)
        BY <1>0 DEF DInv, DeviceTyped, Queued, Made
      <4> QED
        BY <4>1, FS_Subset, FS_CardinalityType
    <3>9. queue'[c].place < queue'[o].place
      BY <3>1, <3>5, <3>7, <3>8
    <3> QED
      BY <3>5, <3>9
  <2> QED
    BY <2>1, <2>2
<1>3. CASE Relabelled
  <2>1. o \in On(d, r) /\ o \in Made /\ o \in Ops
    BY <1>0, <1>3, SameQueues DEF DInv, On, Queued, Made
  <2>2. queue'[o].place = queue[o].place /\ queue'[o].kind = queue[o].kind
    BY <1>3, <2>1 DEF Relabelled, SameItem
  <2>3. queue[o].status = "pending"
    <3>1. CASE queue' = queue
      BY <3>1
    <3>2. ASSUME NEW e \in Devices, NEW s \in Runs, PushBegins(e, s)
          PROVE  queue[o].status = "pending"
      BY <2>1, <3>2 DEF PushBegins
    <3>3. ASSUME NEW e \in Devices, NEW s \in Runs, NEW p \in run[e][s].replies,
                 Applies(e, s, p) \/ Clashes(e, s, p)
          PROVE  queue[o].status = "pending"
      <4>1. PICK os, st : Takes(e, s, p, os, st)
        BY <3>3 DEF Applies, Clashes
      <4> QED
        BY <2>1, <4>1 DEF Takes
    <3>4. ASSUME NEW p \in Ops, NEW e \in Devices, NEW t \in Records, Added(p, e, t)
          PROVE  FALSE
      BY <1>3, <3>4 DEF Added, Relabelled
    <3> QED
      BY <3>1, <3>2, <3>3, <3>4, CalmFrames DEF CalmStep
  <2> QED
    BY <1>1, <2>1, <2>2, <2>3
<1> QED
  BY <1>0, <1>2, <1>3, QueueSteps

LEMMA SourcedKept ==
  ASSUME Calm, CalmInv, CalmStep, [Next]_vars
  PROVE  Sourced'
<1>0. DInv /\ WInv /\ QInv /\ KInv
  BY DEF CalmInv
<1> SUFFICES ASSUME NEW d \in Devices, NEW r \in Records, local'[d][r] # NoLocal, ~Exists(rows'[r])
             PROVE  \E c \in On(d, r)' : Live(c)' /\ queue'[c].kind = "create"
  BY DEF Sourced, Exists
<1>1. ~Exists(rows[r])
  BY <1>0, Stays
<1>2. ASSUME local[d][r] # NoLocal
      PROVE  \E c \in On(d, r)' : Live(c)' /\ queue'[c].kind = "create"
  <2>1. PICK c \in On(d, r) : Live(c) /\ queue[c].kind = "create"
    BY <1>0, <1>1, <1>2 DEF KInv, Sourced
  <2> QED
    BY <2>1, CreationsKept
<1>3. CASE local'[d][r] = local[d][r]
  BY <1>2, <1>3
<1>4. ASSUME NEW o \in Ops, NEW e \in Devices, NEW t \in Records, Added(o, e, t)
      PROVE  \E c \in On(d, r)' : Live(c)' /\ queue'[c].kind = "create"
  <2>1. CASE e # d \/ t # r
    BY <1>3, <1>4, <2>1 DEF Added
  <2>2. CASE e = d /\ t = r
    <3>1. CASE queue'[o].kind = "create"
      <4>1. o \in On(d, r)' /\ Live(o)'
        BY <1>4, <2>2, Sentinels DEF Added, On, Queued, Live
      <4> QED
        BY <3>1, <4>1
    <3>2. CASE queue'[o].kind # "create"
      <4>1. local[d][r] # NoLocal
        BY <1>0, <1>1, <1>4, <2>2, <3>2 DEF Added, KInv, ConflictsSound, Made
      <4> QED
        BY <1>2, <4>1
    <3> QED
      BY <3>1, <3>2
  <2> QED
    BY <2>1, <2>2
<1>5. ASSUME NEW o \in Ops, KeepServer(o)
      PROVE  local'[d][r] = local[d][r]
  <2>1. conflicts[o] # NoConflict /\ queue[o].dev \in Devices /\ queue[o].rec \in Records
    BY <1>0, <1>5, OpenConflict, Sentinels DEF KeepServer
  <2>2. queue[o].rec # r
    BY <1>0, <1>1, <2>1 DEF KInv, ConflictsSound
  <2>3. local' \in [Devices -> [Records -> LocalRow \cup {NoLocal}]]
        /\ \A e \in Devices, t \in Records : e # queue[o].dev \/ t # queue[o].rec => local'[e][t] = local[e][t]
    <3> DEFINE e == queue[o].dev
               t == queue[o].rec
    <3>1. PICK x : local' = [local EXCEPT ![e][t] = x]
      <4>1. CASE conflicts[o].deleted
        <5> DEFINE x == [local[e][t] EXCEPT !.deleted = TRUE, !.version = conflicts[o].version, !.status = "synced"]
        <5>1. local' = [local EXCEPT ![e][t].deleted = TRUE, ![e][t].version = conflicts[o].version,
                                     ![e][t].status = "synced"]
          BY <1>5, <4>1 DEF KeepServer
        <5>2. local' = [local EXCEPT ![e][t] = x]
          BY <1>0, <2>1, <5>1 DEF DInv, DeviceTyped
        <5> QED
          BY <5>2
      <4>2. CASE ~conflicts[o].deleted
        BY <1>5, <4>2 DEF KeepServer
      <4> QED
        BY <4>1, <4>2
    <3>2. e \in Devices /\ t \in Records
      BY <2>1
    <3>3. DInv'
      BY <1>0, <1>5, KeepServerStep
    <3> HIDE DEF e, t
    <3>4. \A f \in Devices, v \in Records : f # e \/ v # t => local'[f][v] = local[f][v]
      BY <1>0, <3>1, <3>2 DEF DInv, DeviceTyped
    <3> QED
      BY <3>3, <3>4 DEF e, t, DInv, DeviceTyped
  <2> QED
    BY <2>2, <2>3
<1>6. ASSUME NEW e \in Devices, NEW s \in Runs, NEW p \in run[e][s].replies,
             Applies(e, s, p) \/ Clashes(e, s, p)
      PROVE  local'[d][r] = local[d][r]
  <2>1. p \in Answers(e, s)
    BY <1>6 DEF Applies, Clashes, Takes, Answers
  <2>2. queue[p.op].rec # r
    BY <1>0, <1>1, <2>1 DEF KInv, Answerable
  <2> QED
    BY <1>6, <2>2 DEF Applies, Clashes
<1>7. ASSUME NEW e \in Devices, NEW s \in Runs, PageApplied(e, s)
      PROVE  local'[d][r] = local[d][r]
  <2>1. CASE e = d
    <3>1. r \notin DOMAIN run[d][s].rows
      BY <1>0, <1>1, <1>7, <2>1 DEF PageApplied, WInv, Paged, Revised
    <3> QED
      BY <1>7, <2>1, <3>1 DEF PageApplied
  <2>2. CASE e # d
    BY <1>7, <2>2 DEF PageApplied
  <2> QED
    BY <2>1, <2>2
<1>8. CASE local' = local
  BY <1>3, <1>8
<1> QED
  BY <1>3, <1>4, <1>5, <1>6, <1>7, <1>8 DEF CalmStep, PullBegins, PushBegins, Delivers, Fetches,
     Serves, GenerateReport, WebDelete, vars

LEMMA CalmInit ==
  ASSUME Init
  PROVE  CalmInv
<1>1. Made = {} /\ \A d \in Devices : Queued(d) = {} /\ \A r \in Records : On(d, r) = {}
  BY DEF Init, Made, Queued, On
<1>2. \A d \in Devices, s \in Runs :
         run[d][s].phase = "idle" /\ Carried(d, s) = {} /\ Answers(d, s) = {} /\ Todo(d, s) = {}
  BY DEF Init, Idle, Carried, Todo, Answers
<1>3. QInv
  BY <1>1, <1>2 DEF Init, QInv, NoDelay, Delivered, AnsweredOnce, Flying, OnePerRecord, Owned, Ordered
<1>4. KInv
  BY <1>1, <1>2 DEF Init, KInv, Grounded, Landed, Sourced, Answerable, LedgerSound, ConflictsSound
<1> QED
  BY <1>3, <1>4, DInit, WInit DEF CalmInv

LEMMA CalmNext ==
  ASSUME Calm, CalmInv, [Next]_vars
  PROVE  CalmInv'
<1>1. CalmStep
  BY CalmSteps
<1>2. DInv' /\ WInv'
  BY DNext, DStutter, WNext DEF CalmInv
<1>3. QInv'
  BY <1>1, QKept
<1>4. KInv'
  BY <1>1, LedgerSoundKept, AnswerableKept, ConflictsSoundKept, LandedKept, GroundedKept, SourcedKept DEF KInv
<1> QED
  BY <1>2, <1>3, <1>4 DEF CalmInv

\* When nothing is lost, nothing crashes and one run is under way at a time,
\* a device sends the operations on a record in the order they were made:
\* none is in flight while an earlier one is pending or in flight (queue.js
\* getDueOperations, engine.js runSync).
THEOREM SentInOrder == ASSUME Calm PROVE Spec => []InOrder
<1>1. CalmInv /\ [Next]_vars => CalmInv'
  BY CalmNext
<1>2. CalmInv => InOrder
  <2> SUFFICES ASSUME CalmInv, NEW o \in Ops, NEW p \in Ops,
                      queue[o].status = "in_flight", p \in On(queue[o].dev, queue[o].rec),
                      queue[p].place < queue[o].place
               PROVE  ~Live(p)
    BY DEF InOrder
  <2>1. DInv /\ Ordered
    BY DEF CalmInv, QInv
  <2>2. o \in Made /\ queue[o].dev \in Devices /\ queue[o].rec \in Records
    BY <2>1, MadeItems DEF DInv
  <2>3. o \in On(queue[o].dev, queue[o].rec)
    BY <2>2 DEF On, Queued, Made
  <2> QED
    BY <2>1, <2>2, <2>3 DEF Ordered
<1> QED
  BY <1>1, <1>2, CalmInit, PTL DEF Spec

(***************************************************************************)
(* Reconciliation.  What CalmInv leaves open is how far a device's cursor  *)
(* has got: a device that is done with a record, its cursor past the       *)
(* record's last change, has what the server has.  Settling a conflict     *)
(* with the server's side breaks this (it restores what was recorded over  *)
(* what has been pulled since), so it is left out.                         *)
(***************************************************************************)
OnlyLocal == "kept_server" \notin Resolutions

\* What is queued or sent has not been served, and a report that is being
\* created is not there yet.
Unsent ==
    /\ \A o \in Made : queue[o].status = "pending" => ledger[o] = NoEntry
    /\ \A d \in Devices, s \in Runs : \A o \in Todo(d, s) : ledger[o] = NoEntry
Fresh ==
    \A o \in Made : Live(o) /\ queue[o].kind = "create" /\ ledger[o] = NoEntry =>
       ~Exists(rows[queue[o].rec])

\* A deletion that was applied has deleted the row; one under way hides it.
Gone == \A o \in Made : Applied(o) /\ queue[o].kind = "delete" => rows[queue[o].rec].deleted
Hidden ==
    \A o \in Made : Live(o) /\ queue[o].kind = "delete" =>
       local[queue[o].dev][queue[o].rec].deleted

\* A page holds the current state of every record it takes the cursor past.
Reachable(n) == n = 0 \/ \E r \in Records : n <= revision[r]
InPage(d, s) ==
    LET page == run[d][s]
    IN  /\ page.next \in Nat /\ Reachable(page.next)
        /\ \A r \in DOMAIN page.rows : revision[r] > cursor[d]
        /\ \A r \in Records : cursor[d] < revision[r] /\ revision[r] <= page.next =>
              r \in DOMAIN page.rows /\ page.rows[r] = rows[r]
Covered ==
    /\ \A d \in Devices : Reachable(cursor[d])
    /\ \A d \in Devices, s \in Runs :
         /\ run[d][s].phase = "pull" => run[d][s].since = cursor[d]
         /\ run[d][s].phase = "page" => InPage(d, s)

\* An operation that was applied has put its record beyond the cursor.
Beyond ==
    \A d \in Devices, s \in Runs : \A p \in Answers(d, s) : p.answer.status = "applied" =>
       \/ revision[queue[p.op].rec] > cursor[d]
       \/ queue[p.op].kind = "delete" /\ rows[queue[p.op].rec].deleted

Agrees(d, r) ==
    IF rows[r].deleted THEN ~Shown(d, r)
    ELSE /\ Shown(d, r)
         /\ local[d][r].version = rows[r].version
         /\ local[d][r].content = rows[r].content
Done(d, r) == ~HasLive(d, r) /\ \A o \in On(d, r) : ~Unresolved(o)
Agreed ==
    \A d \in Devices, r \in Records :
       Done(d, r) /\ Exists(rows[r]) /\ revision[r] <= cursor[d] => Agrees(d, r)

RInv == Unsent /\ Fresh /\ Gone /\ Hidden /\ Covered /\ Beyond /\ Agreed

(***************************************************************************)
(* What the steps move.                                                    *)
(***************************************************************************)
\* A conflict is settled by queueing the local side again.
LEMMA ConflictsOpen ==
  ASSUME OnlyLocal, DInv, [Next]_vars, NEW d \in Devices, NEW r \in Records, NEW p \in On(d, r), Unresolved(p)
  PROVE  Unresolved(p)' \/ HasLive(d, r)'
<1>0. p \in Ops /\ queue[p].dev = d /\ queue[p].rec = r
  BY DEF On, Queued
<1>1. CASE conflicts'[p] = conflicts[p]
  BY <1>1 DEF Unresolved
<1>2. ASSUME NEW o \in Ops, NEW n \in Ops, KeepLocal(o, n)
      PROVE  Unresolved(p)' \/ HasLive(d, r)'
  <2>1. CASE p = o
    <3>1. Added(n, d, r)
      BY <1>0, <1>2, <2>1, DialogAdds
    <3>2. n \in Made' /\ n \in Ops /\ queue'[n].dev = d /\ queue'[n].rec = r /\ queue'[n].status = "pending"
      BY <3>1 DEF Added
    <3> QED
      BY <3>2 DEF HasLive, On, Queued, Made, Live
  <2>2. CASE p # o
    <3>1. conflicts'[p] = conflicts[p]
      BY <1>0, <1>2, <2>2 DEF KeepLocal, DInv, DeviceTyped
    <3> QED
      BY <1>1, <3>1
  <2> QED
    BY <2>1, <2>2
<1>3. ASSUME NEW o \in Ops
      PROVE  ~KeepServer(o)
  BY DEF KeepServer, OnlyLocal
<1>4. ASSUME NEW e \in Devices, NEW s \in Runs, NEW q \in Reply(e, s), TakeConflict(e, s, q)
      PROVE  Unresolved(p)'
  <2> DEFINE c == Noted(q.op, q.answer)
  <2>1. conflicts' = [conflicts EXCEPT ![q.op] = c] /\ c.resolution = "none"
    BY <1>4 DEF TakeConflict, Noted
  <2> HIDE DEF c
  <2>2. conflicts'[p] = c \/ conflicts'[p] = conflicts[p]
    BY <1>0, <2>1 DEF DInv, DeviceTyped
  <2> QED
    BY <2>1, <2>2 DEF Unresolved
<1>5. ASSUME NEW e \in Devices, User(e) \/ Crash(e)
      PROVE  conflicts' = conflicts
  BY <1>5 DEF User, Create, Update, Remove, Crash
<1>6. ASSUME NEW e \in Devices, NEW s \in Runs, Push(e, s),
             ~ \E q \in Reply(e, s) : TakeConflict(e, s, q)
      PROVE  conflicts' = conflicts
  BY <1>6 DEF Push, StartSync, Deliver, NextPass, Serve, TakeApplied, TakeError
<1>7. ASSUME NEW e \in Devices, NEW s \in Runs, Pull(e, s) \/ Loss(e, s)
      PROVE  conflicts' = conflicts
  BY <1>7 DEF Pull, Fetch, ApplyPage, Loss, LosePush, LosePull, ServeFails
<1>8. ASSUME NEW o \in Ops, ServeLate(o) \/ BackoffElapses(o)
      PROVE  conflicts' = conflicts
  BY <1>8 DEF ServeLate, BackoffElapses
<1>9. ASSUME NEW t \in Records, GenerateReport(t) \/ WebDelete(t)
      PROVE  conflicts' = conflicts
  BY <1>9 DEF GenerateReport, WebDelete
<1>10. CASE UNCHANGED vars
  BY <1>1, <1>10 DEF vars
<1> QED
  BY <1>1, <1>2, <1>3, <1>4, <1>5, <1>6, <1>7, <1>8, <1>9, <1>10 DEF Next, Dialog

\* No operation comes back to life.
LEMMA LabelsFall ==
  ASSUME CalmStep, NEW o \in Made
  PROVE  /\ Live(o)' => Live(o)
         /\ queue'[o].status = "pending" => queue[o].status = "pending"
<1>0. o \in Ops
  BY DEF Made
<1>1. CASE queue' = queue
  BY <1>1 DEF Live
<1>2. ASSUME NEW p \in Ops, NEW d \in Devices, NEW r \in Records, Added(p, d, r)
      PROVE  queue'[o] = queue[o]
  BY <1>0, <1>2 DEF Added
<1>3. ASSUME NEW d \in Devices, NEW s \in Runs, PushBegins(d, s)
      PROVE  /\ Live(o)' => Live(o)
             /\ queue'[o].status = "pending" => queue[o].status = "pending"
  <2>1. CASE o \in Due(d)
    BY <1>3, <2>1 DEF PushBegins, Due, Live
  <2>2. CASE o \notin Due(d)
    BY <1>0, <1>3, <2>2 DEF PushBegins, Live
  <2> QED
    BY <2>1, <2>2
<1>4. ASSUME NEW d \in Devices, NEW s \in Runs, NEW p \in run[d][s].replies,
             Applies(d, s, p) \/ Clashes(d, s, p)
      PROVE  /\ Live(o)' => Live(o)
             /\ queue'[o].status = "pending" => queue[o].status = "pending"
  <2>1. PICK os, st : Takes(d, s, p, os, st)
    BY <1>4 DEF Applies, Clashes
  <2>2. queue'[o] = queue[o] \/ queue'[o].status = st
    BY <1>0, <2>1 DEF Takes
  <2>3. st \in {"done", "failed"}
    BY <2>1 DEF Takes
  <2> QED
    BY <2>2, <2>3 DEF Live
<1> QED
  BY <1>1, <1>2, <1>3, <1>4, CalmFrames DEF CalmStep, Live

\* A record's last live operation leaves the queue with an answer.
Answered(d, r) ==
    \E s \in Runs : \E p \in run[d][s].replies :
       (Applies(d, s, p) \/ Clashes(d, s, p)) /\ p.op \in On(d, r)
LEMMA LastLeaves ==
  ASSUME CalmStep, DInv, NEW d \in Devices, NEW r \in Records, HasLive(d, r), ~HasLive(d, r)', [Next]_vars
  PROVE  Answered(d, r)
<1>1. PICK o \in On(d, r) : Live(o)
  BY DEF HasLive
<1>2. o \in Made /\ o \in Ops /\ queue[o].dev = d /\ queue[o].rec = r
  BY <1>1 DEF On, Queued, Made
<1>3. o \in On(d, r)'
  BY <1>2, Stays DEF On, Queued, Made
<1>4. ~Live(o)'
  BY <1>3 DEF HasLive
<1>5. queue'[o] # queue[o]
  BY <1>1, <1>4 DEF Live
<1>6. ASSUME NEW p \in Ops, NEW e \in Devices, NEW t \in Records, Added(p, e, t)
      PROVE  FALSE
  BY <1>2, <1>5, <1>6 DEF Added
<1>7. ASSUME NEW e \in Devices, NEW s \in Runs, PushBegins(e, s)
      PROVE  FALSE
  BY <1>2, <1>4, <1>5, <1>7 DEF PushBegins, Live
<1>8. ASSUME NEW e \in Devices, NEW s \in Runs, NEW p \in run[e][s].replies,
             Applies(e, s, p) \/ Clashes(e, s, p)
      PROVE  Answered(d, r)
  <2>1. p.op \in Queued(e)
    BY <1>8 DEF Applies, Clashes, Takes
  <2>2. CASE Applies(e, s, p)
    <3>1. o = p.op
      BY <1>2, <1>5, <2>2 DEF Applies, Takes
    <3>2. e = d
      BY <1>2, <2>1, <3>1 DEF Queued
    <3> QED
      BY <1>1, <2>2, <3>1, <3>2 DEF Answered
  <2>3. CASE Clashes(e, s, p)
    <3>1. o \in LiveOn(e, queue[p.op].rec)
      BY <1>2, <1>5, <2>3 DEF Clashes, Takes
    <3>2. e = d /\ queue[p.op].rec = r
      BY <1>2, <3>1 DEF LiveOn, On, Queued
    <3> QED
      BY <2>1, <2>3, <3>2 DEF Answered, On
  <2> QED
    BY <1>8, <2>2, <2>3
<1> QED
  BY <1>5, <1>6, <1>7, <1>8, CalmFrames DEF CalmStep

\* A row of the device changes by an edit, an answer or a page.
LEMMA LocalMoves ==
  ASSUME OnlyLocal, CalmStep, NEW d \in Devices, NEW r \in Records
  PROVE  \/ local'[d][r] = local[d][r]
         \/ \E o \in Ops : Added(o, d, r)
         \/ \E s \in Runs : \E p \in run[d][s].replies :
               (Applies(d, s, p) \/ Clashes(d, s, p)) /\ queue[p.op].rec = r
         \/ \E s \in Runs : PageApplied(d, s)
<1>1. ASSUME NEW o \in Ops, NEW e \in Devices, NEW t \in Records, Added(o, e, t)
      PROVE  local'[d][r] = local[d][r] \/ Added(o, d, r)
  BY <1>1 DEF Added
<1>2. ASSUME NEW o \in Ops
      PROVE  ~KeepServer(o)
  BY DEF KeepServer, OnlyLocal
<1>3. ASSUME NEW e \in Devices, NEW s \in Runs, PageApplied(e, s)
      PROVE  e = d \/ local'[d][r] = local[d][r]
  BY <1>3 DEF PageApplied
<1>4. ASSUME NEW e \in Devices, NEW s \in Runs, NEW p \in run[e][s].replies,
             Applies(e, s, p) \/ Clashes(e, s, p)
      PROVE  (e = d /\ queue[p.op].rec = r) \/ local'[d][r] = local[d][r]
  BY <1>4 DEF Applies, Clashes
<1>5. ASSUME NEW e \in Devices, NEW s \in Runs,
             \/ PullBegins(e, s) \/ PushBegins(e, s) \/ Delivers(e, s) \/ Fetches(e, s)
             \/ \E o \in Ops : Serves(e, s, o)
      PROVE  local' = local
  BY <1>5 DEF PullBegins, PushBegins, Delivers, Fetches, Serves
<1>6. ASSUME (\E t \in Records : GenerateReport(t) \/ WebDelete(t)) \/ UNCHANGED vars
      PROVE  local' = local
  BY <1>6 DEF GenerateReport, WebDelete, vars
<1> QED
  BY <1>1, <1>2, <1>3, <1>4, <1>5, <1>6 DEF CalmStep

\* The cursor moves with a page.
LEMMA CursorMoves ==
  ASSUME OnlyLocal, CalmStep, NEW d \in Devices
  PROVE  \/ cursor'[d] = cursor[d]
         \/ \E s \in Runs : PageApplied(d, s)
<1>1. ASSUME NEW o \in Ops
      PROVE  ~KeepServer(o) /\ \A e \in Devices, t \in Records : Added(o, e, t) => cursor' = cursor
  BY DEF KeepServer, OnlyLocal, Added
<1>2. ASSUME NEW e \in Devices, NEW s \in Runs, PageApplied(e, s)
      PROVE  e = d \/ cursor'[d] = cursor[d]
  BY <1>2 DEF PageApplied
<1>3. ASSUME NEW e \in Devices, NEW s \in Runs, NEW p \in run[e][s].replies,
             Applies(e, s, p) \/ Clashes(e, s, p)
      PROVE  cursor' = cursor
  BY <1>3 DEF Applies, Clashes, Takes
<1>4. ASSUME NEW e \in Devices, NEW s \in Runs,
             \/ PullBegins(e, s) \/ PushBegins(e, s) \/ Delivers(e, s) \/ Fetches(e, s)
             \/ \E o \in Ops : Serves(e, s, o)
      PROVE  cursor' = cursor
  BY <1>4 DEF PullBegins, PushBegins, Delivers, Fetches, Serves
<1>5. ASSUME (\E t \in Records : GenerateReport(t) \/ WebDelete(t)) \/ UNCHANGED vars
      PROVE  cursor' = cursor
  BY <1>5 DEF GenerateReport, WebDelete, vars
<1> QED
  BY <1>1, <1>2, <1>3, <1>4, <1>5 DEF CalmStep

\* What has been reached stays reached, and is behind the next change.
LEMMA StaysReachable ==
  ASSUME DInv, [Next]_vars, NEW n \in Nat, Reachable(n), NEW t \in Records
  PROVE  Reachable(n)' /\ n < NextRevision /\ NextRevision \in Nat
<1>0. /\ revision \in [Records -> Nat] /\ NextRevision \in Nat
      /\ \A r \in Records : revision[r] < NextRevision
  BY RevisionsRise DEF DInv, ServerTyped
<1>1. \A r \in Records : revision'[r] = revision[r] \/ revision'[r] = NextRevision
  BY ServerMoves
<1>2. \A r \in Records : revision[r] <= revision'[r]
  BY <1>0, <1>1
<1>3. \A r \in Records : revision'[r] \in Nat
  BY <1>0, <1>1
<1>4. CASE n = 0
  BY <1>0, <1>4 DEF Reachable
<1>5. ASSUME NEW r \in Records, n <= revision[r]
      PROVE  Reachable(n)' /\ n < NextRevision
  <2>1. n <= revision'[r]
    BY <1>0, <1>2, <1>3, <1>5
  <2>2. n < NextRevision
    BY <1>0, <1>5
  <2> QED
    BY <2>1, <2>2 DEF Reachable
<1> QED
  BY <1>0, <1>4, <1>5 DEF Reachable

\* A run moves by its own steps.
RunSteps(d, s) ==
    \/ PullBegins(d, s) \/ PushBegins(d, s) \/ Delivers(d, s) \/ Fetches(d, s) \/ PageApplied(d, s)
    \/ \E o \in Ops : Serves(d, s, o)
    \/ \E p \in run[d][s].replies : Applies(d, s, p) \/ Clashes(d, s, p)
LEMMA RunMoves ==
  ASSUME OnlyLocal, CalmStep, NEW d \in Devices, NEW s \in Runs
  PROVE  run'[d][s] = run[d][s] \/ RunSteps(d, s)
<1>1. ASSUME NEW e \in Devices, NEW t \in Runs, RunSteps(e, t)
      PROVE  OnlyRun(e, t)
  <2>1. CASE PullBegins(e, t) \/ PushBegins(e, t) \/ Delivers(e, t) \/ Fetches(e, t) \/ PageApplied(e, t)
    BY <2>1 DEF PullBegins, PushBegins, Delivers, Fetches, PageApplied
  <2>2. ASSUME NEW o \in Ops, Serves(e, t, o)
        PROVE  OnlyRun(e, t)
    BY <2>2 DEF Serves, AnswerComes
  <2>3. ASSUME NEW p \in run[e][t].replies, Applies(e, t, p) \/ Clashes(e, t, p)
        PROVE  OnlyRun(e, t)
    BY <2>3 DEF Applies, Clashes, Takes
  <2> QED
    BY <1>1, <2>1, <2>2, <2>3 DEF RunSteps
<1>2. ASSUME NEW e \in Devices, NEW t \in Runs, RunSteps(e, t)
      PROVE  run'[d][s] = run[d][s] \/ RunSteps(d, s)
  <2>1. CASE e = d /\ t = s
    BY <1>2, <2>1
  <2>2. CASE e # d \/ t # s
    BY <1>1, <1>2, <2>2 DEF OnlyRun
  <2> QED
    BY <2>1, <2>2
<1>3. ASSUME NEW o \in Ops
      PROVE  ~KeepServer(o) /\ \A e \in Devices, t \in Records : Added(o, e, t) => run' = run
  BY DEF KeepServer, OnlyLocal, Added
<1>4. ASSUME (\E t \in Records : GenerateReport(t) \/ WebDelete(t)) \/ UNCHANGED vars
      PROVE  run' = run
  BY <1>4 DEF GenerateReport, WebDelete, vars
<1> QED
  BY <1>2, <1>3, <1>4 DEF CalmStep, RunSteps

\* Operations are sent by a pass, answers come of serving.
LEMMA TodoMoves ==
  ASSUME OnlyLocal, DInv, CalmStep, NEW d \in Devices, NEW s \in Runs, NEW o \in Todo(d, s)'
  PROVE  o \in Todo(d, s) \/ (PushBegins(d, s) /\ o \in Due(d))
<1>1. CASE run'[d][s] = run[d][s]
  BY <1>1, Carries
<1>2. CASE PullBegins(d, s) \/ Fetches(d, s) \/ PageApplied(d, s)
  <2>1. run'[d][s].phase \notin {"push", "results"}
    BY <1>2 DEF PullBegins, Fetches, PageApplied, Pulling, Idle
  <2> QED
    BY <2>1, Carries
<1>3. CASE PushBegins(d, s)
  BY <1>3, Carries DEF PushBegins
<1>4. CASE Delivers(d, s)
  BY <1>4, Carries DEF Delivers
<1>5. ASSUME NEW p \in Ops, Serves(d, s, p)
      PROVE  o \in Todo(d, s)
  <2>1. run[d][s].phase = "push" /\ run'[d][s].phase = "push" /\ run'[d][s].todo = run[d][s].todo \ {p}
    BY <1>5 DEF Serves, AnswerComes
  <2> QED
    BY <2>1, Carries
<1>6. ASSUME NEW p \in run[d][s].replies, Applies(d, s, p) \/ Clashes(d, s, p)
      PROVE  o \in Todo(d, s)
  <2>1. run[d][s].phase = "results" /\ run'[d][s].phase = "results" /\ run'[d][s].todo = run[d][s].todo
    BY <1>6 DEF Applies, Clashes, Takes
  <2> QED
    BY <2>1, Carries
<1> QED
  BY <1>1, <1>2, <1>3, <1>4, <1>5, <1>6, RunMoves DEF RunSteps

LEMMA AnswersMove ==
  ASSUME OnlyLocal, DInv, CalmStep, NEW d \in Devices, NEW s \in Runs, NEW p \in Answers(d, s)'
  PROVE  \/ p \in Answers(d, s)
         \/ \E o \in Ops : Serves(d, s, o) /\ p.op = o /\ run'[d][s].replies = run[d][s].replies \cup {p}
<1>1. CASE run'[d][s] = run[d][s]
  BY <1>1, Carries
<1>2. CASE PullBegins(d, s) \/ Fetches(d, s) \/ PageApplied(d, s)
  <2>1. run'[d][s].phase \notin {"push", "results"}
    BY <1>2 DEF PullBegins, Fetches, PageApplied, Pulling, Idle
  <2> QED
    BY <2>1, Carries
<1>3. CASE PushBegins(d, s)
  BY <1>3, Carries DEF PushBegins
<1>4. CASE Delivers(d, s)
  BY <1>4, Carries DEF Delivers
<1>5. ASSUME NEW o \in Ops, Serves(d, s, o)
      PROVE  p \in Answers(d, s) \/ (p.op = o /\ run'[d][s].replies = run[d][s].replies \cup {p})
  <2>1. PICK x : /\ run[d][s].phase = "push" /\ run'[d][s].phase = "push" /\ x.op = o
                 /\ run'[d][s].replies = run[d][s].replies \cup {x}
    BY <1>5 DEF Serves, AnswerComes
  <2>2. p \in run[d][s].replies \/ p = x
    BY <2>1, Carries
  <2>3. Answers(d, s) = run[d][s].replies
    BY <2>1, Carries
  <2> QED
    BY <2>1, <2>2, <2>3
<1>6. ASSUME NEW x \in run[d][s].replies, Applies(d, s, x) \/ Clashes(d, s, x)
      PROVE  p \in Answers(d, s)
  <2>1. run[d][s].phase = "results" /\ run'[d][s].phase = "results"
        /\ run'[d][s].replies = run[d][s].replies \ {x}
    BY <1>6 DEF Applies, Clashes, Takes
  <2> QED
    BY <2>1, Carries
<1> QED
  BY <1>1, <1>2, <1>3, <1>4, <1>5, <1>6, RunMoves DEF RunSteps

(***************************************************************************)
(* What is served.                                                         *)
(***************************************************************************)
ServedNow(d, s, o) ==
    /\ Performed(o) /\ o \in Ops /\ o \in run[d][s].todo /\ o \in Queued(d)
    /\ queue[o].status = "in_flight" /\ queue[o].rec \in Records
    /\ rows[queue[o].rec] \in Row /\ Sent(o) \in Request /\ Sent(o).kind = queue[o].kind
    /\ queue[o].kind # "create" => Exists(rows[queue[o].rec])
    /\ AnswerComes(d, s, o, Answer(rows[queue[o].rec], Sent(o)))

LEMMA ServesNow ==
  ASSUME CalmInv, Unsent, NEW d \in Devices, NEW s \in Runs, NEW o \in Ops, Serves(d, s, o)
  PROVE  ServedNow(d, s, o)
<1>0. DInv /\ QInv /\ KInv
  BY DEF CalmInv
<1>1. run[d][s].phase = "push" /\ o \in run[d][s].todo /\ o \in Made
  BY DEF Serves, AnswerComes
<1>2. o \in Todo(d, s) /\ o \in Carried(d, s) /\ Carried(d, s) \subseteq Queued(d)
  BY <1>0, <1>1, Carries DEF Carried
<1>3. ledger[o] = NoEntry /\ queue[o].status = "in_flight"
  BY <1>0, <1>2 DEF Unsent, QInv, Flying
<1>4. Performed(o) /\ AnswerComes(d, s, o, Answer(rows[queue[o].rec], Sent(o)))
  BY <1>3 DEF Serves
<1>5. queue[o].rec \in Records /\ Sent(o) \in Request /\ Sent(o).kind = queue[o].kind
      /\ rows[queue[o].rec] \in Row
  BY <1>0, <1>1, MadeItems DEF DInv, ServerTyped, Sent
<1>6. queue[o].kind # "create" => Exists(rows[queue[o].rec])
  BY <1>0, <1>1, <1>3 DEF KInv, Landed
<1> QED
  BY <1>1, <1>2, <1>3, <1>4, <1>5, <1>6 DEF ServedNow

\* An operation answered "applied" writes, or deletes what is deleted.
LEMMA AppliedWrites ==
  ASSUME NEW row \in Row, NEW q \in Request, Answer(row, q).status = "applied",
         q.kind = "create" <=> ~Exists(row)
  PROVE  /\ Writes(row, q) \/ (q.kind = "delete" /\ RowAfter(row, q) = row /\ row.deleted)
         /\ q.kind = "delete" => RowAfter(row, q).deleted
<1>0. Status(row, q) = "applied"
  BY DEF Answer
<1>1. CASE q.kind = "create"
  BY <1>1 DEF Writes
<1>2. CASE q.kind = "update"
  <2>1. Writes(row, q)
    BY <1>0, <1>2 DEF Status, Writes
  <2> QED
    BY <1>2, <2>1
<1>3. CASE q.kind = "delete"
  <2>1. CASE row.deleted
    <3>1. ~Writes(row, q)
      BY <1>3, <2>1 DEF Writes
    <3>2. RowAfter(row, q) = row
      BY <3>1, WrittenRow
    <3> QED
      BY <1>3, <2>1, <3>2
  <2>2. CASE ~row.deleted
    <3>1. Writes(row, q)
      BY <1>0, <1>3, <2>2 DEF Status, Writes
    <3>2. RowAfter(row, q).deleted
      BY <1>3, <3>1 DEF RowAfter, Written
    <3> QED
      BY <3>1, <3>2
  <2> QED
    BY <2>1, <2>2
<1> QED
  BY <1>1, <1>2, <1>3 DEF Request, Kinds

(***************************************************************************)
(* The invariant is kept.                                                  *)
(***************************************************************************)
LEMMA UnsentKept ==
  ASSUME OnlyLocal, Calm, CalmInv, Unsent, CalmStep, [Next]_vars
  PROVE  Unsent'
<1>0. DInv /\ QInv /\ KInv
  BY DEF CalmInv
\* What is not served keeps its place in the ledger.
<1>1. ASSUME NEW o \in Ops, ledger'[o] # ledger[o]
      PROVE  \E d \in Devices, s \in Runs : ServedNow(d, s, o)
  <2>1. PICK d \in Devices, s \in Runs, p \in Ops : Serves(d, s, p)
    BY <1>1, CalmLedger
  <2>2. ServedNow(d, s, p)
    BY <2>1, ServesNow
  <2>3. p = o
    BY <1>1, <2>2 DEF ServedNow, Performed
  <2> QED
    BY <2>2, <2>3
<1>2. ASSUME NEW o \in Made', queue'[o].status = "pending"
      PROVE  ledger'[o] = NoEntry
  <2>0. o \in Ops
    BY DEF Made
  <2>1. CASE o \in Made
    <3>1. queue[o].status = "pending"
      BY <1>2, <2>1, LabelsFall
    <3>2. ledger[o] = NoEntry
      BY <2>1, <3>1 DEF Unsent
    <3> QED
      BY <1>1, <2>0, <3>1, <3>2 DEF ServedNow
  <2>2. CASE o \notin Made
    <3>1. ledger[o] = NoEntry
      BY <1>0, <2>0, <2>2 DEF KInv, LedgerSound
    <3> QED
      BY <1>1, <2>0, <2>2, <3>1 DEF ServedNow, Performed
  <2> QED
    BY <2>1, <2>2
<1>3. ASSUME NEW d \in Devices, NEW s \in Runs, NEW o \in Todo(d, s)'
      PROVE  ledger'[o] = NoEntry
  <2>1. CASE PushBegins(d, s) /\ o \in Due(d)
    <3>1. o \in Made /\ queue[o].status = "pending"
      BY <2>1 DEF Due, Queued, Made
    <3> QED
      BY <2>1, <3>1 DEF PushBegins, Unsent
  <2>2. CASE o \in Todo(d, s)
    <3>1. ledger[o] = NoEntry /\ o \in Queued(d) /\ o \in Ops /\ queue[o].dev = d
      BY <1>0, <2>2, Carries DEF Unsent, Carried, Queued
    <3>2. ASSUME ledger'[o] # ledger[o]
          PROVE  FALSE
      <4>1. PICK e \in Devices, t \in Runs : ServedNow(e, t, o)
        BY <1>1, <3>1, <3>2
      <4>2. e = d /\ t = s
        BY <3>1, <4>1 DEF ServedNow, Queued, Calm
      <4>3. run'[d][s].todo = run[d][s].todo \ {o} /\ run'[d][s].phase = "push"
        BY <4>1, <4>2 DEF ServedNow, AnswerComes
      <4>4. Todo(d, s)' = run'[d][s].todo
        BY <1>0, <4>3, Carries
      <4> QED
        BY <4>3, <4>4
    <3> QED
      BY <3>1, <3>2
  <2> QED
    BY <1>0, <2>1, <2>2, TodoMoves
<1> QED
  BY <1>2, <1>3 DEF Unsent

LEMMA GoneKept ==
  ASSUME OnlyLocal, Calm, CalmInv, Unsent, Gone, CalmStep, [Next]_vars
  PROVE  Gone'
<1>0. DInv /\ QInv /\ KInv
  BY DEF CalmInv
<1> SUFFICES ASSUME NEW o \in Made', Applied(o)', queue'[o].kind = "delete"
             PROVE  rows'[queue'[o].rec].deleted
  BY DEF Gone
<1>1. o \in Ops
  BY DEF Made
<1>2. CASE Applied(o)
  <2>1. o \in Made /\ Exists(rows[queue[o].rec])
    BY <1>0, <1>1, <1>2 DEF Applied, KInv, LedgerSound
  <2>2. queue[o].kind = "delete" /\ queue'[o].rec = queue[o].rec /\ queue[o].rec \in Records
    BY <1>0, <2>1, Stays
  <2>3. rows[queue[o].rec].deleted
    BY <1>2, <2>1, <2>2 DEF Gone
  <2> QED
    BY <1>0, <2>1, <2>2, <2>3, ServerMoves
<1>3. CASE ~Applied(o)
  <2>1. ledger'[o] # ledger[o]
    BY <1>3 DEF Applied
  <2>2. PICK d \in Devices, s \in Runs, p \in Ops : Serves(d, s, p)
    BY <2>1, CalmLedger
  <2>3. ServedNow(d, s, p)
    BY <2>2, ServesNow
  <2>4. p = o
    BY <1>1, <2>1, <2>3 DEF ServedNow, Performed
  <2> DEFINE row == rows[queue[o].rec]
             q == Sent(o)
  <2>5. /\ row \in Row /\ q \in Request /\ q.kind = queue[o].kind /\ (queue[o].kind # "create" => Exists(row))
        /\ rows'[queue[o].rec] = RowAfter(row, q) /\ ledger'[o] = Recorded(Answer(row, q)) /\ o \in Made
    BY <2>3, <2>4 DEF ServedNow, Performed
  <2>6. queue[o].kind = "delete" /\ queue'[o].rec = queue[o].rec
    BY <1>0, <2>5, Stays
  <2>7. Answer(row, q).status = "applied"
    BY <2>5 DEF Applied, Recorded
  <2> HIDE DEF row, q
  <2>8. RowAfter(row, q).deleted
    BY <2>5, <2>6, <2>7, AppliedWrites
  <2> QED
    BY <2>5, <2>6, <2>8
<1> QED
  BY <1>2, <1>3

LEMMA FreshKept ==
  ASSUME OnlyLocal, Calm, CalmInv, Unsent, Fresh, CalmStep, [Next]_vars
  PROVE  Fresh'
<1>0. DInv /\ WInv /\ QInv /\ KInv
  BY DEF CalmInv
<1> SUFFICES ASSUME NEW o \in Made', Live(o)', queue'[o].kind = "create", ledger'[o] = NoEntry
             PROVE  ~Exists(rows'[queue'[o].rec])
  BY DEF Fresh, Exists
<1>1. o \in Ops
  BY DEF Made
<1>2. CASE o \in Made
  <2> DEFINE r == queue[o].rec
  <2>1. Live(o) /\ queue[o].kind = "create" /\ queue'[o].rec = r /\ r \in Records
    BY <1>0, <1>2, Stays, LabelsFall
  <2>2. ledger[o] = NoEntry
    <3>1. CASE ledger' = ledger
      BY <3>1
    <3>2. ASSUME NEW d \in Devices, NEW s \in Runs, NEW p \in Ops, Serves(d, s, p)
          PROVE  ledger[o] = NoEntry
      <4>1. ServedNow(d, s, p)
        BY <3>2, ServesNow
      <4> QED
        BY <1>1, <4>1 DEF ServedNow, Performed
    <3> QED
      BY <3>1, <3>2, CalmLedger
  <2>3. ~Exists(rows[r])
    BY <1>2, <2>1, <2>2 DEF Fresh
  <2>4. ASSUME Exists(rows'[r])
        PROVE  FALSE
    <3>1. ASSUME NEW p \in Made, Performed(p)
          PROVE  FALSE
      <4>1. p \in Ops /\ Sent(p) \in Request /\ Sent(p).kind = queue[p].kind /\ rows[r] \in Row
        BY <1>0, <2>1, MadeItems DEF DInv, ServerTyped, Made, Sent
      <4>2. queue[p].rec = r /\ rows'[r] = RowAfter(rows[r], Sent(p))
        BY <2>1, <2>3, <2>4, <3>1 DEF Performed
      <4>3. Writes(rows[r], Sent(p))
        BY <2>3, <2>4, <4>1, <4>2, WrittenRow
      <4>4. queue[p].kind = "create"
        BY <2>3, <4>1, <4>3 DEF Writes
      <4>5. p = o
        BY <1>0, <1>2, <2>1, <4>2, <4>4 DEF WInv, CreatedOnce
      <4>6. ledger'[o] \in Entry
        BY <3>1, <4>1, <4>2, <4>5, AnswerTyped DEF Performed
      <4> QED
        BY <4>6, Sentinels
    <3>2. ASSUME NEW t \in Records, GenerateReport(t) \/ WebDelete(t)
          PROVE  FALSE
      <4>1. t = r
        BY <1>0, <2>1, <2>3, <2>4, <3>2 DEF GenerateReport, WebDelete, DInv, ServerTyped
      <4>2. queue[o].rec # t
        BY <1>1, <1>2, <2>3, <3>2, <4>1 DEF GenerateReport, WebDelete, Made
      <4> QED
        BY <4>1, <4>2
    <3>3. ~ServerStill
      BY <2>3, <2>4 DEF ServerStill
    <3> QED
      BY <1>0, <3>1, <3>2, <3>3, ServerSteps
  <2> QED
    BY <2>1, <2>4
<1>3. CASE o \notin Made
  <2>1. PICK p \in Ops, d \in Devices, r \in Records : Added(p, d, r)
    BY <1>0, <1>3, QueueSteps DEF Relabelled
  <2>2. p = o /\ queue'[o].rec = r /\ ~Exists(rows[r]) /\ rows' = rows
    BY <1>3, <2>1 DEF Added
  <2> QED
    BY <2>2
<1> QED
  BY <1>2, <1>3

LEMMA HiddenKept ==
  ASSUME OnlyLocal, Calm, CalmInv, Hidden, CalmStep, [Next]_vars
  PROVE  Hidden'
<1>0. DInv /\ QInv
  BY DEF CalmInv
<1> SUFFICES ASSUME NEW o \in Made', Live(o)', queue'[o].kind = "delete"
             PROVE  local'[queue'[o].dev][queue'[o].rec].deleted
  BY DEF Hidden
<1>1. o \in Ops
  BY DEF Made
<1>2. CASE o \notin Made
  <2>1. PICK p \in Ops, d \in Devices, r \in Records : Added(p, d, r)
    BY <1>0, <1>2, QueueSteps DEF Relabelled
  <2> QED
    BY <1>2, <2>1 DEF Added
<1>3. CASE o \in Made
  <2> DEFINE d == queue[o].dev
             r == queue[o].rec
  <2>1. Live(o) /\ queue[o].kind = "delete" /\ queue'[o].dev = d /\ queue'[o].rec = r
    BY <1>0, <1>3, Stays, LabelsFall
  <2>2. d \in Devices /\ r \in Records /\ local[d][r].deleted
    BY <1>0, <1>1, <1>3, <2>1, MadeItems DEF Hidden, DInv
  <2>3. o \in On(d, r) /\ HasLive(d, r)
    BY <1>1, <1>3, <2>1 DEF On, Queued, Made, HasLive
  <2>4. queue[o].rec = r
    OBVIOUS
  <2> HIDE DEF d, r
  <2>5. ASSUME NEW p \in Ops, Added(p, d, r)
        PROVE  local'[d][r].deleted
    BY <1>3, <2>2, <2>4, <2>5 DEF Added
  <2>6. ASSUME NEW s \in Runs, NEW p \in run[d][s].replies,
               Applies(d, s, p) \/ Clashes(d, s, p), queue[p.op].rec = r
        PROVE  local'[d][r].deleted
    BY <2>2, <2>6 DEF Applies, Clashes
  <2>7. ASSUME NEW s \in Runs, PageApplied(d, s)
        PROVE  local'[d][r].deleted
    BY <2>2, <2>3, <2>7 DEF PageApplied
  <2>8. local'[d][r].deleted
    BY <2>2, <2>5, <2>6, <2>7, LocalMoves
  <2> QED
    BY <2>1, <2>8
<1> QED
  BY <1>2, <1>3

LEMMA CoveredKept ==
  ASSUME OnlyLocal, Calm, CalmInv, Covered, CalmStep, [Next]_vars
  PROVE  Covered'
<1>0. DInv
  BY DEF CalmInv
<1>1. ASSUME NEW n \in Nat, Reachable(n)
      PROVE  Reachable(n)'
  <2>1. CASE n = 0
    BY <2>1 DEF Reachable
  <2>2. CASE \E r \in Records : n <= revision[r]
    BY <1>0, <1>1, <2>2, StaysReachable
  <2> QED
    BY <1>1, <2>1, <2>2 DEF Reachable
<1>2. ASSUME NEW d \in Devices, NEW s \in Runs, PageApplied(d, s)
      PROVE  /\ run[d][s].phase = "page" /\ cursor'[d] = run[d][s].next
             /\ run'[d][s].phase \in {"pull", "idle"}
             /\ run'[d][s].phase = "pull" => run'[d][s].since = cursor'[d]
             /\ InPage(d, s)
  <2>1. /\ run[d][s].phase = "page" /\ cursor'[d] = run[d][s].next
        /\ run'[d][s] = Pulling(run[d][s].next) \/ run'[d][s] = Idle
    BY <1>2 DEF PageApplied
  <2>2. InPage(d, s)
    BY <2>1 DEF Covered
  <2>3. CASE run'[d][s] = Pulling(run[d][s].next)
    BY <2>1, <2>2, <2>3 DEF Pulling
  <2>4. CASE run'[d][s] = Idle
    BY <2>1, <2>2, <2>4 DEF Idle
  <2> QED
    BY <2>1, <2>3, <2>4
<1>3. ASSUME NEW d \in Devices
      PROVE  Reachable(cursor[d])'
  <2>1. CASE cursor'[d] = cursor[d]
    BY <1>0, <1>1, <2>1 DEF Covered, DInv, DeviceTyped, Reachable
  <2>2. ASSUME NEW s \in Runs, PageApplied(d, s)
        PROVE  Reachable(cursor[d])'
    <3>1. PICK n \in Nat : n = run[d][s].next
      BY <1>2, <2>2 DEF InPage
    <3>2. Reachable(n) /\ cursor'[d] = n
      BY <1>2, <2>2, <3>1 DEF InPage, Reachable
    <3>3. Reachable(n)'
      BY <1>1, <3>2
    <3> QED
      BY <3>2, <3>3 DEF Reachable
  <2> QED
    BY <2>1, <2>2, CursorMoves
\* The cursor stands still unless the run of the device takes a page.
<1>4. ASSUME NEW d \in Devices, NEW s \in Runs, run[d][s].phase # "page" \/ run'[d][s].phase = "page"
      PROVE  cursor'[d] = cursor[d]
  <2>1. ASSUME NEW t \in Runs, PageApplied(d, t)
        PROVE  FALSE
    <3>1. t = s
      BY DEF Calm
    <3> QED
      BY <1>2, <1>4, <2>1, <3>1
  <2> QED
    BY <2>1, CursorMoves
<1>5. ASSUME NEW d \in Devices, NEW s \in Runs
      PROVE  /\ PushBegins(d, s) => run'[d][s].phase = "push"
             /\ Delivers(d, s) => run'[d][s].phase = "results"
             /\ \A o \in Ops : Serves(d, s, o) => run'[d][s].phase = "push"
             /\ \A p \in run[d][s].replies : Applies(d, s, p) \/ Clashes(d, s, p) => run'[d][s].phase = "results"
  BY DEF PushBegins, Delivers, Serves, AnswerComes, Applies, Clashes, Takes
<1>6. ASSUME NEW d \in Devices, NEW s \in Runs, run'[d][s].phase = "pull"
      PROVE  run'[d][s].since = cursor'[d]
  <2>1. CASE run'[d][s] = run[d][s]
    BY <1>4, <1>6, <2>1 DEF Covered
  <2>2. CASE PullBegins(d, s)
    BY <2>2 DEF PullBegins, Pulling
  <2>3. CASE PageApplied(d, s)
    BY <1>2, <1>6, <2>3
  <2>4. CASE Fetches(d, s)
    BY <1>6, <2>4 DEF Fetches
  <2> QED
    BY <1>5, <1>6, <2>1, <2>2, <2>3, <2>4, RunMoves DEF RunSteps
<1>7. ASSUME NEW d \in Devices, NEW s \in Runs, run'[d][s].phase = "page"
      PROVE  InPage(d, s)'
  <2>0. cursor'[d] = cursor[d] /\ cursor[d] \in Nat /\ revision \in [Records -> Nat]
    BY <1>0, <1>4, <1>7 DEF DInv, DeviceTyped, ServerTyped
  <2>1. CASE run'[d][s] = run[d][s]
    <3>0. InPage(d, s)
      BY <1>7, <2>1 DEF Covered
    <3>1. PICK n \in Nat : n = run[d][s].next
      BY <3>0 DEF InPage
    <3>2. PICK page : page = run[d][s].rows
      OBVIOUS
    <3>3. /\ Reachable(n) /\ \A r \in DOMAIN page : revision[r] > cursor[d]
          /\ \A r \in Records : cursor[d] < revision[r] /\ revision[r] <= n =>
                r \in DOMAIN page /\ page[r] = rows[r]
      BY <3>0, <3>1, <3>2 DEF InPage, Reachable
    <3>4. DOMAIN page \subseteq Records
      <4>1. run[d][s] \in PageState
        BY <1>0, <1>7, <2>1, RunStates
      <4> QED
        BY <3>2, <4>1 DEF PageState
    <3>5. Reachable(n)'
      BY <1>1, <3>3
    <3>6. ASSUME NEW r \in Records
          PROVE  /\ revision[r] \in Nat /\ NextRevision \in Nat /\ revision[r] < NextRevision /\ n < NextRevision
                 /\ \/ rows'[r] = rows[r] /\ revision'[r] = revision[r]
                    \/ revision'[r] = NextRevision
      BY <1>0, <2>0, <3>3, StaysReachable, RevisionsRise, ServerMoves
    <3>7. \A r \in DOMAIN page : revision'[r] > cursor[d]
      BY <2>0, <3>3, <3>4, <3>6
    <3>8. ASSUME NEW r \in Records, cursor[d] < revision'[r], revision'[r] <= n
          PROVE  r \in DOMAIN page /\ page[r] = rows'[r]
      <4>1. rows'[r] = rows[r] /\ revision'[r] = revision[r]
        BY <3>6, <3>8
      <4> QED
        BY <3>3, <3>8, <4>1
    <3>9. run'[d][s].next = n /\ run'[d][s].rows = page
      BY <2>1, <3>1, <3>2
    <3> QED
      BY <2>0, <3>5, <3>7, <3>8, <3>9 DEF InPage, Reachable
  <2>2. CASE Fetches(d, s)
    <3>1. /\ run[d][s].phase = "pull" /\ rows' = rows /\ revision' = revision
          /\ \E page \in SUBSET Records : Fetched(d, s, page)
      BY <2>2 DEF Fetches
    <3>2. run[d][s].since = cursor[d] /\ Reachable(cursor[d])
      BY <3>1 DEF Covered
    <3>3. PICK page \in SUBSET Records : Fetched(d, s, page)
      BY <3>1
    <3>4. PICK n : n = run'[d][s].next
      OBVIOUS
    <3>5. /\ \A r \in page : r \in Records /\ revision[r] > cursor[d]
          /\ \A r \in page, t \in Records \ page : revision[t] > cursor[d] => revision[r] < revision[t]
          /\ DOMAIN run'[d][s].rows = page /\ \A r \in page : run'[d][s].rows[r] = rows[r]
          /\ n \in Nat /\ (n = cursor[d] \/ \E r \in page : n = revision[r])
      BY <3>2, <3>3, <3>4 DEF Fetched
    <3>6. Reachable(n)
      <4>1. CASE n = cursor[d]
        BY <3>2, <4>1 DEF Reachable
      <4>2. ASSUME NEW r \in page, n = revision[r]
            PROVE  Reachable(n)
        BY <2>0, <3>5, <4>2 DEF Reachable
      <4> QED
        BY <3>5, <4>1, <4>2
    <3>7. ASSUME NEW r \in Records, cursor[d] < revision[r], revision[r] <= n
          PROVE  r \in page
      <4>1. CASE n = cursor[d]
        BY <2>0, <3>7, <4>1
      <4>2. ASSUME NEW t \in page, n = revision[t], r \notin page
            PROVE  FALSE
        BY <2>0, <3>5, <3>7, <4>2
      <4> QED
        BY <3>5, <4>1, <4>2
    <3> QED
      BY <2>0, <3>1, <3>4, <3>5, <3>6, <3>7 DEF InPage, Reachable
  <2>3. CASE PullBegins(d, s) \/ PageApplied(d, s)
    BY <1>2, <1>7, <2>3 DEF PullBegins, Pulling
  <2> QED
    BY <1>5, <1>7, <2>1, <2>2, <2>3, RunMoves DEF RunSteps
<1> QED
  BY <1>3, <1>6, <1>7 DEF Covered

LEMMA BeyondKept ==
  ASSUME OnlyLocal, Calm, CalmInv, RInv, CalmStep, [Next]_vars
  PROVE  Beyond'
<1>0. DInv /\ QInv /\ KInv /\ Unsent /\ Fresh /\ Covered /\ Beyond
  BY DEF CalmInv, RInv
<1> SUFFICES ASSUME NEW d \in Devices, NEW s \in Runs, NEW p \in Answers(d, s)', p.answer.status = "applied"
             PROVE  \/ revision'[queue'[p.op].rec] > cursor'[d]
                    \/ queue'[p.op].kind = "delete" /\ rows'[queue'[p.op].rec].deleted
  BY DEF Beyond
<1>1. run'[d][s].phase \in {"push", "results"}
  BY <1>0, Carries
<1>2. cursor'[d] = cursor[d] /\ cursor[d] \in Nat
  <2>1. ASSUME NEW t \in Runs, PageApplied(d, t)
        PROVE  FALSE
    <3>1. t = s
      BY DEF Calm
    <3> QED
      BY <1>1, <2>1, <3>1 DEF PageApplied, Pulling, Idle
  <2> QED
    BY <1>0, <2>1, CursorMoves DEF DInv, DeviceTyped
<1>3. CASE p \in Answers(d, s)
  <2> DEFINE r == queue[p.op].rec
  <2>1. p.op \in Made /\ Exists(rows[r])
    BY <1>0, <1>3, Carries DEF Carried, KInv, Answerable
  <2>2. r \in Records /\ queue'[p.op].rec = r /\ queue'[p.op].kind = queue[p.op].kind
    BY <1>0, <2>1, Stays
  <2>3. revision[r] > cursor[d] \/ (queue[p.op].kind = "delete" /\ rows[r].deleted)
    BY <1>0, <1>3 DEF Beyond
  <2>4. revision[r] \in Nat /\ NextRevision \in Nat /\ revision[r] < NextRevision
    BY <1>0, <2>2, RevisionsRise DEF DInv, ServerTyped
  <2>5. revision'[r] = revision[r] \/ revision'[r] = NextRevision
    BY <1>0, <2>2, ServerMoves
  <2>6. rows[r].deleted => rows'[r].deleted
    BY <1>0, <2>1, <2>2, ServerMoves
  <2> HIDE DEF r
  <2> QED
    BY <1>2, <2>2, <2>3, <2>4, <2>5, <2>6
<1>4. ASSUME NEW o \in Ops, Serves(d, s, o), p.op = o, p \notin Answers(d, s),
             run'[d][s].replies = run[d][s].replies \cup {p}
      PROVE  \/ revision'[queue'[p.op].rec] > cursor'[d]
             \/ queue'[p.op].kind = "delete" /\ rows'[queue'[p.op].rec].deleted
  <2>1. ServedNow(d, s, o) /\ o \in Made
    BY <1>0, <1>4, ServesNow DEF ServedNow, Performed
  <2> DEFINE r == queue[o].rec
             row == rows[r]
             q == Sent(o)
  <2>2. p.answer = Answer(row, q)
    <3>1. PICK x : x.op = o /\ x.answer = Answer(row, q) /\ run'[d][s].replies = run[d][s].replies \cup {x}
      BY <2>1 DEF ServedNow, AnswerComes
    <3>2. p \notin run[d][s].replies
      BY <1>0, <1>4, <2>1, Carries DEF ServedNow, AnswerComes
    <3> QED
      BY <1>4, <3>1, <3>2
  <2>3. /\ r \in Records /\ row \in Row /\ q \in Request /\ q.kind = queue[o].kind
        /\ queue'[o].rec = r /\ queue'[o].kind = queue[o].kind
        /\ queue[o].kind # "create" => Exists(row)
        /\ rows'[r] = RowAfter(row, q) /\ (Writes(row, q) => revision'[r] = NextRevision)
    BY <1>0, <2>1, Stays DEF ServedNow, Performed
  <2>4. queue[o].kind = "create" => ~Exists(row)
    BY <1>0, <2>1 DEF Fresh, Live, ServedNow, Performed
  <2>5. cursor[d] < NextRevision /\ NextRevision \in Nat
    BY <1>0, <1>2, <2>3, StaysReachable DEF Covered
  <2> HIDE DEF r, row, q
  <2>6. Writes(row, q) \/ (q.kind = "delete" /\ RowAfter(row, q).deleted)
    BY <2>2, <2>3, <2>4, AppliedWrites
  <2> QED
    BY <1>2, <1>4, <2>3, <2>5, <2>6
<1> QED
  BY <1>0, <1>3, <1>4, AnswersMove

\* What a page leaves of a row is what it says.
LEMMA PulledAgrees ==
  ASSUME NEW d \in Devices, NEW r \in Records, rows'[r] \in Row, local[d][r] \in LocalRow \cup {NoLocal},
         local'[d][r] = Pulled(local[d][r], rows'[r])
  PROVE  Agrees(d, r)'
<1> DEFINE row == rows'[r]
           mine == local[d][r]
<1>1. row.deleted \in BOOLEAN
  BY DEF Row
<1>2. CASE row.deleted /\ mine = NoLocal
  <2>1. local'[d][r] = NoLocal
    BY <1>2 DEF Pulled
  <2> QED
    BY <1>2, <2>1 DEF Agrees, Shown
<1>3. CASE row.deleted /\ mine # NoLocal
  <2> DEFINE x == [mine EXCEPT !.deleted = TRUE, !.version = row.version, !.status = "synced"]
  <2>1. local'[d][r] = x
    BY <1>3 DEF Pulled
  <2>2. x.deleted
    BY <1>3 DEF LocalRow
  <2> HIDE DEF x
  <2> QED
    BY <1>3, <2>1, <2>2 DEF Agrees, Shown
<1>4. CASE ~row.deleted
  <2> DEFINE x == [version |-> row.version, deleted |-> FALSE, content |-> row.content, status |-> "synced"]
  <2>1. local'[d][r] = x
    BY <1>4 DEF Pulled
  <2>2. x.version = row.version /\ x.content = row.content /\ x.deleted = FALSE /\ x.status = "synced"
    OBVIOUS
  <2>3. x # NoLocal
    BY <2>2 DEF NoLocal
  <2> HIDE DEF x
  <2> QED
    BY <1>4, <2>1, <2>2, <2>3 DEF Agrees, Shown
<1> QED
  BY <1>2, <1>3, <1>4

LEMMA AgreedKept ==
  ASSUME OnlyLocal, Calm, CalmInv, RInv, CalmStep, [Next]_vars
  PROVE  Agreed'
<1>0. DInv /\ QInv /\ KInv /\ Covered /\ Beyond /\ Hidden /\ Agreed
  BY DEF CalmInv, RInv
<1> SUFFICES ASSUME NEW d \in Devices, NEW r \in Records, Done(d, r)', Exists(rows'[r]),
                    revision'[r] <= cursor'[d]
             PROVE  Agrees(d, r)'
  BY DEF Agreed, Exists
<1>1. \A o \in On(d, r) : o \in On(d, r)' /\ o \in Made /\ o \in Ops /\ queue[o].dev = d /\ queue[o].rec = r
  BY <1>0, Stays DEF On, Queued, Made
<1>2. ~HasLive(d, r)' /\ \A o \in On(d, r) : ~Unresolved(o)' /\ ~Unresolved(o)
  <2>1. ~HasLive(d, r)' /\ \A o \in On(d, r) : ~Unresolved(o)'
    BY <1>1 DEF Done
  <2> QED
    BY <1>0, <1>1, <2>1, ConflictsOpen
<1>3. HasLive(d, r) => Answered(d, r)
  BY <1>0, <1>2, LastLeaves
\* The row has not changed: a change is beyond any cursor.
<1>4. /\ cursor[d] \in Nat /\ cursor'[d] \in Nat /\ revision \in [Records -> Nat] /\ rows[r] \in Row
      /\ local[d][r] \in LocalRow \cup {NoLocal}
  BY <1>0, DNext, DStutter DEF DInv, DeviceTyped, ServerTyped
<1>5. CASE revision'[r] = NextRevision
  <2>1. \A s \in Runs : PageApplied(d, s) => revision'[r] = revision[r]
    BY DEF PageApplied
  <2>2. revision[r] < NextRevision /\ NextRevision \in Nat
    BY <1>4, RevisionsRise
  <2>3. cursor'[d] = cursor[d]
    BY <1>4, <1>5, <2>1, <2>2, CursorMoves
  <2>4. cursor[d] < NextRevision
    BY <1>0, <1>4, StaysReachable DEF Covered
  <2> QED
    BY <1>4, <1>5, <2>2, <2>3, <2>4
<1>6. CASE rows'[r] = rows[r] /\ revision'[r] = revision[r]
  <2>1. ASSUME NEW s \in Runs, PageApplied(d, s)
        PROVE  Agrees(d, r)'
    <3>1. queue' = queue /\ conflicts' = conflicts
      BY <2>1 DEF PageApplied
    <3>2. ~HasLive(d, r) /\ Done(d, r)
      BY <1>2, <3>1 DEF HasLive, On, Queued, Live, Done
    <3>3. InPage(d, s) /\ cursor'[d] = run[d][s].next
      BY <1>0, <2>1 DEF PageApplied, Covered
    <3>4. local'[d][r] = IF r \in DOMAIN run[d][s].rows
                         THEN Pulled(local[d][r], run[d][s].rows[r]) ELSE local[d][r]
      BY <2>1, <3>2 DEF PageApplied
    <3>5. CASE revision[r] <= cursor[d]
      <4>1. r \notin DOMAIN run[d][s].rows
        BY <1>4, <3>3, <3>5 DEF InPage
      <4>2. local'[d][r] = local[d][r]
        BY <3>4, <4>1
      <4>3. Agrees(d, r)
        BY <1>0, <1>6, <3>2, <3>5 DEF Agreed, Exists
      <4> QED
        BY <1>6, <4>2, <4>3 DEF Agrees, Shown
    <3>6. CASE ~(revision[r] <= cursor[d])
      <4>1. r \in DOMAIN run[d][s].rows /\ run[d][s].rows[r] = rows'[r]
        BY <1>4, <1>6, <3>3, <3>6 DEF InPage
      <4>2. local'[d][r] = Pulled(local[d][r], rows'[r])
        BY <3>4, <4>1
      <4> QED
        BY <1>4, <1>6, <4>2, PulledAgrees
    <3> QED
      BY <3>5, <3>6
  <2>2. ASSUME ~ \E s \in Runs : PageApplied(d, s)
        PROVE  Agrees(d, r)'
    <3>1. cursor'[d] = cursor[d]
      BY <2>2, CursorMoves
    <3>2. ASSUME HasLive(d, r)
          PROVE  Agrees(d, r)'
      <4>1. PICK s \in Runs : \E p \in run[d][s].replies :
                  (Applies(d, s, p) \/ Clashes(d, s, p)) /\ p.op \in On(d, r)
        BY <1>3, <3>2 DEF Answered
      <4>2. PICK p \in run[d][s].replies : (Applies(d, s, p) \/ Clashes(d, s, p)) /\ p.op \in On(d, r)
        BY <4>1
      <4>3. ~Clashes(d, s, p)
        BY <1>2, <4>2 DEF Clashes, Unresolved
      <4>4. Applies(d, s, p) /\ queue[p.op].rec = r /\ queue[p.op].dev = d /\ p.op \in Made
        BY <1>1, <4>2, <4>3
      <4>5. p \in Answers(d, s) /\ p.answer.status = "applied"
        BY <4>4 DEF Applies, Takes, Answers
      <4>6. ~(revision[r] > cursor[d])
        BY <1>4, <1>6, <3>1
      <4>7. queue[p.op].kind = "delete" /\ rows[r].deleted
        BY <1>0, <4>4, <4>5, <4>6 DEF Beyond
      <4>8. p.op \in Carried(d, s)
        BY <4>5 DEF Carried
      <4>9. local[d][r].deleted
        BY <1>0, <4>4, <4>7, <4>8 DEF QInv, Flying, Live, Hidden
      <4>10. local'[d][r].deleted
        BY <4>4, <4>9 DEF Applies
      <4> QED
        BY <1>6, <4>7, <4>10 DEF Agrees, Shown
    <3>3. ASSUME ~HasLive(d, r)
          PROVE  Agrees(d, r)'
      <4>1. Agrees(d, r)
        BY <1>0, <1>2, <1>6, <3>1, <3>3 DEF Agreed, Done, Exists
      <4>2. ASSUME NEW o \in Ops, Added(o, d, r)
            PROVE  FALSE
        <5>1. o \in On(d, r)' /\ Live(o)'
          BY <4>2 DEF Added, On, Queued, Made, Live
        <5> QED
          BY <1>2, <5>1 DEF HasLive
      <4>3. ASSUME NEW s \in Runs, NEW p \in run[d][s].replies,
                   Applies(d, s, p) \/ Clashes(d, s, p), queue[p.op].rec = r
            PROVE  FALSE
        <5>1. p.op \in Queued(d) /\ p \in Answers(d, s)
          BY <4>3 DEF Applies, Clashes, Takes, Answers
        <5>2. p.op \in On(d, r) /\ p.op \in Carried(d, s)
          BY <4>3, <5>1 DEF On, Carried
        <5>3. Live(p.op)
          BY <1>0, <5>2 DEF QInv, Flying, Live
        <5> QED
          BY <3>3, <5>2, <5>3 DEF HasLive
      <4>4. local'[d][r] = local[d][r]
        BY <2>2, <4>2, <4>3, LocalMoves
      <4> QED
        BY <1>6, <4>1, <4>4 DEF Agrees, Shown
    <3> QED
      BY <3>2, <3>3
  <2> QED
    BY <2>1, <2>2
<1> QED
  BY <1>0, <1>5, <1>6, ServerMoves

LEMMA ReconcileInit ==
  ASSUME Init
  PROVE  RInv
<1>1. Made = {} /\ \A d \in Devices, r \in Records : On(d, r) = {}
  BY DEF Init, Made, Queued, On
<1>2. \A d \in Devices, s \in Runs : run[d][s].phase = "idle" /\ Answers(d, s) = {} /\ Todo(d, s) = {}
  BY DEF Init, Idle, Answers, Todo
<1>3. \A r \in Records : ~Exists(rows[r])
  <2>1. NoRow.version = 0
    BY DEF NoRow
  <2>2. \A r \in Records : rows[r] = NoRow
    BY DEF Init
  <2>3. \A r \in Records : rows[r].version = 0
    BY <2>1, <2>2
  <2>4. ~(0 > 0)
    OBVIOUS
  <2> QED
    BY <2>3, <2>4 DEF Exists
<1>4. Covered
  BY <1>2 DEF Init, Covered, Reachable
<1>5. Unsent /\ Fresh /\ Gone /\ Hidden /\ Beyond
  BY <1>1, <1>2 DEF Unsent, Fresh, Gone, Hidden, Beyond
<1>6. Agreed
  BY <1>3 DEF Agreed
<1> QED
  BY <1>4, <1>5, <1>6 DEF RInv

LEMMA ReconcileNext ==
  ASSUME OnlyLocal, Calm, CalmInv, RInv, [Next]_vars
  PROVE  RInv'
<1>1. CalmStep
  BY CalmSteps
<1>2. Unsent /\ Fresh /\ Gone /\ Hidden /\ Covered
  BY DEF RInv
<1>3. Unsent' /\ Fresh' /\ Gone' /\ Hidden' /\ Covered'
  BY <1>1, <1>2, UnsentKept, FreshKept, GoneKept, HiddenKept, CoveredKept
<1>4. Beyond' /\ Agreed'
  BY <1>1, BeyondKept, AgreedKept
<1> QED
  BY <1>3, <1>4 DEF RInv

\* When nothing is lost, nothing crashes, one run is under way at a time and
\* conflicts are settled with the local side, a deletion that is done has
\* deleted the record on the server, and a device that is done with a
\* record - nothing queued, no open conflict, its cursor past the record's
\* last change - shows what the server has (engine.js runSync,
\* entityHandlers.js applyPulled, sync.js GET /pull).
THEOREM ReconcilesInCalm == ASSUME Calm, OnlyLocal PROVE Spec => []Reconciled
<1>1. CalmInv /\ RInv /\ [Next]_vars => CalmInv' /\ RInv'
  BY CalmNext, ReconcileNext
<1>2. CalmInv /\ RInv => Reconciled
  <2> SUFFICES ASSUME CalmInv, RInv
               PROVE  Reconciled
    OBVIOUS
  <2>0. DInv /\ KInv /\ Gone /\ Agreed
    BY DEF CalmInv, RInv
  <2>1. DeletesLand
    <3> SUFFICES ASSUME NEW o \in Ops, queue[o].status = "done", queue[o].kind = "delete"
                 PROVE  rows[queue[o].rec].deleted
      BY DEF DeletesLand
    <3>1. o \in Made
      BY <2>0, MadeItems DEF DInv
    <3>2. Applied(o)
      BY <2>0 DEF DInv, NothingDropped, Applied
    <3> QED
      BY <2>0, <3>1, <3>2 DEF Gone
  <2>2. Converged
    BY <2>0 DEF Converged, Settled, Agreed, Done, Agrees
  <2> QED
    BY <2>1, <2>2 DEF Reconciled
<1> QED
  BY <1>1, <1>2, CalmInit, ReconcileInit, PTL DEF Spec
=============================================================================
