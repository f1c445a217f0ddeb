-------------------------- MODULE SyncServerProofs --------------------------

(***************************************************************************)
(* The safety of SyncServer for any number of records, operations,         *)
(* connections and devices: an inductive invariant, and from it the type   *)
(* invariant, the properties of SyncServer and the step simulation that    *)
(* makes the server an implementation of SyncLedger.                       *)
(***************************************************************************)
EXTENDS SyncServer, TLAPS

(***************************************************************************)
(* The inductive invariant.                                                *)
(***************************************************************************)

\* What a transaction of a push knows in each of its phases.  The point is
\* the row lock: while it is held the row first read is the committed row.
PushOK(c) ==
    LET t == tx[c]
        q == request[t.op]
    IN  /\ t.op \in Ops /\ q \in Request /\ t.rec = q.rec
        /\ t.phase \in {"open", "selected", "written", "ready"}
        /\ t.lock => t.seen = rows[t.rec]
        /\ t.phase = "open" => ~t.lock /\ ~t.write
        /\ t.phase = "selected" =>
              ~t.write /\ t.row = t.seen /\ (~t.lock => t.seen = NoRow)
        /\ t.phase \in {"written", "ready"} =>
              /\ t.write = Writes(t.seen, q)
              /\ t.row = RowAfter(t.seen, q)
              /\ ~t.lock => t.seen = NoRow /\ ~t.write
        /\ t.phase = "ready" => ledger[t.op] = NoEntry

\* What another writer may do to a row.
OtherWrite(old, new) ==
    \/ Exists(old) /\ new = [old EXCEPT !.deleted = TRUE]
    \/ Exists(old) /\ new.version = old.version + 1 /\ new.deleted = old.deleted
    \/ old = NoRow /\ new = Generated

WriterOK(c) ==
    LET t == tx[c]
    IN  /\ t.op = NoOp
        /\ t.phase \in {"checked", "read", "ready"}
        /\ t.phase # "ready" => ~t.lock /\ ~t.write
        /\ (t.phase = "read" \/ t.phase = "checked") => Exists(rows[t.rec])
        /\ t.phase = "ready" => t.lock /\ t.write /\ OtherWrite(rows[t.rec], t.row)

TxOK == \A c \in Conns : tx[c] # Idle => PushOK(c) \/ WriterOK(c)

\* One holder per row lock, one uncommitted ledger row per operation.
Exclusive ==
    \A c, d \in Conns :
       c # d /\ tx[c] # Idle /\ tx[d] # Idle =>
          /\ ~ (tx[c].lock /\ tx[d].lock /\ tx[c].rec = tx[d].rec)
          /\ ~ (tx[c].phase = "ready" /\ tx[d].phase = "ready"
                /\ tx[c].op = tx[d].op /\ tx[c].op # NoOp)

RowsOK == \A r \in Records : ~Exists(rows[r]) => rows[r] = NoRow

RequestsOK ==
    \A o \in Ops : /\ request[o] # NoRequest /\ request[o].kind = "create" => request[o].base = 0
                   /\ ledger[o] # NoEntry => request[o] # NoRequest

EffectsOK ==
    \A e \in effects :
       /\ request[e.op] # NoRequest /\ e.rec = request[e.op].rec
       /\ e.version = request[e.op].base + 1
       /\ e.version <= rows[e.rec].version

IInv == /\ TypeOK /\ TxOK /\ Exclusive /\ RowsOK /\ RequestsOK /\ EffectsOK
        /\ NoLostUpdate /\ AnswerMatchesEffect /\ DeletesHold

(***************************************************************************)
(* What the operators of SyncOps return.                                   *)
(***************************************************************************)

\* An operation that writes turns a row into a row, one version later; it
\* never revives a tombstone.
LEMMA WrittenLemma ==
    ASSUME NEW row \in Row, NEW q \in Request, Writes(row, q),
           row.version = 0 => row = NoRow,
           q.kind = "create" => q.base = 0
    PROVE  /\ Written(row, q) \in Row
           /\ Written(row, q).version = row.version + 1
           /\ Written(row, q).version = q.base + 1
           /\ row.deleted => Written(row, q).deleted
           /\ q.kind = "delete" => Written(row, q).deleted
  <1>1. CASE q.kind = "create"
    BY <1>1 DEF Writes, Written, Row, Request, NoRow, Exists, Kinds
  <1>2. CASE q.kind = "update"
    BY <1>2 DEF Writes, Written, Row, Request, Exists, Stale, Kinds
  <1>3. CASE q.kind = "delete"
    BY <1>3 DEF Writes, Written, Row, Request, Exists, Stale, Kinds
  <1> QED  BY <1>1, <1>2, <1>3 DEF Request, Kinds

\* The answer to an operation has the type of an answer.
LEMMA AnswerLemma ==
    ASSUME NEW row \in Row, NEW q \in Request, RowAfter(row, q) \in Row
    PROVE  /\ Answer(row, q) \in Response
           /\ Recorded(Answer(row, q)) \in Entry
           /\ Recorded(Answer(row, q)) # NoEntry
  <1>1. Status(row, q) \in Statuses
    BY DEF Status, Statuses
  <1>2. Answer(row, q) \in Response
    BY <1>1 DEF Answer, Response, Row, Request, Contents
  <1>3. Recorded(Answer(row, q)) \in Entry
    BY <1>2 DEF Recorded, Response, Entry
  <1>4. Recorded(Answer(row, q)) # NoEntry
    BY <1>2 DEF Recorded, Response, NoEntry, Statuses
  <1> QED  BY <1>2, <1>3, <1>4

\* Idle is no transaction and NoEntry is no entry: the phase and the status
\* tell them apart.
LEMMA Sentinels ==
    /\ Idle \notin Tx /\ Idle.phase = "idle"
    /\ NoEntry \notin Entry /\ NoRequest \notin Request
    /\ NoRow \in Row /\ Generated \in Row
  BY DEF Idle, Tx, Phases, NoEntry, Entry, Statuses, NoRequest, Request, Kinds,
         NoRow, Generated, Row, Contents

(***************************************************************************)
(* Frames: what a step that touches one transaction only must show.        *)
(***************************************************************************)

\* While the tables, the requests and the effects stand still, so does every
\* part of the invariant that speaks of nothing else.
LEMMA StillTables ==
    ASSUME IInv, UNCHANGED <<rows, ledger, request, effects>>
    PROVE  /\ RowsOK' /\ RequestsOK' /\ EffectsOK'
           /\ NoLostUpdate' /\ AnswerMatchesEffect' /\ DeletesHold'
  BY DEF IInv, RowsOK, RequestsOK, EffectsOK, NoLostUpdate, AnswerMatchesEffect,
         DeletesHold, Exists

\* Replacing one transaction keeps the transactions well formed if the new
\* one is, and takes no lock and no ledger key another one holds.
LEMMA OneTx ==
    ASSUME TypeOK, TxOK, Exclusive,
           NEW c \in Conns, NEW t \in Tx \cup {Idle},
           tx' = [tx EXCEPT ![c] = t],
           UNCHANGED <<rows, ledger, request>>,
           t # Idle => PushOK(c)' \/ WriterOK(c)',
           t # Idle => \A d \in Conns \ {c} : tx[d] # Idle =>
              /\ ~ (t.lock /\ tx[d].lock /\ t.rec = tx[d].rec)
              /\ ~ (t.phase = "ready" /\ tx[d].phase = "ready" /\ t.op = tx[d].op /\ t.op # NoOp)
    PROVE  /\ tx' \in [Conns -> Tx \cup {Idle}]
           /\ TxOK' /\ Exclusive'
  <1>1. tx' \in [Conns -> Tx \cup {Idle}] /\ tx'[c] = t
    BY DEF TypeOK
  <1>2. \A d \in Conns \ {c} : tx'[d] = tx[d]
    BY DEF TypeOK
  <1>3. TxOK'
    <2> SUFFICES ASSUME NEW d \in Conns, tx'[d] # Idle
                 PROVE  PushOK(d)' \/ WriterOK(d)'
      BY DEF TxOK
    <2>1. CASE d = c
      BY <2>1, <1>1
    <2>2. CASE d # c
      <3>1. PushOK(d) \/ WriterOK(d)
        BY <2>2, <1>2 DEF TxOK
      <3>2. CASE PushOK(d)
        BY <3>2, <2>2, <1>2 DEF PushOK
      <3>3. CASE WriterOK(d)
        BY <3>3, <2>2, <1>2 DEF WriterOK
      <3> QED  BY <3>1, <3>2, <3>3
    <2> QED  BY <2>1, <2>2
  <1>4. Exclusive'
    BY <1>1, <1>2 DEF Exclusive
  <1> QED  BY <1>1, <1>3, <1>4

\* A transaction that ends leaves the others as they were.
LEMMA ReleaseLemma ==
    ASSUME IInv, NEW c \in Conns, Release(c), UNCHANGED <<rows, ledger, request>>
    PROVE  /\ tx' \in [Conns -> Tx \cup {Idle}]
           /\ TxOK' /\ Exclusive'
  BY OneTx DEF IInv, Release

(***************************************************************************)
(* One lemma per action: the invariant is preserved.                       *)
(***************************************************************************)

\* The invariant holds of empty tables.
LEMMA InitLemma == Init => IInv
  BY Sentinels DEF Init, IInv, TypeOK, TxOK, Exclusive, RowsOK, RequestsOK, EffectsOK,
     NoLostUpdate, AnswerMatchesEffect, DeletesHold, Exists, NoRow

\* A new request concerns an operation nothing has been recorded of.
LEMMA SubmitLemma ==
    ASSUME IInv, NEW o \in Ops, Submit(o) PROVE IInv'
  <1>1. /\ request' \in [Ops -> Request \cup {NoRequest}]
        /\ request[o] = NoRequest /\ \A p \in Ops \ {o} : request'[p] = request[p]
        /\ request'[o].kind = "create" => request'[o].base = 0
        /\ request'[o] \in Request
    <2>1. PICK kind \in Kinds, r \in Records, base \in 1 .. MaxBase, content \in {o, NoOp} :
             request' = [request EXCEPT ![o] =
                          [kind |-> kind, rec |-> r, content |-> content,
                           base |-> IF kind = "create" THEN 0 ELSE base]]
      BY DEF Submit
    <2>2. [kind |-> kind, rec |-> r, content |-> content,
           base |-> IF kind = "create" THEN 0 ELSE base] \in Request
      BY BoundsAssumption DEF Request, Contents
    <2> QED  BY <2>1, <2>2 DEF Submit, IInv, TypeOK
  <1>2. TypeOK'
    BY <1>1 DEF Submit, IInv, TypeOK
  <1>3. TxOK' /\ Exclusive'
    <2>1. ASSUME NEW c \in Conns, PushOK(c) PROVE PushOK(c)'
      <3>1. tx[c].op # o
        BY <2>1, <1>1, Sentinels DEF PushOK
      <3> QED  BY <3>1, <2>1, <1>1 DEF PushOK, Submit
    <2>2. ASSUME NEW c \in Conns, WriterOK(c) PROVE WriterOK(c)'
      BY <2>2 DEF WriterOK, Submit
    <2> QED  BY <2>1, <2>2 DEF Submit, IInv, TxOK, Exclusive
  <1>4. RowsOK' /\ RequestsOK' /\ EffectsOK'
    BY <1>1, Sentinels DEF Submit, IInv, RowsOK, RequestsOK, EffectsOK, TypeOK
  <1>5. NoLostUpdate' /\ AnswerMatchesEffect' /\ DeletesHold'
    BY <1>1 DEF Submit, IInv, EffectsOK, RequestsOK, NoLostUpdate, AnswerMatchesEffect,
       DeletesHold, TypeOK
  <1> QED  BY <1>2, <1>3, <1>4, <1>5 DEF IInv

\* BEGIN and the ledger lookup that finds nothing.
LEMMA BeginLemma ==
    ASSUME IInv, NEW c \in Conns, NEW o \in Ops, Begin(c, o) PROVE IInv'
  <1> DEFINE t == Opened("open", o, request[o].rec, NoRow)
  <1>1. request[o] \in Request
    BY DEF Begin, IInv, TypeOK
  <1>2. t \in Tx /\ t.phase = "open" /\ t.op = o /\ t.rec = request[o].rec /\ ~t.lock /\ ~t.write
    BY <1>1, Sentinels DEF Opened, Tx, Phases, Contents, Request
  <1>3. tx'[c] = t /\ tx' = [tx EXCEPT ![c] = t] /\ tx[c] = Idle
    BY DEF Begin, IInv, TypeOK
  <1>4. PushOK(c)'
    BY <1>1, <1>2, <1>3 DEF PushOK, Begin
  <1>5. tx' \in [Conns -> Tx \cup {Idle}] /\ TxOK' /\ Exclusive'
    <2> HIDE DEF t
    <2> QED  BY OneTx, <1>2, <1>3, <1>4 DEF Begin, IInv
  <1>6. TypeOK'
    BY <1>5 DEF Begin, IInv, TypeOK
  <1> QED  BY <1>5, <1>6, StillTables DEF Begin, IInv

\* A replayed answer ends the transaction and writes nothing.
LEMMA ReplayAnswerLemma ==
    ASSUME IInv, NEW c \in Conns, NEW o \in Ops, ReplayAnswer(c, o) PROVE IInv'
  <1>1. Replay(ledger[o]) \in Response
    BY DEF ReplayAnswer, IInv, TypeOK, Replay, Entry, Response
  <1>2. TypeOK'
    BY <1>1 DEF ReplayAnswer, IInv, TypeOK
  <1>3. TxOK' /\ Exclusive'
    BY DEF ReplayAnswer, IInv, TxOK, Exclusive, PushOK, WriterOK
  <1> QED  BY <1>2, <1>3, StillTables DEF ReplayAnswer, IInv

\* SELECT ... FOR UPDATE: from here on the row lock keeps the row as it was read.
LEMMA SelectForUpdateLemma ==
    ASSUME IInv, NEW c \in Conns, SelectForUpdate(c) PROVE IInv'
  <1> DEFINE row == rows[tx[c].rec]
             t == [tx[c] EXCEPT !.phase = "selected", !.seen = row, !.row = row,
                                !.lock = Exists(row)]
  <1>1. tx[c] # Idle /\ tx[c] \in Tx /\ PushOK(c) /\ tx[c].phase = "open"
    BY Sentinels DEF SelectForUpdate, IInv, TypeOK, TxOK, WriterOK
  <1>2. row \in Row /\ Exists(row) \in BOOLEAN /\ (~Exists(row) => row = NoRow)
    BY <1>1 DEF IInv, TypeOK, RowsOK, Tx, Exists, Row
  <1>3. /\ t \in Tx /\ t.phase = "selected" /\ t.op = tx[c].op /\ t.rec = tx[c].rec
        /\ t.seen = row /\ t.row = row /\ t.lock = Exists(row) /\ t.write = tx[c].write
    BY <1>1, <1>2 DEF Tx, Phases
  <1>4. tx' = [tx EXCEPT ![c] = t] /\ tx'[c] = t
    BY <1>1 DEF SelectForUpdate, IInv, TypeOK
  <1>5. PushOK(c)'
    <2>1. rows' = rows /\ ledger' = ledger /\ request' = request
      BY DEF SelectForUpdate
    <2>2. /\ tx[c].op \in Ops /\ request[tx[c].op] \in Request
          /\ tx[c].rec = request[tx[c].op].rec /\ ~tx[c].write
      BY <1>1 DEF PushOK
    <2>3. (~t.lock => t.seen = NoRow) /\ t.seen = rows[t.rec]
      BY <1>2, <1>3
    <2> HIDE DEF t, row
    <2> QED  BY <1>3, <1>4, <2>1, <2>2, <2>3 DEF PushOK
  <1>6. \A d \in Conns \ {c} : tx[d] # Idle => ~ (t.lock /\ tx[d].lock /\ t.rec = tx[d].rec)
    BY <1>3 DEF SelectForUpdate, Locked
  <1>7. tx' \in [Conns -> Tx \cup {Idle}] /\ TxOK' /\ Exclusive'
    <2> HIDE DEF t
    <2>1. TypeOK /\ TxOK /\ Exclusive /\ UNCHANGED <<rows, ledger, request>>
      BY DEF SelectForUpdate, IInv
    <2>2. t \in Tx \cup {Idle} /\ t.phase # "ready"
      BY <1>3
    <2> QED  BY OneTx, <1>4, <1>5, <1>6, <2>1, <2>2
  <1>8. TypeOK'
    BY <1>7 DEF SelectForUpdate, IInv, TypeOK
  <1> QED  BY <1>7, <1>8, StillTables DEF SelectForUpdate, IInv

\* The lock an inserting transaction takes is its own: nobody else holds one.
LEMMA ApplyLemma ==
    ASSUME IInv, NEW c \in Conns, Apply(c) PROVE IInv'
  <1> DEFINE q == request[tx[c].op]
             seen == tx[c].seen
             u == [tx[c] EXCEPT !.phase = "written"]
             w == [tx[c] EXCEPT !.phase = "written", !.row = Written(seen, q),
                    !.write = TRUE, !.lock = TRUE, !.revision = sequence + 1]
  <1>1. tx[c] # Idle /\ tx[c] \in Tx /\ PushOK(c) /\ tx[c].phase = "selected"
    BY Sentinels DEF Apply, IInv, TypeOK, TxOK, WriterOK
  <1>2. seen \in Row /\ q \in Request /\ tx[c].op \in Ops /\ tx[c].rec \in Records
        /\ tx[c].rec = q.rec /\ (q.kind = "create" => q.base = 0)
        /\ tx[c].write \in BOOLEAN /\ tx[c].lock \in BOOLEAN /\ Writes(seen, q) \in BOOLEAN
    BY <1>1, Sentinels DEF PushOK, Tx, IInv, RequestsOK, Writes
  <1>3. ~tx[c].lock => seen = NoRow
    BY <1>1 DEF PushOK
  <1>4. tx[c].lock => seen = rows[tx[c].rec]
    BY <1>1 DEF PushOK
  <1>5. seen.version = 0 => seen = NoRow
    BY <1>2, <1>3, <1>4 DEF IInv, RowsOK, TypeOK, Exists, Row
  <1>6. ASSUME Writes(seen, q) PROVE tx' \in [Conns -> Tx \cup {Idle}] /\ TxOK' /\ Exclusive'
    <2>1. Written(seen, q) \in Row
      BY <1>2, <1>5, <1>6, WrittenLemma
    <2>2. /\ w \in Tx /\ w.phase = "written" /\ w.op = tx[c].op /\ w.rec = tx[c].rec
          /\ w.seen = seen /\ w.lock = TRUE /\ w.write = TRUE /\ w.row = Written(seen, q)
      <3>1. sequence + 1 \in Nat
        BY DEF IInv, TypeOK
      <3> HIDE DEF q, seen
      <3>2. [tx[c] EXCEPT !.phase = "written", !.row = Written(seen, q),
               !.write = TRUE, !.lock = TRUE, !.revision = sequence + 1] \in Tx
        BY <1>1, <2>1, <3>1 DEF Tx, Phases
      <3> QED  BY <1>1, <3>2 DEF Tx, seen
    <2>3. tx' = [tx EXCEPT ![c] = w] /\ tx'[c] = w
      BY <1>1, <1>6 DEF Apply, Stamp, IInv, TypeOK
    <2>4. seen = rows[tx[c].rec]
      BY <1>2, <1>3, <1>4, <1>6 DEF Apply, NoRow, Exists, IInv, RowsOK
    <2>5. PushOK(c)'
      <3>1. w.row = RowAfter(seen, q) /\ w.write = Writes(seen, q)
        BY <1>2, <1>6, <2>2 DEF RowAfter
      <3>2. q' = q /\ rows' = rows /\ ledger' = ledger /\ request' = request
        BY <2>2, <2>3 DEF Apply
      <3> HIDE DEF w
      <3> QED  BY <1>2, <2>2, <2>3, <2>4, <3>1, <3>2 DEF PushOK
    <2>6. \A d \in Conns \ {c} : tx[d] # Idle => ~ (tx[d].lock /\ tx[c].rec = tx[d].rec)
      <3>1. CASE tx[c].lock
        BY <1>1, <3>1 DEF IInv, Exclusive
      <3>2. CASE ~tx[c].lock
        BY <1>3, <1>6, <3>2 DEF Apply, Locked, NoRow, Exists
      <3> QED  BY <3>1, <3>2
    <2>7. w \in Tx \cup {Idle} /\ w.phase # "ready"
      BY <2>2
    <2>8. \A d \in Conns \ {c} : tx[d] # Idle => ~ (w.lock /\ tx[d].lock /\ w.rec = tx[d].rec)
      BY <2>2, <2>6
    <2>9. TypeOK /\ TxOK /\ Exclusive /\ UNCHANGED <<rows, ledger, request>>
      BY DEF Apply, IInv
    <2> HIDE DEF w
    <2> QED  BY OneTx, <2>3, <2>5, <2>7, <2>8, <2>9
  <1>7. ASSUME ~Writes(seen, q) PROVE tx' \in [Conns -> Tx \cup {Idle}] /\ TxOK' /\ Exclusive'
    <2>1. /\ u \in Tx /\ u.phase = "written" /\ u.op = tx[c].op /\ u.rec = tx[c].rec
          /\ u.seen = seen /\ u.lock = tx[c].lock /\ u.write = tx[c].write /\ u.row = tx[c].row
      BY <1>1 DEF Tx, Phases
    <2>2. tx' = [tx EXCEPT ![c] = u] /\ tx'[c] = u
      BY <1>1, <1>7 DEF Apply, Advance, IInv, TypeOK
    <2>3. PushOK(c)'
      <3>1. u.row = RowAfter(seen, q) /\ u.write = Writes(seen, q)
        BY <1>1, <1>2, <1>7, <2>1 DEF RowAfter, PushOK
      <3>2. rows' = rows /\ ledger' = ledger /\ request' = request
        BY DEF Apply
      <3>3. ~u.write /\ (~u.lock => u.seen = NoRow) /\ (u.lock => u.seen = rows[u.rec])
        BY <1>1, <2>1 DEF PushOK
      <3> HIDE DEF u
      <3> QED  BY <1>2, <2>1, <2>2, <3>1, <3>2, <3>3 DEF PushOK
    <2>4. \A d \in Conns \ {c} : tx[d] # Idle => ~ (u.lock /\ tx[d].lock /\ u.rec = tx[d].rec)
      BY <1>1, <2>1 DEF IInv, Exclusive
    <2>5. u \in Tx \cup {Idle} /\ u.phase # "ready"
      BY <2>1
    <2>6. TypeOK /\ TxOK /\ Exclusive /\ UNCHANGED <<rows, ledger, request>>
      BY DEF Apply, IInv
    <2> HIDE DEF u
    <2> QED  BY OneTx, <2>2, <2>3, <2>4, <2>5, <2>6
  <1>8. tx' \in [Conns -> Tx \cup {Idle}] /\ TxOK' /\ Exclusive'
    BY <1>6, <1>7
  <1>9. TypeOK'
    BY <1>8 DEF Apply, Stamp, IInv, TypeOK
  <1> QED  BY <1>8, <1>9, StillTables DEF Apply, IInv

\* The insert into sync_operations: the key is free and no other transaction holds it.
LEMMA LogLemma ==
    ASSUME IInv, NEW c \in Conns, Log(c) PROVE IInv'
  <1> DEFINE q == request[tx[c].op]
             t == [tx[c] EXCEPT !.phase = "ready"]
  <1>1. tx[c] # Idle /\ tx[c] \in Tx /\ PushOK(c) /\ tx[c].phase = "written"
    BY Sentinels DEF Log, IInv, TypeOK, TxOK, WriterOK
  <1>2. /\ t \in Tx /\ t.phase = "ready" /\ t.op = tx[c].op /\ t.rec = tx[c].rec
        /\ t.seen = tx[c].seen /\ t.lock = tx[c].lock /\ t.write = tx[c].write /\ t.row = tx[c].row
    BY <1>1 DEF Tx, Phases
  <1>3. tx' = [tx EXCEPT ![c] = t] /\ tx'[c] = t
    BY <1>1 DEF Log, Advance, IInv, TypeOK
  <1>4. UNCHANGED <<rows, ledger, request>> /\ ledger[tx[c].op] = NoEntry
    BY DEF Log
  <1>5. PushOK(c)'
    <2>1. /\ tx[c].op \in Ops /\ q \in Request /\ tx[c].rec = q.rec
          /\ tx[c].lock => tx[c].seen = rows[tx[c].rec]
          /\ tx[c].write = Writes(tx[c].seen, q) /\ tx[c].row = RowAfter(tx[c].seen, q)
          /\ ~tx[c].lock => tx[c].seen = NoRow /\ ~tx[c].write
      BY <1>1 DEF PushOK
    <2> HIDE DEF t
    <2> QED  BY <1>2, <1>3, <1>4, <2>1 DEF PushOK
  <1>6. \A d \in Conns \ {c} : tx[d] # Idle =>
           /\ ~ (t.lock /\ tx[d].lock /\ t.rec = tx[d].rec)
           /\ ~ (tx[d].phase = "ready" /\ t.op = tx[d].op)
    BY <1>1, <1>2 DEF Log, IInv, Exclusive
  <1>7. tx' \in [Conns -> Tx \cup {Idle}] /\ TxOK' /\ Exclusive'
    <2> HIDE DEF t
    <2> QED  BY OneTx, <1>2, <1>3, <1>4, <1>5, <1>6 DEF IInv
  <1>8. TypeOK'
    BY <1>7 DEF Log, IInv, TypeOK
  <1> QED  BY <1>7, <1>8, StillTables DEF Log, IInv

\* The loser of a duplicate key rolls back.
LEMMA DuplicateKeyLemma ==
    ASSUME IInv, NEW c \in Conns, DuplicateKey(c) PROVE IInv'
  BY ReleaseLemma, StillTables DEF DuplicateKey, IInv, TypeOK

\* A transaction that fails rolls back.
LEMMA FailLemma ==
    ASSUME IInv, NEW c \in Conns, Fail(c) PROVE IInv'
  BY ReleaseLemma, StillTables DEF Fail, IInv, TypeOK

\* A fresh client id is on nobody's lock.
LEMMA GenerateReportLemma ==
    ASSUME IInv, NEW c \in Conns, NEW r \in Records, GenerateReport(c, r) PROVE IInv'
  <1> DEFINE t == [phase |-> "ready", op |-> NoOp, rec |-> r, seen |-> NoRow, lock |-> TRUE,
                   write |-> TRUE, row |-> Generated, revision |-> sequence + 1]
  <1>1. sequence + 1 \in Nat
    BY DEF IInv, TypeOK
  <1>2. /\ t \in Tx /\ t.phase = "ready" /\ t.op = NoOp /\ t.rec = r /\ t.lock /\ t.write
        /\ t.row = Generated
    BY <1>1, Sentinels DEF Tx, Phases, Contents
  <1>3. tx' = [tx EXCEPT ![c] = t] /\ tx'[c] = t
    BY DEF GenerateReport, IInv, TypeOK
  <1>4. UNCHANGED <<rows, ledger, request>>
    BY DEF GenerateReport
  <1>5. rows[r] = NoRow
    BY DEF GenerateReport, Unused, IInv, RowsOK
  <1>6. WriterOK(c)'
    <2> HIDE DEF t
    <2> QED  BY <1>2, <1>3, <1>4, <1>5 DEF WriterOK, OtherWrite
  <1>7. \A d \in Conns : tx[d] # Idle => tx[d].rec # r
    BY DEF GenerateReport, Unused
  <1>8. tx' \in [Conns -> Tx \cup {Idle}] /\ TxOK' /\ Exclusive'
    <2> HIDE DEF t
    <2> QED  BY OneTx, <1>2, <1>3, <1>4, <1>6, <1>7 DEF IInv
  <1>9. TypeOK'
    BY <1>8, <1>1 DEF GenerateReport, IInv, TypeOK
  <1> QED  BY <1>8, <1>9, StillTables DEF GenerateReport, IInv

\* A writer that has read a row and holds nothing yet.
LEMMA ReaderLemma ==
    ASSUME IInv, NEW c \in Conns, NEW r \in Records, NEW phase \in {"checked", "read"},
           Exists(rows[r]), tx' = [tx EXCEPT ![c] = Opened(phase, NoOp, r, rows[r])],
           UNCHANGED <<rows, ledger, request>>
    PROVE  tx' \in [Conns -> Tx \cup {Idle}] /\ TxOK' /\ Exclusive'
  <1> DEFINE t == Opened(phase, NoOp, r, rows[r])
  <1>1. /\ t \in Tx /\ t.phase = phase /\ t.op = NoOp /\ t.rec = r /\ ~t.lock /\ ~t.write
    BY Sentinels DEF Opened, Tx, Phases, Contents, IInv, TypeOK
  <1>2. tx' = [tx EXCEPT ![c] = t] /\ tx'[c] = t
    BY DEF IInv, TypeOK
  <1> HIDE DEF t
  <1>3. WriterOK(c)'
    BY <1>1, <1>2 DEF WriterOK
  <1> QED  BY OneTx, <1>1, <1>2, <1>3 DEF IInv

\* The web delete's first statement locks nothing.
LEMMA CheckDeleteLemma ==
    ASSUME IInv, NEW c \in Conns, NEW r \in Records, CheckDelete(c, r) PROVE IInv'
  <1>1. tx' \in [Conns -> Tx \cup {Idle}] /\ TxOK' /\ Exclusive'
    BY ReaderLemma DEF CheckDelete
  <1> QED  BY <1>1, StillTables DEF CheckDelete, IInv, TypeOK

\* The job worker's read locks nothing.
LEMMA ReadContentLemma ==
    ASSUME IInv, NEW c \in Conns, NEW r \in Records, ReadContent(c, r) PROVE IInv'
  <1>1. tx' \in [Conns -> Tx \cup {Idle}] /\ TxOK' /\ Exclusive'
    BY ReaderLemma DEF ReadContent
  <1> QED  BY <1>1, StillTables DEF ReadContent, IInv, TypeOK

\* A single UPDATE of another writer runs only when the row lock is free.
LEMMA StampLemma ==
    ASSUME IInv, NEW c \in Conns, NEW row \in Row, tx[c] # Idle, WriterOK(c),
           tx[c].phase # "ready", ~Locked(tx[c].rec, c), OtherWrite(rows[tx[c].rec], row),
           Stamp(c, "ready", row), UNCHANGED <<rows, ledger, request>>
    PROVE  tx' \in [Conns -> Tx \cup {Idle}] /\ TxOK' /\ Exclusive' /\ sequence' \in Nat
  <1> DEFINE t == [tx[c] EXCEPT !.phase = "ready", !.row = row, !.write = TRUE,
                                !.lock = TRUE, !.revision = sequence + 1]
  <1>1. tx[c] \in Tx /\ tx[c].op = NoOp /\ sequence + 1 \in Nat
    BY DEF WriterOK, IInv, TypeOK
  <1>2. /\ t \in Tx /\ t.phase = "ready" /\ t.op = NoOp /\ t.rec = tx[c].rec
        /\ t.lock /\ t.write /\ t.row = row
    BY <1>1 DEF Tx, Phases
  <1>3. tx' = [tx EXCEPT ![c] = t] /\ tx'[c] = t
    BY DEF Stamp, IInv, TypeOK
  <1> HIDE DEF t
  <1>4. WriterOK(c)'
    BY <1>2, <1>3 DEF WriterOK
  <1>5. \A d \in Conns \ {c} : tx[d] # Idle => ~ (tx[d].lock /\ tx[c].rec = tx[d].rec)
    BY DEF Locked
  <1>6. tx' \in [Conns -> Tx \cup {Idle}] /\ TxOK' /\ Exclusive'
    BY OneTx, <1>2, <1>3, <1>4, <1>5 DEF IInv
  <1> QED  BY <1>1, <1>6 DEF Stamp

\* The web delete's update waits for the row.
LEMMA DeleteFromWebLemma ==
    ASSUME IInv, NEW c \in Conns, DeleteFromWeb(c) PROVE IInv'
  <1> DEFINE row == [rows[tx[c].rec] EXCEPT !.deleted = TRUE]
  <1>1. tx[c] # Idle /\ WriterOK(c) /\ tx[c].rec \in Records /\ Exists(rows[tx[c].rec])
    BY Sentinels DEF DeleteFromWeb, IInv, TypeOK, TxOK, Tx, WriterOK, PushOK
  <1>2. row \in Row /\ OtherWrite(rows[tx[c].rec], row)
    BY <1>1 DEF IInv, TypeOK, Row, OtherWrite
  <1>3. tx' \in [Conns -> Tx \cup {Idle}] /\ TxOK' /\ Exclusive' /\ sequence' \in Nat
    BY StampLemma, <1>1, <1>2 DEF DeleteFromWeb
  <1> QED  BY <1>3, StillTables DEF DeleteFromWeb, IInv, TypeOK

\* The job worker's update waits for the row too, and writes what it read before.
LEMMA AppendSectionLemma ==
    ASSUME IInv, NEW c \in Conns, AppendSection(c) PROVE IInv'
  <1> DEFINE row == Appended(rows[tx[c].rec], tx[c].seen)
  <1>1. /\ tx[c] # Idle /\ WriterOK(c) /\ tx[c].rec \in Records /\ Exists(rows[tx[c].rec])
        /\ tx[c].seen \in Row
    BY Sentinels DEF AppendSection, IInv, TypeOK, TxOK, Tx, WriterOK, PushOK
  <1>2. row \in Row /\ OtherWrite(rows[tx[c].rec], row)
    <2>1. ASSUME NEW old \in Row, NEW read \in Row, Exists(old)
          PROVE  Appended(old, read) \in Row /\ OtherWrite(old, Appended(old, read))
      <3>1. /\ Appended(old, read) \in Row
            /\ Appended(old, read).version = old.version + 1
            /\ Appended(old, read).deleted = old.deleted
        BY <2>1 DEF Row, Appended
      <3> QED  BY <2>1, <3>1 DEF OtherWrite
    <2> QED  BY <1>1, <2>1 DEF IInv, TypeOK
  <1>3. tx' \in [Conns -> Tx \cup {Idle}] /\ TxOK' /\ Exclusive' /\ sequence' \in Nat
    BY StampLemma, <1>1, <1>2 DEF AppendSection
  <1> QED  BY <1>3, StillTables DEF AppendSection, IInv, TypeOK

\* A pull changes only what its device knows.
LEMMA PullLemma ==
    ASSUME IInv, NEW d \in Devices, Pull(d) PROVE IInv'
  <1>1. UNCHANGED <<rows, revision, sequence, ledger, request, tx, answers, effects>>
    BY DEF Pull
  <1>2. TxOK' /\ Exclusive'
    BY <1>1 DEF IInv, TxOK, Exclusive, PushOK, WriterOK
  <1>3. cursor' \in [Devices -> Nat] /\ fetched' \in [Devices -> [Records -> Nat]]
    <2>1. PICK page \in SUBSET Beyond(d) :
            /\ fetched' = [fetched EXCEPT ![d] =
                             [r \in Records |-> IF r \in page THEN revision[r] ELSE @[r]]]
            /\ cursor' \in {[cursor EXCEPT ![d] = revision[r]] : r \in LastOf(page)}
      BY DEF Pull
    <2>2. page \subseteq Records /\ LastOf(page) \subseteq Records
      BY DEF Beyond, LastOf
    <2>3. cursor' \in [Devices -> Nat]
      BY <2>1, <2>2 DEF IInv, TypeOK
    <2>4. fetched' \in [Devices -> [Records -> Nat]]
      BY <2>1 DEF IInv, TypeOK
    <2> QED  BY <2>3, <2>4
  <1> QED  BY <1>1, <1>2, <1>3, StillTables DEF IInv, TypeOK

\* What is known of a transaction that is about to commit: its write, made
\* under the row lock, is still the next state of the committed row.
LEMMA ReadyLemma ==
    ASSUME IInv, NEW c \in Conns, tx[c].phase = "ready"
    PROVE  LET t == tx[c]
               old == rows[t.rec]
           IN  /\ t \in Tx /\ t # Idle /\ old \in Row
               /\ t.write => /\ t.lock /\ Exists(t.row) /\ t.row.version >= old.version
                             /\ old.deleted => t.row.deleted
               /\ t.op # NoOp => PushOK(c)
               /\ t.op # NoOp /\ t.write =>
                     /\ t.row.version = old.version + 1
                     /\ t.row.version = request[t.op].base + 1
                     /\ request[t.op].kind = "delete" => t.row.deleted
               /\ t.op = NoOp => WriterOK(c)
  <1> DEFINE t == tx[c]
             q == request[t.op]
             old == rows[t.rec]
  <1>1. t \in Tx /\ t # Idle /\ (PushOK(c) \/ WriterOK(c))
    BY Sentinels DEF IInv, TypeOK, TxOK
  <1>2. old \in Row /\ (old.version = 0 => old = NoRow) /\ t.write \in BOOLEAN
    BY <1>1 DEF IInv, TypeOK, Tx, RowsOK, Exists, Row
  <1>3. CASE WriterOK(c)
    <2>1. OtherWrite(old, t.row) /\ t.lock /\ t.write /\ t.op = NoOp
      BY <1>3 DEF WriterOK
    <2>2. Exists(t.row) /\ t.row.version >= old.version /\ (old.deleted => t.row.deleted)
      BY <1>2, <2>1 DEF OtherWrite, Exists, Row, NoRow, Generated
    <2> QED  BY <1>1, <1>2, <1>3, <2>1, <2>2
  <1>4. CASE PushOK(c)
    <2>1. /\ t.op \in Ops /\ t.op # NoOp /\ q \in Request
          /\ t.write = Writes(t.seen, q) /\ t.row = RowAfter(t.seen, q)
          /\ t.lock => t.seen = old
          /\ ~t.lock => t.seen = NoRow /\ ~t.write
      BY <1>4, NoOpAssumption DEF PushOK
    <2>2. ASSUME t.write
          PROVE  /\ t.lock /\ Exists(t.row)
                 /\ t.row.version = old.version + 1 /\ t.row.version = q.base + 1
                 /\ old.deleted => t.row.deleted
                 /\ q.kind = "delete" => t.row.deleted
      <3>1. t.lock /\ t.seen = old /\ Writes(old, q)
        BY <2>1, <2>2
      <3>2. t.row = Written(old, q)
        BY <2>1, <3>1 DEF RowAfter
      <3>3. q.kind = "create" => q.base = 0
        BY <2>1, Sentinels DEF IInv, RequestsOK
      <3> HIDE DEF t, q, old
      <3>4. /\ t.row.version = old.version + 1 /\ t.row.version = q.base + 1
            /\ old.deleted => t.row.deleted
            /\ q.kind = "delete" => t.row.deleted
        BY WrittenLemma, <1>2, <2>1, <3>1, <3>2, <3>3
      <3>5. Exists(t.row)
        BY <3>4, <1>2 DEF Exists, Row
      <3> QED  BY <3>1, <3>4, <3>5
    <2>3. t.write => t.row.version >= old.version
      BY <2>2, <1>2 DEF Row
    <2> QED  BY <1>1, <1>2, <1>4, <2>1, <2>2, <2>3
  <1> QED  BY <1>1, <1>3, <1>4

\* Rows only grow: versions never go back, tombstones stay tombstones.
LEMMA CommitRows ==
    ASSUME IInv, NEW c \in Conns, Commit(c)
    PROVE  /\ rows' \in [Records -> Row]
           /\ \A r \in Records : /\ rows'[r].version >= rows[r].version
                                 /\ rows[r].deleted => rows'[r].deleted
                                 /\ Exists(rows[r]) => Exists(rows'[r])
                                 /\ r # tx[c].rec \/ ~tx[c].write => rows'[r] = rows[r]
           /\ tx[c].write => rows'[tx[c].rec] = tx[c].row
           /\ RowsOK'
  <1> DEFINE t == tx[c]
  <1>1. /\ t \in Tx /\ rows[t.rec] \in Row
        /\ t.write => /\ Exists(t.row) /\ t.row.version >= rows[t.rec].version
                      /\ rows[t.rec].deleted => t.row.deleted
    BY ReadyLemma DEF Commit
  <1>2. t.rec \in Records /\ t.row \in Row /\ rows \in [Records -> Row]
    BY <1>1 DEF Tx, IInv, TypeOK
  <1>3. rows' = IF t.write THEN [rows EXCEPT ![t.rec] = t.row] ELSE rows
    BY DEF Commit
  <1> HIDE DEF t
  <1>4. rows' \in [Records -> Row]
    BY <1>2, <1>3
  <1>5. \A r \in Records : r # t.rec \/ ~t.write => rows'[r] = rows[r]
    BY <1>2, <1>3
  <1>6. t.write => rows'[t.rec] = t.row
    BY <1>2, <1>3
  <1>7. \A r \in Records : /\ rows'[r].version >= rows[r].version
                           /\ rows[r].deleted => rows'[r].deleted
                           /\ Exists(rows[r]) => Exists(rows'[r])
    <2> SUFFICES ASSUME NEW r \in Records
                 PROVE  /\ rows'[r].version >= rows[r].version
                        /\ rows[r].deleted => rows'[r].deleted
                        /\ Exists(rows[r]) => Exists(rows'[r])
      OBVIOUS
    <2>1. CASE r = t.rec /\ t.write
      BY <2>1, <1>1, <1>6 DEF Exists
    <2>2. CASE r # t.rec \/ ~t.write
      BY <2>2, <1>2, <1>5 DEF Row
    <2> QED  BY <2>1, <2>2
  <1>8. RowsOK'
    BY <1>1, <1>5, <1>6 DEF RowsOK, IInv, Exists
  <1> QED  BY <1>4, <1>5, <1>6, <1>7, <1>8 DEF t

\* The committed transaction's lock and operation id are nobody else's, so
\* the others still know what they knew.
LEMMA CommitTx ==
    ASSUME IInv, NEW c \in Conns, Commit(c)
    PROVE  tx' \in [Conns -> Tx \cup {Idle}] /\ TxOK' /\ Exclusive'
  <1>1. /\ tx[c] \in Tx /\ tx[c] # Idle /\ tx[c].phase = "ready"
        /\ tx[c].write => tx[c].lock
    BY ReadyLemma DEF Commit
  <1>2. /\ tx' \in [Conns -> Tx \cup {Idle}] /\ tx'[c] = Idle
        /\ \A d \in Conns \ {c} : tx'[d] = tx[d]
    BY DEF Commit, Release, IInv, TypeOK
  <1>3. TxOK'
    <2> SUFFICES ASSUME NEW d \in Conns, d # c, tx[d] # Idle
                 PROVE  PushOK(d)' \/ WriterOK(d)'
      BY <1>2 DEF TxOK
    <2>1. tx'[d] = tx[d] /\ request' = request
      BY <1>2 DEF Commit
    <2>2. tx[d] \in Tx /\ tx[d].rec \in Records
      BY DEF IInv, TypeOK, Tx
    <2>3. tx[d].lock => rows'[tx[d].rec] = rows[tx[d].rec]
      BY <1>1, <2>2, CommitRows DEF IInv, Exclusive
    <2>4. Exists(rows[tx[d].rec]) => Exists(rows'[tx[d].rec])
      BY <2>2, CommitRows
    <2>5. CASE PushOK(d)
      <3>1. tx[d].phase = "ready" => ledger'[tx[d].op] = ledger[tx[d].op]
        <4>1. tx[d].phase = "ready" /\ tx[c].op # NoOp => tx[d].op # tx[c].op
          BY <1>1 DEF IInv, Exclusive
        <4>2. tx[d].op \in Ops
          BY <2>5 DEF PushOK
        <4> QED  BY <4>1, <4>2 DEF Commit, IInv, TypeOK
      <3>2. PushOK(d)'
        BY <2>1, <2>3, <2>5, <3>1 DEF PushOK
      <3> QED  BY <3>2
    <2>6. CASE WriterOK(d)
      <3>1. WriterOK(d)'
        BY <2>1, <2>3, <2>4, <2>6 DEF WriterOK
      <3> QED  BY <3>1
    <2> QED  BY <2>5, <2>6 DEF IInv, TxOK
  <1>4. Exclusive'
    BY <1>2 DEF IInv, Exclusive
  <1> QED  BY <1>2, <1>3, <1>4

\* What a push's commit adds to the ledger, the answers and the effects.
LEMMA CommitLedger ==
    ASSUME IInv, NEW c \in Conns, Commit(c), tx[c].op # NoOp
    PROVE  LET t == tx[c]
               answer == Answer(t.seen, request[t.op])
           IN  /\ PushOK(c) /\ answer \in Response /\ Recorded(answer) \in Entry
               /\ ledger' = [ledger EXCEPT ![t.op] = Recorded(answer)]
               /\ answers' = [answers EXCEPT ![t.op] = @ \cup {answer}]
               /\ effects' = effects \cup
                    {e \in {[op |-> t.op, rec |-> t.rec, version |-> t.row.version]} : t.write}
  <1>1. PushOK(c) /\ tx[c] \in Tx
    BY ReadyLemma DEF Commit
  <1>2. RowAfter(tx[c].seen, request[tx[c].op]) \in Row /\ tx[c].seen \in Row
        /\ request[tx[c].op] \in Request
    BY <1>1 DEF PushOK, Tx, Commit
  <1>3. Answer(tx[c].seen, request[tx[c].op]) \in Response
        /\ Recorded(Answer(tx[c].seen, request[tx[c].op])) \in Entry
    BY <1>2, AnswerLemma
  <1> QED  BY <1>1, <1>3 DEF Commit

\* The answer to an update that is accepted is the version it wrote; a
\* delete that is accepted and found its row leaves it deleted.
LEMMA AppliedLemma ==
    ASSUME NEW row \in Row, NEW q \in Request, Answer(row, q).status = "applied"
    PROVE  /\ q.kind = "update" =>
                 Writes(row, q) /\ Answer(row, q).version = RowAfter(row, q).version
           /\ q.kind = "delete" /\ Answer(row, q).version > 0 =>
                 Writes(row, q) \/ (row.deleted /\ Exists(row))
  <1>1. Status(row, q) = "applied" /\ Answer(row, q).version = RowAfter(row, q).version
    BY DEF Answer
  <1>2. CASE q.kind = "update"
    BY <1>1, <1>2 DEF Status, Writes
  <1>3. CASE q.kind = "delete"
    <2>1. CASE ~Exists(row)
      BY <1>1, <1>3, <2>1 DEF Writes, RowAfter, Exists
    <2>2. CASE Exists(row)
      BY <1>1, <1>3, <2>2 DEF Status, Writes
    <2> QED  BY <1>3, <2>1, <2>2
  <1> QED  BY <1>1, <1>2, <1>3

\* A commit keeps the three properties: its effect is the only one of its version.
LEMMA CommitProperties ==
    ASSUME IInv, NEW c \in Conns, Commit(c), tx[c].op # NoOp
    PROVE  RequestsOK' /\ EffectsOK' /\ NoLostUpdate' /\ AnswerMatchesEffect' /\ DeletesHold'
  <1> DEFINE t == tx[c]
             q == request[t.op]
             answer == Answer(t.seen, q)
             effect == [op |-> t.op, rec |-> t.rec, version |-> t.row.version]
  <1>1. /\ t \in Tx /\ t.op \in Ops /\ q \in Request /\ t.rec = q.rec /\ t.rec \in Records
        /\ q # NoRequest /\ t.seen \in Row /\ t.row \in Row
        /\ t.write = Writes(t.seen, q) /\ t.row = RowAfter(t.seen, q)
        /\ t.lock => t.seen = rows[t.rec]
        /\ ~t.lock => t.seen = NoRow
        /\ ledger[t.op] = NoEntry /\ request' = request
    BY ReadyLemma, Sentinels DEF Commit, PushOK, Tx
  <1>2. /\ answer \in Response /\ Recorded(answer) # NoEntry
        /\ ledger'[t.op] = Recorded(answer)
        /\ \A o \in Ops \ {t.op} : ledger'[o] = ledger[o]
    BY <1>1, CommitLedger, Sentinels DEF IInv, TypeOK
  <1>3. /\ Recorded(answer).status = answer.status /\ Recorded(answer).version = answer.version
    BY DEF Recorded
  <1>4. /\ effects' = IF t.write THEN effects \cup {effect} ELSE effects
        /\ effects \subseteq [op: Ops, rec: Records, version: Nat]
    BY <1>1, CommitLedger DEF IInv, TypeOK
  <1>5. /\ effect.op = t.op /\ effect.rec = t.rec /\ effect.version = t.row.version
        /\ t.write => /\ t.row.version = rows[t.rec].version + 1
                      /\ t.row.version = q.base + 1
                      /\ q.kind = "delete" => t.row.deleted
                      /\ rows'[t.rec] = t.row
    BY <1>1, ReadyLemma, CommitRows, NoOpAssumption DEF Commit
  <1>6. \A e \in effects :
           /\ e.op # t.op /\ ledger[e.op] # NoEntry /\ ledger[e.op].status = "applied"
           /\ request[e.op] # NoRequest /\ e.rec = request[e.op].rec
           /\ e.version = request[e.op].base + 1
           /\ e.version <= rows[e.rec].version /\ e.version <= rows'[e.rec].version
           /\ e.op \in Ops /\ e.rec \in Records /\ e.version \in Nat
    <2> SUFFICES ASSUME NEW e \in effects
                 PROVE  /\ e.op # t.op /\ ledger[e.op] # NoEntry /\ ledger[e.op].status = "applied"
                        /\ request[e.op] # NoRequest /\ e.rec = request[e.op].rec
                        /\ e.version = request[e.op].base + 1
                        /\ e.version <= rows[e.rec].version /\ e.version <= rows'[e.rec].version
                        /\ e.op \in Ops /\ e.rec \in Records /\ e.version \in Nat
      OBVIOUS
    <2>1. e.op \in Ops /\ e.rec \in Records /\ e.version \in Nat
      BY <1>4
    <2>2. ledger[e.op] # NoEntry /\ ledger[e.op].status = "applied"
      BY DEF IInv, AnswerMatchesEffect
    <2>3. /\ request[e.op] # NoRequest /\ e.rec = request[e.op].rec
          /\ e.version = request[e.op].base + 1 /\ e.version <= rows[e.rec].version
      BY DEF IInv, EffectsOK
    <2>4. rows[e.rec].version \in Nat /\ rows'[e.rec].version \in Nat
          /\ rows'[e.rec].version >= rows[e.rec].version
      BY <2>1, CommitRows DEF IInv, TypeOK, Row
    <2> QED  BY <1>1, <2>1, <2>2, <2>3, <2>4
  <1>7. rows[t.rec].version \in Nat /\ rows'[t.rec].version \in Nat
    BY <1>1, CommitRows DEF IInv, TypeOK, Row
  <1> HIDE DEF t, q, answer, effect
  <1>8. RequestsOK'
    BY <1>1, <1>2 DEF IInv, RequestsOK, q
  <1>9. EffectsOK'
    BY <1>1, <1>4, <1>5, <1>6, <1>7 DEF EffectsOK, q
  <1>10. NoLostUpdate'
    BY <1>1, <1>4, <1>5, <1>6, <1>7 DEF IInv, NoLostUpdate, q
  <1>11. t.write => answer.status = "applied"
    BY <1>1 DEF Writes, answer, Answer, Status, Request, Kinds
  <1>12. AnswerMatchesEffect'
    <2>1. \A e, f \in effects' : e.op = f.op => e = f
      BY <1>4, <1>5, <1>6 DEF IInv, AnswerMatchesEffect
    <2>2. \A e \in effects' : ledger'[e.op] # NoEntry /\ ledger'[e.op].status = "applied"
      BY <1>2, <1>3, <1>4, <1>5, <1>6, <1>11
    <2>3. ASSUME NEW o \in Ops, ledger'[o] # NoEntry, ledger'[o].status = "applied",
                 request'[o].kind = "update"
          PROVE  [op |-> o, rec |-> request'[o].rec, version |-> ledger'[o].version] \in effects'
      <3>1. CASE o = t.op
        <4>1. Writes(t.seen, q) /\ answer.version = t.row.version
          BY <1>1, <1>2, <1>3, <2>3, <3>1, AppliedLemma DEF answer, q
        <4> QED  BY <1>1, <1>2, <1>3, <1>4, <3>1, <4>1 DEF effect, q
      <3>2. CASE o # t.op
        BY <1>1, <1>2, <1>4, <2>3, <3>2 DEF IInv, AnswerMatchesEffect
      <3> QED  BY <3>1, <3>2
    <2> QED  BY <2>1, <2>2, <2>3 DEF AnswerMatchesEffect
  <1>13. DeletesHold'
    <2> SUFFICES ASSUME NEW o \in Ops, ledger'[o] # NoEntry, request[o].kind = "delete",
                        ledger'[o].status = "applied", ledger'[o].version > 0
                 PROVE  rows'[request[o].rec].deleted
      BY <1>1 DEF DeletesHold
    <2>1. CASE o = t.op
      <3>1. Writes(t.seen, q) \/ (t.seen.deleted /\ Exists(t.seen))
        BY <1>1, <1>2, <1>3, <2>1, AppliedLemma DEF answer, q
      <3>2. CASE Writes(t.seen, q)
        BY <1>1, <1>5, <2>1, <3>2 DEF q
      <3>3. CASE t.seen.deleted /\ Exists(t.seen)
        <4>1. t.lock
          BY <1>1, <3>3 DEF NoRow, Exists
        <4> QED  BY <1>1, <2>1, <3>3, <4>1, CommitRows DEF q
      <3> QED  BY <3>1, <3>2, <3>3
    <2>2. CASE o # t.op
      <3>1. ledger'[o] = ledger[o] /\ request[o].rec \in Records
        BY <1>2, <2>2, Sentinels DEF IInv, RequestsOK, TypeOK, Request
      <3> QED  BY <3>1, CommitRows DEF IInv, DeletesHold
    <2> QED  BY <2>1, <2>2
  <1> QED  BY <1>8, <1>9, <1>10, <1>12, <1>13

\* A commit keeps the invariant.
LEMMA CommitLemma ==
    ASSUME IInv, NEW c \in Conns, Commit(c) PROVE IInv'
  <1>1. tx[c] \in Tx /\ (tx[c].op = NoOp \/ tx[c].op \in Ops)
    BY ReadyLemma DEF Commit, PushOK
  <1>2. rows' \in [Records -> Row] /\ RowsOK' /\ TxOK' /\ Exclusive'
        /\ tx' \in [Conns -> Tx \cup {Idle}]
    BY CommitRows, CommitTx
  <1>3. revision' \in [Records -> Nat]
    BY <1>1 DEF Commit, IInv, TypeOK, Tx
  <1>4. UNCHANGED <<sequence, request, cursor, fetched>>
    BY DEF Commit
  <1>5. CASE tx[c].op = NoOp
    <2>1. UNCHANGED <<ledger, answers, effects>>
      BY <1>5 DEF Commit
    <2>2. TypeOK'
      BY <1>2, <1>3, <1>4, <2>1 DEF IInv, TypeOK
    <2>3. RequestsOK' /\ NoLostUpdate' /\ AnswerMatchesEffect'
      BY <1>4, <2>1 DEF IInv, RequestsOK, NoLostUpdate, AnswerMatchesEffect
    <2>4. EffectsOK'
      <3>1. \A e \in effects : e.rec \in Records /\ e.version \in Nat
        BY DEF IInv, TypeOK
      <3>2. \A r \in Records : rows[r].version \in Nat /\ rows'[r].version \in Nat
        BY <1>2 DEF IInv, TypeOK, Row
      <3> QED  BY <1>4, <2>1, <3>1, <3>2, CommitRows DEF IInv, EffectsOK
    <2>5. DeletesHold'
      <3>1. \A o \in Ops : ledger[o] # NoEntry => request[o].rec \in Records
        BY Sentinels DEF IInv, RequestsOK, TypeOK, Request
      <3> QED  BY <1>4, <2>1, <3>1, CommitRows DEF IInv, DeletesHold
    <2> QED  BY <1>2, <2>2, <2>3, <2>4, <2>5 DEF IInv
  <1>6. CASE tx[c].op \in Ops
    <2>1. tx[c].op # NoOp /\ tx[c].rec \in Records /\ tx[c].row \in Row
      BY <1>1, <1>6, NoOpAssumption DEF Tx
    <2>2. /\ ledger' \in [Ops -> Entry \cup {NoEntry}]
          /\ answers' \in [Ops -> SUBSET Response]
          /\ effects' \subseteq [op: Ops, rec: Records, version: Nat]
      <3>1. tx[c].row.version \in Nat
        BY <2>1 DEF Row
      <3> DEFINE answer == Answer(tx[c].seen, request[tx[c].op])
      <3>2. /\ answer \in Response /\ Recorded(answer) \in Entry
            /\ ledger' = [ledger EXCEPT ![tx[c].op] = Recorded(answer)]
            /\ answers' = [answers EXCEPT ![tx[c].op] = @ \cup {answer}]
            /\ effects' = effects \cup {e \in
                  {[op |-> tx[c].op, rec |-> tx[c].rec, version |-> tx[c].row.version]} : tx[c].write}
        BY <2>1, CommitLedger
      <3> HIDE DEF answer
      <3>3. ledger' \in [Ops -> Entry \cup {NoEntry}]
        BY <3>2 DEF IInv, TypeOK
      <3>4. answers' \in [Ops -> SUBSET Response]
        BY <3>2 DEF IInv, TypeOK
      <3>5. effects' \subseteq [op: Ops, rec: Records, version: Nat]
        BY <1>6, <2>1, <3>1, <3>2 DEF IInv, TypeOK
      <3> QED  BY <3>3, <3>4, <3>5
    <2>3. TypeOK'
      BY <1>2, <1>3, <1>4, <2>2 DEF IInv, TypeOK
    <2> QED  BY <1>2, <2>1, <2>3, CommitProperties DEF IInv
  <1> QED  BY <1>1, <1>5, <1>6

\* Every step of the server keeps the invariant.
LEMMA NextLemma == IInv /\ [Next]_vars => IInv'
  <1> SUFFICES ASSUME IInv, [Next]_vars PROVE IInv'
    OBVIOUS
  <1>1. ASSUME NEW o \in Ops, Submit(o) PROVE IInv'
    BY <1>1, SubmitLemma
  <1>2. ASSUME NEW c \in Conns, Push(c) PROVE IInv'
    BY <1>2, BeginLemma, ReplayAnswerLemma, SelectForUpdateLemma, ApplyLemma, LogLemma,
       DuplicateKeyLemma DEF Push
  <1>3. ASSUME NEW c \in Conns, OtherWriter(c) PROVE IInv'
    BY <1>3, GenerateReportLemma, CheckDeleteLemma, ReadContentLemma, DeleteFromWebLemma,
       AppendSectionLemma DEF OtherWriter
  <1>4. ASSUME NEW c \in Conns, Commit(c) \/ Fail(c) PROVE IInv'
    BY <1>4, CommitLemma, FailLemma
  <1>5. ASSUME NEW d \in Devices, Pull(d) PROVE IInv'
    BY <1>5, PullLemma
  <1>6. CASE UNCHANGED vars
    <2>1. TypeOK' /\ TxOK' /\ Exclusive'
      BY <1>6 DEF vars, IInv, TypeOK, TxOK, Exclusive, PushOK, WriterOK
    <2> QED  BY <1>6, <2>1, StillTables DEF vars, IInv
  <1> QED  BY <1>1, <1>2, <1>3, <1>4, <1>5, <1>6 DEF Next

(***************************************************************************)
(* The theorems.                                                           *)
(***************************************************************************)

\* The invariant holds throughout.
THEOREM Inductive == Spec => []IInv
  BY InitLemma, NextLemma, PTL DEF Spec

\* Every variable of the server keeps its type.
THEOREM TypeCorrect == Spec => []TypeOK
  <1>1. IInv => TypeOK
    BY DEF IInv
  <1> QED  BY <1>1, Inductive, PTL

\* No pushed edit overwrites one it was not made against, for any number of
\* devices, records, repetitions and concurrent connections.
THEOREM NoLostUpdates == Spec => []NoLostUpdate
  <1>1. IInv => NoLostUpdate
    BY DEF IInv
  <1> QED  BY <1>1, Inductive, PTL

\* A push has at most one effect, and its recorded answer tells the truth
\* about it, however often it is repeated.
THEOREM AnswersTellTheTruth == Spec => []AnswerMatchesEffect
  <1>1. IInv => AnswerMatchesEffect
    BY DEF IInv
  <1> QED  BY <1>1, Inductive, PTL

\* An accepted delete is final.
THEOREM DeletesAreFinal == Spec => []DeletesHold
  <1>1. IInv => DeletesHold
    BY DEF IInv
  <1> QED  BY <1>1, Inductive, PTL

(***************************************************************************)
(* The server implements SyncLedger: every step is a step of the promise   *)
(* or changes none of its variables.                                       *)
(***************************************************************************)

\* The operators SyncLedger is built from are the server's own.
LEMMA SameOps ==
    /\ Promise!NoRow = NoRow /\ Promise!Generated = Generated
    /\ Promise!NoRequest = NoRequest /\ Promise!NoEntry = NoEntry
    /\ Promise!Request = Request /\ Promise!Row = Row
    /\ \A row : Promise!Exists(row) <=> Exists(row)
  BY DEF Promise!NoRow, NoRow, Promise!Generated, Generated, Promise!NoRequest, NoRequest,
         Promise!NoEntry, NoEntry, Promise!Request, Request, Promise!Kinds, Kinds,
         Promise!Contents, Contents, Promise!Row, Row, Promise!Exists, Exists

\* So is the effect of an operation on a row.
LEMMA SameEffect ==
    ASSUME NEW row, NEW q
    PROVE  /\ Promise!RowAfter(row, q) = RowAfter(row, q)
           /\ Promise!Recorded(Promise!Answer(row, q)) = Recorded(Answer(row, q))
  <1>1. Promise!Writes(row, q) <=> Writes(row, q)
    BY DEF Promise!Writes, Writes, Promise!Exists, Exists, Promise!Stale, Stale
  <1>2. Promise!Written(row, q) = Written(row, q)
    BY DEF Promise!Written, Written
  <1>3. Promise!RowAfter(row, q) = RowAfter(row, q)
    BY <1>1, <1>2 DEF Promise!RowAfter, RowAfter
  <1>4. Promise!Status(row, q) = Status(row, q)
    BY DEF Promise!Status, Status, Promise!Exists, Exists, Promise!Stale, Stale
  <1>5. Promise!Answer(row, q) = Answer(row, q)
    BY <1>3, <1>4 DEF Promise!Answer, Answer
  <1> QED  BY <1>3, <1>5 DEF Promise!Recorded, Recorded

\* The server starts where the promise does.
LEMMA PromiseInit == Init => Promise!Init
  BY SameOps DEF Init, Promise!Init

\* The commit of a push is its taking effect; it held the row's lock, or it
\* had looked for a row that was not there.
LEMMA PromisePush ==
    ASSUME IInv, NEW c \in Conns, Commit(c), tx[c].op # NoOp
    PROVE  Promise!Perform(tx[c].op) \/ Promise!AnswerAbsent(tx[c].op)
  <1> DEFINE t == tx[c]
             o == tx[c].op
             q == request[o]
  <1>1. /\ o \in Ops /\ q \in Request /\ t.rec = q.rec /\ q # NoRequest
        /\ t.write = Writes(t.seen, q) /\ t.row = RowAfter(t.seen, q)
        /\ t.lock => t.seen = rows[t.rec]
        /\ ~t.lock => t.seen = NoRow /\ ~t.write
        /\ ledger[o] = NoEntry
    BY ReadyLemma, Sentinels DEF Commit, PushOK
  <1>2. /\ ledger' = [ledger EXCEPT ![o] = Recorded(Answer(t.seen, q))]
        /\ rows' = IF t.write THEN [rows EXCEPT ![t.rec] = t.row] ELSE rows
        /\ request' = request
    BY CommitLedger DEF Commit
  <1>3. Promise!Unanswered(o)
    BY <1>1, SameOps DEF Promise!Unanswered
  <1>4. rows \in [Records -> Row] /\ q.rec \in Records
    BY <1>1 DEF IInv, TypeOK, Request
  <1>5. CASE t.lock
    <2>1. rows' = [rows EXCEPT ![q.rec] = RowAfter(rows[q.rec], q)]
      <3>1. CASE t.write
        BY <1>1, <1>2, <1>5, <3>1
      <3>2. CASE ~t.write
        <4>1. RowAfter(rows[q.rec], q) = rows[q.rec]
          BY <1>1, <1>5, <3>2 DEF RowAfter
        <4> QED  BY <1>2, <1>4, <3>2, <4>1
      <3> QED  BY <3>1, <3>2
    <2>2. ledger' = [ledger EXCEPT ![o] = Recorded(Answer(rows[q.rec], q))]
      BY <1>1, <1>2, <1>5
    <2> QED  BY <1>2, <1>3, <2>1, <2>2, SameEffect DEF Promise!Perform
  <1>6. CASE ~t.lock
    <2>1. q.kind # "create" /\ rows' = rows
      BY <1>1, <1>2, <1>6 DEF Writes, Exists, NoRow
    <2>2. ledger' = [ledger EXCEPT ![o] = Recorded(Answer(NoRow, q))]
      BY <1>1, <1>2, <1>6
    <2> QED  BY <1>2, <1>3, <2>1, <2>2, SameEffect, SameOps DEF Promise!AnswerAbsent
  <1> QED  BY <1>5, <1>6

\* The commit of another writer does to the row what the promise lets it do.
LEMMA PromiseWriter ==
    ASSUME IInv, NEW c \in Conns, Commit(c), tx[c].op = NoOp
    PROVE  \E r \in Records :
              Promise!Generate(r) \/ Promise!DeleteFromWeb(r) \/ Promise!RewriteContent(r)
  <1> DEFINE r == tx[c].rec
             new == tx[c].row
  <1>1. tx[c] \in Tx /\ tx[c].write /\ OtherWrite(rows[r], new)
    BY ReadyLemma DEF Commit, WriterOK
  <1>2. r \in Records /\ new \in Row /\ rows \in [Records -> Row]
    BY <1>1 DEF Tx, IInv, TypeOK
  <1>3. rows' = [rows EXCEPT ![r] = new] /\ UNCHANGED <<ledger, request>>
    BY <1>1 DEF Commit
  <1>4. rows'[r] = new
    BY <1>2, <1>3
  <1> HIDE DEF r, new
  <1>5. CASE rows[r] = NoRow /\ new = Generated
    <2>1. ~Exists(rows[r])
      BY <1>5 DEF Exists, NoRow
    <2>2. ~Promise!Exists(rows[r])
      BY <2>1, SameOps
    <2>3. rows' = [rows EXCEPT ![r] = Promise!Generated]
      BY <1>3, <1>5, SameOps
    <2>4. Promise!Generate(r)
      BY <1>3, <2>2, <2>3 DEF Promise!Generate
    <2> QED  BY <1>2, <2>4
  <1>6. CASE Exists(rows[r]) /\ new = [rows[r] EXCEPT !.deleted = TRUE]
    <2>1. rows' = [rows EXCEPT ![r].deleted = TRUE]
      BY <1>3, <1>6
    <2>2. Promise!Exists(rows[r])
      BY <1>6, SameOps
    <2>3. Promise!DeleteFromWeb(r)
      BY <1>3, <2>1, <2>2 DEF Promise!DeleteFromWeb
    <2> QED  BY <1>2, <2>3
  <1>7. CASE Exists(rows[r]) /\ new.version = rows[r].version + 1 /\ new.deleted = rows[r].deleted
    BY <1>3, <1>4, <1>7, <1>2, SameOps DEF Promise!RewriteContent
  <1> QED  BY <1>1, <1>5, <1>6, <1>7 DEF OtherWrite, r, new

\* Every step of the server is a step of the promise, or none.
LEMMA PromiseStep == IInv /\ [Next]_vars => [Promise!Next]_(Promise!vars)
  <1> SUFFICES ASSUME IInv, [Next]_vars PROVE [Promise!Next]_(Promise!vars)
    OBVIOUS
  <1>1. ASSUME NEW o \in Ops, Submit(o) PROVE Promise!Next
    <2>1. request'[o] \in Request /\ request' = [request EXCEPT ![o] = request'[o]]
      <3>1. PICK kind \in Kinds, r \in Records, base \in 1 .. MaxBase, content \in {o, NoOp} :
               request' = [request EXCEPT ![o] =
                            [kind |-> kind, rec |-> r, content |-> content,
                             base |-> IF kind = "create" THEN 0 ELSE base]]
        BY <1>1 DEF Submit
      <3>2. [kind |-> kind, rec |-> r, content |-> content,
             base |-> IF kind = "create" THEN 0 ELSE base] \in Request
        BY BoundsAssumption DEF Request, Contents
      <3> QED  BY <3>1, <3>2 DEF IInv, TypeOK
    <2>2. Promise!Submit(o)
      BY <1>1, <2>1, SameOps DEF Submit, Promise!Submit
    <2> QED  BY <2>2 DEF Promise!Next
  <1>2. ASSUME NEW c \in Conns, Push(c) \/ OtherWriter(c) \/ Fail(c)
        PROVE  UNCHANGED <<rows, ledger, request>>
    <2>1. CASE Push(c)
      BY <2>1 DEF Push, Begin, ReplayAnswer, SelectForUpdate, Apply, Log, DuplicateKey
    <2>2. CASE OtherWriter(c)
      BY <2>2 DEF OtherWriter, GenerateReport, CheckDelete, DeleteFromWeb, ReadContent,
         AppendSection
    <2>3. CASE Fail(c)
      BY <2>3 DEF Fail
    <2> QED  BY <1>2, <2>1, <2>2, <2>3
  <1>3. ASSUME NEW c \in Conns, Commit(c) PROVE Promise!Next
    <2>1. tx[c].op = NoOp \/ tx[c].op \in Ops
      BY <1>3, ReadyLemma DEF Commit, PushOK
    <2>2. CASE tx[c].op = NoOp
      BY <1>3, <2>2, PromiseWriter DEF Promise!Next
    <2>3. CASE tx[c].op # NoOp
      BY <1>3, <2>1, <2>3, PromisePush DEF Promise!Next
    <2> QED  BY <2>2, <2>3
  <1>4. ASSUME NEW d \in Devices, Pull(d) PROVE UNCHANGED <<rows, ledger, request>>
    BY <1>4 DEF Pull
  <1>5. CASE UNCHANGED vars
    BY <1>5 DEF vars, Promise!vars
  <1> QED  BY <1>1, <1>2, <1>3, <1>4, <1>5 DEF Next, Promise!vars

\* The server, with its transactions, locks, retries and other writers, does
\* for every pushed operation what SyncLedger promises.
THEOREM ServerKeepsPromise == Spec => KeepsPromise
  BY PromiseInit, PromiseStep, Inductive, PTL DEF Spec, KeepsPromise, Promise!Spec

-----------------------------------------------------------------------------
(***************************************************************************)
(* What devices see: the answers to repeated pushes and the revisions a    *)
(* pull pages through.                                                     *)
(***************************************************************************)
(***************************************************************************)
(* Answers: everything ever answered for an operation is what the ledger   *)
(* records of it.                                                          *)
(***************************************************************************)
AnswersOK ==
    \A o \in Ops : \A a \in answers[o] : ledger[o] # NoEntry /\ Recorded(a) = ledger[o]

\* A replayed entry is recorded as it was.
LEMMA ReplayLemma ==
    ASSUME NEW entry \in Entry
    PROVE  Recorded(Replay(entry)) = entry
  BY DEF Recorded, Replay, Entry

\* A step that leaves the ledger and the answers alone keeps them in agreement.
LEMMA SameAnswers ==
    ASSUME AnswersOK, UNCHANGED <<ledger, answers>>
    PROVE  AnswersOK'
  BY DEF AnswersOK

\* Replaying an answer adds what the ledger holds.
LEMMA ReplayAgrees ==
    ASSUME IInv, AnswersOK, NEW c \in Conns, NEW o \in Ops, ReplayAnswer(c, o)
    PROVE  AnswersOK'
  <1>1. ledger' = ledger /\ ledger[o] # NoEntry /\ ledger[o] \in Entry
    BY DEF ReplayAnswer, IInv, TypeOK
  <1>2. answers' = [answers EXCEPT ![o] = @ \cup {Replay(ledger[o])}]
    BY DEF ReplayAnswer
  <1>3. answers \in [Ops -> SUBSET Response]
    BY DEF IInv, TypeOK
  <1> QED  BY <1>1, <1>2, <1>3, ReplayLemma DEF AnswersOK

\* A commit answers an operation nothing has been answered for.
LEMMA CommitAgrees ==
    ASSUME IInv, AnswersOK, NEW c \in Conns, Commit(c)
    PROVE  AnswersOK'
  <1> DEFINE o == tx[c].op
             answer == Answer(tx[c].seen, request[o])
  <1>1. CASE o = NoOp
    BY <1>1, SameAnswers DEF Commit
  <1>2. CASE o # NoOp
    <2>1. tx[c] # Idle /\ tx[c].phase = "ready" /\ PushOK(c)
      BY <1>2, Sentinels DEF Commit, IInv, TxOK, WriterOK
    <2>2. o \in Ops /\ ledger[o] = NoEntry
      BY <2>1 DEF PushOK
    <2>3. /\ ledger' = [ledger EXCEPT ![o] = Recorded(answer)]
          /\ answers' = [answers EXCEPT ![o] = @ \cup {answer}]
      BY <1>2 DEF Commit
    <2>4. Recorded(answer) # NoEntry
      <3>1. Status(tx[c].seen, request[o]) # "none"
        BY DEF Status
      <3> QED  BY <3>1 DEF Recorded, Answer, NoEntry
    <2>5. answers[o] = {}
      BY <2>2 DEF AnswersOK
    <2>6. ledger \in [Ops -> Entry \cup {NoEntry}] /\ answers \in [Ops -> SUBSET Response]
      BY DEF IInv, TypeOK
    <2> HIDE DEF answer, o
    <2>7. ledger'[o] = Recorded(answer) /\ answers'[o] = {answer}
      BY <2>2, <2>3, <2>5, <2>6
    <2>8. \A p \in Ops \ {o} : ledger'[p] = ledger[p] /\ answers'[p] = answers[p]
      BY <2>2, <2>3, <2>6
    <2> QED  BY <2>4, <2>7, <2>8 DEF AnswersOK
  <1> QED  BY <1>1, <1>2

\* Every step keeps the answers in agreement with the ledger.
LEMMA AnswersStep == IInv /\ AnswersOK /\ [Next]_vars => AnswersOK'
  <1> SUFFICES ASSUME IInv, AnswersOK, [Next]_vars PROVE AnswersOK'
    OBVIOUS
  <1>1. ASSUME NEW o \in Ops, Submit(o) PROVE AnswersOK'
    BY <1>1, SameAnswers DEF Submit
  <1>2. ASSUME NEW c \in Conns, Push(c) PROVE AnswersOK'
    <2>1. CASE \E o \in Ops : ReplayAnswer(c, o)
      BY <2>1, ReplayAgrees
    <2>2. CASE ~ \E o \in Ops : ReplayAnswer(c, o)
      BY <1>2, <2>2, SameAnswers
      DEF Push, Begin, SelectForUpdate, Apply, Log, DuplicateKey
    <2> QED  BY <2>1, <2>2
  <1>3. ASSUME NEW c \in Conns, OtherWriter(c) PROVE AnswersOK'
    BY <1>3, SameAnswers
    DEF OtherWriter, GenerateReport, CheckDelete, ReadContent, DeleteFromWeb, AppendSection
  <1>4. ASSUME NEW c \in Conns, Commit(c) PROVE AnswersOK'
    BY <1>4, CommitAgrees
  <1>5. ASSUME NEW c \in Conns, Fail(c) PROVE AnswersOK'
    BY <1>5, SameAnswers DEF Fail
  <1>6. ASSUME NEW d \in Devices, Pull(d) PROVE AnswersOK'
    BY <1>6, SameAnswers DEF Pull
  <1>7. CASE UNCHANGED vars
    BY <1>7, SameAnswers DEF vars
  <1> QED  BY <1>1, <1>2, <1>3, <1>4, <1>5, <1>6, <1>7 DEF Next

\* Repetitions of a push are answered alike in all that the ledger records.
THEOREM RepetitionsAgree == Spec => []AnswersAgree
  <1>1. Init => AnswersOK
    BY DEF Init, AnswersOK
  <1>2. AnswersOK => AnswersAgree
    BY DEF AnswersOK, AnswersAgree
  <1> QED  BY <1>1, <1>2, AnswersStep, Inductive, PTL DEF Spec

(***************************************************************************)
(* Revisions: what the sequence has handed out belongs to one row, or to   *)
(* one transaction that has not committed.                                 *)
(***************************************************************************)
Writing(c) == tx[c] # Idle /\ tx[c].write

RevisionsOK ==
    /\ \A r \in Records : revision[r] <= sequence /\ (Exists(rows[r]) => revision[r] > 0)
    /\ \A r, s \in Records : r # s /\ revision[r] = revision[s] => revision[r] = 0
    /\ \A c \in Conns : Writing(c) =>
          /\ 0 < tx[c].revision /\ tx[c].revision <= sequence
          /\ \A r \in Records : revision[r] # tx[c].revision
    /\ \A c, d \in Conns :
          c # d /\ Writing(c) /\ Writing(d) => tx[c].revision # tx[d].revision

\* A step that takes no revision and commits nothing.
LEMMA QuietRevisions ==
    ASSUME RevisionsOK, NEW c \in Conns,
           UNCHANGED <<rows, revision, sequence>>,
           \A d \in Conns \ {c} : tx'[d] = tx[d],
           Writing(c)' => Writing(c) /\ tx'[c].revision = tx[c].revision
    PROVE  RevisionsOK'
  <1>1. \A d \in Conns : Writing(d)' => Writing(d) /\ tx'[d].revision = tx[d].revision
    BY DEF Writing
  <1> QED  BY <1>1 DEF RevisionsOK, Exists

\* A step that takes the next revision for one transaction.
LEMMA StampedRevisions ==
    ASSUME TypeOK, RevisionsOK, NEW c \in Conns,
           UNCHANGED <<rows, revision>>, sequence' = sequence + 1,
           \A d \in Conns \ {c} : tx'[d] = tx[d],
           tx'[c].revision = sequence + 1
    PROVE  RevisionsOK'
  <1>1. sequence \in Nat /\ \A r \in Records : revision[r] \in Nat
    BY DEF TypeOK
  <1>2. \A d \in Conns : Writing(d) => tx[d].revision \in Nat
    BY DEF TypeOK, Writing, Tx
  <1>3. \A d \in Conns \ {c} : Writing(d)' <=> Writing(d)
    BY DEF Writing
  <1>4. /\ \A r \in Records : revision'[r] <= sequence' /\ (Exists(rows'[r]) => revision'[r] > 0)
        /\ \A r, s \in Records : r # s /\ revision'[r] = revision'[s] => revision'[r] = 0
    BY <1>1 DEF RevisionsOK, Exists
  <1>5. ASSUME NEW d \in Conns, Writing(d)'
        PROVE  /\ 0 < tx'[d].revision /\ tx'[d].revision <= sequence'
               /\ \A r \in Records : revision'[r] # tx'[d].revision
    <2>1. CASE d = c
      BY <2>1, <1>1 DEF RevisionsOK
    <2>2. CASE d # c
      BY <2>2, <1>1, <1>2, <1>3, <1>5 DEF RevisionsOK
    <2> QED  BY <2>1, <2>2
  <1>6. ASSUME NEW d \in Conns, NEW e \in Conns, d # e, Writing(d)', Writing(e)'
        PROVE  tx'[d].revision # tx'[e].revision
    <2>1. CASE d # c /\ e # c
      BY <2>1, <1>3, <1>6 DEF RevisionsOK
    <2>2. CASE d = c
      <3>1. e # c /\ Writing(e) /\ tx'[e] = tx[e]
        BY <2>2, <1>3, <1>6
      <3> QED  BY <3>1, <2>2, <1>1, <1>2 DEF RevisionsOK
    <2>3. CASE e = c
      <3>1. d # c /\ Writing(d) /\ tx'[d] = tx[d]
        BY <2>3, <1>3, <1>6
      <3> QED  BY <3>1, <2>3, <1>1, <1>2 DEF RevisionsOK
    <2> QED  BY <2>1, <2>2, <2>3
  <1> QED  BY <1>4, <1>5, <1>6 DEF RevisionsOK, Exists

\* A commit gives its revision to its row.
LEMMA CommitRevisions ==
    ASSUME IInv, RevisionsOK, NEW c \in Conns, Commit(c)
    PROVE  RevisionsOK'
  <1>1. /\ tx[c] # Idle /\ tx[c] \in Tx /\ tx[c].rec \in Records
        /\ tx[c].write \in BOOLEAN /\ tx[c].revision \in Nat
    BY Sentinels DEF Commit, IInv, TypeOK, Tx
  <1>2. tx'[c] = Idle /\ ~Writing(c)' /\ \A d \in Conns \ {c} : tx'[d] = tx[d]
    BY DEF Commit, Release, IInv, TypeOK, Writing
  <1>3. CASE ~tx[c].write
    BY <1>2, <1>3, QuietRevisions DEF Commit
  <1>4. CASE tx[c].write
    <2> DEFINE k == tx[c].rec
    <2>1. /\ rows' = [rows EXCEPT ![k] = tx[c].row]
          /\ revision' = [revision EXCEPT ![k] = tx[c].revision]
          /\ sequence' = sequence
      BY <1>4 DEF Commit
    <2>2. rows \in [Records -> Row] /\ revision \in [Records -> Nat] /\ sequence \in Nat
      BY DEF IInv, TypeOK
    <2>3. Writing(c)
      BY <1>1, <1>4 DEF Writing
    <2> HIDE DEF k
    <2>4. k \in Records
      BY <1>1 DEF k
    <2>5. /\ revision'[k] = tx[c].revision
          /\ \A r \in Records \ {k} : revision'[r] = revision[r] /\ rows'[r] = rows[r]
      BY <2>1, <2>2, <2>4
    <2>6. \A d \in Conns : Writing(d)' => d # c /\ Writing(d) /\ tx'[d] = tx[d]
      BY <1>2 DEF Writing
    <2>7. \A r \in Records : revision'[r] <= sequence' /\ (Exists(rows'[r]) => revision'[r] > 0)
      BY <2>1, <2>2, <2>3, <2>4, <2>5 DEF RevisionsOK
    <2>8. \A r, s \in Records : r # s /\ revision'[r] = revision'[s] => revision'[r] = 0
      BY <2>3, <2>4, <2>5 DEF RevisionsOK
    <2>9. ASSUME NEW d \in Conns, Writing(d)'
          PROVE  /\ 0 < tx'[d].revision /\ tx'[d].revision <= sequence'
                 /\ \A r \in Records : revision'[r] # tx'[d].revision
      BY <2>9, <2>1, <2>3, <2>4, <2>5, <2>6 DEF RevisionsOK
    <2>10. ASSUME NEW d \in Conns, NEW e \in Conns, d # e, Writing(d)', Writing(e)'
           PROVE  tx'[d].revision # tx'[e].revision
      BY <2>10, <2>6 DEF RevisionsOK
    <2> QED  BY <2>7, <2>8, <2>9, <2>10 DEF RevisionsOK, Exists
  <1> QED  BY <1>1, <1>3, <1>4

\* The steps that take a revision.
LEMMA StampKeepsRevisions ==
    ASSUME IInv, RevisionsOK, NEW c \in Conns, NEW phase, NEW row, tx[c] # Idle,
           Stamp(c, phase, row), UNCHANGED <<rows, revision>>
    PROVE  RevisionsOK'
  <1>1. tx \in [Conns -> Tx \cup {Idle}] /\ tx[c] \in Tx
    BY DEF IInv, TypeOK
  <1>2. tx'[c].revision = sequence + 1 /\ \A d \in Conns \ {c} : tx'[d] = tx[d]
    BY <1>1 DEF Stamp, Tx
  <1> QED  BY <1>2, StampedRevisions DEF Stamp, IInv

\* The statements of a push.
LEMMA PushRevisions ==
    ASSUME IInv, RevisionsOK, NEW c \in Conns, Push(c)
    PROVE  RevisionsOK'
  <1> USE DEF Writing
  <1>0. tx \in [Conns -> Tx \cup {Idle}]
    BY DEF IInv, TypeOK
  <1>1. ASSUME NEW o \in Ops, Begin(c, o) PROVE RevisionsOK'
    BY <1>0, <1>1, QuietRevisions DEF Begin, Opened
  <1>2. ASSUME NEW o \in Ops, ReplayAnswer(c, o) PROVE RevisionsOK'
    BY <1>2, QuietRevisions DEF ReplayAnswer
  <1>3. CASE SelectForUpdate(c)
    <2>1. tx[c] # Idle /\ tx[c] \in Tx
      BY <1>0, <1>3, Sentinels DEF SelectForUpdate
    <2>2. tx'[c].write = tx[c].write /\ tx'[c].revision = tx[c].revision
      BY <1>0, <1>3, <2>1 DEF SelectForUpdate, Tx
    <2> QED  BY <1>0, <1>3, <2>1, <2>2, QuietRevisions DEF SelectForUpdate
  <1>4. CASE Apply(c)
    <2>1. tx[c] # Idle /\ tx[c] \in Tx
      BY <1>0, <1>4, Sentinels DEF Apply
    <2>2. CASE Writes(tx[c].seen, request[tx[c].op])
      BY <1>4, <2>1, <2>2, StampKeepsRevisions DEF Apply
    <2>3. CASE ~Writes(tx[c].seen, request[tx[c].op])
      <3>1. tx'[c].write = tx[c].write /\ tx'[c].revision = tx[c].revision
        BY <1>0, <1>4, <2>1, <2>3 DEF Apply, Advance, Tx
      <3> QED  BY <1>0, <1>4, <2>1, <2>3, <3>1, QuietRevisions DEF Apply, Advance
    <2> QED  BY <2>2, <2>3
  <1>5. CASE Log(c)
    <2>1. tx[c] # Idle /\ tx[c] \in Tx
      BY <1>0, <1>5, Sentinels DEF Log
    <2>2. tx'[c].write = tx[c].write /\ tx'[c].revision = tx[c].revision
      BY <1>0, <1>5, <2>1 DEF Log, Advance, Tx
    <2> QED  BY <1>0, <1>5, <2>1, <2>2, QuietRevisions DEF Log, Advance
  <1>6. CASE DuplicateKey(c)
    BY <1>0, <1>6, QuietRevisions DEF DuplicateKey, Release
  <1> QED  BY <1>1, <1>2, <1>3, <1>4, <1>5, <1>6 DEF Push

\* The other writers.
LEMMA WriterRevisions ==
    ASSUME IInv, RevisionsOK, NEW c \in Conns, OtherWriter(c)
    PROVE  RevisionsOK'
  <1> USE DEF Writing
  <1>0. tx \in [Conns -> Tx \cup {Idle}]
    BY DEF IInv, TypeOK
  <1>1. ASSUME NEW r \in Records, GenerateReport(c, r) PROVE RevisionsOK'
    BY <1>0, <1>1, StampedRevisions DEF GenerateReport, IInv
  <1>2. ASSUME NEW r \in Records, CheckDelete(c, r) \/ ReadContent(c, r) PROVE RevisionsOK'
    BY <1>0, <1>2, QuietRevisions DEF CheckDelete, ReadContent, Opened
  <1>3. CASE DeleteFromWeb(c)
    <2>1. tx[c] # Idle
      BY <1>3, Sentinels DEF DeleteFromWeb
    <2> QED  BY <1>3, <2>1, StampKeepsRevisions DEF DeleteFromWeb
  <1>4. CASE AppendSection(c)
    <2>1. tx[c] # Idle
      BY <1>4, Sentinels DEF AppendSection
    <2> QED  BY <1>4, <2>1, StampKeepsRevisions DEF AppendSection
  <1> QED  BY <1>1, <1>2, <1>3, <1>4 DEF OtherWriter

\* Every step keeps the revisions apart.
LEMMA RevisionsStep == IInv /\ RevisionsOK /\ [Next]_vars => RevisionsOK'
  <1> SUFFICES ASSUME IInv, RevisionsOK, [Next]_vars PROVE RevisionsOK'
    OBVIOUS
  <1>1. ASSUME NEW o \in Ops, Submit(o) PROVE RevisionsOK'
    BY <1>1 DEF Submit, RevisionsOK, Writing, Exists
  <1>2. ASSUME NEW c \in Conns, Push(c) \/ OtherWriter(c) \/ Commit(c) PROVE RevisionsOK'
    BY <1>2, PushRevisions, WriterRevisions, CommitRevisions
  <1>3. ASSUME NEW c \in Conns, Fail(c) PROVE RevisionsOK'
    BY <1>3, QuietRevisions DEF Fail, Release, Writing, IInv, TypeOK
  <1>4. ASSUME NEW d \in Devices, Pull(d) PROVE RevisionsOK'
    BY <1>4 DEF Pull, RevisionsOK, Writing, Exists
  <1>5. CASE UNCHANGED vars
    BY <1>5 DEF vars, RevisionsOK, Writing, Exists
  <1> QED  BY <1>1, <1>2, <1>3, <1>4, <1>5 DEF Next

\* Revisions stay apart.
THEOREM RevisionsApart == Spec => []RevisionsOK
  <1>1. Init => RevisionsOK
    BY DEF Init, RevisionsOK, Writing, Exists, NoRow
  <1> QED  BY <1>1, RevisionsStep, Inductive, PTL DEF Spec

\* No two rows carry the same revision, whatever order transactions commit in.
THEOREM RevisionsUnique == Spec => []UniqueRevisions
  <1>1. IInv /\ RevisionsOK => UniqueRevisions
    BY DEF RevisionsOK, UniqueRevisions, IInv, TypeOK
  <1> QED  BY <1>1, RevisionsApart, Inductive, PTL

\* No page skips a committed row it moves past: were one left out, it would
\* share its revision with the page's last row.
THEOREM PagesSkipNothing == Spec => PullSkipsNothing
  <1> DEFINE Complete == \A d \in Devices, r \in Records :
                 cursor[d] < revision[r] /\ revision[r] <= cursor'[d]
                 => fetched'[d][r] = revision[r]
  <1>1. ASSUME IInv, RevisionsOK, NEW d \in Devices, Pull(d) PROVE Complete
    <2> SUFFICES ASSUME NEW e \in Devices, NEW r \in Records,
                        cursor[e] < revision[r], revision[r] <= cursor'[e]
                 PROVE  fetched'[e][r] = revision[r]
      OBVIOUS
    <2>1. PICK page \in SUBSET Beyond(d) :
            /\ \A s \in page, t \in Beyond(d) \ page : revision[s] <= revision[t]
            /\ fetched' = [fetched EXCEPT ![d] =
                             [s \in Records |-> IF s \in page THEN revision[s] ELSE @[s]]]
            /\ cursor' \in {[cursor EXCEPT ![d] = revision[s]] : s \in LastOf(page)}
      BY <1>1 DEF Pull
    <2>2. PICK last \in LastOf(page) : cursor' = [cursor EXCEPT ![d] = revision[last]]
      BY <2>1
    <2>3. /\ last \in page /\ page \subseteq Records
          /\ cursor \in [Devices -> Nat] /\ revision \in [Records -> Nat]
          /\ fetched \in [Devices -> [Records -> Nat]]
      BY <1>1 DEF LastOf, Beyond, IInv, TypeOK
    <2>4. e = d /\ cursor'[d] = revision[last]
      <3>1. \A f \in Devices \ {d} : cursor'[f] = cursor[f]
        BY <2>2, <2>3
      <3>2. cursor'[d] = revision[last]
        BY <2>2, <2>3
      <3>3. cursor[e] \in Nat /\ revision[r] \in Nat
        BY <2>3
      <3> QED  BY <3>1, <3>2, <3>3
    <2>5. r \in Beyond(d)
      BY <2>4 DEF Beyond
    <2>6. r \in page
      <3> SUFFICES ASSUME r \notin page PROVE FALSE
        OBVIOUS
      <3>1. revision[last] <= revision[r]
        BY <2>1, <2>3, <2>5
      <3>2. /\ last \in Records /\ last # r /\ cursor[e] \in Nat
            /\ revision[last] \in Nat /\ revision[r] \in Nat
        BY <2>3
      <3>3. revision[r] <= revision[last]
        BY <2>4
      <3>4. revision[last] = revision[r] /\ revision[r] # 0
        BY <3>1, <3>2, <3>3
      <3> QED  BY <3>2, <3>4, <1>1 DEF RevisionsOK
    <2> QED  BY <2>1, <2>3, <2>4, <2>6
  <1>2. ASSUME IInv, UNCHANGED cursor PROVE Complete
    BY <1>2 DEF IInv, TypeOK
  <1>3. IInv /\ RevisionsOK /\ [Next]_vars => [Complete]_vars
    <2> SUFFICES ASSUME IInv, RevisionsOK, Next PROVE Complete
      OBVIOUS
    <2>1. CASE \E d \in Devices : Pull(d)
      BY <2>1, <1>1
    <2>2. CASE ~ \E d \in Devices : Pull(d)
      <3>1. UNCHANGED cursor
        BY <2>2
        DEF Next, Submit, Push, Begin, ReplayAnswer, SelectForUpdate, Apply, Log, DuplicateKey,
            OtherWriter, GenerateReport, CheckDelete, ReadContent, DeleteFromWeb,
            AppendSection, Commit, Fail
      <3> QED  BY <3>1, <1>2
    <2> QED  BY <2>1, <2>2
  <1>4. Spec => [][Complete]_vars
    BY <1>3, RevisionsApart, Inductive, PTL DEF Spec
  <1> QED  BY <1>4 DEF PullSkipsNothing

=============================================================================
