---------------------------- MODULE MeetingProofs ----------------------------
(***************************************************************************)
(* The proof that a video meeting is a full mesh once its messages are     *)
(* delivered.  Two panels are connected by the one with the smaller id,    *)
(* which calls the other when it hears of it; MeshInv says where that call *)
(* is on its way.                                                          *)
(***************************************************************************)
EXTENDS Meeting, FiniteSetTheorems, TLAPS

-----------------------------------------------------------------------------
(* Messages, and what a sequence of them contains.                         *)

UpMsgs == [type : {"start", "end", "status", "join", "leave", "offer", "answer", "kick"},
           from : Panels, who : SUBSET Panels]
DownMsgs == [type : {"started", "ended", "on", "off", "people", "peers", "joined", "left",
                     "kicked", "offer", "answer"},
             from : Panels, who : SUBSET Panels]

\* s has a message of the set S; each message of S in s is followed by one of T.
Has(s, S) == \E i \in DOMAIN s : s[i] \in S
Followed(s, S, T) == \A i \in DOMAIN s : s[i] \in S => \E j \in DOMAIN s : j > i /\ s[j] \in T

Joins == {m \in UpMsgs : m.type = "join"}
Leaves == {m \in UpMsgs : m.type = "leave"}
To(type, q) == {m \in UpMsgs : m.type = type /\ m.who = {q}}
From(type, q) == {m \in DownMsgs : m.type = type /\ m.from = q}
Names(q) == {m \in DownMsgs : m.type \in {"peers", "joined"} /\ q \in m.who}
Left(q) == {m \in DownMsgs : m.type = "left" /\ q \in m.who}

-----------------------------------------------------------------------------
(* The invariant.                                                          *)

\* The camera is lit once for each stream, and prompts come of acts.
CameraOK ==
    \A p \in Panels : /\ panel[p].prompts + panel[p].lit <= acts
                      /\ panel[p].stream => panel[p].lit > 0

\* A panel in the meeting is on the screen, and has not left since it joined.
InOK ==
    \A p \in Panels : panel[p].in => panel[p].open /\ Followed(up[p], Leaves, Joins)

\* The list belongs to a meeting that is on and, but for lost connections, to its room.
PeopleOK == /\ \A p \in meeting.people : sock[p] = "up" => p \in room
            /\ ~meeting.on => meeting.people = {}

\* Without a connection there is no panel and nothing to be served; an id not used yet is not listed.
SockOK ==
    \A p \in Panels : /\ sock[p] # "up" => panel[p] = Shut /\ up[p] = <<>>
                      /\ sock[p] = "unused" => p \notin meeting.people

\* In the meeting for the server and for the panel, with nothing on the way that says otherwise.
Settled(p) == panel[p].in /\ p \in meeting.people /\ ~Has(up[p], Joins)

\* The panel that calls has the call before it, or has called and waits, or is connected.
CallerOK(a, b) ==
    /\ Followed(down[a], Left(b), Names(b))
    /\ \/ Has(down[a], Names(b))
       \/ panel[a].links[b] = "stable"
       \/ /\ panel[a].links[b] = "offered"
          /\ \/ Has(up[a], To("offer", b)) \/ Has(down[b], From("offer", a))
             \/ Has(up[b], To("answer", a)) \/ Has(down[a], From("answer", b))

\* The panel that is called is connected unless the offer has not reached it.
CalleeOK(a, b) ==
    /\ \/ Has(down[a], Names(b)) \/ Has(up[a], To("offer", b)) \/ Has(down[b], From("offer", a))
       \/ panel[b].links[a] = "stable"
    /\ \/ Has(down[a], Names(b)) \/ Has(up[a], To("offer", b))
       \/ Followed(down[b], Left(a), From("offer", a))

MeshInv ==
    \A a, b \in Panels : a < b /\ Settled(a) /\ Settled(b) => CallerOK(a, b) /\ CalleeOK(a, b)

ChannelsOK == up \in [Panels -> Seq(UpMsgs)] /\ down \in [Panels -> Seq(DownMsgs)]

MeetInv == MeetTypeOK /\ ChannelsOK /\ CameraOK /\ InOK /\ PeopleOK /\ SockOK /\ MeshInv

-----------------------------------------------------------------------------
(* Sequences.                                                              *)

\* Taking the head of a sequence.
LEMMA HasTail ==
    ASSUME NEW M, NEW s \in Seq(M), s # <<>>, NEW S
    PROVE  /\ Has(s, S) <=> (Head(s) \in S \/ Has(Tail(s), S))
           /\ Tail(s) \in Seq(M) /\ Head(s) \in M
<1>1. Len(s) \in Nat /\ Len(s) > 0 /\ DOMAIN s = 1..Len(s) /\ DOMAIN Tail(s) = 1..(Len(s) - 1)
  OBVIOUS
<1>2. \A i \in 1..(Len(s) - 1) : Tail(s)[i] = s[i + 1]
  OBVIOUS
<1>3. Head(s) = s[1]
  OBVIOUS
<1>4. ASSUME Has(s, S) PROVE Head(s) \in S \/ Has(Tail(s), S)
  <2>1. PICK i \in DOMAIN s : s[i] \in S
    BY <1>4 DEF Has
  <2>2. CASE i = 1
    BY <2>1, <2>2, <1>3
  <2>3. CASE i # 1
    <3>1. i - 1 \in 1..(Len(s) - 1) /\ Tail(s)[i - 1] = s[i]
      BY <2>3, <1>1, <1>2
    <3> QED BY <3>1, <2>1, <1>1 DEF Has
  <2> QED BY <2>2, <2>3
<1>5. ASSUME Head(s) \in S \/ Has(Tail(s), S) PROVE Has(s, S)
  <2>1. CASE Head(s) \in S
    BY <2>1, <1>1, <1>3 DEF Has
  <2>2. CASE Has(Tail(s), S)
    <3>1. PICK i \in 1..(Len(s) - 1) : Tail(s)[i] \in S
      BY <2>2, <1>1 DEF Has
    <3>2. i + 1 \in DOMAIN s /\ s[i + 1] \in S
      BY <3>1, <1>1, <1>2
    <3> QED BY <3>2 DEF Has
  <2> QED BY <2>1, <2>2, <1>5
<1>6. Tail(s) \in Seq(M) /\ Head(s) \in M
  OBVIOUS
<1> QED BY <1>4, <1>5, <1>6

LEMMA FollowedTail ==
    ASSUME NEW M, NEW s \in Seq(M), s # <<>>, NEW S, NEW T, Followed(s, S, T)
    PROVE  Followed(Tail(s), S, T) /\ (Head(s) \in S => Has(Tail(s), T))
<1>1. Len(s) \in Nat /\ Len(s) > 0 /\ DOMAIN s = 1..Len(s) /\ DOMAIN Tail(s) = 1..(Len(s) - 1)
  OBVIOUS
<1>2. \A i \in 1..(Len(s) - 1) : Tail(s)[i] = s[i + 1]
  OBVIOUS
<1>3. \A i \in DOMAIN s : s[i] \in S => \E j \in 1..(Len(s) - 1) : j + 1 > i /\ Tail(s)[j] \in T
  <2> SUFFICES ASSUME NEW i \in DOMAIN s, s[i] \in S
               PROVE  \E j \in 1..(Len(s) - 1) : j + 1 > i /\ Tail(s)[j] \in T
    OBVIOUS
  <2>1. PICK j \in DOMAIN s : j > i /\ s[j] \in T
    BY DEF Followed
  <2>2. j - 1 \in 1..(Len(s) - 1) /\ (j - 1) + 1 > i /\ Tail(s)[j - 1] = s[j]
    BY <2>1, <1>1, <1>2
  <2> QED BY <2>1, <2>2
<1>4. Followed(Tail(s), S, T)
  <2> SUFFICES ASSUME NEW i \in DOMAIN Tail(s), Tail(s)[i] \in S
               PROVE  \E j \in DOMAIN Tail(s) : j > i /\ Tail(s)[j] \in T
    BY DEF Followed
  <2>1. i + 1 \in DOMAIN s /\ s[i + 1] \in S /\ i \in 1..(Len(s) - 1)
    BY <1>1, <1>2
  <2>2. PICK j \in 1..(Len(s) - 1) : j + 1 > i + 1 /\ Tail(s)[j] \in T
    BY <2>1, <1>3
  <2>3. j > i
    BY <2>1, <2>2, <1>1
  <2>4. j \in DOMAIN Tail(s)
    BY <2>2, <1>1
  <2> QED BY <2>2, <2>3, <2>4
<1>5. ASSUME Head(s) \in S PROVE Has(Tail(s), T)
  <2>1. 1 \in DOMAIN s /\ s[1] \in S
    BY <1>5, <1>1
  <2> QED BY <2>1, <1>3, <1>1 DEF Has
<1> QED BY <1>4, <1>5

\* Putting one sequence behind another.
LEMMA HasConcat ==
    ASSUME NEW M, NEW s \in Seq(M), NEW t \in Seq(M), NEW S
    PROVE  (Has(s \o t, S) <=> Has(s, S) \/ Has(t, S)) /\ s \o t \in Seq(M)
<1>1. /\ DOMAIN s = 1..Len(s) /\ DOMAIN t = 1..Len(t) /\ Len(s) \in Nat /\ Len(t) \in Nat
      /\ DOMAIN (s \o t) = 1..(Len(s) + Len(t)) /\ s \o t \in Seq(M)
  OBVIOUS
<1>2. \A i \in 1..Len(s) : (s \o t)[i] = s[i]
  OBVIOUS
<1>3. \A i \in 1..Len(t) : (s \o t)[Len(s) + i] = t[i]
  OBVIOUS
<1>4. ASSUME NEW i \in DOMAIN (s \o t)
      PROVE  i \in 1..Len(s) \/ (i - Len(s) \in 1..Len(t) /\ (s \o t)[i] = t[i - Len(s)])
  BY <1>1, <1>3
<1>5. ASSUME Has(s \o t, S) PROVE Has(s, S) \/ Has(t, S)
  BY <1>5, <1>4, <1>1, <1>2 DEF Has
<1>6. ASSUME Has(s, S) \/ Has(t, S) PROVE Has(s \o t, S)
  <2>1. CASE Has(s, S)
    BY <2>1, <1>1, <1>2 DEF Has
  <2>2. CASE Has(t, S)
    <3>1. PICK i \in 1..Len(t) : t[i] \in S
      BY <2>2, <1>1 DEF Has
    <3>2. Len(s) + i \in DOMAIN (s \o t) /\ (s \o t)[Len(s) + i] \in S
      BY <3>1, <1>1, <1>3
    <3> QED BY <3>2 DEF Has
  <2> QED BY <1>6, <2>1, <2>2
<1> QED BY <1>1, <1>5, <1>6

LEMMA FollowedConcat ==
    ASSUME NEW M, NEW s \in Seq(M), NEW t \in Seq(M), NEW S, NEW T,
           Has(t, T) \/ Followed(s, S, T), Followed(t, S, T)
    PROVE  Followed(s \o t, S, T)
<1>1. /\ DOMAIN s = 1..Len(s) /\ DOMAIN t = 1..Len(t) /\ Len(s) \in Nat /\ Len(t) \in Nat
      /\ DOMAIN (s \o t) = 1..(Len(s) + Len(t))
  OBVIOUS
<1>2. \A i \in 1..Len(s) : (s \o t)[i] = s[i]
  OBVIOUS
<1>3. \A i \in 1..Len(t) : (s \o t)[Len(s) + i] = t[i] /\ Len(s) + i \in DOMAIN (s \o t)
  BY <1>1
<1> SUFFICES ASSUME NEW i \in DOMAIN (s \o t), (s \o t)[i] \in S
             PROVE  \E j \in DOMAIN (s \o t) : j > i /\ (s \o t)[j] \in T
  BY DEF Followed
<1>4. CASE i > Len(s)
  <2> DEFINE k == i - Len(s)
  <2>1. k \in 1..Len(t) /\ t[k] \in S /\ i = Len(s) + k
    BY <1>1, <1>3, <1>4
  <2>2. PICK j \in 1..Len(t) : j > k /\ t[j] \in T
    BY <2>1, <1>1 DEF Followed
  <2> HIDE DEF k
  <2>3. Len(s) + j \in DOMAIN (s \o t) /\ Len(s) + j > i /\ (s \o t)[Len(s) + j] \in T
    BY <2>1, <2>2, <1>1, <1>3
  <2> QED BY <2>3
<1>5. CASE ~(i > Len(s)) /\ Has(t, T)
  <2>1. PICK j \in 1..Len(t) : t[j] \in T
    BY <1>5, <1>1 DEF Has
  <2>2. Len(s) + j \in DOMAIN (s \o t) /\ Len(s) + j > i /\ (s \o t)[Len(s) + j] \in T
    BY <2>1, <1>5, <1>1, <1>3
  <2> QED BY <2>2
<1>6. CASE ~(i > Len(s)) /\ Followed(s, S, T)
  <2>1. i \in 1..Len(s) /\ s[i] \in S
    BY <1>6, <1>1, <1>2
  <2>2. PICK j \in 1..Len(s) : j > i /\ s[j] \in T
    BY <2>1, <1>6, <1>1 DEF Followed
  <2>3. j \in DOMAIN (s \o t) /\ (s \o t)[j] \in T
    BY <2>2, <1>1, <1>2
  <2> QED BY <2>2, <2>3
<1> QED BY <1>4, <1>5, <1>6

\* A sequence of one.
LEMMA HasOne ==
    ASSUME NEW m, NEW S, NEW T
    PROVE  (Has(<<m>>, S) <=> m \in S) /\ (m \notin S => Followed(<<m>>, S, T)) /\ ~Has(<<>>, S)
  BY DEF Has, Followed

LEMMA NoneFollowed ==
    ASSUME NEW s, NEW S, NEW T, ~Has(s, S)
    PROVE  Followed(s, S, T)
  BY DEF Has, Followed

LEMMA HasAppend ==
    ASSUME NEW M, NEW s \in Seq(M), NEW m \in M, NEW S
    PROVE  (Has(Append(s, m), S) <=> Has(s, S) \/ m \in S) /\ Append(s, m) \in Seq(M)
<1>1. Append(s, m) = s \o <<m>> /\ <<m>> \in Seq(M)
  OBVIOUS
<1>2. (Has(s \o <<m>>, S) <=> Has(s, S) \/ Has(<<m>>, S)) /\ s \o <<m>> \in Seq(M)
  BY <1>1, HasConcat
<1> QED BY <1>1, <1>2, HasOne

LEMMA FollowedAppend ==
    ASSUME NEW M, NEW s \in Seq(M), NEW m \in M, NEW S, NEW T,
           m \in T \/ Followed(s, S, T), m \notin S
    PROVE  Followed(Append(s, m), S, T)
<1>1. Append(s, m) = s \o <<m>> /\ <<m>> \in Seq(M)
  OBVIOUS
<1>2. Has(<<m>>, T) \/ Followed(s, S, T)
  BY HasOne
<1>3. Followed(<<m>>, S, T)
  BY HasOne
<1>4. Followed(s \o <<m>>, S, T)
  BY <1>1, <1>2, <1>3, FollowedConcat
<1> QED BY <1>1, <1>4

\* SetToSeq lists every member.
LEMMA Listed ==
    ASSUME NEW S, IsFiniteSet(S)
    PROVE  SetToSeq(S) \in Seq(S) /\ \A q \in S : \E i \in DOMAIN SetToSeq(S) : SetToSeq(S)[i] = q
<1> DEFINE n == Cardinality(S)
           f == SetToSeq(S)
<1>1. n \in Nat /\ ExistsBijection(1..n, S)
  BY FS_CardinalityType
<1>2. \E g \in [1..n -> S] : IsInjective(g)
  BY <1>1 DEF ExistsBijection, Bijection, Injection
<1>3. f \in [1..n -> S] /\ IsInjective(f)
  BY <1>2 DEF SetToSeq
<1>4. f \in Injection(1..n, S)
  BY <1>3 DEF Injection
<1>5. Cardinality(1..n) = n
  BY <1>1, FS_Interval
<1> HIDE DEF f
<1>6. f \in Surjection(1..n, S)
  BY <1>4, <1>5, FS_Injection
<1>7. f \in Seq(S)
  BY <1>1, <1>3
<1>8. DOMAIN f = 1..n
  BY <1>3
<1>9. \A q \in S : \E i \in DOMAIN f : f[i] = q
  BY <1>6, <1>8 DEF Surjection
<1> QED BY <1>7, <1>9 DEF f

-----------------------------------------------------------------------------
(* Messages.                                                               *)

LEMMA MsgUp ==
    ASSUME NEW p \in Panels, NEW who \in SUBSET Panels,
           NEW type \in {"start", "end", "status", "join", "leave", "offer", "answer", "kick"}
    PROVE  /\ Msg(type, p, who) \in UpMsgs
           /\ Msg(type, p, who) \in Joins <=> type = "join"
           /\ Msg(type, p, who) \in Leaves <=> type = "leave"
           /\ \A q, t : Msg(type, p, who) \in To(t, q) <=> type = t /\ who = {q}
  BY DEF Msg, UpMsgs, Joins, Leaves, To

LEMMA MsgDown ==
    ASSUME NEW p \in Panels, NEW who \in SUBSET Panels,
           NEW type \in {"started", "ended", "on", "off", "people", "peers", "joined", "left",
                         "kicked", "offer", "answer"}
    PROVE  /\ Msg(type, p, who) \in DownMsgs
           /\ \A q, t : Msg(type, p, who) \in From(t, q) <=> type = t /\ p = q
           /\ \A q : Msg(type, p, who) \in Names(q) <=> type \in {"peers", "joined"} /\ q \in who
           /\ \A q : Msg(type, p, who) \in Left(q) <=> type = "left" /\ q \in who
  BY DEF Msg, DownMsgs, From, Names, Left

\* Offers go to everyone named, and are offers only.
LEMMA OffersGo ==
    ASSUME NEW p \in Panels, NEW who \in SUBSET Panels
    PROVE  /\ Offers(p, who) \in Seq(UpMsgs)
           /\ ~Has(Offers(p, who), Joins) /\ ~Has(Offers(p, who), Leaves)
           /\ \A q \in who : Has(Offers(p, who), To("offer", q))
<1> DEFINE s == SetToSeq(who)
           t == Offers(p, who)
<1>1. IsFiniteSet(who)
  BY FS_Subset, MeetingAssumption
<1>2. s \in Seq(who) /\ \A q \in who : \E i \in DOMAIN s : s[i] = q
  BY <1>1, Listed
<1>3. t = [i \in DOMAIN s |-> Msg("offer", p, {s[i]})]
  BY DEF Offers
<1> HIDE DEF s, t
<1>4. \A i \in DOMAIN s : s[i] \in who /\ {s[i]} \in SUBSET Panels
  BY <1>2
<1>5. \A i \in DOMAIN s : /\ t[i] \in UpMsgs /\ t[i] \notin Joins /\ t[i] \notin Leaves
                          /\ t[i] \in To("offer", s[i])
  <2> TAKE i \in DOMAIN s
  <2>1. t[i] = Msg("offer", p, {s[i]})
    BY <1>3
  <2> QED BY <2>1, <1>4, MsgUp
<1>6. DOMAIN t = DOMAIN s /\ DOMAIN s = 1..Len(s) /\ Len(s) \in Nat
  BY <1>2, <1>3
<1>7. t \in Seq(UpMsgs)
  <2>1. t \in [1..Len(s) -> UpMsgs]
    BY <1>3, <1>5, <1>6
  <2> QED BY <2>1, <1>6
<1>8. \A q \in who : Has(t, To("offer", q))
  BY <1>2, <1>5, <1>6 DEF Has
<1>9. ~Has(t, Joins) /\ ~Has(t, Leaves)
  BY <1>5, <1>6 DEF Has
<1> QED BY <1>7, <1>8, <1>9 DEF t

-----------------------------------------------------------------------------
(* The initial state, and steps in which a panel speaks.                   *)

PanelStates == [open : BOOLEAN, active : BOOLEAN, prompts : 0..MaxActs, in : BOOLEAN,
                stream : BOOLEAN, lit : 0..MaxActs, links : [Panels -> Links],
                sends : SUBSET Panels, seen : SUBSET Panels]

LEMMA FreshFacts ==
  Fresh \in PanelStates /\ ~Fresh.in /\ ~Fresh.stream /\ Fresh.prompts = 0 /\ Fresh.lit = 0
BY MeetingAssumption DEF Fresh, PanelStates, Away, Links

LEMMA ShutFacts ==
  Shut \in PanelStates /\ ~Shut.open /\ ~Shut.in /\ ~Shut.stream /\ Shut.prompts = 0 /\ Shut.lit = 0
BY FreshFacts DEF Shut, PanelStates

LEMMA MeetInvInit == MeetInit => MeetInv
<1> SUFFICES ASSUME MeetInit PROVE MeetInv
  OBVIOUS
<1>1. \A r \in {Fresh, Shut} : r \in PanelStates /\ ~r.in /\ ~r.stream /\ r.prompts = 0 /\ r.lit = 0
  BY FreshFacts, ShutFacts
<1>2. /\ panel \in [Panels -> {Fresh, Shut}] /\ sock \in [Panels -> {"unused", "up", "gone"}]
      /\ \A p \in Panels : sock[p] # "up" => panel[p] = Shut /\ up[p] = <<>>
  BY DEF MeetInit
<1>3. MeetTypeOK
  BY <1>1, <1>2, MeetingAssumption DEF MeetInit, MeetTypeOK, PanelStates
<1>4. ChannelsOK
  <2>1. \A p \in Panels : up[p] \in Seq(UpMsgs) /\ down[p] \in Seq(DownMsgs)
    <3> TAKE p \in Panels
    <3>1. Msg("status", p, {}) \in UpMsgs
      BY MsgUp
    <3> QED BY <3>1 DEF MeetInit
  <2> QED BY <2>1 DEF MeetInit, ChannelsOK
<1>5. CameraOK /\ InOK /\ MeshInv
  BY <1>1, <1>2 DEF CameraOK, InOK, MeshInv, Settled, MeetInit
<1>6. PeopleOK /\ SockOK
  BY <1>2 DEF MeetInit, PeopleOK, SockOK
<1> QED BY <1>3, <1>4, <1>5, <1>6 DEF MeetInv

\* Who shows a panel, waits for a camera or has something to be served is connected.
LEMMA IsConnected ==
    ASSUME MeetInv, NEW p \in Panels,
           panel[p].open \/ panel[p].prompts # 0 \/ panel[p].in \/ up[p] # <<>> \/ Settled(p)
    PROVE  sock[p] = "up"
  BY ShutFacts DEF MeetInv, SockOK, Settled

\* The invariant of a pair holds on while its panels only say more.
LEMMA PairSpeaks ==
    ASSUME NEW a \in Panels, NEW b \in Panels, UNCHANGED down,
           panel'[a].links = panel[a].links, panel'[b].links = panel[b].links,
           \A S : (Has(up[a], S) => Has(up'[a], S)) /\ (Has(up[b], S) => Has(up'[b], S)),
           CallerOK(a, b), CalleeOK(a, b)
    PROVE  CallerOK(a, b)' /\ CalleeOK(a, b)'
  BY DEF CallerOK, CalleeOK

LEMMA OneSpeaks ==
    ASSUME MeetInv, NEW p \in Panels, NEW r \in PanelStates, NEW msgs \in Seq(UpMsgs),
           panel' = [panel EXCEPT ![p] = r], up' = [up EXCEPT ![p] = @ \o msgs],
           UNCHANGED <<sock, down, meeting, room>>, acts' \in acts..MaxActs, sock[p] = "up",
           r.prompts + r.lit <= acts', r.stream => r.lit > 0,
           r.in => /\ r.stream /\ r.open /\ ~Has(msgs, Leaves)
                   /\ Has(msgs, Joins) \/ (panel[p].in /\ r.links = panel[p].links)
    PROVE  MeetInv'
<1> USE DEF MeetInv
<1>1. panel \in [Panels -> PanelStates] /\ acts \in 0..MaxActs /\ MaxActs \in Nat
  BY MeetingAssumption DEF MeetTypeOK, PanelStates
<1>2. /\ panel' \in [Panels -> PanelStates] /\ panel'[p] = r
      /\ \A q \in Panels \ {p} : panel'[q] = panel[q]
  BY <1>1
<1>3. MeetTypeOK'
  <2>1. acts' \in 0..MaxActs
    BY <1>1
  <2>2. \A q \in Panels : panel'[q].in => panel'[q].stream
    BY <1>2 DEF MeetTypeOK
  <2> QED BY <1>2, <2>1, <2>2 DEF MeetTypeOK, PanelStates
<1>4. /\ up[p] \in Seq(UpMsgs) /\ up'[p] = up[p] \o msgs /\ up'[p] \in Seq(UpMsgs)
      /\ \A q \in Panels \ {p} : up'[q] = up[q]
  BY HasConcat DEF ChannelsOK
<1>5. ChannelsOK'
  BY <1>4 DEF ChannelsOK
<1>6. CameraOK'
  <2> SUFFICES ASSUME NEW q \in Panels
               PROVE  /\ panel'[q].prompts + panel'[q].lit <= acts'
                      /\ panel'[q].stream => panel'[q].lit > 0
    BY DEF CameraOK
  <2>1. CASE q = p
    BY <2>1, <1>2
  <2>2. CASE q # p
    <3>1. panel[q].prompts \in Nat /\ panel[q].lit \in Nat
      BY <1>1 DEF PanelStates
    <3>2. panel[q].prompts + panel[q].lit <= acts /\ (panel[q].stream => panel[q].lit > 0)
      BY DEF CameraOK
    <3> QED BY <2>2, <1>1, <1>2, <3>1, <3>2
  <2> QED BY <2>1, <2>2
<1>7. \A S : Has(up'[p], S) <=> Has(up[p], S) \/ Has(msgs, S)
  <2> TAKE S
  <2>1. Has(up[p] \o msgs, S) <=> Has(up[p], S) \/ Has(msgs, S)
    BY <1>4, HasConcat
  <2> QED BY <2>1, <1>4
<1>8. InOK'
  <2> SUFFICES ASSUME NEW q \in Panels, panel'[q].in
               PROVE  panel'[q].open /\ Followed(up'[q], Leaves, Joins)
    BY DEF InOK
  <2>1. CASE q # p
    BY <2>1, <1>2, <1>4 DEF InOK
  <2>2. CASE q = p
    <3>1. r.in /\ r.open /\ ~Has(msgs, Leaves)
      BY <2>2, <1>2
    <3>2. Followed(msgs, Leaves, Joins)
      BY <3>1, NoneFollowed
    <3>3. Has(msgs, Joins) \/ Followed(up[p], Leaves, Joins)
      BY <3>1 DEF InOK
    <3>4. Followed(up[p] \o msgs, Leaves, Joins)
      BY <1>4, <3>2, <3>3, FollowedConcat
    <3> QED BY <2>2, <3>1, <3>4, <1>2, <1>4
  <2> QED BY <2>1, <2>2
<1>9. PeopleOK' /\ SockOK'
  BY <1>2, <1>4 DEF PeopleOK, SockOK
<1>10. MeshInv'
  <2> SUFFICES ASSUME NEW a \in Panels, NEW b \in Panels, a < b, Settled(a)', Settled(b)'
               PROVE  CallerOK(a, b)' /\ CalleeOK(a, b)'
    BY DEF MeshInv
  <2>1. ASSUME NEW q \in Panels, Settled(q)'
        PROVE  /\ Settled(q) /\ panel'[q].links = panel[q].links
               /\ \A S : Has(up[q], S) => Has(up'[q], S)
    <3>1. CASE q # p
      BY <2>1, <3>1, <1>2, <1>4 DEF Settled
    <3>2. CASE q = p
      <4>1. r.in /\ ~Has(up[p], Joins) /\ ~Has(msgs, Joins) /\ p \in meeting.people
        BY <2>1, <3>2, <1>2, <1>7 DEF Settled
      <4> QED BY <3>2, <4>1, <1>2, <1>7 DEF Settled
    <3> QED BY <3>1, <3>2
  <2>2. Settled(a) /\ Settled(b)
    BY <2>1
  <2>3. CallerOK(a, b) /\ CalleeOK(a, b)
    BY <2>2 DEF MeshInv
  <2> QED BY <2>1, <2>3, PairSpeaks
<1> QED BY <1>3, <1>5, <1>6, <1>8, <1>9, <1>10

\* A panel says one thing.
LEMMA SaysOne ==
    ASSUME NEW p \in Panels, NEW who \in SUBSET Panels,
           NEW type \in {"start", "end", "status", "join", "leave", "offer", "answer", "kick"}
    PROVE  /\ <<Msg(type, p, who)>> \in Seq(UpMsgs)
           /\ Has(<<Msg(type, p, who)>>, Joins) <=> type = "join"
           /\ Has(<<Msg(type, p, who)>>, Leaves) <=> type = "leave"
           /\ \A q, t : Has(<<Msg(type, p, who)>>, To(t, q)) <=> type = t /\ who = {q}
<1> DEFINE m == Msg(type, p, who)
<1>1. /\ m \in UpMsgs /\ (m \in Joins <=> type = "join") /\ (m \in Leaves <=> type = "leave")
      /\ \A q, t : m \in To(t, q) <=> type = t /\ who = {q}
  BY MsgUp
<1> HIDE DEF m
<1>2. <<m>> \in Seq(UpMsgs)
  BY <1>1
<1>3. \A S : Has(<<m>>, S) <=> m \in S
  BY DEF Has
<1> QED BY <1>1, <1>2, <1>3 DEF m

\* The prompts, the camera and the buttons of a panel.
LEMMA MeetingStarts ==
    ASSUME MeetInv, NEW p \in Panels, StartMeeting(p)
    PROVE  MeetInv'
<1> DEFINE r == [panel[p] EXCEPT !.active = TRUE, !.prompts = IF panel[p].in THEN @ ELSE @ + 1]
           msgs == <<Msg("start", p, {})>>
<1>1. panel[p] \in PanelStates /\ acts \in Nat /\ panel[p].prompts + panel[p].lit <= acts
  BY DEF MeetInv, MeetTypeOK, PanelStates, CameraOK
<1>2. acts < MaxActs /\ acts' = acts + 1 /\ MaxActs \in Nat
  BY MeetingAssumption DEF StartMeeting, Act
<1>3. r \in PanelStates /\ r.prompts + r.lit <= acts'
  <2>1. /\ panel[p].prompts \in Nat /\ panel[p].lit \in Nat
        /\ panel[p].prompts + 1 \in 0..MaxActs /\ panel[p].prompts \in 0..MaxActs
    BY <1>1, <1>2 DEF PanelStates
  <2>2. r \in PanelStates
    BY <1>1, <2>1 DEF PanelStates
  <2>3. r.lit = panel[p].lit /\ r.prompts \in {panel[p].prompts, panel[p].prompts + 1}
    BY <1>1 DEF PanelStates
  <2> QED BY <1>1, <1>2, <2>1, <2>2, <2>3
<1>4. msgs \in Seq(UpMsgs) /\ ~Has(msgs, Leaves)
  BY SaysOne
<1>5. r.in = panel[p].in /\ r.open = panel[p].open /\ r.links = panel[p].links
      /\ r.stream = panel[p].stream /\ r.lit = panel[p].lit
  BY <1>1 DEF PanelStates
<1>6. (r.stream => r.lit > 0) /\ (r.in => r.stream /\ r.open)
  BY <1>5 DEF MeetInv, CameraOK, InOK, MeetTypeOK
<1>7. panel' = [panel EXCEPT ![p] = r] /\ up' = [up EXCEPT ![p] = @ \o msgs]
  BY DEF StartMeeting, Emit, MeetInv, MeetTypeOK
<1>8. UNCHANGED <<sock, down, meeting, room>> /\ acts' \in acts..MaxActs
  BY <1>1, <1>2 DEF StartMeeting
<1>9. sock[p] = "up"
  BY IsConnected DEF StartMeeting
<1> HIDE DEF r, msgs
<1> QED BY <1>3, <1>4, <1>5, <1>6, <1>7, <1>8, <1>9, OneSpeaks

\* Saying nothing, a panel may ask for the camera or be refused it.
LEMMA Silence ==
    ASSUME MeetInv, NEW p \in Panels, UNCHANGED up
    PROVE  <<>> \in Seq(UpMsgs) /\ up' = [up EXCEPT ![p] = @ \o <<>>] /\ ~Has(<<>>, Leaves)
<1>1. up[p] \in Seq(UpMsgs) /\ up[p] \o <<>> = up[p]
  BY DEF MeetInv, ChannelsOK
<1>2. up' = [up EXCEPT ![p] = @ \o <<>>]
  BY <1>1 DEF MeetInv, ChannelsOK
<1>3. ~Has(<<>>, Leaves)
  BY DEF Has
<1>4. <<>> \in Seq(UpMsgs)
  OBVIOUS
<1> QED BY <1>2, <1>3, <1>4

LEMMA CameraAsked ==
    ASSUME MeetInv, NEW p \in Panels, AskToJoin(p) \/ PromptDenied(p)
    PROVE  MeetInv'
<1> DEFINE r == [panel[p] EXCEPT !.prompts = IF AskToJoin(p) THEN @ + 1 ELSE @ - 1]
<1>1. panel[p] \in PanelStates /\ acts \in 0..MaxActs /\ panel[p].prompts + panel[p].lit <= acts
  BY DEF MeetInv, MeetTypeOK, PanelStates, CameraOK
<1>2. MaxActs \in Nat
  BY MeetingAssumption
<1>3. /\ panel' = [panel EXCEPT ![p] = r] /\ acts' \in acts..MaxActs
      /\ r \in PanelStates /\ r.prompts + r.lit <= acts'
      /\ UNCHANGED <<sock, up, down, meeting, room>>
  <2>1. CASE AskToJoin(p)
    BY <2>1, <1>1, <1>2 DEF AskToJoin, Act, PanelStates
  <2>2. CASE ~AskToJoin(p)
    BY <2>2, <1>1, <1>2 DEF PromptDenied, PanelStates
  <2> QED BY <2>1, <2>2
<1>4. r.in = panel[p].in /\ r.open = panel[p].open /\ r.links = panel[p].links
      /\ r.stream = panel[p].stream /\ r.lit = panel[p].lit
  BY <1>1 DEF PanelStates
<1>5. (r.stream => r.lit > 0) /\ (r.in => r.stream /\ r.open)
  BY <1>4 DEF MeetInv, CameraOK, InOK, MeetTypeOK
<1>6. sock[p] = "up"
  BY <1>1, IsConnected DEF AskToJoin, PromptDenied, PanelStates
<1> HIDE DEF r
<1> QED BY <1>3, <1>4, <1>5, <1>6, Silence, OneSpeaks

\* leaveMeeting leaves nothing of the meeting.
LEMMA HangsUp ==
    ASSUME NEW r \in PanelStates, NEW sees \in BOOLEAN, r.stream => r.lit > 0
    PROVE  /\ Hung(r, sees) \in PanelStates /\ ~Hung(r, sees).in /\ ~Hung(r, sees).stream
           /\ Hung(r, sees).prompts = r.prompts /\ Hung(r, sees).lit <= r.lit
<1>1. r.lit \in 0..MaxActs /\ (r.stream => r.lit - 1 \in 0..MaxActs) /\ MaxActs \in Nat
  BY MeetingAssumption DEF PanelStates
<1>2. Away \in [Panels -> Links]
  BY DEF Away, Links
<1> DEFINE lit == IF sees /\ r.stream THEN r.lit - 1 ELSE r.lit
<1>3. lit \in 0..MaxActs /\ lit <= r.lit
  BY <1>1
<1>4. Hung(r, sees) = [r EXCEPT !.in = FALSE, !.stream = FALSE, !.links = Away, !.sends = {}, !.lit = lit]
  BY DEF Hung
<1> HIDE DEF lit
<1> QED BY <1>2, <1>3, <1>4 DEF PanelStates

LEMMA PanelFacts ==
    ASSUME MeetInv, NEW p \in Panels
    PROVE  /\ panel[p] \in PanelStates /\ acts \in 0..MaxActs /\ MaxActs \in Nat
           /\ panel[p].prompts \in Nat /\ panel[p].lit \in Nat
           /\ panel[p].prompts + panel[p].lit <= acts
           /\ panel[p].stream => panel[p].lit > 0
           /\ panel[p].in => panel[p].stream /\ panel[p].open
           /\ up[p] \in Seq(UpMsgs) /\ down[p] \in Seq(DownMsgs)
<1>1. panel[p] \in PanelStates /\ acts \in 0..MaxActs /\ MaxActs \in Nat
  BY MeetingAssumption DEF MeetInv, MeetTypeOK, PanelStates
<1>2. panel[p].prompts \in Nat /\ panel[p].lit \in Nat
  BY <1>1 DEF PanelStates
<1> QED BY <1>1, <1>2 DEF MeetInv, MeetTypeOK, CameraOK, InOK, ChannelsOK

LEMMA PanelLeaves ==
    ASSUME MeetInv, NEW p \in Panels, LeaveMeeting(p) \/ EndMeeting(p) \/ ClosePanel(p)
    PROVE  MeetInv'
<1>0. /\ panel \in [Panels -> PanelStates] /\ up \in [Panels -> Seq(UpMsgs)]
      /\ acts \in 0..MaxActs /\ MaxActs \in Nat
  BY MeetingAssumption DEF MeetInv, MeetTypeOK, PanelStates, ChannelsOK
<1>1. acts' \in acts..MaxActs /\ acts' = acts + 1 /\ UNCHANGED <<sock, down, meeting, room>>
  <2>1. acts < MaxActs /\ acts' = acts + 1 /\ UNCHANGED <<sock, down, meeting, room>>
    BY DEF LeaveMeeting, EndMeeting, ClosePanel, Act
  <2> QED BY <1>0, <2>1
<1>2. \E r \in PanelStates, msgs \in Seq(UpMsgs) :
         /\ panel' = [panel EXCEPT ![p] = r] /\ up' = [up EXCEPT ![p] = @ \o msgs]
         /\ r.prompts = panel[p].prompts /\ r.lit <= panel[p].lit /\ ~r.in /\ ~r.stream
  <2>1. Hung(panel[p], TRUE) \in PanelStates /\ ~Hung(panel[p], TRUE).in /\ ~Hung(panel[p], TRUE).stream
        /\ Hung(panel[p], TRUE).prompts = panel[p].prompts /\ Hung(panel[p], TRUE).lit <= panel[p].lit
    BY HangsUp, PanelFacts
  <2>2. CASE LeaveMeeting(p)
    <3>1. <<Msg("leave", p, {})>> \in Seq(UpMsgs)
      BY MsgUp
    <3> QED BY <2>1, <2>2, <3>1, <1>0 DEF LeaveMeeting, Emit
  <2>3. CASE EndMeeting(p)
    <3> DEFINE r == [Hung(panel[p], TRUE) EXCEPT !.active = FALSE]
    <3>1. <<Msg("end", p, {}), Msg("leave", p, {})>> \in Seq(UpMsgs)
      BY MsgUp
    <3>2. r \in PanelStates /\ r.in = Hung(panel[p], TRUE).in /\ r.lit = Hung(panel[p], TRUE).lit
          /\ r.stream = Hung(panel[p], TRUE).stream /\ r.prompts = Hung(panel[p], TRUE).prompts
      BY <2>1 DEF PanelStates
    <3>3. panel' = [panel EXCEPT ![p] = r]
      BY <2>3, <1>0 DEF EndMeeting
    <3> HIDE DEF r
    <3> QED BY <2>1, <2>3, <3>1, <3>2, <3>3 DEF EndMeeting, Emit
  <2>4. CASE ClosePanel(p)
    <3> DEFINE r == [Shut EXCEPT !.prompts = panel[p].prompts, !.lit = panel[p].lit]
    <3>1. <<Msg("leave", p, {})>> \in Seq(UpMsgs)
      BY MsgUp
    <3>2. r \in PanelStates /\ ~r.in /\ ~r.stream /\ r.lit = panel[p].lit /\ r.prompts = panel[p].prompts
      BY PanelFacts, ShutFacts DEF PanelStates
    <3>3. panel' = [panel EXCEPT ![p] = r] /\ r.lit <= panel[p].lit
      BY <2>4, <3>2, PanelFacts DEF ClosePanel
    <3> HIDE DEF r
    <3> QED BY <2>4, <3>1, <3>2, <3>3 DEF ClosePanel, Emit
  <2> QED BY <2>2, <2>3, <2>4
<1>3. PICK r \in PanelStates, msgs \in Seq(UpMsgs) :
         /\ panel' = [panel EXCEPT ![p] = r] /\ up' = [up EXCEPT ![p] = @ \o msgs]
         /\ r.prompts = panel[p].prompts /\ r.lit <= panel[p].lit /\ ~r.in /\ ~r.stream
  BY <1>2
<1>4. r.prompts + r.lit <= acts'
  <2>1. r.lit \in Nat
    BY DEF PanelStates
  <2> QED BY <1>1, <1>3, <2>1, PanelFacts
<1>5. sock[p] = "up"
  BY IsConnected DEF LeaveMeeting, EndMeeting, ClosePanel
<1> QED BY <1>1, <1>3, <1>4, <1>5, OneSpeaks

LEMMA PanelOpens ==
    ASSUME MeetInv, NEW p \in Panels, OpenPanel(p)
    PROVE  MeetInv'
<1> DEFINE r == [panel[p] EXCEPT !.open = TRUE]
           msgs == <<Msg("status", p, {})>>
<1>1. msgs \in Seq(UpMsgs) /\ ~Has(msgs, Leaves)
  BY SaysOne
<1>0. panel[p] \in PanelStates
  BY PanelFacts
<1>2. r \in PanelStates /\ r.prompts = panel[p].prompts /\ r.lit = panel[p].lit /\ r.in = panel[p].in
      /\ r.stream = panel[p].stream /\ r.links = panel[p].links /\ r.open
  BY <1>0 DEF PanelStates
<1>3. /\ acts' \in acts..MaxActs /\ r.prompts + r.lit <= acts' /\ UNCHANGED <<sock, down, meeting, room>>
      /\ panel' = [panel EXCEPT ![p] = r] /\ up' = [up EXCEPT ![p] = @ \o msgs]
  BY <1>2, PanelFacts DEF OpenPanel, Act, Emit, MeetInv, MeetTypeOK
<1>4. sock[p] = "up"
  BY DEF OpenPanel
<1> HIDE DEF r, msgs
<1> QED BY <1>1, <1>2, <1>3, <1>4, PanelFacts, OneSpeaks

LEMMA PanelKicks ==
    ASSUME MeetInv, NEW p \in Panels, NEW q \in Panels, Kick(p, q)
    PROVE  MeetInv'
<1> DEFINE msgs == <<Msg("kick", p, {q})>>
<1>1. msgs \in Seq(UpMsgs) /\ ~Has(msgs, Leaves)
  <2>1. {q} \in SUBSET Panels
    OBVIOUS
  <2> QED BY <2>1, SaysOne
<1>2. /\ acts' \in acts..MaxActs /\ panel[p].prompts + panel[p].lit <= acts'
      /\ panel' = [panel EXCEPT ![p] = panel[p]] /\ up' = [up EXCEPT ![p] = @ \o msgs]
      /\ UNCHANGED <<sock, down, meeting, room>>
  BY PanelFacts DEF Kick, Act, Emit, MeetInv, MeetTypeOK
<1>3. sock[p] = "up"
  BY IsConnected DEF Kick
<1> HIDE DEF msgs
<1> QED BY <1>1, <1>2, <1>3, PanelFacts, OneSpeaks

\* makePeer and createOffer change links and cameras sent, nothing else.
LEMMA LinkedFacts ==
    ASSUME NEW p \in Panels, NEW r \in PanelStates, NEW who \in SUBSET Panels, NEW camera \in BOOLEAN
    PROVE  /\ Linked(p, r, who, camera) \in PanelStates
           /\ Linked(p, r, who, camera).in = r.in /\ Linked(p, r, who, camera).open = r.open
           /\ Linked(p, r, who, camera).stream = r.stream /\ Linked(p, r, who, camera).lit = r.lit
           /\ Linked(p, r, who, camera).prompts = r.prompts
           /\ \A q \in Panels : Linked(p, r, who, camera).links[q] =
                                    IF q \in Callees(p, who) THEN "offered"
                                    ELSE IF q \in who /\ r.links[q] = "none" THEN "new" ELSE r.links[q]
<1> DEFINE links == [q \in Panels |-> IF q \in Callees(p, who) THEN "offered"
                                      ELSE IF q \in who /\ r.links[q] = "none" THEN "new" ELSE r.links[q]]
           sends == IF camera THEN r.sends \union {q \in who : r.links[q] = "none"} ELSE r.sends
<1>1. links \in [Panels -> Links] /\ sends \in SUBSET Panels
  BY DEF Links, PanelStates
<1>2. Linked(p, r, who, camera) = [r EXCEPT !.links = links, !.sends = sends]
  BY DEF Linked
<1>3. \A q \in Panels : links[q] = IF q \in Callees(p, who) THEN "offered"
                                   ELSE IF q \in who /\ r.links[q] = "none" THEN "new" ELSE r.links[q]
  OBVIOUS
<1> HIDE DEF links, sends
<1> QED BY <1>1, <1>2, <1>3 DEF PanelStates

LEMMA CameraGranted ==
    ASSUME MeetInv, NEW p \in Panels, PromptGranted(p)
    PROVE  MeetInv'
<1> DEFINE r == [panel[p] EXCEPT !.prompts = @ - 1, !.lit = @ + 1]
           old == {q \in Panels : r.links[q] # "none"}
           met == r.seen \ {p}
           r1 == [r EXCEPT !.in = TRUE, !.stream = TRUE, !.sends = @ \union old,
                           !.links = [q \in Panels |-> IF q \in old THEN "offered" ELSE @[q]]]
           join == <<Msg("join", p, {})>>
           msgs == join \o Offers(p, old) \o Offers(p, Callees(p, met))
<1>1. /\ panel[p].prompts - 1 \in 0..MaxActs /\ panel[p].lit + 1 \in 0..MaxActs
      /\ (panel[p].prompts - 1) + (panel[p].lit + 1) <= acts /\ acts' = acts
  BY PanelFacts DEF PromptGranted
<1>0. panel[p] \in PanelStates /\ panel[p].lit \in Nat
  BY PanelFacts
<1>2. /\ r \in PanelStates /\ r.prompts + r.lit <= acts /\ r.lit > 0
      /\ r.in = panel[p].in /\ r.open = panel[p].open /\ r.stream = panel[p].stream
  <2>1. r.prompts = panel[p].prompts - 1 /\ r.lit = panel[p].lit + 1
    BY <1>0 DEF PanelStates
  <2>2. r \in PanelStates /\ r.in = panel[p].in /\ r.open = panel[p].open /\ r.stream = panel[p].stream
    BY <1>0, <1>1 DEF PanelStates
  <2> QED BY <1>0, <1>1, <2>1, <2>2
<1>3. join \in Seq(UpMsgs) /\ Has(join, Joins) /\ ~Has(join, Leaves)
  BY SaysOne
<1>4. acts' \in acts..MaxActs /\ UNCHANGED <<sock, down, meeting, room>> /\ sock[p] = "up"
  BY <1>0, PanelFacts, IsConnected DEF PromptGranted
<1>5. CASE ~r.open
  <2>1. panel' = [panel EXCEPT ![p] = r] /\ up' = [up EXCEPT ![p] = @ \o join]
    BY <1>5 DEF PromptGranted, Emit
  <2>2. ~r.in
    BY <1>2, <1>5, PanelFacts
  <2> HIDE DEF r, join
  <2> QED BY <1>1, <1>2, <1>3, <1>4, <2>1, <2>2, OneSpeaks
<1>6. CASE r.open
  <2> DEFINE r2 == Linked(p, r1, met, TRUE)
  <2>1. r1 \in PanelStates /\ r1.in /\ r1.stream /\ r1.open /\ r1.lit = r.lit /\ r1.prompts = r.prompts
    <3>1. old \in SUBSET Panels /\ [q \in Panels |-> IF q \in old THEN "offered" ELSE r.links[q]] \in [Panels -> Links]
      BY <1>2 DEF PanelStates, Links
    <3> HIDE DEF r, old
    <3> QED BY <1>2, <1>6, <3>1 DEF PanelStates
  <2>2. met \in SUBSET Panels /\ Callees(p, met) \in SUBSET Panels /\ old \in SUBSET Panels
    BY <1>2 DEF PanelStates, Callees
  <2>3. panel' = [panel EXCEPT ![p] = r2] /\ up' = [up EXCEPT ![p] = @ \o msgs]
    BY <1>6 DEF PromptGranted, Emit
  <2> HIDE DEF r, r1, old, met, join
  <2>4. r2 \in PanelStates /\ r2.in /\ r2.stream /\ r2.open /\ r2.lit = r.lit /\ r2.prompts = r.prompts
    <3>1. TRUE \in BOOLEAN
      OBVIOUS
    <3>2. /\ r2 \in PanelStates /\ r2.in = r1.in /\ r2.open = r1.open /\ r2.stream = r1.stream
          /\ r2.lit = r1.lit /\ r2.prompts = r1.prompts
      BY <2>1, <2>2, <3>1, LinkedFacts
    <3> HIDE DEF r2
    <3> QED BY <2>1, <3>2
  <2>5. msgs \in Seq(UpMsgs) /\ Has(msgs, Joins) /\ ~Has(msgs, Leaves)
    <3>1. /\ Offers(p, old) \in Seq(UpMsgs) /\ ~Has(Offers(p, old), Leaves)
          /\ Offers(p, Callees(p, met)) \in Seq(UpMsgs) /\ ~Has(Offers(p, Callees(p, met)), Leaves)
      BY <2>2, OffersGo
    <3>2. /\ join \o Offers(p, old) \in Seq(UpMsgs) /\ Has(join \o Offers(p, old), Joins)
          /\ ~Has(join \o Offers(p, old), Leaves)
      BY <1>3, <3>1, HasConcat
    <3> QED BY <3>1, <3>2, HasConcat
  <2> HIDE DEF r2, msgs
  <2> QED BY <1>1, <1>2, <1>4, <2>3, <2>4, <2>5, OneSpeaks
<1> QED BY <1>5, <1>6

-----------------------------------------------------------------------------
(* The server.                                                             *)

\* Channels to the panels that only grow.
Grown(d, e) == /\ e \in [Panels -> Seq(DownMsgs)]
               /\ \A q \in Panels : \A S : Has(d[q], S) => Has(e[q], S)

LEMMA ToldFacts ==
    ASSUME NEW d \in [Panels -> Seq(DownMsgs)], NEW who \in SUBSET Panels, NEW m \in DownMsgs
    PROVE  /\ Grown(d, Told(d, who, m))
           /\ \A q \in who : \A S : m \in S => Has(Told(d, who, m)[q], S)
           /\ \A q \in Panels : \A S, T : m \notin S /\ Followed(d[q], S, T) => Followed(Told(d, who, m)[q], S, T)
           /\ \A q \in who : \A S, T : m \notin S /\ m \in T => Followed(Told(d, who, m)[q], S, T)
<1> DEFINE e == Told(d, who, m)
<1>1. \A q \in Panels : e[q] = IF q \in who THEN Append(d[q], m) ELSE d[q]
  BY DEF Told
<1>2. ASSUME NEW q \in Panels, NEW S
      PROVE  Append(d[q], m) \in Seq(DownMsgs) /\ (Has(Append(d[q], m), S) <=> Has(d[q], S) \/ m \in S)
  BY HasAppend
<1>3. e \in [Panels -> Seq(DownMsgs)]
  BY <1>2 DEF Told
<1> HIDE DEF e
<1>4. \A q \in Panels : \A S : Has(d[q], S) => Has(e[q], S)
  BY <1>1, <1>2
<1>5. \A q \in who : \A S : m \in S => Has(e[q], S)
  BY <1>1, <1>2
<1>6. ASSUME NEW q \in Panels, NEW S, NEW T, m \notin S, Followed(d[q], S, T)
      PROVE  Followed(e[q], S, T)
  BY <1>1, <1>6, FollowedAppend
<1>7. ASSUME NEW q \in who, NEW S, NEW T, m \notin S, m \in T
      PROVE  Followed(e[q], S, T)
  BY <1>1, <1>7, FollowedAppend
<1> QED BY <1>3, <1>4, <1>5, <1>6, <1>7 DEF Grown, e

LEMMA GrownTwice ==
    ASSUME NEW c, NEW d, NEW e, Grown(c, d), Grown(d, e)
    PROVE  Grown(c, e)
  BY DEF Grown

\* A message moves on, or more is said to the panels.
LEMMA PairMoves ==
    ASSUME NEW a \in Panels, NEW b \in Panels, UNCHANGED panel, Grown(down, down'),
           Has(up[a], To("offer", b)) => \/ Has(up'[a], To("offer", b))
                                         \/ /\ Has(down'[b], From("offer", a))
                                            /\ Followed(down'[b], Left(a), From("offer", a)),
           Has(up[b], To("answer", a)) => Has(up'[b], To("answer", a)) \/ Has(down'[a], From("answer", b)),
           Followed(down[a], Left(b), Names(b)) => Followed(down'[a], Left(b), Names(b)),
           Followed(down[b], Left(a), From("offer", a)) => Followed(down'[b], Left(a), From("offer", a)),
           CallerOK(a, b), CalleeOK(a, b)
    PROVE  CallerOK(a, b)' /\ CalleeOK(a, b)'
<1>1. \A S : (Has(down[a], S) => Has(down'[a], S)) /\ (Has(down[b], S) => Has(down'[b], S))
  BY DEF Grown
<1>2. CallerOK(a, b)'
  BY <1>1 DEF CallerOK
<1>3. CalleeOK(a, b)'
  BY <1>1 DEF CalleeOK
<1> QED BY <1>2, <1>3

\* What every step of the server does to the invariant outside the pairs.
LEMMA ServerFrame ==
    ASSUME MeetInv, NEW p \in Panels, up[p] # <<>>, up' = [up EXCEPT ![p] = Tail(@)],
           UNCHANGED <<panel, sock, acts>>, meeting' \in [on : BOOLEAN, people : SUBSET Panels],
           meeting'.people \subseteq meeting.people \cup {p},
           room' \subseteq Panels, PeopleOK', Grown(down, down'), MeshInv'
    PROVE  MeetInv'
<1>1. /\ up'[p] = Tail(up[p]) /\ up'[p] \in Seq(UpMsgs) /\ \A q \in Panels \ {p} : up'[q] = up[q]
  BY HasTail DEF MeetInv, ChannelsOK
<1>2. ChannelsOK'
  BY <1>1 DEF MeetInv, ChannelsOK, Grown
<1>3. InOK'
  <2> SUFFICES ASSUME NEW q \in Panels, panel[q].in PROVE panel[q].open /\ Followed(up'[q], Leaves, Joins)
    BY DEF InOK
  <2>1. panel[q].open /\ Followed(up[q], Leaves, Joins) /\ up[q] \in Seq(UpMsgs)
    BY DEF MeetInv, InOK, ChannelsOK
  <2>2. CASE q = p
    BY <2>1, <2>2, <1>1, FollowedTail
  <2> QED BY <2>1, <2>2, <1>1
<1>4. MeetTypeOK' /\ CameraOK'
  BY DEF MeetInv, MeetTypeOK, CameraOK
<1>5. SockOK'
  BY <1>1, IsConnected DEF MeetInv, SockOK
<1> QED BY <1>2, <1>3, <1>4, <1>5 DEF MeetInv

\* A message that puts nobody into the meeting.
LEMMA ServedStep ==
    ASSUME MeetInv, NEW p \in Panels, up[p] # <<>>, up' = [up EXCEPT ![p] = Tail(@)],
           UNCHANGED <<panel, sock, acts>>, meeting' \in [on : BOOLEAN, people : SUBSET Panels],
           room' \subseteq Panels, PeopleOK', Grown(down, down'),
           meeting'.people \subseteq meeting.people,
           Head(up[p]) \notin Joins \/ meeting'.people = {},
           \A a, b \in meeting'.people : \A T :
              a # b /\ Followed(down[a], Left(b), T) => Followed(down'[a], Left(b), T),
           \A q \in meeting'.people : p \in meeting'.people =>
              /\ Head(up[p]) \in To("offer", q) => /\ Has(down'[q], From("offer", p))
                                                   /\ Followed(down'[q], Left(p), From("offer", p))
              /\ Head(up[p]) \in To("answer", q) => Has(down'[q], From("answer", p))
    PROVE  MeetInv'
<1>1. /\ up'[p] = Tail(up[p]) /\ \A q \in Panels \ {p} : up'[q] = up[q]
      /\ \A S : Has(up[p], S) <=> Head(up[p]) \in S \/ Has(up'[p], S)
  BY HasTail DEF MeetInv, ChannelsOK
<1>2. ASSUME NEW x \in Panels, Settled(x)' PROVE Settled(x) /\ x \in meeting'.people
  BY <1>1, <1>2 DEF Settled
<1>3. MeshInv'
  <2> SUFFICES ASSUME NEW a \in Panels, NEW b \in Panels, a < b, Settled(a)', Settled(b)'
               PROVE  CallerOK(a, b)' /\ CalleeOK(a, b)'
    BY DEF MeshInv
  <2>1. Settled(a) /\ Settled(b) /\ a \in meeting'.people /\ b \in meeting'.people /\ a # b
    BY <1>2, MeetingAssumption
  <2>2. CallerOK(a, b) /\ CalleeOK(a, b)
    BY <2>1 DEF MeetInv, MeshInv
  <2>3. Has(up[a], To("offer", b)) => \/ Has(up'[a], To("offer", b))
                                      \/ /\ Has(down'[b], From("offer", a))
                                         /\ Followed(down'[b], Left(a), From("offer", a))
    BY <1>1, <2>1
  <2>4. Has(up[b], To("answer", a)) => Has(up'[b], To("answer", a)) \/ Has(down'[a], From("answer", b))
    BY <1>1, <2>1
  <2> QED BY <2>1, <2>2, <2>3, <2>4, PairMoves
<1> QED BY <1>3, ServerFrame

LEMMA HeadUp ==
    ASSUME MeetInv, NEW p \in Panels, up[p] # <<>>
    PROVE  /\ Head(up[p]) \in UpMsgs
           /\ meeting \in [on : BOOLEAN, people : SUBSET Panels] /\ room \subseteq Panels
           /\ down \in [Panels -> Seq(DownMsgs)]
           /\ \A q, t : Head(up[p]) \in To(t, q) => Head(up[p]).type = t /\ Head(up[p]).who = {q}
           /\ Head(up[p]) \in Joins => Head(up[p]).type = "join"
<1>1. Head(up[p]) \in UpMsgs
  BY HasTail DEF MeetInv, ChannelsOK
<1>2. /\ meeting \in [on : BOOLEAN, people : SUBSET Panels] /\ room \subseteq Panels
      /\ down \in [Panels -> Seq(DownMsgs)]
  BY DEF MeetInv, MeetTypeOK, ChannelsOK
<1> QED BY <1>1, <1>2 DEF To, Joins

\* One message to some panels that neither names nor releases anybody.
LEMMA ToldPlain ==
    ASSUME MeetInv, NEW p \in Panels, NEW who \in SUBSET Panels, NEW people \in SUBSET Panels,
           NEW type \in {"started", "ended", "on", "off", "people", "kicked"},
           down' = Told(down, who, Msg(type, p, people))
    PROVE  /\ Grown(down, down')
           /\ \A a, b \in Panels : \A T : Followed(down[a], Left(b), T) => Followed(down'[a], Left(b), T)
<1> DEFINE m == Msg(type, p, people)
<1>1. m \in DownMsgs /\ \A b : m \notin Left(b)
  BY MsgDown
<1>2. down \in [Panels -> Seq(DownMsgs)]
  BY DEF MeetInv, ChannelsOK
<1> HIDE DEF m
<1>3. down' = Told(down, who, m)
  BY DEF m
<1>4. Grown(down, Told(down, who, m))
  BY <1>1, <1>2, ToldFacts
<1>5. \A a, b \in Panels : \A T : Followed(down[a], Left(b), T) => Followed(down'[a], Left(b), T)
  BY <1>1, <1>2, <1>3, ToldFacts
<1> QED BY <1>3, <1>4, <1>5

LEMMA ServesStart ==
    ASSUME MeetInv, NEW p \in Panels, up[p] # <<>>, up' = [up EXCEPT ![p] = Tail(@)],
           UNCHANGED <<panel, sock, acts>>, OnStart(p)
    PROVE  MeetInv'
<1>1. meeting' \in [on : BOOLEAN, people : SUBSET Panels] /\ meeting'.people = {} /\ room' \subseteq Panels
  BY HeadUp DEF OnStart
<1>2. PeopleOK'
  BY DEF PeopleOK, OnStart
<1>3. Panels \in SUBSET Panels /\ {} \in SUBSET Panels
  OBVIOUS
<1>4. Grown(down, down')
  BY <1>3, ToldPlain DEF OnStart
<1> QED BY <1>1, <1>2, <1>4, ServedStep

LEMMA ServesEnd ==
    ASSUME MeetInv, NEW p \in Panels, up[p] # <<>>, up' = [up EXCEPT ![p] = Tail(@)],
           UNCHANGED <<panel, sock, acts>>, OnEnd(p)
    PROVE  MeetInv'
<1>1. meeting' \in [on : BOOLEAN, people : SUBSET Panels] /\ meeting'.people = {} /\ room' \subseteq Panels
  BY HeadUp DEF OnEnd
<1>2. PeopleOK'
  BY DEF PeopleOK, OnEnd
<1>3. room \in SUBSET Panels /\ {} \in SUBSET Panels
  BY HeadUp
<1>4. Grown(down, down')
  BY <1>3, ToldPlain DEF OnEnd
<1> QED BY <1>1, <1>2, <1>4, ServedStep

LEMMA ServesStatus ==
    ASSUME MeetInv, NEW p \in Panels, up[p] # <<>>, up' = [up EXCEPT ![p] = Tail(@)],
           UNCHANGED <<panel, sock, acts>>, OnStatus(p), Head(up[p]).type = "status"
    PROVE  MeetInv'
<1>1. UNCHANGED <<meeting, room>> /\ PeopleOK'
  BY DEF OnStatus, MeetInv, PeopleOK
<1>2. {p} \in SUBSET Panels /\ meeting.people \in SUBSET Panels
  BY HeadUp
<1>3. (IF meeting.on THEN "on" ELSE "off") \in {"started", "ended", "on", "off", "people", "kicked"}
  OBVIOUS
<1>4. down' = Told(down, {p}, Msg(IF meeting.on THEN "on" ELSE "off", p, meeting.people))
  BY DEF OnStatus
<1>5. /\ Grown(down, down')
      /\ \A a, b \in Panels : \A T : Followed(down[a], Left(b), T) => Followed(down'[a], Left(b), T)
  BY <1>2, <1>3, <1>4, ToldPlain
<1>6. /\ Head(up[p]) \notin Joins
      /\ \A q : Head(up[p]) \notin To("offer", q) /\ Head(up[p]) \notin To("answer", q)
  BY HeadUp
<1>7. \A a, b \in meeting'.people : \A T :
              a # b /\ Followed(down[a], Left(b), T) => Followed(down'[a], Left(b), T)
  BY <1>1, <1>2, <1>5
<1>8. meeting' \in [on : BOOLEAN, people : SUBSET Panels] /\ room' \subseteq Panels
  BY <1>1, HeadUp
<1> QED BY <1>1, <1>5, <1>6, <1>7, <1>8, ServedStep

LEMMA ServesKick ==
    ASSUME MeetInv, NEW p \in Panels, up[p] # <<>>, up' = [up EXCEPT ![p] = Tail(@)],
           UNCHANGED <<panel, sock, acts>>, OnKick(p, Head(up[p])), Head(up[p]).type = "kick"
    PROVE  MeetInv'
<1>1. UNCHANGED <<meeting, room>> /\ PeopleOK'
  BY DEF OnKick, MeetInv, PeopleOK
<1>2. Head(up[p]).who \in SUBSET Panels /\ {} \in SUBSET Panels
  BY HeadUp DEF UpMsgs
<1>5. /\ Grown(down, down')
      /\ \A a, b \in Panels : \A T : Followed(down[a], Left(b), T) => Followed(down'[a], Left(b), T)
  <2>1. CASE meeting.on
    <3>1. down' = Told(down, Head(up[p]).who, Msg("kicked", p, {}))
      BY <2>1 DEF OnKick
    <3> QED BY <1>2, <3>1, ToldPlain
  <2>2. CASE ~meeting.on
    BY <2>2, HeadUp DEF OnKick, Grown
  <2> QED BY <2>1, <2>2
<1>6. /\ Head(up[p]) \notin Joins
      /\ \A q : Head(up[p]) \notin To("offer", q) /\ Head(up[p]) \notin To("answer", q)
  BY HeadUp
<1>8. meeting' \in [on : BOOLEAN, people : SUBSET Panels] /\ room' \subseteq Panels
  BY <1>1, HeadUp
<1>7. \A a, b \in meeting'.people : \A T :
              a # b /\ Followed(down[a], Left(b), T) => Followed(down'[a], Left(b), T)
  BY <1>5, <1>8
<1> QED BY <1>1, <1>5, <1>6, <1>7, <1>8, ServedStep

LEMMA ServesLeave ==
    ASSUME MeetInv, NEW p \in Panels, up[p] # <<>>, up' = [up EXCEPT ![p] = Tail(@)],
           UNCHANGED <<panel, sock, acts>>, OnLeave(p), Head(up[p]).type = "leave"
    PROVE  MeetInv'
<1> DEFINE d == IF meeting.on THEN Told(down, room, Msg("people", p, meeting'.people)) ELSE down
           m == Msg("left", p, {p})
<1>1. /\ meeting' \in [on : BOOLEAN, people : SUBSET Panels] /\ room' \in SUBSET Panels
      /\ meeting'.people = meeting.people \ {p} /\ meeting'.on = meeting.on /\ room' = room \ {p}
  BY HeadUp DEF OnLeave, Remaining
<1>2. PeopleOK'
  BY <1>1 DEF PeopleOK, MeetInv
<1>3. /\ d \in [Panels -> Seq(DownMsgs)] /\ Grown(down, d)
      /\ \A a, b \in Panels : \A T : Followed(down[a], Left(b), T) => Followed(d[a], Left(b), T)
  <2>1. CASE meeting.on
    <3> DEFINE n == Msg("people", p, meeting'.people)
    <3>1. n \in DownMsgs /\ \A b : n \notin Left(b)
      BY <1>1, MsgDown
    <3> HIDE DEF n
    <3>2. room \in SUBSET Panels /\ down \in [Panels -> Seq(DownMsgs)]
      BY HeadUp
    <3>3. d = Told(down, room, n)
      BY <2>1 DEF n
    <3> HIDE DEF d
    <3> QED BY <3>1, <3>2, <3>3, ToldFacts DEF Grown
  <2>2. CASE ~meeting.on
    BY <2>2, HeadUp DEF Grown
  <2> QED BY <2>1, <2>2
<1>4. m \in DownMsgs /\ \A b : m \in Left(b) <=> b = p
  BY MsgDown
<1>5. down' = Told(d, room', m)
  BY DEF OnLeave
<1> HIDE DEF d, m
<1>6. Grown(down, down')
  <2>1. Grown(d, down')
    BY <1>1, <1>3, <1>4, <1>5, ToldFacts
  <2> QED BY <1>3, <2>1, GrownTwice
<1>7. ASSUME NEW a \in meeting'.people, NEW b \in meeting'.people, NEW T, Followed(down[a], Left(b), T)
      PROVE  Followed(down'[a], Left(b), T)
  <2>1. a \in Panels /\ b \in Panels /\ m \notin Left(b)
    BY <1>1, <1>4
  <2>2. Followed(d[a], Left(b), T)
    BY <1>3, <1>7, <2>1
  <2> QED BY <1>1, <1>3, <1>4, <1>5, <2>1, <2>2, ToldFacts
<1>8. /\ Head(up[p]) \notin Joins
      /\ \A q : Head(up[p]) \notin To("offer", q) /\ Head(up[p]) \notin To("answer", q)
  BY HeadUp
<1> QED BY <1>1, <1>2, <1>6, <1>7, <1>8, ServedStep

LEMMA ServesSignal ==
    ASSUME MeetInv, NEW p \in Panels, up[p] # <<>>, up' = [up EXCEPT ![p] = Tail(@)],
           UNCHANGED <<panel, sock, acts>>, OnSignal(p, Head(up[p])), Head(up[p]).type \in {"offer", "answer"}
    PROVE  MeetInv'
<1> DEFINE m == Head(up[p])
           n == Msg(m.type, p, {p})
<1>1. UNCHANGED <<meeting, room>> /\ PeopleOK'
  BY DEF OnSignal, MeetInv, PeopleOK
<1>2. m.who \in SUBSET Panels /\ down \in [Panels -> Seq(DownMsgs)]
  BY HeadUp DEF UpMsgs
<1>3. /\ n \in DownMsgs /\ (\A b : n \notin Left(b)) /\ n \in From(m.type, p)
  <2>1. {p} \in SUBSET Panels /\ m.type \in {"started", "ended", "on", "off", "people", "peers", "joined", "left",
                                            "kicked", "offer", "answer"} /\ m.type # "left"
    OBVIOUS
  <2> QED BY <2>1, MsgDown
<1>4. down' = IF {p} \union m.who \subseteq meeting.people THEN Told(down, m.who, n) ELSE down
  BY DEF OnSignal
<1>5. m \notin Joins /\ \A q, t : m \in To(t, q) => m.type = t /\ m.who = {q}
  BY HeadUp
<1> HIDE DEF n, m
<1>6. /\ Grown(down, down')
      /\ \A a, b \in Panels : \A T : Followed(down[a], Left(b), T) => Followed(down'[a], Left(b), T)
  BY <1>2, <1>3, <1>4, ToldFacts DEF Grown
<1>7. ASSUME NEW q \in meeting'.people, p \in meeting'.people
      PROVE  /\ m \in To("offer", q) => /\ Has(down'[q], From("offer", p))
                                        /\ Followed(down'[q], Left(p), From("offer", p))
             /\ m \in To("answer", q) => Has(down'[q], From("answer", p))
  <2> SUFFICES ASSUME NEW t, m \in To(t, q)
               PROVE  Has(down'[q], From(t, p)) /\ Followed(down'[q], Left(p), From(t, p))
    OBVIOUS
  <2>1. m.type = t /\ m.who = {q}
    BY <1>5
  <2>2. down' = Told(down, m.who, n)
    BY <1>1, <1>4, <1>7, <2>1
  <2>3. q \in m.who /\ n \in From(t, p) /\ n \notin Left(p)
    BY <1>3, <2>1
  <2> QED BY <1>2, <1>3, <2>2, <2>3, ToldFacts
<1>8. meeting' \in [on : BOOLEAN, people : SUBSET Panels] /\ room' \subseteq Panels
  BY <1>1, HeadUp
<1>9. \A a, b \in meeting'.people : \A T :
              a # b /\ Followed(down[a], Left(b), T) => Followed(down'[a], Left(b), T)
  BY <1>6, <1>8
<1> QED BY <1>1, <1>5, <1>6, <1>7, <1>8, <1>9, ServedStep DEF m

\* A join puts the call of each pair it completes before the one who makes it.
LEMMA ServesJoin ==
    ASSUME MeetInv, NEW p \in Panels, up[p] # <<>>, up' = [up EXCEPT ![p] = Tail(@)],
           UNCHANGED <<panel, sock, acts>>, OnJoin(p)
    PROVE  MeetInv'
<1>1. CASE ~meeting.on
  <2>1. UNCHANGED <<meeting, room, down>> /\ meeting.people = {}
    BY <1>1 DEF OnJoin, MeetInv, PeopleOK
  <2>2. PeopleOK' /\ Grown(down, down')
    BY <2>1, HeadUp DEF MeetInv, PeopleOK, Grown
  <2>3. meeting' \in [on : BOOLEAN, people : SUBSET Panels] /\ room' \subseteq Panels
    BY <2>1, HeadUp
  <2> QED BY <2>1, <2>2, <2>3, ServedStep
<1>2. CASE meeting.on
  <2> DEFINE m1 == Msg("peers", p, room \ {p})
             m2 == Msg("people", p, meeting'.people)
             m3 == Msg("joined", p, {p})
             d1 == Told(down, {p}, m1)
             d2 == Told(d1, room', m2)
  <2>0. /\ meeting \in [on : BOOLEAN, people : SUBSET Panels] /\ room \in SUBSET Panels
        /\ \A b \in meeting.people : sock[b] = "up" => b \in room
    BY HeadUp DEF MeetInv, PeopleOK
  <2>1. /\ meeting' \in [on : BOOLEAN, people : SUBSET Panels] /\ room' \in SUBSET Panels
        /\ meeting'.people = meeting.people \union {p} /\ meeting'.on = meeting.on
        /\ room' = room \union {p} /\ room \in SUBSET Panels
        /\ meeting.people \in SUBSET Panels
    <3>1. meeting' = [meeting EXCEPT !.people = @ \union {p}] /\ room' = room \union {p}
      BY <1>2 DEF OnJoin
    <3> QED BY <2>0, <3>1
  <2>2. PeopleOK'
    BY <1>2, <2>0, <2>1 DEF PeopleOK
  <2>3. down' = Told(d2, room' \ {p}, m3)
    BY <1>2 DEF OnJoin
  <2>4. /\ m1 \in DownMsgs /\ (\A q : m1 \notin Left(q)) /\ \A q \in room \ {p} : m1 \in Names(q)
        /\ \A q, t : t # "peers" => m1 \notin From(t, q)
    BY <2>1, MsgDown
  <2>5. m2 \in DownMsgs /\ (\A q : m2 \notin Left(q))
    BY <2>1, MsgDown
  <2>6. m3 \in DownMsgs /\ (\A q : m3 \notin Left(q)) /\ m3 \in Names(p)
    BY MsgDown
  <2>7. down \in [Panels -> Seq(DownMsgs)]
    BY HeadUp
  <2> HIDE DEF m1, m2, m3
  <2>8. /\ Grown(down, d1) /\ d1 \in [Panels -> Seq(DownMsgs)]
        /\ \A q \in Panels : \A b, T : Followed(down[q], Left(b), T) => Followed(d1[q], Left(b), T)
        /\ \A b \in room \ {p} : Has(d1[p], Names(b)) /\ Followed(d1[p], Left(b), Names(b))
    BY <2>1, <2>4, <2>7, ToldFacts DEF Grown
  <2> HIDE DEF d1
  <2>9. /\ Grown(d1, d2) /\ d2 \in [Panels -> Seq(DownMsgs)]
        /\ \A q \in Panels : \A b, T : Followed(d1[q], Left(b), T) => Followed(d2[q], Left(b), T)
    BY <2>1, <2>5, <2>8, ToldFacts DEF Grown
  <2> HIDE DEF d2
  <2>10. /\ Grown(d2, down')
         /\ \A q \in Panels : \A b, T : Followed(d2[q], Left(b), T) => Followed(down'[q], Left(b), T)
         /\ \A q \in room \ {p} : Has(down'[q], Names(p)) /\ Followed(down'[q], Left(p), Names(p))
    BY <2>1, <2>3, <2>6, <2>9, ToldFacts
  <2>11. Grown(down, down')
    BY <2>8, <2>9, <2>10, GrownTwice
  <2>12. ASSUME NEW b \in meeting.people \ {p}, sock[b] = "up"
         PROVE  /\ Has(down'[p], Names(b)) /\ Followed(down'[p], Left(b), Names(b))
                /\ Has(down'[b], Names(p)) /\ Followed(down'[b], Left(p), Names(p))
    <3>1. b \in room \ {p}
      BY <2>0, <2>12
    <3>2. Has(d1[p], Names(b)) /\ Followed(d1[p], Left(b), Names(b))
      BY <2>8, <3>1
    <3>3. Has(down'[p], Names(b)) /\ Followed(down'[p], Left(b), Names(b))
      BY <2>9, <2>10, <3>2 DEF Grown
    <3> QED BY <2>10, <3>1, <3>3
  <2>13. /\ up'[p] = Tail(up[p]) /\ \A q \in Panels \ {p} : up'[q] = up[q]
    BY DEF MeetInv, ChannelsOK
  <2>14. MeshInv'
    <3> SUFFICES ASSUME NEW a \in Panels, NEW b \in Panels, a < b, Settled(a)', Settled(b)'
                 PROVE  CallerOK(a, b)' /\ CalleeOK(a, b)'
      BY DEF MeshInv
    <3>1. a # b /\ \A x \in {a, b} \ {p} : Settled(x) /\ x \in meeting.people /\ sock[x] = "up"
      BY <2>1, <2>13, MeetingAssumption, IsConnected DEF Settled
    <3>2. CASE a = p \/ b = p
      <4>1. Has(down'[a], Names(b)) /\ Followed(down'[a], Left(b), Names(b))
        BY <2>12, <3>1, <3>2
      <4> QED BY <4>1 DEF CallerOK, CalleeOK
    <3>3. CASE a # p /\ b # p
      <4>1. CallerOK(a, b) /\ CalleeOK(a, b)
        BY <3>1, <3>3 DEF MeetInv, MeshInv
      <4>2. up'[a] = up[a] /\ up'[b] = up[b]
        BY <2>13, <3>3
      <4>3. \A q \in Panels : \A c, T : Followed(down[q], Left(c), T) => Followed(down'[q], Left(c), T)
        BY <2>8, <2>9, <2>10
      <4> QED BY <2>11, <4>1, <4>2, <4>3, PairMoves
    <3> QED BY <3>2, <3>3
  <2> QED BY <2>1, <2>2, <2>11, <2>14, ServerFrame
<1> QED BY <1>1, <1>2

LEMMA ServerStep ==
    ASSUME MeetInv, NEW p \in Panels, Serve(p)
    PROVE  MeetInv'
<1>1. up[p] # <<>> /\ up' = [up EXCEPT ![p] = Tail(@)] /\ UNCHANGED <<panel, sock, acts>>
  BY DEF Serve
<1>2. CASE OnStart(p)
  BY <1>1, <1>2, ServesStart
<1>3. CASE OnEnd(p)
  BY <1>1, <1>3, ServesEnd
<1>4. CASE Head(up[p]).type = "status" /\ OnStatus(p)
  BY <1>1, <1>4, ServesStatus
<1>5. CASE OnJoin(p)
  BY <1>1, <1>5, ServesJoin
<1>6. CASE Head(up[p]).type = "leave" /\ OnLeave(p)
  BY <1>1, <1>6, ServesLeave
<1>7. CASE Head(up[p]).type \in {"offer", "answer"} /\ OnSignal(p, Head(up[p]))
  BY <1>1, <1>7, ServesSignal
<1>8. CASE Head(up[p]).type = "kick" /\ OnKick(p, Head(up[p]))
  BY <1>1, <1>8, ServesKick
<1> QED BY <1>2, <1>3, <1>4, <1>5, <1>6, <1>7, <1>8 DEF Serve

-----------------------------------------------------------------------------
(* A panel hears a message.                                                *)

\* What a message may do to the link with a peer that this panel calls.
CallerHears(r, s, sent, m, q) ==
    /\ m \in Names(q) => s.links[q] = "offered" /\ Has(sent, To("offer", q))
    /\ \/ m \in Left(q)
       \/ s.links[q] = r.links[q] /\ (m \in From("answer", q) => r.links[q] # "offered")
       \/ s.links[q] = "offered" /\ Has(sent, To("offer", q))
       \/ s.links[q] = "stable"
       \/ r.links[q] \in {"none", "new"}

\* And with one that calls it.
CalleeHears(r, s, sent, m, q) ==
    /\ m \in From("offer", q) => s.links[q] = "stable" /\ Has(sent, To("answer", q))
    /\ r.links[q] = "stable" /\ m \notin Left(q) => s.links[q] = "stable"

LEMMA CallerKeeps ==
    ASSUME NEW a \in Panels, NEW b \in Panels, NEW sent,
           down[a] \in Seq(DownMsgs), down[a] # <<>>, down'[a] = Tail(down[a]), down'[b] = down[b],
           up'[b] = up[b], panel'[b] = panel[b],
           \A S : Has(up'[a], S) <=> Has(up[a], S) \/ Has(sent, S),
           CallerHears(panel[a], panel'[a], sent, Head(down[a]), b),
           CallerOK(a, b), CalleeOK(a, b)
    PROVE  CallerOK(a, b)' /\ CalleeOK(a, b)'
<1> DEFINE m == Head(down[a])
<1>1. \A S : Has(down[a], S) <=> m \in S \/ Has(down'[a], S)
  BY HasTail
<1>2. /\ Followed(down'[a], Left(b), Names(b))
      /\ m \in Left(b) => Has(down'[a], Names(b))
  BY FollowedTail DEF CallerOK
<1> HIDE DEF m
<1>3. m \in Names(b) => panel'[a].links[b] = "offered" /\ Has(up'[a], To("offer", b))
  BY DEF CallerHears, m
<1>4. CallerOK(a, b)'
  <2>1. CASE m \in Names(b)
    BY <2>1, <1>2, <1>3 DEF CallerOK
  <2>2. CASE m \notin Names(b) /\ Has(down[a], Names(b))
    BY <2>2, <1>1, <1>2 DEF CallerOK
  <2>3. CASE ~Has(down[a], Names(b))
    <3>1. m \notin Left(b)
      BY <2>3, <1>1, <1>2
    <3>2. \/ panel'[a].links[b] = panel[a].links[b] /\ (m \in From("answer", b) => panel[a].links[b] # "offered")
          \/ panel'[a].links[b] = "offered" /\ Has(up'[a], To("offer", b))
          \/ panel'[a].links[b] = "stable"
      BY <2>3, <3>1 DEF CallerHears, CallerOK, m
    <3> QED BY <2>3, <3>2, <1>1, <1>2 DEF CallerOK
  <2> QED BY <2>1, <2>2, <2>3
<1>5. CalleeOK(a, b)'
  BY <1>1, <1>3 DEF CalleeOK
<1> QED BY <1>4, <1>5

LEMMA CalleeKeeps ==
    ASSUME NEW a \in Panels, NEW b \in Panels, NEW sent,
           down[b] \in Seq(DownMsgs), down[b] # <<>>, down'[b] = Tail(down[b]), down'[a] = down[a],
           up'[a] = up[a], panel'[a] = panel[a],
           \A S : Has(up'[b], S) <=> Has(up[b], S) \/ Has(sent, S),
           CalleeHears(panel[b], panel'[b], sent, Head(down[b]), a),
           CallerOK(a, b), CalleeOK(a, b)
    PROVE  CallerOK(a, b)' /\ CalleeOK(a, b)'
<1> DEFINE m == Head(down[b])
<1>1. \A S : Has(down[b], S) <=> m \in S \/ Has(down'[b], S)
  BY HasTail
<1>2. Followed(down[b], Left(a), From("offer", a)) =>
         /\ Followed(down'[b], Left(a), From("offer", a))
         /\ m \in Left(a) => Has(down'[b], From("offer", a))
  BY FollowedTail
<1>3. /\ m \in From("offer", a) => panel'[b].links[a] = "stable" /\ Has(up'[b], To("answer", a))
      /\ panel[b].links[a] = "stable" /\ m \notin Left(a) => panel'[b].links[a] = "stable"
  BY DEF CalleeHears, m
<1> HIDE DEF m
<1>4. CallerOK(a, b)'
  BY <1>1, <1>3 DEF CallerOK
<1>5. CalleeOK(a, b)'
  BY <1>1, <1>2, <1>3 DEF CalleeOK
<1> QED BY <1>4, <1>5

\* What a panel that hears m may become, and what it may say.
Heard(p, m, r, sent) ==
    /\ r \in PanelStates /\ sent \in Seq(UpMsgs)
    /\ r.prompts = panel[p].prompts /\ r.lit = panel[p].lit /\ (r.stream => panel[p].stream)
    /\ r.in => /\ panel[p].in /\ r.stream /\ r.open /\ ~Has(sent, Leaves)
               /\ \A q \in Panels : /\ p < q => CallerHears(panel[p], r, sent, m, q)
                                    /\ q < p => CalleeHears(panel[p], r, sent, m, q)

LEMMA PanelHears ==
    ASSUME MeetInv, NEW p \in Panels, down[p] # <<>>, down' = [down EXCEPT ![p] = Tail(@)],
           UNCHANGED <<sock, meeting, room, acts>>, NEW r, NEW sent, Heard(p, Head(down[p]), r, sent),
           panel' = [panel EXCEPT ![p] = r], up' = [up EXCEPT ![p] = @ \o sent],
           sock[p] = "up" \/ UNCHANGED <<panel, up>>
    PROVE  MeetInv'
<1> USE DEF MeetInv
<1>0. /\ r \in PanelStates /\ sent \in Seq(UpMsgs)
      /\ r.prompts = panel[p].prompts /\ r.lit = panel[p].lit /\ (r.stream => panel[p].stream)
      /\ r.in => panel[p].in /\ r.stream /\ r.open /\ ~Has(sent, Leaves)
  BY DEF Heard
<1>1. /\ panel' \in [Panels -> PanelStates] /\ panel'[p] = r
      /\ \A q \in Panels \ {p} : panel'[q] = panel[q]
  BY <1>0 DEF MeetTypeOK, PanelStates
<1>2. /\ up[p] \in Seq(UpMsgs) /\ up'[p] = up[p] \o sent /\ up'[p] \in Seq(UpMsgs)
      /\ \A q \in Panels \ {p} : up'[q] = up[q]
  BY <1>0, HasConcat DEF ChannelsOK
<1>3. /\ down[p] \in Seq(DownMsgs) /\ down'[p] = Tail(down[p]) /\ down'[p] \in Seq(DownMsgs)
      /\ \A q \in Panels \ {p} : down'[q] = down[q]
  BY HasTail DEF ChannelsOK
<1>4. ChannelsOK'
  BY <1>2, <1>3 DEF ChannelsOK
<1>5. MeetTypeOK'
  BY <1>0, <1>1 DEF MeetTypeOK, PanelStates
<1>6. CameraOK' /\ PeopleOK' /\ SockOK'
  BY <1>0, <1>1, <1>2 DEF CameraOK, PeopleOK, SockOK
<1>7. \A S : Has(up'[p], S) <=> Has(up[p], S) \/ Has(sent, S)
  <2> TAKE S
  <2>1. Has(up[p] \o sent, S) <=> Has(up[p], S) \/ Has(sent, S)
    BY <1>0, <1>2, HasConcat
  <2> QED BY <2>1, <1>2
<1>8. InOK'
  <2> SUFFICES ASSUME NEW q \in Panels, panel'[q].in
               PROVE  panel'[q].open /\ Followed(up'[q], Leaves, Joins)
    BY DEF InOK
  <2>1. CASE q # p
    BY <2>1, <1>1, <1>2 DEF InOK
  <2>2. CASE q = p
    <3>1. r.in /\ r.open /\ ~Has(sent, Leaves) /\ Followed(up[p], Leaves, Joins)
      BY <2>2, <1>0, <1>1 DEF InOK
    <3>2. Followed(sent, Leaves, Joins)
      BY <3>1, NoneFollowed
    <3>3. Followed(up[p] \o sent, Leaves, Joins)
      BY <1>0, <1>2, <3>1, <3>2, FollowedConcat
    <3> QED BY <2>2, <3>1, <3>3, <1>1, <1>2
  <2> QED BY <2>1, <2>2
<1>9. MeshInv'
  <2> SUFFICES ASSUME NEW a \in Panels, NEW b \in Panels, a < b, Settled(a)', Settled(b)'
               PROVE  CallerOK(a, b)' /\ CalleeOK(a, b)'
    BY DEF MeshInv
  <2>1. \A x \in {a, b} : Settled(x) /\ (x = p => r.in)
    BY <1>0, <1>1, <1>2, <1>7 DEF Settled
  <2>2. CallerOK(a, b) /\ CalleeOK(a, b) /\ a # b
    BY <2>1, MeetingAssumption DEF MeshInv
  <2>3. CASE a = p
    <3>0. CallerHears(panel[p], r, sent, Head(down[p]), b)
      <4>1. r.in /\ p < b
        BY <2>1, <2>3
      <4> QED BY <4>1 DEF Heard
    <3>1. CallerHears(panel[a], panel'[a], sent, Head(down[a]), b)
      BY <2>3, <3>0, <1>1
    <3>2. panel'[b] = panel[b] /\ up'[b] = up[b] /\ down'[b] = down[b]
      BY <2>2, <2>3, <1>1, <1>2, <1>3
    <3> QED BY <2>2, <2>3, <3>1, <3>2, <1>3, <1>7, CallerKeeps
  <2>4. CASE b = p
    <3>0. CalleeHears(panel[p], r, sent, Head(down[p]), a)
      <4>1. r.in /\ a < p
        BY <2>1, <2>4
      <4> QED BY <4>1 DEF Heard
    <3>1. CalleeHears(panel[b], panel'[b], sent, Head(down[b]), a)
      BY <2>4, <3>0, <1>1
    <3>2. panel'[a] = panel[a] /\ up'[a] = up[a] /\ down'[a] = down[a]
      BY <2>2, <2>4, <1>1, <1>2, <1>3
    <3> QED BY <2>2, <2>4, <3>1, <3>2, <1>3, <1>7, CalleeKeeps
  <2>5. CASE a # p /\ b # p
    <3>1. /\ panel'[a] = panel[a] /\ up'[a] = up[a] /\ down'[a] = down[a]
          /\ panel'[b] = panel[b] /\ up'[b] = up[b] /\ down'[b] = down[b]
      BY <2>5, <1>1, <1>2, <1>3
    <3> QED BY <2>2, <3>1 DEF CallerOK, CalleeOK
  <2> QED BY <2>3, <2>4, <2>5
<1> QED BY <1>4, <1>5, <1>6, <1>8, <1>9

\* Messages that leave the links as they are, and say nothing.
LEMMA HeardPlain ==
    ASSUME MeetInv, NEW p \in Panels, NEW m \in DownMsgs,
           m.type \in {"started", "off"}, NEW active \in BOOLEAN
    PROVE  Heard(p, m, [panel[p] EXCEPT !.active = active], <<>>)
<1> DEFINE r == [panel[p] EXCEPT !.active = active]
<1>1. panel[p] \in PanelStates /\ (panel[p].in => panel[p].stream /\ panel[p].open)
  BY PanelFacts
<1>2. /\ r \in PanelStates /\ r.prompts = panel[p].prompts /\ r.lit = panel[p].lit
      /\ r.stream = panel[p].stream /\ r.in = panel[p].in /\ r.open = panel[p].open
      /\ r.links = panel[p].links
  BY <1>1 DEF PanelStates
<1>3. <<>> \in Seq(UpMsgs)
  OBVIOUS
<1>4. ~Has(<<>>, Leaves)
  BY DEF Has
<1>5. \A q \in Panels : m \notin Names(q) /\ m \notin From("answer", q) /\ m \notin From("offer", q)
  BY DEF Names, From
<1> HIDE DEF r
<1>6. \A q \in Panels : CallerHears(panel[p], r, <<>>, m, q) /\ CalleeHears(panel[p], r, <<>>, m, q)
  BY <1>2, <1>5 DEF CallerHears, CalleeHears
<1> QED BY <1>1, <1>2, <1>3, <1>4, <1>6 DEF Heard, r

\* Messages that hang up.
LEMMA HeardEnd ==
    ASSUME MeetInv, NEW p \in Panels, NEW m, NEW r, r = Hung(panel[p], FALSE) \/ r = [Hung(panel[p], FALSE) EXCEPT !.active = FALSE]
    PROVE  Heard(p, m, r, <<Msg("leave", p, {})>>)
<1> DEFINE h == Hung(panel[p], FALSE)
<1>1. panel[p] \in PanelStates
  BY PanelFacts
<1>2. /\ h \in PanelStates /\ ~h.in /\ ~h.stream /\ h.prompts = panel[p].prompts /\ h.lit = panel[p].lit
  <2>1. FALSE \in BOOLEAN
    OBVIOUS
  <2>2. h \in PanelStates /\ ~h.in /\ ~h.stream /\ h.prompts = panel[p].prompts
    BY <1>1, <2>1, HangsUp, PanelFacts
  <2>3. h.lit = panel[p].lit
    BY <1>1 DEF Hung, PanelStates
  <2> QED BY <2>2, <2>3
<1>3. r = h \/ r = [h EXCEPT !.active = FALSE]
  OBVIOUS
<1> HIDE DEF h
<1>4. r \in PanelStates /\ ~r.in /\ ~r.stream /\ r.prompts = panel[p].prompts /\ r.lit = panel[p].lit
  BY <1>2, <1>3 DEF PanelStates
<1>5. <<Msg("leave", p, {})>> \in Seq(UpMsgs)
  BY SaysOne
<1> QED BY <1>4, <1>5 DEF Heard

\* Messages that name peers: every link to one that this panel calls is called.
LEMMA HeardPeers ==
    ASSUME MeetInv, NEW p \in Panels, NEW m \in DownMsgs, NEW s \in PanelStates,
           NEW who \in SUBSET (Panels \ {p}), NEW camera \in BOOLEAN,
           s.prompts = panel[p].prompts, s.lit = panel[p].lit, s.stream = panel[p].stream,
           s.in = panel[p].in, s.open = panel[p].open, s.links = panel[p].links,
           \A q \in Panels \ {p} : m \in Names(q) => q \in who,
           m.type \notin {"offer", "answer"}
    PROVE  Heard(p, m, Linked(p, s, who, camera), Offers(p, Callees(p, who)))
<1> DEFINE r == Linked(p, s, who, camera)
           sent == Offers(p, Callees(p, who))
<1>1. panel[p] \in PanelStates /\ (panel[p].in => panel[p].stream /\ panel[p].open)
  BY PanelFacts
<1>2. who \in SUBSET Panels /\ Callees(p, who) \in SUBSET Panels
  BY DEF Callees
<1>3. /\ r \in PanelStates /\ r.prompts = panel[p].prompts /\ r.lit = panel[p].lit
      /\ r.stream = panel[p].stream /\ r.in = panel[p].in /\ r.open = panel[p].open
      /\ \A q \in Panels : r.links[q] = IF q \in Callees(p, who) THEN "offered"
                                        ELSE IF q \in who /\ panel[p].links[q] = "none" THEN "new" ELSE panel[p].links[q]
  BY <1>2, LinkedFacts
<1>4. sent \in Seq(UpMsgs) /\ ~Has(sent, Leaves) /\ \A q \in Callees(p, who) : Has(sent, To("offer", q))
  BY <1>2, OffersGo
<1>5. \A q \in Panels : m \notin From("answer", q) /\ m \notin From("offer", q)
  BY DEF From
<1> HIDE DEF r, sent
<1>6. ASSUME NEW q \in Panels, p < q PROVE CallerHears(panel[p], r, sent, m, q)
  <2>1. q # p /\ (q \in who => q \in Callees(p, who))
    BY <1>6, MeetingAssumption DEF Callees
  <2>2. CASE q \in who
    <3>1. r.links[q] = "offered" /\ Has(sent, To("offer", q))
      BY <2>1, <2>2, <1>3, <1>4
    <3> QED BY <3>1 DEF CallerHears
  <2>3. CASE q \notin who
    <3>1. r.links[q] = panel[p].links[q] /\ m \notin Names(q)
      BY <2>1, <2>3, <1>3 DEF Callees
    <3> QED BY <3>1, <1>5 DEF CallerHears
  <2> QED BY <2>2, <2>3
<1>7. ASSUME NEW q \in Panels, q < p PROVE CalleeHears(panel[p], r, sent, m, q)
  <2>1. q \notin Callees(p, who)
    BY <1>7, MeetingAssumption DEF Callees
  <2> QED BY <2>1, <1>3, <1>5 DEF CalleeHears
<1> QED BY <1>1, <1>3, <1>4, <1>6, <1>7 DEF Heard, r, sent

\* Messages about one link: a peer that left, an offer, an answer.
LEMMA HeardLinks ==
    ASSUME MeetInv, NEW p \in Panels, NEW m \in DownMsgs, NEW r, NEW sent \in Seq(UpMsgs),
           NEW links \in [Panels -> Links], NEW sends \in SUBSET Panels,
           r = [panel[p] EXCEPT !.links = links, !.sends = sends],
           ~Has(sent, Leaves), m.type \in {"left", "offer", "answer"},
           \A q \in Panels :
              \/ links[q] = panel[p].links[q] /\ m \notin From("answer", q) /\ m \notin From("offer", q)
              \/ m \in Left(q)
              \/ m \in From("offer", q) /\ links[q] = "stable" /\ Has(sent, To("answer", q))
              \/ /\ m \in From("answer", q)
                 /\ links[q] = CASE panel[p].links[q] = "offered" -> "stable"
                                 [] panel[p].links[q] = "none" -> "new" [] OTHER -> panel[p].links[q]
    PROVE  Heard(p, m, r, sent)
<1>1. panel[p] \in PanelStates /\ (panel[p].in => panel[p].stream /\ panel[p].open)
  BY PanelFacts
<1>2. /\ r \in PanelStates /\ r.prompts = panel[p].prompts /\ r.lit = panel[p].lit
      /\ r.stream = panel[p].stream /\ r.in = panel[p].in /\ r.open = panel[p].open
      /\ r.links = links
  BY <1>1 DEF PanelStates
<1>3. \A q \in Panels : /\ m \notin Names(q)
                        /\ m \in From("answer", q) => m \notin From("offer", q)
                        /\ m \in Left(q) => m \notin From("offer", q) /\ m \notin From("answer", q)
  BY DEF Names, From, Left
<1>4. \A q \in Panels : CallerHears(panel[p], r, sent, m, q)
  BY <1>2, <1>3 DEF CallerHears
<1>5. \A q \in Panels : CalleeHears(panel[p], r, sent, m, q)
  BY <1>2, <1>3 DEF CalleeHears
<1> QED BY <1>1, <1>2, <1>4, <1>5 DEF Heard

LEMMA HeardHandled ==
    ASSUME MeetInv, NEW p \in Panels, down[p] # <<>>
    PROVE  Heard(p, Head(down[p]), Handled(p, Head(down[p])).state, Handled(p, Head(down[p])).sent)
<1> DEFINE m == Head(down[p])
<1>1. m \in DownMsgs
  BY HasTail, PanelFacts
<1>2. panel[p] \in PanelStates
  BY PanelFacts
<1> HIDE DEF m
<1>3. m.who \in SUBSET Panels /\ m.from \in Panels /\ m.who \ {p} \in SUBSET (Panels \ {p})
  BY <1>1 DEF DownMsgs
<1>4. CASE m.type = "started"
  <2> DEFINE r == [panel[p] EXCEPT !.active = TRUE]
  <2>1. Handled(p, m).state = r /\ Handled(p, m).sent = <<>>
    BY <1>4 DEF Handled
  <2>2. Heard(p, m, r, <<>>)
    <3>1. TRUE \in BOOLEAN
      OBVIOUS
    <3> QED BY <3>1, <1>1, <1>4, HeardPlain
  <2> HIDE DEF r
  <2> QED BY <2>1, <2>2 DEF m
<1>5. CASE m.type = "off"
  <2> DEFINE r == [panel[p] EXCEPT !.active = FALSE]
  <2>1. Handled(p, m).state = r /\ Handled(p, m).sent = <<>>
    BY <1>5 DEF Handled
  <2>2. Heard(p, m, r, <<>>)
    <3>1. FALSE \in BOOLEAN
      OBVIOUS
    <3> QED BY <3>1, <1>1, <1>5, HeardPlain
  <2> HIDE DEF r
  <2> QED BY <2>1, <2>2 DEF m
<1>6. CASE m.type \in {"ended", "kicked"}
  <2>2. /\ Handled(p, m).sent = <<Msg("leave", p, {})>>
        /\ \/ Handled(p, m).state = Hung(panel[p], FALSE)
           \/ Handled(p, m).state = [Hung(panel[p], FALSE) EXCEPT !.active = FALSE]
    <3>1. CASE m.type = "ended"
      BY <3>1 DEF Handled
    <3>2. CASE m.type = "kicked"
      BY <3>2 DEF Handled
    <3> QED BY <1>6, <3>1, <3>2
  <2>3. Heard(p, m, Handled(p, m).state, <<Msg("leave", p, {})>>)
    BY <2>2, HeardEnd
  <2> QED BY <2>2, <2>3 DEF m
<1>7. CASE m.type \in {"peers", "joined"}
  <2> DEFINE who == m.who \ {p}
  <2>1. /\ Handled(p, m).state = Linked(p, panel[p], who, FALSE)
        /\ Handled(p, m).sent = Offers(p, Callees(p, who))
    BY <1>7 DEF Handled
  <2>2. \A q \in Panels \ {p} : m \in Names(q) => q \in who
    BY DEF Names
  <2>3. FALSE \in BOOLEAN /\ who \in SUBSET (Panels \ {p})
    BY <1>3
  <2> HIDE DEF who
  <2>4. Heard(p, m, Linked(p, panel[p], who, FALSE), Offers(p, Callees(p, who)))
    BY <1>1, <1>2, <1>7, <2>2, <2>3, HeardPeers
  <2> QED BY <2>1, <2>4 DEF m
<1>8. CASE m.type \in {"on", "people"}
  <2> DEFINE s == IF m.type = "on" THEN [panel[p] EXCEPT !.active = TRUE, !.seen = m.who]
                                   ELSE [panel[p] EXCEPT !.seen = m.who]
             who == IF s.in THEN s.seen \ {p} ELSE {}
  <2>1. /\ Handled(p, m).state = IF s.in THEN Linked(p, s, s.seen \ {p}, TRUE) ELSE s
        /\ Handled(p, m).sent = IF s.in THEN Offers(p, Callees(p, s.seen \ {p})) ELSE <<>>
    <3>1. CASE m.type = "on"
      <4> DEFINE s1 == [panel[p] EXCEPT !.active = TRUE, !.seen = m.who]
      <4>1. /\ Handled(p, m).state = IF s1.in THEN Linked(p, s1, s1.seen \ {p}, TRUE) ELSE s1
            /\ Handled(p, m).sent = IF s1.in THEN Offers(p, Callees(p, s1.seen \ {p})) ELSE <<>>
        BY <3>1 DEF Handled
      <4>2. s = s1
        BY <3>1
      <4> HIDE DEF s, s1
      <4> QED BY <4>1, <4>2
    <3>2. CASE m.type = "people"
      <4> DEFINE s1 == [panel[p] EXCEPT !.seen = m.who]
      <4>1. /\ Handled(p, m).state = IF s1.in THEN Linked(p, s1, s1.seen \ {p}, TRUE) ELSE s1
            /\ Handled(p, m).sent = IF s1.in THEN Offers(p, Callees(p, s1.seen \ {p})) ELSE <<>>
        BY <3>2 DEF Handled
      <4>2. s = s1
        BY <3>2
      <4> HIDE DEF s, s1
      <4> QED BY <4>1, <4>2
    <3> QED BY <1>8, <3>1, <3>2
  <2>2. /\ s \in PanelStates /\ s.prompts = panel[p].prompts /\ s.lit = panel[p].lit
        /\ s.stream = panel[p].stream /\ s.in = panel[p].in /\ s.open = panel[p].open
        /\ s.links = panel[p].links /\ s.seen = m.who
    BY <1>2, <1>3 DEF PanelStates
  <2>3. \A q \in Panels \ {p} : m \in Names(q) => q \in who
    BY <1>8 DEF Names
  <2> HIDE DEF s
  <2>4. CASE s.in
    <3>1. TRUE \in BOOLEAN /\ s.seen \ {p} \in SUBSET (Panels \ {p})
      BY <1>3, <2>2
    <3>2. Heard(p, m, Linked(p, s, s.seen \ {p}, TRUE), Offers(p, Callees(p, s.seen \ {p})))
      BY <1>1, <1>8, <2>2, <2>3, <2>4, <3>1, HeardPeers
    <3> QED BY <2>1, <2>4, <3>2 DEF m
  <2>5. CASE ~s.in
    <3>1. <<>> \in Seq(UpMsgs)
      OBVIOUS
    <3>2. Heard(p, m, s, <<>>)
      BY <2>2, <2>5, <3>1 DEF Heard
    <3> QED BY <2>1, <2>5, <3>2 DEF m
  <2> QED BY <2>4, <2>5
<1>9. CASE m.type = "left"
  <2> DEFINE links == [q \in Panels |-> IF q \in m.who THEN "none" ELSE panel[p].links[q]]
             sends == panel[p].sends \ m.who
             r == [panel[p] EXCEPT !.links = links, !.sends = sends]
  <2>1. Handled(p, m).state = r /\ Handled(p, m).sent = <<>>
    BY <1>9 DEF Handled
  <2>2. links \in [Panels -> Links] /\ sends \in SUBSET Panels
    BY <1>2 DEF PanelStates, Links
  <2>3. \A q \in Panels : \/ links[q] = panel[p].links[q] /\ m \notin From("answer", q) /\ m \notin From("offer", q)
                          \/ m \in Left(q)
    BY <1>1, <1>9 DEF From, Left
  <2>4. <<>> \in Seq(UpMsgs)
    OBVIOUS
  <2>5. ~Has(<<>>, Leaves)
    BY DEF Has
  <2>6. r = [panel[p] EXCEPT !.links = links, !.sends = sends]
    OBVIOUS
  <2> HIDE DEF links, sends, r
  <2>7. Heard(p, m, r, <<>>)
    BY <1>1, <1>9, <2>2, <2>3, <2>4, <2>5, <2>6, HeardLinks
  <2> QED BY <2>1, <2>7 DEF m
<1>10. CASE m.type \in {"offer", "answer"}
  <2> DEFINE x == m.from
             y == IF m.type = "offer" THEN "stable"
                  ELSE CASE panel[p].links[x] = "offered" -> "stable"
                         [] panel[p].links[x] = "none" -> "new" [] OTHER -> panel[p].links[x]
             links == [panel[p].links EXCEPT ![x] = y]
             sends == panel[p].sends
             r == [panel[p] EXCEPT !.links = links, !.sends = sends]
             sent == IF m.type = "offer" THEN <<Msg("answer", p, {m.from})>> ELSE <<>>
  <2>1. Handled(p, m).state = r /\ Handled(p, m).sent = sent
    <3>1. CASE m.type = "offer"
      <4>1. Handled(p, m).state = [panel[p] EXCEPT !.links[m.from] = "stable"] /\ Handled(p, m).sent = sent
        BY <3>1 DEF Handled
      <4>2. [panel[p] EXCEPT !.links[m.from] = "stable"] = r
        BY <1>2, <3>1 DEF PanelStates
      <4> QED BY <4>1, <4>2
    <3>2. CASE m.type = "answer"
      <4>1. /\ Handled(p, m).state = [panel[p] EXCEPT !.links[m.from] =
                   CASE @ = "offered" -> "stable" [] @ = "none" -> "new" [] OTHER -> @]
            /\ Handled(p, m).sent = sent
        BY <3>2 DEF Handled
      <4>2. [panel[p] EXCEPT !.links[m.from] =
                   CASE @ = "offered" -> "stable" [] @ = "none" -> "new" [] OTHER -> @] = r
        BY <1>2, <3>2 DEF PanelStates
      <4> QED BY <4>1, <4>2
    <3> QED BY <1>10, <3>1, <3>2
  <2>2. panel[p].links \in [Panels -> Links] /\ sends \in SUBSET Panels /\ x \in Panels
    BY <1>2, <1>3 DEF PanelStates
  <2>3. links \in [Panels -> Links]
    BY <2>2 DEF Links
  <2>4. sent \in Seq(UpMsgs) /\ ~Has(sent, Leaves) /\ (m.type = "offer" => Has(sent, To("answer", x)))
    <3>1. CASE m.type = "offer"
      <4>1. {x} \in SUBSET Panels
        BY <1>3
      <4>2. "answer" \in {"start", "end", "status", "join", "leave", "offer", "answer", "kick"}
        OBVIOUS
      <4>3. sent = <<Msg("answer", p, {x})>>
        BY <3>1
      <4> HIDE DEF sent, x
      <4> QED BY <4>1, <4>2, <4>3, SaysOne
    <3>2. CASE m.type = "answer"
      <4>1. sent = <<>> /\ <<>> \in Seq(UpMsgs)
        BY <3>2
      <4>2. ~Has(<<>>, Leaves)
        BY DEF Has
      <4> HIDE DEF sent
      <4> QED BY <3>2, <4>1, <4>2
    <3> QED BY <1>10, <3>1, <3>2
  <2>5. \A q \in Panels :
           \/ links[q] = panel[p].links[q] /\ m \notin From("answer", q) /\ m \notin From("offer", q)
           \/ m \in From("offer", q) /\ links[q] = "stable" /\ Has(sent, To("answer", q))
           \/ /\ m \in From("answer", q)
              /\ links[q] = CASE panel[p].links[q] = "offered" -> "stable"
                              [] panel[p].links[q] = "none" -> "new" [] OTHER -> panel[p].links[q]
    <3> TAKE q \in Panels
    <3>1. CASE q = x /\ m.type = "offer"
      <4>1. m \in From("offer", q)
        BY <1>1, <3>1 DEF From
      <4>2. links[q] = "stable"
        BY <2>2, <3>1
      <4>3. Has(sent, To("answer", q))
        BY <2>4, <3>1
      <4> QED BY <4>1, <4>2, <4>3
    <3>2. CASE q = x /\ m.type = "answer"
      <4>1. m \in From("answer", q)
        BY <1>1, <3>2 DEF From
      <4>2. links[q] = y
        BY <2>2, <3>2
      <4> QED BY <3>2, <4>1, <4>2
    <3>3. CASE q # x
      BY <2>2, <3>3 DEF From
    <3> QED BY <1>10, <3>1, <3>2, <3>3
  <2>6. r = [panel[p] EXCEPT !.links = links, !.sends = sends]
    OBVIOUS
  <2> HIDE DEF links, sends, r, sent, y, x
  <2>7. Heard(p, m, r, sent)
    BY <1>1, <1>10, <2>2, <2>3, <2>4, <2>5, <2>6, HeardLinks
  <2> QED BY <2>1, <2>7 DEF m
<1> QED BY <1>1, <1>4, <1>5, <1>6, <1>7, <1>8, <1>9, <1>10 DEF DownMsgs

LEMMA PanelReceives ==
    ASSUME MeetInv, NEW p \in Panels, Receive(p)
    PROVE  MeetInv'
<1>1. down[p] # <<>> /\ down' = [down EXCEPT ![p] = Tail(@)] /\ UNCHANGED <<sock, meeting, room, acts>>
  BY DEF Receive
<1>2. CASE panel[p].open
  <2>1. /\ panel' = [panel EXCEPT ![p] = Handled(p, Head(down[p])).state]
        /\ up' = [up EXCEPT ![p] = @ \o Handled(p, Head(down[p])).sent]
    BY <1>2 DEF Receive, Emit
  <2>2. sock[p] = "up"
    BY <1>2, IsConnected
  <2> QED BY <1>1, <2>1, <2>2, HeardHandled, PanelHears
<1>3. CASE ~panel[p].open
  <2>1. UNCHANGED <<panel, up>>
    BY <1>3 DEF Receive
  <2>2. <<>> \in Seq(UpMsgs) /\ up' = [up EXCEPT ![p] = @ \o <<>>]
    BY <2>1, Silence
  <2>3. panel[p] \in PanelStates /\ ~panel[p].in
    BY <1>3, PanelFacts
  <2>4. Heard(p, Head(down[p]), panel[p], <<>>)
    BY <2>2, <2>3 DEF Heard
  <2>5. panel' = [panel EXCEPT ![p] = panel[p]]
    BY <2>1 DEF MeetInv, MeetTypeOK
  <2> QED BY <1>1, <2>1, <2>2, <2>4, <2>5, PanelHears
<1> QED BY <1>2, <1>3

-----------------------------------------------------------------------------
(* A connection is lost: the pairs it was of are no longer settled, and the *)
(* id that may come for it is of none yet.                                  *)
LEMMA ConnectionLost ==
    ASSUME MeetInv, NEW p \in Panels, Dropped(p),
           panel' \in [Panels -> PanelStates], sock' \in [Panels -> {"unused", "up", "gone"}],
           panel'[p] = Shut, sock'[p] = "gone",
           \A x \in Panels \ {p} : \/ panel'[x] = panel[x] /\ sock'[x] = sock[x]
                                   \/ sock[x] = "unused" /\ sock'[x] = "up" /\ panel'[x] = panel[p]
    PROVE  MeetInv'
<1>1. /\ up'[p] = <<>> /\ \A x \in Panels \ {p} : up'[x] = up[x] /\ down'[x] = down[x]
      /\ up' \in [Panels -> Seq(UpMsgs)] /\ down' \in [Panels -> Seq(DownMsgs)]
      /\ room' = room \ {p} /\ UNCHANGED <<meeting, acts>>
  BY DEF Dropped, MeetInv, ChannelsOK
<1>2. ChannelsOK'
  BY <1>1 DEF ChannelsOK
<1>3. MeetTypeOK' /\ CameraOK'
  <2>1. \A x \in Panels : panel'[x] = Shut \/ panel'[x] = panel[x] \/ panel'[x] = panel[p]
    OBVIOUS
  <2>2. acts \in 0..MaxActs /\ MaxActs \in Nat /\ meeting \in [on : BOOLEAN, people : SUBSET Panels]
        /\ room \subseteq Panels
    BY PanelFacts DEF MeetInv, MeetTypeOK
  <2>3. \A r \in {Shut} \cup {panel[x] : x \in Panels} :
          r.prompts + r.lit <= acts /\ (r.stream => r.lit > 0) /\ (r.in => r.stream)
    BY <2>2, ShutFacts, PanelFacts
  <2>4. \A x \in Panels : panel'[x].in => panel'[x].stream
    BY <2>1, <2>3
  <2>5. CameraOK'
    BY <1>1, <2>1, <2>3 DEF CameraOK
  <2> QED BY <1>1, <2>2, <2>4, <2>5 DEF MeetTypeOK, PanelStates
<1>4. InOK'
  <2> SUFFICES ASSUME NEW x \in Panels, panel'[x].in
               PROVE  panel'[x].open /\ Followed(up'[x], Leaves, Joins)
    BY DEF InOK
  <2>1. x # p
    BY ShutFacts
  <2>2. CASE sock[x] = "unused" /\ panel'[x] = panel[p]
    <3>1. up'[x] = <<>>
      BY <1>1, <2>1, <2>2 DEF MeetInv, SockOK
    <3>2. panel[p].open
      BY <2>2 DEF MeetInv, InOK
    <3>3. Followed(<<>>, Leaves, Joins)
      BY DEF Followed
    <3> QED BY <2>2, <3>1, <3>2, <3>3
  <2>3. CASE panel'[x] = panel[x]
    BY <1>1, <2>1, <2>3 DEF MeetInv, InOK
  <2> QED BY <2>1, <2>2, <2>3
<1>5. PeopleOK' /\ SockOK'
  BY <1>1 DEF MeetInv, MeetTypeOK, PeopleOK, SockOK
<1>6. MeshInv'
  <2> SUFFICES ASSUME NEW a \in Panels, NEW b \in Panels, a < b, Settled(a)', Settled(b)'
               PROVE  CallerOK(a, b)' /\ CalleeOK(a, b)'
    BY DEF MeshInv
  <2>1. \A x \in {a, b} : x # p /\ panel'[x] = panel[x] /\ up'[x] = up[x] /\ down'[x] = down[x]
    BY <1>1, ShutFacts DEF Settled, MeetInv, SockOK
  <2>2. Settled(a) /\ Settled(b)
    BY <1>1, <2>1 DEF Settled
  <2>3. CallerOK(a, b) /\ CalleeOK(a, b)
    BY <2>2 DEF MeetInv, MeshInv
  <2> QED BY <2>1, <2>3 DEF CallerOK, CalleeOK
<1> QED BY <1>2, <1>3, <1>4, <1>5, <1>6 DEF MeetInv

LEMMA TabCloses ==
    ASSUME MeetInv, NEW p \in Panels, CloseTab(p)
    PROVE  MeetInv'
<1>1. /\ Dropped(p) /\ panel'[p] = Shut /\ sock'[p] = "gone"
      /\ panel' \in [Panels -> PanelStates] /\ sock' \in [Panels -> {"unused", "up", "gone"}]
      /\ \A x \in Panels \ {p} : panel'[x] = panel[x] /\ sock'[x] = sock[x]
  BY ShutFacts DEF CloseTab, MeetInv, MeetTypeOK, PanelStates
<1> QED BY <1>1, ConnectionLost

LEMMA TabReconnects ==
    ASSUME MeetInv, NEW p \in Panels, NEW q \in Panels, Reconnect(p, q)
    PROVE  MeetInv'
<1>1. Dropped(p) /\ p # q /\ sock[q] = "unused"
  BY DEF Reconnect, Dropped
<1>2. /\ panel'[p] = Shut /\ sock'[p] = "gone" /\ panel'[q] = panel[p] /\ sock'[q] = "up"
      /\ panel' \in [Panels -> PanelStates] /\ sock' \in [Panels -> {"unused", "up", "gone"}]
      /\ \A x \in Panels \ {p, q} : panel'[x] = panel[x] /\ sock'[x] = sock[x]
  BY <1>1, ShutFacts DEF Reconnect, MeetInv, MeetTypeOK, PanelStates
<1> QED BY <1>1, <1>2, ConnectionLost

-----------------------------------------------------------------------------
(* The theorems.                                                           *)

LEMMA MeetInvStep == MeetInv /\ [MeetNext]_meetVars => MeetInv'
<1> SUFFICES ASSUME MeetInv, [MeetNext]_meetVars PROVE MeetInv'
  OBVIOUS
<1>1. CASE UNCHANGED meetVars
  BY <1>1 DEF meetVars, MeetInv, MeetTypeOK, ChannelsOK, CameraOK, InOK, PeopleOK, SockOK, MeshInv, Settled,
              CallerOK, CalleeOK
<1>2. ASSUME NEW p \in Panels,
             \/ StartMeeting(p) \/ AskToJoin(p) \/ PromptDenied(p) \/ PromptGranted(p)
             \/ LeaveMeeting(p) \/ EndMeeting(p) \/ ClosePanel(p) \/ OpenPanel(p)
             \/ CloseTab(p) \/ \E q \in Panels : Kick(p, q) \/ Reconnect(p, q)
             \/ Serve(p) \/ Receive(p)
      PROVE  MeetInv'
  BY <1>2, MeetingStarts, CameraAsked, CameraGranted, PanelLeaves, PanelOpens, PanelKicks,
     TabCloses, TabReconnects, ServerStep, PanelReceives
<1> QED BY <1>1, <1>2 DEF MeetNext

\* With no message left, a call cannot be on its way.
LEMMA MeetInvMeshes == MeetInv => MeshComplete
<1> SUFFICES ASSUME MeetInv, Quiet, NEW p \in Present, NEW q \in Present, p # q
             PROVE  panel[p].links[q] = "stable"
  BY DEF MeshComplete, MeetInv, PeopleOK
<1>1. p \in Panels /\ q \in Panels /\ p \in Nat /\ q \in Nat
  BY MeetingAssumption DEF Present, MeetInv, MeetTypeOK
<1>2. \A x \in Panels : \A S : ~Has(up[x], S) /\ ~Has(down[x], S)
  BY HasOne DEF Quiet
<1>3. Settled(p) /\ Settled(q)
  BY <1>1, <1>2 DEF Settled, Present
<1>4. CASE p < q
  BY <1>1, <1>2, <1>3, <1>4 DEF MeetInv, MeshInv, CallerOK
<1>5. CASE q < p
  BY <1>1, <1>2, <1>3, <1>5 DEF MeetInv, MeshInv, CalleeOK
<1> QED BY <1>1, <1>4, <1>5

\* The states of the panels, of the server and of the room are what they are taken
\* for (EmergencyChatPanel.jsx, socket.js), and who shows a meeting has a camera.
THEOREM MeetingTyped == MeetSpec => []MeetTypeOK
<1>1. MeetInv => MeetTypeOK
  BY DEF MeetInv
<1> QED BY <1>1, MeetInvInit, MeetInvStep, PTL DEF MeetSpec

\* Whatever joins, leaves, kicks, restarts, late camera prompts and lost connections cross on
\* the way, once every message is delivered any two who are in the meeting are connected, and
\* nobody whose connection is up is listed while out of the server's room
\* (EmergencyChatPanel.jsx, socket.js).
THEOREM MeetingMeshes == MeetSpec => []MeshComplete
  BY MeetInvInit, MeetInvStep, MeetInvMeshes, PTL DEF MeetSpec

=============================================================================
