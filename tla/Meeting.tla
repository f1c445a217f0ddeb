------------------------------ MODULE Meeting -------------------------------
(***************************************************************************)
(* The video meeting: the panels of client/src/components/                 *)
(* EmergencyChatPanel.jsx, each with its socket, and the video:* handlers  *)
(* of server/src/services/socket.js.  A socket delivers in order both      *)
(* ways; the server runs one handler at a time.  A panel's handlers are    *)
(* attached when it is mounted and keep the variables of that render       *)
(* (no camera); its buttons and effects see the current ones.  A lost      *)
(* connection takes its id with it: a tab that survives it goes on under   *)
(* the id of its next one.                                                 *)
(***************************************************************************)
EXTENDS Naturals, Sequences, FiniteSets, SequencesExt

CONSTANTS
    Panels,         \* socket ids, as the numbers the rule of the smaller id compares
    Admins,
    Later,          \* ids of connections made when another was lost
    MaxActs         \* bound: what the users do

ASSUME MeetingAssumption ==
    /\ Panels \subseteq Nat /\ IsFiniteSet(Panels) /\ MaxActs \in Nat
    /\ Admins \subseteq Panels /\ Later \subseteq Panels

VARIABLES
    panel,          \* the state of each panel
    sock,           \* its connection: not made yet, up, or gone
    up, down,       \* messages on the way to the server, and to each panel
    meeting,        \* activeMeetingByRoom: whether it is on, and its participants
    room,           \* sockets in the Socket.IO room
    acts            \* bound

meetVars == <<panel, sock, up, down, meeting, room, acts>>

Links == {"none", "new", "offered", "stable"}
Away == [p \in Panels |-> "none"]
Fresh == [open |-> TRUE, active |-> FALSE, prompts |-> 0, in |-> FALSE, stream |-> FALSE, lit |-> 0,
          links |-> Away, sends |-> {}, seen |-> {}]
Shut == [Fresh EXCEPT !.open = FALSE]
Msg(type, from, who) == [type |-> type, from |-> from, who |-> who]

MeetTypeOK ==
    /\ panel \in [Panels -> [open : BOOLEAN, active : BOOLEAN, prompts : 0..MaxActs, in : BOOLEAN,
                             stream : BOOLEAN, lit : 0..MaxActs, links : [Panels -> Links],
                             sends : SUBSET Panels, seen : SUBSET Panels]]
    /\ sock \in [Panels -> {"unused", "up", "gone"}]
    /\ meeting \in [on : BOOLEAN, people : SUBSET Panels]
    /\ room \subseteq Panels /\ acts \in 0..MaxActs
    /\ \A p \in Panels : panel[p].in => panel[p].stream

MeetInit ==
    /\ sock = [p \in Panels |-> IF p \in Later THEN "unused" ELSE "up"]
    /\ panel = [p \in Panels |-> IF p \in Later THEN Shut ELSE Fresh]
    /\ up = [p \in Panels |-> IF p \in Later THEN <<>> ELSE <<Msg("status", p, {})>>]
    /\ down = [p \in Panels |-> <<>>]
    /\ meeting = [on |-> FALSE, people |-> {}]
    /\ room = {} /\ acts = 0

-----------------------------------------------------------------------------
Act == acts < MaxActs /\ acts' = acts + 1
Emit(p, msgs) == up' = [up EXCEPT ![p] = @ \o msgs]

\* Offers to the members of `who` that this panel is to call, in some order.
Offers(p, who) == LET s == SetToSeq(who) IN [i \in DOMAIN s |-> Msg("offer", p, {s[i]})]

\* shouldCreateOfferTo: the peer with the smaller id calls.
Callees(p, who) == {q \in who : p < q}

\* makePeer and createOffer for `who`; `camera` when the code that runs sees the stream.
Linked(p, r, who, camera) ==
    [r EXCEPT !.links = [q \in Panels |->
                            IF q \in Callees(p, who) THEN "offered"
                            ELSE IF q \in who /\ @[q] = "none" THEN "new" ELSE @[q]],
              !.sends = IF camera THEN @ \union {q \in who : r.links[q] = "none"} ELSE @]

\* leaveMeeting; a handler's closure holds no stream to stop.
Hung(r, sees) ==
    [r EXCEPT !.in = FALSE, !.stream = FALSE, !.links = Away, !.sends = {},
              !.lit = IF sees /\ r.stream THEN @ - 1 ELSE @]

\* startMeeting, whose join comes with it.
StartMeeting(p) ==
    /\ Act /\ p \in Admins /\ panel[p].open /\ ~panel[p].active
    /\ Emit(p, <<Msg("start", p, {})>>)
    /\ panel' = [panel EXCEPT ![p].active = TRUE, ![p].prompts = IF panel[p].in THEN @ ELSE @ + 1]
    /\ UNCHANGED <<sock, down, meeting, room>>

\* joinMeeting up to getUserMedia.
AskToJoin(p) ==
    /\ Act /\ panel[p].open /\ panel[p].active /\ ~panel[p].in
    /\ panel' = [panel EXCEPT ![p].prompts = @ + 1]
    /\ UNCHANGED <<sock, up, down, meeting, room>>

PromptDenied(p) ==
    /\ panel[p].prompts > 0
    /\ panel' = [panel EXCEPT ![p].prompts = @ - 1]
    /\ UNCHANGED <<sock, up, down, meeting, room, acts>>

\* The rest of joinMeeting and the effects on localStream and inMeeting.
PromptGranted(p) ==
    LET r == [panel[p] EXCEPT !.prompts = @ - 1, !.lit = @ + 1]
        old == {q \in Panels : r.links[q] # "none"}
        met == r.seen \ {p}
    IN
    /\ panel[p].prompts > 0
    /\ IF r.open
       THEN /\ panel' = [panel EXCEPT ![p] =
                            Linked(p, [r EXCEPT !.in = TRUE, !.stream = TRUE, !.sends = @ \union old,
                                                !.links = [q \in Panels |-> IF q \in old THEN "offered" ELSE @[q]]],
                                   met, TRUE)]
            /\ Emit(p, <<Msg("join", p, {})>> \o Offers(p, old) \o Offers(p, Callees(p, met)))
       ELSE panel' = [panel EXCEPT ![p] = r] /\ Emit(p, <<Msg("join", p, {})>>)
    /\ UNCHANGED <<sock, down, meeting, room, acts>>

LeaveMeeting(p) ==
    /\ Act /\ panel[p].in
    /\ panel' = [panel EXCEPT ![p] = Hung(@, TRUE)]
    /\ Emit(p, <<Msg("leave", p, {})>>)
    /\ UNCHANGED <<sock, down, meeting, room>>

EndMeeting(p) ==
    /\ Act /\ p \in Admins /\ panel[p].open /\ panel[p].active
    /\ panel' = [panel EXCEPT ![p] = [Hung(@, TRUE) EXCEPT !.active = FALSE]]
    /\ Emit(p, <<Msg("end", p, {}), Msg("leave", p, {})>>)
    /\ UNCHANGED <<sock, down, meeting, room>>

Kick(p, q) ==
    /\ Act /\ p \in Admins /\ panel[p].in /\ q \in panel[p].seen \ {p}
    /\ Emit(p, <<Msg("kick", p, {q})>>)
    /\ UNCHANGED <<panel, sock, down, meeting, room>>

\* The panel is unmounted with the closure of its first render; its socket stays.
ClosePanel(p) ==
    /\ Act /\ panel[p].open
    /\ panel' = [panel EXCEPT ![p] = [Shut EXCEPT !.prompts = panel[p].prompts, !.lit = panel[p].lit]]
    /\ Emit(p, <<Msg("leave", p, {})>>)
    /\ UNCHANGED <<sock, down, meeting, room>>

OpenPanel(p) ==
    /\ Act /\ sock[p] = "up" /\ ~panel[p].open
    /\ panel' = [panel EXCEPT ![p].open = TRUE]
    /\ Emit(p, <<Msg("status", p, {})>>)
    /\ UNCHANGED <<sock, down, meeting, room>>

-----------------------------------------------------------------------------
\* The connection of p is lost with what is on the way.  Socket.IO takes the socket out of its
\* rooms before `disconnect`, whose loop over them finds none: the participants stay as they
\* are, and nobody is told.
Dropped(p) ==
    /\ sock[p] = "up"
    /\ up' = [up EXCEPT ![p] = <<>>] /\ down' = [down EXCEPT ![p] = <<>>]
    /\ room' = room \ {p}
    /\ UNCHANGED <<meeting, acts>>

\* ... for good: the tab is closed,
CloseTab(p) ==
    /\ Dropped(p)
    /\ sock' = [sock EXCEPT ![p] = "gone"]
    /\ panel' = [panel EXCEPT ![p] = Shut]

\* ... or until the client connects again: the same panel, which asks for nothing, under a new id.
Reconnect(p, q) ==
    /\ Dropped(p) /\ sock[q] = "unused" /\ (p \in Admins) = (q \in Admins)
    /\ sock' = [sock EXCEPT ![p] = "gone", ![q] = "up"]
    /\ panel' = [panel EXCEPT ![p] = Shut, ![q] = panel[p]]

-----------------------------------------------------------------------------
\* io.to(...).emit: `who` are the sockets it reaches.
Told(d, who, msg) == [p \in Panels |-> IF p \in who THEN Append(d[p], msg) ELSE d[p]]

OnStart(p) ==
    /\ meeting' = [on |-> TRUE, people |-> {}]
    /\ down' = Told(down, {q \in Panels : sock[q] = "up"}, Msg("started", p, {}))
    /\ UNCHANGED room

OnEnd(p) ==
    /\ meeting' = [on |-> FALSE, people |-> {}]
    /\ down' = Told(down, room, Msg("ended", p, {}))
    /\ room' = {}

OnStatus(p) ==
    /\ down' = Told(down, {p}, Msg(IF meeting.on THEN "on" ELSE "off", p, meeting.people))
    /\ UNCHANGED <<meeting, room>>

OnJoin(p) ==
    /\ IF ~meeting.on THEN UNCHANGED <<meeting, room, down>>
       ELSE /\ meeting' = [meeting EXCEPT !.people = @ \union {p}]
            /\ room' = room \union {p}
            /\ down' = LET d1 == Told(down, {p}, Msg("peers", p, room \ {p}))
                           d2 == Told(d1, room', Msg("people", p, meeting'.people))
                       IN Told(d2, room' \ {p}, Msg("joined", p, {p}))

\* Fault: whoever leaves stays in the list of participants.
MutRemaining(p) == meeting.people

Remaining(p) == meeting.people \ {p}

\* socket.leave comes before the last emit, which only the others get.
OnLeave(p) ==
    /\ meeting' = [meeting EXCEPT !.people = Remaining(p)]
    /\ room' = room \ {p}
    /\ down' = LET d1 == IF meeting.on THEN Told(down, room, Msg("people", p, meeting'.people)) ELSE down
               IN Told(d1, room', Msg("left", p, {p}))

OnSignal(p, m) ==
    /\ down' = IF {p} \union m.who \subseteq meeting.people THEN Told(down, m.who, Msg(m.type, p, {p})) ELSE down
    /\ UNCHANGED <<meeting, room>>

OnKick(p, m) ==
    /\ down' = IF meeting.on THEN Told(down, m.who, Msg("kicked", p, {})) ELSE down
    /\ UNCHANGED <<meeting, room>>

Serve(p) ==
    /\ up[p] # <<>>
    /\ up' = [up EXCEPT ![p] = Tail(@)]
    /\ LET m == Head(up[p]) IN
        \/ m.type = "start" /\ OnStart(p)
        \/ m.type = "end" /\ OnEnd(p)
        \/ m.type = "status" /\ OnStatus(p)
        \/ m.type = "join" /\ OnJoin(p)
        \/ m.type = "leave" /\ OnLeave(p)
        \/ m.type \in {"offer", "answer"} /\ OnSignal(p, m)
        \/ m.type = "kick" /\ OnKick(p, m)
    /\ UNCHANGED <<panel, sock, acts>>

-----------------------------------------------------------------------------
\* What a message does to an open panel, and what the panel sends: handlers see no camera, effects do.
Handled(p, m) ==
    LET r == panel[p]
        to == m.who \ {p}
        Effect(s) == IF s.in THEN Linked(p, s, s.seen \ {p}, TRUE) ELSE s
        calls(s) == IF s.in THEN Offers(p, Callees(p, s.seen \ {p})) ELSE <<>>
    IN CASE m.type = "started" -> [state |-> [r EXCEPT !.active = TRUE], sent |-> <<>>]
         [] m.type = "off" -> [state |-> [r EXCEPT !.active = FALSE], sent |-> <<>>]
         [] m.type = "on" ->
                LET s == [r EXCEPT !.active = TRUE, !.seen = m.who] IN [state |-> Effect(s), sent |-> calls(s)]
         [] m.type = "people" ->
                LET s == [r EXCEPT !.seen = m.who] IN [state |-> Effect(s), sent |-> calls(s)]
         [] m.type = "ended" -> [state |-> [Hung(r, FALSE) EXCEPT !.active = FALSE], sent |-> <<Msg("leave", p, {})>>]
         [] m.type = "kicked" -> [state |-> Hung(r, FALSE), sent |-> <<Msg("leave", p, {})>>]
         [] m.type \in {"peers", "joined"} ->
                [state |-> Linked(p, r, to, FALSE), sent |-> Offers(p, Callees(p, to))]
         [] m.type = "left" ->
                [state |-> [r EXCEPT !.links = [q \in Panels |-> IF q \in m.who THEN "none" ELSE @[q]],
                                     !.sends = @ \ m.who], sent |-> <<>>]
         [] m.type = "offer" ->
                [state |-> [r EXCEPT !.links[m.from] = "stable"], sent |-> <<Msg("answer", p, {m.from})>>]
         [] m.type = "answer" ->
                [state |-> [r EXCEPT !.links[m.from] = CASE @ = "offered" -> "stable" [] @ = "none" -> "new" [] OTHER -> @],
                 sent |-> <<>>]

Receive(p) ==
    /\ down[p] # <<>>
    /\ down' = [down EXCEPT ![p] = Tail(@)]
    /\ IF panel[p].open
       THEN LET t == Handled(p, Head(down[p])) IN panel' = [panel EXCEPT ![p] = t.state] /\ Emit(p, t.sent)
       ELSE UNCHANGED <<panel, up>>
    /\ UNCHANGED <<sock, meeting, room, acts>>

MeetNext ==
    \E p \in Panels :
        \/ StartMeeting(p) \/ AskToJoin(p) \/ PromptDenied(p) \/ PromptGranted(p)
        \/ LeaveMeeting(p) \/ EndMeeting(p) \/ ClosePanel(p) \/ OpenPanel(p)
        \/ CloseTab(p) \/ \E q \in Panels : Kick(p, q) \/ Reconnect(p, q)
        \/ Serve(p) \/ Receive(p)

MeetSpec == MeetInit /\ [][MeetNext]_meetVars

-----------------------------------------------------------------------------
Quiet == \A p \in Panels : up[p] = <<>> /\ down[p] = <<>>

\* Who is listed by the server and shows the meeting.
Present == {p \in meeting.people : panel[p].in}

(* Once every message is delivered, any two who are in the meeting are      *)
(* connected, whatever joins, leaves, kicks, ends, restarts, late camera    *)
(* prompts and lost connections crossed on the way; and nobody whose        *)
(* connection is up is listed as a participant while out of the server's    *)
(* room (EmergencyChatPanel.jsx, socket.js).                                *)
MeshComplete ==
    /\ \A p \in meeting.people : sock[p] = "up" => p \in room
    /\ Quiet => \A p, q \in Present : p # q => panel[p].links[q] = "stable"

(* Who is listed as a participant is in the room: a lost connection leaves  *)
(* both (socket.js:337-349).                                                *)
ListedInRoom == meeting.people \subseteq room

(* A panel holds no connection to one that is lost (socket.js:348).         *)
LostAreDropped ==
    Quiet => \A p, q \in Panels : sock[q] = "gone" => panel[p].links[q] = "none"

(* "Deterministic rule: only the peer with the lexically smaller id creates *)
(* the offer" (EmergencyChatPanel.jsx:108).                                 *)
OneCaller == \A p \in Panels : \A i \in DOMAIN down[p] : down[p][i].type = "offer" => down[p][i].from < p

(* A panel that is in no meeting holds no camera.                           *)
CameraReleased == \A p \in Panels : ~panel[p].in => panel[p].lit = 0

(* Connected panels send each other their camera.                           *)
MediaFlows ==
    Quiet => \A p \in Present : \A q \in Present \ {p} : q \in panel[p].sends

(* A panel that shows a meeting is a participant of it.                     *)
InIsIn == Quiet => \A p \in Panels : panel[p].in => p \in meeting.people

(* Who is listed as a participant shows the meeting.                        *)
ListedIsIn == Quiet => \A p \in meeting.people : panel[p].in
=============================================================================
