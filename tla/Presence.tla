------------------------------ MODULE Presence ------------------------------
(***************************************************************************)
(* Who is online: the handlers register, location:update, chat:send and    *)
(* disconnect of server/src/services/socket.js, the maps of                *)
(* server/src/lib/onlineState.ts, and the block of an account, which looks *)
(* a socket up there (server/src/routes/auth.js).  Sockets are             *)
(* connections: a client that reconnects has a new one.  A client whose    *)
(* user signs in to another account without closing its connection         *)
(* registers the same one again (client/src/services/socket.js).           *)
(***************************************************************************)
EXTENDS Naturals, FiniteSets

CONSTANTS
    Sockets,        \* connections
    Nicknames,      \* accounts
    AdminNames,     \* those whose tokens say isAdmin
    NoSocket,
    NoName,
    MaxBlocks       \* bound: how many accounts are blocked

ASSUME PresenceAssumption ==
    NoSocket \notin Sockets /\ NoName \notin Nicknames /\ AdminNames \subseteq Nicknames

VARIABLES
    online,         \* ONLINE_KEY: the socket of each nickname
    located,        \* LOCATIONS_KEY: nicknames with a position
    peer,           \* of each connection: transport, socket.nickname, and its handlers
    adminSockets,   \* the set of the same name
    blocked,        \* accounts an administrator blocked
    forced,         \* of each account: the socket its block looked up, before it acts on it
    hasty           \* history: connections that closed while register waited for the store

presenceVars == <<online, located, peer, adminSockets, blocked, forced, hasty>>

NameOrNone == Nicknames \union {NoName}
CloseSteps == {"none", "offline", "unlocated"}

PresenceTypeOK ==
    /\ online \in [Nicknames -> Sockets \union {NoSocket}]
    /\ located \subseteq Nicknames
    /\ peer \in [Sockets -> [open : BOOLEAN, used : BOOLEAN, nick : NameOrNone, joining : SUBSET Nicknames,
                             leaving : NameOrNone, closing : CloseSteps]]
    /\ \A s \in Sockets : (peer[s].open \/ peer[s].closing # "none") => peer[s].used
    /\ adminSockets \subseteq Sockets
    /\ blocked \subseteq Nicknames
    /\ forced \in [Nicknames -> Sockets \union {NoSocket}]
    /\ hasty \subseteq Sockets

PresenceInit ==
    /\ online = [n \in Nicknames |-> NoSocket] /\ located = {}
    /\ peer = [s \in Sockets |-> [open |-> FALSE, used |-> FALSE, nick |-> NoName, joining |-> {},
                                  leaving |-> NoName, closing |-> "none"]]
    /\ adminSockets = {} /\ blocked = {} /\ hasty = {}
    /\ forced = [n \in Nicknames |-> NoSocket]

\* socket.nickname is set.
Registered(s) == peer[s].nick # NoName

-----------------------------------------------------------------------------
Connect(s) ==
    /\ ~peer[s].used
    /\ peer' = [peer EXCEPT ![s].open = TRUE, ![s].used = TRUE]
    /\ UNCHANGED <<online, located, adminSockets, blocked, forced, hasty>>

\* register with a token of n, the connection's first or not: only the token is verified;
\* setOnline is sent to the store and awaited.
SetOnline(s, n) ==
    /\ peer[s].open
    /\ online' = [online EXCEPT ![n] = s]
    /\ peer' = [peer EXCEPT ![s].joining = @ \union {n}]
    /\ UNCHANGED <<located, adminSockets, blocked, forced, hasty>>

\* The rest of register, whether or not the connection is still open.  Several may wait with
\* tokens of one account: one returns, and others may be left.
RegisterReturns(s, n) ==
    /\ n \in peer[s].joining
    /\ \E rest \in {peer[s].joining, peer[s].joining \ {n}} :
          peer' = [peer EXCEPT ![s].nick = n, ![s].joining = rest]
    /\ adminSockets' = IF n \in AdminNames THEN adminSockets \union {s} ELSE adminSockets
    /\ UNCHANGED <<online, located, blocked, forced, hasty>>

\* location:update.
UpdateLocation(s) ==
    /\ peer[s].open /\ Registered(s)
    /\ located' = located \union {peer[s].nick}
    /\ UNCHANGED <<online, peer, adminSockets, blocked, forced, hasty>>

\* The transport closes: disconnect runs up to its first await, the nickname the connection has
\* by now on its way off the list.
Disconnect(s) ==
    /\ peer[s].open
    /\ peer' = [peer EXCEPT ![s].open = FALSE, ![s].leaving = peer[s].nick,
                            ![s].closing = IF Registered(s) THEN "offline" ELSE "none"]
    /\ adminSockets' = IF Registered(s) THEN adminSockets ELSE adminSockets \ {s}
    /\ hasty' = IF peer[s].joining # {} THEN hasty \union {s} ELSE hasty
    /\ UNCHANGED <<online, located, blocked, forced>>

\* Fault: the entry of the nickname is left.
MutWithout(n) == online

\* removeOnline deletes by nickname, whoever the entry names by now.
Without(n) == [online EXCEPT ![n] = NoSocket]

RemoveOnline(s) ==
    /\ peer[s].closing = "offline"
    /\ online' = Without(peer[s].leaving)
    /\ peer' = [peer EXCEPT ![s].closing = "unlocated", ![s].leaving = NoName]
    /\ UNCHANGED <<located, adminSockets, blocked, forced, hasty>>

\* removeLocation, of the nickname the connection has after the await, and the rest of disconnect.
RemoveLocation(s) ==
    /\ peer[s].closing = "unlocated"
    /\ located' = located \ {peer[s].nick}
    /\ adminSockets' = adminSockets \ {s}
    /\ peer' = [peer EXCEPT ![s].closing = "none"]
    /\ UNCHANGED <<online, blocked, forced, hasty>>

\* PATCH blocked: true, up to the answer of getOnlineSocketId.
BlockUser(n) ==
    /\ n \notin blocked /\ Cardinality(blocked) < MaxBlocks
    /\ blocked' = blocked \union {n}
    /\ forced' = [forced EXCEPT ![n] = online[n]]
    /\ UNCHANGED <<online, located, peer, adminSockets, hasty>>

\* auth:blocked is emitted and the socket that was looked up is disconnected.
ForceOut(n) ==
    LET s == forced[n] IN
    /\ s # NoSocket
    /\ forced' = [forced EXCEPT ![n] = NoSocket]
    /\ IF peer[s].open
       THEN /\ peer' = [peer EXCEPT ![s].open = FALSE, ![s].leaving = peer[s].nick,
                                    ![s].closing = IF Registered(s) THEN "offline" ELSE "none"]
            /\ hasty' = IF peer[s].joining # {} THEN hasty \union {s} ELSE hasty
       ELSE UNCHANGED <<peer, hasty>>
    /\ UNCHANGED <<online, located, adminSockets, blocked>>

PresenceNext ==
    \/ \E s \in Sockets :
          \/ \E n \in Nicknames : SetOnline(s, n) \/ RegisterReturns(s, n)
          \/ Connect(s) \/ UpdateLocation(s) \/ Disconnect(s)
          \/ RemoveOnline(s) \/ RemoveLocation(s)
    \/ \E n \in Nicknames : BlockUser(n) \/ ForceOut(n)

PresenceSpec == PresenceInit /\ [][PresenceNext]_presenceVars

-----------------------------------------------------------------------------
(* Once its handlers have ended, no closed connection stays listed under    *)
(* the nickname it registered last, whatever order registrations, changes   *)
(* of account, disconnections and blocks come in, unless it closed while a  *)
(* registration waited for the store (socket.js:351-357): a message sent to *)
(* an online user reaches a socket.  Nor does one stay among the            *)
(* administrators' sockets.                                                 *)
NoGhosts ==
    /\ \A n \in Nicknames, s \in Sockets \ hasty :
          online[n] = s /\ peer[s].nick = n => peer[s].open \/ peer[s].closing = "offline"
    /\ \A s \in adminSockets : s \in hasty \/ peer[s].open \/ peer[s].closing # "none"

(* The same of every nickname the connection ever registered: the one it    *)
(* had before its user changed accounts goes too (socket.js:351-352).       *)
NoEarlierGhosts ==
    \A n \in Nicknames, s \in Sockets \ hasty :
       online[n] = s => peer[s].open \/ peer[s].closing = "offline"

(* A user with an open, registered connection is listed (the test           *)
(* socket.connection.test.js:143, "re-establishes presence after a          *)
(* reconnect (new socket, same user)").                                     *)
StaysOnline ==
    \A s \in Sockets : peer[s].open /\ Registered(s) => online[peer[s].nick] # NoSocket

(* Blocking ends the connections of the account: "force out an active       *)
(* session immediately when blocking" (auth.js:511).                        *)
BlockedAreOut ==
    [][\A n \in Nicknames : ForceOut(n) =>
          \A s \in Sockets : peer'[s].nick = n => ~peer'[s].open]_presenceVars
=============================================================================
