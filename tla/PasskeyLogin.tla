---------------------------- MODULE PasskeyLogin ----------------------------
(***************************************************************************)
(* Passkeys and the lockout of one account: the one-time challenges of     *)
(* server/src/lib/webauthnChallengeStore.js, the ceremonies of             *)
(* server/src/routes/webauthn.js, the password check of routes/auth.js and *)
(* the counter of failures they share (server/src/lib/loginThrottle.ts),   *)
(* both stores in Redis.                                                   *)
(***************************************************************************)
EXTENDS Naturals, FiniteSets

CONSTANTS
    Clients,        \* requests that may be under way together
    Challenges,     \* random values generated by generate...Options
    NoChallenge,
    MaxFailures,    \* MAX_ATTEMPTS of the throttle
    MaxSessions     \* bound: sessions counted per challenge

ASSUME PasskeyAssumption ==
    /\ MaxFailures \in Nat \ {0} /\ MaxSessions \in Nat \ {0, 1}
    /\ NoChallenge \notin Challenges /\ IsFiniteSet(Clients)

VARIABLES
    stored,         \* the challenge kept under reg:<user> and auth:<user>
    fresh,          \* challenges not generated yet
    ceremony,       \* of each client: what it does, the challenge it signed, how far it is
    failures,       \* login-fail:<user>: its count, and whether the key has an expiry
    signed,         \* the responses that were signed and sent: kind and challenge
    passkeys,       \* challenges whose registration left a row in webauthn_credentials
    opened          \* history: sessions opened with each challenge

passkeyVars == <<stored, fresh, ceremony, failures, signed, passkeys, opened>>

ChallengeKinds == {"reg", "auth", "password"}
CeremonySteps == {"idle", "signing", "lock", "take", "judge", "clear", "fail"}
Unused == [kind |-> "password", holds |-> NoChallenge, at |-> "idle"]

PasskeyTypeOK ==
    /\ stored \in [{"reg", "auth"} -> Challenges \union {NoChallenge}]
    /\ fresh \subseteq Challenges
    /\ ceremony \in [Clients -> [kind : ChallengeKinds, holds : Challenges \union {NoChallenge}, at : CeremonySteps]]
    /\ \A c \in Clients : ceremony[c].holds \notin fresh
    /\ \A k \in {"reg", "auth"} : stored[k] \notin fresh
    /\ failures \in [count : Nat, expires : BOOLEAN]
    /\ failures.count = 0 => ~failures.expires
    /\ signed \subseteq {"reg", "auth"} \X Challenges
    /\ passkeys \subseteq Challenges
    /\ opened \in [Challenges -> 0..MaxSessions]

PasskeyInit ==
    /\ stored = [k \in {"reg", "auth"} |-> NoChallenge]
    /\ fresh = Challenges
    /\ ceremony = [c \in Clients |-> Unused]
    /\ failures = [count |-> 0, expires |-> FALSE]
    /\ signed = {} /\ passkeys = {}
    /\ opened = [ch \in Challenges |-> 0]

-----------------------------------------------------------------------------
\* Fault: the lock closes one failure late.
MutLoginLocked == failures.count > MaxFailures

\* isLoginLocked.
LoginLocked == failures.count >= MaxFailures

Goes(c, at) == ceremony' = [ceremony EXCEPT ![c].at = at]

\* Where a signed response goes: login/verify reads the lock first.
Entry(kind) == IF kind = "reg" THEN "take" ELSE "lock"

\* register/options and login/options: a new challenge replaces the one that was kept.
RequestOptions(c, kind, ch) ==
    /\ ceremony[c].at = "idle" /\ kind # "password" /\ ch \in fresh
    /\ kind = "auth" => ~LoginLocked
    /\ stored' = [stored EXCEPT ![kind] = ch]
    /\ fresh' = fresh \ {ch}
    /\ ceremony' = [ceremony EXCEPT ![c] = [kind |-> kind, holds |-> ch, at |-> "signing"]]
    /\ UNCHANGED <<failures, signed, passkeys, opened>>

\* The authenticator signs, and the response is sent; or the user dismisses the prompt.
Sign(c, dismissed) ==
    /\ ceremony[c].at = "signing"
    /\ IF dismissed
       THEN ceremony' = [ceremony EXCEPT ![c] = Unused] /\ UNCHANGED signed
       ELSE Goes(c, Entry(ceremony[c].kind)) /\ signed' = signed \union {<<ceremony[c].kind, ceremony[c].holds>>}
    /\ UNCHANGED <<stored, fresh, failures, passkeys, opened>>

\* A response that was sent is sent again, by whoever has it and whether or not the first is
\* answered yet.
Resubmit(c, kind, ch) ==
    /\ ceremony[c].at = "idle" /\ <<kind, ch>> \in signed
    /\ ceremony' = [ceremony EXCEPT ![c] = [kind |-> kind, holds |-> ch, at |-> Entry(kind)]]
    /\ UNCHANGED <<stored, fresh, failures, signed, passkeys, opened>>

\* login-request with a password.
SendPassword(c) ==
    /\ ceremony[c].at = "idle"
    /\ ceremony' = [ceremony EXCEPT ![c] = [Unused EXCEPT !.at = "lock"]]
    /\ UNCHANGED <<stored, fresh, failures, signed, passkeys, opened>>

\* The lock is read before anything is compared; the comparison comes after an await.
CheckLock(c) ==
    /\ ceremony[c].at = "lock"
    /\ Goes(c, IF LoginLocked THEN "idle" ELSE IF ceremony[c].kind = "auth" THEN "take" ELSE "judge")
    /\ UNCHANGED <<stored, fresh, failures, signed, passkeys, opened>>

\* Fault: the challenge is read and not deleted.
MutKept(kind) == stored[kind]

\* consumeChallenge deletes what it returns.
Kept(kind) == NoChallenge

TakeChallenge(c) ==
    LET kind == ceremony[c].kind
        matches == stored[kind] = ceremony[c].holds
    IN
    /\ ceremony[c].at = "take"
    /\ stored' = [stored EXCEPT ![kind] = Kept(kind)]
    /\ Goes(c, IF matches THEN "judge" ELSE IF kind = "auth" THEN "fail" ELSE "idle")
    /\ UNCHANGED <<fresh, failures, signed, passkeys, opened>>

\* The credential, the signature or the password is wrong, or the account is gone.
Rejected(c) ==
    /\ ceremony[c].at = "judge"
    /\ Goes(c, IF ceremony[c].kind = "reg" THEN "idle" ELSE "fail")
    /\ UNCHANGED <<stored, fresh, failures, signed, passkeys, opened>>

\* A blocked account: a correct password still clears the failures, a passkey does not.
RefusedAsBlocked(c) ==
    /\ ceremony[c].at = "judge" /\ ceremony[c].kind # "reg"
    /\ failures' = IF ceremony[c].kind = "password" THEN [count |-> 0, expires |-> FALSE] ELSE failures
    /\ Goes(c, "idle")
    /\ UNCHANGED <<stored, fresh, signed, passkeys, opened>>

\* INSERT ... ON CONFLICT (credential_id) DO NOTHING.
RegisterPasskey(c) ==
    /\ ceremony[c].at = "judge" /\ ceremony[c].kind = "reg"
    /\ passkeys' = passkeys \union {ceremony[c].holds}
    /\ Goes(c, "idle")
    /\ UNCHANGED <<stored, fresh, failures, signed, opened>>

\* A login with a passkey needs one that is registered.
PasskeyAccepted(c) ==
    /\ ceremony[c].at = "judge" /\ ceremony[c].kind # "reg"
    /\ ceremony[c].kind = "auth" => passkeys # {}
    /\ Goes(c, "clear")
    /\ UNCHANGED <<stored, fresh, failures, signed, passkeys, opened>>

\* clearLoginFailures, and the session is opened.
OpenSession(c) ==
    /\ ceremony[c].at = "clear"
    /\ failures' = [count |-> 0, expires |-> FALSE]
    /\ opened' = IF ceremony[c].kind = "auth"
                 THEN [opened EXCEPT ![ceremony[c].holds] = IF @ < MaxSessions THEN @ + 1 ELSE @] ELSE opened
    /\ Goes(c, "idle")
    /\ UNCHANGED <<stored, fresh, signed, passkeys>>

\* recordLoginFailure: INCR, then an expiry for the first failure, which may not be set.
RecordFailure(c, expirySet) ==
    /\ ceremony[c].at = "fail"
    /\ failures' = [count |-> failures.count + 1,
                    expires |-> IF failures.count = 0 THEN expirySet ELSE failures.expires]
    /\ Goes(c, "idle")
    /\ UNCHANGED <<stored, fresh, signed, passkeys, opened>>

\* LOCKOUT_SECONDS pass.
LockoutEnds ==
    /\ failures.expires
    /\ failures' = [count |-> 0, expires |-> FALSE]
    /\ UNCHANGED <<stored, fresh, ceremony, signed, passkeys, opened>>

\* CHALLENGE_TTL_S pass.
ChallengeExpires(kind) ==
    /\ stored[kind] # NoChallenge
    /\ stored' = [stored EXCEPT ![kind] = NoChallenge]
    /\ UNCHANGED <<fresh, ceremony, failures, signed, passkeys, opened>>

\* DELETE /credentials/:id.
RemovePasskey(ch) ==
    /\ ch \in passkeys
    /\ passkeys' = passkeys \ {ch}
    /\ UNCHANGED <<stored, fresh, ceremony, failures, signed, opened>>

PasskeyNext ==
    \/ \E c \in Clients :
          \/ \E kind \in ChallengeKinds, ch \in Challenges : RequestOptions(c, kind, ch) \/ Resubmit(c, kind, ch)
          \/ \E b \in BOOLEAN : Sign(c, b) \/ RecordFailure(c, b)
          \/ SendPassword(c) \/ CheckLock(c) \/ TakeChallenge(c) \/ Rejected(c)
          \/ RefusedAsBlocked(c) \/ RegisterPasskey(c) \/ PasskeyAccepted(c) \/ OpenSession(c)
    \/ LockoutEnds
    \/ \E kind \in {"reg", "auth"} : ChallengeExpires(kind)
    \/ \E ch \in Challenges : RemovePasskey(ch)

PasskeySpec == PasskeyInit /\ [][PasskeyNext]_passkeyVars

-----------------------------------------------------------------------------
\* The requests that are past their challenge.
Past == {c \in Clients : ceremony[c].kind # "password" /\ ceremony[c].at \in {"judge", "clear"}}

(* A signed response opens at most one session, and of the requests that    *)
(* carry it only one is ever past its challenge, however often, by whom and *)
(* how close together it is sent: "a captured response can't be             *)
(* re-submitted because consuming the challenge here deletes it"            *)
(* (webauthnChallengeStore.js:6).                                           *)
ChallengeOnce ==
    /\ \A ch \in Challenges : opened[ch] <= 1
    /\ \A c \in Past :
          /\ opened[ceremony[c].holds] = 0 /\ stored[ceremony[c].kind] # ceremony[c].holds
          /\ \A d \in Past : ceremony[d].holds = ceremony[c].holds => d = c

(* The lock is read before the comparison, so the requests that passed it   *)
(* together can push the count past the limit, by one less than there are   *)
(* requests (loginThrottle.ts:24-40).                                       *)
FailuresBounded ==
    failures.count + Cardinality({c \in Clients : ceremony[c].at \in {"take", "judge", "fail"}
                                                  /\ ceremony[c].kind # "reg"})
        < MaxFailures + Cardinality(Clients)

(* A lock ends: the expiry is set for the first failure only, and a failure *)
(* between INCR and EXPIRE leaves a key that never goes (loginThrottle.ts:47-48). *)
LockEnds == LoginLocked => failures.expires
=============================================================================
