---------------------------- MODULE BciProofs ----------------------------
(***************************************************************************)
(* BCI: proofs about the gateway through which the server asserts roles to *)
(* it, and about what its findings claim.                                  *)
(***************************************************************************)
EXTENDS BciGateway, Findings, FiniteSetTheorems, TLAPS

-----------------------------------------------------------------------------
(***************************************************************************)
(* What role BCI's account is left with, for every number of calls and of  *)
(* changes of the role, as long as session requests do not overlap.        *)
(* SessionInv says what each statement of such a request may rely on: a    *)
(* creation finds no account, a grant finds no role.                       *)
(***************************************************************************)
\* The calls as records: what a call carries depends on how far it is.
CallRecord ==
    [at : {"idle"}]
        \cup [at : {"connecting", "requesting"}, as : BciRoles]
        \cup [at : {"answered"}, as : BciRoles, outcome : Outcomes, powers : SUBSET BciRoles]
CallsOK ==
    /\ bciCall \in [BciCalls -> CallRecord]
    /\ \A c \in BciCalls : session[c] # "none" => bciCall[c].at # "idle"

NoneUnderWay == \A c \in BciCalls : ~UnderWay(c)

\* Without overlap one session request is under way, and finds what it expects;
\* whoever is not between DELETE and INSERT leaves the role granted last, or
\* none after a break there.
AloneOK ==
    ~overlapped =>
        /\ \A c, d \in BciCalls : UnderWay(c) /\ UnderWay(d) => c = d
        /\ \A c \in BciCalls :
              /\ session[c] # "conflict"
              /\ session[c] = "create" => ~account
              /\ session[c] = "grant" => bciRoles = {}
        /\ (\A c \in BciCalls : session[c] # "grant") =>
              bciRoles = IF broken THEN {} ELSE {granted} \ {"none"}

\* What calls were executed with.
PowersOK ==
    ~overlapped =>
        \A c \in BciCalls : bciCall[c].at = "answered" /\ bciCall[c].outcome = "ok" =>
            \E r \in BciRoles : bciCall[c].powers = {r}

SessionInv == GatewayTypeOK /\ CallsOK /\ AloneOK /\ PowersOK

-----------------------------------------------------------------------------
LEMMA NoneIsNoRole == "none" \notin BciRoles
  BY DEF BciRoles, MapAnatoliaRoleToBci, AnatoliaRoles

LEMMA MapsToRole == ASSUME role \in AnatoliaRoles PROVE MapAnatoliaRoleToBci(role) \in BciRoles
  BY DEF BciRoles

LEMMA SessionInvImplies == SessionInv => RoleInStep
  BY DEF SessionInv, GatewayTypeOK, AloneOK, PowersOK, RoleInStep, UnderWay

LEMMA SessionInvInit == GatewayInit => SessionInv
<1> SUFFICES ASSUME GatewayInit
             PROVE  SessionInv
  OBVIOUS
<1>1. GatewayTypeOK
  <2>1. \A c \in BciCalls : bciCall[c].at = "idle"
    BY DEF GatewayInit
  <2>2. changes \in 0..MaxChanges
    BY GatewayAssumption DEF GatewayInit
  <2> QED
    BY <2>1, <2>2 DEF GatewayInit, GatewayTypeOK
<1>2. CallsOK
  <2>1. [at |-> "idle"] \in CallRecord
    BY DEF CallRecord
  <2> QED
    BY <2>1 DEF GatewayInit, CallsOK
<1>3. AloneOK /\ PowersOK
  BY DEF GatewayInit, AloneOK, PowersOK, UnderWay
<1> QED
  BY <1>1, <1>2, <1>3 DEF SessionInv

\* The steps that leave the accounts and the sessions alone.
LEMMA CallFrame ==
  ASSUME SessionInv, UNCHANGED <<account, bciRoles, session, overlapped, granted, broken>>
  PROVE  AloneOK'
  BY DEF SessionInv, AloneOK, UnderWay

LEMMA StartCall ==
  ASSUME SessionInv, NEW c \in BciCalls, CallBci(c)
  PROVE  SessionInv'
<1> DEFINE as == MapAnatoliaRoleToBci(role)
           new == [at |-> IF cached THEN "requesting" ELSE "connecting", as |-> as]
<1>1. new \in CallRecord /\ new.at \in {"connecting", "requesting"}
  BY MapsToRole DEF SessionInv, GatewayTypeOK, CallRecord
<1>2. /\ bciCall' = [bciCall EXCEPT ![c] = new]
      /\ UNCHANGED <<role, cached, account, bciRoles, changes, granted, broken>>
      /\ overlapped' \in BOOLEAN /\ (overlapped => overlapped')
  BY DEF CallBci
<1>3. PICK s \in {"none", "find"} : session' = [session EXCEPT ![c] = s]
  BY DEF CallBci
<1> HIDE DEF new
<1>4. CallsOK'
  BY <1>1, <1>2, <1>3 DEF SessionInv, GatewayTypeOK, CallsOK
<1>5. GatewayTypeOK'
  BY <1>1, <1>2, <1>3 DEF SessionInv, GatewayTypeOK, CallsOK
<1>6. AloneOK'
  BY DEF SessionInv, GatewayTypeOK, CallsOK, AloneOK, UnderWay, CallBci
<1>7. PowersOK'
  BY <1>1, <1>2 DEF SessionInv, CallsOK, PowersOK
<1> QED
  BY <1>4, <1>5, <1>6, <1>7 DEF SessionInv

LEMMA TokenCached ==
  ASSUME SessionInv, NEW c \in BciCalls, CacheToken(c)
  PROVE  SessionInv'
<1>1. bciCall[c] \in [at : {"connecting", "requesting"}, as : BciRoles]
  BY DEF SessionInv, CallsOK, CallRecord, CacheToken
<1>2. bciCall' = [bciCall EXCEPT ![c] = [at |-> "requesting", as |-> bciCall[c].as]]
  BY DEF CacheToken
<1>3. CallsOK'
  BY <1>1, <1>2 DEF SessionInv, GatewayTypeOK, CallsOK, CallRecord, CacheToken
<1>4. GatewayTypeOK'
  BY <1>2 DEF SessionInv, GatewayTypeOK, CallsOK, CacheToken
<1>5. AloneOK'
  BY DEF SessionInv, GatewayTypeOK, AloneOK, UnderWay, CacheToken
<1>6. PowersOK'
  BY <1>2 DEF SessionInv, CallsOK, PowersOK, CacheToken
<1> QED
  BY <1>3, <1>4, <1>5, <1>6 DEF SessionInv

\* An answer that is not "ok", or one given with a single role.
LEMMA AnswerGiven ==
  ASSUME SessionInv, NEW c \in BciCalls, NEW outcome \in Outcomes, NEW powers \in SUBSET BciRoles,
         bciCall[c].at \in {"connecting", "requesting"}, Answer(c, outcome, powers),
         session' \in [BciCalls -> {"none", "find", "create", "clear", "grant", "issued",
                                    "conflict", "outage"}],
         \A d \in BciCalls : session'[d] # "none" => session[d] # "none",
         UNCHANGED <<role, cached, account, bciRoles, changes, overlapped, granted, broken>>,
         ~overlapped /\ outcome = "ok" => \E r \in BciRoles : powers = {r}
  PROVE  GatewayTypeOK' /\ CallsOK' /\ PowersOK'
<1>1. bciCall[c].as \in BciRoles
  BY DEF SessionInv, CallsOK, CallRecord
<1> DEFINE new == [at |-> "answered", as |-> bciCall[c].as, outcome |-> outcome, powers |-> powers]
<1>2. new \in CallRecord
  BY <1>1 DEF CallRecord
<1>3. bciCall' = [bciCall EXCEPT ![c] = new] /\ new.at = "answered" /\ new.outcome = outcome /\ new.powers = powers
  BY DEF Answer
<1> HIDE DEF new
<1>4. CallsOK'
  BY <1>2, <1>3 DEF SessionInv, CallsOK
<1>5. GatewayTypeOK'
  BY <1>3 DEF SessionInv, GatewayTypeOK, CallsOK
<1>6. PowersOK'
  BY <1>3 DEF SessionInv, CallsOK, PowersOK
<1> QED
  BY <1>4, <1>5, <1>6

LEMMA SessionRefused ==
  ASSUME SessionInv, NEW c \in BciCalls, SessionFails(c)
  PROVE  SessionInv'
<1>1. session[c] \in Outcomes /\ session[c] # "ok"
  BY DEF SessionFails, Outcomes
<1>2. GatewayTypeOK' /\ CallsOK' /\ PowersOK'
  <2>1. session' \in [BciCalls -> {"none", "find", "create", "clear", "grant", "issued",
                                   "conflict", "outage"}]
    BY DEF SessionInv, GatewayTypeOK, SessionFails
  <2>2. \A d \in BciCalls : session'[d] # "none" => session[d] # "none"
    BY DEF SessionInv, GatewayTypeOK, SessionFails
  <2> QED
    BY <1>1, <2>1, <2>2, AnswerGiven DEF SessionFails
<1>3. AloneOK'
  BY DEF SessionInv, GatewayTypeOK, AloneOK, UnderWay, SessionFails
<1> QED
  BY <1>2, <1>3 DEF SessionInv

LEMMA CallAnswered ==
  ASSUME SessionInv, NEW c \in BciCalls, CallTimesOut(c) \/ ExecuteRequest(c)
  PROVE  SessionInv'
<1>1. CASE CallTimesOut(c)
  <2>1. GatewayTypeOK' /\ CallsOK' /\ PowersOK'
    BY <1>1, AnswerGiven DEF CallTimesOut, Outcomes, SessionInv, GatewayTypeOK
  <2> QED
    BY <1>1, <2>1, CallFrame DEF SessionInv, CallTimesOut
<1>2. CASE ExecuteRequest(c)
  <2>1. ~overlapped /\ bciRoles # {} => \E r \in BciRoles : bciRoles = {r}
    BY DEF SessionInv, GatewayTypeOK, AloneOK
  <2>2. GatewayTypeOK' /\ CallsOK' /\ PowersOK'
    BY <1>2, <2>1, AnswerGiven DEF ExecuteRequest, Outcomes, SessionInv, GatewayTypeOK
  <2> QED
    BY <1>2, <2>2, CallFrame DEF SessionInv, ExecuteRequest
<1> QED
  BY <1>1, <1>2

LEMMA OutsideMoves ==
  ASSUME SessionInv, TokenExpires \/ ChangeRole
  PROVE  SessionInv'
<1>1. GatewayTypeOK'
  <2>1. CASE TokenExpires
    BY <2>1 DEF SessionInv, GatewayTypeOK, TokenExpires
  <2>2. CASE ChangeRole
    <3>1. changes' \in 0..MaxChanges
      BY <2>2, GatewayAssumption DEF SessionInv, GatewayTypeOK, ChangeRole
    <3> QED
      BY <2>2, <3>1 DEF SessionInv, GatewayTypeOK, ChangeRole
  <2> QED
    BY <2>1, <2>2
<1>2. CallsOK' /\ PowersOK'
  BY DEF SessionInv, CallsOK, PowersOK, TokenExpires, ChangeRole
<1>3. AloneOK'
  BY CallFrame DEF TokenExpires, ChangeRole
<1> QED
  BY <1>1, <1>2, <1>3 DEF SessionInv

\* The four statements of POST /gateway/session, and the failure of one.
SessionStep(c) ==
  FindShadowUser(c) \/ CreateShadowUser(c) \/ ClearRoles(c) \/ GrantRole(c) \/ SessionBreaks(c)

LEMMA SessionMoves ==
  ASSUME SessionInv, NEW c \in BciCalls, SessionStep(c)
  PROVE  SessionInv'
<1>1. bciCall[c].at # "idle" /\ bciCall[c].as \in BciRoles
  BY DEF SessionInv, CallsOK, CallRecord, SessionStep, UnderWay, FindShadowUser, CreateShadowUser,
     ClearRoles, GrantRole, SessionBreaks
<1>2. UNCHANGED <<role, cached, bciCall, changes, overlapped>>
  BY DEF SessionStep, FindShadowUser, CreateShadowUser, ClearRoles, GrantRole, SessionBreaks
<1>3. PICK stage \in {"create", "clear", "grant", "issued", "conflict", "outage"} :
          session' = [session EXCEPT ![c] = stage]
  BY DEF SessionStep, FindShadowUser, CreateShadowUser, ClearRoles, GrantRole, SessionBreaks, ToSession
<1>4. GatewayTypeOK'
  <2>1. session' \in [BciCalls -> {"none", "find", "create", "clear", "grant", "issued",
                                   "conflict", "outage"}]
    BY <1>3 DEF SessionInv, GatewayTypeOK
  <2>2. account' \in BOOLEAN /\ bciRoles' \subseteq BciRoles /\ granted' \in BciRoles \cup {"none"} /\ broken' \in BOOLEAN
    BY <1>1 DEF SessionInv, GatewayTypeOK, SessionStep, FindShadowUser, CreateShadowUser,
       ClearRoles, GrantRole, SessionBreaks
  <2> QED
    BY <1>2, <2>1, <2>2 DEF SessionInv, GatewayTypeOK
<1>5. CallsOK' /\ PowersOK'
  BY <1>1, <1>2, <1>3 DEF SessionInv, GatewayTypeOK, CallsOK, PowersOK
<1>6. AloneOK'
  <2> USE DEF SessionInv, GatewayTypeOK, AloneOK, UnderWay, ToSession
  <2>1. CASE FindShadowUser(c)
    BY <2>1 DEF FindShadowUser
  <2>2. CASE CreateShadowUser(c)
    BY <2>2 DEF CreateShadowUser
  <2>3. CASE ClearRoles(c)
    BY <2>3 DEF ClearRoles
  <2>4. CASE GrantRole(c)
    BY <1>1, <2>4, NoneIsNoRole DEF GrantRole
  <2>5. CASE SessionBreaks(c)
    BY <2>5 DEF SessionBreaks
  <2> QED
    BY <2>1, <2>2, <2>3, <2>4, <2>5 DEF SessionStep
<1> QED
  BY <1>4, <1>5, <1>6 DEF SessionInv

-----------------------------------------------------------------------------
LEMMA SessionInvStep == SessionInv /\ [GatewayNext]_gatewayVars => SessionInv'
<1> SUFFICES ASSUME SessionInv, [GatewayNext]_gatewayVars
             PROVE  SessionInv'
  OBVIOUS
<1>1. ASSUME NEW c \in BciCalls, HandleCall(c)
      PROVE  SessionInv'
  BY <1>1, StartCall, TokenCached, SessionRefused, CallAnswered, SessionMoves DEF HandleCall, SessionStep
<1>2. CASE TokenExpires \/ ChangeRole
  BY <1>2, OutsideMoves
<1>3. CASE UNCHANGED gatewayVars
  BY <1>3 DEF gatewayVars, SessionInv, GatewayTypeOK, CallsOK, AloneOK, PowersOK, UnderWay
<1> QED
  BY <1>1, <1>2, <1>3 DEF GatewayNext

(* What each statement of POST /gateway/session may rely on.                *)
THEOREM SessionInvariant == GatewaySpec => []SessionInv
  BY SessionInvInit, SessionInvStep, PTL DEF GatewaySpec

(* While session requests do not overlap, each leaves the shadow account    *)
(* with the one role granted last, or with none if since then one broke off *)
(* between deleting the roles and granting the new one.                     *)
THEOREM RolesInStep == GatewaySpec => []RoleInStep
  BY SessionInvariant, SessionInvImplies, PTL

(* The variables keep their types.                                          *)
THEOREM GatewayTyped == GatewaySpec => []GatewayTypeOK
  BY SessionInvariant, PTL DEF SessionInv

-----------------------------------------------------------------------------
(***************************************************************************)
(* Findings: proofs that a finding never claims more certainty than the    *)
(* observations behind it give, for every number of engines, scans,        *)
(* observations and runs. Stored rows are compared with what their sources *)
(* warrant now (FairRow); a run that is between its reads and its writes   *)
(* is held to what it read (StagesOK), and sources only grow.              *)
(***************************************************************************)
InPipeline ==
    [at : {"idle", "done", "aborted"}]
        \cup [at : {"engines"}, scan : Scans, left : SUBSET Engines]
        \cup [at : {"groups"}, scan : Scans, todo : SUBSET Observation]
        \cup [at : {"sources"}, scan : Scans, key : Keys, todo : SUBSET Observation, group : SUBSET Observation]
        \cup [at : {"score"}, scan : Scans, key : Keys, todo : SUBSET Observation, seen : SUBSET Observation]
        \cup [at : {"rescore"}, scan : Scans, key : Keys, todo : SUBSET Observation]
        \cup [at : {"risk"}, scan : Scans, key : Keys, todo : SUBSET Observation, confidence : 0..95]
InCheck ==
    [at : {"none", "recorded"}]
        \cup [at : {"probed"}, key : Keys, result : {"FIX_VERIFIED", "VULNERABILITY_REMAINS", "INCONCLUSIVE"}]

TypesOK ==
    /\ kind \in [Keys -> Kinds] /\ observed \subseteq Observation
    /\ sources \in [Keys -> SUBSET Observation] /\ finding \in [Keys -> Row \cup {NoFinding}]
    /\ pipe \in [Runs -> InPipeline] /\ check \in [Checks -> InCheck]

\* What a run has read still bounds what it will write.
StageOK(r) ==
    /\ pipe[r].at \in {"sources", "score", "rescore", "risk"} => finding[pipe[r].key] # NoFinding
    /\ pipe[r].at = "score" => pipe[r].seen \subseteq sources[pipe[r].key]
    /\ pipe[r].at = "risk" => pipe[r].confidence <= Warranted(pipe[r].key)
StagesOK == \A r \in Runs : StageOK(r)
ChecksOK == \A v \in Checks : check[v].at = "probed" => finding[check[v].key] # NoFinding

\* NeverOverstated, finding by finding.
Supported(k) ==
    \/ k \in judged
    \/ k \in LiveKeys /\ sources[k] # {}
    \/ \E o, p \in sources[k] : o.engine # p.engine
FairRow(k) ==
    /\ finding[k].verification = "CONFIRMED" => Supported(k)
    /\ finding[k].confidence <= Warranted(k)
    /\ finding[k].risk <= Warranted(k)

FindInv == TypesOK /\ StagesOK /\ ChecksOK /\ NeverOverstated

LEMMA Fairly == NeverOverstated <=> \A k \in Keys : finding[k] # NoFinding => FairRow(k)
  BY DEF NeverOverstated, FairRow, Supported

-----------------------------------------------------------------------------
\* A report more never takes an engine away.
LEMMA EnginesGrow ==
  ASSUME NEW S \in SUBSET Observation, NEW T \in SUBSET Observation, S \subseteq T
  PROVE  /\ Cardinality(DistinctEngines(S)) \in Nat /\ Cardinality(DistinctEngines(T)) \in Nat
         /\ Cardinality(DistinctEngines(S)) <= Cardinality(DistinctEngines(T))
         /\ (Cardinality(DistinctEngines(S)) = 0) <=> (S = {})
<1>1. DistinctEngines(S) \subseteq DistinctEngines(T) /\ DistinctEngines(T) \subseteq Engines
  BY DEF DistinctEngines, Observation
<1>2. IsFiniteSet(DistinctEngines(T)) /\ IsFiniteSet(DistinctEngines(S))
  BY <1>1, FindingsAssumption, FS_Subset
<1>3. DistinctEngines(S) = {} <=> S = {}
  BY DEF DistinctEngines
<1> QED
  BY <1>1, <1>2, <1>3, FS_Subset, FS_CardinalityType, FS_EmptySet

\* Two engines are two.
LEMMA TwoEngines ==
  ASSUME NEW S \in SUBSET Observation, Cardinality(DistinctEngines(S)) >= 2
  PROVE  \E o, p \in S : o.engine # p.engine
<1> SUFFICES ASSUME \A o, p \in S : o.engine = p.engine
             PROVE  FALSE
  OBVIOUS
<1>1. S # {}
  BY EnginesGrow
<1>2. PICK o \in S : TRUE
  BY <1>1
<1>3. DistinctEngines(S) = {o.engine}
  BY <1>2 DEF DistinctEngines
<1>4. Cardinality(DistinctEngines(S)) = 1
  BY <1>3, FS_Singleton
<1> QED
  BY <1>4

LEMMA Verdict ==
  ASSUME NEW k \in Keys, NEW S \in SUBSET Observation
  PROVE  /\ ComputeVerificationStatus(k, S) \in Verdicts
         /\ ComputeVerificationStatus(k, S) = "CONFIRMED"
              <=> S # {} /\ (k \in LiveKeys \/ Cardinality(DistinctEngines(S)) >= 2)
<1>1. CASE S = {}
  BY <1>1 DEF ComputeVerificationStatus, Verdicts
<1>2. CASE S # {} /\ (k \in LiveKeys \/ Cardinality(DistinctEngines(S)) >= 2)
  BY <1>2 DEF ComputeVerificationStatus, Verdicts
<1>3. CASE S # {} /\ ~(k \in LiveKeys \/ Cardinality(DistinctEngines(S)) >= 2)
  BY <1>3 DEF ComputeVerificationStatus, Verdicts
<1> QED
  BY <1>1, <1>2, <1>3

\* The base of a score, by the number of engines.
Base(n) == CASE n = 0 -> 0 [] n = 1 -> 40 [] n = 2 -> 65 [] OTHER -> 85
LEMMA Bases ==
  ASSUME NEW n \in Nat, NEW m \in Nat, n <= m
  PROVE  Base(n) \in 0..85 /\ Base(n) <= Base(m)
<1>1. \A i \in Nat : Base(i) = IF i = 0 THEN 0 ELSE IF i = 1 THEN 40 ELSE IF i = 2 THEN 65 ELSE 85
  <2> SUFFICES ASSUME NEW i \in Nat
               PROVE  Base(i) = IF i = 0 THEN 0 ELSE IF i = 1 THEN 40 ELSE IF i = 2 THEN 65 ELSE 85
    OBVIOUS
  <2>1. CASE i = 0
    BY <2>1 DEF Base
  <2>2. CASE i = 1
    BY <2>2 DEF Base
  <2>3. CASE i = 2
    BY <2>3 DEF Base
  <2>4. CASE i > 2
    <3>1. i # 0 /\ i # 1 /\ i # 2
      BY <2>4
    <3> QED
      BY <3>1, <2>4 DEF Base
  <2> QED
    BY <2>1, <2>2, <2>3, <2>4
<1> QED
  BY <1>1

LEMMA Scores ==
  ASSUME NEW S, NEW v
  PROVE  ComputeConfidenceScore(S, v)
            = IF v = "CONFIRMED" THEN Base(Cardinality(DistinctEngines(S))) + 10
                                 ELSE Base(Cardinality(DistinctEngines(S)))
  BY DEF ComputeConfidenceScore, Base

\* More reports never lower a score.
LEMMA ScoreGrows ==
  ASSUME NEW k \in Keys, NEW S \in SUBSET Observation, NEW T \in SUBSET Observation, S \subseteq T
  PROVE  /\ ComputeConfidenceScore(S, ComputeVerificationStatus(k, S)) \in 0..95
         /\ ComputeConfidenceScore(S, ComputeVerificationStatus(k, S))
              <= ComputeConfidenceScore(T, ComputeVerificationStatus(k, T))
<1> DEFINE n == Cardinality(DistinctEngines(S))
           m == Cardinality(DistinctEngines(T))
<1>1. n \in Nat /\ m \in Nat /\ n <= m
  BY EnginesGrow
<1>2. Base(n) \in 0..85 /\ Base(m) \in 0..85 /\ Base(n) <= Base(m)
  BY <1>1, Bases
<1>3. ComputeVerificationStatus(k, S) = "CONFIRMED" => ComputeVerificationStatus(k, T) = "CONFIRMED"
  <2>1. (S # {} => T # {}) /\ (n >= 2 => m >= 2)
    BY <1>1
  <2> QED
    BY <2>1, Verdict
<1> HIDE DEF n, m
<1>4. ComputeConfidenceScore(S, ComputeVerificationStatus(k, S))
        = IF ComputeVerificationStatus(k, S) = "CONFIRMED" THEN Base(n) + 10 ELSE Base(n)
  BY Scores DEF n
<1>5. ComputeConfidenceScore(T, ComputeVerificationStatus(k, T))
        = IF ComputeVerificationStatus(k, T) = "CONFIRMED" THEN Base(m) + 10 ELSE Base(m)
  BY Scores DEF m
<1> QED
  BY <1>2, <1>3, <1>4, <1>5

LEMMA AtMost == \A a, b, c \in 0..95 : a <= b /\ b <= c => a <= c
  OBVIOUS

-----------------------------------------------------------------------------
\* Sources and judgements are only added; what a finding is does not change.
Grows ==
    /\ kind' = kind /\ sources' \in [Keys -> SUBSET Observation]
    /\ \A k \in Keys : sources[k] \subseteq sources'[k]
    /\ judged \subseteq judged'

LEMMA WarrantGrows ==
  ASSUME FindInv, Grows, NEW k \in Keys
  PROVE  Warranted(k) \in 0..95 /\ Warranted(k)' \in 0..95 /\ Warranted(k) <= Warranted(k)'
<1>1. sources[k] \in SUBSET Observation /\ sources'[k] \in SUBSET Observation /\ sources[k] \subseteq sources'[k]
  BY DEF FindInv, TypesOK, Grows
<1>2. \A S \in SUBSET Observation : /\ ComputeVerificationStatus(k, S)' = ComputeVerificationStatus(k, S)
                                    /\ \A v : ComputeConfidenceScore(S, v)' = ComputeConfidenceScore(S, v)
  BY DEF Grows, ComputeVerificationStatus, ComputeConfidenceScore, LiveKeys, DistinctEngines
<1>3. /\ Warranted(k) = ComputeConfidenceScore(sources[k], ComputeVerificationStatus(k, sources[k]))
      /\ Warranted(k)' = ComputeConfidenceScore(sources'[k], ComputeVerificationStatus(k, sources'[k]))
  BY <1>1, <1>2 DEF Warranted, Grows, ComputeVerificationStatus, ComputeConfidenceScore, LiveKeys, DistinctEngines
<1> HIDE DEF Warranted
<1> QED
  BY <1>1, <1>3, ScoreGrows

LEMMA SupportStays ==
  ASSUME FindInv, Grows, NEW k \in Keys, Supported(k)
  PROVE  Supported(k)'
<1>1. sources[k] \subseteq sources'[k] /\ judged \subseteq judged' /\ LiveKeys' = LiveKeys
  BY DEF Grows, LiveKeys
<1> QED
  BY <1>1 DEF Supported

\* A row whose scores stand, and whose verification stands or a person set, stays fair.
Stands(k) ==
    /\ finding'[k] \in Row
    /\ finding'[k].verification # finding[k].verification => k \in judged'
    /\ finding'[k].confidence = finding[k].confidence /\ finding'[k].risk = finding[k].risk
LEMMA StaysFair ==
  ASSUME FindInv, Grows, NEW k \in Keys, finding[k] # NoFinding, Stands(k)
  PROVE  FairRow(k)'
<1>1. finding[k] \in Row /\ finding'[k] \in Row
  BY DEF FindInv, TypesOK, Stands
<1>2. FairRow(k)
  BY Fairly DEF FindInv
<1>3. Warranted(k) \in 0..95 /\ Warranted(k)' \in 0..95 /\ Warranted(k) <= Warranted(k)'
  BY WarrantGrows
<1>4. finding[k].confidence \in 0..95 /\ finding[k].risk \in 0..95
  BY <1>1 DEF Row
<1>5. finding'[k].verification = "CONFIRMED" => Supported(k)'
  <2>1. CASE k \in judged'
    BY <2>1 DEF Supported
  <2>2. CASE finding'[k].verification = finding[k].verification
    BY <2>2, <1>2, SupportStays DEF FairRow
  <2> QED
    BY <2>1, <2>2 DEF Stands
<1>6. finding'[k].confidence <= Warranted(k)' /\ finding'[k].risk <= Warranted(k)'
  <2>1. finding[k].confidence <= Warranted(k) /\ finding[k].risk <= Warranted(k)
    BY <1>2 DEF FairRow
  <2>2. finding[k].confidence <= Warranted(k)' /\ finding[k].risk <= Warranted(k)'
    BY <2>1, <1>3, <1>4, AtMost, Zenon
  <2> QED
    BY <2>2 DEF Stands
<1> QED
  BY <1>5, <1>6 DEF FairRow

\* A run that does not move keeps what it has read.
LEMMA OtherStages ==
  ASSUME FindInv, Grows, NEW r \in Runs, pipe'[r] = pipe[r],
         \A k \in Keys : finding[k] # NoFinding => finding'[k] # NoFinding
  PROVE  StageOK(r)'
<1>1. pipe[r] \in InPipeline /\ StageOK(r)
  BY DEF FindInv, TypesOK, StagesOK
<1>2. pipe[r].at \in {"sources", "score", "rescore", "risk"} => pipe[r].key \in Keys
  BY <1>1 DEF InPipeline
<1>3. \A k \in Keys : pipe'[r].at = "risk" /\ pipe'[r].key = k => pipe'[r].confidence <= Warranted(k)'
  <2> SUFFICES ASSUME NEW k \in Keys, pipe[r].at = "risk", pipe[r].key = k
               PROVE  pipe[r].confidence <= Warranted(k)'
    OBVIOUS
  <2>1. pipe[r].confidence \in 0..95
    BY <1>1 DEF InPipeline
  <2>2. pipe[r].confidence <= Warranted(k)
    BY <1>1 DEF StageOK
  <2>3. Warranted(k) \in 0..95 /\ Warranted(k)' \in 0..95 /\ Warranted(k) <= Warranted(k)'
    BY WarrantGrows
  <2> QED
    BY <2>1, <2>2, <2>3, AtMost, Zenon
<1> QED
  BY <1>1, <1>2, <1>3 DEF StageOK, Grows

LEMMA QuietFair ==
  ASSUME FindInv, Grows, finding' = finding
  PROVE  \A k \in Keys : finding'[k] # NoFinding => FairRow(k)'
<1> SUFFICES ASSUME NEW k \in Keys, finding[k] # NoFinding
             PROVE  FairRow(k)'
  OBVIOUS
<1>1. Stands(k)
  BY DEF Stands, FindInv, TypesOK
<1> QED
  BY <1>1, StaysFair

\* One run moves.
LEMMA RunMoves ==
  ASSUME FindInv, Grows, NEW r \in Runs,
         pipe' \in [Runs -> InPipeline], \A q \in Runs \ {r} : pipe'[q] = pipe[q],
         observed' \subseteq Observation, finding' \in [Keys -> Row \cup {NoFinding}], check' = check,
         \A k \in Keys : finding[k] # NoFinding => finding'[k] # NoFinding,
         \A k \in Keys : finding'[k] # NoFinding => FairRow(k)',
         StageOK(r)'
  PROVE  FindInv'
<1>1. TypesOK'
  BY DEF FindInv, TypesOK, Grows
<1>2. StagesOK'
  <2> SUFFICES ASSUME NEW q \in Runs PROVE StageOK(q)'
    BY DEF StagesOK
  <2>1. CASE q = r
    BY <2>1
  <2>2. CASE q # r
    BY <2>2, OtherStages
  <2> QED
    BY <2>1, <2>2
<1>3. ChecksOK'
  <2>1. \A v \in Checks : check[v].at = "probed" => check[v].key \in Keys
    BY DEF FindInv, TypesOK, InCheck
  <2> QED
    BY <2>1 DEF FindInv, ChecksOK
<1>4. NeverOverstated'
  BY DEF NeverOverstated, FairRow, Supported
<1> QED
  BY <1>1, <1>2, <1>3, <1>4 DEF FindInv

\* What the stage of a run is made of.
LEMMA Stages ==
  ASSUME FindInv, NEW r \in Runs
  PROVE  /\ pipe[r] \in InPipeline
         /\ pipe[r].at = "engines" => pipe[r].scan \in Scans /\ pipe[r].left \subseteq Engines
         /\ pipe[r].at = "groups" => pipe[r].scan \in Scans /\ pipe[r].todo \subseteq Observation
         /\ pipe[r].at = "sources" => /\ pipe[r].scan \in Scans /\ pipe[r].key \in Keys
                                      /\ pipe[r].todo \subseteq Observation /\ pipe[r].group \subseteq Observation
                                      /\ pipe[r] \in [at : {"sources"}, scan : Scans, key : Keys,
                                                      todo : SUBSET Observation, group : SUBSET Observation]
         /\ pipe[r].at = "score" => /\ pipe[r].scan \in Scans /\ pipe[r].key \in Keys
                                    /\ pipe[r].todo \subseteq Observation /\ pipe[r].seen \subseteq Observation
         /\ pipe[r].at \in {"rescore", "risk"} => pipe[r].scan \in Scans /\ pipe[r].key \in Keys /\ pipe[r].todo \subseteq Observation
         /\ pipe[r].at = "risk" => pipe[r].confidence \in 0..95
<1>1. pipe[r] \in InPipeline
  BY DEF FindInv, TypesOK
<1> QED
  BY <1>1 DEF InPipeline

\* The steps that only move the run on.
Harmless(r) ==
    /\ UNCHANGED <<kind, sources, judged, finding, check>> /\ observed' \subseteq Observation
    /\ pipe' \in [Runs -> InPipeline] /\ \A q \in Runs \ {r} : pipe'[q] = pipe[q]
LEMMA HarmlessMoves ==
  ASSUME FindInv, NEW r \in Runs, Harmless(r), StageOK(r)'
  PROVE  FindInv'
<1>1. Grows
  BY DEF FindInv, TypesOK, Grows, Harmless
<1> QED
  BY <1>1, QuietFair, RunMoves DEF Harmless, FindInv, TypesOK

LEMMA EngineSteps ==
  ASSUME FindInv, NEW r \in Runs,
         \/ \E s \in Scans : StartPipeline(r, s)
         \/ \E e \in Engines : RunEngine(r, e)
         \/ StartCorrelation(r) \/ FinishPipeline(r) \/ AbortPipeline(r)
  PROVE  FindInv'
<1>1. CASE \E s \in Scans : StartPipeline(r, s)
  <2>1. PICK s \in Scans : StartPipeline(r, s)
    BY <1>1
  <2>2. [at |-> "engines", scan |-> s, left |-> Engines] \in InPipeline
    BY DEF InPipeline
  <2>3. Harmless(r) /\ pipe'[r].at = "engines"
    BY <2>1, <2>2 DEF StartPipeline, Harmless, FindInv, TypesOK
  <2>4. StageOK(r)'
    BY <2>3 DEF StageOK
  <2> QED
    BY <2>3, <2>4, HarmlessMoves
<1>2. CASE \E e \in Engines : RunEngine(r, e)
  <2>1. PICK e \in Engines : RunEngine(r, e)
    BY <1>2
  <2>2. pipe[r].at = "engines" /\ pipe[r] \in [at : {"engines"}, scan : Scans, left : SUBSET Engines]
    BY <2>1, Stages DEF RunEngine, InPipeline
  <2>3. /\ [pipe[r] EXCEPT !.left = @ \ {e}] \in [at : {"engines"}, scan : Scans, left : SUBSET Engines]
        /\ [pipe[r] EXCEPT !.left = @ \ {e}].at = "engines"
    BY <2>2
  <2>4. pipe' = [pipe EXCEPT ![r] = [pipe[r] EXCEPT !.left = @ \ {e}]]
    BY <2>1 DEF RunEngine
  <2>5. pipe' \in [Runs -> InPipeline] /\ (\A q \in Runs \ {r} : pipe'[q] = pipe[q]) /\ pipe'[r].at = "engines"
    BY <2>3, <2>4 DEF FindInv, TypesOK, InPipeline
  <2>6. observed' \subseteq Observation
    BY <2>1, <2>2 DEF RunEngine, FindInv, TypesOK, Observation
  <2>7. StageOK(r)'
    BY <2>5 DEF StageOK
  <2> QED
    BY <2>1, <2>5, <2>6, <2>7, HarmlessMoves DEF RunEngine, Harmless
<1>3. CASE StartCorrelation(r)
  <2>1. pipe[r].scan \in Scans /\ Uncorrelated(pipe[r].scan) \subseteq Observation
    BY <1>3, Stages DEF StartCorrelation, Uncorrelated, FindInv, TypesOK
  <2>2. [at |-> "groups", scan |-> pipe[r].scan, todo |-> Uncorrelated(pipe[r].scan)] \in InPipeline
    BY <2>1 DEF InPipeline
  <2>3. Harmless(r) /\ pipe'[r].at = "groups"
    BY <1>3, <2>2 DEF StartCorrelation, Harmless, FindInv, TypesOK
  <2>4. StageOK(r)'
    BY <2>3 DEF StageOK
  <2> QED
    BY <2>3, <2>4, HarmlessMoves
<1>4. CASE FinishPipeline(r)
  <2>2. [at |-> "done"] \in InPipeline
    BY DEF InPipeline
  <2>3. Harmless(r) /\ pipe'[r].at = "done"
    BY <1>4, <2>2 DEF FinishPipeline, Harmless, FindInv, TypesOK
  <2>4. StageOK(r)'
    BY <2>3 DEF StageOK
  <2> QED
    BY <2>3, <2>4, HarmlessMoves
<1>5. CASE AbortPipeline(r)
  <2>2. [at |-> "aborted"] \in InPipeline
    BY DEF InPipeline
  <2>3. Harmless(r) /\ pipe'[r].at = "aborted"
    BY <1>5, <2>2 DEF AbortPipeline, Harmless, FindInv, TypesOK
  <2>4. StageOK(r)'
    BY <2>3 DEF StageOK
  <2> QED
    BY <2>3, <2>4, HarmlessMoves
<1> QED
  BY <1>1, <1>2, <1>3, <1>4, <1>5

LEMMA MergeFindingStep ==
  ASSUME FindInv, NEW r \in Runs, NEW k \in Keys, MergeFinding(r, k)
  PROVE  FindInv'
<1> DEFINE group == {o \in pipe[r].todo : o.key = k}
           next == [at |-> "sources", scan |-> pipe[r].scan, key |-> k, todo |-> pipe[r].todo, group |-> group]
<1>1. pipe[r].scan \in Scans /\ pipe[r].todo \subseteq Observation
  BY Stages DEF MergeFinding
<1>2. next \in InPipeline
  BY <1>1 DEF InPipeline
<1>3. pipe' = [pipe EXCEPT ![r] = next]
  BY DEF MergeFinding
<1> HIDE DEF next
<1>4. pipe' \in [Runs -> InPipeline] /\ (\A q \in Runs \ {r} : pipe'[q] = pipe[q]) /\ pipe'[r] = next
  BY <1>2, <1>3 DEF FindInv, TypesOK
<1>5. pipe'[r].at = "sources" /\ pipe'[r].key = k
  BY <1>4 DEF next
<1>6. NewFinding \in Row /\ NewFinding # NoFinding
  BY NoFindingAssumption DEF NewFinding, Row, FindingStatus, Verdicts
<1>7. /\ finding' \in [Keys -> Row \cup {NoFinding}] /\ finding'[k] # NoFinding
      /\ \A j \in Keys : j # k \/ finding[j] # NoFinding => finding'[j] = finding[j]
      /\ finding[k] = NoFinding => finding'[k] = NewFinding
  <2>1. finding' = [finding EXCEPT ![k] = IF finding[k] = NoFinding THEN NewFinding ELSE finding[k]]
    BY DEF MergeFinding
  <2> QED
    BY <1>6, <2>1 DEF FindInv, TypesOK
<1>8. Grows /\ observed' \subseteq Observation /\ check' = check
  BY DEF MergeFinding, Grows, FindInv, TypesOK
<1>9. ASSUME NEW j \in Keys, finding'[j] # NoFinding
      PROVE  FairRow(j)'
  <2>1. CASE finding[j] # NoFinding
    <3>1. Stands(j)
      BY <2>1, <1>7 DEF Stands, FindInv, TypesOK
    <3> QED
      BY <2>1, <3>1, <1>8, StaysFair
  <2>2. CASE finding[j] = NoFinding
    <3>1. finding'[j] = NewFinding
      BY <2>2, <1>7, <1>9
    <3>2. Warranted(j)' \in 0..95
      BY <1>8, WarrantGrows
    <3>3. finding'[j].verification # "CONFIRMED" /\ finding'[j].confidence = 0 /\ finding'[j].risk = 0
      BY <3>1 DEF NewFinding
    <3>4. \A w \in 0..95 : 0 <= w
      OBVIOUS
    <3> QED
      BY <3>2, <3>3, <3>4, Zenon DEF FairRow
  <2> QED
    BY <2>1, <2>2
<1>10. StageOK(r)'
  BY <1>5, <1>7 DEF StageOK
<1> QED
  BY <1>4, <1>7, <1>8, <1>9, <1>10, RunMoves

LEMMA AddSourceStep ==
  ASSUME FindInv, NEW r \in Runs, pipe[r].at = "sources", NEW o \in pipe[r].group, AddSource(r, o)
  PROVE  FindInv'
<1> DEFINE Here == [at : {"sources"}, scan : Scans, key : Keys, todo : SUBSET Observation, group : SUBSET Observation]
<1>1. pipe[r] \in Here /\ pipe[r].key \in Keys /\ o \in Observation
  BY Stages
<1>2. pipe' = [pipe EXCEPT ![r] = [pipe[r] EXCEPT !.group = @ \ {o}, !.todo = @ \ {o}]]
  BY DEF AddSource
<1>3. /\ [pipe[r] EXCEPT !.group = @ \ {o}, !.todo = @ \ {o}] \in Here
      /\ [pipe[r] EXCEPT !.group = @ \ {o}, !.todo = @ \ {o}].at = "sources"
      /\ [pipe[r] EXCEPT !.group = @ \ {o}, !.todo = @ \ {o}].key = pipe[r].key
  BY <1>1
<1>4. Here \subseteq InPipeline
  BY DEF InPipeline
<1> HIDE DEF Here
<1>5. /\ pipe' \in [Runs -> InPipeline] /\ \A q \in Runs \ {r} : pipe'[q] = pipe[q]
      /\ pipe'[r].at = "sources" /\ pipe'[r].key = pipe[r].key
  BY <1>2, <1>3, <1>4 DEF FindInv, TypesOK
<1>6. Grows /\ observed' \subseteq Observation /\ check' = check /\ finding' = finding
  BY <1>1 DEF AddSource, Grows, FindInv, TypesOK
<1>7. StageOK(r)'
  BY <1>5, <1>6 DEF StageOK, FindInv, StagesOK
<1> QED
  BY <1>5, <1>6, <1>7, QuietFair, RunMoves DEF FindInv, TypesOK

LEMMA ReadSourcesStep ==
  ASSUME FindInv, NEW r \in Runs, ReadSources(r)
  PROVE  FindInv'
<1> DEFINE next == [at |-> "score", scan |-> pipe[r].scan, key |-> pipe[r].key,
                    todo |-> pipe[r].todo, seen |-> sources[pipe[r].key]]
<1>1. pipe[r].at = "sources" /\ pipe[r].scan \in Scans /\ pipe[r].key \in Keys /\ pipe[r].todo \subseteq Observation
  BY Stages DEF ReadSources
<1>2. sources[pipe[r].key] \subseteq Observation
  BY <1>1 DEF FindInv, TypesOK
<1>3. next \in InPipeline
  BY <1>1, <1>2 DEF InPipeline
<1>4. pipe' = [pipe EXCEPT ![r] = next]
  BY DEF ReadSources
<1>5. next.at = "score" /\ next.key = pipe[r].key /\ next.seen = sources[pipe[r].key]
  OBVIOUS
<1> HIDE DEF next
<1>6. Harmless(r) /\ pipe'[r] = next
  BY <1>3, <1>4 DEF ReadSources, Harmless, FindInv, TypesOK
<1>7. StageOK(r)'
  BY <1>1, <1>5, <1>6 DEF StageOK, Harmless, FindInv, StagesOK
<1> QED
  BY <1>6, <1>7, HarmlessMoves

LEMMA WriteScoresStep ==
  ASSUME FindInv, NEW r \in Runs, WriteScores(r)
  PROVE  FindInv'
<1> DEFINE k == pipe[r].key
           seen == pipe[r].seen
           verdict == ComputeVerificationStatus(k, seen)
           score == ComputeConfidenceScore(seen, verdict)
           next == [at |-> "rescore", scan |-> pipe[r].scan, key |-> k, todo |-> pipe[r].todo]
           row == [finding[k] EXCEPT !.verification = verdict, !.confidence = score]
<1>1. /\ pipe[r].at = "score" /\ pipe[r].scan \in Scans /\ k \in Keys
      /\ pipe[r].todo \subseteq Observation /\ seen \subseteq Observation
  BY Stages DEF WriteScores
<1>2. finding[k] # NoFinding /\ seen \subseteq sources[k]
  BY <1>1 DEF FindInv, StagesOK, StageOK
<1>3. finding[k] \in Row /\ sources[k] \subseteq Observation
  BY <1>1, <1>2 DEF FindInv, TypesOK
<1>4. next \in InPipeline
  BY <1>1 DEF InPipeline
<1>5. pipe' = [pipe EXCEPT ![r] = next]
  BY DEF WriteScores
<1>6. finding' = [finding EXCEPT ![k] = row]
  BY DEF WriteScores
<1>7. /\ verdict \in Verdicts
      /\ verdict = "CONFIRMED" <=> seen # {} /\ (k \in LiveKeys \/ Cardinality(DistinctEngines(seen)) >= 2)
  BY <1>1, Verdict
<1>8. score \in 0..95 /\ score <= Warranted(k)
  BY <1>1, <1>2, <1>3, ScoreGrows DEF Warranted
<1> DEFINE v == verdict
           c == score
<1>9. row = [finding[k] EXCEPT !.verification = v, !.confidence = c] /\ v \in Verdicts /\ c \in 0..95
  BY <1>7, <1>8
<1>10. v = "CONFIRMED" => Supported(k)
  <2> SUFFICES ASSUME v = "CONFIRMED" PROVE Supported(k)
    OBVIOUS
  <2>1. CASE k \in LiveKeys
    BY <2>1, <1>2, <1>7 DEF Supported
  <2>2. CASE Cardinality(DistinctEngines(seen)) >= 2
    <3>1. \E o, p \in seen : o.engine # p.engine
      BY <2>2, <1>1, TwoEngines
    <3> QED
      BY <3>1, <1>2 DEF Supported
  <2> QED
    BY <2>1, <2>2, <1>7
<1>11. c <= Warranted(k)
  BY <1>8
<1> HIDE DEF verdict, score, v, c
<1>12. /\ row \in Row /\ row.verification = v /\ row.confidence = c /\ row.risk = finding[k].risk
  BY <1>3, <1>9 DEF Row
<1>13. next.at = "rescore" /\ next.key = k
  OBVIOUS
<1> HIDE DEF row, next
<1>14. row # NoFinding
  BY <1>12, NoFindingAssumption
<1>15. Grows /\ observed' \subseteq Observation /\ check' = check
  BY DEF WriteScores, Grows, FindInv, TypesOK
<1>16. /\ finding' \in [Keys -> Row \cup {NoFinding}] /\ finding'[k] = row
       /\ \A j \in Keys \ {k} : finding'[j] = finding[j]
  BY <1>1, <1>6, <1>12 DEF FindInv, TypesOK
<1>17. pipe' \in [Runs -> InPipeline] /\ (\A q \in Runs \ {r} : pipe'[q] = pipe[q]) /\ pipe'[r] = next
  BY <1>4, <1>5 DEF FindInv, TypesOK
<1>18. ASSUME NEW j \in Keys, finding'[j] # NoFinding
       PROVE  FairRow(j)'
  <2>1. CASE j = k
    <3>1. Supported(j) => Supported(j)'
      BY <1>15, SupportStays
    <3>2. /\ Warranted(j) \in 0..95 /\ Warranted(j)' \in 0..95 /\ Warranted(j) <= Warranted(j)'
      BY <1>15, WarrantGrows
    <3>3. FairRow(j)
      BY <2>1, <1>2, Fairly DEF FindInv
    <3>4. /\ finding'[j].verification = v /\ finding'[j].confidence = c /\ finding'[j].risk = finding[j].risk
          /\ v = "CONFIRMED" => Supported(j)
          /\ c \in 0..95 /\ finding[j].risk \in 0..95 /\ c <= Warranted(j) /\ finding[j].risk <= Warranted(j)
      <4>1. finding[j].risk \in 0..95 /\ c \in 0..95
        BY <2>1, <1>3, <1>9 DEF Row
      <4>2. finding[j].risk <= Warranted(j)
        BY <3>3 DEF FairRow
      <4> QED
        BY <2>1, <4>1, <4>2, <1>10, <1>11, <1>12, <1>16
    <3>5. c <= Warranted(j)' /\ finding[j].risk <= Warranted(j)'
      BY <3>2, <3>4, AtMost, Zenon
    <3> QED
      BY <3>1, <3>4, <3>5 DEF FairRow
  <2>2. CASE j # k
    <3>1. finding'[j] = finding[j] /\ Stands(j) /\ finding[j] # NoFinding
      BY <2>2, <1>16, <1>18 DEF Stands, FindInv, TypesOK
    <3> QED
      BY <3>1, <1>15, StaysFair
  <2> QED
    BY <2>1, <2>2
<1>19. StageOK(r)'
  BY <1>13, <1>14, <1>16, <1>17 DEF StageOK
<1>20. \A j \in Keys : finding[j] # NoFinding => finding'[j] # NoFinding
  BY <1>14, <1>16
<1> QED
  BY <1>15, <1>16, <1>17, <1>18, <1>19, <1>20, RunMoves

LEMMA ReadFindingStep ==
  ASSUME FindInv, NEW r \in Runs, ReadFinding(r)
  PROVE  FindInv'
<1> DEFINE k == pipe[r].key
           c == finding[k].confidence
           next == [at |-> "risk", scan |-> pipe[r].scan, key |-> k, todo |-> pipe[r].todo, confidence |-> c]
<1>1. pipe[r].at = "rescore" /\ pipe[r].scan \in Scans /\ k \in Keys /\ pipe[r].todo \subseteq Observation
  BY Stages DEF ReadFinding
<1>2. finding[k] # NoFinding
  BY <1>1 DEF FindInv, StagesOK, StageOK
<1>3. c \in 0..95 /\ c <= Warranted(k)
  BY <1>1, <1>2, Fairly DEF FindInv, TypesOK, FairRow, Row
<1>4. next \in InPipeline
  BY <1>1, <1>3 DEF InPipeline
<1>5. pipe' = [pipe EXCEPT ![r] = next]
  BY DEF ReadFinding
<1>6. next.at = "risk" /\ next.key = k /\ next.confidence = c
  OBVIOUS
<1> HIDE DEF next
<1>7. Harmless(r) /\ pipe'[r] = next
  BY <1>4, <1>5 DEF ReadFinding, Harmless, FindInv, TypesOK
<1>8. Grows /\ finding' = finding
  BY <1>7 DEF Grows, Harmless, FindInv, TypesOK
<1>9. \A j \in Keys : Warranted(j)' = Warranted(j)
  BY <1>7 DEF Harmless, Warranted, ComputeVerificationStatus, ComputeConfidenceScore, LiveKeys, DistinctEngines
<1>10. StageOK(r)'
  <2>1. finding'[k] # NoFinding /\ c <= Warranted(k)
    BY <1>2, <1>3, <1>8
  <2>2. pipe'[r].at = "risk" /\ pipe'[r].key = k /\ pipe'[r].confidence = c
    BY <1>6, <1>7
  <2>3. \A j \in Keys : pipe'[r].key = j => pipe'[r].confidence <= Warranted(j)'
    BY <2>1, <2>2, <1>9
  <2> QED
    BY <2>1, <2>2, <2>3, <1>1 DEF StageOK
<1> QED
  BY <1>7, <1>10, HarmlessMoves

LEMMA WriteRiskStep ==
  ASSUME FindInv, NEW r \in Runs, WriteRisk(r)
  PROVE  FindInv'
<1> DEFINE k == pipe[r].key
           c == pipe[r].confidence
           next == [at |-> "groups", scan |-> pipe[r].scan, todo |-> pipe[r].todo]
           row == [finding[k] EXCEPT !.risk = c]
<1>1. pipe[r].at = "risk" /\ pipe[r].scan \in Scans /\ k \in Keys /\ pipe[r].todo \subseteq Observation /\ c \in 0..95
  BY Stages DEF WriteRisk
<1>2. finding[k] # NoFinding /\ c <= Warranted(k)
  BY <1>1 DEF FindInv, StagesOK, StageOK
<1>3. finding[k] \in Row
  BY <1>1, <1>2 DEF FindInv, TypesOK
<1>4. next \in InPipeline /\ next.at = "groups"
  BY <1>1 DEF InPipeline
<1>5. pipe' = [pipe EXCEPT ![r] = next] /\ finding' = [finding EXCEPT ![k] = row]
  BY DEF WriteRisk, Set
<1>6. /\ row \in Row /\ row.verification = finding[k].verification
      /\ row.confidence = finding[k].confidence /\ row.risk = c
  BY <1>1, <1>3 DEF Row
<1> HIDE DEF row, next, c
<1>7. row # NoFinding
  BY <1>6, NoFindingAssumption
<1>8. Grows /\ observed' \subseteq Observation /\ check' = check
  BY DEF WriteRisk, Grows, FindInv, TypesOK
<1>9. /\ finding' \in [Keys -> Row \cup {NoFinding}] /\ finding'[k] = row
      /\ \A j \in Keys \ {k} : finding'[j] = finding[j]
  BY <1>1, <1>5, <1>6 DEF FindInv, TypesOK
<1>10. pipe' \in [Runs -> InPipeline] /\ (\A q \in Runs \ {r} : pipe'[q] = pipe[q]) /\ pipe'[r] = next
  BY <1>4, <1>5 DEF FindInv, TypesOK
<1>11. ASSUME NEW j \in Keys, finding'[j] # NoFinding
       PROVE  FairRow(j)'
  <2>1. CASE j = k
    <3>1. Supported(j) => Supported(j)'
      BY <1>8, SupportStays
    <3>2. /\ Warranted(j) \in 0..95 /\ Warranted(j)' \in 0..95 /\ Warranted(j) <= Warranted(j)'
      BY <1>8, WarrantGrows
    <3>3. FairRow(j)
      BY <2>1, <1>2, Fairly DEF FindInv
    <3>4. finding[j].confidence \in 0..95 /\ c \in 0..95 /\ c <= Warranted(j) /\ finding[j].confidence <= Warranted(j)
      BY <2>1, <1>1, <1>2, <1>3, <3>3 DEF Row, FairRow
    <3>5. c <= Warranted(j)' /\ finding[j].confidence <= Warranted(j)'
      BY <3>2, <3>4, AtMost, Zenon
    <3>6. finding'[j].verification = finding[j].verification /\ finding'[j].confidence = finding[j].confidence /\ finding'[j].risk = c
      BY <2>1, <1>6, <1>9
    <3> QED
      BY <3>1, <3>3, <3>5, <3>6 DEF FairRow
  <2>2. CASE j # k
    <3>1. finding'[j] = finding[j] /\ Stands(j) /\ finding[j] # NoFinding
      BY <2>2, <1>9, <1>11 DEF Stands, FindInv, TypesOK
    <3> QED
      BY <3>1, <1>8, StaysFair
  <2> QED
    BY <2>1, <2>2
<1>12. StageOK(r)'
  BY <1>4, <1>10 DEF StageOK
<1>13. \A j \in Keys : finding[j] # NoFinding => finding'[j] # NoFinding
  BY <1>7, <1>9
<1> QED
  BY <1>8, <1>9, <1>10, <1>11, <1>12, <1>13, RunMoves

-----------------------------------------------------------------------------
\* People and checks: the scores stand, and no verification changes but by judgement.
LEMMA RowsStand ==
  ASSUME FindInv, UNCHANGED <<kind, observed, sources, pipe>>, judged \subseteq judged',
         finding' \in [Keys -> Row \cup {NoFinding}],
         \A k \in Keys : finding'[k] = finding[k] \/ (finding[k] # NoFinding /\ Stands(k)),
         check' \in [Checks -> InCheck], ChecksOK'
  PROVE  FindInv'
<1>1. Grows
  BY DEF FindInv, TypesOK, Grows
<1>2. TypesOK'
  BY DEF FindInv, TypesOK
<1>3. \A k \in Keys : finding[k] # NoFinding => finding'[k] # NoFinding
  BY NoFindingAssumption DEF Stands
<1>4. StagesOK'
  BY <1>1, <1>3, OtherStages DEF StagesOK
<1>5. \A k \in Keys : finding'[k] # NoFinding => FairRow(k)'
  <2> SUFFICES ASSUME NEW k \in Keys, finding'[k] # NoFinding PROVE FairRow(k)'
    OBVIOUS
  <2>1. finding[k] # NoFinding /\ Stands(k)
    BY DEF Stands, FindInv, TypesOK
  <2> QED
    BY <1>1, <2>1, StaysFair
<1>6. NeverOverstated'
  BY <1>5 DEF NeverOverstated, FairRow, Supported
<1> QED
  BY <1>2, <1>4, <1>6 DEF FindInv

\* One status changes.
LEMMA StatusMoves ==
  ASSUME FindInv, NEW k \in Keys, finding[k] # NoFinding, NEW s \in FindingStatus, Set(k, "status", s)
  PROVE  /\ finding' \in [Keys -> Row \cup {NoFinding}]
         /\ \A j \in Keys : finding'[j] = finding[j] \/ (finding[j] # NoFinding /\ Stands(j))
<1> DEFINE row == [finding[k] EXCEPT !.status = s]
<1>1. finding[k] \in Row
  BY DEF FindInv, TypesOK
<1>2. /\ row \in Row /\ row.verification = finding[k].verification
      /\ row.confidence = finding[k].confidence /\ row.risk = finding[k].risk
  BY <1>1 DEF Row
<1>3. finding' = [finding EXCEPT ![k] = row]
  BY <1>1 DEF Set, Row
<1> HIDE DEF row
<1> QED
  BY <1>2, <1>3 DEF Stands, FindInv, TypesOK

LEMMA ChecksStand ==
  ASSUME FindInv, check' = check, \A k \in Keys : finding'[k] = finding[k] \/ (finding[k] # NoFinding /\ Stands(k))
  PROVE  check' \in [Checks -> InCheck] /\ ChecksOK'
<1>1. \A v \in Checks : check[v].at = "probed" => check[v].key \in Keys
  BY DEF FindInv, TypesOK, InCheck
<1> QED
  BY <1>1, NoFindingAssumption DEF Stands, FindInv, TypesOK, ChecksOK

LEMMA JudgeSteps ==
  ASSUME FindInv, NEW k \in Keys, ConfirmFinding(k) \/ RejectFinding(k)
  PROVE  FindInv'
<1>1. PICK s \in FindingStatus, v \in Verdicts :
        finding' = [finding EXCEPT ![k].status = s, ![k].verification = v]
  BY DEF ConfirmFinding, RejectFinding, FindingStatus, Verdicts
<1> DEFINE row == [finding[k] EXCEPT !.status = s, !.verification = v]
<1>2. finding[k] # NoFinding /\ finding[k] \in Row /\ k \in judged' /\ judged \subseteq judged'
  BY DEF ConfirmFinding, RejectFinding, Decide, FindInv, TypesOK
<1>3. row \in Row /\ row.confidence = finding[k].confidence /\ row.risk = finding[k].risk
  BY <1>2 DEF Row
<1>4. finding' = [finding EXCEPT ![k] = row]
  BY <1>1, <1>2 DEF Row
<1> HIDE DEF row
<1>5. /\ finding' \in [Keys -> Row \cup {NoFinding}]
      /\ \A j \in Keys : finding'[j] = finding[j] \/ (finding[j] # NoFinding /\ Stands(j))
  BY <1>2, <1>3, <1>4 DEF Stands, FindInv, TypesOK
<1> QED
  BY <1>2, <1>5, ChecksStand, RowsStand DEF ConfirmFinding, RejectFinding

LEMMA HandleSteps ==
  ASSUME FindInv, NEW k \in Keys, HandleFinding(k)
  PROVE  FindInv'
<1>1. CASE ConfirmFinding(k) \/ RejectFinding(k)
  BY <1>1, JudgeSteps
<1>2. ASSUME NEW s \in FindingStatus, Set(k, "status", s), finding[k] # NoFinding,
             UNCHANGED <<kind, observed, sources, pipe, check, judged>>
      PROVE  FindInv'
  BY <1>2, StatusMoves, ChecksStand, RowsStand
<1>3. ASSUME UNCHANGED <<kind, observed, sources, pipe, check, judged, finding>>
      PROVE  FindInv'
  BY <1>3, ChecksStand, RowsStand DEF FindInv, TypesOK
<1>4. CASE \E status \in Moves : MoveFinding(k, status)
  BY <1>4, <1>2, FindingsAssumption DEF MoveFinding, Decide, FindingStatus, Workflow
<1>5. CASE AcceptRisk(k)
  BY <1>5, <1>2 DEF AcceptRisk, Decide, FindingStatus
<1>6. CASE \E assigned \in BOOLEAN : CreateRemediation(k, assigned)
  BY <1>6, <1>2, <1>3 DEF CreateRemediation, FindingStatus, Workflow
<1>7. CASE \E status \in {"OPEN", "IN_PROGRESS", "DONE"} : MoveRemediation(k, status)
  <2>1. PICK status \in {"OPEN", "IN_PROGRESS", "DONE"} : MoveRemediation(k, status)
    BY <1>7
  <2>2. CASE status = "OPEN"
    BY <2>1, <2>2, <1>3 DEF MoveRemediation
  <2>3. CASE status = "IN_PROGRESS"
    <3>1. Set(k, "status", "IN_REMEDIATION") /\ "IN_REMEDIATION" \in FindingStatus
      BY <2>1, <2>3 DEF MoveRemediation, FindingStatus, Workflow
    <3> QED
      BY <2>1, <3>1, <1>2 DEF MoveRemediation, Decide
  <2>4. CASE status = "DONE"
    <3>1. Set(k, "status", "READY_FOR_VERIFICATION") /\ "READY_FOR_VERIFICATION" \in FindingStatus
      BY <2>1, <2>4 DEF MoveRemediation, FindingStatus, Workflow
    <3> QED
      BY <2>1, <3>1, <1>2 DEF MoveRemediation, Decide
  <2> QED
    BY <2>2, <2>3, <2>4
<1>8. CASE TargetChanges(k)
  BY <1>8, <1>3 DEF TargetChanges
<1> QED
  BY <1>1, <1>4, <1>5, <1>6, <1>7, <1>8 DEF HandleFinding

LEMMA VerifySteps ==
  ASSUME FindInv, NEW v \in Checks, VerifyFix(v)
  PROVE  FindInv'
<1>1. CASE \E k \in Keys : ProbeFix(v, k)
  <2>1. PICK k \in Keys : ProbeFix(v, k)
    BY <1>1
  <2>2. PICK result \in {"FIX_VERIFIED", "VULNERABILITY_REMAINS", "INCONCLUSIVE"} :
          check' = [check EXCEPT ![v] = [at |-> "probed", key |-> k, result |-> result]]
    BY <2>1 DEF ProbeFix
  <2> DEFINE next == [at |-> "probed", key |-> k, result |-> result]
  <2>3. next \in InCheck /\ next.key = k
    BY DEF InCheck
  <2>4. check' = [check EXCEPT ![v] = next]
    BY <2>2
  <2> HIDE DEF next
  <2>5. check' \in [Checks -> InCheck] /\ check'[v] = next /\ \A w \in Checks \ {v} : check'[w] = check[w]
    BY <2>3, <2>4 DEF FindInv, TypesOK
  <2>6. ChecksOK'
    BY <2>1, <2>3, <2>5 DEF ProbeFix, FindInv, ChecksOK
  <2> QED
    BY <2>1, <2>5, <2>6, RowsStand DEF ProbeFix, FindInv, TypesOK
<1>2. CASE RecordVerification(v)
  <2> DEFINE next == [at |-> "recorded"]
  <2>1. next \in InCheck /\ next.at = "recorded"
    BY DEF InCheck
  <2>2. check' = [check EXCEPT ![v] = next]
    BY <1>2 DEF RecordVerification
  <2> HIDE DEF next
  <2>3. check' \in [Checks -> InCheck] /\ check'[v] = next /\ \A w \in Checks \ {v} : check'[w] = check[w]
    BY <2>1, <2>2 DEF FindInv, TypesOK
  <2>4. check[v].key \in Keys /\ finding[check[v].key] # NoFinding
    BY <1>2 DEF RecordVerification, FindInv, TypesOK, ChecksOK, InCheck
  <2>5. /\ finding' \in [Keys -> Row \cup {NoFinding}]
        /\ \A j \in Keys : finding'[j] = finding[j] \/ (finding[j] # NoFinding /\ Stands(j))
    <3>1. CASE Set(check[v].key, "status", "VERIFIED_FIXED")
      BY <3>1, <2>4, StatusMoves DEF FindingStatus
    <3>2. CASE finding' = finding
      BY <3>2 DEF FindInv, TypesOK
    <3> QED
      BY <1>2, <3>1, <3>2 DEF RecordVerification
  <2>6. ChecksOK'
    <3>1. \A w \in Checks : check[w].at = "probed" => check[w].key \in Keys
      BY DEF FindInv, TypesOK, InCheck
    <3>2. \A j \in Keys : finding[j] # NoFinding => finding'[j] # NoFinding
      BY <2>5, NoFindingAssumption DEF Stands
    <3>3. \A w \in Checks : check'[w].at = "probed" => w # v /\ check'[w] = check[w]
      BY <2>1, <2>3
    <3> QED
      BY <3>1, <3>2, <3>3 DEF FindInv, ChecksOK
  <2> QED
    BY <1>2, <2>3, <2>5, <2>6, RowsStand DEF RecordVerification
<1> QED
  BY <1>1, <1>2 DEF VerifyFix

LEMMA FindInvInit == FindingsInit => FindInv
  BY DEF FindingsInit, FindInv, TypesOK, StagesOK, StageOK, ChecksOK, NeverOverstated, InPipeline, InCheck

LEMMA FindInvStep == FindInv /\ [FindingsNext]_findVars => FindInv'
<1> SUFFICES ASSUME FindInv, [FindingsNext]_findVars
             PROVE  FindInv'
  OBVIOUS
<1>1. ASSUME NEW r \in Runs, RunPipeline(r)
      PROVE  FindInv'
  BY <1>1, EngineSteps, MergeFindingStep, AddSourceStep, ReadSourcesStep, WriteScoresStep,
     ReadFindingStep, WriteRiskStep DEF RunPipeline
<1>2. CASE UNCHANGED findVars
  BY <1>2, ChecksStand, RowsStand DEF findVars, FindInv, TypesOK
<1> QED
  BY <1>1, <1>2, HandleSteps, VerifySteps DEF FindingsNext

\* However correlations interleave, break off and are run again, a finding is
\* CONFIRMED only by two engines, a live key or a person, and its confidence
\* and risk stay within what its sources warrant (correlation.js,
\* confidence.js, verification.js).
THEOREM FindingsNeverOverstated == FindingsSpec => []NeverOverstated
<1>1. FindInv => NeverOverstated
  BY DEF FindInv
<1> QED
  BY <1>1, FindInvInit, FindInvStep, PTL DEF FindingsSpec

-----------------------------------------------------------------------------
\* What FindInv does not speak of: the remediations, the targets and people.
OthersTyped ==
    /\ remedy \in [Keys -> {"none", "OPEN", "IN_PROGRESS", "DONE"}]
    /\ present \subseteq Keys /\ judged \subseteq Keys /\ decisions \in 0..MaxDecisions

LEMMA OthersStep == OthersTyped /\ [FindingsNext]_findVars => OthersTyped'
<1> SUFFICES ASSUME OthersTyped, [FindingsNext]_findVars
             PROVE  OthersTyped'
  OBVIOUS
<1>1. CASE UNCHANGED <<remedy, present, judged, decisions>>
  BY <1>1 DEF OthersTyped
<1>2. ASSUME NEW r \in Runs, RunPipeline(r)
      PROVE  UNCHANGED <<remedy, present, judged, decisions>>
  BY <1>2 DEF RunPipeline, StartPipeline, RunEngine, StartCorrelation, MergeFinding, AddSource,
     ReadSources, WriteScores, ReadFinding, WriteRisk, FinishPipeline, AbortPipeline
<1>3. ASSUME NEW k \in Keys, HandleFinding(k)
      PROVE  OthersTyped'
  <2>1. decisions < MaxDecisions => decisions + 1 \in 0..MaxDecisions
    BY FindingsAssumption DEF OthersTyped
  <2>2. CASE \/ \E status \in Moves : MoveFinding(k, status)
             \/ ConfirmFinding(k) \/ RejectFinding(k) \/ AcceptRisk(k)
    BY <2>1, <2>2 DEF OthersTyped, MoveFinding, ConfirmFinding, RejectFinding, AcceptRisk, Decide
  <2>3. CASE \E assigned \in BOOLEAN : CreateRemediation(k, assigned)
    BY <2>3 DEF OthersTyped, CreateRemediation
  <2>4. CASE \E status \in {"OPEN", "IN_PROGRESS", "DONE"} : MoveRemediation(k, status)
    BY <2>1, <2>4 DEF OthersTyped, MoveRemediation, Decide
  <2>5. CASE TargetChanges(k)
    BY <2>1, <2>5 DEF OthersTyped, TargetChanges
  <2> QED
    BY <1>3, <2>2, <2>3, <2>4, <2>5 DEF HandleFinding
<1>4. ASSUME NEW v \in Checks, VerifyFix(v)
      PROVE  UNCHANGED <<remedy, present, judged, decisions>>
  BY <1>4 DEF VerifyFix, ProbeFix, RecordVerification
<1>5. CASE UNCHANGED findVars
  BY <1>1, <1>5 DEF findVars
<1> QED
  BY <1>1, <1>2, <1>3, <1>4, <1>5 DEF FindingsNext

\* The findings, the runs, the remediations and the checks keep their types.
THEOREM FindingsTyped == FindingsSpec => []FindingsTypeOK
<1>1. FindingsInit => OthersTyped
  BY FindingsAssumption DEF FindingsInit, OthersTyped
<1>2. FindInv /\ OthersTyped => FindingsTypeOK
  <2> SUFFICES ASSUME FindInv, OthersTyped
               PROVE  FindingsTypeOK
    OBVIOUS
  <2>1. \A r \in Runs : pipe[r] \in InPipeline
    BY DEF FindInv, TypesOK
  <2>2. \A r \in Runs : pipe[r].at \in {"idle", "engines", "groups", "sources", "score", "rescore",
                                        "risk", "done", "aborted"}
    BY <2>1 DEF InPipeline
  <2>3. \A v \in Checks : check[v].at \in {"none", "probed", "recorded"}
    BY DEF FindInv, TypesOK, InCheck
  <2> QED
    BY <2>2, <2>3 DEF FindInv, TypesOK, OthersTyped, FindingsTypeOK
<1> QED
  BY <1>1, <1>2, FindInvInit, FindInvStep, OthersStep, PTL DEF FindingsSpec

=============================================================================
