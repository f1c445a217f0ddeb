-------------------------- MODULE MCServerProcess --------------------------
(***************************************************************************)
(* The parts of the server and of the cyber control plane that serve       *)
(* requests one beside the other, as a disjoint union: side says which part*)
(* a behaviour is about, and the state of the others stays as it was.      *)
(***************************************************************************)
EXTENDS Findings, BciGateway, Accounts, RangeProxy, ResourceGates, HardwareJobs,
        Presence, TLC

CONSTANT Sides      \* the parts looked at
ASSUME SidesAssumption ==
    Sides \subseteq {"findings", "gateway", "accounts", "ranges", "gates", "hardware", "presence"}

VARIABLE side

ServerInit ==
    /\ side \in Sides
    /\ FindingsInit /\ GatewayInit /\ AccountsInit /\ RangeInit
    /\ GatesInit /\ HwInit /\ PresenceInit
    \* The parts that are not looked at start in one of their initial states.
    /\ side = "findings" \/ (present = {} /\ \A k \in Keys : kind[k] = "live")
    /\ side = "gateway" \/ role = "analyst"

ServerNext ==
    /\ UNCHANGED side
    /\ \/ /\ side = "findings" /\ FindingsNext
          /\ UNCHANGED <<gatewayVars, accountVars, rangeVars, gatesVars, hwVars, presenceVars>>
       \/ /\ side = "gateway" /\ GatewayNext
          /\ UNCHANGED <<findVars, accountVars, rangeVars, gatesVars, hwVars, presenceVars>>
       \/ /\ side = "accounts" /\ AccountsNext
          /\ UNCHANGED <<findVars, gatewayVars, rangeVars, gatesVars, hwVars, presenceVars>>
       \/ /\ side = "ranges" /\ RangeNext
          /\ UNCHANGED <<findVars, gatewayVars, accountVars, gatesVars, hwVars, presenceVars>>
       \/ /\ side = "gates" /\ GatesNext
          /\ UNCHANGED <<findVars, gatewayVars, accountVars, rangeVars, hwVars, presenceVars>>
       \/ /\ side = "hardware" /\ HwNext
          /\ UNCHANGED <<findVars, gatewayVars, accountVars, rangeVars, gatesVars, presenceVars>>
       \/ /\ side = "presence" /\ PresenceNext
          /\ UNCHANGED <<findVars, gatewayVars, accountVars, rangeVars, gatesVars, hwVars>>

ServerVars == <<side, findVars, gatewayVars, accountVars, rangeVars, gatesVars, hwVars, presenceVars>>
ServerSpec == ServerInit /\ [][ServerNext]_ServerVars

\* The pipelines of the findings may change places, and so may their engines; with them the
\* connections, the calls of the gateway and the hardware workers and jobs, of which a behaviour
\* moves only those of its part.
Other(x, pairs) == CHOOSE y \in UNION pairs : y # x /\ \E pair \in pairs : {x, y} \subseteq pair
Exchange(pairs) ==
    {[x \in UNION pairs |-> IF moved THEN Other(x, pairs) ELSE x] : moved \in BOOLEAN}
Symmetry ==
    Exchange({Runs, Sockets, BciCalls, HwWorkers}) \union Exchange({Engines, HwJobs})

-----------------------------------------------------------------------------
\* Every part keeps its types while the behaviour is about it (the others do not move), and the
\* ranges of a download that are read ahead stay within the window the code sets itself
\* (version.js).
ServerTypeOK ==
    CASE side = "findings" -> FindingsTypeOK
      [] side = "gateway"  -> GatewayTypeOK
      [] side = "accounts" -> AccountsTypeOK
      [] side = "ranges"   -> RangeTypeOK /\ RangesBounded
      [] side = "gates"    -> GatesTypeOK
      [] side = "hardware" -> HwTypeOK
      [] side = "presence" -> PresenceTypeOK

=============================================================================
