----------------------------- MODULE MCClients -----------------------------
(***************************************************************************)
(* The parts of the desktop shell, of the pages and of the sessions they   *)
(* hold with the server that keep state of their own and share none of it. *)
(* They are checked together as a disjoint union: side says which part a   *)
(* behaviour is about, and the state of the others stays as it was.        *)
(***************************************************************************)
EXTENDS DeviceSession, AppMode, LocalModel, AppUpdate, Generation, ConsultChat,
        Meeting, CyberPages, LoginFlow, PasskeyLogin, VoiceTurns, TLC

CONSTANT Sides      \* the parts looked at
ASSUME SidesAssumption ==
    Sides \subseteq {"session", "mode", "model", "update", "generation", "chat", "meeting",
                     "wizard", "console", "login", "passkey", "voice"}

VARIABLE side

ClientsInit ==
    /\ side \in Sides
    /\ SessionInit /\ ModeInit /\ ModelInit /\ UpdateInit
    /\ GenInit /\ ChatInit /\ MeetInit /\ WizardInit
    /\ ConsoleInit /\ LoginInit /\ PasskeyInit /\ VoiceInit
    \* The parts that are not looked at start in one of their initial states.
    /\ side = "mode" \/ (~mac /\ mode = "auto" /\ preference = "auto" /\ session = "none")
    /\ side = "model" \/ ~android
    /\ side = "update" \/ ~phone

ClientsNext ==
    /\ UNCHANGED side
    /\ \/ /\ side = "session" /\ SessionNext
          /\ UNCHANGED <<modeVars, modelVars, updateVars, genVars, chatVars, meetVars,
                         wizardVars, consoleVars, loginVars, passkeyVars, voiceVars>>
       \/ /\ side = "mode" /\ ModeNext
          /\ UNCHANGED <<sessionVars, modelVars, updateVars, genVars, chatVars, meetVars,
                         wizardVars, consoleVars, loginVars, passkeyVars, voiceVars>>
       \/ /\ side = "model" /\ ModelNext
          /\ UNCHANGED <<sessionVars, modeVars, updateVars, genVars, chatVars, meetVars,
                         wizardVars, consoleVars, loginVars, passkeyVars, voiceVars>>
       \/ /\ side = "update" /\ UpdateNext
          /\ UNCHANGED <<sessionVars, modeVars, modelVars, genVars, chatVars, meetVars,
                         wizardVars, consoleVars, loginVars, passkeyVars, voiceVars>>
       \/ /\ side = "generation" /\ GenNext
          /\ UNCHANGED <<sessionVars, modeVars, modelVars, updateVars, chatVars, meetVars,
                         wizardVars, consoleVars, loginVars, passkeyVars, voiceVars>>
       \/ /\ side = "chat" /\ ChatNext
          /\ UNCHANGED <<sessionVars, modeVars, modelVars, updateVars, genVars, meetVars,
                         wizardVars, consoleVars, loginVars, passkeyVars, voiceVars>>
       \/ /\ side = "meeting" /\ MeetNext
          /\ UNCHANGED <<sessionVars, modeVars, modelVars, updateVars, genVars, chatVars,
                         wizardVars, consoleVars, loginVars, passkeyVars, voiceVars>>
       \/ /\ side = "wizard" /\ WizardNext
          /\ UNCHANGED <<sessionVars, modeVars, modelVars, updateVars, genVars, chatVars,
                         meetVars, consoleVars, loginVars, passkeyVars, voiceVars>>
       \/ /\ side = "console" /\ ConsoleNext
          /\ UNCHANGED <<sessionVars, modeVars, modelVars, updateVars, genVars, chatVars,
                         meetVars, wizardVars, loginVars, passkeyVars, voiceVars>>
       \/ /\ side = "login" /\ LoginNext
          /\ UNCHANGED <<sessionVars, modeVars, modelVars, updateVars, genVars, chatVars,
                         meetVars, wizardVars, consoleVars, passkeyVars, voiceVars>>
       \/ /\ side = "passkey" /\ PasskeyNext
          /\ UNCHANGED <<sessionVars, modeVars, modelVars, updateVars, genVars, chatVars,
                         meetVars, wizardVars, consoleVars, loginVars, voiceVars>>
       \/ /\ side = "voice" /\ VoiceNext
          /\ UNCHANGED <<sessionVars, modeVars, modelVars, updateVars, genVars, chatVars,
                         meetVars, wizardVars, consoleVars, loginVars, passkeyVars>>

ClientsVars ==
    <<side, sessionVars, modeVars, modelVars, updateVars, genVars, chatVars, meetVars, wizardVars,
      consoleVars, loginVars, passkeyVars, voiceVars>>
ClientsSpec == ClientsInit /\ [][ClientsNext]_ClientsVars

-----------------------------------------------------------------------------
\* Where a part has two accounts, logins, downloads, calls and so on, they may change places.  A
\* behaviour is about one part and the others do not move, so all of them change at once.
Pairs == {Accounts, Logins, Reconciles, Downloads, Calls, Exchanges, Owned, Clients, Challenges,
          Polls, Ears}
Other(x) == CHOOSE y \in UNION Pairs : y # x /\ \E pair \in Pairs : {x, y} \subseteq pair
Symmetry == {[x \in UNION Pairs |-> IF moved THEN Other(x) ELSE x] : moved \in BOOLEAN}

\* Every part keeps its types while the behaviour is about it (the others do not move), and the
\* failures counted for a login stay within the limit and the requests that passed it together
\* (loginThrottle.ts).
ClientsTypeOK ==
    CASE side = "session"    -> SessionTypeOK
      [] side = "mode"       -> ModeTypeOK
      [] side = "model"      -> ModelTypeOK
      [] side = "update"     -> UpdateTypeOK
      [] side = "generation" -> GenTypeOK
      [] side = "chat"       -> ChatTypeOK
      [] side = "meeting"    -> MeetTypeOK
      [] side = "wizard"     -> WizardTypeOK
      [] side = "console"    -> ConsoleTypeOK
      [] side = "login"      -> LoginTypeOK
      [] side = "passkey"    -> PasskeyTypeOK /\ FailuresBounded
      [] side = "voice"      -> VoiceTypeOK

=============================================================================
