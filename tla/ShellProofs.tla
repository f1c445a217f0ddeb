--------------------------- MODULE ShellProofs ---------------------------
(***************************************************************************)
(* The shell and the pages: proofs about the voice assistant, the mode and *)
(* its timers, updates, the consultation chat, the model file of the local *)
(* AI and the cyber pages, their types included, for every number of       *)
(* recognizers, reconciliations, versions, providers, downloads, blocks,   *)
(* assets and classes.                                                     *)
(***************************************************************************)
EXTENDS VoiceTurns, AppMode, AppUpdate, ConsultChat, LocalModel, CyberPages, FiniteSetTheorems, WellFoundedInduction, TLAPS

-----------------------------------------------------------------------------
(***************************************************************************)
(* The voice: what the button and the window show as under way is under    *)
(* way, in whatever order the browser reports. VoiceInv adds that a window *)
(* that is gone shows nothing.                                             *)
(***************************************************************************)
\* A window that is gone, or not there yet, shows nothing.
ShownInWindow == chat.window # "open" => chat.phase = "idle"
VoiceInv == VoiceTypeOK /\ VoiceHonest /\ ShownInWindow

AssistantType == [on : BOOLEAN, status : VoiceStatuses \ {"thinking"}, mic : Ears \union {NoEar},
                  timer : {"none", "restart", "pause"}, warms : BOOLEAN]
ChatType == [window : {"unopened", "open", "closed"}, phase : VoiceStatuses \union {"paused"},
             mic : Ears \union {NoEar}, timer : BOOLEAN, starts : 0..MaxStarts, auto : BOOLEAN]
EarType == [by : {"nobody", "assistant", "chat"}, at : {"free", "live", "stopping", "aborting", "ending"}]
VoiceType == [by : {"nobody", "assistant", "chat"}, at : {"free", "due", "cut", "late"}]

LEMMA VoiceTypes ==
  /\ VoiceTypeOK <=> /\ assistant \in AssistantType /\ chat \in ChatType /\ ears \in [Ears -> EarType]
                     /\ voices \in [Voices -> VoiceType] /\ turns \subseteq Turns
  /\ VoiceTypeOK' <=> /\ assistant' \in AssistantType /\ chat' \in ChatType /\ ears' \in [Ears -> EarType]
                      /\ voices' \in [Voices -> VoiceType] /\ turns' \subseteq Turns
  BY DEF VoiceTypeOK, AssistantType, ChatType, EarType, VoiceType

\* What the helpers of the assistant leave it with.
Presents(a, on, status, mic) == a \in AssistantType /\ a.on = on /\ a.status = status /\ a.mic = mic

LEMMA Assistants ==
  ASSUME NEW a \in AssistantType
  PROVE  /\ Presents(Idling(a), a.on, "idle", a.mic)
         /\ Presents(Paused(a), a.on, a.status, NoEar)
         /\ Presents(Resumed(a), a.on, a.status, a.mic)
         /\ Presents(Switched(a), a.on, "idle", NoEar)
         /\ Presents([a EXCEPT !.mic = NoEar], a.on, a.status, NoEar)
<1> USE DEF Presents, AssistantType, VoiceStatuses
<1>1. Presents(Idling(a), a.on, "idle", a.mic)
  BY DEF Idling, Restarting
<1>2. Presents(Paused(a), a.on, a.status, NoEar)
  BY DEF Paused
<1>3. Presents(Resumed(a), a.on, a.status, a.mic)
  BY DEF Resumed
<1>4. Presents(Switched(a), a.on, "idle", NoEar)
  BY DEF Switched
<1>5. Presents([a EXCEPT !.mic = NoEar], a.on, a.status, NoEar)
  OBVIOUS
<1> QED
  BY <1>1, <1>2, <1>3, <1>4, <1>5

LEMMA Phases ==
  ASSUME NEW c \in ChatType, NEW p \in VoiceStatuses \union {"paused"}
  PROVE  /\ InPhase(c, p) \in ChatType /\ InPhase(c, p).window = c.window
         /\ InPhase(c, p).phase = IF c.window = "open" THEN p ELSE c.phase
         /\ InPhase(c, p).mic = c.mic /\ InPhase(c, p).starts = c.starts
  BY DEF InPhase, ChatType

\* No recognizer opens and each is whose it was; no utterance somebody waits for is lost.
SameEars ==
    /\ ears' \in [Ears -> EarType]
    /\ \A e \in Ears : ears'[e].by = ears[e].by /\ (ears'[e].at = "live" => ears[e].at = "live")
SameVoices ==
    /\ voices' \in [Voices -> VoiceType]
    /\ Utters("assistant") => Utters("assistant")'
    /\ Utters("chat") => Utters("chat")'

LEMMA AbortedKeeps ==
  ASSUME ears \in [Ears -> EarType], NEW m \in Ears \cup {NoEar}
  PROVE  /\ Aborted(m) \in [Ears -> EarType]
         /\ \A e \in Ears : /\ Aborted(m)[e].by = ears[e].by
                            /\ Aborted(m)[e].at = "live" => ears[e].at = "live" /\ m # e
  BY VoiceAssumption DEF Aborted, Open, EarType

LEMMA CancelledKeeps ==
  ASSUME voices \in [Voices -> VoiceType]
  PROVE  /\ Cancelled \in [Voices -> VoiceType]
         /\ \A v \in Voices, who \in {"assistant", "chat"} :
              voices[v] \in {By(who, "due"), By(who, "cut")} => Cancelled[v] = By(who, "cut")
         /\ \A v \in Voices : voices[v] = Silent => Cancelled[v] = Silent
  BY DEF Cancelled, By, Silent, VoiceType

LEMMA VoicesKept ==
  ASSUME voices \in [Voices -> VoiceType], voices' \in {voices, Cancelled}
  PROVE  SameVoices
<1>1. CASE voices' = voices
  BY <1>1 DEF SameVoices, Utters
<1>2. CASE voices' = Cancelled
  BY <1>2, CancelledKeeps DEF SameVoices, Utters
<1> QED
  BY <1>1, <1>2

\* Steps after which nothing is shown that was not shown before.
LEMMA NothingNewShown ==
  ASSUME VoiceInv, SameEars, SameVoices, turns' = turns \/ chat'.phase = "idle", turns' \subseteq Turns,
         assistant' \in AssistantType, assistant'.status \in {"idle", assistant.status},
         chat' \in ChatType, chat'.phase \in {"idle", "paused", chat.phase},
         chat'.window # "open" => chat'.phase = "idle",
         \A e \in Ears : ears'[e] = By("assistant", "live") => assistant'.on /\ assistant'.mic = e
  PROVE  VoiceInv'
<1>1. \A w \in {"assistant", "chat"} : Recognizes(w) => Recognizes(w)'
  BY DEF SameEars, Recognizes
<1>2. /\ assistant'.status = "listening" => Recognizes("assistant")'
      /\ assistant'.status = "speaking" => Utters("assistant")'
      /\ chat'.phase = "listening" => Recognizes("chat")'
      /\ chat'.phase = "thinking" => turns' # {}
      /\ chat'.phase = "speaking" => Utters("chat")'
  BY <1>1 DEF SameVoices, VoiceInv, VoiceHonest
<1>3. VoiceTypeOK'
  BY VoiceTypes DEF SameEars, SameVoices
<1> QED
  BY <1>2, <1>3 DEF VoiceInv, VoiceHonest, ShownInWindow, By

\* Nobody but the assistant's own recognizer is open for it.
LEMMA OwnEar ==
  ASSUME VoiceInv, SameEars, assistant'.on = assistant.on, assistant'.mic = assistant.mic
  PROVE  \A e \in Ears : ears'[e] = By("assistant", "live") => assistant'.on /\ assistant'.mic = e
  BY DEF VoiceInv, VoiceHonest, VoiceTypeOK, SameEars, By

LEMMA EarAborted ==
  ASSUME VoiceInv, ears' = Aborted(assistant.mic)
  PROVE  SameEars /\ \A e \in Ears : ears'[e] # By("assistant", "live")
<1>1. ears \in [Ears -> EarType] /\ assistant.mic \in Ears \cup {NoEar}
  BY VoiceTypes DEF VoiceInv, AssistantType
<1>2. SameEars
  BY <1>1, AbortedKeeps DEF SameEars
<1>3. ASSUME NEW e \in Ears, ears'[e] = By("assistant", "live")
      PROVE  FALSE
  <2>1. ears[e].by = "assistant" /\ ears[e].at = "live" /\ assistant.mic # e
    BY <1>1, <1>3, AbortedKeeps DEF By
  <2>2. ears[e] = By("assistant", "live")
    BY <1>1, <2>1 DEF EarType, By
  <2> QED
    BY <2>1, <2>2 DEF VoiceInv, VoiceHonest
<1> QED
  BY <1>2, <1>3

LEMMA EarsUnchanged ==
  ASSUME VoiceInv, ears' = ears
  PROVE  SameEars
  BY VoiceTypes DEF VoiceInv, SameEars

LEMMA SwitchSteps ==
  ASSUME VoiceInv, Toggle \/ WarmUpEnds \/ ChangeLanguage
  PROVE  VoiceInv'
<1> USE VoiceTypes DEF VoiceInv
<1>0. voices' \in {voices, Cancelled} /\ SameVoices /\ chat' = chat /\ turns' = turns
  BY VoicesKept DEF Toggle, WarmUpEnds, ChangeLanguage
<1>1. CASE Toggle
  <2>1. [assistant EXCEPT !.on = ~@, !.warms = @ \/ ~assistant.on] \in AssistantType
    BY DEF AssistantType
  <2>2. assistant' \in AssistantType /\ assistant'.status = "idle"
    BY <1>1, <2>1, Assistants DEF Toggle, Presents
  <2> QED
    BY <1>0, <1>1, <2>2, EarAborted, NothingNewShown DEF Toggle, ShownInWindow
<1>2. CASE WarmUpEnds
  <2>1. assistant' \in AssistantType /\ assistant'.status = assistant.status
        /\ assistant'.on = assistant.on /\ assistant'.mic = assistant.mic
    BY <1>2 DEF WarmUpEnds, AssistantType
  <2>2. SameEars
    BY <1>2, EarsUnchanged DEF WarmUpEnds
  <2> QED
    BY <1>0, <2>1, <2>2, OwnEar, NothingNewShown DEF ShownInWindow
<1>3. CASE ChangeLanguage
  <2>1. assistant' \in AssistantType /\ assistant'.status = "idle"
    BY <1>3, Assistants DEF ChangeLanguage, Presents
  <2> QED
    BY <1>0, <1>3, <2>1, EarAborted, NothingNewShown DEF ChangeLanguage, ShownInWindow
<1> QED
  BY <1>1, <1>2, <1>3

LEMMA TimerSteps ==
  ASSUME VoiceInv, StartThrows \/ TimerIdles \/ PauseEnds
  PROVE  VoiceInv'
<1> USE VoiceTypes DEF VoiceInv
<1>0. voices' = voices /\ SameVoices /\ chat' = chat /\ turns' = turns
  BY VoicesKept DEF StartThrows, TimerIdles, PauseEnds
<1>1. CASE StartThrows
  <2>1. assistant' \in AssistantType /\ assistant'.status = assistant.status
    BY <1>1, Assistants DEF StartThrows, Presents
  <2> QED
    BY <1>0, <1>1, <2>1, EarAborted, NothingNewShown DEF StartThrows, ShownInWindow
<1>2. CASE TimerIdles \/ PauseEnds
  <2>1. assistant' \in AssistantType /\ assistant'.status \in {"idle", assistant.status}
        /\ assistant'.on = assistant.on /\ assistant'.mic = assistant.mic
    <3>1. CASE TimerIdles
      BY <3>1 DEF TimerIdles, AssistantType
    <3>2. CASE PauseEnds
      BY <3>2, Assistants DEF PauseEnds, Presents
    <3> QED
      BY <1>2, <3>1, <3>2
  <2>2. SameEars
    BY <1>2, EarsUnchanged DEF TimerIdles, PauseEnds
  <2> QED
    BY <1>0, <2>1, <2>2, OwnEar, NothingNewShown DEF ShownInWindow
<1> QED
  BY <1>1, <1>2

LEMMA StartMicStep ==
  ASSUME VoiceInv, NEW e \in Ears, StartMic(e)
  PROVE  VoiceInv'
<1> USE VoiceTypes DEF VoiceInv
<1> DEFINE rest == Aborted(assistant.mic)
<1>1. /\ rest \in [Ears -> EarType] /\ \A x \in Ears : rest[x].by = ears[x].by
      /\ \A x \in Ears : rest[x].at = "live" => ears[x].at = "live" /\ assistant.mic # x
  BY AbortedKeeps DEF AssistantType
<1>2. By("assistant", "live") \in EarType /\ By("assistant", "live").by = "assistant"
      /\ By("assistant", "live").at = "live"
  BY DEF By, EarType
<1>3. /\ ears' \in [Ears -> EarType] /\ ears'[e] = By("assistant", "live")
      /\ \A x \in Ears \ {e} : ears'[x] = rest[x]
  BY <1>1, <1>2 DEF StartMic
<1>4. Presents(assistant', assistant.on, "listening", e) /\ assistant.on
  BY DEF StartMic, MayStart, Presents, AssistantType, VoiceStatuses
<1>5. ears[e].by = "nobody"
  BY DEF StartMic, Silent
<1>6. \A x \in Ears : ears'[x] = By("assistant", "live") => x = e
  <2> SUFFICES ASSUME NEW x \in Ears, ears'[x] = By("assistant", "live"), x # e
               PROVE  FALSE
    OBVIOUS
  <2>1. ears[x].by = "assistant" /\ ears[x].at = "live" /\ assistant.mic # x
    BY <1>1, <1>2, <1>3
  <2>2. ears[x] = By("assistant", "live")
    BY <2>1 DEF EarType, By
  <2> QED
    BY <2>1, <2>2 DEF VoiceHonest
<1>7. Recognizes("assistant")' /\ (Recognizes("chat") => Recognizes("chat")')
  BY <1>1, <1>2, <1>3, <1>5 DEF Recognizes
<1>8. voices' = voices /\ chat' = chat /\ turns' = turns /\ (Utters("chat") => Utters("chat")')
  BY DEF StartMic, Utters
<1>9. VoiceTypeOK'
  BY <1>3, <1>4, <1>8 DEF Presents
<1> QED
  BY <1>4, <1>6, <1>7, <1>8, <1>9 DEF VoiceHonest, ShownInWindow, Presents

LEMMA HearCommandStep ==
  ASSUME VoiceInv, NEW e \in Ears, NEW b \in BOOLEAN, HearCommand(e, b)
  PROVE  VoiceInv'
<1> USE VoiceTypes DEF VoiceInv
<1> DEFINE heard == [assistant EXCEPT !.mic = NoEar]
<1>1. /\ Presents(heard, assistant.on, assistant.status, NoEar) /\ heard \in AssistantType
      /\ Idling(heard).status = "idle" /\ Idling(heard) \in AssistantType
      /\ Switched(heard).status = "idle" /\ Switched(heard) \in AssistantType
  BY Assistants DEF Presents
<1>2. chat' = chat /\ turns' = turns /\ SameEars /\ \A x \in Ears : ears'[x] # By("assistant", "live")
  <2>1. /\ ears' \in [Ears -> EarType] /\ \A x \in Ears : ears'[x].by = ears[x].by
        /\ ears'[e].at = "ending" /\ \A x \in Ears \ {e} : ears'[x] = ears[x]
    BY DEF HearCommand, EarType
  <2>2. assistant.mic = e
    BY DEF HearCommand, VoiceHonest
  <2> QED
    BY <2>1, <2>2 DEF HearCommand, SameEars, VoiceHonest, By
<1>3. CASE assistant' = Idling(heard) /\ voices' = voices
  BY <1>1, <1>2, <1>3, VoicesKept, NothingNewShown DEF ShownInWindow
<1>4. ASSUME NEW v \in Voices, voices[v] = Silent,
             voices' = [voices EXCEPT ![v] = By("assistant", "due")]
      PROVE  SameVoices /\ Utters("assistant")'
  BY <1>4 DEF SameVoices, Utters, VoiceType, By, Silent
<1>5. CASE SameVoices /\ assistant' = Switched(heard)
  BY <1>1, <1>2, <1>5, NothingNewShown DEF ShownInWindow
<1>6. CASE SameVoices /\ Utters("assistant")' /\ assistant' = [heard EXCEPT !.status = "speaking"]
  <2>1. assistant' \in AssistantType /\ assistant'.status = "speaking"
    BY <1>1, <1>6 DEF AssistantType, VoiceStatuses
  <2>2. VoiceTypeOK'
    BY <1>2, <1>6, <2>1 DEF SameEars, SameVoices
  <2>3. Recognizes("chat") => Recognizes("chat")'
    BY <1>2 DEF SameEars, Recognizes
  <2> QED
    BY <1>2, <1>6, <2>1, <2>2, <2>3 DEF SameVoices, VoiceHonest, ShownInWindow
<1> QED
  BY <1>3, <1>4, <1>5, <1>6 DEF HearCommand

LEMMA ListenStep ==
  ASSUME VoiceInv, Listen
  PROVE  VoiceInv'
<1> USE VoiceTypes DEF VoiceInv
<1>1. chat' \in ChatType /\ chat'.phase = chat.phase /\ chat'.window = chat.window
  <2>1. chat.starts + 1 \in 0..MaxStarts
    BY VoiceAssumption DEF Listen, ChatType
  <2> QED
    BY <2>1 DEF Listen, ChatType
<1>2. assistant' \in AssistantType /\ assistant'.status = assistant.status
  BY Assistants DEF Listen, Presents
<1>3. \A m \in Ears : /\ Aborted(m) \in [Ears -> EarType] /\ Aborted(m)[m].by = ears[m].by
                      /\ Aborted(m)[m].at # "live"
  BY AbortedKeeps DEF AssistantType
<1>4. SameEars /\ \A e \in Ears : ears'[e] # By("assistant", "live")
  <2>1. \A e \in Ears : ears'[e] = IF e \in {assistant.mic, chat.mic} THEN Aborted(e)[e] ELSE ears[e]
    BY DEF Listen
  <2>2. ears' \in [Ears -> EarType]
    BY <1>3 DEF Listen
  <2> QED
    BY <1>3, <2>1, <2>2 DEF SameEars, VoiceHonest, By
<1> QED
  BY <1>1, <1>2, <1>4, VoicesKept, NothingNewShown DEF Listen, ShownInWindow

LEMMA ClickMicStep ==
  ASSUME VoiceInv, ClickMic
  PROVE  VoiceInv'
<1> USE VoiceTypes DEF VoiceInv
<1>1. CASE Listen
  BY <1>1, ListenStep
<1>2. CASE /\ chat.mic # NoEar /\ ears[chat.mic].at = "live"
           /\ ears' = [ears EXCEPT ![chat.mic].at = "stopping"]
           /\ UNCHANGED <<assistant, chat, voices, turns>>
  <2>1. chat.mic \in Ears
    BY <1>2 DEF ChatType
  <2>2. SameEars
    BY <1>2, <2>1 DEF SameEars, EarType
  <2> QED
    BY <1>2, <2>2, OwnEar, VoicesKept, NothingNewShown DEF ShownInWindow
<1>3. CASE /\ chat.window = "open" /\ voices' = Cancelled
           /\ chat' = [chat EXCEPT !.timer = FALSE, !.phase = "paused"]
           /\ UNCHANGED <<assistant, ears, turns>>
  <2>1. chat' \in ChatType /\ chat'.phase = "paused" /\ chat'.window = "open"
    BY <1>3 DEF ChatType
  <2> QED
    BY <1>3, <2>1, OwnEar, EarsUnchanged, VoicesKept, NothingNewShown
<1> QED
  BY <1>1, <1>2, <1>3 DEF ClickMic

LEMMA WindowSteps ==
  ASSUME VoiceInv, OpenChat \/ ToggleAuto
  PROVE  VoiceInv'
<1> USE VoiceTypes DEF VoiceInv
<1>1. chat' \in ChatType /\ chat'.phase = chat.phase /\ (chat'.window # "open" => chat'.phase = "idle")
  BY DEF OpenChat, ToggleAuto, ChatType, ShownInWindow
<1> QED
  BY <1>1, OwnEar, EarsUnchanged, VoicesKept, NothingNewShown DEF OpenChat, ToggleAuto

LEMMA StartEarStep ==
  ASSUME VoiceInv, StartEar
  PROVE  VoiceInv'
<1> USE VoiceTypes DEF VoiceInv
<1>0. chat.starts - 1 \in 0..MaxStarts /\ voices' = voices /\ turns' = turns
  <2>1. chat.starts \in 0..MaxStarts /\ chat.starts > 0 /\ voices' = voices /\ turns' = turns
    BY DEF StartEar, ChatType
  <2>2. chat.starts - 1 \in 0..MaxStarts
    BY <2>1, VoiceAssumption
  <2> QED
    BY <2>1, <2>2
<1>1. ASSUME NEW e \in Ears, ears[e] = Silent, ears' = [ears EXCEPT ![e] = By("chat", "live")],
             chat' = [InPhase(chat, "listening") EXCEPT !.mic = e, !.starts = @ - 1],
             assistant' = assistant
      PROVE  VoiceInv'
  <2>1. /\ chat' \in ChatType /\ chat'.window = chat.window
        /\ chat'.phase = IF chat.window = "open" THEN "listening" ELSE chat.phase
    <3> DEFINE c == InPhase(chat, "listening")
    <3>1. /\ c \in ChatType /\ c.starts = chat.starts /\ c.window = chat.window
          /\ c.phase = IF chat.window = "open" THEN "listening" ELSE chat.phase
      BY Phases DEF VoiceStatuses
    <3>2. chat' = [c EXCEPT !.mic = e, !.starts = chat.starts - 1]
      BY <1>1, <3>1
    <3> HIDE DEF c
    <3> QED
      BY <1>0, <3>1, <3>2 DEF ChatType
  <2>2. /\ ears' \in [Ears -> EarType] /\ ears'[e].by = "chat" /\ \A x \in Ears \ {e} : ears'[x] = ears[x]
    BY <1>1 DEF EarType, By
  <2>3. Recognizes("chat")' /\ (Recognizes("assistant") => Recognizes("assistant")')
    BY <1>1, <2>2 DEF Recognizes, Silent
  <2>4. VoiceTypeOK'
    BY <1>0, <1>1, <2>1, <2>2
  <2>5. \A x \in Ears : ears'[x] = By("assistant", "live") => assistant'.on /\ assistant'.mic = x
    BY <1>1, <2>2 DEF VoiceHonest, By
  <2> QED
    BY <1>0, <1>1, <2>1, <2>3, <2>4, <2>5 DEF VoiceHonest, ShownInWindow, Utters
<1>2. CASE /\ chat' = [InPhase(chat, "idle") EXCEPT !.starts = @ - 1]
           /\ assistant' = Resumed(assistant) /\ ears' = ears
  <2>1. /\ InPhase(chat, "idle") \in ChatType /\ InPhase(chat, "idle").window = chat.window
        /\ InPhase(chat, "idle").phase = "idle" /\ InPhase(chat, "idle").starts = chat.starts
    BY Phases DEF VoiceStatuses, ShownInWindow
  <2>2. chat' \in ChatType /\ chat'.phase = "idle"
    <3> DEFINE c == InPhase(chat, "idle")
    <3>1. chat' = [c EXCEPT !.starts = chat.starts - 1]
      BY <1>2, <2>1
    <3> HIDE DEF c
    <3> QED
      BY <1>0, <2>1, <3>1 DEF c, ChatType
  <2>3. assistant' \in AssistantType /\ assistant'.status = assistant.status
        /\ assistant'.on = assistant.on /\ assistant'.mic = assistant.mic
    BY <1>2, Assistants DEF Presents
  <2> QED
    BY <1>0, <1>2, <2>2, <2>3, OwnEar, EarsUnchanged, VoicesKept, NothingNewShown
<1> QED
  BY <1>1, <1>2 DEF StartEar

LEMMA HearQuestionStep ==
  ASSUME VoiceInv, NEW e \in Ears, NEW b \in BOOLEAN, HearQuestion(e, b)
  PROVE  VoiceInv'
<1> USE VoiceTypes DEF VoiceInv
<1>1. /\ chat' \in ChatType /\ chat'.window = chat.window
      /\ chat'.phase = IF chat.window = "open" THEN "thinking" ELSE chat.phase
  BY Phases DEF HearQuestion, VoiceStatuses
<1>2. turns' \subseteq Turns /\ turns' # {}
  BY DEF HearQuestion
<1>3. /\ assistant' \in AssistantType /\ assistant'.status \in {"idle", assistant.status}
      /\ ~b => assistant' = assistant
  BY Assistants DEF HearQuestion, Presents
<1>4. SameVoices
  BY VoicesKept DEF HearQuestion
<1>5. /\ \A m \in Ears : /\ Aborted(m) \in [Ears -> EarType] /\ Aborted(m)[m].by = ears[m].by
                         /\ Aborted(m)[m].at # "live"
      /\ By("chat", "ending") \in EarType
  BY AbortedKeeps DEF AssistantType, By, EarType
<1>6. /\ ears' \in [Ears -> EarType] /\ \A x \in Ears : ears'[x].by = ears[x].by
      /\ \A x \in Ears : ears'[x] = By("assistant", "live") => ears[x] = ears'[x] /\ ~(b /\ x = assistant.mic)
  BY <1>5 DEF HearQuestion, By
<1>7. \A w \in {"assistant", "chat"} : Recognizes(w) => Recognizes(w)'
  BY <1>6 DEF Recognizes
<1>8. VoiceTypeOK'
  BY <1>1, <1>2, <1>3, <1>4, <1>6 DEF SameVoices
<1>9. \A x \in Ears : ears'[x] = By("assistant", "live") => assistant'.on /\ assistant'.mic = x
  BY <1>3, <1>6 DEF VoiceHonest
<1> QED
  BY <1>1, <1>2, <1>3, <1>4, <1>7, <1>8, <1>9 DEF SameVoices, VoiceHonest, ShownInWindow

LEMMA HearNothingStep ==
  ASSUME VoiceInv, NEW e \in Ears, HearNothing(e)
  PROVE  VoiceInv'
<1> USE VoiceTypes DEF VoiceInv
<1>1. chat' \in ChatType /\ chat'.phase = "idle"
  BY Phases DEF HearNothing, VoiceStatuses, ShownInWindow
<1>2. assistant' \in AssistantType /\ assistant'.status = assistant.status
      /\ assistant'.on = assistant.on /\ assistant'.mic = assistant.mic
  BY Assistants DEF HearNothing, Presents
<1>3. SameEars
  BY DEF HearNothing, SameEars, EarType
<1> QED
  BY <1>1, <1>2, <1>3, OwnEar, VoicesKept, NothingNewShown DEF HearNothing

LEMMA HangUpSteps ==
  ASSUME VoiceInv, CloseChat \/ \E e \in Ears : HearGoodbye(e)
  PROVE  VoiceInv'
<1> USE VoiceTypes DEF VoiceInv
<1>0. HangUp
  BY DEF CloseChat, HearGoodbye
<1>1. chat' \in ChatType /\ chat'.phase = "idle"
  BY <1>0 DEF HangUp, ChatType, VoiceStatuses
<1>2. assistant' \in AssistantType /\ assistant'.status = assistant.status
      /\ assistant'.on = assistant.on /\ assistant'.mic = assistant.mic
  BY <1>0, Assistants DEF HangUp, Presents
<1>3. SameEars
  <2>1. /\ Aborted(chat.mic) \in [Ears -> EarType]
        /\ \A e \in Ears : /\ Aborted(chat.mic)[e].by = ears[e].by
                           /\ Aborted(chat.mic)[e].at = "live" => ears[e].at = "live"
    BY AbortedKeeps DEF ChatType
  <2>2. CASE CloseChat
    BY <2>1, <2>2 DEF CloseChat, SameEars
  <2>3. CASE \E e \in Ears : HearGoodbye(e)
    <3>1. PICK e \in Ears : ears' = [Aborted(chat.mic) EXCEPT ![e].at = "ending"]
      BY <2>3 DEF HearGoodbye
    <3> QED
      BY <2>1, <3>1 DEF SameEars, EarType
  <2> QED
    BY <2>2, <2>3
<1> QED
  BY <1>0, <1>1, <1>2, <1>3, OwnEar, VoicesKept, NothingNewShown DEF HangUp

LEMMA AnswerStep ==
  ASSUME VoiceInv, NEW t \in Turns, Answer(t)
  PROVE  VoiceInv'
<1> USE VoiceTypes DEF VoiceInv
<1>0. ears' = ears /\ SameEars /\ turns' \subseteq Turns
  BY EarsUnchanged DEF Answer
<1>1. ASSUME NEW v \in Voices, voices[v] = Silent, voices' = [Cancelled EXCEPT ![v] = By("chat", "due")],
             chat' = InPhase(chat, "speaking"), assistant' = assistant
      PROVE  VoiceInv'
  <2>1. /\ chat' \in ChatType /\ chat'.window = chat.window
        /\ chat'.phase = IF chat.window = "open" THEN "speaking" ELSE chat.phase
    BY <1>1, Phases DEF VoiceStatuses
  <2>2. By("chat", "due") \in VoiceType
    BY DEF By, VoiceType
  <2>3. /\ voices' \in [Voices -> VoiceType] /\ voices'[v] = By("chat", "due")
        /\ \A x \in Voices \ {v} : voices'[x] = Cancelled[x]
    BY <1>1, <2>2, CancelledKeeps
  <2>4. Utters("chat")'
    BY <2>3 DEF Utters
  <2>5. Utters("assistant") => Utters("assistant")'
    <3> SUFFICES ASSUME NEW x \in Voices, voices[x] \in {By("assistant", "due"), By("assistant", "cut")}
                 PROVE  voices'[x] = By("assistant", "cut")
      BY DEF Utters
    <3>1. x # v
      BY <1>1 DEF By, Silent
    <3> QED
      BY <2>3, <3>1, CancelledKeeps
  <2>6. VoiceTypeOK'
    BY <1>0, <1>1, <2>1, <2>3
  <2> QED
    BY <1>0, <1>1, <2>1, <2>4, <2>5, <2>6 DEF VoiceHonest, ShownInWindow, Recognizes
<1>2. CASE chat' = InPhase(chat, "idle") /\ assistant' = Resumed(assistant) /\ voices' = voices
  <2>1. chat' \in ChatType /\ chat'.phase = "idle"
    BY <1>2, Phases DEF VoiceStatuses, ShownInWindow
  <2>2. assistant' \in AssistantType /\ assistant'.status = assistant.status
        /\ assistant'.on = assistant.on /\ assistant'.mic = assistant.mic
    BY <1>2, Assistants DEF Presents
  <2> QED
    BY <1>0, <1>2, <2>1, <2>2, OwnEar, VoicesKept, NothingNewShown
<1> QED
  BY <1>1, <1>2 DEF Answer

LEMMA EarEndsStep ==
  ASSUME VoiceInv, NEW e \in Ears, EarEnds(e)
  PROVE  VoiceInv'
<1> USE VoiceTypes DEF VoiceInv
<1>0. voices' = voices /\ turns' = turns /\ SameVoices
  BY VoicesKept DEF EarEnds
<1>1. /\ ears' \in [Ears -> EarType] /\ ears'[e] = Silent /\ \A x \in Ears \ {e} : ears'[x] = ears[x]
  BY DEF EarEnds, Silent, EarType
<1>2. CASE ears[e].by = "assistant"
  <2> DEFINE a == [assistant EXCEPT !.mic = IF @ = e THEN NoEar ELSE @]
  <2>1. Presents(a, assistant.on, assistant.status, IF assistant.mic = e THEN NoEar ELSE assistant.mic)
    BY DEF Presents, AssistantType
  <2>2. assistant' = IF a.status = "listening" THEN Idling(a) ELSE a
    BY <1>2 DEF EarEnds, EarGone
  <2> HIDE DEF a
  <2>3. /\ assistant' \in AssistantType /\ assistant'.status \in {"idle", assistant.status} \ {"listening"}
        /\ assistant'.on = assistant.on
        /\ assistant'.mic = IF assistant.mic = e THEN NoEar ELSE assistant.mic
    BY <2>1, <2>2, Assistants DEF Presents
  <2>4. chat' = chat /\ (Recognizes("chat") => Recognizes("chat")')
    BY <1>1, <1>2 DEF EarEnds, Recognizes
  <2>5. \A x \in Ears : ears'[x] = By("assistant", "live") => assistant'.on /\ assistant'.mic = x
    BY <1>1, <2>3 DEF VoiceHonest, By, Silent
  <2>6. VoiceTypeOK'
    BY <1>0, <1>1, <2>3, <2>4
  <2> QED
    BY <1>0, <2>3, <2>4, <2>5, <2>6 DEF VoiceHonest, ShownInWindow, SameVoices
<1>3. CASE ears[e].by # "assistant"
  <2> DEFINE p == IF chat.phase = "listening" THEN "idle" ELSE chat.phase
  <2>1. p \in VoiceStatuses \cup {"paused"} /\ p # "listening" /\ (chat.window # "open" => p = "idle")
    BY DEF ChatType, VoiceStatuses, ShownInWindow
  <2>2. chat' \in ChatType /\ chat'.window = chat.window /\ chat'.phase = p
    <3> DEFINE c == InPhase(chat, p)
    <3>1. c \in ChatType /\ c.window = chat.window /\ c.phase = p
      BY <2>1, Phases DEF ShownInWindow
    <3>2. chat' = [c EXCEPT !.mic = IF @ = e THEN NoEar ELSE @]
      BY <1>3 DEF EarEnds
    <3> HIDE DEF c
    <3> QED
      BY <3>1, <3>2 DEF ChatType
  <2>3. assistant' = assistant /\ (Recognizes("assistant") => Recognizes("assistant")')
    BY <1>1, <1>3 DEF EarEnds, Recognizes
  <2>4. \A x \in Ears : ears'[x] = By("assistant", "live") => assistant'.on /\ assistant'.mic = x
    BY <1>1, <2>3 DEF VoiceHonest, By, Silent
  <2>5. VoiceTypeOK'
    BY <1>0, <1>1, <2>2, <2>3
  <2> QED
    BY <1>0, <2>1, <2>2, <2>3, <2>4, <2>5 DEF VoiceHonest, ShownInWindow, SameVoices
<1> QED
  BY <1>2, <1>3

LEMMA EarErrsStep ==
  ASSUME VoiceInv, NEW e \in Ears, EarErrs(e)
  PROVE  VoiceInv'
<1> USE VoiceTypes DEF VoiceInv
<1>0. voices' = voices /\ turns' = turns /\ SameVoices
  BY VoicesKept DEF EarErrs
<1>1. /\ SameEars /\ ears'[e].at = "ending" /\ \A x \in Ears \ {e} : ears'[x] = ears[x]
  BY DEF EarErrs, SameEars, EarType
<1>2. ASSUME assistant' = Idling([assistant EXCEPT !.mic = IF @ = e THEN NoEar ELSE @]), chat' = chat
      PROVE  VoiceInv'
  <2> DEFINE a == [assistant EXCEPT !.mic = IF @ = e THEN NoEar ELSE @]
  <2>1. Presents(a, assistant.on, assistant.status, IF assistant.mic = e THEN NoEar ELSE assistant.mic)
    BY DEF Presents, AssistantType
  <2>0. assistant' = Idling(a)
    BY <1>2
  <2> HIDE DEF a
  <2>2. /\ assistant' \in AssistantType /\ assistant'.status = "idle" /\ assistant'.on = assistant.on
        /\ assistant'.mic = IF assistant.mic = e THEN NoEar ELSE assistant.mic
    BY <2>0, <2>1, Assistants DEF Presents
  <2>3. \A x \in Ears : ears'[x] = By("assistant", "live") => assistant'.on /\ assistant'.mic = x
    BY <1>1, <2>2 DEF VoiceHonest, By
  <2> QED
    BY <1>0, <1>1, <1>2, <2>2, <2>3, NothingNewShown DEF ShownInWindow
<1>3. CASE chat' = InPhase(chat, "idle") /\ assistant' = Resumed(assistant)
  <2>1. chat' \in ChatType /\ chat'.phase = "idle"
    BY <1>3, Phases DEF VoiceStatuses, ShownInWindow
  <2>2. assistant' \in AssistantType /\ assistant'.status = assistant.status
        /\ assistant'.on = assistant.on /\ assistant'.mic = assistant.mic
    BY <1>3, Assistants DEF Presents
  <2> QED
    BY <1>0, <1>1, <2>1, <2>2, OwnEar, NothingNewShown
<1> QED
  BY <1>2, <1>3 DEF EarErrs

\* The end of an utterance, reported or assumed: only its owner shows that it speaks.
LEMMA SpokenStep ==
  ASSUME VoiceInv, NEW v \in Voices, Spoken(v), voices' \in [Voices -> VoiceType],
         \A x \in Voices \ {v} : voices'[x] = voices[x], ears' = ears, turns' = turns
  PROVE  VoiceInv'
<1> USE VoiceTypes DEF VoiceInv
<1>0. SameEars
  BY EarsUnchanged
<1>1. \A w \in {"assistant", "chat"} : voices[v].by # w /\ Utters(w) => Utters(w)'
  BY DEF Utters, By
<1>2. CASE voices[v].by = "assistant" /\ assistant' = Idling(assistant) /\ chat' = chat
  <2>1. /\ assistant' \in AssistantType /\ assistant'.status = "idle" /\ assistant'.on = assistant.on
        /\ assistant'.mic = assistant.mic
    BY <1>2, Assistants DEF Presents
  <2>2. VoiceTypeOK'
    BY <1>2, <2>1
  <2> QED
    BY <1>1, <1>2, <2>1, <2>2 DEF VoiceHonest, ShownInWindow, Recognizes
<1>3. CASE /\ voices[v].by = "chat"
           /\ chat' = [InPhase(chat, "idle") EXCEPT !.timer = @ \/ chat.auto]
           /\ assistant' = IF chat.auto THEN assistant ELSE Resumed(assistant)
  <2>1. chat' \in ChatType /\ chat'.phase = "idle"
    <3> DEFINE c == InPhase(chat, "idle")
    <3>1. c \in ChatType /\ c.phase = "idle"
      BY Phases DEF VoiceStatuses, ShownInWindow
    <3>2. chat' = [c EXCEPT !.timer = c.timer \/ chat.auto] /\ chat.auto \in BOOLEAN
      BY <1>3 DEF ChatType
    <3> HIDE DEF c
    <3> QED
      BY <3>1, <3>2 DEF ChatType
  <2>2. /\ assistant' \in AssistantType /\ assistant'.status = assistant.status
        /\ assistant'.on = assistant.on /\ assistant'.mic = assistant.mic
    BY <1>3, Assistants DEF Presents
  <2>3. VoiceTypeOK'
    BY <2>1, <2>2
  <2> QED
    BY <1>1, <1>3, <2>1, <2>2, <2>3 DEF VoiceHonest, ShownInWindow, Recognizes
<1> QED
  BY <1>2, <1>3 DEF Spoken

LEMMA VoiceSteps ==
  ASSUME VoiceInv, NEW v \in Voices, VoiceEnds(v) \/ VoiceTooLong(v) \/ VoiceFades(v)
  PROVE  VoiceInv'
<1> USE VoiceTypes DEF VoiceInv
<1>1. /\ voices' \in [Voices -> VoiceType] /\ \A x \in Voices \ {v} : voices'[x] = voices[x]
      /\ ears' = ears /\ turns' = turns
  BY DEF VoiceEnds, VoiceTooLong, VoiceFades, Silent, VoiceType
<1>2. CASE VoiceEnds(v) \/ VoiceTooLong(v)
  BY <1>1, <1>2, SpokenStep DEF VoiceEnds, VoiceTooLong
<1>3. CASE VoiceFades(v)
  <2>1. SameVoices
    BY <1>1, <1>3 DEF VoiceFades, SameVoices, Utters, By
  <2> QED
    BY <1>1, <1>3, <2>1, OwnEar, EarsUnchanged, NothingNewShown DEF VoiceFades, ShownInWindow
<1> QED
  BY <1>2, <1>3

LEMMA VoiceInvInit == VoiceInit => VoiceInv
<1> SUFFICES ASSUME VoiceInit
             PROVE  VoiceInv
  OBVIOUS
<1>1. VoiceTypeOK
  BY VoiceAssumption DEF VoiceInit, VoiceTypeOK, VoiceStatuses, Silent
<1>2. VoiceHonest /\ ShownInWindow
  BY DEF VoiceInit, VoiceHonest, ShownInWindow, Silent, By
<1> QED
  BY <1>1, <1>2 DEF VoiceInv

LEMMA VoiceInvStep == VoiceInv /\ [VoiceNext]_voiceVars => VoiceInv'
<1> SUFFICES ASSUME VoiceInv, [VoiceNext]_voiceVars
             PROVE  VoiceInv'
  OBVIOUS
<1>1. CASE Toggle \/ WarmUpEnds \/ ChangeLanguage
  BY <1>1, SwitchSteps
<1>2. CASE StartThrows \/ TimerIdles \/ PauseEnds
  BY <1>2, TimerSteps
<1>3. CASE OpenChat \/ ToggleAuto
  BY <1>3, WindowSteps
<1>4. CASE ListenAgain \/ ClickMic
  BY <1>4, ListenStep, ClickMicStep DEF ListenAgain
<1>5. CASE StartEar
  BY <1>5, StartEarStep
<1>6. CASE CloseChat \/ \E e \in Ears : HearGoodbye(e)
  BY <1>6, HangUpSteps
<1>7. CASE \E e \in Ears : StartMic(e) \/ EarEnds(e) \/ EarErrs(e) \/ HearNothing(e)
  BY <1>7, StartMicStep, EarEndsStep, EarErrsStep, HearNothingStep
<1>8. CASE \E e \in Ears, b \in BOOLEAN : HearCommand(e, b) \/ HearQuestion(e, b)
  BY <1>8, HearCommandStep, HearQuestionStep
<1>9. CASE \E v \in Voices : VoiceEnds(v) \/ VoiceTooLong(v) \/ VoiceFades(v)
  BY <1>9, VoiceSteps
<1>10. CASE \E t \in Turns : Answer(t)
  BY <1>10, AnswerStep
<1>11. CASE UNCHANGED voiceVars
  BY <1>11 DEF voiceVars, VoiceInv, VoiceTypeOK, VoiceHonest, ShownInWindow, Recognizes, Utters
<1> QED
  BY <1>1, <1>2, <1>3, <1>4, <1>5, <1>6, <1>7, <1>8, <1>9, <1>10, <1>11 DEF VoiceNext

(***************************************************************************)
(* What the voice button and the consultation show is under way, in        *)
(* whatever order the browser reports.  (GlobalVoiceAssistant.jsx,         *)
(* VoiceChat.jsx)                                                          *)
(***************************************************************************)
THEOREM VoiceIsHonest == VoiceSpec => []VoiceHonest
<1>1. VoiceInv => VoiceHonest
  BY DEF VoiceInv
<1> QED
  BY VoiceInvInit, VoiceInvStep, <1>1, PTL DEF VoiceSpec

\* The types of the voice (GlobalVoiceAssistant.jsx, VoiceChat.jsx).
LEMMA VoiceTyped == VoiceSpec => []VoiceTypeOK
BY VoiceInvInit, VoiceInvStep, PTL DEF VoiceSpec, VoiceInv

-----------------------------------------------------------------------------
(***************************************************************************)
(* The mode: in auto, the connection is polled and the sync timer runs     *)
(* once the reconciliations have ended, however the mode was switched.     *)
(***************************************************************************)
(***************************************************************************)
(* What a handle names runs, and in 'auto', in an open window, the polls   *)
(* run and a reconciliation that is under way starts the timers, unless    *)
(* they run already.                                                       *)
(***************************************************************************)
Counts == polls \in Nat /\ timers \in Nat /\ (pollHeld => polls > 0) /\ (timerHeld => timers > 0)
Reconciling == \E r \in Reconciles : reconcile[r] # "idle"
Stage == reconcile \in [Reconciles -> {"idle", "check", "sync"}]
Served == win = "open" /\ mode = "auto" => polls > 0 /\ (Reconciling \/ timers > 0)
AutoInv == Counts /\ Stage /\ Served

LEMMA SetModeServes ==
  ASSUME Counts, Stage, NEW m, NEW r \in Reconciles, SetMode(m, r)
  PROVE  /\ Counts' /\ Stage' /\ mode' = m
         /\ m = "auto" => polls' > 0 /\ Reconciling'
<1>1. CASE m = "offline"
  BY <1>1 DEF SetMode, PauseServices, Counts, Stage
<1>2. CASE m # "offline"
  <2>1. reconcile' = [reconcile EXCEPT ![r] = "check"] /\ polls' = polls + 1 /\ pollHeld' = TRUE
        /\ UNCHANGED <<timers, timerHeld>> /\ mode' = m
    BY <1>2 DEF SetMode, ReconcileStarts, StartPolling, timerVars
  <2>2. Reconciling'
    BY <2>1 DEF Reconciling, Stage
  <2> QED
    BY <2>1, <2>2 DEF Counts, Stage
<1> QED
  BY <1>1, <1>2

\* In 'auto', once the reconciliations have ended, the connection is polled
\* and the sync timer runs, however the mode was switched while they were
\* under way (appMode.js reconcileAuto).
THEOREM AutoIsServed == ModeSpec => []AutoServed
<1>1. ModeInit => AutoInv
  BY DEF ModeInit, AutoInv, Counts, Stage, Served
<1>2. AutoInv /\ [ModeNext]_modeVars => AutoInv'
  <2> SUFFICES ASSUME AutoInv, [ModeNext]_modeVars
               PROVE  AutoInv'
    OBVIOUS
  <2>1. Counts /\ Stage /\ Served
    BY DEF AutoInv
  <2>2. ASSUME UNCHANGED <<polls, pollHeld, timers, timerHeld, reconcile, win, mode>>
        PROVE  AutoInv'
    BY <2>1, <2>2 DEF AutoInv, Counts, Stage, Served, Reconciling
  <2>3. CASE StartSync \/ EndSync \/ Poll
    BY <2>2, <2>3 DEF StartSync, EndSync, Poll, userVars, pollVars, timerVars
  <2>4. ASSUME NEW r \in Reconciles, Mount(r)
        PROVE  AutoInv'
    BY <2>1, <2>4, SetModeServes DEF Mount, AutoInv, Served
  <2>5. ASSUME NEW m \in Modes, NEW r \in Reconciles, Flip(m, r)
        PROVE  AutoInv'
    BY <2>1, <2>5, SetModeServes DEF Flip, AutoInv, Served
  <2>6. ASSUME StartTimers, UNCHANGED <<polls, pollHeld, win, mode>>, Stage'
        PROVE  AutoInv'
    BY <2>1, <2>6 DEF StartTimers, AutoInv, Counts, Served
  <2>7. ASSUME NEW r \in Reconciles, ReconcileChecked(r)
        PROVE  AutoInv'
    <3>1. CASE SyncStarts
      <4>1. reconcile' = [reconcile EXCEPT ![r] = "sync"] /\ UNCHANGED <<polls, pollHeld, timers, timerHeld, win, mode>>
        BY <2>7, <3>1 DEF ReconcileChecked, userVars, pollVars, timerVars
      <4>2. Stage' /\ Reconciling'
        BY <2>1, <4>1 DEF Stage, Reconciling
      <4> QED
        BY <2>1, <4>1, <4>2 DEF AutoInv, Counts, Served
    <3>2. CASE ~SyncStarts
      <4>1. reconcile' = [reconcile EXCEPT ![r] = "idle"] /\ StartTimers /\ UNCHANGED <<polls, pollHeld, win, mode>>
        BY <2>7, <3>2 DEF ReconcileChecked, userVars, pollVars
      <4>2. Stage'
        BY <2>1, <4>1 DEF Stage
      <4> QED
        BY <2>6, <4>1, <4>2
    <3> QED
      BY <3>1, <3>2
  <2>8. ASSUME NEW r \in Reconciles, ReconcileSynced(r)
        PROVE  AutoInv'
    <3>1. reconcile' = [reconcile EXCEPT ![r] = "idle"] /\ StartTimers /\ UNCHANGED <<polls, pollHeld, win, mode>>
      BY <2>8 DEF ReconcileSynced, userVars, pollVars
    <3>2. Stage'
      BY <2>1, <3>1 DEF Stage
    <3> QED
      BY <2>6, <3>1, <3>2
  <2>9. ASSUME StartServices PROVE Counts' /\ polls' >= polls /\ timers' >= timers
    <3>1. CASE mode = "offline"
      BY <2>1, <2>9, <3>1 DEF StartServices, pollVars, timerVars, Counts
    <3>2. CASE mode # "offline"
      <4>1. StartPolling /\ StartTimers
        BY <2>9, <3>2 DEF StartServices
      <4> QED
        BY <2>1, <4>1 DEF StartPolling, StartTimers, Counts
    <3> QED
      BY <3>1, <3>2
  <2>12. CASE Boot
    <3>1. StartServices /\ UNCHANGED <<mode, win, reconcile>>
      BY <2>12 DEF Boot
    <3> QED
      BY <2>1, <2>9, <3>1 DEF AutoInv, Counts, Stage, Served, Reconciling
  <2>13. CASE CloseWindows
    <3>1. PauseServices /\ win' = "closed" /\ UNCHANGED reconcile
      BY <2>13 DEF CloseWindows
    <3> QED
      BY <2>1, <3>1 DEF PauseServices, AutoInv, Counts, Stage, Served
  <2>14. CASE Activate
    <3>1. win' = "loading" /\ UNCHANGED reconcile /\ (StartServices \/ UNCHANGED <<pollVars, timerVars>>)
      BY <2>14 DEF Activate
    <3>2. Counts'
      BY <2>1, <2>9, <3>1 DEF Counts, pollVars, timerVars
    <3> QED
      BY <2>1, <3>1, <3>2 DEF AutoInv, Stage, Served
  <2>10. ASSUME NEW s, SessionChanges(s)
         PROVE  AutoInv'
    BY <2>2, <2>10 DEF SessionChanges, pollVars, timerVars
  <2>11. CASE UNCHANGED modeVars
    BY <2>2, <2>11 DEF modeVars
  <2> QED
    BY <2>3, <2>4, <2>5, <2>7, <2>8, <2>10, <2>11, <2>12, <2>13, <2>14 DEF ModeNext
<1>3. AutoInv => AutoServed
  BY DEF AutoInv, AutoServed, ModeSettled, Served, Reconciling
<1> QED
  BY <1>1, <1>2, <1>3, PTL DEF ModeSpec

-----------------------------------------------------------------------------
(***************************************************************************)
(* The types of the mode: an interval is stopped only through *)
(* a handle that names one, so the counts stay natural numbers.             *)
(***************************************************************************)
Named == (pollHeld => polls > 0) /\ (timerHeld => timers > 0)
ModeInv == ModeTypeOK /\ Named

LEMMA ServicesPaused ==
  ASSUME ModeInv, PauseServices
  PROVE  /\ polls' \in 0..MaxTimers /\ pollHeld' = FALSE /\ timers' \in 0..MaxTimers /\ timerHeld' = FALSE
         /\ running' = FALSE
  BY ModeAssumption DEF PauseServices, ModeInv, ModeTypeOK, Named

LEMMA StartedPolling ==
  ASSUME ModeInv, StartPolling
  PROVE  polls' \in 0..MaxTimers /\ polls' > 0 /\ pollHeld' = TRUE
  BY ModeAssumption DEF StartPolling, ModeInv, ModeTypeOK

LEMMA StartedTimers ==
  ASSUME ModeInv, StartTimers
  PROVE  timers' \in 0..MaxTimers /\ timers' > 0 /\ timerHeld' = TRUE /\ running' = TRUE
  BY ModeAssumption DEF StartTimers, ModeInv, ModeTypeOK

ConnTyped ==
    /\ conn \in States /\ previous \in States /\ active \in 0..MaxActive
    /\ downSeen \in BOOLEAN /\ looped \in BOOLEAN
PollTyped == polls \in 0..MaxTimers /\ pollHeld \in BOOLEAN /\ (pollHeld => polls > 0)
TimerTyped == timers \in 0..MaxTimers /\ timerHeld \in BOOLEAN /\ (timerHeld => timers > 0) /\ running \in BOOLEAN
UserTyped ==
    /\ mac \in BOOLEAN /\ mode \in Modes /\ preference \in Modes /\ win \in {"loading", "open", "closed"}
    /\ booting \in BOOLEAN /\ session \in {"none", "valid", "expired"}

LEMMA ModeParts == ModeInv <=> ConnTyped /\ PollTyped /\ TimerTyped /\ UserTyped /\ Stage
  BY DEF ModeInv, ModeTypeOK, Named, ConnTyped, PollTyped, TimerTyped, UserTyped, Stage

LEMMA ModePartsStep == ConnTyped' /\ PollTyped' /\ TimerTyped' /\ UserTyped' /\ Stage' => ModeInv'
  BY DEF ModeInv, ModeTypeOK, Named, ConnTyped, PollTyped, TimerTyped, UserTyped, Stage

LEMMA CheckedTyped ==
  ASSUME ConnTyped, NEW s, NEW ended \in {0, 1}, ended <= active, Checked(s, ended)
  PROVE  ConnTyped'
<1>1. active \in Nat /\ MaxActive \in Nat /\ active <= MaxActive
  BY ModeAssumption DEF ConnTyped
<1>2. active' \in 0..MaxActive
  <2>1. active - ended \in 0..MaxActive
    BY <1>1
  <2>2. active - ended < MaxActive => active - ended + 1 \in 0..MaxActive
    BY <1>1, <2>1
  <2> QED
    BY <2>1, <2>2 DEF Checked
<1>3. conn' \in States /\ previous' \in States
  BY DEF Checked, SetState, ConnTyped, States
<1>4. downSeen' \in BOOLEAN /\ looped' \in BOOLEAN
  BY DEF Checked, Witness
<1> QED
  BY <1>2, <1>3, <1>4 DEF ConnTyped

LEMMA SetModeTyped ==
  ASSUME ModeInv, NEW m \in Modes, NEW r \in Reconciles, SetMode(m, r)
  PROVE  PollTyped' /\ TimerTyped' /\ Stage' /\ mode' = m
<1>0. PollTyped /\ TimerTyped /\ Stage
  BY ModeParts
<1>1. CASE m = "offline"
  <2>1. PauseServices /\ UNCHANGED reconcile /\ mode' = m
    BY <1>1 DEF SetMode
  <2> QED
    BY <1>0, <2>1, ServicesPaused DEF PollTyped, TimerTyped, Stage
<1>2. CASE m # "offline"
  <2>1. ReconcileStarts(r) /\ UNCHANGED <<running, timers, timerHeld>> /\ mode' = m
    BY <1>2 DEF SetMode, timerVars
  <2>2. PollTyped'
    BY <2>1, StartedPolling DEF ReconcileStarts, PollTyped
  <2>3. TimerTyped'
    BY <1>0, <2>1 DEF TimerTyped
  <2>4. Stage'
    BY <1>0, <2>1 DEF Stage, ReconcileStarts
  <2> QED
    BY <2>1, <2>2, <2>3, <2>4
<1> QED
  BY <1>1, <1>2

LEMMA ServicesTyped ==
  ASSUME ModeInv, StartServices
  PROVE  ConnTyped' /\ PollTyped' /\ TimerTyped'
<1>0. ConnTyped /\ PollTyped /\ TimerTyped
  BY ModeParts
<1>1. CASE mode = "offline"
  <2>1. UNCHANGED <<running, connVars, pollVars, timerVars>>
    BY <1>1 DEF StartServices
  <2> QED
    BY <1>0, <2>1 DEF connVars, pollVars, timerVars, ConnTyped, PollTyped, TimerTyped
<1>2. CASE mode # "offline"
  <2>1. StartPolling /\ StartTimers
    BY <1>2 DEF StartServices
  <2>2. PollTyped' /\ TimerTyped'
    BY <2>1, StartedPolling, StartedTimers DEF PollTyped, TimerTyped
  <2>3. ConnTyped'
    <3>1. CASE SyncStarts
      <4>1. active < MaxActive /\ active' = active + 1 /\ SetState("sync") /\ UNCHANGED <<downSeen, looped>>
        BY <1>2, <3>1 DEF StartServices
      <4>2. active' \in 0..MaxActive
        BY <1>0, <4>1, ModeAssumption DEF ConnTyped
      <4> QED
        BY <1>0, <4>1, <4>2 DEF SetState, ConnTyped, States
    <3>2. CASE ~SyncStarts
      <4>1. UNCHANGED connVars
        BY <1>2, <3>2 DEF StartServices
      <4> QED
        BY <1>0, <4>1 DEF connVars, ConnTyped
    <3> QED
      BY <3>1, <3>2
  <2> QED
    BY <2>2, <2>3
<1> QED
  BY <1>1, <1>2

LEMMA ModeInvStep == ModeInv /\ [ModeNext]_modeVars => ModeInv'
<1> SUFFICES ASSUME ModeInv, [ModeNext]_modeVars
             PROVE  ModeInv'
  OBVIOUS
<1>0. ConnTyped /\ PollTyped /\ TimerTyped /\ UserTyped /\ Stage
  BY ModeParts
<1>1. active \in Nat /\ MaxActive \in Nat /\ active <= MaxActive
  BY <1>0, ModeAssumption DEF ConnTyped
<1>2. ASSUME UNCHANGED pollVars PROVE PollTyped'
  BY <1>0, <1>2 DEF pollVars, PollTyped
<1>3. ASSUME UNCHANGED <<running, timerVars>> PROVE TimerTyped'
  BY <1>0, <1>3 DEF timerVars, TimerTyped
<1>4. ASSUME UNCHANGED <<mode, userVars>> PROVE UserTyped'
  BY <1>0, <1>4 DEF userVars, UserTyped
<1>5. ASSUME UNCHANGED connVars PROVE ConnTyped'
  BY <1>0, <1>5 DEF connVars, ConnTyped
<1>6. ASSUME UNCHANGED reconcile PROVE Stage'
  BY <1>0, <1>6 DEF Stage
<1>7. ASSUME StartTimers PROVE TimerTyped'
  BY <1>7, StartedTimers DEF TimerTyped
<1>8. CASE StartSync
  <2>1. active' \in 0..MaxActive
    BY <1>1, <1>8 DEF StartSync
  <2>2. ConnTyped'
    BY <1>0, <1>8, <2>1 DEF StartSync, SetState, ConnTyped, States
  <2> QED
    BY <1>2, <1>3, <1>4, <1>6, <1>8, <2>2, ModePartsStep DEF StartSync
<1>9. CASE EndSync
  <2>1. ConnTyped'
    <3>1. active > 0
      BY <1>9 DEF EndSync
    <3>2. CASE \E s \in {"local", "cloud"} : Checked(s, 1)
      BY <1>0, <1>1, <3>1, <3>2, CheckedTyped
    <3>3. CASE active' = active - 1 /\ UNCHANGED <<conn, previous, downSeen, looped>>
      BY <1>0, <1>1, <3>1, <3>3 DEF ConnTyped
    <3> QED
      BY <1>9, <3>2, <3>3 DEF EndSync
  <2> QED
    BY <1>2, <1>3, <1>4, <1>6, <1>9, <2>1, ModePartsStep DEF EndSync
<1>10. CASE Poll
  <2>1. ConnTyped'
    BY <1>0, <1>1, <1>10, CheckedTyped DEF Poll
  <2> QED
    BY <1>2, <1>3, <1>4, <1>6, <1>10, <2>1, ModePartsStep DEF Poll
<1>11. ASSUME NEW r \in Reconciles, Mount(r)
       PROVE  ModeInv'
  <2>1. PollTyped' /\ TimerTyped' /\ Stage' /\ mode' = preference
    BY <1>0, <1>11, SetModeTyped DEF Mount, UserTyped
  <2>2. UserTyped'
    BY <1>0, <1>11, <2>1 DEF Mount, UserTyped
  <2> QED
    BY <1>5, <1>11, <2>1, <2>2, ModePartsStep DEF Mount
<1>12. ASSUME NEW m \in Modes, NEW r \in Reconciles, Flip(m, r)
       PROVE  ModeInv'
  <2>1. PollTyped' /\ TimerTyped' /\ Stage' /\ mode' = m
    BY <1>12, SetModeTyped DEF Flip
  <2>2. UserTyped'
    BY <1>0, <1>12, <2>1 DEF Flip, UserTyped
  <2> QED
    BY <1>5, <1>12, <2>1, <2>2, ModePartsStep DEF Flip
<1>13. ASSUME NEW r \in Reconciles, ReconcileChecked(r)
       PROVE  ModeInv'
  <2>1. PICK s \in {"local", "cloud"} :
          IF SyncStarts
          THEN /\ reconcile' = [reconcile EXCEPT ![r] = "sync"]
               /\ conn' = "sync" /\ previous' = s
               /\ Witness(s)
               /\ IF Reconnects(s) THEN active < MaxActive /\ active' = active + 1
                                   ELSE UNCHANGED active
               /\ UNCHANGED <<running, timerVars>>
          ELSE /\ reconcile' = [reconcile EXCEPT ![r] = "idle"]
               /\ Checked(s, 0)
               /\ StartTimers
    BY <1>13 DEF ReconcileChecked
  <2>2. PollTyped' /\ UserTyped'
    BY <1>2, <1>4, <1>13 DEF ReconcileChecked
  <2>3. Stage'
    BY <1>0, <2>1 DEF Stage
  <2>4. CASE SyncStarts
    <3>1. active' \in 0..MaxActive
      BY <1>1, <2>1, <2>4
    <3>2. conn' \in States /\ previous' \in States
      BY <2>1, <2>4 DEF States
    <3>3. downSeen' \in BOOLEAN /\ looped' \in BOOLEAN
      BY <2>1, <2>4 DEF Witness
    <3> QED
      BY <1>3, <2>1, <2>2, <2>3, <2>4, <3>1, <3>2, <3>3, ModePartsStep DEF ConnTyped
  <2>5. CASE ~SyncStarts
    BY <1>0, <1>1, <1>7, <2>1, <2>2, <2>3, <2>5, CheckedTyped, ModePartsStep
  <2> QED
    BY <2>4, <2>5
<1>14. ASSUME NEW r \in Reconciles, ReconcileSynced(r)
       PROVE  ModeInv'
  <2>1. PollTyped' /\ UserTyped' /\ TimerTyped'
    BY <1>2, <1>4, <1>7, <1>14 DEF ReconcileSynced
  <2>2. Stage'
    BY <1>0, <1>14 DEF ReconcileSynced, Stage
  <2>3. ConnTyped'
    BY <1>0, <1>1, <1>5, <1>14, CheckedTyped DEF ReconcileSynced
  <2> QED
    BY <2>1, <2>2, <2>3, ModePartsStep
<1>15. CASE Boot
  <2>1. UserTyped'
    BY <1>0, <1>15 DEF Boot, UserTyped
  <2> QED
    BY <1>6, <1>15, <2>1, ServicesTyped, ModePartsStep DEF Boot
<1>16. CASE CloseWindows
  <2>1. UserTyped'
    BY <1>0, <1>16 DEF CloseWindows, UserTyped
  <2>2. PollTyped' /\ TimerTyped'
    BY <1>16, ServicesPaused DEF CloseWindows, PollTyped, TimerTyped
  <2> QED
    BY <1>5, <1>6, <1>16, <2>1, <2>2, ModePartsStep DEF CloseWindows
<1>17. CASE Activate
  <2>1. UserTyped'
    BY <1>0, <1>17 DEF Activate, UserTyped
  <2>2. ConnTyped' /\ PollTyped' /\ TimerTyped'
    BY <1>2, <1>3, <1>5, <1>17, ServicesTyped DEF Activate
  <2> QED
    BY <1>6, <1>17, <2>1, <2>2, ModePartsStep DEF Activate
<1>18. ASSUME NEW s \in {"none", "valid", "expired"}, SessionChanges(s)
       PROVE  ModeInv'
  <2>1. UserTyped'
    BY <1>0, <1>18 DEF SessionChanges, UserTyped
  <2> QED
    BY <1>2, <1>3, <1>5, <1>6, <1>18, <2>1, ModePartsStep DEF SessionChanges
<1>19. CASE UNCHANGED modeVars
  BY <1>0, <1>19, ModePartsStep DEF modeVars, ConnTyped, PollTyped, TimerTyped, UserTyped, Stage
<1> QED
  BY <1>8, <1>9, <1>10, <1>11, <1>12, <1>13, <1>14, <1>15, <1>16, <1>17, <1>18, <1>19 DEF ModeNext

\* Timers, handles, the monitor and the reconciliations keep their types, on every platform.
THEOREM ModeTyped == ModeSpec => []ModeTypeOK
<1>1. ModeInit => ModeInv
  <2>1. 0 \in 0..MaxTimers /\ 0 \in 0..MaxActive
    BY ModeAssumption
  <2> QED
    BY <2>1 DEF ModeInit, ModeInv, ModeTypeOK, Named, Modes, States
<1>2. ModeInv => ModeTypeOK
  BY DEF ModeInv
<1> QED
  BY <1>1, <1>2, ModeInvStep, PTL DEF ModeSpec

-----------------------------------------------------------------------------
(***************************************************************************)
(* Updates: only what is complete is offered, and Android opens what its   *)
(* banner named.                                                           *)
(***************************************************************************)
\* Android never has readyness.
UpdateInv == UpdateSafe /\ (phone => ~ready)

\* The installer that is offered is complete and the last one asked for, and
\* the APK that Android opens is the version its banner named when the server
\* gave a hash (main.js update:approve, update:install; mobileBridge.js
\* mobileUpdate.approve).
THEOREM UpdatesAreSafe == UpdateSpec => []UpdateSafe
<1>1. UpdateInit => UpdateInv
  BY DEF UpdateInit, UpdateInv, UpdateSafe
<1>2. UpdateInv /\ [UpdateNext]_updateVars => UpdateInv'
  <2> SUFFICES ASSUME UpdateInv, [UpdateNext]_updateVars
               PROVE  UpdateInv'
    OBVIOUS
  <2> USE DEF UpdateInv, UpdateSafe
  <2>1. ASSUME UNCHANGED <<phone, ready, fetching, fetched, applied>>
        PROVE  UpdateInv'
    BY <2>1
  <2>2. CASE Publish \/ Upload
    BY <2>1, <2>2 DEF Publish, Upload
  <2>3. CASE CheckFeed
    BY <2>3 DEF CheckFeed
  <2>4. CASE Approve
    BY <2>4 DEF Approve, Unready
  <2>5. CASE Downloaded
    BY <2>5 DEF Downloaded
  <2>6. CASE DownloadFails
    BY <2>6 DEF DownloadFails
  <2>7. CASE InstallUpdate
    BY <2>7 DEF InstallUpdate
  <2>8. CASE Dismiss \/ Reload
    BY <2>1, <2>8 DEF Dismiss, Reload
  <2>9. ASSUME NEW digest \in BOOLEAN, CheckLatest(digest)
        PROVE  UpdateInv'
    BY <2>1, <2>9 DEF CheckLatest
  <2>10. CASE ApproveApk
    BY <2>10 DEF ApproveApk
  <2>11. CASE ApkArrives
    <3>1. phone /\ phone' = phone /\ ready' = ready /\ ~ready
      BY <2>11 DEF ApkArrives
    <3>2. CASE released \in assets /\ Accepted(released, hash)
      <4>1. applied' = [version |-> released, shown |-> fetching, digest |-> hash]
        BY <2>11, <3>2 DEF ApkArrives
      <4>2. applied'.digest => applied'.version = applied'.shown
        BY <3>2, <4>1 DEF Accepted
      <4> QED
        BY <3>1, <4>2
    <3>3. CASE ~(released \in assets /\ Accepted(released, hash))
      BY <2>11, <3>1, <3>3 DEF ApkArrives
    <3> QED
      BY <3>2, <3>3
  <2>12. CASE UNCHANGED updateVars
    BY <2>1, <2>12 DEF updateVars
  <2> QED
    BY <2>2, <2>3, <2>4, <2>5, <2>6, <2>7, <2>8, <2>9, <2>10, <2>11, <2>12 DEF UpdateNext
<1> QED
  BY <1>1, <1>2, PTL DEF UpdateSpec, UpdateInv

\* The newest of the releases whose installers are there: it exists because they are uploaded
\* one after the other.
UpdateTypeInv == UpdateTypeOK /\ \E v \in assets : \A w \in assets : w <= v

LEMMA FeedTyped ==
  ASSUME UpdateTypeInv
  PROVE  FeedVersion \in Versions
  BY DEF UpdateTypeInv, UpdateTypeOK, FeedVersion

BannerType == [info : Versions, digest : BOOLEAN, stage : Stages, dismissed : Versions]

LEMMA ReappearsTyped ==
  ASSUME NEW b \in BannerType
  PROVE  Reappears(b) \in BannerType
<1>1. 0 \in Versions /\ "idle" \in Stages
  BY UpdateAssumption DEF Versions, Stages
<1> QED
  BY <1>1 DEF Reappears, BannerType

LEMMA BannersTyped ==
  ASSUME UpdateTypeInv
  PROVE  /\ \A v \in Versions, digest \in BOOLEAN : Shown(v, digest) \in BannerType
         /\ \A stage \in Stages : UpdateSettled(stage) \in BannerType
                                  /\ [banner EXCEPT !.stage = stage] \in BannerType
         /\ [banner EXCEPT !.stage = "dismissed", !.dismissed = banner.info] \in BannerType
         /\ NoBanner \in BannerType
         /\ \A v \in Versions, digest \in BOOLEAN : [NoBanner EXCEPT !.info = v, !.digest = digest] \in BannerType
<1>0. banner \in BannerType
  BY DEF UpdateTypeInv, UpdateTypeOK, BannerType
<1>1. ASSUME NEW v \in Versions, NEW digest \in BOOLEAN
      PROVE  Shown(v, digest) \in BannerType
  <2>1. [banner EXCEPT !.info = v, !.digest = digest] \in BannerType
    BY <1>0 DEF BannerType
  <2> QED
    BY <2>1, ReappearsTyped DEF Shown
<1>2. ASSUME NEW stage \in Stages
      PROVE  UpdateSettled(stage) \in BannerType /\ [banner EXCEPT !.stage = stage] \in BannerType
  <2>1. [banner EXCEPT !.stage = stage] \in BannerType
    BY <1>0 DEF BannerType
  <2> QED
    BY <1>0, <2>1, ReappearsTyped DEF UpdateSettled
<1>3. [banner EXCEPT !.stage = "dismissed", !.dismissed = banner.info] \in BannerType
  BY <1>0 DEF BannerType, Stages
<1>4. NoBanner \in BannerType
  BY UpdateAssumption DEF NoBanner, BannerType, Versions, Stages
<1>5. ASSUME NEW v \in Versions, NEW digest \in BOOLEAN
      PROVE  [NoBanner EXCEPT !.info = v, !.digest = digest] \in BannerType
  BY <1>4 DEF BannerType
<1> QED
  BY <1>1, <1>2, <1>3, <1>4, <1>5

LEMMA UpdateTypeInvStep == UpdateTypeInv /\ [UpdateNext]_updateVars => UpdateTypeInv'
<1> SUFFICES ASSUME UpdateTypeInv, [UpdateNext]_updateVars
             PROVE  UpdateTypeInv'
  OBVIOUS
<1>0. /\ 0 \in Versions /\ phone \in BOOLEAN /\ released \in Versions /\ assets \subseteq Versions
      /\ pending \in Versions /\ ready \in BOOLEAN /\ fetching \in Versions /\ fetched \in Versions
      /\ banner \in BannerType /\ awaited \in BOOLEAN /\ hash \in BOOLEAN
      /\ applied \in [version : Versions, shown : Versions, digest : BOOLEAN]
  BY UpdateAssumption DEF UpdateTypeInv, UpdateTypeOK, BannerType, Versions
<1>1. banner.info \in Versions /\ banner.digest \in BOOLEAN
  BY <1>0 DEF BannerType
<1>2. {"idle", "downloading", "ready", "error", "dismissed"} = Stages
  BY DEF Stages
<1>3. ASSUME UNCHANGED <<phone, released, assets>>, pending' \in Versions, ready' \in BOOLEAN,
             fetching' \in Versions, fetched' \in Versions, banner' \in BannerType,
             awaited' \in BOOLEAN, hash' \in BOOLEAN,
             applied' \in [version : Versions, shown : Versions, digest : BOOLEAN]
      PROVE  UpdateTypeInv'
  BY <1>0, <1>3 DEF UpdateTypeInv, UpdateTypeOK, BannerType
<1>4. CASE Publish
  <2>1. released' \in Versions
    BY <1>0, <1>4, UpdateAssumption DEF Publish, Versions
  <2> QED
    BY <1>0, <1>4, <2>1 DEF Publish, UpdateTypeInv, UpdateTypeOK, BannerType
<1>5. CASE Upload
  <2>1. PICK v \in assets : \A w \in assets : w <= v
    BY DEF UpdateTypeInv
  <2>2. assets' = assets \union {released} /\ v \in Nat /\ released \in Nat /\ \A w \in assets : w \in Nat
    BY <1>0, <1>5, <2>1 DEF Upload, Versions
  <2>3. \E x \in assets' : \A w \in assets' : w <= x
    <3>1. CASE v <= released
      <4>1. \A w \in assets' : w <= released
        BY <2>1, <2>2, <3>1
      <4> QED
        BY <2>2, <4>1
    <3>2. CASE ~(v <= released)
      <4>1. \A w \in assets' : w <= v
        BY <2>1, <2>2, <3>2
      <4> QED
        BY <2>2, <4>1
    <3> QED
      BY <3>1, <3>2
  <2> QED
    BY <1>0, <1>5, <2>2, <2>3 DEF Upload, UpdateTypeInv, UpdateTypeOK, BannerType
<1>6. CASE CheckFeed
  BY <1>0, <1>3, <1>6, FeedTyped, BannersTyped DEF CheckFeed
<1>7. CASE Approve
  BY <1>0, <1>2, <1>3, <1>7, BannersTyped DEF Approve, Unready
<1>8. CASE Downloaded
  BY <1>0, <1>2, <1>3, <1>8, BannersTyped DEF Downloaded
<1>9. CASE DownloadFails
  BY <1>0, <1>2, <1>3, <1>9, BannersTyped DEF DownloadFails
<1>10. CASE InstallUpdate
  <2>1. applied' \in [version : Versions, shown : Versions, digest : BOOLEAN]
    <3>1. applied' = applied \/ applied' = [version |-> fetched, shown |-> banner.info, digest |-> TRUE]
      BY <1>10 DEF InstallUpdate
    <3>2. [version |-> fetched, shown |-> banner.info, digest |-> TRUE]
            \in [version : Versions, shown : Versions, digest : BOOLEAN]
      BY <1>0, <1>1
    <3> QED
      BY <1>0, <3>1, <3>2
  <2>2. banner' \in BannerType
    BY <1>0, <1>2, <1>10, BannersTyped DEF InstallUpdate
  <2> QED
    BY <1>0, <1>3, <1>10, <2>1, <2>2 DEF InstallUpdate
<1>11. CASE Dismiss
  BY <1>0, <1>3, <1>11, BannersTyped DEF Dismiss
<1>12. CASE Reload
  <2>1. banner' \in BannerType
    <3> DEFINE v == IF phone THEN 0 ELSE pending
               d == ~phone /\ pending # 0
    <3>1. v \in Versions /\ d \in BOOLEAN /\ banner' = [NoBanner EXCEPT !.info = v, !.digest = d]
      BY <1>0, <1>12 DEF Reload
    <3> HIDE DEF v, d
    <3> QED
      BY <3>1, BannersTyped
  <2> QED
    BY <1>0, <1>3, <1>12, <2>1 DEF Reload
<1>13. ASSUME NEW digest \in BOOLEAN, CheckLatest(digest)
       PROVE  UpdateTypeInv'
  BY <1>0, <1>3, <1>13, BannersTyped DEF CheckLatest
<1>14. CASE ApproveApk
  BY <1>0, <1>1, <1>2, <1>3, <1>14, BannersTyped DEF ApproveApk
<1>15. CASE ApkArrives
  <2>1. applied' \in [version : Versions, shown : Versions, digest : BOOLEAN] /\ fetched' \in Versions
    BY <1>0, <1>15 DEF ApkArrives
  <2>2. banner' \in BannerType
    BY <1>2, <1>15, BannersTyped DEF ApkArrives
  <2> QED
    BY <1>0, <1>3, <1>15, <2>1, <2>2 DEF ApkArrives
<1>16. CASE UNCHANGED updateVars
  BY <1>0, <1>3, <1>16 DEF updateVars
<1> QED
  BY <1>4, <1>5, <1>6, <1>7, <1>8, <1>9, <1>10, <1>11, <1>12, <1>13, <1>14, <1>15, <1>16 DEF UpdateNext

\* Releases, installers and the banner keep their types.
THEOREM UpdatesTyped == UpdateSpec => []UpdateTypeOK
<1>1. UpdateInit => UpdateTypeInv
  <2> SUFFICES ASSUME UpdateInit
               PROVE  UpdateTypeInv
    OBVIOUS
  <2>1. 0 \in Versions /\ 1 \in Versions
    BY UpdateAssumption DEF Versions
  <2>2. \E v \in assets : \A w \in assets : w <= v
    BY DEF UpdateInit
  <2> QED
    BY <2>1, <2>2 DEF UpdateInit, UpdateTypeInv, UpdateTypeOK, NoBanner, Stages
<1>2. UpdateTypeInv => UpdateTypeOK
  BY DEF UpdateTypeInv
<1> QED
  BY <1>1, <1>2, UpdateTypeInvStep, PTL DEF UpdateSpec

-----------------------------------------------------------------------------
(***************************************************************************)
(* The consultation: an answer has one author. ChatInv says who it is: the *)
(* provider that is tried, which is followed by another only while it has  *)
(* sent nothing.                                                           *)
(***************************************************************************)
AnswerType == [at : {"none", "trying", "ended", "broken", "refused"},
               provider : 0..NumProviders + 1, wrote : SUBSET Providers]

\* Only the provider that is tried has written, and an answer that is over was written by it.
OneWriter(a) ==
    /\ \A p \in a.wrote : p = a.provider
    /\ a.at \in {"ended", "broken"} => a.provider \in a.wrote
ChatInv == answers \in [Exchanges -> AnswerType] /\ \A x \in Exchanges : OneWriter(answers[x])

LEMMA AnswersMove ==
  ASSUME ChatInv, NEW x \in Exchanges, NEW a \in AnswerType, OneWriter(a),
         answers' = [answers EXCEPT ![x] = a]
  PROVE  ChatInv'
BY DEF ChatInv

LEMMA ServerAnswers ==
  ASSUME ChatInv, NEW x \in Exchanges,
         ProviderWrites(x) \/ ProviderFails(x) \/ ProviderEnds(x) \/ Refuse(x)
  PROVE  ChatInv'
<1> DEFINE a == answers[x]
<1>0. a \in AnswerType /\ OneWriter(a) /\ NumProviders \in Nat
  BY ChatAssumption DEF ChatInv
<1>1. CASE ProviderWrites(x)
  <2> DEFINE b == [a EXCEPT !.wrote = @ \union {a.provider}]
  <2>1. b \in AnswerType /\ OneWriter(b)
    BY <1>0, <1>1 DEF ProviderWrites, AnswerType, OneWriter
  <2>2. answers' = [answers EXCEPT ![x] = b]
    BY <1>1 DEF ProviderWrites, ChatInv
  <2> QED
    BY <2>1, <2>2, AnswersMove
<1>2. CASE ProviderFails(x)
  <2> DEFINE b == AfterError(a)
  <2>1. CASE a.wrote = {}
    <3>1. b = [a EXCEPT !.provider = @ + 1] /\ a.provider \in 1..NumProviders /\ a.at = "trying"
      BY <1>2, <2>1 DEF AfterError, ProviderFails, Providers
    <3>2. b \in AnswerType /\ OneWriter(b)
      BY <1>0, <2>1, <3>1 DEF AnswerType, OneWriter
    <3> QED
      BY <1>2, <3>2, AnswersMove DEF ProviderFails
  <2>2. CASE a.wrote # {}
    <3>1. b = [a EXCEPT !.at = "broken"]
      BY <2>2 DEF AfterError
    <3>2. b \in AnswerType /\ OneWriter(b)
      BY <1>0, <2>2, <3>1 DEF AnswerType, OneWriter
    <3> QED
      BY <1>2, <3>2, AnswersMove DEF ProviderFails
  <2> QED
    BY <2>1, <2>2
<1>3. CASE ProviderEnds(x)
  <2> DEFINE b == [a EXCEPT !.at = "ended"]
  <2>1. b \in AnswerType /\ OneWriter(b)
    BY <1>0, <1>3 DEF ProviderEnds, AnswerType, OneWriter
  <2>2. answers' = [answers EXCEPT ![x] = b]
    BY <1>3 DEF ProviderEnds, ChatInv
  <2> QED
    BY <2>1, <2>2, AnswersMove
<1>4. CASE Refuse(x)
  <2> DEFINE b == [a EXCEPT !.at = "refused"]
  <2>1. b \in AnswerType /\ OneWriter(b)
    BY <1>0 DEF AnswerType, OneWriter
  <2>2. answers' = [answers EXCEPT ![x] = b]
    BY <1>4 DEF Refuse, ChatInv
  <2> QED
    BY <2>1, <2>2, AnswersMove
<1> QED
  BY <1>1, <1>2, <1>3, <1>4

LEMMA QuestionsAsked ==
  ASSUME ChatInv, NEW x \in Exchanges, NEW offline \in BOOLEAN, Send(x, offline)
  PROVE  ChatInv'
<1>1. CASE offline
  BY <1>1 DEF Send, ChatInv
<1>2. CASE ~offline
  <2> DEFINE b == [at |-> "trying", provider |-> 1, wrote |-> {}]
  <2>1. b \in AnswerType /\ OneWriter(b)
    BY ChatAssumption DEF AnswerType, OneWriter
  <2>2. answers' = [answers EXCEPT ![x] = b]
    BY <1>2 DEF Send
  <2> QED
    BY <2>1, <2>2, AnswersMove
<1> QED
  BY <1>1, <1>2

LEMMA ChatInvInit == ChatInit => ChatInv
  BY ChatAssumption DEF ChatInit, ChatInv, AnswerType, OneWriter

LEMMA ChatInvStep == ChatInv /\ [ChatNext]_chatVars => ChatInv'
<1> SUFFICES ASSUME ChatInv, [ChatNext]_chatVars
             PROVE  ChatInv'
  OBVIOUS
<1>1. CASE UNCHANGED answers
  BY <1>1 DEF ChatInv
<1>2. ASSUME NEW x \in Exchanges,
             \/ FirstChunk(x) \/ NextChunk(x) \/ SendFails(x)
             \/ (\E b \in BOOLEAN : LocalReply(x, b))
             \/ (\E mark \in {"complete", "cut"} : StreamCloses(x, mark))
      PROVE  UNCHANGED answers
  BY <1>2 DEF FirstChunk, NextChunk, SendFails, LocalReply, StreamCloses
<1>3. CASE Clear \/ UNCHANGED chatVars
  BY <1>1, <1>3 DEF Clear, chatVars
<1> QED
  BY <1>1, <1>2, <1>3, ServerAnswers, QuestionsAsked DEF ChatNext

\* An answer is the text of one provider, however the providers fail, and the
\* end marker follows only its text (aiGenerate.ts streamConsultationText).
THEOREM AnswersHaveOneVoice == ChatSpec => []OneVoice
<1>1. ChatInv => OneVoice
  BY DEF ChatInv, OneWriter, OneVoice
<1> QED
  BY <1>1, ChatInvInit, ChatInvStep, PTL DEF ChatSpec

\* The types of the chat: an answer to the server, and the bubbles on the page.
BubbleType == [role : {"user", "assistant"}, of : Exchanges, mark : Marks]

LEMMA BubblesTyped ==
  ASSUME ChatTypeOK, NEW x \in Exchanges
  PROVE  /\ \A mark \in Marks : /\ Append(bubbles, Bubble("assistant", x, mark)) \in Seq(BubbleType)
                                /\ Append(bubbles, Bubble("user", x, mark)) \in Seq(BubbleType)
                                /\ bubbles # <<>> => Append(Front(bubbles), Bubble("assistant", x, mark)) \in Seq(BubbleType)
         /\ Overwritten(bubbles, x) \in Seq(BubbleType)
<1>0. bubbles \in Seq(BubbleType)
  BY DEF ChatTypeOK, BubbleType
<1>1. ASSUME NEW mark \in Marks
      PROVE  Bubble("assistant", x, mark) \in BubbleType /\ Bubble("user", x, mark) \in BubbleType
  BY DEF Bubble, BubbleType
<1>2. bubbles # <<>> => Front(bubbles) \in Seq(BubbleType)
  <2> SUFFICES ASSUME bubbles # <<>>
               PROVE  Front(bubbles) \in Seq(BubbleType)
    OBVIOUS
  <2>1. Len(bubbles) \in Nat /\ Len(bubbles) > 0
    BY <1>0
  <2>2. SubSeq(bubbles, 1, Len(bubbles) - 1) \in Seq(BubbleType)
    BY <1>0, <2>1
  <2> QED
    BY <2>2 DEF Front
<1>3. Overwritten(bubbles, x) \in Seq(BubbleType)
  <2>1. CASE bubbles = <<>>
    BY <1>0, <2>1 DEF Overwritten
  <2>2. CASE bubbles # <<>>
    <3>1. Len(bubbles) \in 1..Len(bubbles) /\ bubbles[Len(bubbles)] \in BubbleType
      BY <1>0, <2>2
    <3> DEFINE b == [bubbles[Len(bubbles)] EXCEPT !.of = x]
    <3>2. b \in BubbleType
      BY <3>1 DEF BubbleType
    <3>3. Overwritten(bubbles, x) = [bubbles EXCEPT ![Len(bubbles)] = b]
      BY <2>2 DEF Overwritten
    <3> HIDE DEF b
    <3> QED
      BY <1>0, <3>1, <3>2, <3>3
  <2> QED
    BY <2>1, <2>2
<1> QED
  BY <1>0, <1>1, <1>2, <1>3

LEMMA ChatTypeStep == ChatTypeOK /\ answers' \in [Exchanges -> AnswerType] /\ [ChatNext]_chatVars => ChatTypeOK'
<1> SUFFICES ASSUME ChatTypeOK, answers' \in [Exchanges -> AnswerType], [ChatNext]_chatVars
             PROVE  ChatTypeOK'
  OBVIOUS
<1>0. /\ bubbles \in Seq(BubbleType) /\ waits \in BOOLEAN
      /\ awaits \in [Exchanges -> {"unsent", "local", "answer", "stream", "done"}]
      /\ logged \subseteq Exchanges
  BY DEF ChatTypeOK, BubbleType
<1>1. ASSUME bubbles' \in Seq(BubbleType), waits' \in BOOLEAN, logged' \subseteq Exchanges,
             awaits' \in [Exchanges -> {"unsent", "local", "answer", "stream", "done"}]
      PROVE  ChatTypeOK'
  BY <1>1 DEF ChatTypeOK, BubbleType, AnswerType
<1>2. Marks = {"plain", "streaming", "complete", "cut", "error"}
  BY DEF Marks
<1>3. CASE Clear
  <2>1. <<>> \in Seq(BubbleType)
    OBVIOUS
  <2> QED
    BY <1>0, <1>1, <1>3, <2>1 DEF Clear
<1>4. CASE UNCHANGED chatVars
  BY <1>0, <1>1, <1>4 DEF chatVars
<1>5. ASSUME NEW x \in Exchanges, ProviderWrites(x) \/ ProviderFails(x) \/ ProviderEnds(x) \/ Refuse(x)
      PROVE  ChatTypeOK'
  BY <1>0, <1>1, <1>5 DEF ProviderWrites, ProviderFails, ProviderEnds, Refuse
<1>6. ASSUME NEW x \in Exchanges, FirstChunk(x) \/ NextChunk(x) \/ SendFails(x)
      PROVE  ChatTypeOK'
  BY <1>0, <1>1, <1>2, <1>6, BubblesTyped DEF FirstChunk, NextChunk, SendFails
<1>7. ASSUME NEW x \in Exchanges, NEW b \in BOOLEAN, Send(x, b) \/ LocalReply(x, b)
      PROVE  ChatTypeOK'
  BY <1>0, <1>1, <1>2, <1>7, BubblesTyped DEF Send, LocalReply
<1>8. ASSUME NEW x \in Exchanges, NEW mark \in {"complete", "cut"}, StreamCloses(x, mark)
      PROVE  ChatTypeOK'
  BY <1>0, <1>1, <1>2, <1>8, BubblesTyped DEF StreamCloses
<1> QED
  BY <1>3, <1>4, <1>5, <1>6, <1>7, <1>8 DEF ChatNext

\* Bubbles, answers and what send() awaits keep their types.
THEOREM ChatTyped == ChatSpec => []ChatTypeOK
<1>1. ChatInit => ChatTypeOK /\ ChatInv
  <2> SUFFICES ASSUME ChatInit
               PROVE  ChatTypeOK /\ ChatInv
    OBVIOUS
  <2>1. ChatInv
    BY ChatInvInit
  <2>2. bubbles \in Seq(BubbleType)
    BY DEF ChatInit
  <2> QED
    BY <2>1, <2>2 DEF ChatInit, ChatTypeOK, ChatInv, BubbleType, AnswerType
<1>2. ChatTypeOK /\ ChatInv /\ [ChatNext]_chatVars => (ChatTypeOK /\ ChatInv)'
  BY ChatInvStep, ChatTypeStep DEF ChatInv
<1> QED
  BY <1>1, <1>2, PTL DEF ChatSpec

-----------------------------------------------------------------------------
(***************************************************************************)
(* The model file of the local AI: what is installed is whole.             *)
(***************************************************************************)
(***************************************************************************)
(* While no two downloads have been under way together: a download at rest *)
(* has no open stream, none writes to the installed file, and what was     *)
(* verified is whole until it is renamed.                                  *)
(***************************************************************************)
DownloadType == [at : Steps, pos : Nat, append : BOOLEAN, into : Targets, own : BOOLEAN,
                 cancelled : BOOLEAN, del : BOOLEAN]

Sane(r) == (r.at = "idle" => r.into = "gone") /\ r.into # "file"
Alone == \A d, e \in Downloads : dl[d].at # "idle" /\ dl[e].at # "idle" => d = e
Tidy ==
    /\ \A d \in Downloads : /\ Sane(dl[d])
                            /\ dl[d].at = "verified" /\ partial.here => Whole(partial)
    /\ Alone
    /\ file.here => Whole(file)
    /\ ~badLoad
DownloadsOK == android \in BOOLEAN /\ dl \in [Downloads -> DownloadType]
ModelInv == DownloadsOK /\ (~overlapped => Tidy)

LEMMA FreshOK == FreshDownload \in DownloadType /\ Sane(FreshDownload) /\ FreshDownload.at = "idle"
  BY DEF FreshDownload, DownloadType, Sane, Steps, Targets

\* One download moves, the only one there is.
LEMMA OneMoves ==
  ASSUME ModelInv, NEW d \in Downloads, dl[d].at # "idle", NEW r \in DownloadType, dl' = [dl EXCEPT ![d] = r],
         ~overlapped => Sane(r), r.at = "verified" /\ partial'.here => Whole(partial)',
         ~overlapped => file' = file /\ badLoad' = badLoad, android' = android, overlapped' = overlapped
  PROVE  ModelInv'
<1>1. DownloadsOK' /\ dl'[d] = r /\ \A e \in Downloads \ {d} : dl'[e] = dl[e]
  BY DEF ModelInv, DownloadsOK
<1>2. ASSUME ~overlapped
      PROVE  Tidy'
  <2>1. Tidy /\ \A e \in Downloads \ {d} : dl[e].at = "idle"
    BY <1>2 DEF ModelInv, Tidy, Alone
  <2>2. Alone'
    BY <1>1, <2>1 DEF Alone
  <2>3. \A e \in Downloads : Sane(dl[e])' /\ (dl'[e].at = "verified" /\ partial'.here => Whole(partial)')
    <3> SUFFICES ASSUME NEW e \in Downloads
                 PROVE  Sane(dl'[e]) /\ (dl'[e].at = "verified" /\ partial'.here => Whole(partial)')
      BY DEF Sane
    <3>1. CASE e = d
      BY <1>1, <1>2, <3>1
    <3>2. CASE e # d
      BY <1>1, <2>1, <3>2 DEF Tidy
    <3> QED
      BY <3>1, <3>2
  <2> QED
    BY <1>2, <2>1, <2>2, <2>3 DEF Tidy, Sane, Whole
<1> QED
  BY <1>1, <1>2 DEF ModelInv

\* The downloads are marked, and none is brought forward.
Marked(ds) ==
    /\ ds \in [Downloads -> DownloadType]
    /\ \A d \in Downloads : /\ ds[d].at = dl[d].at \/ (ds[d].at = "hung" /\ dl[d].at = "flush")
                            /\ ds[d].into \in {dl[d].into, "gone"}

LEMMA Marking ==
  ASSUME ModelInv, Marked(dl'), android' = android, overlapped' = overlapped,
         ~overlapped => /\ partial' = partial \/ ~partial'.here
                        /\ file' = file \/ ~file'.here
                        /\ badLoad' => badLoad
  PROVE  ModelInv'
<1>1. DownloadsOK'
  BY DEF ModelInv, DownloadsOK, Marked
<1>2. ASSUME ~overlapped
      PROVE  Tidy'
  <2>1. Tidy
    BY <1>2 DEF ModelInv
  <2>2. Alone'
    BY <2>1 DEF Tidy, Alone, Marked
  <2>3. ASSUME NEW d \in Downloads
        PROVE  Sane(dl'[d]) /\ (dl'[d].at = "verified" /\ partial'.here => Whole(partial'))
    BY <1>2, <2>1, <2>3 DEF Tidy, Sane, Marked
  <2>4. file'.here => Whole(file')
    BY <1>2, <2>1 DEF Tidy
  <2> QED
    BY <1>2, <2>1, <2>2, <2>3, <2>4 DEF Tidy, Sane, Whole
<1> QED
  BY <1>1, <1>2 DEF ModelInv

LEMMA Rebuilding ==
  ASSUME NEW ds \in [Downloads -> DownloadType]
  PROVE  /\ Rebuilt(ds) \in [Downloads -> DownloadType]
         /\ \A d \in Downloads : Rebuilt(ds)[d].at = ds[d].at /\ Rebuilt(ds)[d].into = ds[d].into
<1>1. ASSUME NEW d \in Downloads
      PROVE  LET r == [ds[d] EXCEPT !.own = FALSE]
             IN  r \in DownloadType /\ r.at = ds[d].at /\ r.into = ds[d].into
  BY DEF DownloadType
<1> QED
  BY <1>1 DEF Rebuilt

LEMMA Unlinking ==
  ASSUME NEW name, DownloadsOK
  PROVE  Marked(Unlinked(name))
<1>1. ASSUME NEW d \in Downloads
      PROVE  LET r == [dl[d] EXCEPT !.into = "gone"]
             IN  r \in DownloadType /\ r.at = dl[d].at /\ r.into = "gone"
  BY DEF DownloadsOK, DownloadType, Targets
<1> QED
  BY <1>1 DEF Unlinked, Marked, DownloadsOK

LEMMA MarkedRebuilt ==
  ASSUME NEW ds, Marked(ds)
  PROVE  Marked(Rebuilt(ds))
BY Rebuilding DEF Marked

\* A download ends.  f is file, or what was verified.
LEMMA Ending ==
  ASSUME ModelInv, NEW d \in Downloads, NEW ds \in [Downloads -> DownloadType], NEW p, NEW f, Ended(d, ds, p, f),
         dl[d].at # "idle", android' = android, overlapped' = overlapped, badLoad' = badLoad,
         ~overlapped => /\ \A e \in Downloads \ {d} : ds[e].at = "idle" /\ ds[e].into = "gone"
                        /\ f.here => Whole(f)
  PROVE  ModelInv'
<1> DEFINE es == [ds EXCEPT ![d] = FreshDownload]
<1>1. es \in [Downloads -> DownloadType] /\ es[d] = FreshDownload /\ \A e \in Downloads \ {d} : es[e] = ds[e]
  BY FreshOK
<1>2. dl' = es \/ dl' = Rebuilt(es)
  BY DEF Ended
<1> HIDE DEF es
<1>3. dl' \in [Downloads -> DownloadType] /\ \A e \in Downloads : dl'[e].at = es[e].at /\ dl'[e].into = es[e].into
  BY <1>1, <1>2, Rebuilding
<1>4. ASSUME ~overlapped
      PROVE  Tidy'
  <2>1. Tidy
    BY <1>4 DEF ModelInv
  <2>2. \A e \in Downloads : dl'[e].at = "idle" /\ dl'[e].into = "gone"
    BY <1>1, <1>3, <1>4, FreshOK DEF Sane
  <2>3. file' = f /\ badLoad' = badLoad
    BY DEF Ended
  <2>4. file'.here => Whole(file')
    BY <1>4, <2>3
  <2> QED
    BY <2>1, <2>2, <2>3, <2>4 DEF Tidy, Sane, Alone, Whole
<1> QED
  BY <1>3, <1>4 DEF ModelInv, DownloadsOK

LEMMA DownloadSteps ==
  ASSUME ModelInv, NEW d \in Downloads,
         Download(d) \/ ResponseEnds(d) \/ Flushed(d) \/ ConnectionFails(d) \/ Aborts(d)
  PROVE  ModelInv'
<1>0. dl[d] \in DownloadType
  BY DEF ModelInv, DownloadsOK
<1>1. CASE Download(d)
  <2> DEFINE r == [FreshDownload EXCEPT !.at = "opening", !.own = TRUE]
  <2>1. r \in DownloadType /\ Sane(r) /\ r.at = "opening"
    BY DEF FreshDownload, DownloadType, Sane, Steps, Targets
  <2>2. dl' = [dl EXCEPT ![d] = r] /\ UNCHANGED <<android, partial, file, badLoad>>
        /\ (overlapped' <=> (overlapped \/ DownloadsUnderWay # {}))
    BY <1>1 DEF Download
  <2> HIDE DEF r
  <2>3. DownloadsOK' /\ dl'[d] = r /\ \A e \in Downloads \ {d} : dl'[e] = dl[e]
    BY <2>1, <2>2 DEF ModelInv, DownloadsOK
  <2>4. ASSUME ~overlapped'
        PROVE  Tidy'
    <3>1. Tidy /\ \A e \in Downloads : dl[e].at = "idle"
      BY <2>2, <2>4 DEF ModelInv, DownloadsUnderWay
    <3> QED
      BY <2>1, <2>2, <2>3, <3>1 DEF Tidy, Alone, Sane, Whole
  <2> QED
    BY <2>3, <2>4 DEF ModelInv
<1>2. CASE ResponseEnds(d)
  <2> DEFINE to == IF android THEN "verify" ELSE "flush"
             r == [dl[d] EXCEPT !.at = to]
  <2>1. r \in DownloadType /\ r.into = dl[d].into /\ r.at \notin {"verified", "idle"}
    BY <1>0 DEF DownloadType, Steps
  <2>2. dl' = [dl EXCEPT ![d] = r]
    BY <1>2 DEF ResponseEnds, ModelInv, DownloadsOK
  <2>3. dl[d].at # "idle" /\ UNCHANGED <<android, partial, file, badLoad, overlapped>>
    BY <1>2 DEF ResponseEnds
  <2>4. ~overlapped => Sane(r)
    BY <2>1 DEF Sane, ModelInv, Tidy
  <2> HIDE DEF r
  <2>5. r.at = "verified" /\ partial'.here => Whole(partial)'
    BY <2>1
  <2>6. ~overlapped => file' = file /\ badLoad' = badLoad
    BY <2>3
  <2> QED
    BY <2>1, <2>2, <2>3, <2>4, <2>5, <2>6, OneMoves
<1>3. CASE Flushed(d)
  <2> DEFINE r == [dl[d] EXCEPT !.at = "verify", !.into = "gone", !.own = FALSE]
  <2>1. r \in DownloadType /\ r.into = "gone" /\ r.at = "verify"
    BY <1>0 DEF DownloadType, Steps, Targets
  <2>2. dl' = [dl EXCEPT ![d] = r] /\ dl[d].at # "idle" /\ UNCHANGED <<android, partial, file, badLoad, overlapped>>
    BY <1>3 DEF Flushed, ModelInv, DownloadsOK
  <2>3. Sane(r)
    BY <2>1 DEF Sane
  <2> HIDE DEF r
  <2>4. r.at = "verified" /\ partial'.here => Whole(partial)'
    BY <2>1
  <2> QED
    BY <2>1, <2>2, <2>3, <2>4, OneMoves
<1>4. CASE ConnectionFails(d) \/ Aborts(d)
  <2> DEFINE r == [dl[d] EXCEPT !.at = "failed"]
  <2>1. r \in DownloadType /\ r.into = dl[d].into /\ r.at = "failed"
    BY <1>0 DEF DownloadType, Steps
  <2>2. dl' = [dl EXCEPT ![d] = r] /\ dl[d].at # "idle" /\ UNCHANGED <<android, partial, file, badLoad, overlapped>>
    BY <1>4 DEF ConnectionFails, Aborts, ModelInv, DownloadsOK
  <2>3. ~overlapped => Sane(r)
    BY <2>1 DEF Sane, ModelInv, Tidy
  <2> HIDE DEF r
  <2>4. r.at = "verified" /\ partial'.here => Whole(partial)'
    BY <2>1
  <2> QED
    BY <2>1, <2>2, <2>3, <2>4, OneMoves
<1> QED
  BY <1>1, <1>2, <1>3, <1>4

LEMMA ResponseSteps ==
  ASSUME ModelInv, NEW d \in Downloads, NEW b \in BOOLEAN, Respond(d, b) \/ ReceiveBlock(d, b)
  PROVE  ModelInv'
<1>0. dl[d] \in DownloadType /\ android \in BOOLEAN /\ Blocks \in Nat
  BY LocalModelAssumption DEF ModelInv, DownloadsOK
<1>1. CASE Respond(d, b)
  <2> DEFINE n == IF b THEN partial.len ELSE 0
             r == [dl[d] EXCEPT !.at = "stream", !.into = "partial", !.append = b \/ android, !.pos = n]
  <2>1. n \in Nat
    BY <1>0, <1>1 DEF Respond
  <2>2. dl' = [dl EXCEPT ![d] = r] /\ dl[d].at # "idle" /\ UNCHANGED <<android, file, badLoad, overlapped>>
    BY <1>1 DEF Respond, ModelInv, DownloadsOK
  <2> HIDE DEF n
  <2>3. r \in DownloadType /\ r.into = "partial" /\ r.at = "stream"
    BY <1>0, <2>1 DEF DownloadType, Steps, Targets
  <2>4. Sane(r)
    BY <2>3 DEF Sane
  <2> HIDE DEF r
  <2>5. r.at = "verified" /\ partial'.here => Whole(partial)'
    BY <2>3
  <2> QED
    BY <2>2, <2>3, <2>4, <2>5, OneMoves
<1>2. CASE ReceiveBlock(d, b)
  <2> DEFINE r == [dl[d] EXCEPT !.pos = @ + 1]
  <2>1. dl' = [dl EXCEPT ![d] = r] /\ dl[d].at = "stream" /\ UNCHANGED <<android, badLoad, overlapped>>
    BY <1>2 DEF ReceiveBlock, ModelInv, DownloadsOK
  <2>2. r \in DownloadType /\ r.into = dl[d].into /\ r.at = "stream"
    BY <1>0, <2>1 DEF DownloadType
  <2>3. ~overlapped => Sane(r) /\ dl[d].into # "file"
    BY <2>2 DEF Sane, ModelInv, Tidy
  <2>4. ~overlapped => file' = file
    BY <1>2, <2>3 DEF ReceiveBlock
  <2> HIDE DEF r
  <2>5. r.at = "verified" /\ partial'.here => Whole(partial)'
    BY <2>2
  <2> QED
    BY <2>1, <2>2, <2>3, <2>4, <2>5, OneMoves
<1> QED
  BY <1>1, <1>2

LEMMA VerifyStep ==
  ASSUME ModelInv, NEW d \in Downloads, Verify(d)
  PROVE  ModelInv'
<1>0. dl[d] \in DownloadType /\ DownloadsOK /\ dl[d].at = "verify"
      /\ UNCHANGED <<android, file, badLoad, overlapped>>
  BY DEF ModelInv, DownloadsOK, Verify
<1>1. CASE Verified(d)
  <2> DEFINE r == [dl[d] EXCEPT !.at = "verified"]
  <2>1. dl' = [dl EXCEPT ![d] = r] /\ partial' = partial
    BY <1>0, <1>1 DEF Verify, DownloadsOK
  <2>2. r \in DownloadType /\ r.into = dl[d].into /\ r.at = "verified"
    BY <1>0 DEF DownloadType, Steps
  <2>3. ~overlapped => Sane(r)
    BY <2>2 DEF Sane, ModelInv, Tidy
  <2>4. Whole(partial)'
    BY <1>1, <2>1 DEF Verified, Whole
  <2> HIDE DEF r
  <2> QED
    BY <1>0, <2>1, <2>2, <2>3, <2>4, OneMoves
<1>2. CASE ~Verified(d)
  <2> DEFINE ds == Unlinked("partial")
             r == [ds[d] EXCEPT !.at = "failed"]
  <2>1. dl' = [ds EXCEPT ![d].at = "failed"] /\ partial' = NoFile
    BY <1>2 DEF Verify
  <2>2. Marked(ds)
    BY <1>0, Unlinking
  <2> HIDE DEF ds
  <2>3. r \in DownloadType /\ r.into = ds[d].into /\ r.at = "failed"
    BY <2>2 DEF Marked, DownloadType, Steps
  <2>4. dl' = [ds EXCEPT ![d] = r]
    BY <2>1, <2>2 DEF Marked
  <2> HIDE DEF r
  <2>5. dl'[d] = r /\ (\A e \in Downloads \ {d} : dl'[e] = ds[e]) /\ dl' \in [Downloads -> DownloadType]
    BY <2>2, <2>3, <2>4 DEF Marked
  <2>6. ~partial'.here
    BY <2>1 DEF NoFile
  <2>7. ASSUME ~overlapped
        PROVE  Tidy'
    <3>1. Tidy /\ \A e \in Downloads \ {d} : dl[e].at = "idle"
      BY <1>0, <2>7 DEF ModelInv, Tidy, Alone
    <3>2. \A e \in Downloads \ {d} : dl'[e].at = "idle" /\ dl'[e].into = "gone"
      BY <2>2, <2>5, <3>1 DEF Marked, Tidy, Sane
    <3>3. dl'[d].at = "failed" /\ dl'[d].into # "file"
      BY <2>2, <2>3, <2>5, <3>1 DEF Marked, Tidy, Sane
    <3>4. Alone'
      BY <3>2 DEF Alone
    <3>5. \A e \in Downloads : Sane(dl'[e])
      BY <3>2, <3>3 DEF Sane
    <3> QED
      BY <1>0, <2>6, <3>1, <3>4, <3>5 DEF Tidy, Sane, Whole
  <2> QED
    BY <1>0, <2>5, <2>7 DEF ModelInv, DownloadsOK
<1> QED
  BY <1>1, <1>2

LEMMA EndSteps ==
  ASSUME ModelInv, NEW d \in Downloads, Install(d) \/ DownloadRejects(d)
  PROVE  ModelInv'
<1>0. /\ DownloadsOK /\ dl[d].at # "idle" /\ UNCHANGED <<android, badLoad, overlapped>>
      /\ dl \in [Downloads -> DownloadType]
  BY DEF ModelInv, DownloadsOK, Install, DownloadRejects
<1>1. ASSUME ~overlapped
      PROVE  Tidy /\ \A e \in Downloads \ {d} : dl[e].at = "idle" /\ dl[e].into = "gone"
  BY <1>0, <1>1 DEF ModelInv, Tidy, Alone, Sane
<1>2. ASSUME NEW ds, Marked(ds), NEW p, Ended(d, ds, p, file)
      PROVE  ModelInv'
  <2>1. ~overlapped => \A e \in Downloads \ {d} : ds[e].at = "idle" /\ ds[e].into = "gone"
    BY <1>1, <1>2 DEF Marked
  <2>2. ~overlapped => (file.here => Whole(file))
    BY <1>1 DEF Tidy
  <2> QED
    BY <1>0, <1>2, <2>1, <2>2, Ending DEF Marked
<1>3. Marked(dl) /\ Marked(Unlinked("partial"))
  BY <1>0, Unlinking DEF Marked
<1>4. CASE Install(d) /\ partial.here
  <2>1. ASSUME NEW e \in Downloads
        PROVE  /\ Renamed[e] \in DownloadType /\ Renamed[e].at = dl[e].at
               /\ dl[e].into = "gone" => Renamed[e].into = "gone"
    <3> DEFINE to == CASE dl[e].into = "partial" -> "file" [] dl[e].into = "file" -> "gone" [] OTHER -> dl[e].into
               r == [dl[e] EXCEPT !.into = to]
    <3>1. dl[e] \in DownloadType
      BY <1>0
    <3>2. to \in Targets
      <4>1. CASE dl[e].into = "partial"
        BY <4>1 DEF Targets
      <4>2. CASE dl[e].into = "file"
        BY <4>2 DEF Targets
      <4>3. CASE dl[e].into = "gone"
        BY <4>3 DEF Targets
      <4> QED
        BY <3>1, <4>1, <4>2, <4>3 DEF DownloadType, Targets
    <3>3. dl[e].into = "gone" => to = "gone"
      OBVIOUS
    <3>4. Renamed[e] = r
      BY DEF Renamed
    <3> HIDE DEF to
    <3>5. r \in DownloadType /\ r.at = dl[e].at /\ r.into = to
      BY <3>1, <3>2 DEF DownloadType
    <3> QED
      BY <3>3, <3>4, <3>5
  <2>2. Renamed \in [Downloads -> DownloadType]
    BY <2>1 DEF Renamed
  <2>3. ~overlapped => \A e \in Downloads \ {d} : Renamed[e].at = "idle" /\ Renamed[e].into = "gone"
    BY <1>1, <2>1
  <2>4. ~overlapped => (partial.here => Whole(partial))
    BY <1>1, <1>4 DEF Install, Tidy
  <2>5. Ended(d, Renamed, NoFile, partial)
    BY <1>4 DEF Install
  <2> QED
    BY <1>0, <2>2, <2>3, <2>4, <2>5, Ending
<1>5. CASE ~(Install(d) /\ partial.here)
  BY <1>2, <1>3, <1>5 DEF Install, DownloadRejects
<1> QED
  BY <1>4, <1>5

LEMMA CancelStep ==
  ASSUME ModelInv, NEW del \in BOOLEAN, Cancel(del)
  PROVE  ModelInv'
<1> DEFINE d == activeDownload
           deletes == del /\ d = NoDownload
           next == IF d = NoDownload THEN IF deletes THEN Unlinked("partial") ELSE dl
                   ELSE [dl EXCEPT ![d].cancelled = TRUE, ![d].del = del,
                                   ![d].at = IF @ = "flush" THEN "hung" ELSE @]
<1>0. DownloadsOK /\ UNCHANGED <<android, file, badLoad, overlapped>>
  BY DEF Cancel, ModelInv
<1>1. /\ partial' = IF deletes THEN NoFile ELSE partial
      /\ dl' = IF del THEN Rebuilt(next) ELSE next
  BY DEF Cancel
<1>2. Marked(next)
  <2>1. CASE d = NoDownload
    BY <1>0, <2>1, Unlinking DEF Marked, DownloadsOK
  <2>2. CASE d # NoDownload /\ d \in Downloads
    <3> DEFINE to == IF dl[d].at = "flush" THEN "hung" ELSE dl[d].at
               r == [dl[d] EXCEPT !.cancelled = TRUE, !.del = del, !.at = to]
    <3>1. dl[d] \in DownloadType /\ to \in Steps /\ (to = dl[d].at \/ (to = "hung" /\ dl[d].at = "flush"))
      BY <1>0, <2>2 DEF DownloadsOK, DownloadType, Steps
    <3>2. next = [dl EXCEPT ![d] = r]
      BY <1>0, <2>2 DEF DownloadsOK
    <3> HIDE DEF to
    <3>3. r \in DownloadType /\ r.at = to /\ r.into = dl[d].into
      BY <3>1 DEF DownloadType
    <3> HIDE DEF r, next
    <3> QED
      BY <1>0, <2>2, <3>1, <3>2, <3>3 DEF Marked, DownloadsOK
  <2>3. CASE d # NoDownload /\ d \notin Downloads
    <3>1. next = dl
      BY <1>0, <2>3 DEF DownloadsOK
    <3> QED
      BY <1>0, <3>1 DEF Marked, DownloadsOK
  <2> QED
    BY <2>1, <2>2, <2>3
<1>3. Marked(dl')
  BY <1>1, <1>2, MarkedRebuilt
<1>4. partial' = partial \/ ~partial'.here
  BY <1>1 DEF NoFile
<1> QED
  BY <1>0, <1>3, <1>4, Marking

LEMMA PanelSteps ==
  ASSUME ModelInv, RemoveModel \/ SelectTier \/ Remount
  PROVE  ModelInv'
<1>0. DownloadsOK /\ UNCHANGED <<android, badLoad, overlapped>> /\ Marked(dl)
  BY DEF RemoveModel, SelectTier, Remount, ModelInv, DownloadsOK, Marked
<1>1. CASE RemoveModel
  <2> DEFINE ds == [d \in Downloads |-> [dl[d] EXCEPT !.into = "gone"]]
  <2>1. ASSUME NEW d \in Downloads
        PROVE  LET r == [dl[d] EXCEPT !.into = "gone"]
               IN  r \in DownloadType /\ r.at = dl[d].at /\ r.into = "gone"
    BY <1>0 DEF DownloadsOK, DownloadType, Targets
  <2>2. Marked(ds)
    BY <2>1 DEF Marked
  <2>3. dl' = Rebuilt(ds) /\ partial' = NoFile /\ file' = NoFile
    BY <1>1 DEF RemoveModel
  <2> HIDE DEF ds
  <2>4. Marked(dl') /\ ~partial'.here /\ ~file'.here
    BY <2>2, <2>3, MarkedRebuilt DEF NoFile
  <2> QED
    BY <1>0, <2>4, Marking
<1>2. CASE SelectTier
  <2>1. ASSUME NEW d \in Downloads
        PROVE  LET r == [dl[d] EXCEPT !.own = FALSE]
               IN  r \in DownloadType /\ r.at = dl[d].at /\ r.into = dl[d].into
    BY <1>0 DEF DownloadsOK, DownloadType
  <2>2. Marked(dl') /\ UNCHANGED <<partial, file>>
    BY <1>2, <2>1 DEF SelectTier, Marked
  <2> QED
    BY <1>0, <2>2, Marking
<1>3. CASE Remount
  <2>1. Marked(dl') /\ UNCHANGED <<partial, file>>
    BY <1>0, <1>3, MarkedRebuilt DEF Remount
  <2> QED
    BY <1>0, <2>1, Marking
<1> QED
  BY <1>1, <1>2, <1>3

LEMMA QuerySteps ==
  ASSUME ModelInv, \/ Query \/ QueryVerifies \/ QueryLoads \/ UNCHANGED modelVars
                   \/ \E timedOut \in BOOLEAN : QueryEnds(timedOut)
  PROVE  ModelInv'
<1>0. UNCHANGED <<android, partial, file, dl, overlapped>>
  BY DEF Query, QueryVerifies, QueryLoads, QueryEnds, modelVars
<1>1. ~overlapped => (badLoad' => badLoad)
  <2>1. CASE QueryLoads
    BY <2>1 DEF QueryLoads, ModelInv, Tidy
  <2>2. CASE ~QueryLoads
    BY <2>2 DEF Query, QueryVerifies, QueryEnds, modelVars
  <2> QED
    BY <2>1, <2>2
<1>2. Marked(dl)
  BY DEF ModelInv, DownloadsOK, Marked
<1> QED
  BY <1>0, <1>1, <1>2, Marking

\* While no two downloads have been under way together, the installed file is
\* the whole model and no query loads anything else, for every length of the
\* model, however downloads are stopped, resumed, cancelled and removed
\* (modelManager.js downloadModel, LocalAIPanel.jsx).
THEOREM ModelStaysIntact == ModelSpec => []ModelIntact
<1>1. ModelInit => ModelInv
  BY FreshOK DEF ModelInit, ModelInv, DownloadsOK, Tidy, Alone, NoFile
<1>2. ModelInv /\ [ModelNext]_modelVars => ModelInv'
  BY DownloadSteps, ResponseSteps, VerifyStep, EndSteps, CancelStep, PanelSteps, QuerySteps DEF ModelNext
<1>3. ModelInv => ModelIntact
  BY DEF ModelInv, Tidy, ModelIntact
<1> QED
  BY <1>1, <1>2, <1>3, PTL DEF ModelSpec

-----------------------------------------------------------------------------
(***************************************************************************)
(* The types of the model file.  A runtime is disposed of only by the query *)
(* that loaded it, and a block is written only while the file is short of   *)
(* its bound.                                                              *)
(***************************************************************************)
BoundedDownload == [at : Steps, pos : 0..Blocks, append : BOOLEAN, into : Targets, own : BOOLEAN,
                    cancelled : BOOLEAN, del : BOOLEAN]
PanelType == [awaits : Downloads \union {NoDownload}, shows : {"nothing", "partial", "installed"}]
FilesTyped == partial \in Contents /\ file \in Contents
DownloadsTyped == dl \in [Downloads -> BoundedDownload]
PanelTyped == activeDownload \in Downloads \union {NoDownload} /\ modelPage \in PanelType /\ mounts \in 0..MaxMounts
QueryTyped ==
    /\ query \in {"idle", "verify", "load", "generate"} /\ loads \in 0..MaxLoads
    /\ query = "generate" => loads > 0
    /\ badLoad \in BOOLEAN
ModelTypeInv ==
    android \in BOOLEAN /\ overlapped \in BOOLEAN /\ FilesTyped /\ DownloadsTyped /\ PanelTyped /\ QueryTyped

LEMMA FilesKnown ==
  /\ NoFile \in Contents /\ NoFile.len = 0 /\ ~NoFile.here
  /\ \A n \in 0..(Blocks + 2), g \in BOOLEAN : File(n, g) \in Contents /\ File(n, g).len = n
  /\ \A f \in Contents : f.len \in 0..(Blocks + 2) /\ f.good \in BOOLEAN /\ f.here \in BOOLEAN
<1>1. 0 \in 0..(Blocks + 2)
  BY LocalModelAssumption
<1>2. NoFile \in Contents /\ NoFile.len = 0 /\ NoFile.good \in BOOLEAN /\ NoFile.here = FALSE
  BY DEF NoFile, Contents
<1>3. ASSUME NEW n \in 0..(Blocks + 2), NEW g \in BOOLEAN
      PROVE  File(n, g) \in Contents /\ File(n, g).len = n /\ File(n, g).good = g /\ File(n, g).here = TRUE
  <2>1. File(n, g) \in Contents
    BY DEF Contents
  <2> QED
    BY <2>1 DEF File
<1>4. ASSUME NEW f \in Contents
      PROVE  f = NoFile \/ \E n \in 0..(Blocks + 2), g \in BOOLEAN : f = File(n, g)
  BY DEF Contents
<1>5. ASSUME NEW f \in Contents
      PROVE  f.len \in 0..(Blocks + 2) /\ f.good \in BOOLEAN /\ f.here \in BOOLEAN
  <2>1. CASE f = NoFile
    BY <1>1, <1>2, <2>1
  <2>2. ASSUME NEW n \in 0..(Blocks + 2), NEW g \in BOOLEAN, f = File(n, g)
        PROVE  f.len \in 0..(Blocks + 2) /\ f.good \in BOOLEAN /\ f.here \in BOOLEAN
    BY <1>3, <2>2
  <2> QED
    BY <1>4, <2>1, <2>2
<1> QED
  BY <1>2, <1>3, <1>5

LEMMA BlockPut ==
  ASSUME NEW f \in Contents, f.len < Blocks + 2, NEW n \in 0..Blocks, n < Blocks,
         NEW append \in BOOLEAN, NEW intact \in BOOLEAN
  PROVE  Put(f, n, append, intact) \in Contents
<1> DEFINE at == IF append THEN f.len ELSE n
           len == IF at < f.len THEN f.len ELSE at + 1
           good == f.good /\ intact /\ at = n /\ n <= f.len
<1>0. f.len \in 0..(Blocks + 2) /\ Blocks \in Nat
  BY FilesKnown, LocalModelAssumption
<1>1. f.len \in Nat /\ Blocks \in Nat /\ at \in Nat /\ at < Blocks + 2
  BY <1>0
<1>4. good \in BOOLEAN
  OBVIOUS
<1>2. len \in 0..(Blocks + 2)
  BY <1>1
<1>3. Put(f, n, append, intact) = File(len, good)
  BY DEF Put
<1> HIDE DEF len, good
<1> QED
  BY <1>2, <1>3, <1>4, FilesKnown

LEMMA FreshTyped ==
  /\ FreshDownload \in BoundedDownload
  /\ [FreshDownload EXCEPT !.at = "opening", !.own = TRUE] \in BoundedDownload
<1>1. FreshDownload \in BoundedDownload
  BY LocalModelAssumption DEF FreshDownload, BoundedDownload, Steps, Targets
<1>2. "opening" \in Steps
  BY DEF Steps
<1> QED
  BY <1>1, <1>2 DEF BoundedDownload

\* What the code changes in the record of a download.
LEMMA RecordsTyped ==
  ASSUME NEW r \in BoundedDownload
  PROVE  /\ \A at \in Steps : /\ [r EXCEPT !.at = at] \in BoundedDownload
                              /\ [r EXCEPT !.at = at, !.into = "gone", !.own = FALSE] \in BoundedDownload
                              /\ \A del \in BOOLEAN : [r EXCEPT !.cancelled = TRUE, !.del = del, !.at = at] \in BoundedDownload
                              /\ \A append \in BOOLEAN, n \in 0..Blocks :
                                    [r EXCEPT !.at = at, !.into = "partial", !.append = append, !.pos = n] \in BoundedDownload
         /\ \A into \in Targets : [r EXCEPT !.into = into] \in BoundedDownload
         /\ [r EXCEPT !.own = FALSE] \in BoundedDownload
         /\ \A n \in 0..Blocks : [r EXCEPT !.pos = n] \in BoundedDownload
<1>1. {"partial", "file", "gone"} = Targets
  BY DEF Targets
<1>2. ASSUME NEW at \in Steps
      PROVE  [r EXCEPT !.at = at] \in BoundedDownload
  BY DEF BoundedDownload
<1>3. ASSUME NEW at \in Steps
      PROVE  [r EXCEPT !.at = at, !.into = "gone", !.own = FALSE] \in BoundedDownload
  BY <1>1 DEF BoundedDownload
<1>4. ASSUME NEW at \in Steps, NEW del \in BOOLEAN
      PROVE  [r EXCEPT !.cancelled = TRUE, !.del = del, !.at = at] \in BoundedDownload
  BY DEF BoundedDownload
<1>5. ASSUME NEW at \in Steps, NEW append \in BOOLEAN, NEW n \in 0..Blocks
      PROVE  [r EXCEPT !.at = at, !.into = "partial", !.append = append, !.pos = n] \in BoundedDownload
  BY <1>1 DEF BoundedDownload
<1>6. ASSUME NEW into \in Targets
      PROVE  [r EXCEPT !.into = into] \in BoundedDownload
  BY DEF BoundedDownload
<1>7. [r EXCEPT !.own = FALSE] \in BoundedDownload
  BY DEF BoundedDownload
<1>8. ASSUME NEW n \in 0..Blocks
      PROVE  [r EXCEPT !.pos = n] \in BoundedDownload
  BY DEF BoundedDownload
<1> QED
  BY <1>2, <1>3, <1>4, <1>5, <1>6, <1>7, <1>8

LEMMA TablesTyped ==
  /\ \A ds \in [Downloads -> BoundedDownload] : Rebuilt(ds) \in [Downloads -> BoundedDownload]
  /\ DownloadsTyped => /\ \A name : Unlinked(name) \in [Downloads -> BoundedDownload]
                       /\ Renamed \in [Downloads -> BoundedDownload]
                       /\ [d \in Downloads |-> [dl[d] EXCEPT !.own = FALSE]] \in [Downloads -> BoundedDownload]
                       /\ [d \in Downloads |-> [dl[d] EXCEPT !.into = "gone"]] \in [Downloads -> BoundedDownload]
<1>1. "gone" \in Targets /\ "file" \in Targets
  BY DEF Targets
<1>2. ASSUME NEW ds \in [Downloads -> BoundedDownload]
      PROVE  Rebuilt(ds) \in [Downloads -> BoundedDownload]
  <2>1. \A d \in Downloads : [ds[d] EXCEPT !.own = FALSE] \in BoundedDownload
    BY RecordsTyped
  <2> QED
    BY <2>1 DEF Rebuilt
<1>3. ASSUME DownloadsTyped
      PROVE  /\ \A d \in Downloads : /\ dl[d] \in BoundedDownload
                                     /\ [dl[d] EXCEPT !.own = FALSE] \in BoundedDownload
                                     /\ [dl[d] EXCEPT !.into = "gone"] \in BoundedDownload
  BY <1>1, <1>3, RecordsTyped DEF DownloadsTyped
<1>4. ASSUME DownloadsTyped, NEW name
      PROVE  Unlinked(name) \in [Downloads -> BoundedDownload]
  BY <1>3, <1>4 DEF Unlinked
<1>5. ASSUME DownloadsTyped
      PROVE  Renamed \in [Downloads -> BoundedDownload]
  <2> SUFFICES ASSUME NEW d \in Downloads
               PROVE  [dl[d] EXCEPT !.into = CASE @ = "partial" -> "file" [] @ = "file" -> "gone" [] OTHER -> @]
                        \in BoundedDownload
    BY DEF Renamed
  <2> DEFINE to == CASE dl[d].into = "partial" -> "file" [] dl[d].into = "file" -> "gone" [] OTHER -> dl[d].into
  <2>1. dl[d].into \in Targets /\ dl[d] \in BoundedDownload
    BY <1>3, <1>5 DEF BoundedDownload
  <2>2. to \in Targets
    <3>1. CASE dl[d].into = "partial"
      BY <1>1, <3>1
    <3>2. CASE dl[d].into = "file"
      BY <1>1, <3>2
    <3>3. CASE dl[d].into = "gone"
      BY <1>1, <3>3
    <3> QED
      BY <2>1, <3>1, <3>2, <3>3 DEF Targets
  <2> HIDE DEF to
  <2>3. [dl[d] EXCEPT !.into = to] \in BoundedDownload
    BY <2>1, <2>2, RecordsTyped
  <2> QED
    BY <2>3 DEF to
<1> QED
  BY <1>2, <1>3, <1>4, <1>5

LEMMA StatusTyped == \A p, f : Status(p, f) \in {"nothing", "partial", "installed"}
  BY DEF Status

LEMMA PanelsTyped ==
  ASSUME modelPage \in PanelType
  PROVE  /\ \A d \in Downloads \union {NoDownload} : [modelPage EXCEPT !.awaits = d] \in PanelType
         /\ \A s \in {"nothing", "partial", "installed"} :
               [modelPage EXCEPT !.shows = s] \in PanelType /\ [awaits |-> NoDownload, shows |-> s] \in PanelType
  BY DEF PanelType

LEMMA EndedTyped ==
  ASSUME ModelTypeInv, NEW d \in Downloads, NEW ds \in [Downloads -> BoundedDownload], NEW p \in Contents,
         NEW f \in Contents, Ended(d, ds, p, f), UNCHANGED <<android, mounts, query, loads, badLoad, overlapped>>
  PROVE  ModelTypeInv'
<1>1. [ds EXCEPT ![d] = FreshDownload] \in [Downloads -> BoundedDownload]
  BY FreshTyped
<1>2. dl' \in [Downloads -> BoundedDownload]
  BY <1>1, TablesTyped DEF Ended
<1>3. modelPage' \in PanelType
  BY StatusTyped, PanelsTyped DEF Ended, ModelTypeInv, PanelTyped
<1>4. activeDownload' \in Downloads \union {NoDownload} /\ partial' = p /\ file' = f
  BY DEF Ended, ModelTypeInv, PanelTyped
<1> QED
  BY <1>2, <1>3, <1>4 DEF ModelTypeInv, FilesTyped, DownloadsTyped, PanelTyped, QueryTyped

LEMMA StreamTyped ==
  ASSUME ModelTypeInv, NEW d \in Downloads, NEW intact \in BOOLEAN, ReceiveBlock(d, intact)
  PROVE  ModelTypeInv'
<1>1. dl[d] \in BoundedDownload /\ dl[d].pos \in 0..Blocks /\ dl[d].pos < Blocks /\ dl[d].append \in BOOLEAN
  BY DEF ModelTypeInv, DownloadsTyped, BoundedDownload, ReceiveBlock
<1>2. partial \in Contents /\ file \in Contents
  BY DEF ModelTypeInv, FilesTyped
<1>3. partial' \in Contents /\ file' \in Contents
  BY <1>1, <1>2, BlockPut DEF ReceiveBlock
<1>4. dl' \in [Downloads -> BoundedDownload]
  <2> DEFINE n == dl[d].pos + 1
  <2>1. n \in 0..Blocks
    BY <1>1, LocalModelAssumption
  <2>2. dl' = [dl EXCEPT ![d] = [dl[d] EXCEPT !.pos = n]]
    BY DEF ReceiveBlock, ModelTypeInv, DownloadsTyped
  <2> HIDE DEF n
  <2>3. [dl[d] EXCEPT !.pos = n] \in BoundedDownload
    BY <1>1, <2>1, RecordsTyped
  <2> QED
    BY <2>2, <2>3 DEF ModelTypeInv, DownloadsTyped
<1> QED
  BY <1>3, <1>4 DEF ReceiveBlock, ModelTypeInv, FilesTyped, DownloadsTyped, PanelTyped, QueryTyped

LEMMA RespondTyped ==
  ASSUME ModelTypeInv, NEW d \in Downloads, NEW resumed \in BOOLEAN, Respond(d, resumed)
  PROVE  ModelTypeInv'
<1> DEFINE append == resumed \/ android
           n == IF resumed THEN partial.len ELSE 0
<1>1. append \in BOOLEAN
  BY DEF ModelTypeInv
<1>2. n \in 0..Blocks
  BY LocalModelAssumption DEF Respond
<1>3. dl' = [dl EXCEPT ![d] = [dl[d] EXCEPT !.at = "stream", !.into = "partial", !.append = append, !.pos = n]]
  BY DEF Respond, ModelTypeInv, DownloadsTyped
<1> HIDE DEF append, n
<1>4. [dl[d] EXCEPT !.at = "stream", !.into = "partial", !.append = append, !.pos = n] \in BoundedDownload
  <2>1. dl[d] \in BoundedDownload /\ "stream" \in Steps
    BY DEF ModelTypeInv, DownloadsTyped, Steps
  <2> QED
    BY <1>1, <1>2, <2>1, RecordsTyped
<1>5. dl' \in [Downloads -> BoundedDownload]
  BY <1>3, <1>4 DEF ModelTypeInv, DownloadsTyped
<1>6. partial' \in Contents
  <2>1. 0 \in 0..(Blocks + 2)
    BY LocalModelAssumption
  <2> QED
    BY <2>1, FilesKnown DEF Respond, ModelTypeInv, FilesTyped
<1> QED
  BY <1>5, <1>6 DEF Respond, ModelTypeInv, FilesTyped, DownloadsTyped, PanelTyped, QueryTyped

LEMMA DownloadMovesTyped ==
  ASSUME ModelTypeInv, NEW d \in Downloads,
         Download(d) \/ ResponseEnds(d) \/ Flushed(d) \/ ConnectionFails(d) \/ Aborts(d) \/ Verify(d)
  PROVE  ModelTypeInv'
<1>0. dl \in [Downloads -> BoundedDownload] /\ dl[d] \in BoundedDownload
  BY DEF ModelTypeInv, DownloadsTyped
<1>1. {"verify", "flush", "failed", "verified"} \subseteq Steps
  BY DEF Steps
<1>2. CASE Download(d)
  <2>1. dl' \in [Downloads -> BoundedDownload]
    BY <1>0, <1>2, FreshTyped DEF Download
  <2>2. modelPage' \in PanelType
    BY <1>2, PanelsTyped DEF Download, ModelTypeInv, PanelTyped
  <2> QED
    BY <1>2, <2>1, <2>2 DEF Download, ModelTypeInv, FilesTyped, DownloadsTyped, PanelTyped, QueryTyped
<1>3. CASE ResponseEnds(d)
  <2>1. PICK at \in Steps : dl' = [dl EXCEPT ![d] = [dl[d] EXCEPT !.at = at]]
    BY <1>0, <1>1, <1>3 DEF ResponseEnds
  <2>2. dl' \in [Downloads -> BoundedDownload]
    BY <1>0, <2>1, RecordsTyped
  <2> QED
    BY <1>3, <2>2 DEF ResponseEnds, ModelTypeInv, FilesTyped, DownloadsTyped, PanelTyped, QueryTyped
<1>4. CASE Flushed(d)
  <2>1. dl' = [dl EXCEPT ![d] = [dl[d] EXCEPT !.at = "verify", !.into = "gone", !.own = FALSE]]
    BY <1>0, <1>4 DEF Flushed
  <2>2. dl' \in [Downloads -> BoundedDownload]
    BY <1>0, <1>1, <2>1, RecordsTyped
  <2> QED
    BY <1>4, <2>2 DEF Flushed, ModelTypeInv, FilesTyped, DownloadsTyped, PanelTyped, QueryTyped
<1>5. CASE ConnectionFails(d) \/ Aborts(d)
  <2>1. dl' = [dl EXCEPT ![d] = [dl[d] EXCEPT !.at = "failed"]]
    BY <1>0, <1>5 DEF ConnectionFails, Aborts
  <2>2. dl' \in [Downloads -> BoundedDownload]
    BY <1>0, <1>1, <2>1, RecordsTyped
  <2> QED
    BY <1>5, <2>2 DEF ConnectionFails, Aborts, ModelTypeInv, FilesTyped, DownloadsTyped, PanelTyped, QueryTyped
<1>6. CASE Verify(d)
  <2> DEFINE ds == IF Verified(d) THEN dl ELSE Unlinked("partial")
  <2>1. ds \in [Downloads -> BoundedDownload] /\ ds[d] \in BoundedDownload
    BY <1>0, TablesTyped DEF ModelTypeInv
  <2>2. PICK at \in Steps : dl' = [ds EXCEPT ![d].at = at]
    BY <1>1, <1>6 DEF Verify
  <2> HIDE DEF ds
  <2>3. dl' = [ds EXCEPT ![d] = [ds[d] EXCEPT !.at = at]]
    BY <2>1, <2>2
  <2>4. dl' \in [Downloads -> BoundedDownload]
    BY <2>1, <2>3, RecordsTyped
  <2>5. partial' \in Contents
    BY <1>6, FilesKnown DEF Verify, ModelTypeInv, FilesTyped
  <2> QED
    BY <1>6, <2>4, <2>5 DEF Verify, ModelTypeInv, FilesTyped, DownloadsTyped, PanelTyped, QueryTyped
<1> QED
  BY <1>2, <1>3, <1>4, <1>5, <1>6

LEMMA CancelTyped ==
  ASSUME ModelTypeInv, NEW del \in BOOLEAN, Cancel(del)
  PROVE  ModelTypeInv'
<1> DEFINE d == activeDownload
           deletes == del /\ d = NoDownload
           at == IF dl[d].at = "flush" THEN "hung" ELSE dl[d].at
           next == IF d = NoDownload THEN IF deletes THEN Unlinked("partial") ELSE dl
                   ELSE [dl EXCEPT ![d] = [dl[d] EXCEPT !.cancelled = TRUE, !.del = del, !.at = at]]
<1>0. dl \in [Downloads -> BoundedDownload] /\ d \in Downloads \union {NoDownload} /\ modelPage \in PanelType
  BY DEF ModelTypeInv, DownloadsTyped, PanelTyped
<1>1. next \in [Downloads -> BoundedDownload]
  <2>1. CASE d = NoDownload
    BY <1>0, <2>1, TablesTyped DEF ModelTypeInv
  <2>2. CASE d # NoDownload
    <3>1. d \in Downloads /\ dl[d] \in BoundedDownload
      BY <1>0, <2>2
    <3>2. at \in Steps
      BY <3>1 DEF BoundedDownload, Steps
    <3> HIDE DEF at, d
    <3>3. [dl[d] EXCEPT !.cancelled = TRUE, !.del = del, !.at = at] \in BoundedDownload
      BY <3>1, <3>2, RecordsTyped
    <3> QED
      BY <1>0, <2>2, <3>1, <3>3
  <2> QED
    BY <2>1, <2>2
<1>2. dl' = IF del THEN Rebuilt(next) ELSE next
  <2>1. CASE d = NoDownload
    BY <2>1 DEF Cancel
  <2>2. CASE d # NoDownload
    <3>1. next = [dl EXCEPT ![d].cancelled = TRUE, ![d].del = del, ![d].at = IF @ = "flush" THEN "hung" ELSE @]
      BY <1>0, <2>2
    <3> QED
      BY <2>2, <3>1 DEF Cancel
  <2> QED
    BY <2>1, <2>2
<1> HIDE DEF next
<1>3. dl' \in [Downloads -> BoundedDownload]
  BY <1>1, <1>2, TablesTyped
<1>4. partial' \in Contents
  BY FilesKnown DEF Cancel, ModelTypeInv, FilesTyped
<1>5. activeDownload' \in Downloads \union {NoDownload}
  BY <1>0 DEF Cancel, ActiveAfterStatus
<1>6. modelPage' \in PanelType
  BY <1>0, StatusTyped, PanelsTyped DEF Cancel
<1> QED
  BY <1>3, <1>4, <1>5, <1>6 DEF Cancel, ModelTypeInv, FilesTyped, DownloadsTyped, PanelTyped, QueryTyped

LEMMA PanelMovesTyped ==
  ASSUME ModelTypeInv, RemoveModel \/ SelectTier \/ Remount
  PROVE  ModelTypeInv'
<1>0. /\ dl \in [Downloads -> BoundedDownload] /\ modelPage \in PanelType /\ DownloadsTyped
      /\ activeDownload \in Downloads \union {NoDownload}
  BY DEF ModelTypeInv, DownloadsTyped, PanelTyped
<1>1. dl' \in [Downloads -> BoundedDownload]
  BY <1>0, TablesTyped DEF RemoveModel, SelectTier, Remount
<1>2. modelPage' \in PanelType
  <2>1. CASE RemoveModel
    BY <1>0, <2>1, PanelsTyped DEF RemoveModel
  <2>2. CASE SelectTier
    BY <1>0, <2>2, StatusTyped, PanelsTyped DEF SelectTier
  <2>3. CASE Remount
    BY <1>0, <2>3, StatusTyped, PanelsTyped DEF Remount
  <2> QED
    BY <2>1, <2>2, <2>3
<1>3. activeDownload' \in Downloads \union {NoDownload}
  BY <1>0 DEF RemoveModel, SelectTier, Remount, ActiveAfterStatus
<1>4. partial' \in Contents /\ file' \in Contents
  BY FilesKnown DEF RemoveModel, SelectTier, Remount, ModelTypeInv, FilesTyped
<1>5. mounts' \in 0..MaxMounts
  BY LocalModelAssumption DEF RemoveModel, SelectTier, Remount, ModelTypeInv, PanelTyped
<1> QED
  BY <1>1, <1>2, <1>3, <1>4, <1>5
     DEF RemoveModel, SelectTier, Remount, ModelTypeInv, FilesTyped, DownloadsTyped, PanelTyped, QueryTyped

LEMMA QueryMovesTyped ==
  ASSUME ModelTypeInv, Query \/ QueryVerifies \/ QueryLoads \/ \E timedOut \in BOOLEAN : QueryEnds(timedOut)
  PROVE  ModelTypeInv'
<1>1. UNCHANGED <<android, partial, file, dl, activeDownload, modelPage, mounts, overlapped>>
  BY DEF Query, QueryVerifies, QueryLoads, QueryEnds
<1>2. QueryTyped'
  <2>0. QueryTyped /\ loads \in Nat /\ MaxLoads \in Nat
    BY LocalModelAssumption DEF ModelTypeInv, QueryTyped
  <2>1. CASE Query \/ QueryVerifies
    BY <2>0, <2>1 DEF Query, QueryVerifies, QueryTyped
  <2>2. CASE QueryLoads
    <3>1. loads < MaxLoads => loads + 1 \in 0..MaxLoads /\ loads + 1 > 0
      BY <2>0
    <3>2. badLoad' \in BOOLEAN
      BY <2>0, <2>2 DEF QueryLoads, QueryTyped
    <3> QED
      BY <2>0, <2>2, <3>1, <3>2 DEF QueryLoads, QueryTyped
  <2>3. ASSUME NEW timedOut \in BOOLEAN, QueryEnds(timedOut)
        PROVE  QueryTyped'
    BY <2>0, <2>3 DEF QueryEnds, QueryTyped
  <2> QED
    BY <2>1, <2>2, <2>3
<1> QED
  BY <1>1, <1>2 DEF ModelTypeInv, FilesTyped, DownloadsTyped, PanelTyped

\* The files, the downloads, the panel and the runtimes keep their types on both platforms.
THEOREM ModelTyped == ModelSpec => []ModelTypeOK
<1>1. ModelInit => ModelTypeInv
  <2> SUFFICES ASSUME ModelInit
               PROVE  ModelTypeInv
    OBVIOUS
  <2>1. 0 \in 0..MaxMounts /\ 0 \in 0..MaxLoads
    BY LocalModelAssumption
  <2>2. dl \in [Downloads -> BoundedDownload]
    BY FreshTyped DEF ModelInit
  <2>3. modelPage \in PanelType
    BY DEF ModelInit, PanelType
  <2> QED
    BY <2>1, <2>2, <2>3, FilesKnown DEF ModelInit, ModelTypeInv, FilesTyped, DownloadsTyped, PanelTyped, QueryTyped
<1>2. ModelTypeInv /\ [ModelNext]_modelVars => ModelTypeInv'
  <2> SUFFICES ASSUME ModelTypeInv, [ModelNext]_modelVars
               PROVE  ModelTypeInv'
    OBVIOUS
  <2>1. ASSUME NEW d \in Downloads, Install(d) \/ DownloadRejects(d)
        PROVE  ModelTypeInv'
    <3>1. /\ dl \in [Downloads -> BoundedDownload] /\ Renamed \in [Downloads -> BoundedDownload]
          /\ Unlinked("partial") \in [Downloads -> BoundedDownload]
          /\ partial \in Contents /\ file \in Contents /\ NoFile \in Contents
      BY TablesTyped, FilesKnown DEF ModelTypeInv, DownloadsTyped, FilesTyped
    <3>2. /\ \E ds \in {dl, Renamed, Unlinked("partial")}, p \in {NoFile, partial}, f \in {partial, file} : Ended(d, ds, p, f)
          /\ UNCHANGED <<android, mounts, query, loads, badLoad, overlapped>>
      BY <2>1 DEF Install, DownloadRejects
    <3>3. PICK ds \in {dl, Renamed, Unlinked("partial")}, p \in {NoFile, partial}, f \in {partial, file} : Ended(d, ds, p, f)
      BY <3>2
    <3>4. ds \in [Downloads -> BoundedDownload] /\ p \in Contents /\ f \in Contents
      BY <3>1
    <3> QED
      BY <3>2, <3>3, <3>4, EndedTyped
  <2>2. CASE UNCHANGED modelVars
    BY <2>2 DEF modelVars, ModelTypeInv, FilesTyped, DownloadsTyped, PanelTyped, QueryTyped
  <2> QED
    BY <2>1, <2>2, StreamTyped, RespondTyped, DownloadMovesTyped, CancelTyped, PanelMovesTyped, QueryMovesTyped
       DEF ModelNext
<1>3. ModelTypeInv => ModelTypeOK
  BY DEF ModelTypeInv, ModelTypeOK, FilesTyped, DownloadsTyped, PanelTyped, QueryTyped, BoundedDownload, PanelType
<1> QED
  BY <1>1, <1>2, <1>3, PTL DEF ModelSpec

-----------------------------------------------------------------------------
(***************************************************************************)
(* The cyber pages: what is filled in belongs to what is on the screen.    *)
(* WizardInv adds that the effect that is alive asks for the asset and the *)
(* class on the screen; what answers it does so through Alive.             *)
(***************************************************************************)
(***************************************************************************)
(* The effect of step 1 that is alive asks for what is on the screen.      *)
(***************************************************************************)
WizardShape(w) ==
    w \in [step : 0..4, asset : {w.asset}, class : {w.class}, by : {w.by}, touched : {w.touched},
           caps : {w.caps}, probed : {w.probed}, plan : {w.plan}]
AskShape(a) ==
    a \in [asset : {a.asset}, class : {a.class}, touched : {a.touched}, caps : {a.caps}, at : {a.at},
           tried : {a.tried}]
Targeted(w) == w.step \in 1..3 => w.asset # NoAsset
Matches(a, w) ==
    /\ a # NoAsk => a.asset = w.asset /\ a.class = w.class /\ a.touched = w.touched
    /\ a.at = "probe" => ~a.touched /\ a # NoAsk
FitsOn(w) ==
    /\ w.step = 1 /\ w.plan # NoPlan => w.plan = Plan(w.asset, w.class)
    /\ w.touched => w.by = "user"
WizardInv ==
    /\ WizardShape(wizard) /\ AskShape(asking)
    /\ Targeted(wizard) /\ Matches(asking, wizard) /\ FitsOn(wizard)

LEMMA AsksWhatIsShown ==
  ASSUME NEW w
  PROVE  /\ AskShape(AsksFor(w)) /\ Matches(AsksFor(w), w)
         /\ AsksFor(w) = NoAsk <=> ~(w.step = 1 /\ w.asset # NoAsset)
  BY DEF AsksFor, NoAsk, AskShape, Matches

LEMMA ShowsFits ==
  ASSUME WizardInv, NEW w, WizardShape(w), Shows(w), Targeted(w), w.touched => w.by = "user",
         Depends(w) = Depends(wizard) => w.plan = wizard.plan
  PROVE  WizardInv'
<1>1. CASE Depends(w) = Depends(wizard)
  <2>1. wizard' = w /\ asking' = asking
    BY <1>1 DEF Shows
  <2>2. w.step = wizard.step /\ w.asset = wizard.asset /\ w.class = wizard.class /\ w.touched = wizard.touched
    BY <1>1 DEF Depends
  <2>3. FitsOn(w) /\ Matches(asking, w)
    BY <1>1, <2>2 DEF WizardInv, FitsOn, Matches
  <2> QED
    BY <2>1, <2>3 DEF WizardInv
<1>2. CASE Depends(w) # Depends(wizard)
  <2> DEFINE u == [w EXCEPT !.plan = NoPlan]
  <2>1. wizard' = IF AsksFor(w) = NoAsk THEN w ELSE u
    BY <1>2 DEF Shows
  <2>2. asking' = AsksFor(w)
    BY <1>2 DEF Shows
  <2>3. WizardShape(u) /\ u.step = w.step /\ u.asset = w.asset /\ u.class = w.class /\ u.by = w.by
        /\ u.touched = w.touched /\ u.plan = NoPlan
    BY DEF WizardShape
  <2> HIDE DEF u
  <2>4. Matches(AsksFor(w), w) /\ Matches(AsksFor(w), u) /\ AskShape(AsksFor(w))
    BY <2>3, AsksWhatIsShown DEF Matches
  <2>5. CASE AsksFor(w) = NoAsk
    <3>1. w.step # 1
      BY <2>5, AsksWhatIsShown DEF Targeted, WizardShape
    <3>2. FitsOn(w)
      BY <3>1 DEF FitsOn
    <3> QED
      BY <2>1, <2>2, <2>4, <2>5, <3>2 DEF WizardInv
  <2>6. CASE AsksFor(w) # NoAsk
    <3>1. FitsOn(u) /\ Targeted(u)
      BY <2>3 DEF FitsOn, Targeted
    <3> QED
      BY <2>1, <2>2, <2>3, <2>4, <2>6, <3>1 DEF WizardInv
  <2> QED
    BY <2>5, <2>6
<1> QED
  BY <1>1, <1>2

LEMMA RetargetFits ==
  ASSUME WizardInv, NEW a, a # NoAsset, Shows(Retarget(wizard, a))
  PROVE  WizardInv'
<1> DEFINE w == Retarget(wizard, a)
<1>1. WizardShape(w) /\ w.asset = a /\ w.plan = wizard.plan /\ w.by = wizard.by
      /\ (w.touched => w.by = "user")
  BY DEF WizardInv, WizardShape, Retarget, FitsOn
<1>2. Targeted(w)
  BY <1>1 DEF Targeted
<1>3. Shows(w)
  OBVIOUS
<1> HIDE DEF w
<1> QED
  BY <1>1, <1>2, <1>3, ShowsFits

LEMMA StepFits ==
  ASSUME WizardInv, NEW n \in 0..4, wizard.asset # NoAsset \/ n \in {0, 4}, Shows([wizard EXCEPT !.step = n])
  PROVE  WizardInv'
<1> DEFINE w == [wizard EXCEPT !.step = n]
<1>1. WizardShape(w) /\ w.asset = wizard.asset /\ w.plan = wizard.plan /\ w.by = wizard.by /\ w.step = n
      /\ w.touched = wizard.touched
  BY DEF WizardInv, WizardShape
<1>2. Targeted(w) /\ (w.touched => w.by = "user")
  BY <1>1 DEF Targeted, WizardInv, FitsOn
<1>3. Shows(w)
  OBVIOUS
<1> HIDE DEF w
<1> QED
  BY <1>1, <1>2, <1>3, ShowsFits

LEMMA PickFits ==
  ASSUME WizardInv, NEW c, PickClass(c)
  PROVE  WizardInv'
<1> DEFINE w == [wizard EXCEPT !.class = c, !.by = "user", !.touched = TRUE, !.caps = FALSE]
<1>1. WizardShape(w) /\ w.asset = wizard.asset /\ w.plan = wizard.plan /\ w.by = "user" /\ w.step = wizard.step
  BY DEF WizardInv, WizardShape
<1>2. Targeted(w)
  BY <1>1 DEF Targeted, WizardInv
<1>3. Shows(w)
  BY DEF PickClass
<1> HIDE DEF w
<1> QED
  BY <1>1, <1>2, <1>3, ShowsFits

LEMMA PlanShownFits ==
  ASSUME WizardInv, NEW ask, Alive(ask), ShowsPlan(ask)
  PROVE  WizardInv'
<1>0. ask = asking /\ ask # NoAsk
  BY DEF Alive
<1>1. CASE Shows([wizard EXCEPT !.caps = TRUE])
  <2> DEFINE w == [wizard EXCEPT !.caps = TRUE]
  <2>1. WizardShape(w) /\ w.asset = wizard.asset /\ w.plan = wizard.plan /\ w.by = wizard.by
        /\ w.step = wizard.step /\ w.touched = wizard.touched
    BY DEF WizardInv, WizardShape
  <2>2. Targeted(w) /\ (w.touched => w.by = "user")
    BY <2>1 DEF Targeted, WizardInv, FitsOn
  <2>3. Shows(w)
    BY <1>1
  <2> HIDE DEF w
  <2> QED
    BY <2>1, <2>2, <2>3, ShowsFits
<1>2. CASE wizard' = [wizard EXCEPT !.plan = Plan(ask.asset, ask.class)] /\ HasAnswered(ask)
  <2> DEFINE p == Plan(ask.asset, ask.class)
             w == [wizard EXCEPT !.plan = p]
  <2>1. WizardShape(w) /\ w.asset = wizard.asset /\ w.class = wizard.class /\ w.by = wizard.by
        /\ w.step = wizard.step /\ w.touched = wizard.touched /\ w.plan = p
    BY DEF WizardInv, WizardShape
  <2>2. wizard' = w /\ asking' = NoAsk
    BY <1>0, <1>2 DEF HasAnswered
  <2>3. p = Plan(wizard.asset, wizard.class)
    BY <1>0 DEF WizardInv, Matches
  <2> HIDE DEF w, p
  <2>4. Targeted(w) /\ FitsOn(w)
    BY <2>1, <2>3 DEF WizardInv, Targeted, FitsOn
  <2>5. AskShape(NoAsk) /\ Matches(NoAsk, w)
    BY DEF NoAsk, AskShape, Matches
  <2> QED
    BY <2>1, <2>2, <2>4, <2>5 DEF WizardInv
<1> QED
  BY <1>1, <1>2 DEF ShowsPlan

\* An effect goes on asking, or has had its answer; what is shown stays, but for probed.
StillShown(w) ==
    /\ WizardShape(w) /\ w.step = wizard.step /\ w.asset = wizard.asset /\ w.class = wizard.class
    /\ w.by = wizard.by /\ w.touched = wizard.touched /\ w.plan = wizard.plan

Continues(ask, next) ==
    /\ AsksNext(ask, next) /\ ask = asking /\ ask # NoAsk
    /\ AskShape(next) /\ next.asset = ask.asset /\ next.class = ask.class /\ next.touched = ask.touched
    /\ next.at = "probe" => ~ask.touched

LEMMA GoesOn ==
  ASSUME WizardInv, StillShown(wizard'), NEW ask, HasAnswered(ask) \/ \E next : Continues(ask, next)
  PROVE  WizardInv'
<1>1. AskShape(asking') /\ Matches(asking', wizard)
  <2>1. CASE asking' = asking
    BY <2>1 DEF WizardInv
  <2>2. CASE asking' = NoAsk
    BY <2>2 DEF AskShape, Matches, NoAsk
  <2>3. ASSUME NEW next, Continues(ask, next)
        PROVE  AskShape(asking') /\ Matches(asking', wizard)
    <3>1. asking' = next
      BY <2>3 DEF AsksNext, Continues
    <3>2. next.at = "probe" => next # NoAsk
      BY DEF NoAsk
    <3> QED
      BY <2>3, <3>1, <3>2 DEF WizardInv, Matches, Continues
  <2>4. CASE HasAnswered(ask)
    BY <2>1, <2>2, <2>4 DEF HasAnswered
  <2> QED
    BY <2>3, <2>4
<1>2. Targeted(wizard') /\ FitsOn(wizard') /\ Matches(asking', wizard')
  BY <1>1 DEF WizardInv, StillShown, Targeted, FitsOn, Matches
<1> QED
  BY <1>1, <1>2 DEF WizardInv, StillShown

LEMMA AnswersFit ==
  ASSUME WizardInv, NEW ask \in {asking, stale}, ScopeAnswers(ask) \/ PlanAnswers(ask) \/ ProbeAnswers(ask)
  PROVE  WizardInv'
<1>1. ASSUME wizard' = wizard
      PROVE  StillShown(wizard')
  BY <1>1 DEF WizardInv, StillShown
<1>2. ASSUME HasAnswered(ask), wizard' = wizard
      PROVE  WizardInv'
  BY <1>1, <1>2, GoesOn
<1>3. ASSUME NEW next, AsksNext(ask, next), Alive(ask), StillShown(wizard'), AskShape(next),
             next.asset = ask.asset, next.class = ask.class, next.touched = ask.touched,
             next.at = "probe" => ~ask.touched
      PROVE  WizardInv'
  BY <1>3, GoesOn DEF Alive, Continues
<1>4. ASSUME Alive(ask)
      PROVE  AskShape(ask) /\ ask = asking /\ ask # NoAsk /\ (ask.at = "probe" => ~ask.touched)
             /\ (ask.at = "probe" => ~wizard.touched)
  BY <1>4 DEF Alive, WizardInv, Matches
<1>5. CASE ScopeAnswers(ask)
  <2>1. wizard' = wizard
    BY <1>5 DEF ScopeAnswers
  <2>2. CASE Alive(ask) /\ AsksNext(ask, [ask EXCEPT !.at = "plan"])
    <3> DEFINE next == [ask EXCEPT !.at = "plan"]
    <3>1. AskShape(next) /\ next.asset = ask.asset /\ next.class = ask.class /\ next.touched = ask.touched
          /\ next.at = "plan"
      BY <1>4, <2>2 DEF AskShape
    <3>2. AsksNext(ask, next)
      BY <2>2
    <3> HIDE DEF next
    <3> QED
      BY <1>1, <1>3, <2>1, <2>2, <3>1, <3>2
  <2> QED
    BY <1>2, <1>5, <2>1, <2>2 DEF ScopeAnswers
<1>6. CASE PlanAnswers(ask)
  <2>1. CASE Alive(ask) /\ ShowsPlan(ask)
    BY <2>1, PlanShownFits
  <2>2. CASE /\ Alive(ask) /\ ~ask.touched
             /\ wizard' = [wizard EXCEPT !.probed = TRUE]
             /\ AsksNext(ask, [ask EXCEPT !.at = "probe", !.tried = {ask.class}])
    <3> DEFINE tried == {ask.class}
               next == [ask EXCEPT !.at = "probe", !.tried = tried]
    <3>1. AskShape(next) /\ next.asset = ask.asset /\ next.class = ask.class /\ next.touched = ask.touched
      BY <1>4, <2>2 DEF AskShape
    <3>2. AsksNext(ask, next)
      BY <2>2
    <3>3. StillShown(wizard')
      BY <2>2 DEF WizardInv, StillShown, WizardShape
    <3> HIDE DEF next
    <3> QED
      BY <1>3, <2>2, <3>1, <3>2, <3>3
  <2>3. CASE HasAnswered(ask) /\ wizard' = wizard
    BY <1>2, <2>3
  <2> QED
    BY <1>6, <2>1, <2>2, <2>3 DEF PlanAnswers
<1>7. CASE ProbeAnswers(ask)
  <2>1. CASE Alive(ask) /\ ShowsPlan(ask)
    BY <2>1, PlanShownFits
  <2>2. CASE Alive(ask) /\ Shows([wizard EXCEPT !.class = Candidate(ask), !.by = "bci", !.caps = FALSE])
    <3> DEFINE c == Candidate(ask)
               w == [wizard EXCEPT !.class = c, !.by = "bci", !.caps = FALSE]
    <3>1. Shows(w)
      BY <2>2
    <3>2. ~wizard.touched
      BY <1>4, <1>7, <2>2 DEF ProbeAnswers
    <3> HIDE DEF c
    <3>3. WizardShape(w) /\ w.asset = wizard.asset /\ w.plan = wizard.plan /\ w.step = wizard.step
          /\ w.touched = wizard.touched
      BY DEF WizardInv, WizardShape
    <3> HIDE DEF w
    <3>4. Targeted(w) /\ (w.touched => w.by = "user")
      BY <3>2, <3>3 DEF Targeted, WizardInv
    <3> QED
      BY <3>1, <3>3, <3>4, ShowsFits
  <2>3. CASE /\ Alive(ask) /\ wizard' = wizard
             /\ AsksNext(ask, [ask EXCEPT !.tried = @ \union {Candidate(ask)}])
    <3> DEFINE tried == ask.tried \union {Candidate(ask)}
               next == [ask EXCEPT !.tried = tried]
    <3>1. AsksNext(ask, next)
      BY <2>3
    <3> HIDE DEF tried
    <3>2. AskShape(next) /\ next.asset = ask.asset /\ next.class = ask.class /\ next.touched = ask.touched
          /\ next.at = ask.at
      BY <1>4, <2>3 DEF AskShape
    <3> HIDE DEF next
    <3> QED
      BY <1>1, <1>3, <1>4, <2>3, <3>1, <3>2
  <2>4. CASE HasAnswered(ask) /\ wizard' = wizard
    BY <1>2, <2>4
  <2> QED
    BY <1>7, <2>1, <2>2, <2>3, <2>4 DEF ProbeAnswers
<1> QED
  BY <1>5, <1>6, <1>7

LEMMA WizardSteps ==
  ASSUME WizardInv, [WizardNext]_wizardVars
  PROVE  WizardInv'
<1>1. ASSUME UNCHANGED <<wizard, asking>>
      PROVE  WizardInv'
  BY <1>1 DEF WizardInv
<1>2. ASSUME NEW a \in Assets, SelectExisting(a)
      PROVE  WizardInv'
  BY <1>2, RetargetFits, WizardAssumption DEF SelectExisting
<1>3. CASE AssetCreated
  BY <1>1, <1>3, RetargetFits, WizardAssumption DEF AssetCreated
<1>4. CASE ToggleCapability
  <2> DEFINE w == [wizard EXCEPT !.plan = NoPlan]
  <2>1. StillShown(w) \/ (WizardShape(w) /\ w.step = wizard.step /\ w.asset = wizard.asset /\ w.class = wizard.class
                      /\ w.by = wizard.by /\ w.touched = wizard.touched /\ w.plan = NoPlan)
    BY DEF WizardInv, WizardShape
  <2>2. wizard' = w /\ asking' = AsksFor(wizard)
    BY <1>4 DEF ToggleCapability
  <2> HIDE DEF w
  <2>3. Targeted(w) /\ FitsOn(w) /\ WizardShape(w) /\ Matches(AsksFor(wizard), w)
    BY <2>1, AsksWhatIsShown DEF WizardInv, Targeted, FitsOn, Matches, StillShown
  <2> QED
    BY <2>2, <2>3, AsksWhatIsShown DEF WizardInv
<1>5. CASE NextStep
  <2>1. wizard.step \in 0..4 /\ wizard.step < 3
    BY <1>5 DEF NextStep, WizardInv, WizardShape
  <2>2. wizard.asset # NoAsset
    <3>1. CASE wizard.step = 0
      BY <1>5, <3>1 DEF NextStep, Proceeds
    <3>2. CASE wizard.step # 0
      BY <2>1, <3>2 DEF WizardInv, Targeted
    <3> QED
      BY <3>1, <3>2
  <2> DEFINE n == wizard.step + 1
  <2>3. n \in 0..4 /\ Shows([wizard EXCEPT !.step = n])
    BY <1>5, <2>1 DEF NextStep
  <2> HIDE DEF n
  <2> QED
    BY <2>2, <2>3, StepFits
<1>6. CASE PrevStep
  <2> DEFINE n == wizard.step - 1
  <2>1. n \in 0..4 /\ Shows([wizard EXCEPT !.step = n]) /\ wizard.asset # NoAsset
    BY <1>6 DEF PrevStep, WizardInv, Targeted
  <2> HIDE DEF n
  <2> QED
    BY <2>1, StepFits
<1>7. ASSUME NEW s, NEW status, Advances(s, status)
      PROVE  WizardInv'
  <2>1. CASE status \in ShowsResult
    <3>1. Shows([wizard EXCEPT !.step = 4])
      BY <1>7, <2>1 DEF Advances
    <3> QED
      BY <3>1, StepFits
  <2>2. CASE status \notin ShowsResult
    <3>1. Shows(wizard)
      BY <1>7, <2>2 DEF Advances
    <3> QED
      BY <1>1, <3>1 DEF Shows
  <2> QED
    BY <2>1, <2>2
<1>8. CASE ScanCreated
  BY <1>1, <1>7, <1>8 DEF ScanCreated
<1>9. ASSUME NEW status \in Statuses, PollAnswers(status)
      PROVE  WizardInv'
  BY <1>7, <1>9 DEF PollAnswers
<1>10. CASE \/ CheckDuplicateAndCreate \/ CreationGoesOn \/ StartAnalysis \/ WorkerMoves \/ Tick
            \/ (\E status \in Statuses : PollFails(status)) \/ UNCHANGED wizardVars
  BY <1>1, <1>10 DEF CheckDuplicateAndCreate, CreationGoesOn, StartAnalysis, WorkerMoves, Tick, PollFails,
     wizardVars
<1> QED
  BY <1>2, <1>3, <1>4, <1>5, <1>6, <1>8, <1>9, <1>10, PickFits, AnswersFit DEF WizardNext

LEMMA WizardStarts == WizardInit => WizardInv
<1> SUFFICES ASSUME WizardInit
             PROVE  WizardInv
  OBVIOUS
<1>1. WizardShape(wizard) /\ wizard.step = 0 /\ wizard.plan = NoPlan /\ wizard.touched = FALSE
  BY DEF WizardInit, WizardShape
<1>2. AskShape(asking) /\ asking = NoAsk /\ asking.at = "none"
  BY DEF WizardInit, AskShape, NoAsk
<1> QED
  BY <1>1, <1>2 DEF WizardInv, Targeted, Matches, FitsOn

LEMMA WizardFits == WizardSpec => []PlanFits
<1>1. WizardInit => WizardInv
  BY WizardStarts
<1>2. WizardInv /\ [WizardNext]_wizardVars => WizardInv'
  BY WizardSteps
<1>3. WizardInv => PlanFits
  BY DEF WizardInv, FitsOn, PlanFits
<1> QED
  BY <1>1, <1>2, <1>3, PTL DEF WizardSpec

-----------------------------------------------------------------------------
(***************************************************************************)
(* The types of the wizard.  An answer brings in only what was asked, and   *)
(* what was asked was on the screen (WizardInv); a probe has a class left   *)
(* to try, so its next candidate exists.                                    *)
(***************************************************************************)
AskSteps == {"none", "scope", "plan", "probe"}
PlanType == [asset : Known \union {NoAsset}, class : 0..NumClasses]
WizardType == [step : 0..4, asset : Known \union {NoAsset}, class : Classes, by : {"default", "user", "bci"},
               touched : BOOLEAN, caps : BOOLEAN, probed : BOOLEAN, plan : PlanType]
ScanType == [real : Statuses \union {"none"}, seen : Statuses \union {"none"}, polls : SUBSET Statuses,
             timer : BOOLEAN, starting : BOOLEAN, runs : 0..MaxRuns, of : PlanType, chosen : PlanType]

AskTyped(a) == a.at \in AskSteps /\ (a.at = "probe" => a.tried \subseteq Classes /\ a.tried # Classes)
ScreenTyped == wizard \in WizardType /\ AskTyped(asking) /\ stale.at \in AskSteps
\* A scan that is watched, or asked for, is on the server.
Counted(s) ==
    s \in ScanType /\ Cardinality(s.polls) <= MaxPolls /\ (s.timer \/ s.polls # {} => s.real # "none")
ScanTyped == Counted(scan)
WizardTypeInv ==
    WizardInv /\ ScreenTyped /\ creation \in {"none", "checking", "creating", "naming"} /\ ScanTyped

Less == {pair \in Nat \X Nat : pair[1] < pair[2]}

LEMMA SmallestIn ==
  ASSUME NEW T \in SUBSET Nat, T # {}
  PROVE  \E m \in T : \A k \in T : m <= k
<1>1. IsWellFoundedOn(Less, Nat)
  BY NatLessThanWellFounded, Zenon DEF OpToRel, Less
<1>2. PICK m \in T : \A k \in T : ~(<<k, m>> \in Less)
  BY <1>1, WFMin
<1>3. ASSUME NEW k \in T
      PROVE  m <= k
  <2>1. ~(<<k, m>> \in Less) /\ k \in Nat /\ m \in Nat
    BY <1>2
  <2> QED
    BY <2>1 DEF Less
<1> QED
  BY <1>3

LEMMA CandidateTyped ==
  ASSUME NEW ask, ask.tried \subseteq Classes, ask.tried # Classes
  PROVE  Candidate(ask) \in Classes /\ ask.tried \union {Candidate(ask)} \subseteq Classes
<1>1. Classes \ ask.tried \in SUBSET Nat /\ Classes \ ask.tried # {}
  <2>1. Classes \subseteq Nat
    BY WizardAssumption DEF Classes
  <2>2. Classes \ ask.tried # {}
    OBVIOUS
  <2> QED
    BY <2>1, <2>2
<1>2. \E m \in Classes \ ask.tried : \A k \in Classes \ ask.tried : m <= k
  BY <1>1, SmallestIn
<1>3. Candidate(ask) \in Classes \ ask.tried
  BY <1>2 DEF Candidate
<1> QED
  BY <1>3

LEMMA PlansTyped ==
  /\ NoPlan \in PlanType /\ NoAsk.at = "none" /\ AskTyped(NoAsk)
  /\ \A a \in Known \union {NoAsset}, c \in Classes : Plan(a, c) \in PlanType
<1>1. 0 \in 0..NumClasses /\ \A c \in Classes : c \in 0..NumClasses
  BY WizardAssumption DEF Classes
<1> QED
  BY <1>1 DEF NoPlan, Plan, PlanType, NoAsk, AskTyped, AskSteps

LEMMA ShowsTyped ==
  ASSUME ScreenTyped, NEW w \in WizardType, Shows(w)
  PROVE  ScreenTyped'
<1> DEFINE u == [w EXCEPT !.plan = NoPlan]
<1>1. u \in WizardType
  BY PlansTyped DEF WizardType
<1>2. AskTyped(AsksFor(w))
  BY DEF AsksFor, NoAsk, AskTyped, AskSteps
<1>3. wizard' = w \/ wizard' = u
  BY DEF Shows
<1>4. asking' = asking \/ asking' = AsksFor(w)
  BY DEF Shows
<1>5. stale' = stale \/ stale' = asking
  BY DEF Shows
<1> HIDE DEF u
<1> QED
  BY <1>1, <1>2, <1>3, <1>4, <1>5 DEF ScreenTyped, AskTyped

\* What an event may change of the wizard before the effect.
LEMMA EditsTyped ==
  ASSUME wizard \in WizardType
  PROVE  /\ \A a \in Known : Retarget(wizard, a) \in WizardType
         /\ \A n \in 0..4 : [wizard EXCEPT !.step = n] \in WizardType
         /\ \A c \in Classes : /\ [wizard EXCEPT !.class = c, !.by = "user", !.touched = TRUE, !.caps = FALSE] \in WizardType
                               /\ [wizard EXCEPT !.class = c, !.by = "bci", !.caps = FALSE] \in WizardType
         /\ [wizard EXCEPT !.caps = TRUE] \in WizardType
         /\ [wizard EXCEPT !.probed = TRUE] \in WizardType
         /\ \A p \in PlanType : [wizard EXCEPT !.plan = p] \in WizardType
<1>1. ASSUME NEW a \in Known
      PROVE  Retarget(wizard, a) \in WizardType
  BY DEF Retarget, WizardType
<1>2. ASSUME NEW n \in 0..4
      PROVE  [wizard EXCEPT !.step = n] \in WizardType
  BY DEF WizardType
<1>3. ASSUME NEW c \in Classes
      PROVE  /\ [wizard EXCEPT !.class = c, !.by = "user", !.touched = TRUE, !.caps = FALSE] \in WizardType
             /\ [wizard EXCEPT !.class = c, !.by = "bci", !.caps = FALSE] \in WizardType
  BY DEF WizardType
<1>4. [wizard EXCEPT !.caps = TRUE] \in WizardType /\ [wizard EXCEPT !.probed = TRUE] \in WizardType
  BY DEF WizardType
<1>5. ASSUME NEW p \in PlanType
      PROVE  [wizard EXCEPT !.plan = p] \in WizardType
  BY DEF WizardType
<1> QED
  BY <1>1, <1>2, <1>3, <1>4, <1>5

\* The answer to an effect ends it.
LEMMA AnsweredTyped ==
  ASSUME ScreenTyped, NEW ask, HasAnswered(ask), wizard' \in WizardType
  PROVE  ScreenTyped'
<1>1. asking' \in {asking, NoAsk} /\ stale' \in {stale, NoAsk}
  BY DEF HasAnswered
<1> QED
  BY <1>1, PlansTyped DEF ScreenTyped, AskTyped, AskSteps

LEMMA AnotherAskTyped ==
  ASSUME ScreenTyped, NEW ask, Alive(ask), NEW next, AsksNext(ask, next), AskTyped(next), wizard' \in WizardType
  PROVE  ScreenTyped'
<1>1. asking' = next /\ stale' = stale
  BY DEF AsksNext, Alive
<1> QED
  BY <1>1 DEF ScreenTyped

\* What an effect that is alive asks for.
LEMMA AliveAsks ==
  ASSUME WizardInv, ScreenTyped, NEW ask, Alive(ask)
  PROVE  AskShape(ask) /\ AskTyped(ask) /\ ask.asset \in Known \union {NoAsset} /\ ask.class \in Classes
  BY DEF Alive, WizardInv, Matches, ScreenTyped, WizardType

LEMMA PlanShownTyped ==
  ASSUME WizardInv, ScreenTyped, NEW ask, Alive(ask), ShowsPlan(ask)
  PROVE  ScreenTyped'
<1>1. CASE Shows([wizard EXCEPT !.caps = TRUE])
  BY <1>1, ShowsTyped, EditsTyped DEF ScreenTyped
<1>2. CASE wizard' = [wizard EXCEPT !.plan = Plan(ask.asset, ask.class)] /\ HasAnswered(ask)
  <2>1. Plan(ask.asset, ask.class) \in PlanType
    BY AliveAsks, PlansTyped
  <2>2. wizard' \in WizardType
    BY <1>2, <2>1, EditsTyped DEF ScreenTyped
  <2> QED
    BY <1>2, <2>2, AnsweredTyped
<1> QED
  BY <1>1, <1>2 DEF ShowsPlan

LEMMA AnswersTyped ==
  ASSUME WizardInv, ScreenTyped, NEW ask \in {asking, stale},
         ScopeAnswers(ask) \/ PlanAnswers(ask) \/ ProbeAnswers(ask)
  PROVE  ScreenTyped'
<1>0. wizard \in WizardType
  BY DEF ScreenTyped
<1>1. ASSUME HasAnswered(ask), wizard' = wizard
      PROVE  ScreenTyped'
  BY <1>0, <1>1, AnsweredTyped
<1>2. CASE ScopeAnswers(ask)
  <2>1. CASE Alive(ask) /\ AsksNext(ask, [ask EXCEPT !.at = "plan"])
    <3>1. AskTyped([ask EXCEPT !.at = "plan"])
      BY <2>1, AliveAsks DEF AskShape, AskTyped, AskSteps
    <3> QED
      BY <1>0, <1>2, <2>1, <3>1, AnotherAskTyped DEF ScopeAnswers
  <2> QED
    BY <1>1, <1>2, <2>1 DEF ScopeAnswers
<1>3. CASE PlanAnswers(ask)
  <2>1. CASE Alive(ask) /\ ShowsPlan(ask)
    BY <2>1, PlanShownTyped
  <2>2. CASE /\ Alive(ask) /\ NumClasses > 1 /\ wizard' = [wizard EXCEPT !.probed = TRUE]
             /\ AsksNext(ask, [ask EXCEPT !.at = "probe", !.tried = {ask.class}])
    <3>1. ask.class \in Classes /\ AskShape(ask)
      BY <2>2, AliveAsks
    <3>2. {ask.class} # Classes
      <4>1. 1 \in Classes /\ 2 \in Classes
        BY <2>2, WizardAssumption DEF Classes
      <4> QED
        BY <4>1
    <3> DEFINE tried == {ask.class}
               next == [ask EXCEPT !.at = "probe", !.tried = tried]
    <3>3. tried \subseteq Classes /\ tried # Classes /\ AsksNext(ask, next)
      BY <2>2, <3>1, <3>2
    <3> HIDE DEF tried
    <3>4. AskTyped(next)
      BY <3>1, <3>3 DEF AskShape, AskTyped, AskSteps
    <3> HIDE DEF next
    <3>5. wizard' \in WizardType
      BY <1>0, <2>2, EditsTyped
    <3> QED
      BY <2>2, <3>3, <3>4, <3>5, AnotherAskTyped
  <2> QED
    BY <1>1, <1>3, <2>1, <2>2 DEF PlanAnswers
<1>4. CASE ProbeAnswers(ask)
  <2>1. CASE ~Alive(ask)
    BY <1>1, <1>4, <2>1 DEF ProbeAnswers
  <2>2. CASE Alive(ask)
    <3>1. AskShape(ask) /\ AskTyped(ask) /\ ask.at = "probe"
      BY <1>4, <2>2, AliveAsks DEF ProbeAnswers
    <3>2. Candidate(ask) \in Classes /\ ask.tried \union {Candidate(ask)} \subseteq Classes
      BY <3>1, CandidateTyped DEF AskTyped
    <3>3. CASE Shows([wizard EXCEPT !.class = Candidate(ask), !.by = "bci", !.caps = FALSE])
      BY <1>0, <3>2, <3>3, EditsTyped, ShowsTyped
    <3>4. CASE /\ ask.tried \union {Candidate(ask)} # Classes /\ wizard' = wizard
               /\ AsksNext(ask, [ask EXCEPT !.tried = @ \union {Candidate(ask)}])
      <4> DEFINE tried == ask.tried \union {Candidate(ask)}
                 next == [ask EXCEPT !.tried = tried]
      <4>1. tried \subseteq Classes /\ tried # Classes /\ AsksNext(ask, next)
        BY <3>2, <3>4
      <4> HIDE DEF tried
      <4>2. AskTyped(next)
        BY <3>1, <4>1 DEF AskShape, AskTyped
      <4> HIDE DEF next
      <4> QED
        BY <1>0, <2>2, <3>4, <4>1, <4>2, AnotherAskTyped
    <3>5. CASE ShowsPlan(ask)
      BY <2>2, <3>5, PlanShownTyped
    <3> QED
      BY <1>4, <2>2, <3>3, <3>4, <3>5 DEF ProbeAnswers
  <2> QED
    BY <2>1, <2>2
<1> QED
  BY <1>2, <1>3, <1>4

\* What the code changes in the record of the scan.
LEMMA PollsFinite ==
  ASSUME NEW S \in SUBSET Statuses, NEW s
  PROVE  IsFiniteSet(S) /\ Cardinality(S) \in Nat /\ Cardinality(S \ {s}) <= Cardinality(S)
<1>1. IsFiniteSet(Statuses)
  <2>1. Statuses = {"QUEUED", "RUNNING", "COMPLETED", "NO_COVERAGE", "FAILED"}
    BY DEF Statuses, Terminal
  <2>2. IsFiniteSet({"QUEUED"}) /\ IsFiniteSet({"RUNNING"}) /\ IsFiniteSet({"COMPLETED"})
        /\ IsFiniteSet({"NO_COVERAGE"}) /\ IsFiniteSet({"FAILED"})
    BY FS_Singleton
  <2>3. IsFiniteSet({"QUEUED"} \union {"RUNNING"})
    BY <2>2, FS_Union
  <2>4. IsFiniteSet({"COMPLETED"} \union {"NO_COVERAGE"})
    BY <2>2, FS_Union
  <2>5. IsFiniteSet(({"COMPLETED"} \union {"NO_COVERAGE"}) \union {"FAILED"})
    BY <2>2, <2>4, FS_Union
  <2>6. IsFiniteSet(({"QUEUED"} \union {"RUNNING"}) \union (({"COMPLETED"} \union {"NO_COVERAGE"}) \union {"FAILED"}))
    BY <2>3, <2>5, FS_Union
  <2>7. Statuses = ({"QUEUED"} \union {"RUNNING"}) \union (({"COMPLETED"} \union {"NO_COVERAGE"}) \union {"FAILED"})
    BY <2>1
  <2> QED
    BY <2>6, <2>7
<1>2. IsFiniteSet(S) /\ Cardinality(S) \in Nat
  BY <1>1, FS_Subset, FS_CardinalityType
<1> QED
  BY <1>2, FS_Subset

LEMMA OptimisesTyped ==
  ASSUME NEW s \in ScanType, NEW w
  PROVE  /\ Optimises(s, w) \in ScanType /\ Optimises(s, w).polls = s.polls
         /\ Optimises(s, w).timer = s.timer /\ Optimises(s, w).real = s.real
<1> DEFINE n == s.runs + 1
<1>1. s.runs < MaxRuns => n \in 0..MaxRuns
  BY WizardAssumption DEF ScanType
<1>2. Optimises(s, w) = s \/ (s.runs < MaxRuns /\ Optimises(s, w) = [s EXCEPT !.runs = n])
  BY DEF Optimises
<1> HIDE DEF n
<1>3. n \in 0..MaxRuns => [s EXCEPT !.runs = n] \in ScanType /\ [s EXCEPT !.runs = n].polls = s.polls
      /\ [s EXCEPT !.runs = n].timer = s.timer /\ [s EXCEPT !.runs = n].real = s.real
  BY DEF ScanType
<1> QED
  BY <1>1, <1>2, <1>3

LEMMA AdvancesTyped ==
  ASSUME ScreenTyped, NEW s, Counted(s), s.real # "none", NEW status \in Statuses, Advances(s, status)
  PROVE  ScreenTyped' /\ ScanTyped'
<1> DEFINE t == Watches(s, status)
<1>1. t \in ScanType /\ t.polls = s.polls /\ t.real = s.real
  BY DEF Watches, ScanType, Counted
<1>2. PICK w \in {wizard, [wizard EXCEPT !.step = 4]} : Shows(w) /\ scan' = Optimises(t, w)
  BY DEF Advances
<1>3. w \in WizardType
  <2>1. 4 \in 0..4 /\ wizard \in WizardType
    BY DEF ScreenTyped
  <2>2. [wizard EXCEPT !.step = 4] \in WizardType
    BY <2>1, EditsTyped
  <2> QED
    BY <1>2, <2>1, <2>2
<1> HIDE DEF t
<1>4. ScreenTyped'
  BY <1>2, <1>3, ShowsTyped
<1>5. scan' \in ScanType /\ scan'.polls = s.polls /\ scan'.real = s.real
  BY <1>1, <1>2, OptimisesTyped
<1> QED
  BY <1>4, <1>5 DEF ScanTyped, Counted

LEMMA ScanSteps ==
  ASSUME WizardInv, ScreenTyped, ScanTyped,
         \/ StartAnalysis \/ ScanCreated \/ WorkerMoves \/ Tick
         \/ \E status \in Statuses : PollAnswers(status) \/ PollFails(status)
  PROVE  ScreenTyped' /\ ScanTyped' /\ creation' = creation
<1>0. scan \in ScanType /\ scan.polls \in SUBSET Statuses /\ Cardinality(scan.polls) <= MaxPolls
      /\ (scan.timer \/ scan.polls # {} => scan.real # "none")
      /\ wizard.plan \in PlanType /\ Plan(wizard.asset, wizard.class) \in PlanType
  BY PlansTyped DEF ScanTyped, Counted, ScanType, ScreenTyped, WizardType
<1>1. ASSUME UNCHANGED <<wizard, asking, stale>> PROVE ScreenTyped'
  BY <1>1 DEF ScreenTyped, AskTyped
<1>2. CASE StartAnalysis
  <2> DEFINE of == Plan(wizard.asset, wizard.class)
  <2>1. scan' = [scan EXCEPT !.starting = TRUE, !.of = of, !.chosen = wizard.plan]
    BY <1>2 DEF StartAnalysis
  <2>2. of \in PlanType
    BY <1>0
  <2> HIDE DEF of
  <2>3. scan' \in ScanType /\ scan'.polls = scan.polls /\ scan'.timer = scan.timer /\ scan'.real = scan.real
    BY <1>0, <2>1, <2>2 DEF ScanType
  <2> QED
    BY <1>0, <1>1, <1>2, <2>3 DEF StartAnalysis, ScanTyped, Counted
<1>3. CASE ScanCreated
  <2> DEFINE s == [scan EXCEPT !.real = "QUEUED", !.starting = FALSE]
             t == [scan EXCEPT !.starting = FALSE]
  <2>1. s \in ScanType /\ s.polls = scan.polls /\ s.real = "QUEUED"
    BY <1>0 DEF ScanType, Statuses
  <2>2. t \in ScanType /\ t.polls = scan.polls /\ t.timer = scan.timer /\ t.real = scan.real
    BY <1>0 DEF ScanType
  <2>3. "QUEUED" \in Statuses
    BY DEF Statuses
  <2>4. creation' = creation /\ (Advances(s, "QUEUED") \/ (scan' = t /\ UNCHANGED <<wizard, asking, stale>>))
    BY <1>3 DEF ScanCreated
  <2> HIDE DEF s, t
  <2>5. Counted(s) /\ s.real # "none" /\ Counted(t)
    BY <1>0, <2>1, <2>2 DEF Counted
  <2>6. CASE Advances(s, "QUEUED")
    BY <2>3, <2>4, <2>5, <2>6, AdvancesTyped
  <2>7. CASE scan' = t /\ UNCHANGED <<wizard, asking, stale>>
    BY <1>1, <2>4, <2>5, <2>7 DEF ScanTyped
  <2> QED
    BY <2>4, <2>6, <2>7
<1>4. CASE WorkerMoves
  <2>1. PICK status \in After(scan.real) : scan' = [scan EXCEPT !.real = status]
    BY <1>4 DEF WorkerMoves
  <2>2. status \in Statuses
    <3>1. CASE scan.real = "QUEUED"
      BY <2>1, <3>1 DEF After, Statuses, Terminal
    <3>2. CASE scan.real = "RUNNING"
      BY <2>1, <3>2 DEF After, Statuses, Terminal
    <3>3. CASE scan.real \notin {"QUEUED", "RUNNING"}
      BY <2>1, <3>3 DEF After
    <3> QED
      BY <3>1, <3>2, <3>3
  <2>3. "none" \notin Statuses
    BY DEF Statuses, Terminal
  <2>4. scan' \in ScanType /\ scan'.polls = scan.polls /\ scan'.real = status
    BY <1>0, <2>1, <2>2 DEF ScanType
  <2> QED
    BY <1>0, <1>1, <1>4, <2>2, <2>3, <2>4 DEF WorkerMoves, ScanTyped, Counted
<1>5. CASE Tick
  <2> DEFINE asked == scan.polls \union {scan.real}
  <2>1. scan' = [scan EXCEPT !.polls = asked] /\ Cardinality(asked) <= MaxPolls /\ scan.timer
    BY <1>5 DEF Tick
  <2>2. asked \subseteq Statuses
    BY <1>0, <2>1 DEF ScanType
  <2> HIDE DEF asked
  <2>3. scan' \in ScanType /\ scan'.polls = asked /\ scan'.real = scan.real
    BY <1>0, <2>1, <2>2 DEF ScanType
  <2> QED
    BY <1>0, <1>1, <1>5, <2>1, <2>3 DEF Tick, ScanTyped, Counted
<1>6. ASSUME NEW status \in Statuses, PollAnswers(status) \/ PollFails(status)
      PROVE  ScreenTyped' /\ ScanTyped' /\ creation' = creation
  <2> DEFINE asked == scan.polls \ {status}
             s == [scan EXCEPT !.polls = asked]
             t == [scan EXCEPT !.polls = asked, !.timer = FALSE]
  <2>1. asked \subseteq Statuses /\ Cardinality(asked) <= MaxPolls
    <3>1. Cardinality(asked) \in Nat /\ Cardinality(scan.polls) \in Nat /\ Cardinality(asked) <= Cardinality(scan.polls)
      BY <1>0, PollsFinite
    <3> QED
      BY <1>0, <3>1, WizardAssumption
  <2>2. PollAnswers(status) => Advances(s, status) /\ UNCHANGED creation
    BY DEF PollAnswers
  <2>3. PollFails(status) => scan' = t /\ UNCHANGED <<wizard, asking, stale, creation>>
    BY DEF PollFails
  <2>4. status \in scan.polls
    BY <1>6 DEF PollAnswers, PollFails
  <2>5. scan.real # "none"
    BY <1>0, <2>4
  <2> HIDE DEF asked
  <2>6. s \in ScanType /\ s.polls = asked /\ s.real = scan.real
        /\ t \in ScanType /\ t.polls = asked /\ t.real = scan.real
    BY <1>0, <2>1 DEF ScanType
  <2> HIDE DEF s, t
  <2>7. Counted(s) /\ s.real # "none" /\ Counted(t)
    BY <2>1, <2>5, <2>6 DEF Counted
  <2>8. CASE PollAnswers(status)
    BY <2>2, <2>7, <2>8, AdvancesTyped
  <2>9. CASE PollFails(status)
    BY <1>1, <2>3, <2>7, <2>9 DEF ScanTyped
  <2> QED
    BY <1>6, <2>8, <2>9
<1> QED
  BY <1>2, <1>3, <1>4, <1>5, <1>6

LEMMA ChoicesTyped ==
  ASSUME WizardTypeInv,
         \/ \E a \in Assets : SelectExisting(a)
         \/ CheckDuplicateAndCreate \/ CreationGoesOn \/ AssetCreated
         \/ ToggleCapability \/ \E c \in Classes : PickClass(c)
         \/ NextStep \/ PrevStep
  PROVE  ScreenTyped' /\ ScanTyped' /\ creation' \in {"none", "checking", "creating", "naming"}
<1>0. wizard \in WizardType /\ ScreenTyped /\ ScanTyped /\ creation \in {"none", "checking", "creating", "naming"}
  BY DEF WizardTypeInv, ScreenTyped
<1>1. ASSUME UNCHANGED <<wizard, asking, stale>> PROVE ScreenTyped'
  BY <1>0, <1>1 DEF ScreenTyped, AskTyped
<1>2. ASSUME UNCHANGED scan PROVE ScanTyped'
  BY <1>0, <1>2 DEF ScanTyped, Counted
<1>3. ASSUME NEW a \in Assets, SelectExisting(a)
      PROVE  ScreenTyped' /\ ScanTyped' /\ creation' = creation
  <2>1. Retarget(wizard, a) \in WizardType
    BY <1>0, EditsTyped DEF Known
  <2> QED
    BY <1>0, <1>2, <1>3, <2>1, ShowsTyped DEF SelectExisting
<1>4. CASE CheckDuplicateAndCreate \/ CreationGoesOn
  BY <1>0, <1>1, <1>2, <1>4 DEF CheckDuplicateAndCreate, CreationGoesOn
<1>5. CASE AssetCreated
  <2>1. Retarget(wizard, Made) \in WizardType
    BY <1>0, EditsTyped DEF Known
  <2>2. scan' = Optimises(scan, wizard) => ScanTyped'
    BY <1>0, OptimisesTyped DEF ScanTyped, Counted
  <2> QED
    BY <1>0, <1>1, <1>2, <1>5, <2>1, <2>2, ShowsTyped DEF AssetCreated
<1>6. CASE ToggleCapability
  <2> DEFINE w == [wizard EXCEPT !.plan = NoPlan]
  <2>1. w \in WizardType
    BY <1>0, EditsTyped, PlansTyped
  <2>2. wizard' = w /\ asking' = AsksFor(wizard) /\ (stale' = stale \/ stale' = asking) /\ UNCHANGED <<creation, scan>>
    BY <1>6 DEF ToggleCapability
  <2> HIDE DEF w
  <2>3. AskTyped(AsksFor(wizard))
    BY DEF AsksFor, NoAsk, AskTyped, AskSteps
  <2>4. ScreenTyped'
    BY <1>0, <2>1, <2>2, <2>3 DEF ScreenTyped, AskTyped
  <2> QED
    BY <1>0, <1>2, <2>2, <2>4
<1>7. ASSUME NEW c \in Classes, PickClass(c)
      PROVE  ScreenTyped' /\ ScanTyped' /\ creation' = creation
  <2>1. [wizard EXCEPT !.class = c, !.by = "user", !.touched = TRUE, !.caps = FALSE] \in WizardType
    BY <1>0, EditsTyped
  <2> QED
    BY <1>0, <1>2, <1>7, <2>1, ShowsTyped DEF PickClass
<1>8. CASE NextStep \/ PrevStep
  <2>1. PICK n \in {wizard.step + 1, wizard.step - 1} : Shows([wizard EXCEPT !.step = n]) /\ n \in 0..4
    BY <1>0, <1>8 DEF NextStep, PrevStep, WizardType
  <2>2. [wizard EXCEPT !.step = n] \in WizardType
    BY <1>0, <2>1, EditsTyped
  <2>3. UNCHANGED <<creation, scan>>
    BY <1>8 DEF NextStep, PrevStep
  <2> QED
    BY <1>0, <1>2, <2>1, <2>2, <2>3, ShowsTyped
<1> QED
  BY <1>0, <1>3, <1>4, <1>5, <1>6, <1>7, <1>8

LEMMA WizardTypeStep ==
  ASSUME WizardTypeInv, [WizardNext]_wizardVars
  PROVE  WizardTypeInv'
<1>0. WizardInv /\ ScreenTyped /\ ScanTyped /\ creation \in {"none", "checking", "creating", "naming"}
  BY DEF WizardTypeInv
<1>1. WizardInv'
  BY <1>0, WizardSteps
<1>2. ASSUME NEW ask \in {asking, stale}, ScopeAnswers(ask) \/ PlanAnswers(ask) \/ ProbeAnswers(ask)
      PROVE  ScreenTyped' /\ ScanTyped' /\ creation' = creation
  <2>1. UNCHANGED <<creation, scan>>
    BY <1>2 DEF ScopeAnswers, PlanAnswers, ProbeAnswers
  <2> QED
    BY <1>0, <1>2, <2>1, AnswersTyped DEF ScanTyped, Counted
<1>3. ASSUME UNCHANGED wizardVars
      PROVE  ScreenTyped' /\ ScanTyped' /\ creation' \in {"none", "checking", "creating", "naming"}
  <2>1. wizard' = wizard /\ asking' = asking /\ stale' = stale /\ creation' = creation /\ scan' = scan
    BY <1>3 DEF wizardVars
  <2>2. ScreenTyped'
    BY <1>0, <2>1 DEF ScreenTyped, AskTyped
  <2>3. ScanTyped'
    BY <1>0, <2>1 DEF ScanTyped, Counted
  <2> QED
    BY <1>0, <2>1, <2>2, <2>3
<1>4. ASSUME \/ StartAnalysis \/ ScanCreated \/ WorkerMoves \/ Tick
             \/ \E status \in Statuses : PollAnswers(status) \/ PollFails(status)
      PROVE  ScreenTyped' /\ ScanTyped' /\ creation' \in {"none", "checking", "creating", "naming"}
  BY <1>0, <1>4, ScanSteps
<1>5. ASSUME \/ \E a \in Assets : SelectExisting(a)
             \/ CheckDuplicateAndCreate \/ CreationGoesOn \/ AssetCreated
             \/ ToggleCapability \/ \E c \in Classes : PickClass(c)
             \/ NextStep \/ PrevStep
      PROVE  ScreenTyped' /\ ScanTyped' /\ creation' \in {"none", "checking", "creating", "naming"}
  BY <1>5, ChoicesTyped
<1>6. ScreenTyped' /\ ScanTyped' /\ creation' \in {"none", "checking", "creating", "naming"}
  BY <1>0, <1>2, <1>3, <1>4, <1>5 DEF WizardNext
<1> QED
  BY <1>1, <1>6 DEF WizardTypeInv

\* The wizard keeps to its types: its steps, the class it tries next, the
\* polls and the runs of its scan (CyberNewAnalysisWizard.jsx).
THEOREM WizardTyped == WizardSpec => []WizardTypeOK
<1>1. WizardInit => WizardTypeInv
  <2> SUFFICES ASSUME WizardInit
               PROVE  WizardTypeInv
    OBVIOUS
  <2>1. wizard \in WizardType
    <3>1. 1 \in Classes
      BY WizardAssumption DEF Classes
    <3> QED
      BY <3>1, PlansTyped DEF WizardInit, WizardType
  <2>2. ScreenTyped
    BY <2>1, PlansTyped DEF WizardInit, ScreenTyped, AskSteps
  <2>3. ScanTyped
    <3>1. Cardinality({}) = 0
      BY FS_EmptySet
    <3>2. {} \in SUBSET Statuses /\ 0 \in 0..MaxRuns /\ 0 <= MaxPolls
      BY WizardAssumption
    <3>3. scan \in ScanType /\ scan.polls = {} /\ scan.timer = FALSE
      BY <3>2, PlansTyped DEF WizardInit, ScanType
    <3> QED
      BY <3>1, <3>2, <3>3 DEF ScanTyped, Counted
  <2> QED
    BY <2>2, <2>3, WizardStarts DEF WizardInit, WizardTypeInv
<1>2. WizardTypeInv /\ [WizardNext]_wizardVars => WizardTypeInv'
  BY WizardTypeStep
<1>3. WizardTypeInv => WizardTypeOK
  BY DEF WizardTypeInv, WizardTypeOK, ScreenTyped, AskTyped, AskSteps, ScanTyped, Counted, WizardType, PlanType, ScanType
<1> QED
  BY <1>1, <1>2, <1>3, PTL DEF WizardSpec

-----------------------------------------------------------------------------
(***************************************************************************)
(* The console: a target waits only until the scans tab is entered.        *)
(***************************************************************************)
ConsoleShape(c) == c \in [tab : {c.tab}, can : {c.can}, pending : {c.pending}, wizard : {c.wizard}]
ConsoleInv ==
    /\ ConsoleShape(console) /\ NoStalePrefill
    /\ form \in [filled : {form.filled}, target : {form.target}, submitted : {form.submitted}]
    /\ console.pending = NoOwned

LEMMA Forms == NoForm \in [filled : {NoForm.filled}, target : {NoForm.target}, submitted : {NoForm.submitted}]
               /\ NoForm.target = NoOwned
  BY DEF NoForm

LEMMA EntersFits ==
  ASSUME ConsoleInv, NEW tab, NEW c, ConsoleShape(c), c.tab = console.tab, Enters(tab, c),
         c.pending = NoOwned \/ (tab = "scans" /\ console.tab # "scans")
  PROVE  ConsoleInv'
<1>1. CASE tab = console.tab
  <2> DEFINE u == [c EXCEPT !.can = TRUE]
  <2>1. ConsoleShape(u) /\ u.tab = console.tab /\ u.pending = c.pending
    BY DEF ConsoleShape
  <2>2. console' = u /\ UNCHANGED <<form, visit>>
    BY <1>1 DEF Enters
  <2> HIDE DEF u
  <2> QED
    BY <1>1, <2>1, <2>2 DEF ConsoleInv, NoStalePrefill
<1>2. CASE tab # console.tab
  <2> DEFINE f == IF tab = "scans" THEN Prefilled(c.pending) ELSE NoForm
             can == Unlocks(tab, f)
             left == IF tab = "scans" THEN NoOwned ELSE c.pending
             u == [c EXCEPT !.tab = tab, !.can = can, !.pending = left]
  <2>1. console' = u /\ form' = f /\ visit' = IF tab = "scans" THEN c.pending ELSE NoOwned
    BY <1>2 DEF Enters, Consumes
  <2>2. f \in [filled : {f.filled}, target : {f.target}, submitted : {f.submitted}]
        /\ f.target = IF tab = "scans" THEN c.pending ELSE NoOwned
    BY DEF Prefilled, NoForm
  <2> HIDE DEF f, can, left
  <2>3. ConsoleShape(u) /\ u.tab = tab /\ u.pending = left
    BY DEF ConsoleShape
  <2>4. left = NoOwned
    BY DEF left
  <2> HIDE DEF u
  <2> QED
    BY <2>1, <2>2, <2>3, <2>4 DEF ConsoleInv, NoStalePrefill
<1> QED
  BY <1>1, <1>2

LEMMA TypesFit ==
  ASSUME ConsoleInv, NEW f, f.target = NoOwned, Types(f),
         f \in [filled : {f.filled}, target : {f.target}, submitted : {f.submitted}]
  PROVE  ConsoleInv'
<1> DEFINE can == Unlocks(console.tab, f)
           u == [console EXCEPT !.can = can]
<1>1. console' = u /\ form' = f /\ visit' = visit
  BY DEF Types
<1> HIDE DEF can
<1>2. ConsoleShape(u) /\ u.tab = console.tab /\ u.pending = console.pending
  BY DEF ConsoleInv, ConsoleShape
<1> HIDE DEF u
<1> QED
  BY <1>1, <1>2 DEF ConsoleInv, NoStalePrefill

LEMMA ConsoleSteps ==
  ASSUME ConsoleInv, [ConsoleNext]_consoleVars
  PROVE  ConsoleInv'
<1>1. ASSUME UNCHANGED <<console, form, visit>>
      PROVE  ConsoleInv'
  BY <1>1 DEF ConsoleInv, NoStalePrefill, ConsoleShape
<1>2. ASSUME NEW tab, Enters(tab, console)
      PROVE  ConsoleInv'
  BY <1>2, EntersFits DEF ConsoleInv
<1>3. CASE (\E tab \in Tabs : Sidebar(tab)) \/ GoNext \/ GoPrev
  BY <1>2, <1>3 DEF Sidebar, GoNext, GoPrev
<1>4. CASE OpenWizard \/ CloseWizard
  <2> DEFINE open == console.wizard = FALSE
  <2>1. ASSUME NEW b
        PROVE  LET u == [console EXCEPT !.wizard = b]
               IN  ConsoleShape(u) /\ u.tab = console.tab /\ u.pending = console.pending
    BY DEF ConsoleInv, ConsoleShape
  <2>2. ASSUME NEW b, console' = [console EXCEPT !.wizard = b], UNCHANGED <<form, visit>>
        PROVE  ConsoleInv'
    BY <2>1, <2>2 DEF ConsoleInv, NoStalePrefill
  <2>3. ASSUME Enters("findings", [console EXCEPT !.wizard = FALSE])
        PROVE  ConsoleInv'
    <3> DEFINE u == [console EXCEPT !.wizard = FALSE]
    <3>1. ConsoleShape(u) /\ u.tab = console.tab /\ u.pending = console.pending
      BY <2>1
    <3>2. Enters("findings", u)
      BY <2>3
    <3> HIDE DEF u
    <3> QED
      BY <3>1, <3>2, EntersFits DEF ConsoleInv
  <2> QED
    BY <1>4, <2>2, <2>3 DEF OpenWizard, CloseWizard
<1>5. CASE FillOrEmpty
  <2> DEFINE b == ~form.filled
             f == [form EXCEPT !.filled = b, !.target = NoOwned]
  <2>1. Types(f)
    BY <1>5 DEF FillOrEmpty
  <2> HIDE DEF b
  <2>2. f.target = NoOwned /\ f \in [filled : {f.filled}, target : {f.target}, submitted : {f.submitted}]
    BY DEF ConsoleInv
  <2> HIDE DEF f
  <2> QED
    BY <2>1, <2>2, TypesFit
<1>6. CASE CreateAsset
  BY <1>6, TypesFit, Forms DEF CreateAsset
<1>7. ASSUME NEW a \in Owned, StartScanFor(a)
      PROVE  ConsoleInv'
  <2> DEFINE u == [console EXCEPT !.pending = a]
  <2>1. ConsoleShape(u) /\ u.tab = console.tab
    BY DEF ConsoleInv, ConsoleShape
  <2>2. Enters("scans", u) /\ console.tab = "assets"
    BY <1>7 DEF StartScanFor
  <2> HIDE DEF u
  <2> QED
    BY <2>1, <2>2, EntersFits
<1>8. CASE CreateScan
  <2> DEFINE u == [console EXCEPT !.can = TRUE]
             f == [NoForm EXCEPT !.submitted = TRUE]
  <2>1. console' = u /\ form' = f /\ visit' = visit
    BY <1>8 DEF CreateScan
  <2>2. ConsoleShape(u) /\ u.tab = console.tab /\ u.pending = console.pending
    BY DEF ConsoleInv, ConsoleShape
  <2>3. f \in [filled : {f.filled}, target : {f.target}, submitted : {f.submitted}] /\ f.target = NoOwned
    BY DEF NoForm
  <2> HIDE DEF u, f
  <2> QED
    BY <2>1, <2>2, <2>3 DEF ConsoleInv, NoStalePrefill
<1>9. CASE PollAnswered
  <2> DEFINE u == [console EXCEPT !.can = TRUE]
             v == [console EXCEPT !.tab = "findings", !.can = TRUE]
  <2>1. ConsoleShape(u) /\ u.tab = console.tab /\ u.pending = console.pending
    BY DEF ConsoleInv, ConsoleShape
  <2>2. ConsoleShape(v) /\ v.tab = "findings" /\ v.pending = console.pending
    BY DEF ConsoleInv, ConsoleShape
  <2>3. \/ UNCHANGED <<console, form, visit>> \/ (console' = u /\ UNCHANGED <<form, visit>>)
        \/ (console' = v /\ form' = NoForm /\ visit' = NoOwned)
    BY <1>9 DEF PollAnswered
  <2> HIDE DEF u, v
  <2>4. CASE console' = u /\ UNCHANGED <<form, visit>>
    BY <2>1, <2>4 DEF ConsoleInv, NoStalePrefill
  <2>5. CASE console' = v /\ form' = NoForm /\ visit' = NoOwned
    BY <2>2, <2>5, Forms DEF ConsoleInv, NoStalePrefill
  <2> QED
    BY <1>1, <2>3, <2>4, <2>5
<1>10. CASE \/ CloseDetail \/ SaveEdit \/ ScanEnds \/ PollScan \/ PollGivesUp \/ UNCHANGED consoleVars
            \/ \E a \in Owned : SelectAsset(a) \/ AssetLoads(a) \/ AssetFails(a)
  BY <1>1, <1>10 DEF CloseDetail, SaveEdit, ScanEnds, PollScan, PollGivesUp, consoleVars, SelectAsset,
     AssetLoads, AssetFails
<1> QED
  BY <1>3, <1>4, <1>5, <1>6, <1>7, <1>8, <1>9, <1>10 DEF ConsoleNext

LEMMA ConsoleFits == ConsoleSpec => []NoStalePrefill
<1>1. ConsoleInit => ConsoleInv
  <2> SUFFICES ASSUME ConsoleInit
               PROVE  ConsoleInv
    OBVIOUS
  <2>1. ConsoleShape(console) /\ console.pending = NoOwned /\ form = NoForm
    BY DEF ConsoleInit, ConsoleShape
  <2> QED
    BY <2>1, Forms DEF ConsoleInv, NoStalePrefill
<1>2. ConsoleInv /\ [ConsoleNext]_consoleVars => ConsoleInv'
  BY ConsoleSteps
<1>3. ConsoleInv => NoStalePrefill
  BY DEF ConsoleInv
<1> QED
  BY <1>1, <1>2, <1>3, PTL DEF ConsoleSpec

-----------------------------------------------------------------------------
(***************************************************************************)
(* The types of the console.  The name an edit saves is that of the asset  *)
(* loaded, under the one selected: a detail that has loads under way, or   *)
(* has loaded anything, is of a selected asset.                            *)
(***************************************************************************)
Handed == Owned \union {NoOwned}
ConsoleType == [tab : Tabs, can : BOOLEAN, pending : Handed, wizard : BOOLEAN]
FormType == [filled : BOOLEAN, target : Handed, submitted : BOOLEAN]
DetailType == [id : Handed, loaded : Handed, loads : SUBSET Owned]
WatchType == [real : ScanStatuses, poll : ScanStatuses, waiting : BOOLEAN]

TabsTyped == console \in ConsoleType /\ form \in FormType /\ visit \in Handed
DetailTyped ==
    /\ detail \in DetailType /\ saved \subseteq Owned \X Owned
    /\ detail.loads # {} \/ detail.loaded # NoOwned => detail.id # NoOwned
WatchTyped == watch \in WatchType /\ yanked \in BOOLEAN
ConsoleTypeInv == TabsTyped /\ DetailTyped /\ WatchTyped

LEMMA NothingTyped == NoForm \in FormType /\ NoDetail \in DetailType /\ NoDetail.loads = {} /\ NoDetail.loaded = NoOwned
  BY DEF NoForm, NoDetail, FormType, DetailType, Handed

LEMMA FlowTabs ==
  /\ Len(Flow) = 4 /\ \A i \in 1..4 : Flow[i] \in Tabs /\ Place(Flow[i]) = i
  /\ {"dashboard", "assets", "scans", "findings"} \subseteq Tabs
<1>1. Len(Flow) = 4 /\ Flow[1] = "dashboard" /\ Flow[2] = "assets" /\ Flow[3] = "scans" /\ Flow[4] = "findings"
  BY DEF Flow
<1>2. \A i \in 1..4 : Flow[i] \in Tabs
  BY <1>1 DEF Tabs
<1>3. ASSUME NEW i \in 1..4
      PROVE  Place(Flow[i]) = i
  <2>1. \A k \in 1..4 : Flow[k] = Flow[i] => k = i
    BY <1>1
  <2>2. Place(Flow[i]) = CHOOSE k \in 1..4 : Flow[k] = Flow[i]
    BY <1>1 DEF Place
  <2> QED
    BY <2>1, <2>2
<1> QED
  BY <1>1, <1>2, <1>3

LEMMA ConsoleEdits ==
  ASSUME NEW c \in ConsoleType
  PROVE  /\ [c EXCEPT !.can = TRUE] \in ConsoleType
         /\ \A w \in BOOLEAN : [c EXCEPT !.wizard = w] \in ConsoleType
         /\ \A p \in Handed : [c EXCEPT !.pending = p] \in ConsoleType
         /\ \A b \in BOOLEAN : [c EXCEPT !.can = b] \in ConsoleType
         /\ \A tab \in Tabs, b \in BOOLEAN : [c EXCEPT !.tab = tab, !.can = b] \in ConsoleType
         /\ \A tab \in Tabs, b \in BOOLEAN, p \in Handed : [c EXCEPT !.tab = tab, !.can = b, !.pending = p] \in ConsoleType
<1>1. [c EXCEPT !.can = TRUE] \in ConsoleType
  BY DEF ConsoleType
<1>2. ASSUME NEW w \in BOOLEAN PROVE [c EXCEPT !.wizard = w] \in ConsoleType
  BY DEF ConsoleType
<1>3. ASSUME NEW p \in Handed PROVE [c EXCEPT !.pending = p] \in ConsoleType
  BY DEF ConsoleType
<1>4. ASSUME NEW b \in BOOLEAN PROVE [c EXCEPT !.can = b] \in ConsoleType
  BY DEF ConsoleType
<1>5. ASSUME NEW tab \in Tabs, NEW b \in BOOLEAN PROVE [c EXCEPT !.tab = tab, !.can = b] \in ConsoleType
  BY DEF ConsoleType
<1>6. ASSUME NEW tab \in Tabs, NEW b \in BOOLEAN, NEW p \in Handed
      PROVE  [c EXCEPT !.tab = tab, !.can = b, !.pending = p] \in ConsoleType
  BY DEF ConsoleType
<1> QED
  BY <1>1, <1>2, <1>3, <1>4, <1>5, <1>6

LEMMA UnlocksTyped ==
  ASSUME NEW tab, NEW f
  PROVE  Unlocks(tab, f) \in BOOLEAN
  BY DEF Unlocks

LEMMA EntersTyped ==
  ASSUME ConsoleTypeInv, NEW tab \in Tabs, NEW c \in ConsoleType, Enters(tab, c), UNCHANGED <<saved, yanked>>
  PROVE  ConsoleTypeInv'
<1>0. TabsTyped /\ DetailTyped /\ WatchTyped
  BY DEF ConsoleTypeInv
<1>1. CASE tab = console.tab
  <2>1. console' = [c EXCEPT !.can = TRUE] /\ UNCHANGED <<form, visit, detail, watch>>
    BY <1>1 DEF Enters
  <2>2. console' \in ConsoleType
    BY <2>1, ConsoleEdits
  <2> QED
    BY <1>0, <2>1, <2>2 DEF ConsoleTypeInv, TabsTyped, DetailTyped, WatchTyped
<1>2. CASE tab # console.tab
  <2> DEFINE f == IF tab = "scans" THEN Prefilled(c.pending) ELSE NoForm
             can == Unlocks(tab, f)
             p == IF tab = "scans" THEN Consumes(c.pending) ELSE c.pending
  <2>1. /\ form' = f /\ console' = [c EXCEPT !.tab = tab, !.can = can, !.pending = p]
        /\ visit' = IF tab = "scans" THEN c.pending ELSE NoOwned
        /\ detail' = NoDetail /\ watch' = [watch EXCEPT !.waiting = FALSE]
    BY <1>2 DEF Enters
  <2>2. c.pending \in Handed /\ p \in Handed /\ visit' \in Handed
    BY <2>1 DEF Consumes, Handed, ConsoleType
  <2>3. can \in BOOLEAN
    BY UnlocksTyped
  <2>4. f \in FormType
    <3> DEFINE has == c.pending # NoOwned
    <3>1. has \in BOOLEAN
      OBVIOUS
    <3>2. Prefilled(c.pending) = [NoForm EXCEPT !.filled = has, !.target = c.pending]
      BY DEF Prefilled
    <3> HIDE DEF has
    <3>3. Prefilled(c.pending) \in FormType
      BY <2>2, <3>1, <3>2, NothingTyped DEF FormType
    <3> QED
      BY <3>3, NothingTyped
  <2> HIDE DEF f, can, p
  <2>5. console' \in ConsoleType
    BY <2>1, <2>2, <2>3, ConsoleEdits
  <2>6. watch' \in WatchType
    BY <1>0, <2>1 DEF WatchTyped, WatchType
  <2> QED
    BY <1>0, <2>1, <2>2, <2>4, <2>5, <2>6, NothingTyped DEF ConsoleTypeInv, TabsTyped, DetailTyped, WatchTyped
<1> QED
  BY <1>1, <1>2

\* The fields of a tab, and nothing else.
LEMMA FieldsTyped ==
  ASSUME ConsoleTypeInv, NEW f \in FormType, NEW c \in ConsoleType, form' = f, console' = c,
         UNCHANGED <<visit, detail, saved, yanked>>, watch' \in WatchType
  PROVE  ConsoleTypeInv'
  BY DEF ConsoleTypeInv, TabsTyped, DetailTyped, WatchTyped

LEMMA TabMovesTyped ==
  ASSUME ConsoleTypeInv,
         \/ \E tab \in Tabs : Sidebar(tab)
         \/ GoNext \/ GoPrev \/ OpenWizard \/ CloseWizard
         \/ \E a \in Owned : StartScanFor(a)
  PROVE  ConsoleTypeInv'
<1>0. console \in ConsoleType /\ form \in FormType /\ watch \in WatchType
  BY DEF ConsoleTypeInv, TabsTyped, WatchTyped
<1>1. ASSUME NEW tab \in Tabs, Sidebar(tab)
      PROVE  ConsoleTypeInv'
  BY <1>0, <1>1, EntersTyped DEF Sidebar
<1>2. CASE GoNext
  <2>1. PICK i \in 1..3 : console.tab = Flow[i]
    BY <1>2, FlowTabs DEF GoNext
  <2>2. Place(console.tab) = i /\ i + 1 \in 1..4
    BY <2>1, FlowTabs
  <2>3. Flow[i + 1] \in Tabs
    BY <2>2, FlowTabs
  <2> QED
    BY <1>0, <1>2, <2>2, <2>3, EntersTyped DEF GoNext
<1>3. CASE GoPrev
  <2>1. PICK i \in 2..4 : console.tab = Flow[i]
    BY <1>3, FlowTabs DEF GoPrev
  <2>2. Place(console.tab) = i /\ i - 1 \in 1..4
    BY <2>1, FlowTabs
  <2>3. Flow[i - 1] \in Tabs
    BY <2>2, FlowTabs
  <2> QED
    BY <1>0, <1>3, <2>2, <2>3, EntersTyped DEF GoPrev
<1>4. CASE OpenWizard
  <2>1. [console EXCEPT !.wizard = TRUE] \in ConsoleType
    BY <1>0, ConsoleEdits
  <2> QED
    BY <1>0, <1>4, <2>1, FieldsTyped DEF OpenWizard
<1>5. CASE CloseWizard
  <2>1. [console EXCEPT !.wizard = FALSE] \in ConsoleType
    BY <1>0, ConsoleEdits
  <2> QED
    BY <1>0, <1>5, <2>1, FieldsTyped, EntersTyped, FlowTabs DEF CloseWizard
<1>6. ASSUME NEW a \in Owned, StartScanFor(a)
      PROVE  ConsoleTypeInv'
  <2>1. [console EXCEPT !.pending = a] \in ConsoleType
    BY <1>0, ConsoleEdits DEF Handed
  <2> QED
    BY <1>6, <2>1, EntersTyped, FlowTabs DEF StartScanFor
<1> QED
  BY <1>1, <1>2, <1>3, <1>4, <1>5, <1>6

LEMMA FormMovesTyped ==
  ASSUME ConsoleTypeInv, FillOrEmpty \/ CreateAsset \/ CreateScan
  PROVE  ConsoleTypeInv'
<1>0. console \in ConsoleType /\ form \in FormType /\ watch \in WatchType
  BY DEF ConsoleTypeInv, TabsTyped, WatchTyped
<1>1. ASSUME NEW f \in FormType, Types(f)
      PROVE  ConsoleTypeInv'
  <2> DEFINE can == Unlocks(console.tab, f)
  <2>1. form' = f /\ console' = [console EXCEPT !.can = can] /\ UNCHANGED <<visit, detail, saved, watch, yanked>>
    BY <1>1 DEF Types
  <2>2. can \in BOOLEAN
    BY UnlocksTyped
  <2> HIDE DEF can
  <2>3. [console EXCEPT !.can = can] \in ConsoleType
    BY <1>0, <2>2, ConsoleEdits
  <2> QED
    BY <1>0, <2>1, <2>3, FieldsTyped
<1>2. CASE FillOrEmpty
  <2> DEFINE b == ~form.filled
             f == [form EXCEPT !.filled = b, !.target = NoOwned]
  <2>1. Types(f)
    BY <1>2 DEF FillOrEmpty
  <2>2. b \in BOOLEAN /\ NoOwned \in Handed
    BY DEF Handed
  <2> HIDE DEF b
  <2>3. f \in FormType
    BY <1>0, <2>2 DEF FormType
  <2> HIDE DEF f
  <2> QED
    BY <1>1, <2>1, <2>3
<1>3. CASE CreateAsset
  BY <1>1, <1>3, NothingTyped DEF CreateAsset
<1>4. CASE CreateScan
  <2> DEFINE f == [NoForm EXCEPT !.submitted = TRUE]
             c == [console EXCEPT !.can = TRUE]
             w == [watch EXCEPT !.real = "open", !.waiting = TRUE]
  <2>1. form' = f /\ console' = c /\ watch' = w /\ UNCHANGED <<visit, detail, saved, yanked>>
    BY <1>4 DEF CreateScan
  <2>2. f \in FormType
    BY NothingTyped DEF FormType
  <2>3. c \in ConsoleType
    BY <1>0, ConsoleEdits
  <2>4. w \in WatchType
    BY <1>0 DEF WatchType, ScanStatuses
  <2> HIDE DEF f, c, w
  <2> QED
    BY <2>1, <2>2, <2>3, <2>4, FieldsTyped
<1> QED
  BY <1>2, <1>3, <1>4

LEMMA DetailMovesTyped ==
  ASSUME ConsoleTypeInv,
         CloseDetail \/ SaveEdit \/ \E a \in Owned : SelectAsset(a) \/ AssetLoads(a) \/ AssetFails(a)
  PROVE  ConsoleTypeInv'
<1>0. /\ TabsTyped /\ WatchTyped /\ detail \in DetailType /\ saved \subseteq Owned \X Owned
      /\ detail.id \in Handed /\ detail.loaded \in Handed /\ detail.loads \subseteq Owned
      /\ (detail.loads # {} \/ detail.loaded # NoOwned => detail.id # NoOwned)
  BY DEF ConsoleTypeInv, DetailTyped, DetailType
<1>1. ASSUME UNCHANGED <<console, form, visit, watch, yanked>>, DetailTyped'
      PROVE  ConsoleTypeInv'
  BY <1>0, <1>1 DEF ConsoleTypeInv, TabsTyped, WatchTyped
<1>2. CASE CloseDetail
  <2>1. DetailTyped'
    BY <1>0, <1>2, NothingTyped DEF CloseDetail, DetailTyped
  <2> QED
    BY <1>1, <1>2, <2>1 DEF CloseDetail
<1>3. CASE SaveEdit
  <2>1. detail.loaded \in Owned /\ detail.id \in Owned
    BY <1>0, <1>3 DEF SaveEdit, Handed
  <2> DEFINE under == detail.loads \union {detail.id}
             edit == <<detail.id, detail.loaded>>
  <2>2. detail' = [detail EXCEPT !.loads = under] /\ saved' = saved \union {edit}
    BY <1>3 DEF SaveEdit
  <2>3. under \subseteq Owned /\ edit \in Owned \X Owned
    BY <1>0, <2>1
  <2> HIDE DEF under, edit
  <2>4. detail' \in DetailType /\ detail'.id = detail.id
    BY <1>0, <2>2, <2>3 DEF DetailType
  <2>5. detail.id # NoOwned
    BY <1>0, <1>3 DEF SaveEdit
  <2>6. DetailTyped'
    BY <1>0, <2>2, <2>3, <2>4, <2>5 DEF DetailTyped
  <2> QED
    BY <1>1, <1>3, <2>6 DEF SaveEdit
<1>4. ASSUME NEW a \in Owned, SelectAsset(a)
      PROVE  ConsoleTypeInv'
  <2> DEFINE under == detail.loads \union {a}
  <2>1. detail' = [detail EXCEPT !.id = a, !.loads = under] /\ UNCHANGED saved
    BY <1>4 DEF SelectAsset
  <2>2. under \subseteq Owned /\ a # NoOwned /\ a \in Handed
    BY <1>0, ConsoleAssumption DEF Handed
  <2> HIDE DEF under
  <2>3. detail' \in DetailType /\ detail'.id = a
    BY <1>0, <2>1, <2>2 DEF DetailType
  <2>4. DetailTyped'
    BY <1>0, <2>1, <2>2, <2>3 DEF DetailTyped
  <2> QED
    BY <1>1, <1>4, <2>4 DEF SelectAsset
<1>5. ASSUME NEW a \in Owned, AssetLoads(a) \/ AssetFails(a)
      PROVE  ConsoleTypeInv'
  <2> DEFINE under == detail.loads \ {a}
  <2>1. PICK shown \in {a, detail.loaded} : detail' = [detail EXCEPT !.loaded = shown, !.loads = under]
    <3>1. [detail EXCEPT !.loads = under] = [detail EXCEPT !.loaded = detail.loaded, !.loads = under]
      BY <1>0 DEF DetailType
    <3> QED
      BY <1>5, <3>1 DEF AssetLoads, AssetFails
  <2>2. under \subseteq Owned /\ shown \in Handed /\ detail.id # NoOwned
    BY <1>0, <1>5 DEF Handed, AssetLoads, AssetFails
  <2> HIDE DEF under
  <2>3. detail' \in DetailType /\ detail'.id = detail.id
    BY <1>0, <2>1, <2>2 DEF DetailType
  <2>4. UNCHANGED <<console, form, visit, saved, watch, yanked>>
    BY <1>5 DEF AssetLoads, AssetFails
  <2>5. DetailTyped'
    BY <1>0, <2>2, <2>3, <2>4 DEF DetailTyped
  <2> QED
    BY <1>1, <2>4, <2>5
<1> QED
  BY <1>2, <1>3, <1>4, <1>5

LEMMA ScanMovesTyped ==
  ASSUME ConsoleTypeInv, ScanEnds \/ PollScan \/ PollAnswered \/ PollGivesUp
  PROVE  ConsoleTypeInv'
<1>0. TabsTyped /\ DetailTyped /\ watch \in WatchType /\ yanked \in BOOLEAN /\ console \in ConsoleType
  BY DEF ConsoleTypeInv, WatchTyped, TabsTyped
<1>1. ASSUME UNCHANGED <<console, form, visit, detail, saved, yanked>>, watch' \in WatchType
      PROVE  ConsoleTypeInv'
  BY <1>0, <1>1 DEF ConsoleTypeInv, TabsTyped, DetailTyped, WatchTyped
<1>2. \A s \in ScanStatuses, b \in BOOLEAN :
         /\ [watch EXCEPT !.real = s] \in WatchType /\ [watch EXCEPT !.poll = s] \in WatchType
         /\ [watch EXCEPT !.poll = s, !.waiting = b] \in WatchType
  <2> TAKE s \in ScanStatuses, b \in BOOLEAN
  <2>1. [watch EXCEPT !.real = s] \in WatchType
    BY <1>0 DEF WatchType
  <2>2. [watch EXCEPT !.poll = s] \in WatchType
    BY <1>0 DEF WatchType
  <2>3. [watch EXCEPT !.poll = s, !.waiting = b] \in WatchType
    BY <1>0 DEF WatchType
  <2> QED
    BY <2>1, <2>2, <2>3
<1>3. {"none", "COMPLETED", "ENDED"} \subseteq ScanStatuses /\ watch.real \in ScanStatuses /\ watch.waiting \in BOOLEAN
  BY <1>0 DEF ScanStatuses, WatchType
<1>4. CASE ScanEnds
  BY <1>1, <1>2, <1>3, <1>4 DEF ScanEnds
<1>5. CASE PollScan
  BY <1>1, <1>2, <1>3, <1>5 DEF PollScan
<1>6. CASE PollGivesUp
  BY <1>1, <1>2, <1>3, <1>6 DEF PollGivesUp
<1>7. CASE PollAnswered
  <2> DEFINE b == watch.waiting /\ watch.poll = "open"
             y == yanked \/ console.tab \notin {"scans", "findings"}
             u == [console EXCEPT !.can = TRUE]
             v == [console EXCEPT !.tab = "findings", !.can = TRUE]
  <2>1. watch' = [watch EXCEPT !.poll = "none", !.waiting = b] /\ saved' = saved /\ yanked' \in {yanked, y}
    BY <1>7 DEF PollAnswered
  <2>2. \/ UNCHANGED <<console, form, visit, detail>>
        \/ console' = u /\ UNCHANGED <<form, visit, detail>>
        \/ console' = v /\ form' = NoForm /\ visit' = NoOwned /\ detail' = NoDetail
    BY <1>7 DEF PollAnswered
  <2>3. b \in BOOLEAN /\ y \in BOOLEAN
    OBVIOUS
  <2>4. u \in ConsoleType /\ v \in ConsoleType
    BY <1>0, ConsoleEdits, FlowTabs
  <2> HIDE DEF b, y, u, v
  <2>5. WatchTyped'
    BY <1>0, <1>2, <1>3, <2>1, <2>3 DEF WatchTyped
  <2>6. TabsTyped' /\ DetailTyped'
    BY <1>0, <2>1, <2>2, <2>4, NothingTyped DEF TabsTyped, DetailTyped, Handed
  <2> QED
    BY <2>5, <2>6 DEF ConsoleTypeInv
<1> QED
  BY <1>4, <1>5, <1>6, <1>7

\* The console keeps to its types: its tabs, and the edits it saves, each the
\* name of one asset under the id of one (CyberAnalysisContent.jsx).
THEOREM ConsoleTyped == ConsoleSpec => []ConsoleTypeOK
<1>1. ConsoleInit => ConsoleTypeInv
  <2> SUFFICES ASSUME ConsoleInit
               PROVE  ConsoleTypeInv
    OBVIOUS
  <2>1. TabsTyped
    BY NothingTyped, FlowTabs DEF ConsoleInit, TabsTyped, ConsoleType, Handed
  <2>2. DetailTyped
    BY NothingTyped DEF ConsoleInit, DetailTyped
  <2>3. WatchTyped
    BY DEF ConsoleInit, WatchTyped, WatchType, ScanStatuses
  <2> QED
    BY <2>1, <2>2, <2>3 DEF ConsoleTypeInv
<1>2. ConsoleTypeInv /\ [ConsoleNext]_consoleVars => ConsoleTypeInv'
  <2> SUFFICES ASSUME ConsoleTypeInv, [ConsoleNext]_consoleVars
               PROVE  ConsoleTypeInv'
    OBVIOUS
  <2>1. CASE UNCHANGED consoleVars
    BY <2>1 DEF consoleVars, ConsoleTypeInv, TabsTyped, DetailTyped, WatchTyped
  <2>2. CASE ConsoleNext
    BY <2>2, TabMovesTyped, FormMovesTyped, DetailMovesTyped, ScanMovesTyped DEF ConsoleNext
  <2> QED
    BY <2>1, <2>2
<1>3. ConsoleTypeInv => ConsoleTypeOK
  BY DEF ConsoleTypeInv, ConsoleTypeOK, TabsTyped, DetailTyped, WatchTyped, ConsoleType, FormType, DetailType, WatchType, Handed
<1> QED
  BY <1>1, <1>2, <1>3, PTL DEF ConsoleSpec

-----------------------------------------------------------------------------
\* In the wizard and in the console side by side: the plan on the screen is
\* for the asset and the class on the screen, a class the user picked stays,
\* and the scans tab is filled only with the target of this visit, for every
\* number of assets and classes (CyberNewAnalysisWizard.jsx,
\* CyberAnalysisContent.jsx).
THEOREM PagesAlwaysFit == WizardSpec /\ ConsoleSpec => []PagesFit
BY WizardFits, ConsoleFits, PTL DEF PagesFit
=============================================================================
