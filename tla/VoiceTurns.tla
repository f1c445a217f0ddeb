----------------------------- MODULE VoiceTurns ------------------------------
(***************************************************************************)
(* Who has the microphone and the loudspeaker: the assistant that is       *)
(* always there (client/src/components/GlobalVoiceAssistant.jsx) and the   *)
(* spoken consultation (VoiceChat.jsx). Each keeps a recognizer, a timer   *)
(* and the status it shows; they tell each other of themselves by the      *)
(* events aq:pause and aq:resume only. The recognizers and the speech      *)
(* synthesizer of the browser are shared, and report back when they like.  *)
(***************************************************************************)
EXTENDS Naturals

CONSTANTS
    Ears,           \* recognizers in existence at one time
    Voices,         \* utterances in existence at one time
    Turns,          \* consultations under way at one time
    MaxStarts,      \* starts of the chat's recognizer waiting for their 200 ms
    NoEar           \* recRef is null

ASSUME VoiceAssumption == NoEar \notin Ears /\ MaxStarts \in Nat

VARIABLES
    assistant,      \* on, status, recRef, what restartRef will do, the warm-up under way
    chat,           \* the window, phase, recRef, timerRef, starts that wait, autoListen
    ears,           \* each recognizer: whose, and where it is
    voices,         \* each utterance: whose, and where it is
    turns           \* consultations that await their answer

voiceVars == <<assistant, chat, ears, voices, turns>>

Silent == [by |-> "nobody", at |-> "free"]
By(who, at) == [by |-> who, at |-> at]
VoiceStatuses == {"idle", "listening", "thinking", "speaking"}

VoiceTypeOK ==
    /\ assistant \in [on : BOOLEAN, status : VoiceStatuses \ {"thinking"}, mic : Ears \union {NoEar},
                      timer : {"none", "restart", "pause"}, warms : BOOLEAN]
    /\ chat \in [window : {"unopened", "open", "closed"}, phase : VoiceStatuses \union {"paused"},
                 mic : Ears \union {NoEar}, timer : BOOLEAN, starts : 0..MaxStarts, auto : BOOLEAN]
    /\ ears \in [Ears -> [by : {"nobody", "assistant", "chat"},
                          at : {"free", "live", "stopping", "aborting", "ending"}]]
    /\ voices \in [Voices -> [by : {"nobody", "assistant", "chat"},
                              at : {"free", "due", "cut", "late"}]]
    /\ turns \subseteq Turns

VoiceInit ==
    /\ assistant = [on |-> FALSE, status |-> "idle", mic |-> NoEar, timer |-> "none",
                    warms |-> FALSE]
    /\ chat = [window |-> "unopened", phase |-> "idle", mic |-> NoEar, timer |-> FALSE,
               starts |-> 0, auto |-> TRUE]
    /\ ears = [e \in Ears |-> Silent]
    /\ voices = [v \in Voices |-> Silent]
    /\ turns = {}

-----------------------------------------------------------------------------
(* The browser's side: abort() and cancel() are answered by an event later. *)

Open(e) == ears[e].at \in {"live", "stopping"}

Aborted(e) ==
    IF e = NoEar \/ ~Open(e) THEN ears ELSE [ears EXCEPT ![e].at = "aborting"]

\* cancel() empties the queue, whoever asked for the utterances in it.
Cancelled ==
    [v \in Voices |-> CASE voices[v].at = "due"  -> By(voices[v].by, "cut")
                        [] voices[v].at = "late" -> Silent
                        [] OTHER                 -> voices[v]]

-----------------------------------------------------------------------------
(* The assistant. *)

\* scheduleRestart
Restarting(a) == [a EXCEPT !.timer = "restart"]
Idling(a) == [Restarting(a) EXCEPT !.status = "idle"]

\* The handlers of aq:pause (with stopMic) and aq:resume.
Paused(a) == [a EXCEPT !.mic = NoEar, !.timer = "pause"]
Resumed(a) == [a EXCEPT !.timer = IF a.on /\ a.status = "idle" THEN "restart" ELSE "none"]

\* The effect of [on, lang], after its cleanup.
Switched(a) ==
    [a EXCEPT !.mic = NoEar, !.status = "idle", !.timer = IF a.on THEN "restart" ELSE "none"]

\* A click: switching on also speaks a silent utterance, cancelled by WarmUpEnds.
Toggle ==
    /\ assistant' = Switched([assistant EXCEPT !.on = ~@, !.warms = @ \/ ~assistant.on])
    /\ ears' = Aborted(assistant.mic)
    /\ voices' = IF assistant.on THEN Cancelled ELSE voices
    /\ UNCHANGED <<chat, turns>>

WarmUpEnds ==
    /\ assistant.warms
    /\ assistant' = [assistant EXCEPT !.warms = FALSE]
    /\ voices' = Cancelled
    /\ UNCHANGED <<chat, ears, turns>>

\* The language is changed in the page.
ChangeLanguage ==
    /\ assistant' = Switched(assistant)
    /\ ears' = Aborted(assistant.mic)
    /\ voices' = IF assistant.on THEN voices ELSE Cancelled
    /\ UNCHANGED <<chat, turns>>

\* startMicFn: the recognizer before this one is aborted first.
MayStart == assistant.on /\ assistant.status = "idle"

StartMic(e) ==
    /\ assistant.timer = "restart" /\ MayStart
    /\ ears[e] = Silent
    /\ ears' = [Aborted(assistant.mic) EXCEPT ![e] = By("assistant", "live")]
    /\ assistant' = [assistant EXCEPT !.mic = e, !.status = "listening", !.timer = "none"]
    /\ UNCHANGED <<chat, voices, turns>>

\* start() throws, and is tried again.
StartThrows ==
    /\ assistant.timer = "restart" /\ MayStart
    /\ ears' = Aborted(assistant.mic)
    /\ assistant' = [assistant EXCEPT !.mic = NoEar]
    /\ UNCHANGED <<chat, voices, turns>>

\* The timer finds nothing to start.
TimerIdles ==
    /\ \/ assistant.timer = "restart" /\ ~MayStart
       \/ assistant.timer = "pause" /\ ~assistant.on
    /\ assistant' = [assistant EXCEPT !.timer = "none"]
    /\ UNCHANGED <<chat, ears, voices, turns>>

\* Thirty seconds after aq:pause.
PauseEnds ==
    /\ assistant.timer = "pause" /\ assistant.on
    /\ assistant' = Idling(assistant)
    /\ UNCHANGED <<chat, ears, voices, turns>>

\* onresult: the plan is resolved on the spot and run, and its reply spoken or empty. A change of
\* language runs the effect of [on, lang] after that, over the status just set.
HearCommand(e, changesLanguage) ==
    /\ ears[e] = By("assistant", "live")
    /\ ears' = [ears EXCEPT ![e].at = "ending"]
    /\ LET heard == [assistant EXCEPT !.mic = NoEar]
       IN  \/ /\ ~changesLanguage
              /\ assistant' = Idling(heard)
              /\ UNCHANGED voices
           \/ \E v \in Voices :
                /\ voices[v] = Silent
                /\ voices' = [voices EXCEPT ![v] = By("assistant", "due")]
                /\ assistant' = IF changesLanguage THEN Switched(heard)
                                ELSE [heard EXCEPT !.status = "speaking"]
    /\ UNCHANGED <<chat, turns>>

-----------------------------------------------------------------------------
(* The consultation. *)

\* setPhase, which a window that is gone does not take.
InPhase(c, p) == IF c.window = "open" THEN [c EXCEPT !.phase = p] ELSE c

OpenChat ==
    /\ chat.window = "unopened"
    /\ chat' = [chat EXCEPT !.window = "open"]
    /\ UNCHANGED <<assistant, ears, voices, turns>>

ToggleAuto ==
    /\ chat.window = "open"
    /\ chat' = [chat EXCEPT !.auto = ~@]
    /\ UNCHANGED <<assistant, ears, voices, turns>>

\* startListening: both recognizers are aborted, and a new one starts 200 ms later.
Listen ==
    /\ chat.starts < MaxStarts
    /\ chat' = [chat EXCEPT !.timer = FALSE, !.mic = NoEar, !.starts = @ + 1]
    /\ assistant' = Paused(assistant)
    /\ ears' = [e \in Ears |-> IF e \in {assistant.mic, chat.mic} THEN Aborted(e)[e] ELSE ears[e]]
    /\ UNCHANGED <<voices, turns>>

\* The timer set after an answer calls startListening, in a closed window too.
ListenAgain == chat.timer /\ Listen

ClickMic ==
    /\ chat.window = "open"
    /\ \/ chat.phase \in {"idle", "paused"} /\ Listen
       \/ /\ chat.phase = "listening" /\ chat.mic # NoEar /\ ears[chat.mic].at = "live"
          /\ ears' = [ears EXCEPT ![chat.mic].at = "stopping"]
          /\ UNCHANGED <<assistant, chat, voices, turns>>
       \/ /\ chat.phase = "speaking"
          /\ voices' = Cancelled
          /\ chat' = [chat EXCEPT !.timer = FALSE, !.phase = "paused"]
          /\ UNCHANGED <<assistant, ears, turns>>

StartEar ==
    /\ chat.starts > 0
    /\ \/ \E e \in Ears :
            /\ ears[e] = Silent
            /\ ears' = [ears EXCEPT ![e] = By("chat", "live")]
            /\ chat' = [InPhase(chat, "listening") EXCEPT !.mic = e, !.starts = @ - 1]
            /\ UNCHANGED assistant
       \/ /\ chat' = [InPhase(chat, "idle") EXCEPT !.starts = @ - 1]
          /\ assistant' = Resumed(assistant)
          /\ UNCHANGED ears
    /\ UNCHANGED <<voices, turns>>

\* onresult, of words to be answered; "English" and "Turkish" change the language as well.
HearQuestion(e, changesLanguage) ==
    /\ ears[e].by = "chat" /\ Open(e)
    /\ \E t \in Turns \ turns : turns' = turns \union {t}
    /\ chat' = InPhase(chat, "thinking")
    /\ assistant' = IF changesLanguage THEN Switched(assistant) ELSE assistant
    /\ ears' = [x \in Ears |-> IF x = e THEN By("chat", "ending")
                               ELSE IF changesLanguage /\ x = assistant.mic THEN Aborted(x)[x]
                               ELSE ears[x]]
    /\ voices' = IF changesLanguage /\ ~assistant.on THEN Cancelled ELSE voices

\* onresult, of nothing.
HearNothing(e) ==
    /\ ears[e].by = "chat" /\ Open(e)
    /\ ears' = [ears EXCEPT ![e].at = "ending"]
    /\ chat' = InPhase(chat, "idle")
    /\ assistant' = Resumed(assistant)
    /\ UNCHANGED <<voices, turns>>

\* The answer arrives and is spoken, or is empty, or the request fails.
Answer(t) ==
    /\ t \in turns
    /\ turns' = turns \ {t}
    /\ \/ \E v \in Voices :
            /\ voices[v] = Silent
            /\ voices' = [Cancelled EXCEPT ![v] = By("chat", "due")]
            /\ chat' = InPhase(chat, "speaking")
            /\ UNCHANGED assistant
       \/ /\ chat' = InPhase(chat, "idle")
          /\ assistant' = Resumed(assistant)
          /\ UNCHANGED voices
    /\ UNCHANGED ears

\* closeChat and the cleanup, by the button or by a click beside the window.
HangUp ==
    /\ chat' = [chat EXCEPT !.window = "closed", !.phase = "idle", !.timer = FALSE]
    /\ voices' = Cancelled
    /\ assistant' = Resumed(assistant)
    /\ UNCHANGED turns

CloseChat ==
    /\ chat.window = "open"
    /\ ears' = Aborted(chat.mic)
    /\ HangUp

\* onresult, of a goodbye.
HearGoodbye(e) ==
    /\ ears[e].by = "chat" /\ Open(e)
    /\ ears' = [Aborted(chat.mic) EXCEPT ![e].at = "ending"]
    /\ HangUp

-----------------------------------------------------------------------------
(* The events of the browser. *)

\* Fault: onend forgets the status.
MutEarGone(a, e) == [a EXCEPT !.mic = IF @ = e THEN NoEar ELSE @]

\* onend of the assistant's recognizer.
EarGone(a, e) ==
    LET b == [a EXCEPT !.mic = IF @ = e THEN NoEar ELSE @]
    IN  IF b.status = "listening" THEN Idling(b) ELSE b

EarEnds(e) ==
    /\ ears[e] # Silent
    /\ ears' = [ears EXCEPT ![e] = Silent]
    /\ assistant' = IF ears[e].by = "assistant" THEN EarGone(assistant, e) ELSE assistant
    /\ chat' = IF ears[e].by = "assistant" THEN chat
               ELSE [InPhase(chat, IF chat.phase = "listening" THEN "idle" ELSE chat.phase)
                       EXCEPT !.mic = IF @ = e THEN NoEar ELSE @]
    /\ UNCHANGED <<voices, turns>>

\* onerror, after abort() among others; onend follows.
EarErrs(e) ==
    /\ ears[e].at \in {"live", "stopping", "aborting"}
    /\ ears' = [ears EXCEPT ![e].at = "ending"]
    /\ \/ /\ ears[e].by = "assistant"
          /\ assistant' = Idling([assistant EXCEPT !.mic = IF @ = e THEN NoEar ELSE @])
          /\ UNCHANGED chat
       \/ /\ ears[e].by = "chat"
          /\ chat' = InPhase(chat, "idle")
          /\ assistant' = Resumed(assistant)
    /\ UNCHANGED <<voices, turns>>

\* onDone of an utterance: the assistant schedules itself, the chat listens again or makes room.
Spoken(v) ==
    \/ /\ voices[v].by = "assistant"
       /\ assistant' = Idling(assistant)
       /\ UNCHANGED chat
    \/ /\ voices[v].by = "chat"
       /\ chat' = [InPhase(chat, "idle") EXCEPT !.timer = @ \/ chat.auto]
       /\ assistant' = IF chat.auto THEN assistant ELSE Resumed(assistant)

VoiceEnds(v) ==
    /\ voices[v].at \in {"due", "cut"}
    /\ voices' = [voices EXCEPT ![v] = Silent]
    /\ Spoken(v)
    /\ UNCHANGED <<ears, turns>>

\* The safety timer: the utterance counts as spoken, and goes on.
VoiceTooLong(v) ==
    /\ voices[v].at = "due"
    /\ voices' = [voices EXCEPT ![v].at = "late"]
    /\ Spoken(v)
    /\ UNCHANGED <<ears, turns>>

VoiceFades(v) ==
    /\ voices[v].at = "late"
    /\ voices' = [voices EXCEPT ![v] = Silent]
    /\ UNCHANGED <<assistant, chat, ears, turns>>

VoiceNext ==
    \/ Toggle \/ WarmUpEnds \/ ChangeLanguage \/ StartThrows \/ TimerIdles \/ PauseEnds
    \/ OpenChat \/ ToggleAuto \/ ListenAgain \/ ClickMic \/ StartEar \/ CloseChat
    \/ \E e \in Ears : \/ StartMic(e) \/ EarEnds(e) \/ EarErrs(e) \/ HearNothing(e) \/ HearGoodbye(e)
                       \/ \E b \in BOOLEAN : HearCommand(e, b) \/ HearQuestion(e, b)
    \/ \E v \in Voices : VoiceEnds(v) \/ VoiceTooLong(v) \/ VoiceFades(v)
    \/ \E t \in Turns : Answer(t)

VoiceSpec == VoiceInit /\ [][VoiceNext]_voiceVars

-----------------------------------------------------------------------------
Hears(who) == \E e \in Ears : ears[e] = By(who, "live")
Recognizes(who) == \E e \in Ears : ears[e].by = who
Utters(who) == \E v \in Voices : voices[v] \in {By(who, "due"), By(who, "cut")}

(* What the button and the window show is under way, so that it also ends:  *)
(* a recognizer that will report, a request, an utterance, in whatever      *)
(* order the browser reports and the user clicks; and an assistant that is  *)
(* off, or that has let go of its recognizer, has none open.                *)
VoiceHonest ==
    /\ assistant.status = "listening" => Recognizes("assistant")
    /\ assistant.status = "speaking" => Utters("assistant")
    /\ chat.phase = "listening" => Recognizes("chat")
    /\ chat.phase = "thinking" => turns # {}
    /\ chat.phase = "speaking" => Utters("chat")
    /\ \A e \in Ears : ears[e] = By("assistant", "live") => assistant.on /\ assistant.mic = e

ChatBusy ==
    \/ chat.window = "open" \/ chat.timer \/ chat.starts > 0 \/ turns # {}
    \/ Recognizes("chat") \/ Utters("chat")

(* An assistant that is on listens again and again, once the consultation   *)
(* leaves it alone: no path through its handlers loses the timer.           *)
StaysAwake == []<>(~assistant.on \/ ChatBusy \/ Hears("assistant"))

(* The rest fails.                                                          *)

(* A window that is closed does not listen (closeChat aborts and cancels,   *)
(* VoiceChat.jsx:115-122).                                                  *)
HungUp == chat.window = "closed" => ~Hears("chat")

(* The consultation has the microphone to itself while it listens: it       *)
(* sends aq:pause first (VoiceChat.jsx:177), which is for thirty seconds    *)
(* (GlobalVoiceAssistant.jsx:191-197).                                      *)
OneListener == ~(Hears("assistant") /\ Hears("chat"))

(* Nobody listens to an answer that is still being spoken.                  *)
NoEcho == \A v \in Voices : voices[v].at \in {"due", "late"} => ~Hears(voices[v].by)

(* A consultation the user has paused stays so until the user goes on       *)
(* (VoiceChat.jsx:243-247).                                                 *)
PauseHolds ==
    [][chat.phase = "paused" /\ chat.starts = 0 /\ chat'.window = "open"
         => chat'.phase = "paused"]_voiceVars

(* The assistant does not cut off its own recognizer to start another.      *)
HearsOut ==
    [][assistant.mic # NoEar /\ assistant'.mic # NoEar => assistant'.mic = assistant.mic]_voiceVars
=============================================================================
