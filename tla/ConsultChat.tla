---------------------------- MODULE ConsultChat -----------------------------
(***************************************************************************)
(* The consultation chat: the bubbles of client/src/components/            *)
(* ConsultChat.jsx, the reader of the streamed answer (chatConsult in      *)
(* services/api.js), POST /chat, and the providers streamConsultationText  *)
(* of server/src/services/aiGenerate.ts tries in turn.                     *)
(***************************************************************************)
EXTENDS Naturals, Sequences, SequencesExt

CONSTANTS
    Exchanges,      \* invocations of send()
    NumProviders    \* configured providers the class of the data allows

ASSUME ChatAssumption == NumProviders \in Nat \ {0}

VARIABLES
    bubbles,        \* messages: who speaks, whose text it is, and how it is marked
    waits,          \* loading
    awaits,         \* what each send() awaits
    answers,        \* each request on the server: the attempt, and the providers whose text was sent
    logged          \* exchanges inserted into messages

chatVars == <<bubbles, waits, awaits, answers, logged>>

Providers == 1..NumProviders
Marks == {"plain", "streaming", "complete", "cut", "error"}
Bubble(role, x, mark) == [role |-> role, of |-> x, mark |-> mark]

ChatTypeOK ==
    /\ bubbles \in Seq([role : {"user", "assistant"}, of : Exchanges, mark : Marks])
    /\ waits \in BOOLEAN
    /\ awaits \in [Exchanges -> {"unsent", "local", "answer", "stream", "done"}]
    /\ answers \in [Exchanges -> [at : {"none", "trying", "ended", "broken", "refused"},
                                  provider : 0..NumProviders + 1, wrote : SUBSET Providers]]
    /\ logged \subseteq Exchanges

ChatInit ==
    /\ bubbles = <<>>
    /\ waits = FALSE
    /\ awaits = [x \in Exchanges |-> "unsent"]
    /\ answers = [x \in Exchanges |-> [at |-> "none", provider |-> 0, wrote |-> {}]]
    /\ logged = {}

-----------------------------------------------------------------------------
\* send(), to the server or to the local model.
Send(x, offline) ==
    /\ ~waits /\ awaits[x] = "unsent"
    /\ waits' = TRUE
    /\ bubbles' = Append(bubbles, Bubble("user", x, "plain"))
    /\ awaits' = [awaits EXCEPT ![x] = IF offline THEN "local" ELSE "answer"]
    /\ answers' = IF offline THEN answers
                  ELSE [answers EXCEPT ![x] = [at |-> "trying", provider |-> 1, wrote |-> {}]]
    /\ UNCHANGED logged

LocalReply(x, ok) ==
    /\ awaits[x] = "local"
    /\ awaits' = [awaits EXCEPT ![x] = "done"]
    /\ waits' = FALSE
    /\ bubbles' = Append(bubbles, Bubble("assistant", x, IF ok THEN "complete" ELSE "error"))
    /\ UNCHANGED <<answers, logged>>

-----------------------------------------------------------------------------
\* A chunk of the provider's text goes out (with the header when it is the first).
ProviderWrites(x) ==
    /\ answers[x].at = "trying" /\ answers[x].provider \in Providers
    /\ answers' = [answers EXCEPT ![x].wrote = @ \union {answers[x].provider}]
    /\ UNCHANGED <<bubbles, waits, awaits, logged>>

\* Fault: whatever was sent already, the next provider is tried.
MutAfterError(a) == [a EXCEPT !.provider = @ + 1]

\* A provider that has sent nothing is followed by the next one; one that has ends the answer.
AfterError(a) ==
    IF a.wrote = {} THEN [a EXCEPT !.provider = @ + 1] ELSE [a EXCEPT !.at = "broken"]

ProviderFails(x) ==
    /\ answers[x].at = "trying" /\ answers[x].provider \in Providers
    /\ answers' = [answers EXCEPT ![x] = AfterError(answers[x])]
    /\ logged' = IF answers'[x].at = "broken" THEN logged \union {x} ELSE logged
    /\ UNCHANGED <<bubbles, waits, awaits>>

\* The text ends with its marker, and the exchange is inserted; no text at all is a failure.
ProviderEnds(x) ==
    /\ answers[x].at = "trying" /\ answers[x].wrote # {}
    /\ answers' = [answers EXCEPT ![x].at = "ended"]
    /\ logged' = logged \union {x}
    /\ UNCHANGED <<bubbles, waits, awaits>>

\* All have failed, or the policy allows none: an error is answered.
Refuse(x) ==
    /\ answers[x].at = "trying" /\ answers[x].wrote = {}
    /\ answers[x].provider \in {1, NumProviders + 1}
    /\ answers' = [answers EXCEPT ![x].at = "refused"]
    /\ UNCHANGED <<bubbles, waits, awaits, logged>>

-----------------------------------------------------------------------------
\* What a chunk of x does to the bubbles once x has one: it is written into the last bubble.
Overwritten(s, x) ==
    IF s = <<>> THEN s ELSE [s EXCEPT ![Len(s)].of = x]

FirstChunk(x) ==
    /\ awaits[x] = "answer" /\ answers[x].wrote # {}
    /\ awaits' = [awaits EXCEPT ![x] = "stream"]
    /\ waits' = FALSE
    /\ bubbles' = Append(bubbles, Bubble("assistant", x, "streaming"))
    /\ UNCHANGED <<answers, logged>>

NextChunk(x) ==
    /\ awaits[x] = "stream"
    /\ waits' = FALSE
    /\ bubbles' = Overwritten(bubbles, x)
    /\ UNCHANGED <<awaits, answers, logged>>

\* r.complete: the end marker was seen.
Verdict(x) == IF answers[x].at = "ended" THEN "complete" ELSE "cut"

\* The stream is closed, by the server or on the way: the last bubble becomes the answer.
StreamCloses(x, mark) ==
    /\ awaits[x] = "stream" /\ mark \in {Verdict(x), "cut"}
    /\ awaits' = [awaits EXCEPT ![x] = "done"]
    /\ waits' = FALSE
    /\ bubbles' = IF bubbles = <<>> THEN bubbles
                  ELSE Append(Front(bubbles), Bubble("assistant", x, mark))
    /\ UNCHANGED <<answers, logged>>

\* An error answer, or a connection that breaks: an error bubble is appended.
SendFails(x) ==
    /\ awaits[x] \in {"answer", "stream"}
    /\ awaits' = [awaits EXCEPT ![x] = "done"]
    /\ waits' = FALSE
    /\ bubbles' = Append(bubbles, Bubble("assistant", x, "error"))
    /\ UNCHANGED <<answers, logged>>

Clear ==
    /\ bubbles # <<>>
    /\ bubbles' = <<>>
    /\ UNCHANGED <<waits, awaits, answers, logged>>

ChatNext ==
    \/ Clear
    \/ \E x \in Exchanges :
        \/ ProviderWrites(x) \/ ProviderFails(x) \/ ProviderEnds(x) \/ Refuse(x)
        \/ FirstChunk(x) \/ NextChunk(x) \/ SendFails(x)
        \/ \E b \in BOOLEAN : Send(x, b) \/ LocalReply(x, b)
        \/ \E mark \in {"complete", "cut"} : StreamCloses(x, mark)

ChatSpec == ChatInit /\ [][ChatNext]_chatVars

-----------------------------------------------------------------------------
(* An answer is the text of one provider, however the providers fail, and   *)
(* the end marker is written only after that provider has finished.         *)
OneVoice ==
    \A x \in Exchanges :
        /\ \A p, q \in answers[x].wrote : p = q
        /\ answers[x].at \in {"ended", "broken"} => answers[x].provider \in answers[x].wrote

(* "surfaced so a truncated reply isn't mistaken for a complete one"        *)
(* (ConsultChat.jsx:166-169): a bubble that is not marked as cut short      *)
(* and no longer streams shows the text of an answer that ended.            *)
CompleteIsComplete ==
    \A i \in DOMAIN bubbles :
        bubbles[i].mark = "complete" /\ awaits[bubbles[i].of] # "local" =>
            answers[bubbles[i].of].at \in {"ended", "none"}

(* What the user wrote stays what the user wrote.                           *)
UserWordsKept ==
    [][\A i \in DOMAIN bubbles \intersect DOMAIN bubbles' :
        bubbles[i].role = "user" => bubbles'[i] = bubbles[i]]_chatVars
=============================================================================
