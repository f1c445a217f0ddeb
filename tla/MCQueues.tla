------------------------------ MODULE MCQueues ------------------------------
(***************************************************************************)
(* The queues and gates whose callers wait for an answer, and the assistant*)
(* that waits to listen, as a disjoint union: side says which one a        *)
(* behaviour is about, and fairness is asked of the actions of that one only.*)
(***************************************************************************)
EXTENDS ScanJobs, HardwareJobs, LoginFlow, ResourceGates, VoiceTurns, TLC

CONSTANT Sides      \* the parts looked at
VARIABLE side

QueuesInit ==
    /\ side \in Sides
    /\ Init /\ HwInit /\ LoginInit /\ GatesInit
    /\ VoiceInit

QueuesNext ==
    /\ UNCHANGED side
    /\ \/ /\ side = "scans" /\ Next
          /\ UNCHANGED <<hwVars, loginVars, gatesVars, voiceVars>>
       \/ /\ side = "hardware" /\ HwNext
          /\ UNCHANGED <<vars, loginVars, gatesVars, voiceVars>>
       \/ /\ side = "login" /\ LoginNext
          /\ UNCHANGED <<vars, hwVars, gatesVars, voiceVars>>
       \/ /\ side = "gates" /\ GatesNext
          /\ UNCHANGED <<vars, hwVars, loginVars, voiceVars>>
       \/ /\ side = "voice" /\ VoiceNext
          /\ UNCHANGED <<vars, hwVars, loginVars, gatesVars>>

QueuesVars == <<side, vars, hwVars, loginVars, gatesVars, voiceVars>>
QueuesSpec == QueuesInit /\ [][QueuesNext]_QueuesVars

-----------------------------------------------------------------------------
(* The fairness of each part, asked while the behaviour is about that part. *)

ScansFairness ==
    /\ \A w \in Workers :
         /\ WF_vars(side = "scans" /\ (\E j \in Jobs : ClaimNextJob(w, j)))
         /\ WF_vars(side = "scans" /\ RecordSnapshot(w))
         /\ WF_vars(side = "scans" /\ WriteFailure(w))
         /\ WF_vars(side = "scans" /\ (CompleteJob(w) \/ MarkNoCoverage(w) \/ FailJob(w)))
    /\ \A s \in Sweepers : WF_vars(side = "scans" /\ Sweep(s))
    /\ \A j \in Jobs : WF_vars(side = "scans" /\ TimeoutPasses(j))

HardwareFairness ==
    /\ \A w \in HwWorkers : /\ WF_hwVars(side = "hardware" /\ PollTable(w))
                            /\ WF_hwVars(side = "hardware" /\ Process(w))
    /\ \A j \in HwJobs : WF_hwVars(side = "hardware" /\ GrowsStale(j))

PageFairness ==
    /\ \A p \in Polls : /\ WF_loginVars(side = "login" /\ SendsCheck(p))
                        /\ WF_loginVars(side = "login" /\ CheckStep(p))
                        /\ SF_loginVars(side = "login" /\ CheckAnswered(p))
    /\ \A t \in Tickets : WF_loginVars(side = "login" /\ TicketExpires(t))
    /\ WF_loginVars(side = "login" /\ Leave)

PoolFairness ==
    \A j \in Computations : /\ WF_gatesVars(side = "gates" /\ (\E b \in BOOLEAN : Spawn(j, b)))
                            /\ WF_gatesVars(side = "gates" /\ Settle(j))
                            /\ WF_gatesVars(side = "gates" /\ Release(j))

AssistantFairness ==
    /\ WF_voiceVars(side = "voice" /\ (\E e \in Ears : StartMic(e)))
    /\ WF_voiceVars(side = "voice" /\ (TimerIdles \/ PauseEnds))
    /\ \A e \in Ears : WF_voiceVars(side = "voice" /\ EarEnds(e))
    /\ \A v \in Voices : WF_voiceVars(side = "voice" /\ (VoiceEnds(v) \/ VoiceTooLong(v)))

QueuesFairSpec ==
    /\ QueuesSpec
    /\ ScansFairness /\ HardwareFairness /\ PageFairness /\ PoolFairness /\ AssistantFairness

-----------------------------------------------------------------------------
\* Whoever waits is released: a verification job ends (quantumJobQueue.js), the login page that
\* polls a ticket stops waiting (LoginPage.jsx), a computation that queues is served
\* (quantumProcess.js), the assistant that makes room listens again (GlobalVoiceAssistant.jsx),
\* whatever crashes, hangs, expires or is lost on the way.
NobodyWaitsForEver == HwJobsSettle /\ WaitEnds /\ PoolServes /\ StaysAwake

=============================================================================
