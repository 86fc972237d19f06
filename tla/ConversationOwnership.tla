--------------------------- MODULE ConversationOwnership ---------------------------
(***************************************************************************)
(* Who may work on a conversation.  The main process takes ownership of a  *)
(* session before it prepares a prompt and keeps it until the agent        *)
(* process says that the run has drained (main/ipc/session-commands.ts,    *)
(* conversation-operation-guard.ts, agent-run-drain.ts); deleting history  *)
(* needs the same session to be free.  The agent process admits runs and   *)
(* streams their events (utilities/agent-entry.ts, agent-run-registry.ts). *)
(* In between are two ordered channels and a worker that exits and is      *)
(* restarted (UtilityWorker).                                              *)
(*                                                                         *)
(* A prompt gives rise to at most one run, so a prompt stands for the call *)
(* of session.prompt (or of a conversation of the extras), for its owner   *)
(* identifier, for the command sent to the agent and for the run.          *)
(***************************************************************************)
EXTENDS UtilityWorker, Sequences, FiniteSets

CONSTANTS
    Sessions,
    Prompts,        \* calls of session.prompt
    Managements,    \* calls that purge or delete the history of a session
    SessionOf,      \* the session each call is about
    MaxActiveRuns,  \* MAX_ACTIVE_RUNS
    MaxCrashes,     \* how often the agent process dies of itself
    Faults,         \* what may go wrong, see FaultNames
    Nil

\* midPrepare: the agent process exits unexpectedly while a prompt is prepared;
\* slowAnswer: a prompt times out before the agent has admitted it.
FaultNames == {"midPrepare", "slowAnswer"}

ASSUME OwnershipAssumption ==
    /\ Nil \notin Prompts
    /\ Prompts \cap Managements = {}
    /\ SessionOf \in [Prompts \cup Managements -> Sessions]
    /\ MaxActiveRuns \in Nat
    /\ MaxCrashes \in Nat
    /\ Faults \subseteq FaultNames

VARIABLES
    call,           \* where each call of session.prompt is
    managing,       \* where each call that manages history is
    lease,          \* the prompt that owns each session, or Nil
    activeRuns,     \* main's view of each run
    terminalRuns,   \* runs main has seen end
    toAgent,        \* messages posted to the agent process
    toMain,         \* messages posted by the agent process
    run,            \* the stream of each run in the agent process
    sessionRuns,    \* the run of each session in the agent process
    crashes

mainVars == <<call, managing, lease, activeRuns, terminalRuns>>
agentVars == <<run, sessionRuns>>
vars == <<workerVars, mainVars, toAgent, toMain, agentVars, crashes>>

Init ==
    /\ WorkerInit
    /\ call = [p \in Prompts |-> "idle"]
    /\ managing = [m \in Managements |-> "idle"]
    /\ lease = [s \in Sessions |-> Nil]
    /\ activeRuns = [p \in Prompts |-> "absent"]
    /\ terminalRuns = {}
    /\ toAgent = <<>>
    /\ toMain = <<>>
    /\ run = [p \in Prompts |-> "none"]
    /\ sessionRuns = [s \in Sessions |-> Nil]
    /\ crashes = 0

Message(kind, p) == [kind |-> kind, prompt |-> p]

InTransit(kind, p, channel) == \E i \in 1..Len(channel) : channel[i] = Message(kind, p)

-----------------------------------------------------------------------------
(* The guard of conversation operations.                                   *)

Managed(s) == \E m \in Managements : SessionOf[m] = s /\ managing[m] = "working"

\* Mutant: the guard looks at the runs it knows, not at prompts on their way.
Free_RunsOnly(s) ==
    ~Managed(s) /\ \A p \in Prompts : SessionOf[p] = s => activeRuns[p] = "absent"

\* acquireConversationOperation refuses a session that is owned, managed or has a run.
Free(s) ==
    /\ lease[s] = Nil
    /\ ~Managed(s)
    /\ \A p \in Prompts : SessionOf[p] = s => activeRuns[p] = "absent"

\* Mutant: the entry of the session is dropped from the map.
Released_Dropped(p) == [s \in {t \in Sessions : lease[t] # p} |-> lease[s]]

\* The lease of p is given back, unless it has been already.
Released(p) == [s \in Sessions |-> IF lease[s] = p THEN Nil ELSE lease[s]]

-----------------------------------------------------------------------------
(* session.prompt in the main process.                                     *)

BeginPrompt(p) ==
    /\ call[p] = "idle"
    /\ Free(SessionOf[p])
    /\ call' = [call EXCEPT ![p] = "preparing"]
    /\ lease' = [lease EXCEPT ![SessionOf[p]] = p]
    /\ UNCHANGED <<workerVars, managing, activeRuns, terminalRuns, toAgent, toMain, agentVars, crashes>>

RefusePrompt(p) ==
    /\ call[p] = "idle"
    /\ ~Free(SessionOf[p])
    /\ call' = [call EXCEPT ![p] = "returned"]
    /\ UNCHANGED <<workerVars, managing, lease, activeRuns, terminalRuns, toAgent, toMain,
                   agentVars, crashes>>

\* Resolving a model or a profile fails, the prompt exceeds its budget, or the
\* worker is not available when the command is ready.
PromptFails(p) ==
    /\ call[p] = "preparing"
    /\ call' = [call EXCEPT ![p] = "returned"]
    /\ lease' = Released(p)
    /\ UNCHANGED <<workerVars, managing, activeRuns, terminalRuns, toAgent, toMain, agentVars, crashes>>

\* From here on keepOwnership holds: the agent may have started.
SendPrompt(p) ==
    /\ call[p] = "preparing"
    /\ Available
    /\ call' = [call EXCEPT ![p] = "waiting"]
    /\ toAgent' = Append(toAgent, Message("prompt", p))
    /\ UNCHANGED <<workerVars, managing, lease, activeRuns, terminalRuns, toMain, agentVars, crashes>>

Admitted(p) == ~InTransit("prompt", p, toAgent) /\ ~InTransit("rejected", p, toMain)

\* No answer in ten seconds: whether the run has started is not known.
PromptTimeout(p) ==
    /\ call[p] = "waiting"
    /\ Admitted(p) \/ "slowAnswer" \in Faults
    /\ call' = [call EXCEPT ![p] = "returned"]
    /\ UNCHANGED <<workerVars, managing, lease, activeRuns, terminalRuns, toAgent, toMain,
                   agentVars, crashes>>

-----------------------------------------------------------------------------
(* rendererState.history.purge, and commits that delete.                   *)

BeginManage(m) ==
    /\ managing[m] = "idle"
    /\ managing' = [managing EXCEPT ![m] = IF Free(SessionOf[m]) THEN "working" ELSE "returned"]
    /\ UNCHANGED <<workerVars, call, lease, activeRuns, terminalRuns, toAgent, toMain, agentVars, crashes>>

EndManage(m) ==
    /\ managing[m] = "working"
    /\ managing' = [managing EXCEPT ![m] = "returned"]
    /\ UNCHANGED <<workerVars, call, lease, activeRuns, terminalRuns, toAgent, toMain, agentVars, crashes>>

-----------------------------------------------------------------------------
(* What the main process does with a message of the agent process.         *)

Receive(kind, p) ==
    /\ toMain # <<>>
    /\ Head(toMain) = Message(kind, p)
    /\ toMain' = Tail(toMain)
    /\ UNCHANGED <<workerVars, managing, toAgent, agentVars, crashes>>

\* A run that has ended by now must not be entered again.
RememberRun(p) == p \notin terminalRuns

ReceiveAccepted(p) ==
    /\ Receive("accepted", p)
    /\ IF call[p] = "waiting"
       THEN /\ call' = [call EXCEPT ![p] = "returned"]
            /\ activeRuns' = [activeRuns EXCEPT ![p] = IF RememberRun(p) THEN "accepted" ELSE @]
       ELSE UNCHANGED <<call, activeRuns>>
    /\ UNCHANGED <<lease, terminalRuns>>

\* Mutant: a refusal by the agent keeps the session owned.
ReceiveRejected_Keeps(p) ==
    /\ Receive("rejected", p)
    /\ call' = [call EXCEPT ![p] = IF @ = "waiting" THEN "returned" ELSE @]
    /\ UNCHANGED <<lease, activeRuns, terminalRuns>>

\* An explicit refusal proves that nothing runs.  One that comes after the
\* time-out is dropped with the pending command.
ReceiveRejected(p) ==
    /\ Receive("rejected", p)
    /\ IF call[p] = "waiting"
       THEN /\ call' = [call EXCEPT ![p] = "returned"]
            /\ lease' = Released(p)
       ELSE UNCHANGED <<call, lease>>
    /\ UNCHANGED <<activeRuns, terminalRuns>>

\* An event of a run main does not know opens it provisionally.
ReceiveEvent(p) ==
    /\ Receive("event", p)
    /\ activeRuns' = [activeRuns EXCEPT
                        ![p] = IF @ = "absent" /\ p \notin terminalRuns THEN "unaccepted" ELSE @]
    /\ UNCHANGED <<call, lease, terminalRuns>>

\* Mutant: what the user sees as the end gives the session back.
ReceiveTerminal_Releases(p) ==
    /\ Receive("terminal", p)
    /\ terminalRuns' = terminalRuns \cup {p}
    /\ activeRuns' = [activeRuns EXCEPT ![p] = "absent"]
    /\ lease' = Released(p)
    /\ UNCHANGED call

\* Mutant: the end of a run leaves it the authority to call the core.
ReceiveTerminal_Authority(p) ==
    /\ Receive("terminal", p)
    /\ terminalRuns' = terminalRuns \cup {p}
    /\ activeRuns' = [activeRuns EXCEPT ![p] = IF @ = "absent" THEN "unaccepted" ELSE @]
    /\ UNCHANGED <<call, lease>>

\* The last message or an error: what the user sees as the end of the run.
ReceiveTerminal(p) ==
    /\ Receive("terminal", p)
    /\ terminalRuns' = terminalRuns \cup {p}
    /\ activeRuns' = [activeRuns EXCEPT
                        ![p] = IF @ # "absent" \/ p \notin terminalRuns THEN "unaccepted" ELSE @]
    /\ UNCHANGED <<call, lease>>

\* releaseDrainedAgentRun
ReceiveDrained(p) ==
    /\ Receive("drained", p)
    /\ terminalRuns' = terminalRuns \cup {p}
    /\ activeRuns' = [activeRuns EXCEPT ![p] = "absent"]
    /\ lease' = Released(p)
    /\ UNCHANGED call

-----------------------------------------------------------------------------
(* The agent process.                                                      *)

Streams == {p \in Prompts : run[p] # "none"}

\* Mutant: the agent relies on main to send one prompt of a session at a time.
Inadmissible_Capacity(p) == child = "draining" \/ Cardinality(Streams) >= MaxActiveRuns

\* runtime.ts while it shuts down, and admissionError.
Inadmissible(p) ==
    \/ child = "draining"
    \/ sessionRuns[SessionOf[p]] # Nil
    \/ Cardinality(Streams) >= MaxActiveRuns

TakePrompt(p) ==
    /\ toAgent # <<>>
    /\ Head(toAgent) = Message("prompt", p)
    /\ toAgent' = Tail(toAgent)
    /\ UNCHANGED <<workerVars, mainVars, crashes>>

RejectRun(p) ==
    /\ TakePrompt(p)
    /\ Inadmissible(p)
    /\ toMain' = Append(toMain, Message("rejected", p))
    /\ UNCHANGED agentVars

\* begin and stream; the acceptance is posted before the first event.
AdmitRun(p) ==
    /\ TakePrompt(p)
    /\ ~Inadmissible(p)
    /\ toMain' = Append(toMain, Message("accepted", p))
    /\ run' = [run EXCEPT ![p] = "running"]
    /\ sessionRuns' = [sessionRuns EXCEPT ![SessionOf[p]] = p]

Post(kind, p) ==
    /\ toMain' = Append(toMain, Message(kind, p))
    /\ UNCHANGED <<workerVars, mainVars, toAgent, crashes>>

RunEvent(p) ==
    /\ run[p] = "running"
    /\ run' = [run EXCEPT ![p] = "talking"]
    /\ Post("event", p)
    /\ UNCHANGED sessionRuns

RunTerminal(p) ==
    /\ run[p] \in {"running", "talking"}
    /\ run' = [run EXCEPT ![p] = "ended"]
    /\ Post("terminal", p)
    /\ UNCHANGED sessionRuns

\* The finally block of stream, once the events of the run have come to an end.
RunDrained(p) ==
    /\ run[p] # "none"
    /\ run' = [run EXCEPT ![p] = "none"]
    /\ sessionRuns' = [s \in Sessions |-> IF sessionRuns[s] = p THEN Nil ELSE sessionRuns[s]]
    /\ Post("drained", p)

TakeShutdown ==
    /\ toAgent # <<>>
    /\ Head(toAgent).kind = "shutdown"
    /\ toAgent' = Tail(toAgent)
    /\ BeginDrain
    /\ UNCHANGED <<mainVars, toMain, agentVars, crashes>>

-----------------------------------------------------------------------------
(* The agent process comes and goes.                                       *)

AskRestart ==
    /\ RestartRunning
    /\ toAgent' = Append(toAgent, Message("shutdown", Nil))
    /\ UNCHANGED <<mainVars, toMain, agentVars, crashes>>

WorkerStep ==
    /\ WorkerAlone
    /\ UNCHANGED <<mainVars, toAgent, toMain, agentVars, crashes>>

Unexpected == ~isStopping

\* Mutant: prompts that wait for their acceptance are forgotten.
ReleaseAll_RunsOnly ==
    IF Unexpected
    THEN /\ lease' = [s \in Sessions |->
                        IF lease[s] # Nil /\ activeRuns[lease[s]] # "absent" THEN Nil ELSE lease[s]]
         /\ activeRuns' = [p \in Prompts |-> "absent"]
         /\ terminalRuns' = terminalRuns \cup {p \in Prompts : activeRuns[p] # "absent"}
    ELSE UNCHANGED <<lease, activeRuns, terminalRuns>>

\* Mutant: the sessions are released, the list of runs is not cleared.
ReleaseAll_LeasesOnly ==
    IF Unexpected
    THEN /\ lease' = [s \in Sessions |-> Nil]
         /\ terminalRuns' = terminalRuns \cup {p \in Prompts : activeRuns[p] # "absent"}
         /\ UNCHANGED activeRuns
    ELSE UNCHANGED <<lease, activeRuns, terminalRuns>>

\* handleUnexpectedExit in main/index.ts: worker death releases every prompt.
ReleaseAll ==
    IF Unexpected
    THEN /\ lease' = [s \in Sessions |-> Nil]
         /\ activeRuns' = [p \in Prompts |-> "absent"]
         /\ terminalRuns' = terminalRuns \cup {p \in Prompts : activeRuns[p] # "absent"}
    ELSE UNCHANGED <<lease, activeRuns, terminalRuns>>

\* The exit handler: pending commands fail, and what was in transit is gone.
ProcessEnds ==
    /\ Exit
    /\ Unexpected => "midPrepare" \in Faults \/ \A p \in Prompts : call[p] # "preparing"
    /\ call' = [p \in Prompts |-> IF call[p] = "waiting" THEN "returned" ELSE call[p]]
    /\ ReleaseAll
    /\ toAgent' = <<>>
    /\ toMain' = <<>>
    /\ run' = [p \in Prompts |-> "none"]
    /\ sessionRuns' = [s \in Sessions |-> Nil]
    /\ UNCHANGED managing

\* Draining ends when the runs have, or after a second (runs.shutdown); what has
\* been posted either way is delivered before the process is left.
ExitDrained ==
    /\ child = "draining"
    /\ toAgent = <<>> /\ toMain = <<>>
    /\ ProcessEnds
    /\ UNCHANGED crashes

Crash ==
    /\ crashes < MaxCrashes
    /\ crashes' = crashes + 1
    /\ ProcessEnds

-----------------------------------------------------------------------------
MainStep(p) ==
    \/ BeginPrompt(p) \/ RefusePrompt(p) \/ PromptFails(p) \/ SendPrompt(p) \/ PromptTimeout(p)
    \/ ReceiveAccepted(p) \/ ReceiveRejected(p) \/ ReceiveEvent(p) \/ ReceiveTerminal(p)
    \/ ReceiveDrained(p)

AgentStep(p) ==
    RejectRun(p) \/ AdmitRun(p) \/ RunEvent(p) \/ RunTerminal(p) \/ RunDrained(p)

Next ==
    \/ \E p \in Prompts : MainStep(p) \/ AgentStep(p)
    \/ \E m \in Managements : BeginManage(m) \/ EndManage(m)
    \/ TakeShutdown \/ AskRestart \/ WorkerStep \/ ExitDrained \/ Crash

Spec == Init /\ [][Next]_vars

\* Handlers finish, messages arrive, and the model and the tools of a run end.
Fairness ==
    /\ WorkerFairness
    /\ \A p \in Prompts :
        /\ WF_vars(PromptFails(p) \/ SendPrompt(p))
        /\ WF_vars(ReceiveAccepted(p) \/ ReceiveRejected(p) \/ ReceiveEvent(p)
                    \/ ReceiveTerminal(p) \/ ReceiveDrained(p))
        /\ WF_vars(RejectRun(p) \/ AdmitRun(p))
        /\ WF_vars(RunDrained(p))
    /\ \A m \in Managements : WF_vars(EndManage(m))
    /\ WF_vars(TakeShutdown)
    /\ WF_vars(ExitDrained)

FairSpec == Spec /\ Fairness

-----------------------------------------------------------------------------
Kinds == {"accepted", "rejected", "event", "terminal", "drained"}

\* Every variable has its type.
TypeOK ==
    /\ WorkerTypeOK
    /\ call \in [Prompts -> {"idle", "preparing", "waiting", "returned"}]
    /\ managing \in [Managements -> {"idle", "working", "returned"}]
    /\ lease \in [Sessions -> Prompts \cup {Nil}]
    /\ activeRuns \in [Prompts -> {"absent", "unaccepted", "accepted"}]
    /\ terminalRuns \subseteq Prompts
    /\ toAgent \in Seq([kind : {"prompt"}, prompt : Prompts] \cup {Message("shutdown", Nil)})
    /\ toMain \in Seq([kind : Kinds, prompt : Prompts])
    /\ run \in [Prompts -> {"none", "running", "talking", "ended"}]
    /\ sessionRuns \in [Sessions -> Prompts \cup {Nil}]
    /\ crashes \in 0..MaxCrashes

\* A run owns its session from before its prompt is sent until it has drained:
\* acquireConversationOperation, keepOwnership and releaseDrainedAgentRun together.
OwnedWhileRunning ==
    \A p \in Prompts :
        run[p] # "none" \/ InTransit("prompt", p, toAgent) => lease[SessionOf[p]] = p

\* No run of a session is executing, or about to, while the history of the
\* session is purged or deleted (conversation-history-commands.ts).
ManagedAlone ==
    \A p \in Prompts :
        run[p] # "none" \/ InTransit("prompt", p, toAgent) => ~Managed(SessionOf[p])

\* Something is left that will give a lease back: the call that prepares it, or
\* an answer of the process its prompt was sent to.
LeaseHasReleaser ==
    \A s \in Sessions : lease[s] # Nil =>
        LET p == lease[s] IN
        \/ call[p] = "preparing"
        \/ InTransit("prompt", p, toAgent)
        \/ call[p] = "waiting" /\ InTransit("rejected", p, toMain)
        \/ run[p] # "none"
        \/ InTransit("drained", p, toMain)

\* A run that main lists as active goes on at the agent, or the report of its
\* drainage is on the way; the list keeps sessions busy and updates waiting.
NoGhostRun ==
    \A p \in Prompts : activeRuns[p] # "absent" =>
        run[p] # "none" \/ InTransit("drained", p, toMain)

\* A session that is owned becomes free again.
LeaseEnds == \A s \in Sessions : lease[s] # Nil ~> lease[s] = Nil

\* However main has lost track, the agent runs one prompt of a session at a time.
OneRunPerSession ==
    \A p, q \in Streams : SessionOf[p] = SessionOf[q] => p = q

\* Once the user has seen a run end it has no authority to call the core any
\* more (internal-command-authorizer.ts asks for accepted), acceptance or not.
EndedHasNoAuthority == \A p \in terminalRuns : activeRuns[p] # "accepted"

\* A worker that refuses commands because it stops has a shutdown pending whose
\* end will let it accept commands again.
StoppingIsPending == isStopping => pendingShutdown # "none"

\* A worker that is gone or refuses commands is available again, whatever
\* crashes, restarts and time-outs come together.
WorkerComesBack == ~Available ~> Available

=============================================================================
