----------------------- MODULE ConversationOwnership_proofs -----------------------
(***************************************************************************)
(* Proofs about ConversationOwnership, for any number of sessions, prompts *)
(* and managements, and any number of crashes and restarts: types; what    *)
(* holds under every fault; as long as the agent process does not exit     *)
(* while a prompt is prepared, that runs own their sessions; and as long   *)
(* as nobody restarts it, that main forgets no end of a run or a prompt.   *)
(***************************************************************************)
EXTENDS ConversationOwnership, TLAPS

\* What is in a channel after a message has been posted.
LEMMA Appended ==
  ASSUME NEW T, NEW channel \in Seq(T), NEW m \in T, NEW kind, NEW p
  PROVE  InTransit(kind, p, Append(channel, m))
           <=> InTransit(kind, p, channel) \/ m = Message(kind, p)
<1>1. /\ Len(Append(channel, m)) = Len(channel) + 1
      /\ \A i \in 1..Len(channel) : Append(channel, m)[i] = channel[i]
      /\ Append(channel, m)[Len(channel) + 1] = m
      /\ Len(channel) \in Nat
  OBVIOUS
<1> QED
  BY <1>1 DEF InTransit

\* Taking a message adds none to the channel.
LEMMA Taken ==
  ASSUME NEW T, NEW channel \in Seq(T), channel # <<>>, NEW kind, NEW p,
         InTransit(kind, p, Tail(channel))
  PROVE  InTransit(kind, p, channel)
<1>1. /\ Len(Tail(channel)) = Len(channel) - 1
      /\ \A i \in 1..Len(channel) - 1 : Tail(channel)[i] = channel[i + 1]
      /\ Len(channel) \in Nat
  OBVIOUS
<1>2. PICK i \in 1..Len(channel) - 1 : channel[i + 1] = Message(kind, p)
  BY <1>1 DEF InTransit
<1> QED
  BY <1>1, <1>2 DEF InTransit

\* Taking a message keeps every other one in the channel.
LEMMA Kept ==
  ASSUME NEW T, NEW channel \in Seq(T), channel # <<>>, NEW kind, NEW p,
         InTransit(kind, p, channel), Head(channel) # Message(kind, p)
  PROVE  InTransit(kind, p, Tail(channel))
<1>1. /\ Len(Tail(channel)) = Len(channel) - 1
      /\ \A i \in 1..Len(channel) - 1 : Tail(channel)[i] = channel[i + 1]
      /\ Len(channel) \in Nat
      /\ Head(channel) = channel[1]
  OBVIOUS
<1>2. PICK i \in 1..Len(channel) : channel[i] = Message(kind, p)
  BY DEF InTransit
<1>3. i - 1 \in 1..Len(channel) - 1 /\ (i - 1) + 1 = i
  BY <1>1, <1>2
<1> QED
  BY <1>1, <1>2, <1>3 DEF InTransit

\* The first message of a channel is in transit.
LEMMA HeadInTransit ==
  ASSUME NEW T, NEW channel \in Seq(T), channel # <<>>, NEW kind, NEW p,
         Head(channel) = Message(kind, p)
  PROVE  InTransit(kind, p, channel)
<1>1. Len(channel) \in Nat /\ Len(channel) >= 1 /\ Head(channel) = channel[1]
  OBVIOUS
<1> QED
  BY <1>1 DEF InTransit

-----------------------------------------------------------------------------
(* Types.                                                                  *)

ToAgentMessages == [kind : {"prompt"}, prompt : Prompts] \cup {Message("shutdown", Nil)}
ToMainMessages == [kind : Kinds, prompt : Prompts]

\* The count of restarts that poll stays in bounds because each was counted.
TypeInv == TypeOK /\ polling <= restarts

\* The steps of the worker preserve its types.
LEMMA WorkerTypeStep ==
  ASSUME WorkerTypeOK, polling <= restarts,
         WorkerAlone \/ RestartRunning \/ BeginDrain \/ Exit
  PROVE  WorkerTypeOK' /\ polling' <= restarts'
<1> USE MaxRestartsAssumption DEF WorkerTypeOK
<1>s. ASSUME NEW stopping
      PROVE  Started(child, stopping) \in {"none", "up", "draining"}
  BY DEF Started
<1>1. CASE RestartStopped
  <2>1. isStopping' \in BOOLEAN
    BY <1>1, Zenon DEF RestartStopped
  <2>2. child' \in {"none", "up", "draining"}
    BY <1>1, <1>s, Zenon DEF RestartStopped
  <2>3. /\ restarts < MaxRestarts /\ restarts' = restarts + 1
        /\ UNCHANGED <<pendingShutdown, graceTimer, polling, restartTimer>>
    BY <1>1, Zenon DEF RestartStopped
  <2> QED
    BY <2>1, <2>2, <2>3
<1>2. CASE RestartPolling
  BY <1>2 DEF RestartPolling
<1>3. CASE PollEnds
  <2>1. isStopping' \in BOOLEAN
    BY <1>3, Zenon DEF PollEnds
  <2>2. child' \in {"none", "up", "draining"}
    BY <1>3, <1>s, Zenon DEF PollEnds
  <2>3. /\ polling > 0 /\ polling' = polling - 1
        /\ UNCHANGED <<pendingShutdown, graceTimer, restartTimer, restarts>>
    BY <1>3, Zenon DEF PollEnds
  <2> QED
    BY <2>1, <2>2, <2>3
<1>4. CASE KillTimeout
  BY <1>4 DEF KillTimeout
<1>5. CASE GraceTimeout
  BY <1>5 DEF GraceTimeout
<1>6. CASE RestartTimeout
  BY <1>6, <1>s DEF RestartTimeout
<1>7. CASE RestartRunning
  BY <1>7 DEF RestartRunning
<1>8. CASE BeginDrain
  BY <1>8 DEF BeginDrain
<1>9. CASE Exit
  BY <1>9 DEF Exit
<1> QED
  BY <1>1, <1>2, <1>3, <1>4, <1>5, <1>6, <1>7, <1>8, <1>9 DEF WorkerAlone

\* The types of the channels and of the worker hold if they are left alone.
LEMMA WorkerTypeSame ==
  ASSUME WorkerTypeOK, polling <= restarts, UNCHANGED workerVars
  PROVE  WorkerTypeOK' /\ polling' <= restarts'
BY DEF WorkerTypeOK, workerVars

LEMMA InitType == ASSUME Init PROVE TypeInv
<1> USE OwnershipAssumption, MaxRestartsAssumption
<1>1. WorkerInit
  BY DEF Init
<1>2. /\ isStopping \in BOOLEAN
      /\ graceTimer \in BOOLEAN
      /\ restartTimer \in BOOLEAN
  BY <1>1, Zenon DEF WorkerInit
<1>3. WorkerTypeOK /\ polling <= restarts
  BY <1>1, <1>2 DEF WorkerInit, WorkerTypeOK
<1> QED
  BY <1>3 DEF Init, TypeInv, TypeOK

\* The steps of the main process preserve the types.
LEMMA MainTypeStep ==
  ASSUME TypeInv, NEW p \in Prompts, MainStep(p)
  PROVE  TypeInv'
<1> USE OwnershipAssumption DEF TypeInv, TypeOK, mainVars, agentVars
<1> DEFINE T == ToAgentMessages
<1>0. UNCHANGED <<workerVars, managing, agentVars, crashes>>
  BY DEF MainStep, BeginPrompt, RefusePrompt, PromptFails, SendPrompt, PromptTimeout,
         ReceiveAccepted, ReceiveRejected, ReceiveEvent, ReceiveTerminal, ReceiveDrained, Receive
<1>w. WorkerTypeOK' /\ polling' <= restarts'
  BY <1>0, WorkerTypeSame
<1>t. SessionOf[p] \in Sessions /\ Released(p) \in [Sessions -> Prompts \cup {Nil}]
  BY DEF Released
<1>s. ASSUME NEW kind, Receive(kind, p)
      PROVE  toAgent' = toAgent /\ toMain' \in Seq(ToMainMessages)
  BY <1>s DEF Receive, ToMainMessages
<1>1. CASE BeginPrompt(p)
  BY <1>1, <1>0, <1>w, <1>t DEF BeginPrompt
<1>2. CASE RefusePrompt(p)
  BY <1>2, <1>0, <1>w DEF RefusePrompt
<1>3. CASE PromptFails(p)
  BY <1>3, <1>0, <1>w, <1>t DEF PromptFails
<1>4. CASE SendPrompt(p)
  <2>1. Message("prompt", p) \in T
    BY DEF Message, ToAgentMessages
  <2>2. toAgent' \in Seq(T)
    BY <1>4, <2>1 DEF SendPrompt, ToAgentMessages
  <2> QED
    BY <1>4, <1>0, <1>w, <2>2 DEF SendPrompt, ToAgentMessages
<1>5. CASE PromptTimeout(p)
  BY <1>5, <1>0, <1>w DEF PromptTimeout
<1>6. CASE ReceiveAccepted(p)
  BY <1>6, <1>0, <1>w, <1>s DEF ReceiveAccepted, ToMainMessages
<1>7. CASE ReceiveRejected(p)
  BY <1>7, <1>0, <1>w, <1>t, <1>s DEF ReceiveRejected, ToMainMessages
<1>8. CASE ReceiveEvent(p)
  BY <1>8, <1>0, <1>w, <1>s DEF ReceiveEvent, ToMainMessages
<1>9. CASE ReceiveTerminal(p)
  BY <1>9, <1>0, <1>w, <1>s DEF ReceiveTerminal, ToMainMessages
<1>10. CASE ReceiveDrained(p)
  BY <1>10, <1>0, <1>w, <1>t, <1>s DEF ReceiveDrained, ToMainMessages
<1> QED
  BY <1>1, <1>2, <1>3, <1>4, <1>5, <1>6, <1>7, <1>8, <1>9, <1>10 DEF MainStep

\* The steps of the agent process that concern a run preserve the types.
LEMMA AgentTypeStep ==
  ASSUME TypeInv, NEW p \in Prompts, AgentStep(p)
  PROVE  TypeInv'
<1> USE OwnershipAssumption DEF TypeInv, TypeOK, mainVars, agentVars
<1>0. UNCHANGED <<workerVars, mainVars, crashes>>
  BY DEF AgentStep, RejectRun, AdmitRun, TakePrompt, RunEvent, RunTerminal, RunDrained, Post
<1>w. WorkerTypeOK' /\ polling' <= restarts'
  BY <1>0, WorkerTypeSame
<1>t. ASSUME TakePrompt(p)
      PROVE  toAgent' \in Seq(ToAgentMessages)
  BY <1>t DEF TakePrompt, ToAgentMessages
<1>m. ASSUME NEW kind \in Kinds, toMain' = Append(toMain, Message(kind, p))
      PROVE  toMain' \in Seq(ToMainMessages)
  <2>1. Message(kind, p) \in ToMainMessages
    BY DEF Message, ToMainMessages
  <2> QED
    BY <1>m, <2>1 DEF ToMainMessages
<1>k. {"accepted", "rejected", "event", "terminal", "drained"} = Kinds
  BY DEF Kinds
<1> DEFINE Keeps == /\ toAgent' \in Seq(ToAgentMessages)
                   /\ toMain' \in Seq(ToMainMessages)
                   /\ run' \in [Prompts -> {"none", "running", "talking", "ended"}]
                   /\ sessionRuns' \in [Sessions -> Prompts \cup {Nil}]
<1>q. Keeps => TypeInv'
  BY <1>0, <1>w DEF ToAgentMessages, ToMainMessages
<1>1. CASE RejectRun(p)
  <2>1. toMain' \in Seq(ToMainMessages)
    BY <1>1, <1>m, <1>k DEF RejectRun
  <2> QED
    BY <1>1, <1>t, <1>q, <2>1 DEF RejectRun
<1>2. CASE AdmitRun(p)
  <2>1. toMain' \in Seq(ToMainMessages)
    BY <1>2, <1>m, <1>k DEF AdmitRun
  <2> QED
    BY <1>2, <1>t, <1>q, <2>1 DEF AdmitRun
<1>3. CASE RunEvent(p)
  <2>1. toMain' \in Seq(ToMainMessages)
    BY <1>3, <1>m, <1>k DEF RunEvent, Post
  <2> QED
    BY <1>3, <1>q, <2>1 DEF RunEvent, Post, ToAgentMessages
<1>4. CASE RunTerminal(p)
  <2>1. toMain' \in Seq(ToMainMessages)
    BY <1>4, <1>m, <1>k DEF RunTerminal, Post
  <2> QED
    BY <1>4, <1>q, <2>1 DEF RunTerminal, Post, ToAgentMessages
<1>5. CASE RunDrained(p)
  <2>1. toMain' \in Seq(ToMainMessages)
    BY <1>5, <1>m, <1>k DEF RunDrained, Post
  <2> QED
    BY <1>5, <1>q, <2>1 DEF RunDrained, Post, ToAgentMessages
<1> QED
  BY <1>1, <1>2, <1>3, <1>4, <1>5 DEF AgentStep

\* The steps that manage history, and those of the process as a whole, preserve the types.
LEMMA ProcessTypeStep ==
  ASSUME TypeInv,
         \/ \E m \in Managements : BeginManage(m) \/ EndManage(m)
         \/ TakeShutdown \/ AskRestart \/ WorkerStep \/ ExitDrained \/ Crash
  PROVE  TypeInv'
<1> USE OwnershipAssumption DEF TypeInv, TypeOK, mainVars, agentVars
<1>1. ASSUME NEW m \in Managements, BeginManage(m)
      PROVE  TypeInv'
  <2>1. WorkerTypeOK' /\ polling' <= restarts'
    BY <1>1, WorkerTypeSame DEF BeginManage
  <2> QED
    BY <1>1, <2>1 DEF BeginManage
<1>2. ASSUME NEW m \in Managements, EndManage(m)
      PROVE  TypeInv'
  <2>1. WorkerTypeOK' /\ polling' <= restarts'
    BY <1>2, WorkerTypeSame DEF EndManage
  <2> QED
    BY <1>2, <2>1 DEF EndManage
<1>3. CASE TakeShutdown
  <2>1. WorkerTypeOK' /\ polling' <= restarts'
    BY <1>3, WorkerTypeStep DEF TakeShutdown
  <2>2. toAgent' \in Seq(ToAgentMessages)
    BY <1>3 DEF TakeShutdown, ToAgentMessages
  <2> QED
    BY <1>3, <2>1, <2>2 DEF TakeShutdown, ToAgentMessages
<1>4. CASE AskRestart
  <2>1. WorkerTypeOK' /\ polling' <= restarts'
    BY <1>4, WorkerTypeStep DEF AskRestart
  <2>2. toAgent' \in Seq(ToAgentMessages)
    BY <1>4 DEF AskRestart, ToAgentMessages
  <2> QED
    BY <1>4, <2>1, <2>2 DEF AskRestart, ToAgentMessages
<1>5. CASE WorkerStep
  <2>1. WorkerTypeOK' /\ polling' <= restarts'
    BY <1>5, WorkerTypeStep DEF WorkerStep
  <2> QED
    BY <1>5, <2>1 DEF WorkerStep
<1>6. ASSUME ProcessEnds, crashes' \in 0..MaxCrashes
      PROVE  TypeInv'
  <2>1. WorkerTypeOK' /\ polling' <= restarts'
    BY <1>6, WorkerTypeStep DEF ProcessEnds
  <2>2. /\ lease' \in [Sessions -> Prompts \cup {Nil}]
        /\ activeRuns' \in [Prompts -> {"absent", "unaccepted", "accepted"}]
        /\ terminalRuns' \subseteq Prompts
    BY <1>6 DEF ProcessEnds, ReleaseAll
  <2>3. /\ call' \in [Prompts -> {"idle", "preparing", "waiting", "returned"}]
        /\ run' \in [Prompts -> {"none", "running", "talking", "ended"}]
        /\ sessionRuns' \in [Sessions -> Prompts \cup {Nil}]
    BY <1>6 DEF ProcessEnds
  <2>4. toAgent' \in Seq(ToAgentMessages) /\ toMain' \in Seq(ToMainMessages)
    BY <1>6 DEF ProcessEnds
  <2>5. managing' \in [Managements -> {"idle", "working", "returned"}]
    BY <1>6 DEF ProcessEnds
  <2> QED
    BY <1>6, <2>1, <2>2, <2>3, <2>4, <2>5 DEF ToAgentMessages, ToMainMessages
<1>7. CASE ExitDrained
  BY <1>7, <1>6 DEF ExitDrained
<1>8. CASE Crash
  BY <1>8, <1>6 DEF Crash
<1> QED
  BY <1>1, <1>2, <1>3, <1>4, <1>5, <1>7, <1>8

LEMMA TypeStep == ASSUME TypeInv, [Next]_vars PROVE TypeInv'
<1>1. CASE UNCHANGED vars
  BY <1>1 DEF vars, workerVars, mainVars, agentVars, TypeInv, TypeOK, WorkerTypeOK
<1> QED
  BY <1>1, MainTypeStep, AgentTypeStep, ProcessTypeStep DEF Next

\* Every variable has its type, under every fault and for any bounds.
THEOREM TypeCorrect == Spec => []TypeOK
<1>1. Spec => []TypeInv
  BY InitType, TypeStep, PTL DEF Spec
<1> QED
  BY <1>1, PTL DEF TypeInv

-----------------------------------------------------------------------------
(* What holds under every fault.                                           *)

\* The steps of the main process leave the agent process alone, and the other way round.
LEMMA Sides ==
  ASSUME NEW p \in Prompts
  PROVE  /\ MainStep(p) => UNCHANGED <<workerVars, agentVars>>
         /\ AgentStep(p) => UNCHANGED <<workerVars, mainVars>>
BY DEF MainStep, BeginPrompt, RefusePrompt, PromptFails, SendPrompt, PromptTimeout,
       ReceiveAccepted, ReceiveRejected, ReceiveEvent, ReceiveTerminal, ReceiveDrained, Receive,
       AgentStep, RejectRun, AdmitRun, TakePrompt, RunEvent, RunTerminal, RunDrained, Post

\* A run is the one its session names.
SessionNamesRun == \A p \in Prompts : run[p] # "none" => sessionRuns[SessionOf[p]] = p

LEMMA SessionNamesRunStep ==
  ASSUME TypeInv, SessionNamesRun, [Next]_vars
  PROVE  SessionNamesRun'
<1> USE OwnershipAssumption DEF TypeInv, TypeOK, SessionNamesRun
<1>1. ASSUME UNCHANGED agentVars
      PROVE  SessionNamesRun'
  BY <1>1 DEF agentVars
<1>2. ASSUME NEW p \in Prompts, AgentStep(p)
      PROVE  SessionNamesRun'
  <2>1. CASE RejectRun(p)
    BY <2>1, <1>1 DEF RejectRun
  <2>2. CASE AdmitRun(p)
    BY <2>2 DEF AdmitRun, Inadmissible
  <2>3. CASE RunEvent(p)
    BY <2>3 DEF RunEvent
  <2>4. CASE RunTerminal(p)
    BY <2>4 DEF RunTerminal
  <2>5. CASE RunDrained(p)
    BY <2>5 DEF RunDrained
  <2> QED
    BY <1>2, <2>1, <2>2, <2>3, <2>4, <2>5 DEF AgentStep
<1>3. ASSUME ProcessEnds
      PROVE  SessionNamesRun'
  BY <1>3 DEF ProcessEnds
<1> QED
  BY <1>1, <1>2, <1>3, Sides
     DEF Next, BeginManage, EndManage, TakeShutdown, AskRestart, WorkerStep, ExitDrained, Crash, vars

\* The agent runs one prompt of a session at a time, whatever becomes of the ownership
\* the main process keeps: admissionError asks the agent's own list.
THEOREM OneRun == Spec => []OneRunPerSession
<1>1. Init => SessionNamesRun
  BY DEF Init, SessionNamesRun
<1>2. TypeInv /\ SessionNamesRun /\ [Next]_vars => TypeInv' /\ SessionNamesRun'
  BY TypeStep, SessionNamesRunStep
<1>3. SessionNamesRun => OneRunPerSession
  BY DEF SessionNamesRun, OneRunPerSession, Streams
<1> QED
  BY <1>1, <1>2, <1>3, InitType, PTL DEF Spec

LEMMA AuthorityStep ==
  ASSUME TypeInv, EndedHasNoAuthority, [Next]_vars
  PROVE  EndedHasNoAuthority'
<1> USE DEF TypeInv, TypeOK, EndedHasNoAuthority
<1>1. ASSUME UNCHANGED <<activeRuns, terminalRuns>>
      PROVE  EndedHasNoAuthority'
  BY <1>1
<1>2. ASSUME NEW p \in Prompts, MainStep(p)
      PROVE  EndedHasNoAuthority'
  <2>1. CASE ReceiveAccepted(p)
    BY <2>1 DEF ReceiveAccepted, RememberRun
  <2>2. CASE ReceiveEvent(p)
    BY <2>2 DEF ReceiveEvent
  <2>3. CASE ReceiveTerminal(p)
    BY <2>3 DEF ReceiveTerminal
  <2>4. CASE ReceiveDrained(p)
    BY <2>4 DEF ReceiveDrained
  <2> QED
    BY <1>1, <1>2, <2>1, <2>2, <2>3, <2>4
       DEF MainStep, BeginPrompt, RefusePrompt, PromptFails, SendPrompt, PromptTimeout, ReceiveRejected
<1>3. ASSUME ProcessEnds
      PROVE  EndedHasNoAuthority'
  BY <1>3 DEF ProcessEnds, ReleaseAll
<1> QED
  BY <1>1, <1>2, <1>3, Sides
     DEF Next, BeginManage, EndManage, TakeShutdown, AskRestart, WorkerStep, ExitDrained, Crash,
         vars, mainVars

\* A run that the user has seen end has no authority to call the core, in whatever order
\* its acceptance, its events, its end and its drainage arrive.
THEOREM NoAuthority == Spec => []EndedHasNoAuthority
<1>1. Init => EndedHasNoAuthority
  BY DEF Init, EndedHasNoAuthority
<1>2. TypeInv /\ EndedHasNoAuthority /\ [Next]_vars => TypeInv' /\ EndedHasNoAuthority'
  BY TypeStep, AuthorityStep
<1> QED
  BY <1>1, <1>2, InitType, PTL DEF Spec

LEMMA StoppingStep ==
  ASSUME TypeInv, StoppingIsPending, [Next]_vars
  PROVE  StoppingIsPending'
<1> USE DEF StoppingIsPending
<1>1. ASSUME UNCHANGED workerVars
      PROVE  StoppingIsPending'
  BY <1>1 DEF workerVars
<1>2. CASE WorkerAlone
  <2>1. CASE RestartStopped
    BY <2>1, Zenon DEF RestartStopped
  <2>2. CASE RestartPolling
    BY <2>2 DEF RestartPolling
  <2>3. CASE PollEnds
    BY <2>3, Zenon DEF PollEnds
  <2>4. CASE KillTimeout
    BY <2>4 DEF KillTimeout
  <2>5. CASE GraceTimeout
    BY <2>5, Zenon DEF GraceTimeout
  <2>6. CASE RestartTimeout
    BY <2>6 DEF RestartTimeout
  <2> QED
    BY <1>2, <2>1, <2>2, <2>3, <2>4, <2>5, <2>6 DEF WorkerAlone
<1>3. CASE RestartRunning
  BY <1>3 DEF RestartRunning
<1>4. CASE BeginDrain
  BY <1>4 DEF BeginDrain
<1>5. CASE Exit
  BY <1>5, Zenon DEF Exit
<1> QED
  BY <1>1, <1>2, <1>3, <1>4, <1>5, Sides
     DEF Next, BeginManage, EndManage, TakeShutdown, AskRestart, WorkerStep, ExitDrained, Crash,
         ProcessEnds, vars

\* A worker that refuses commands has a shutdown pending, however restarts, polls, kills
\* and exits interleave.
THEOREM StoppingEnds == Spec => []StoppingIsPending
<1>1. Init => StoppingIsPending
  BY Zenon DEF Init, WorkerInit, StoppingIsPending
<1>2. TypeInv /\ StoppingIsPending /\ [Next]_vars => TypeInv' /\ StoppingIsPending'
  BY TypeStep, StoppingStep
<1> QED
  BY <1>1, <1>2, InitType, PTL DEF Spec

-----------------------------------------------------------------------------
(* What is under way about a prompt.                                       *)

\* The prompt runs, or is about to.
Bound(p) == run[p] # "none" \/ InTransit("prompt", p, toAgent)

\* The main process is about to learn that the prompt does not run.
Over(p) == InTransit("rejected", p, toMain) \/ InTransit("drained", p, toMain)

\* No message of this kind is in the channel twice.
Once(kind, channel) ==
    \A p \in Prompts, i, j \in 1..Len(channel) :
        channel[i] = Message(kind, p) /\ channel[j] = Message(kind, p) => i = j

\* A prompt is in one place: with its call, in the channel, running, or over.
OnePlace ==
    /\ \A p \in Prompts : call[p] \in {"idle", "preparing"} => ~Bound(p) /\ ~Over(p)
    /\ \A p \in Prompts : InTransit("prompt", p, toAgent) => run[p] = "none"
    /\ \A p \in Prompts : Over(p) => ~Bound(p)
    /\ Once("prompt", toAgent)

LEMMA SameMessage ==
  ASSUME NEW k, NEW l, NEW p, NEW q
  PROVE  Message(k, p) = Message(l, q) <=> k = l /\ p = q
BY DEF Message

\* Posting a message of another kind, or one that is not there, adds no second copy.
LEMMA OnceAppended ==
  ASSUME NEW T, NEW channel \in Seq(T), NEW kind, Once(kind, channel), NEW m \in T,
         \A p \in Prompts : m = Message(kind, p) => ~InTransit(kind, p, channel)
  PROVE  Once(kind, Append(channel, m))
<1>1. /\ Len(Append(channel, m)) = Len(channel) + 1
      /\ \A i \in 1..Len(channel) : Append(channel, m)[i] = channel[i]
      /\ Append(channel, m)[Len(channel) + 1] = m
      /\ Len(channel) \in Nat
  OBVIOUS
<1> SUFFICES ASSUME NEW p \in Prompts,
                    NEW i \in 1..Len(channel) + 1, NEW j \in 1..Len(channel) + 1,
                    Append(channel, m)[i] = Message(kind, p),
                    Append(channel, m)[j] = Message(kind, p)
             PROVE  i = j
  BY <1>1 DEF Once
<1>2. CASE i \in 1..Len(channel) /\ j \in 1..Len(channel)
  BY <1>1, <1>2 DEF Once
<1>3. CASE i = Len(channel) + 1 \/ j = Len(channel) + 1
  <2>1. ~InTransit(kind, p, channel)
    BY <1>1, <1>3
  <2>2. i \notin 1..Len(channel) /\ j \notin 1..Len(channel)
    BY <1>1, <2>1 DEF InTransit
  <2> QED
    BY <1>1, <2>2
<1> QED
  BY <1>1, <1>2, <1>3

\* Taking a message leaves no other copy of it, and adds none.
LEMMA OnceTaken ==
  ASSUME NEW T, NEW channel \in Seq(T), NEW kind, Once(kind, channel), channel # <<>>
  PROVE  /\ Once(kind, Tail(channel))
         /\ \A p \in Prompts : Head(channel) = Message(kind, p)
                                 => ~InTransit(kind, p, Tail(channel))
<1>1. /\ Len(Tail(channel)) = Len(channel) - 1
      /\ \A i \in 1..Len(channel) - 1 : Tail(channel)[i] = channel[i + 1]
      /\ Len(channel) \in Nat
      /\ Len(channel) >= 1
      /\ Head(channel) = channel[1]
  OBVIOUS
<1>2. Once(kind, Tail(channel))
  <2> SUFFICES ASSUME NEW p \in Prompts,
                      NEW i \in 1..Len(channel) - 1, NEW j \in 1..Len(channel) - 1,
                      channel[i + 1] = Message(kind, p),
                      channel[j + 1] = Message(kind, p)
               PROVE  i = j
    BY <1>1 DEF Once
  <2>1. i + 1 \in 1..Len(channel) /\ j + 1 \in 1..Len(channel)
    BY <1>1
  <2>2. i + 1 = j + 1
    BY <2>1 DEF Once
  <2> QED
    BY <2>2
<1>3. ASSUME NEW p \in Prompts, Head(channel) = Message(kind, p)
      PROVE  ~InTransit(kind, p, Tail(channel))
  <2> SUFFICES ASSUME NEW i \in 1..Len(channel) - 1, channel[i + 1] = Message(kind, p)
               PROVE  FALSE
    BY <1>1 DEF InTransit
  <2>1. i + 1 \in 1..Len(channel) /\ 1 \in 1..Len(channel) /\ i + 1 # 1
    BY <1>1
  <2> QED
    BY <1>1, <1>3, <2>1 DEF Once
<1> QED
  BY <1>2, <1>3

\* What the steps do to the channels, for the proofs that follow.
LEMMA Channels ==
  ASSUME TypeInv
  PROVE  /\ \A p \in Prompts, kind \in Kinds :
              toMain' = Append(toMain, Message(kind, p)) =>
                \A q \in Prompts, k \in Kinds :
                  InTransit(k, q, toMain') <=> InTransit(k, q, toMain) \/ (k = kind /\ q = p)
         /\ \A p \in Prompts :
              toAgent' = Append(toAgent, Message("prompt", p)) =>
                \A q \in Prompts :
                  InTransit("prompt", q, toAgent') <=> InTransit("prompt", q, toAgent) \/ q = p
         /\ toAgent' = Append(toAgent, Message("shutdown", Nil)) =>
              \A q \in Prompts :
                InTransit("prompt", q, toAgent') <=> InTransit("prompt", q, toAgent)
         /\ toMain # <<>> /\ toMain' = Tail(toMain) =>
              \A q \in Prompts, k \in Kinds : InTransit(k, q, toMain') => InTransit(k, q, toMain)
         /\ toAgent # <<>> /\ toAgent' = Tail(toAgent) =>
              \A q \in Prompts : InTransit("prompt", q, toAgent') => InTransit("prompt", q, toAgent)
<1>1. toAgent \in Seq(ToAgentMessages) /\ toMain \in Seq(ToMainMessages)
  BY DEF TypeInv, TypeOK, ToAgentMessages, ToMainMessages
<1>2. /\ \A p \in Prompts, kind \in Kinds : Message(kind, p) \in ToMainMessages
      /\ \A p \in Prompts : Message("prompt", p) \in ToAgentMessages
      /\ Message("shutdown", Nil) \in ToAgentMessages
  BY DEF ToAgentMessages, ToMainMessages, Message
<1>3. ASSUME NEW p \in Prompts, NEW kind \in Kinds, toMain' = Append(toMain, Message(kind, p)),
             NEW q \in Prompts, NEW k \in Kinds
      PROVE  InTransit(k, q, toMain') <=> InTransit(k, q, toMain) \/ (k = kind /\ q = p)
  BY <1>1, <1>2, <1>3, Appended, SameMessage
<1>4. ASSUME NEW p \in Prompts, toAgent' = Append(toAgent, Message("prompt", p)), NEW q \in Prompts
      PROVE  InTransit("prompt", q, toAgent') <=> InTransit("prompt", q, toAgent) \/ q = p
  BY <1>1, <1>2, <1>4, Appended, SameMessage
<1>5. ASSUME toAgent' = Append(toAgent, Message("shutdown", Nil)), NEW q \in Prompts
      PROVE  InTransit("prompt", q, toAgent') <=> InTransit("prompt", q, toAgent)
  BY <1>1, <1>2, <1>5, Appended, SameMessage
<1>6. ASSUME toMain # <<>>, toMain' = Tail(toMain), NEW q \in Prompts, NEW k \in Kinds,
             InTransit(k, q, toMain')
      PROVE  InTransit(k, q, toMain)
  BY <1>1, <1>6, Taken
<1>7. ASSUME toAgent # <<>>, toAgent' = Tail(toAgent), NEW q \in Prompts,
             InTransit("prompt", q, toAgent')
      PROVE  InTransit("prompt", q, toAgent)
  BY <1>1, <1>7, Taken
<1> QED
  BY <1>3, <1>4, <1>5, <1>6, <1>7

\* A step that adds no prompt, no run and no end of one keeps each prompt in one place.
LEMMA NothingAdded ==
  ASSUME OnePlace, Once("prompt", toAgent'),
         \A q \in Prompts :
           /\ call'[q] \in {"idle", "preparing"} => call[q] \in {"idle", "preparing"}
           /\ InTransit("prompt", q, toAgent') => InTransit("prompt", q, toAgent)
           /\ run'[q] # "none" => run[q] # "none"
           /\ Over(q)' => Over(q)
  PROVE  OnePlace'
BY DEF OnePlace, Bound

LEMMA OnePlaceMain ==
  ASSUME TypeInv, OnePlace, NEW p \in Prompts, MainStep(p)
  PROVE  OnePlace'
<1> USE DEF TypeInv, TypeOK
<1>k. {"accepted", "rejected", "event", "terminal", "drained"} = Kinds
  BY DEF Kinds
<1>c. toAgent \in Seq(ToAgentMessages) /\ Message("prompt", p) \in ToAgentMessages
  BY DEF ToAgentMessages, Message
<1>1. CASE SendPrompt(p)
  <2>1. toAgent' = Append(toAgent, Message("prompt", p)) /\ UNCHANGED <<toMain, run>>
    BY <1>1 DEF SendPrompt, agentVars
  <2>2. \A q \in Prompts :
          InTransit("prompt", q, toAgent') <=> InTransit("prompt", q, toAgent) \/ q = p
    BY <2>1, Channels
  <2>3. ~Bound(p) /\ ~Over(p)
    BY <1>1 DEF SendPrompt, OnePlace
  <2>4. Once("prompt", toAgent')
    BY <2>1, <2>3, <1>c, OnceAppended, SameMessage DEF OnePlace, Bound
  <2>5. call' = [call EXCEPT ![p] = "waiting"]
    BY <1>1 DEF SendPrompt
  <2>6. \A q \in Prompts : Over(q)' <=> Over(q)
    BY <2>1 DEF Over
  <2> QED
    BY <2>1, <2>2, <2>3, <2>4, <2>5, <2>6 DEF OnePlace, Bound
<1>2. CASE \E kind \in Kinds : Receive(kind, p)
  <2>1. /\ toMain # <<>> /\ toMain' = Tail(toMain)
        /\ UNCHANGED <<toAgent, run>>
    BY <1>2 DEF Receive, agentVars
  <2>2. \A q \in Prompts : Over(q)' => Over(q)
    BY <2>1, <1>k, Channels DEF Over
  <2>3. \A q \in Prompts : call'[q] \in {"idle", "preparing"} => call[q] \in {"idle", "preparing"}
    <3> USE DEF MainStep, BeginPrompt, RefusePrompt, PromptFails, SendPrompt, PromptTimeout
    <3>1. toMain' # toMain
      BY <2>1
    <3> QED
      BY <3>1 DEF ReceiveAccepted, ReceiveRejected, ReceiveEvent, ReceiveTerminal, ReceiveDrained
  <2> QED
    BY <2>1, <2>2, <2>3, NothingAdded DEF OnePlace
<1>3. CASE BeginPrompt(p) \/ RefusePrompt(p) \/ PromptFails(p) \/ PromptTimeout(p)
  <2>1. UNCHANGED <<toAgent, toMain, run>>
    BY <1>3 DEF BeginPrompt, RefusePrompt, PromptFails, PromptTimeout, agentVars
  <2>2. \A q \in Prompts : call'[q] \in {"idle", "preparing"} => call[q] \in {"idle", "preparing"}
    BY <1>3 DEF BeginPrompt, RefusePrompt, PromptFails, PromptTimeout
  <2> QED
    BY <2>1, <2>2, NothingAdded DEF OnePlace, Over
<1> QED
  BY <1>1, <1>2, <1>3, <1>k
     DEF MainStep, ReceiveAccepted, ReceiveRejected, ReceiveEvent, ReceiveTerminal, ReceiveDrained

LEMMA OnePlaceAgent ==
  ASSUME TypeInv, OnePlace, NEW p \in Prompts, AgentStep(p)
  PROVE  OnePlace'
<1> USE DEF TypeInv, TypeOK
<1>k. {"accepted", "rejected", "event", "terminal", "drained"} = Kinds
  BY DEF Kinds
<1>c. toAgent \in Seq(ToAgentMessages)
  BY DEF ToAgentMessages
<1>u. UNCHANGED call
  BY Sides DEF mainVars
<1>t. ASSUME TakePrompt(p)
      PROVE  /\ \A q \in Prompts : InTransit("prompt", q, toAgent') => InTransit("prompt", q, toAgent)
             /\ InTransit("prompt", p, toAgent)
             /\ ~InTransit("prompt", p, toAgent')
             /\ Once("prompt", toAgent')
  <2>1. toAgent # <<>> /\ Head(toAgent) = Message("prompt", p) /\ toAgent' = Tail(toAgent)
    BY <1>t DEF TakePrompt
  <2> QED
    BY <2>1, <1>c, Channels, HeadInTransit, OnceTaken DEF OnePlace
<1>m. ASSUME NEW kind \in Kinds, toMain' = Append(toMain, Message(kind, p))
      PROVE  \A q \in Prompts :
               Over(q)' <=> Over(q) \/ (kind \in {"rejected", "drained"} /\ q = p)
  BY <1>m, <1>k, Channels DEF Over
<1>1. CASE RejectRun(p)
  <2>1. \A q \in Prompts : Over(q)' <=> Over(q) \/ q = p
    BY <1>1, <1>m, <1>k DEF RejectRun
  <2>2. UNCHANGED run
    BY <1>1 DEF RejectRun, agentVars
  <2>3. TakePrompt(p)
    BY <1>1 DEF RejectRun
  <2> QED
    BY <2>1, <2>2, <2>3, <1>t, <1>u DEF OnePlace, Bound
<1>2. CASE AdmitRun(p)
  <2>1. \A q \in Prompts : Over(q)' <=> Over(q)
    BY <1>2, <1>m, <1>k DEF AdmitRun
  <2>2. run' = [run EXCEPT ![p] = "running"]
    BY <1>2 DEF AdmitRun
  <2>3. TakePrompt(p)
    BY <1>2 DEF AdmitRun
  <2> QED
    BY <2>1, <2>2, <2>3, <1>t, <1>u DEF OnePlace, Bound
<1>3. CASE RunEvent(p) \/ RunTerminal(p)
  <2>1. \A q \in Prompts : Over(q)' <=> Over(q)
    BY <1>3, <1>m, <1>k DEF RunEvent, RunTerminal, Post
  <2>2. toAgent' = toAgent /\ \A q \in Prompts : run'[q] # "none" => run[q] # "none"
    BY <1>3 DEF RunEvent, RunTerminal, Post
  <2> QED
    BY <2>1, <2>2, <1>u, NothingAdded DEF OnePlace
<1>4. CASE RunDrained(p)
  <2>1. \A q \in Prompts : Over(q)' <=> Over(q) \/ q = p
    BY <1>4, <1>m, <1>k DEF RunDrained, Post
  <2>2. toAgent' = toAgent /\ run' = [run EXCEPT ![p] = "none"] /\ run[p] # "none"
    BY <1>4 DEF RunDrained, Post
  <2> QED
    BY <2>1, <2>2, <1>u DEF OnePlace, Bound
<1> QED
  BY <1>1, <1>2, <1>3, <1>4 DEF AgentStep

LEMMA OnePlaceStep ==
  ASSUME TypeInv, OnePlace, [Next]_vars
  PROVE  OnePlace'
<1> USE DEF TypeInv, TypeOK
<1>k. {"accepted", "rejected", "event", "terminal", "drained"} = Kinds
  BY DEF Kinds
<1>c. /\ toAgent \in Seq(ToAgentMessages)
      /\ Message("shutdown", Nil) \in ToAgentMessages
      /\ \A p \in Prompts : Message("shutdown", Nil) # Message("prompt", p)
  BY SameMessage DEF ToAgentMessages
<1>1. ASSUME UNCHANGED <<call, toAgent, toMain, run>>
      PROVE  OnePlace'
  BY <1>1, NothingAdded DEF OnePlace, Over
<1>2. CASE TakeShutdown
  <2>1. toAgent # <<>> /\ toAgent' = Tail(toAgent) /\ UNCHANGED <<call, toMain, run>>
    BY <1>2 DEF TakeShutdown, mainVars, agentVars
  <2>2. \A q \in Prompts : InTransit("prompt", q, toAgent') => InTransit("prompt", q, toAgent)
    BY <2>1, Channels
  <2>3. Once("prompt", toAgent')
    BY <2>1, <1>c, OnceTaken DEF OnePlace
  <2> QED
    BY <2>1, <2>2, <2>3, NothingAdded DEF Over
<1>3. CASE AskRestart
  <2>1. toAgent' = Append(toAgent, Message("shutdown", Nil)) /\ UNCHANGED <<call, toMain, run>>
    BY <1>3 DEF AskRestart, mainVars, agentVars
  <2>2. \A q \in Prompts : InTransit("prompt", q, toAgent') => InTransit("prompt", q, toAgent)
    BY <2>1, Channels
  <2>3. Once("prompt", toAgent')
    BY <2>1, <1>c, OnceAppended DEF OnePlace
  <2> QED
    BY <2>1, <2>2, <2>3, NothingAdded DEF Over
<1>4. CASE ProcessEnds
  <2>1. /\ toAgent' = <<>> /\ toMain' = <<>>
        /\ \A q \in Prompts : run'[q] = "none"
    BY <1>4 DEF ProcessEnds
  <2>2. \A q \in Prompts : call'[q] \in {"idle", "preparing"} => call[q] \in {"idle", "preparing"}
    BY <1>4 DEF ProcessEnds
  <2>3. \A q \in Prompts, kind \in Kinds : ~InTransit(kind, q, <<>>) /\ ~InTransit("prompt", q, <<>>)
    BY DEF InTransit
  <2>4. Once("prompt", <<>>)
    BY DEF Once
  <2> QED
    BY <2>1, <2>2, <2>3, <2>4, <1>k, NothingAdded DEF Over
<1> QED
  BY <1>1, <1>2, <1>3, <1>4, OnePlaceMain, OnePlaceAgent
     DEF Next, BeginManage, EndManage, WorkerStep, ExitDrained, Crash, vars, mainVars, agentVars

LEMMA InitOnePlace == ASSUME Init PROVE OnePlace
<1>1. /\ \A p \in Prompts : run[p] = "none" /\ call[p] = "idle"
      /\ toAgent = <<>> /\ toMain = <<>>
  BY DEF Init
<1>2. \A p \in Prompts : ~Bound(p) /\ ~Over(p)
  BY <1>1 DEF Bound, Over, InTransit
<1>3. Once("prompt", toAgent)
  BY <1>1 DEF Once
<1> QED
  BY <1>1, <1>2, <1>3 DEF OnePlace, Bound

-----------------------------------------------------------------------------
(* Ownership, as long as the agent process does not exit while a prompt is *)
(* prepared.                                                               *)

\* A prompt that is prepared, under way or running owns its session, and a session whose
\* history is managed has no owner.
LeaseInv ==
    /\ \A p \in Prompts : call[p] = "preparing" \/ Bound(p) => lease[SessionOf[p]] = p
    /\ \A m \in Managements : managing[m] = "working" => lease[SessionOf[m]] = Nil

\* A step that gives back at most the sessions of a prompt that needs none, and adds none
\* that needs one, preserves the invariant.
LEMMA GivenBack ==
  ASSUME TypeInv, LeaseInv, NEW p \in Prompts,
         lease' = Released(p) \/ lease' = lease,
         lease' = lease \/ ~(call'[p] = "preparing" \/ Bound(p)'),
         \A q \in Prompts : call'[q] = "preparing" \/ Bound(q)' => call[q] = "preparing" \/ Bound(q),
         managing' = managing
  PROVE  LeaseInv'
BY OwnershipAssumption DEF TypeInv, TypeOK, LeaseInv, Released

LEMMA LeaseMain ==
  ASSUME TypeInv, OnePlace, LeaseInv, NEW p \in Prompts, MainStep(p)
  PROVE  LeaseInv'
<1> USE OwnershipAssumption DEF TypeInv, TypeOK
<1>k. {"accepted", "rejected", "event", "terminal", "drained"} = Kinds
  BY DEF Kinds
<1>u. UNCHANGED run
  BY Sides DEF agentVars
<1>1. CASE BeginPrompt(p)
  <2>1. /\ UNCHANGED <<toAgent, run, managing>>
        /\ call' = [call EXCEPT ![p] = "preparing"]
        /\ lease' = [lease EXCEPT ![SessionOf[p]] = p]
        /\ lease[SessionOf[p]] = Nil
        /\ ~Managed(SessionOf[p])
    BY <1>1, <1>u DEF BeginPrompt, Free
  <2>2. \A q \in Prompts : Bound(q)' <=> Bound(q)
    BY <2>1 DEF Bound
  <2> QED
    BY <2>1, <2>2 DEF LeaseInv, Managed
<1>2. CASE RefusePrompt(p) \/ PromptTimeout(p)
  <2>1. /\ UNCHANGED <<toAgent, run, managing, lease>>
        /\ call' = [call EXCEPT ![p] = "returned"]
    BY <1>2, <1>u DEF RefusePrompt, PromptTimeout
  <2> QED
    BY <2>1, GivenBack DEF Bound
<1>3. CASE PromptFails(p)
  <2>1. /\ UNCHANGED <<toAgent, run, managing>>
        /\ call' = [call EXCEPT ![p] = "returned"]
        /\ lease' = Released(p)
    BY <1>3, <1>u DEF PromptFails
  <2>2. ~Bound(p)
    BY <1>3 DEF PromptFails, OnePlace
  <2> QED
    BY <2>1, <2>2, GivenBack DEF Bound
<1>4. CASE SendPrompt(p)
  <2>1. /\ UNCHANGED <<run, managing, lease>>
        /\ toAgent' = Append(toAgent, Message("prompt", p))
        /\ call' = [call EXCEPT ![p] = "waiting"]
        /\ call[p] = "preparing"
    BY <1>4, <1>u DEF SendPrompt
  <2>2. \A q \in Prompts :
          InTransit("prompt", q, toAgent') <=> InTransit("prompt", q, toAgent) \/ q = p
    BY <2>1, Channels
  <2> QED
    BY <2>1, <2>2, GivenBack DEF Bound
<1>5. ASSUME NEW kind \in Kinds, Receive(kind, p)
      PROVE  /\ UNCHANGED <<toAgent, run, managing>>
             /\ kind \in {"rejected", "drained"} => ~Bound(p)
  <2>1. toMain # <<>> /\ Head(toMain) = Message(kind, p)
    BY <1>5 DEF Receive
  <2>2. InTransit(kind, p, toMain)
    BY <2>1, HeadInTransit DEF ToMainMessages
  <2> QED
    BY <1>5, <2>2 DEF OnePlace, Over, Receive, agentVars
<1>6. CASE ReceiveAccepted(p) \/ ReceiveEvent(p) \/ ReceiveTerminal(p)
  <2>1. UNCHANGED <<toAgent, run, managing, lease>>
    BY <1>6, <1>5, <1>k DEF ReceiveAccepted, ReceiveEvent, ReceiveTerminal
  <2>2. \A q \in Prompts : call'[q] = "preparing" => call[q] = "preparing"
    BY <1>6 DEF ReceiveAccepted, ReceiveEvent, ReceiveTerminal
  <2> QED
    BY <2>1, <2>2, GivenBack DEF Bound
<1>7. CASE ReceiveRejected(p)
  <2>1. UNCHANGED <<toAgent, run, managing>> /\ ~Bound(p)
    BY <1>7, <1>5, <1>k DEF ReceiveRejected
  <2>2. \/ UNCHANGED <<call, lease>>
        \/ call' = [call EXCEPT ![p] = "returned"] /\ lease' = Released(p)
    BY <1>7 DEF ReceiveRejected
  <2> QED
    BY <2>1, <2>2, GivenBack DEF Bound
<1>8. CASE ReceiveDrained(p)
  <2>1. UNCHANGED <<toAgent, run, managing, call>> /\ ~Bound(p) /\ lease' = Released(p)
    BY <1>8, <1>5, <1>k DEF ReceiveDrained
  <2>2. call[p] # "preparing"
    <3>1. toMain # <<>> /\ Head(toMain) = Message("drained", p)
      BY <1>8 DEF ReceiveDrained, Receive
    <3>2. InTransit("drained", p, toMain)
      BY <3>1, HeadInTransit DEF ToMainMessages
    <3> QED
      BY <3>2 DEF OnePlace, Over
  <2> QED
    BY <2>1, <2>2, GivenBack DEF Bound
<1> QED
  BY <1>1, <1>2, <1>3, <1>4, <1>6, <1>7, <1>8 DEF MainStep

LEMMA LeaseAgent ==
  ASSUME TypeInv, LeaseInv, NEW p \in Prompts, AgentStep(p)
  PROVE  LeaseInv'
<1> USE DEF TypeInv, TypeOK
<1>u. UNCHANGED <<call, lease, managing>>
  BY Sides DEF mainVars
<1>t. ASSUME TakePrompt(p)
      PROVE  /\ \A q \in Prompts : InTransit("prompt", q, toAgent') => InTransit("prompt", q, toAgent)
             /\ InTransit("prompt", p, toAgent)
  <2>1. toAgent # <<>> /\ Head(toAgent) = Message("prompt", p) /\ toAgent' = Tail(toAgent)
    BY <1>t DEF TakePrompt
  <2> QED
    BY <2>1, Channels, HeadInTransit DEF ToAgentMessages
<1>1. \A q \in Prompts : Bound(q)' => Bound(q)
  <2>1. CASE RejectRun(p)
    BY <2>1, <1>t DEF RejectRun, agentVars, Bound
  <2>2. CASE AdmitRun(p)
    BY <2>2, <1>t DEF AdmitRun, Bound
  <2>3. CASE RunEvent(p) \/ RunTerminal(p) \/ RunDrained(p)
    BY <2>3 DEF RunEvent, RunTerminal, RunDrained, Post, Bound
  <2> QED
    BY <2>1, <2>2, <2>3 DEF AgentStep
<1> QED
  BY <1>1, <1>u, GivenBack

LEMMA LeaseStep ==
  ASSUME "midPrepare" \notin Faults, TypeInv, OnePlace, LeaseInv, [Next]_vars
  PROVE  LeaseInv'
<1> USE OwnershipAssumption DEF TypeInv, TypeOK
<1>1. ASSUME UNCHANGED <<call, run, lease, managing>>,
             \A q \in Prompts : InTransit("prompt", q, toAgent') => InTransit("prompt", q, toAgent)
      PROVE  LeaseInv'
  BY <1>1 DEF LeaseInv, Bound
<1>2. ASSUME NEW m \in Managements, BeginManage(m)
      PROVE  LeaseInv'
  <2>1. /\ UNCHANGED <<call, run, lease, toAgent>>
        /\ managing' = [managing EXCEPT ![m] = IF Free(SessionOf[m]) THEN "working" ELSE "returned"]
    BY <1>2 DEF BeginManage, agentVars
  <2>2. Free(SessionOf[m]) => lease[SessionOf[m]] = Nil
    BY DEF Free
  <2> QED
    BY <2>1, <2>2 DEF LeaseInv, Bound
<1>3. ASSUME NEW m \in Managements, EndManage(m)
      PROVE  LeaseInv'
  <2>1. /\ UNCHANGED <<call, run, lease, toAgent>>
        /\ managing' = [managing EXCEPT ![m] = "returned"]
    BY <1>3 DEF EndManage, agentVars
  <2> QED
    BY <2>1 DEF LeaseInv, Bound
<1>4. CASE TakeShutdown
  BY <1>4, <1>1, Channels DEF TakeShutdown, mainVars, agentVars
<1>5. CASE AskRestart
  BY <1>5, <1>1, Channels DEF AskRestart, mainVars, agentVars
<1>6. CASE WorkerStep
  BY <1>6, <1>1 DEF WorkerStep, mainVars, agentVars
<1>7. CASE ProcessEnds
  <2>1. \A q \in Prompts : ~Bound(q)'
    BY <1>7 DEF ProcessEnds, Bound, InTransit
  <2>2. managing' = managing /\ \A q \in Prompts : call'[q] = "preparing" => call[q] = "preparing"
    BY <1>7 DEF ProcessEnds
  <2>3. CASE Unexpected
    <3>1. \A q \in Prompts : call[q] # "preparing"
      BY <1>7, <2>3 DEF ProcessEnds
    <3>2. lease' = [s \in Sessions |-> Nil]
      BY <1>7, <2>3 DEF ProcessEnds, ReleaseAll
    <3> QED
      BY <2>1, <2>2, <3>1, <3>2 DEF LeaseInv
  <2>4. CASE ~Unexpected
    <3>1. lease' = lease
      BY <1>7, <2>4 DEF ProcessEnds, ReleaseAll
    <3> QED
      BY <2>1, <2>2, <3>1 DEF LeaseInv
  <2> QED
    BY <2>3, <2>4
<1>8. CASE UNCHANGED vars
  BY <1>8, <1>1 DEF vars, mainVars, agentVars
<1> QED
  BY <1>2, <1>3, <1>4, <1>5, <1>6, <1>7, <1>8, LeaseMain, LeaseAgent DEF Next, ExitDrained, Crash

LEMMA Leases ==
  ASSUME "midPrepare" \notin Faults
  PROVE  Spec => [](TypeInv /\ LeaseInv)
<1>1. Init => LeaseInv
  <2> SUFFICES ASSUME Init PROVE LeaseInv
    OBVIOUS
  <2>1. OnePlace
    BY InitOnePlace
  <2>2. /\ \A p \in Prompts : call[p] = "idle"
        /\ \A m \in Managements : managing[m] = "idle"
    BY DEF Init
  <2> QED
    BY <2>1, <2>2 DEF OnePlace, LeaseInv
<1>2. TypeInv /\ OnePlace /\ LeaseInv /\ [Next]_vars => (TypeInv /\ OnePlace /\ LeaseInv)'
  BY TypeStep, OnePlaceStep, LeaseStep
<1> QED
  BY <1>1, <1>2, InitType, InitOnePlace, PTL DEF Spec

\* A run owns its session from before its prompt is sent until it has drained, unless the
\* agent process exits while a prompt is prepared: crashes at any other time, restarts,
\* refusals and time-outs included.
THEOREM Owns ==
  ASSUME "midPrepare" \notin Faults
  PROVE  Spec => []OwnedWhileRunning
<1>1. LeaseInv => OwnedWhileRunning
  BY DEF LeaseInv, Bound, OwnedWhileRunning
<1> QED
  BY <1>1, Leases, PTL

\* Under the same condition no history is purged or deleted while a run of its session is
\* executing or about to.
THEOREM ManagesAlone ==
  ASSUME "midPrepare" \notin Faults
  PROVE  Spec => []ManagedAlone
<1>1. TypeInv /\ LeaseInv => ManagedAlone
  BY OwnershipAssumption DEF LeaseInv, Bound, ManagedAlone, Managed
<1> QED
  BY <1>1, Leases, PTL

-----------------------------------------------------------------------------
(* What main keeps of a run comes to an end, as long as nobody asks the    *)
(* agent process to restart.                                               *)

\* Only a restart makes the worker refuse commands.
StoppingWasAsked == isStopping => restarts > 0

\* What the agent reports of a run, it reports before it says that the run has drained.
NewsOfRuns ==
    \A p \in Prompts, kind \in {"accepted", "event", "terminal"}, i \in 1..Len(toMain) :
        toMain[i] = Message(kind, p) =>
            run[p] # "none" \/ \E j \in i + 1..Len(toMain) : toMain[j] = Message("drained", p)

\* What sets isStopping counts a restart, and restarts are never forgotten.
LEMMA StoppingAskedStep ==
  ASSUME TypeInv, StoppingWasAsked, [Next]_vars
  PROVE  StoppingWasAsked' /\ (restarts' = 0 => restarts = 0)
<1> USE MaxRestartsAssumption DEF StoppingWasAsked, TypeInv, TypeOK, WorkerTypeOK
<1>1. ASSUME UNCHANGED workerVars
      PROVE  StoppingWasAsked' /\ (restarts' = 0 => restarts = 0)
  BY <1>1 DEF workerVars
<1>2. CASE RestartRunning \/ RestartStopped \/ RestartPolling
  <2>1. restarts' = restarts + 1
    BY <1>2, Zenon DEF RestartRunning, RestartStopped, RestartPolling
  <2> QED
    BY <2>1
<1>3. CASE PollEnds
  <2>1. isStopping' = FALSE /\ restarts' = restarts
    BY <1>3, Zenon DEF PollEnds
  <2> QED
    BY <2>1
<1>4. CASE KillTimeout \/ RestartTimeout \/ BeginDrain
  <2>1. isStopping' = isStopping /\ restarts' = restarts
    BY <1>4, Zenon DEF KillTimeout, RestartTimeout, BeginDrain
  <2> QED
    BY <2>1
<1>5. CASE GraceTimeout \/ Exit
  <2>1. (isStopping' => isStopping) /\ restarts' = restarts
    BY <1>5, Zenon DEF GraceTimeout, Exit
  <2> QED
    BY <2>1
<1> QED
  BY <1>1, <1>2, <1>3, <1>4, <1>5, Sides
     DEF Next, BeginManage, EndManage, TakeShutdown, AskRestart, WorkerStep, WorkerAlone,
         ExitDrained, Crash, ProcessEnds, vars

\* A message that is taken leaves the news behind it as it was.
LEMMA NewsTaken ==
  ASSUME TypeInv, NewsOfRuns, toMain # <<>>, toMain' = Tail(toMain), UNCHANGED run
  PROVE  NewsOfRuns'
<1>1. /\ Len(toMain') = Len(toMain) - 1
      /\ \A i \in 1..Len(toMain) - 1 : toMain'[i] = toMain[i + 1]
      /\ Len(toMain) \in Nat
  BY DEF TypeInv, TypeOK
<1> SUFFICES ASSUME NEW p \in Prompts, NEW kind \in {"accepted", "event", "terminal"},
                    NEW i \in 1..Len(toMain) - 1, toMain[i + 1] = Message(kind, p), run[p] = "none"
             PROVE  \E j \in i + 1..Len(toMain) - 1 : toMain'[j] = Message("drained", p)
  BY <1>1 DEF NewsOfRuns
<1>2. i + 1 \in 1..Len(toMain)
  BY <1>1
<1>3. PICK j \in (i + 1) + 1..Len(toMain) : toMain[j] = Message("drained", p)
  BY <1>2 DEF NewsOfRuns
<1>4. j - 1 \in i + 1..Len(toMain) - 1 /\ j - 1 \in 1..Len(toMain) - 1 /\ (j - 1) + 1 = j
  BY <1>1, <1>3
<1> QED
  BY <1>1, <1>3, <1>4

\* News is posted of a run that goes on, and the end of a run after all its news.
LEMMA NewsPosted ==
  ASSUME TypeInv, NewsOfRuns, NEW kind \in Kinds, NEW p \in Prompts,
         toMain' = Append(toMain, Message(kind, p)),
         kind \in {"accepted", "event", "terminal"} => run'[p] # "none",
         \A q \in Prompts : run[q] # "none" => run'[q] # "none" \/ (kind = "drained" /\ q = p)
  PROVE  NewsOfRuns'
<1>1. /\ Len(toMain') = Len(toMain) + 1
      /\ \A i \in 1..Len(toMain) : toMain'[i] = toMain[i]
      /\ toMain'[Len(toMain) + 1] = Message(kind, p)
      /\ Len(toMain) \in Nat
  <2>1. toMain \in Seq(ToMainMessages) /\ Message(kind, p) \in ToMainMessages
    BY DEF TypeInv, TypeOK, ToMainMessages, Message
  <2> QED
    BY <2>1
<1> SUFFICES ASSUME NEW q \in Prompts, NEW k \in {"accepted", "event", "terminal"},
                    NEW i \in 1..Len(toMain) + 1, toMain'[i] = Message(k, q), run'[q] = "none"
             PROVE  \E j \in i + 1..Len(toMain) + 1 : toMain'[j] = Message("drained", q)
  BY <1>1 DEF NewsOfRuns
<1>2. i \in 1..Len(toMain)
  BY <1>1, SameMessage
<1>3. toMain[i] = Message(k, q)
  BY <1>1, <1>2
<1>4. CASE run[q] # "none"
  <2>1. kind = "drained" /\ q = p /\ Len(toMain) + 1 \in i + 1..Len(toMain) + 1
    BY <1>1, <1>2, <1>4
  <2> QED
    BY <1>1, <2>1
<1>5. CASE run[q] = "none"
  <2>1. PICK j \in i + 1..Len(toMain) : toMain[j] = Message("drained", q)
    BY <1>2, <1>3, <1>5 DEF NewsOfRuns
  <2>2. j \in i + 1..Len(toMain) + 1 /\ j \in 1..Len(toMain)
    BY <1>1, <1>2, <2>1
  <2> QED
    BY <1>1, <2>1, <2>2
<1> QED
  BY <1>4, <1>5

\* Every step keeps NewsOfRuns: what is announced of a run is still of one that runs or has
\* its drainage on the way.
LEMMA NewsStep ==
  ASSUME TypeInv, NewsOfRuns, [Next]_vars
  PROVE  NewsOfRuns'
<1>k. {"accepted", "rejected", "event", "terminal", "drained"} = Kinds
  BY DEF Kinds
<1>1. ASSUME UNCHANGED <<run, toMain>>
      PROVE  NewsOfRuns'
  BY <1>1 DEF NewsOfRuns
<1>2. ASSUME NEW p \in Prompts, MainStep(p)
      PROVE  NewsOfRuns'
  <2>1. UNCHANGED run
    BY <1>2, Sides DEF agentVars
  <2>2. UNCHANGED toMain \/ (toMain # <<>> /\ toMain' = Tail(toMain))
    BY <1>2 DEF MainStep, BeginPrompt, RefusePrompt, PromptFails, SendPrompt, PromptTimeout,
                ReceiveAccepted, ReceiveRejected, ReceiveEvent, ReceiveTerminal, ReceiveDrained, Receive
  <2> QED
    BY <2>1, <2>2, <1>1, NewsTaken
<1>3. ASSUME NEW p \in Prompts, AgentStep(p)
      PROVE  NewsOfRuns'
  <2> USE DEF TypeInv, TypeOK
  <2>1. CASE RejectRun(p)
    BY <2>1, <1>k, NewsPosted DEF RejectRun, agentVars
  <2>2. CASE AdmitRun(p)
    BY <2>2, <1>k, NewsPosted DEF AdmitRun
  <2>3. CASE RunEvent(p)
    BY <2>3, <1>k, NewsPosted DEF RunEvent, Post
  <2>4. CASE RunTerminal(p)
    BY <2>4, <1>k, NewsPosted DEF RunTerminal, Post
  <2>5. CASE RunDrained(p)
    <3>1. toMain' = Append(toMain, Message("drained", p)) /\ run' = [run EXCEPT ![p] = "none"]
      BY <2>5 DEF RunDrained, Post
    <3>2. \A q \in Prompts : run[q] # "none" => run'[q] # "none" \/ q = p
      BY <3>1
    <3>3. "drained" \in Kinds /\ "drained" \notin {"accepted", "event", "terminal"}
      BY <1>k
    <3> QED
      BY <3>1, <3>2, <3>3, NewsPosted
  <2> QED
    BY <1>3, <2>1, <2>2, <2>3, <2>4, <2>5 DEF AgentStep
<1>4. CASE ProcessEnds
  BY <1>4 DEF ProcessEnds, NewsOfRuns
<1> QED
  BY <1>1, <1>2, <1>3, <1>4
     DEF Next, BeginManage, EndManage, TakeShutdown, AskRestart, WorkerStep, ExitDrained, Crash,
         vars, agentVars

\* Behind news of a run that has ended there is the message that it has drained.
LEMMA NewsBehind ==
  ASSUME TypeInv, NewsOfRuns, NEW p \in Prompts, NEW kind \in {"accepted", "event", "terminal"},
         toMain # <<>>, Head(toMain) = Message(kind, p)
  PROVE  run[p] # "none" \/ InTransit("drained", p, Tail(toMain))
<1>1. /\ Len(toMain) \in Nat /\ Len(toMain) >= 1
      /\ Head(toMain) = toMain[1]
  BY DEF TypeInv, TypeOK
<1> SUFFICES ASSUME run[p] = "none"
             PROVE  InTransit("drained", p, Tail(toMain))
  OBVIOUS
<1>2. PICK j \in 1 + 1..Len(toMain) : toMain[j] = Message("drained", p)
  BY <1>1 DEF NewsOfRuns
<1>3. InTransit("drained", p, toMain)
  BY <1>1, <1>2 DEF InTransit
<1>4. Head(toMain) # Message("drained", p)
  BY SameMessage
<1> QED
  BY <1>3, <1>4, Kept DEF TypeInv, TypeOK

\* Without restarts every step keeps NoGhostRun.
LEMMA GhostStep ==
  ASSUME TypeInv, StoppingWasAsked, NewsOfRuns, restarts = 0, NoGhostRun, [Next]_vars
  PROVE  NoGhostRun'
<1> USE DEF TypeInv, TypeOK
<1>c. toMain \in Seq(ToMainMessages)
  BY DEF ToMainMessages
<1>1. ASSUME UNCHANGED <<activeRuns, run, toMain>>
      PROVE  NoGhostRun'
  BY <1>1 DEF NoGhostRun
<1>2. ASSUME NEW p \in Prompts, NEW kind \in Kinds, Receive(kind, p), run' = run,
             \A q \in Prompts : activeRuns'[q] # "absent" =>
                 \/ activeRuns[q] # "absent" /\ (q = p => kind # "drained")
                 \/ q = p /\ kind \in {"accepted", "event", "terminal"}
      PROVE  NoGhostRun'
  <2>1. toMain # <<>> /\ Head(toMain) = Message(kind, p) /\ toMain' = Tail(toMain)
    BY <1>2 DEF Receive
  <2> SUFFICES ASSUME NEW q \in Prompts, activeRuns'[q] # "absent"
               PROVE  run[q] # "none" \/ InTransit("drained", q, Tail(toMain))
    BY <1>2, <2>1 DEF NoGhostRun
  <2>2. CASE q = p /\ kind \in {"accepted", "event", "terminal"}
    BY <2>1, <2>2, NewsBehind
  <2>3. CASE activeRuns[q] # "absent" /\ (q = p => kind # "drained")
    <3>1. run[q] # "none" \/ InTransit("drained", q, toMain)
      BY <2>3 DEF NoGhostRun
    <3>2. Head(toMain) # Message("drained", q)
      BY <2>1, <2>3, SameMessage
    <3> QED
      BY <2>1, <3>1, <3>2, <1>c, Kept
  <2> QED
    BY <1>2, <2>2, <2>3
<1>3. ASSUME NEW p \in Prompts, MainStep(p)
      PROVE  NoGhostRun'
  <2>1. run' = run
    BY <1>3, Sides DEF agentVars
  <2>k. {"accepted", "rejected", "event", "terminal", "drained"} = Kinds
    BY DEF Kinds
  <2>2. CASE ReceiveAccepted(p)
    <3>1. \A q \in Prompts : activeRuns'[q] # "absent" => activeRuns[q] # "absent" \/ q = p
      BY <2>2 DEF ReceiveAccepted
    <3> QED
      BY <2>1, <2>2, <2>k, <3>1, <1>2 DEF ReceiveAccepted
  <2>3. CASE ReceiveRejected(p)
    BY <2>1, <2>3, <2>k, <1>2 DEF ReceiveRejected
  <2>4. CASE ReceiveEvent(p)
    <3>1. \A q \in Prompts : activeRuns'[q] # "absent" => activeRuns[q] # "absent" \/ q = p
      BY <2>4 DEF ReceiveEvent
    <3> QED
      BY <2>1, <2>4, <2>k, <3>1, <1>2 DEF ReceiveEvent
  <2>5. CASE ReceiveTerminal(p)
    <3>1. \A q \in Prompts : activeRuns'[q] # "absent" => activeRuns[q] # "absent" \/ q = p
      BY <2>5 DEF ReceiveTerminal
    <3> QED
      BY <2>1, <2>5, <2>k, <3>1, <1>2 DEF ReceiveTerminal
  <2>6. CASE ReceiveDrained(p)
    <3>1. \A q \in Prompts : activeRuns'[q] # "absent" => activeRuns[q] # "absent" /\ q # p
      BY <2>6 DEF ReceiveDrained
    <3> QED
      BY <2>1, <2>6, <2>k, <3>1, <1>2 DEF ReceiveDrained
  <2> QED
    BY <1>1, <1>3, <2>1, <2>2, <2>3, <2>4, <2>5, <2>6
       DEF MainStep, BeginPrompt, RefusePrompt, PromptFails, SendPrompt, PromptTimeout
<1>4. ASSUME NEW p \in Prompts, AgentStep(p)
      PROVE  NoGhostRun'
  <2>1. activeRuns' = activeRuns
    BY <1>4, Sides DEF mainVars
  <2>2. PICK kind \in Kinds : /\ toMain' = Append(toMain, Message(kind, p))
                              /\ \A q \in Prompts :
                                   run[q] # "none" => run'[q] # "none" \/ (q = p /\ kind = "drained")
    BY <1>4 DEF AgentStep, RejectRun, AdmitRun, RunEvent, RunTerminal, RunDrained, Post, Kinds, agentVars
  <2>3. \A q \in Prompts :
          InTransit("drained", q, toMain') <=> InTransit("drained", q, toMain) \/ (kind = "drained" /\ q = p)
    BY <2>2, Channels DEF Kinds
  <2> QED
    BY <2>1, <2>2, <2>3 DEF NoGhostRun
<1>5. CASE ProcessEnds
  <2>1. Unexpected
    BY DEF StoppingWasAsked, Unexpected
  <2> QED
    BY <1>5, <2>1 DEF ProcessEnds, ReleaseAll, NoGhostRun
<1> QED
  BY <1>1, <1>3, <1>4, <1>5
     DEF Next, BeginManage, EndManage, TakeShutdown, AskRestart, WorkerStep, ExitDrained, Crash,
         vars, mainVars, agentVars

\* As long as nobody asks for a restart, a run that main lists as active goes on at the agent
\* or the report of its drainage is on the way: whatever the order of acceptance, events, end
\* and drainage, and with crashes, exits while a prompt is prepared and slow answers.
THEOREM NoGhosts == Spec => [](restarts = 0 => NoGhostRun)
<1> DEFINE Inv == TypeInv /\ StoppingWasAsked /\ NewsOfRuns /\ (restarts = 0 => NoGhostRun)
<1>1. Init => Inv
  <2> SUFFICES ASSUME Init PROVE Inv
    OBVIOUS
  <2>1. StoppingWasAsked
    BY Zenon DEF Init, WorkerInit, StoppingWasAsked
  <2>2. NewsOfRuns /\ NoGhostRun
    BY DEF Init, NewsOfRuns, NoGhostRun
  <2> QED
    BY <2>1, <2>2, InitType
<1>2. Inv /\ [Next]_vars => Inv'
  BY TypeStep, StoppingAskedStep, NewsStep, GhostStep
<1>3. Inv => (restarts = 0 => NoGhostRun)
  OBVIOUS
<1> QED
  BY <1>1, <1>2, <1>3, PTL DEF Spec

\* The call of a prompt waits as long as the prompt may still be refused, and its
\* acceptance and its refusal exclude each other.
AnswerInv ==
    /\ \A p \in Prompts :
        InTransit("prompt", p, toAgent) \/ InTransit("rejected", p, toMain) => call[p] = "waiting"
    /\ \A p \in Prompts : InTransit("accepted", p, toMain) =>
        /\ ~InTransit("prompt", p, toAgent)
        /\ ~InTransit("rejected", p, toMain)
        /\ call[p] \notin {"idle", "preparing"}
    /\ Once("rejected", toMain)

\* A step that leaves the channels and the calls alone, but for what it takes out, keeps
\* the answers as they are.
LEMMA AnswersFewer ==
  ASSUME AnswerInv, Once("rejected", toMain'), call' = call,
         \A q \in Prompts :
           /\ InTransit("prompt", q, toAgent') => InTransit("prompt", q, toAgent)
           /\ InTransit("rejected", q, toMain') => InTransit("rejected", q, toMain)
           /\ InTransit("accepted", q, toMain') => InTransit("accepted", q, toMain)
  PROVE  AnswerInv'
BY DEF AnswerInv

\* The same when a call that has no answer to wait for comes to its end.
LEMMA AnswersOfOthers ==
  ASSUME TypeInv, AnswerInv, NEW p \in Prompts, NEW to \in {"preparing", "returned"},
         call' = [call EXCEPT ![p] = to], to = "preparing" => call[p] = "idle",
         ~InTransit("prompt", p, toAgent'), ~InTransit("rejected", p, toMain'),
         Once("rejected", toMain'), toAgent' = toAgent,
         \A q \in Prompts :
           /\ InTransit("rejected", q, toMain') => InTransit("rejected", q, toMain)
           /\ InTransit("accepted", q, toMain') => InTransit("accepted", q, toMain)
  PROVE  AnswerInv'
BY DEF AnswerInv, TypeInv, TypeOK

\* The steps of the main process keep AnswerInv.
LEMMA AnswerMain ==
  ASSUME "slowAnswer" \notin Faults, TypeInv, OnePlace, AnswerInv, NEW p \in Prompts, MainStep(p)
  PROVE  AnswerInv'
<1> USE DEF TypeInv, TypeOK
<1>k. {"accepted", "rejected", "event", "terminal", "drained"} = Kinds
  BY DEF Kinds
<1>c. toMain \in Seq(ToMainMessages)
  BY DEF ToMainMessages
<1>1. CASE BeginPrompt(p) \/ RefusePrompt(p) \/ PromptFails(p)
  <2>1. UNCHANGED <<toAgent, toMain>>
    BY <1>1 DEF BeginPrompt, RefusePrompt, PromptFails
  <2>2. /\ call[p] \in {"idle", "preparing"}
        /\ \E to \in {"preparing", "returned"} :
             call' = [call EXCEPT ![p] = to] /\ (to = "preparing" => call[p] = "idle")
    BY <1>1 DEF BeginPrompt, RefusePrompt, PromptFails
  <2>3. ~InTransit("prompt", p, toAgent) /\ ~InTransit("rejected", p, toMain)
    BY <2>2 DEF AnswerInv
  <2>4. Once("rejected", toMain)
    BY DEF AnswerInv
  <2> QED
    BY <2>1, <2>2, <2>3, <2>4, AnswersOfOthers
<1>2. CASE SendPrompt(p)
  <2>1. /\ toAgent' = Append(toAgent, Message("prompt", p)) /\ UNCHANGED toMain
        /\ call' = [call EXCEPT ![p] = "waiting"] /\ call[p] = "preparing"
    BY <1>2 DEF SendPrompt
  <2>2. \A q \in Prompts :
          InTransit("prompt", q, toAgent') <=> InTransit("prompt", q, toAgent) \/ q = p
    BY <2>1, Channels
  <2> QED
    BY <2>1, <2>2 DEF AnswerInv
<1>3. CASE PromptTimeout(p)
  <2>1. UNCHANGED <<toAgent, toMain>> /\ call' = [call EXCEPT ![p] = "returned"]
    BY <1>3 DEF PromptTimeout
  <2>2. ~InTransit("prompt", p, toAgent) /\ ~InTransit("rejected", p, toMain)
    BY <1>3 DEF PromptTimeout, Admitted
  <2>3. Once("rejected", toMain)
    BY DEF AnswerInv
  <2> QED
    BY <2>1, <2>2, <2>3, AnswersOfOthers
<1>4. ASSUME NEW kind \in Kinds, Receive(kind, p)
      PROVE  /\ toAgent' = toAgent
             /\ InTransit(kind, p, toMain)
             /\ Once("rejected", toMain')
             /\ \A q \in Prompts, k \in Kinds : InTransit(k, q, toMain') => InTransit(k, q, toMain)
             /\ kind = "rejected" => ~InTransit("rejected", p, toMain')
  <2>1. /\ toMain # <<>> /\ Head(toMain) = Message(kind, p) /\ toMain' = Tail(toMain)
        /\ toAgent' = toAgent
    BY <1>4 DEF Receive
  <2>2. Once("rejected", toMain)
    BY DEF AnswerInv
  <2>3. /\ Once("rejected", toMain')
        /\ kind = "rejected" => ~InTransit("rejected", p, toMain')
    BY <2>1, <2>2, <1>c, OnceTaken
  <2>4. InTransit(kind, p, toMain)
    BY <2>1, <1>c, HeadInTransit
  <2> QED
    BY <2>1, <2>3, <2>4, Channels
<1>5. CASE ReceiveAccepted(p)
  <2>1. /\ call' = [call EXCEPT ![p] = "returned"] \/ call' = call
        /\ Receive("accepted", p)
    BY <1>5 DEF ReceiveAccepted
  <2>2. ~InTransit("prompt", p, toAgent) /\ ~InTransit("rejected", p, toMain)
    BY <2>1, <1>4, <1>k DEF AnswerInv
  <2> QED
    BY <2>1, <2>2, <1>4, <1>k, AnswersOfOthers, AnswersFewer
<1>6. CASE ReceiveRejected(p)
  <2>1. /\ call' = [call EXCEPT ![p] = "returned"] \/ call' = call
        /\ Receive("rejected", p)
    BY <1>6 DEF ReceiveRejected
  <2>2. ~InTransit("prompt", p, toAgent)
    BY <2>1, <1>4, <1>k DEF OnePlace, Over, Bound
  <2> QED
    BY <2>1, <2>2, <1>4, <1>k, AnswersOfOthers, AnswersFewer
<1>7. CASE ReceiveEvent(p) \/ ReceiveTerminal(p) \/ ReceiveDrained(p)
  <2>1. call' = call
    BY <1>7 DEF ReceiveEvent, ReceiveTerminal, ReceiveDrained
  <2>2. \E kind \in Kinds : Receive(kind, p)
    BY <1>7, <1>k DEF ReceiveEvent, ReceiveTerminal, ReceiveDrained
  <2> QED
    BY <2>1, <2>2, <1>4, <1>k, AnswersFewer
<1> QED
  BY <1>1, <1>2, <1>3, <1>5, <1>6, <1>7 DEF MainStep

\* The steps of the agent keep AnswerInv.
LEMMA AnswerAgent ==
  ASSUME TypeInv, OnePlace, AnswerInv, NEW p \in Prompts, AgentStep(p)
  PROVE  AnswerInv'
<1> USE DEF TypeInv, TypeOK
<1>k. {"accepted", "rejected", "event", "terminal", "drained"} = Kinds
  BY DEF Kinds
<1>c. /\ toAgent \in Seq(ToAgentMessages) /\ toMain \in Seq(ToMainMessages)
      /\ \A kind \in Kinds : Message(kind, p) \in ToMainMessages
  BY DEF ToAgentMessages, ToMainMessages, Message
<1>u. call' = call
  BY Sides DEF mainVars
<1>o. Once("rejected", toMain)
  BY DEF AnswerInv
<1>t. ASSUME TakePrompt(p)
      PROVE  /\ \A q \in Prompts : InTransit("prompt", q, toAgent') => InTransit("prompt", q, toAgent)
             /\ ~InTransit("prompt", p, toAgent')
             /\ call[p] = "waiting" /\ ~Over(p)
  <2>1. toAgent # <<>> /\ Head(toAgent) = Message("prompt", p) /\ toAgent' = Tail(toAgent)
    BY <1>t DEF TakePrompt
  <2>2. InTransit("prompt", p, toAgent)
    BY <2>1, <1>c, HeadInTransit
  <2>3. call[p] = "waiting" /\ ~Over(p)
    BY <2>2 DEF AnswerInv, OnePlace, Bound
  <2> QED
    BY <2>1, <2>3, <1>c, Channels, OnceTaken DEF OnePlace
<1>1. CASE RejectRun(p)
  <2>1. toMain' = Append(toMain, Message("rejected", p)) /\ TakePrompt(p)
    BY <1>1 DEF RejectRun
  <2>2. \A q \in Prompts, k \in Kinds :
          InTransit(k, q, toMain') <=> InTransit(k, q, toMain) \/ (k = "rejected" /\ q = p)
    BY <2>1, <1>k, Channels
  <2>3. ~InTransit("rejected", p, toMain) /\ ~InTransit("accepted", p, toMain)
    <3>1. InTransit("prompt", p, toAgent)
      BY <2>1, <1>c, HeadInTransit DEF TakePrompt
    <3> QED
      BY <3>1, <2>1, <1>t DEF Over, AnswerInv
  <2>4. Once("rejected", toMain')
    BY <2>1, <2>3, <1>c, <1>k, <1>o, OnceAppended, SameMessage
  <2>5. ASSUME NEW q \in Prompts
        PROVE  /\ InTransit("rejected", q, toMain') <=> InTransit("rejected", q, toMain) \/ q = p
               /\ InTransit("accepted", q, toMain') <=> InTransit("accepted", q, toMain)
    BY <2>2, <1>k
  <2>6. ASSUME NEW q \in Prompts, InTransit("prompt", q, toAgent') \/ InTransit("rejected", q, toMain')
        PROVE  call'[q] = "waiting"
    BY <2>1, <2>5, <2>6, <1>t, <1>u DEF AnswerInv
  <2>7. ASSUME NEW q \in Prompts, InTransit("accepted", q, toMain')
        PROVE  /\ ~InTransit("prompt", q, toAgent')
               /\ ~InTransit("rejected", q, toMain')
               /\ call'[q] \notin {"idle", "preparing"}
    BY <2>1, <2>3, <2>5, <2>7, <1>t, <1>u DEF AnswerInv
  <2> QED
    BY <2>4, <2>6, <2>7 DEF AnswerInv
<1>2. CASE AdmitRun(p)
  <2>1. toMain' = Append(toMain, Message("accepted", p)) /\ TakePrompt(p)
    BY <1>2 DEF AdmitRun
  <2>2. \A q \in Prompts, k \in Kinds :
          InTransit(k, q, toMain') <=> InTransit(k, q, toMain) \/ (k = "accepted" /\ q = p)
    BY <2>1, <1>k, Channels
  <2>3. Once("rejected", toMain')
    BY <2>1, <1>c, <1>k, <1>o, OnceAppended, SameMessage
  <2> QED
    BY <2>1, <2>2, <2>3, <1>t, <1>u, <1>k DEF AnswerInv, Over
<1>3. CASE RunEvent(p) \/ RunTerminal(p) \/ RunDrained(p)
  <2>1. PICK kind \in {"event", "terminal", "drained"} :
          toMain' = Append(toMain, Message(kind, p)) /\ toAgent' = toAgent
    BY <1>3 DEF RunEvent, RunTerminal, RunDrained, Post
  <2>0. kind \in Kinds
    BY <1>k
  <2>2. \A q \in Prompts, k \in Kinds :
          InTransit(k, q, toMain') <=> InTransit(k, q, toMain) \/ (k = kind /\ q = p)
    BY <2>0, <2>1, Channels
  <2>3. Once("rejected", toMain')
    BY <2>0, <2>1, <1>c, <1>o, OnceAppended, SameMessage
  <2> QED
    BY <2>1, <2>2, <2>3, <1>u, <1>k, AnswersFewer
<1> QED
  BY <1>1, <1>2, <1>3 DEF AgentStep

\* Every step keeps AnswerInv.
LEMMA AnswerStep ==
  ASSUME "slowAnswer" \notin Faults, TypeInv, OnePlace, AnswerInv, [Next]_vars
  PROVE  AnswerInv'
<1> USE DEF TypeInv, TypeOK
<1>1. ASSUME UNCHANGED <<call, toMain>>,
             \A q \in Prompts : InTransit("prompt", q, toAgent') => InTransit("prompt", q, toAgent)
      PROVE  AnswerInv'
  BY <1>1, AnswersFewer DEF AnswerInv
<1>2. CASE TakeShutdown
  BY <1>2, <1>1, Channels DEF TakeShutdown, mainVars
<1>3. CASE AskRestart
  BY <1>3, <1>1, Channels DEF AskRestart, mainVars
<1>4. CASE ProcessEnds
  <2>1. \A q \in Prompts, kind \in Kinds \cup {"prompt"} :
          ~InTransit(kind, q, toAgent') /\ ~InTransit(kind, q, toMain')
    BY <1>4 DEF ProcessEnds, InTransit
  <2>2. Once("rejected", toMain')
    BY <1>4 DEF ProcessEnds, Once
  <2> QED
    BY <2>1, <2>2 DEF AnswerInv, Kinds
<1> QED
  BY <1>1, <1>2, <1>3, <1>4, AnswerMain, AnswerAgent
     DEF Next, BeginManage, EndManage, WorkerStep, ExitDrained, Crash, vars, mainVars

\* What may still give the lease of a prompt back.
Releasing(p) ==
    \/ call[p] = "preparing"
    \/ InTransit("prompt", p, toAgent)
    \/ call[p] = "waiting" /\ InTransit("rejected", p, toMain)
    \/ run[p] # "none"
    \/ InTransit("drained", p, toMain)

\* A step that leaves leases or gives some back, and keeps what releases the others.
LEMMA Releasers ==
  ASSUME TypeInv, LeaseHasReleaser,
         \A s \in Sessions : lease'[s] \in {lease[s], Nil},
         \A p \in Prompts, s \in Sessions :
           lease'[s] = p /\ lease[s] = p /\ Releasing(p) => Releasing(p)'
  PROVE  LeaseHasReleaser'
<1>1. \A s \in Sessions : lease'[s] # Nil => lease'[s] = lease[s] /\ lease[s] \in Prompts
  BY DEF TypeInv, TypeOK
<1>2. \A s \in Sessions : lease'[s] # Nil => Releasing(lease[s])
  BY <1>1 DEF LeaseHasReleaser, Releasing
<1>3. \A p \in Prompts, s \in Sessions : lease'[s] = p /\ lease[s] = p /\ p # Nil => Releasing(p)'
  BY <1>2
<1> QED
  BY <1>1, <1>3 DEF LeaseHasReleaser, Releasing

\* The steps of the main process leave every owned session its releaser.
LEMMA ReleaserMain ==
  ASSUME "slowAnswer" \notin Faults, TypeInv, OnePlace, AnswerInv, LeaseHasReleaser,
         NEW p \in Prompts, MainStep(p)
  PROVE  LeaseHasReleaser'
<1> USE OwnershipAssumption DEF TypeInv, TypeOK
<1>k. {"accepted", "rejected", "event", "terminal", "drained"} = Kinds
  BY DEF Kinds
<1>c. toMain \in Seq(ToMainMessages)
  BY DEF ToMainMessages
<1>u. run' = run
  BY Sides DEF agentVars
<1>r. \A s \in Sessions : Released(p)[s] \in {lease[s], Nil} /\ Released(p)[s] # p
  BY DEF Released
<1>1. CASE BeginPrompt(p)
  <2>1. /\ UNCHANGED <<toAgent, toMain>>
        /\ call' = [call EXCEPT ![p] = "preparing"] /\ call[p] = "idle"
        /\ lease' = [lease EXCEPT ![SessionOf[p]] = p]
    BY <1>1 DEF BeginPrompt
  <2>2. \A q \in Prompts : Releasing(q) => Releasing(q)'
    BY <2>1, <1>u DEF Releasing
  <2>3. Releasing(p)'
    BY <2>1 DEF Releasing
  <2>4. \A s \in Sessions :
          lease'[s] # Nil => lease'[s] = p \/ (lease'[s] = lease[s] /\ lease[s] \in Prompts)
    BY <2>1
  <2>5. \A s \in Sessions : lease[s] # Nil => Releasing(lease[s])
    BY DEF LeaseHasReleaser, Releasing
  <2>6. \A q \in Prompts, s \in Sessions : lease'[s] = q /\ q # Nil => Releasing(q)'
    BY <2>2, <2>3, <2>4, <2>5
  <2> QED
    BY <2>4, <2>6 DEF LeaseHasReleaser, Releasing
<1>2. CASE RefusePrompt(p)
  <2>1. /\ UNCHANGED <<toAgent, toMain, lease>>
        /\ call' = [call EXCEPT ![p] = "returned"] /\ call[p] = "idle"
    BY <1>2 DEF RefusePrompt
  <2>2. \A q \in Prompts : Releasing(q) => Releasing(q)'
    BY <2>1, <1>u DEF Releasing
  <2> QED
    BY <2>1, <2>2, Releasers
<1>3. CASE PromptFails(p)
  <2>1. /\ UNCHANGED <<toAgent, toMain>>
        /\ call' = [call EXCEPT ![p] = "returned"]
        /\ lease' = Released(p)
    BY <1>3 DEF PromptFails
  <2>2. \A q \in Prompts : q # p /\ Releasing(q) => Releasing(q)'
    BY <2>1, <1>u DEF Releasing
  <2> QED
    BY <2>1, <2>2, <1>r, Releasers
<1>4. CASE SendPrompt(p)
  <2>1. /\ UNCHANGED <<toMain, lease>>
        /\ call' = [call EXCEPT ![p] = "waiting"]
        /\ toAgent' = Append(toAgent, Message("prompt", p))
    BY <1>4 DEF SendPrompt
  <2>2. \A q \in Prompts :
          InTransit("prompt", q, toAgent') <=> InTransit("prompt", q, toAgent) \/ q = p
    BY <2>1, Channels
  <2>3. \A q \in Prompts : Releasing(q) => Releasing(q)'
    BY <2>1, <2>2, <1>u DEF Releasing
  <2> QED
    BY <2>1, <2>3, Releasers
<1>5. CASE PromptTimeout(p)
  <2>1. /\ UNCHANGED <<toAgent, toMain, lease>>
        /\ call' = [call EXCEPT ![p] = "returned"] /\ call[p] = "waiting"
    BY <1>5 DEF PromptTimeout
  <2>2. ~InTransit("rejected", p, toMain)
    BY <1>5 DEF PromptTimeout, Admitted
  <2>3. \A q \in Prompts : Releasing(q) => Releasing(q)'
    BY <2>1, <2>2, <1>u DEF Releasing
  <2> QED
    BY <2>1, <2>3, Releasers
<1>6. ASSUME NEW kind \in Kinds, Receive(kind, p)
      PROVE  /\ toAgent' = toAgent
             /\ InTransit(kind, p, toMain)
             /\ \A q \in Prompts, k \in Kinds :
                  InTransit(k, q, toMain) /\ ~(k = kind /\ q = p) => InTransit(k, q, toMain')
  <2>1. /\ toMain # <<>> /\ Head(toMain) = Message(kind, p) /\ toMain' = Tail(toMain)
        /\ toAgent' = toAgent
    BY <1>6 DEF Receive
  <2> QED
    BY <2>1, <1>c, Kept, HeadInTransit, SameMessage
<1>7. CASE ReceiveAccepted(p)
  <2>1. /\ UNCHANGED lease /\ Receive("accepted", p)
        /\ call' = [call EXCEPT ![p] = "returned"] \/ call' = call
    BY <1>7 DEF ReceiveAccepted
  <2>2. ~InTransit("rejected", p, toMain) /\ call[p] # "preparing"
    BY <2>1, <1>6, <1>k DEF AnswerInv
  <2>3. \A q \in Prompts : Releasing(q) => Releasing(q)'
    BY <2>1, <2>2, <1>6, <1>k, <1>u DEF Releasing
  <2> QED
    BY <2>1, <2>3, Releasers
<1>8. CASE ReceiveRejected(p)
  <2>1. /\ Receive("rejected", p)
        /\ \/ call' = [call EXCEPT ![p] = "returned"] /\ lease' = Released(p)
           \/ UNCHANGED <<call, lease>> /\ call[p] # "waiting"
    BY <1>8 DEF ReceiveRejected
  <2>2. call[p] = "waiting"
    BY <2>1, <1>6, <1>k DEF AnswerInv
  <2>3. \A q \in Prompts : q # p /\ Releasing(q) => Releasing(q)'
    BY <2>1, <2>2, <1>6, <1>k, <1>u DEF Releasing
  <2> QED
    BY <2>1, <2>2, <2>3, <1>r, Releasers
<1>9. CASE ReceiveEvent(p) \/ ReceiveTerminal(p)
  <2>1. /\ UNCHANGED <<call, lease>>
        /\ Receive("event", p) \/ Receive("terminal", p)
    BY <1>9 DEF ReceiveEvent, ReceiveTerminal
  <2>2. \A q \in Prompts : Releasing(q) => Releasing(q)'
    BY <2>1, <1>6, <1>k, <1>u DEF Releasing
  <2> QED
    BY <2>1, <2>2, Releasers
<1>10. CASE ReceiveDrained(p)
  <2>1. /\ UNCHANGED call /\ lease' = Released(p)
        /\ Receive("drained", p)
    BY <1>10 DEF ReceiveDrained
  <2>2. \A q \in Prompts : q # p /\ Releasing(q) => Releasing(q)'
    BY <2>1, <1>6, <1>k, <1>u DEF Releasing
  <2> QED
    BY <2>1, <2>2, <1>r, Releasers
<1> QED
  BY <1>1, <1>2, <1>3, <1>4, <1>5, <1>7, <1>8, <1>9, <1>10 DEF MainStep

\* So do those of the agent, which only pass it on.
LEMMA ReleaserAgent ==
  ASSUME TypeInv, OnePlace, AnswerInv, LeaseHasReleaser, NEW p \in Prompts, AgentStep(p)
  PROVE  LeaseHasReleaser'
<1> USE DEF TypeInv, TypeOK
<1>k. {"accepted", "rejected", "event", "terminal", "drained"} = Kinds
  BY DEF Kinds
<1>c. toAgent \in Seq(ToAgentMessages)
  BY DEF ToAgentMessages
<1>u. UNCHANGED <<call, lease>>
  BY Sides DEF mainVars
<1>t. ASSUME TakePrompt(p)
      PROVE  /\ \A q \in Prompts : q # p /\ InTransit("prompt", q, toAgent)
                                     => InTransit("prompt", q, toAgent')
             /\ call[p] = "waiting"
  <2>1. toAgent # <<>> /\ Head(toAgent) = Message("prompt", p) /\ toAgent' = Tail(toAgent)
    BY <1>t DEF TakePrompt
  <2>2. InTransit("prompt", p, toAgent)
    BY <2>1, <1>c, HeadInTransit
  <2> QED
    BY <2>1, <2>2, <1>c, Kept, SameMessage DEF AnswerInv
<1>m. ASSUME NEW kind \in Kinds, toMain' = Append(toMain, Message(kind, p))
      PROVE  \A q \in Prompts, k \in Kinds :
               InTransit(k, q, toMain') <=> InTransit(k, q, toMain) \/ (k = kind /\ q = p)
  BY <1>m, Channels
<1>1. \A q \in Prompts : Releasing(q) => Releasing(q)'
  <2>1. CASE RejectRun(p)
    BY <2>1, <1>t, <1>m, <1>k, <1>u DEF RejectRun, agentVars, Releasing
  <2>2. CASE AdmitRun(p)
    <3>1. /\ toMain' = Append(toMain, Message("accepted", p)) /\ TakePrompt(p)
          /\ run' = [run EXCEPT ![p] = "running"]
      BY <2>2 DEF AdmitRun
    <3>2. \A q \in Prompts : run[q] # "none" \/ q = p => run'[q] # "none"
      BY <3>1
    <3> QED
      BY <3>1, <3>2, <1>t, <1>m, <1>k, <1>u DEF Releasing
  <2>3. CASE RunEvent(p) \/ RunTerminal(p)
    <3>1. PICK kind \in Kinds : toMain' = Append(toMain, Message(kind, p))
      BY <2>3, <1>k DEF RunEvent, RunTerminal, Post
    <3>2. toAgent' = toAgent /\ \A q \in Prompts : run[q] # "none" => run'[q] # "none"
      BY <2>3 DEF RunEvent, RunTerminal, Post
    <3> QED
      BY <3>1, <3>2, <1>m, <1>k, <1>u DEF Releasing
  <2>4. CASE RunDrained(p)
    BY <2>4, <1>m, <1>k, <1>u DEF RunDrained, Post, Releasing
  <2> QED
    BY <2>1, <2>2, <2>3, <2>4 DEF AgentStep
<1> QED
  BY <1>1, <1>u, Releasers

\* And so does every step, as long as nobody asks for a restart.
LEMMA ReleaserStep ==
  ASSUME "slowAnswer" \notin Faults, TypeInv, StoppingWasAsked, OnePlace, AnswerInv,
         restarts = 0, LeaseHasReleaser, [Next]_vars, restarts' = 0
  PROVE  LeaseHasReleaser'
<1> USE DEF TypeInv, TypeOK
<1>1. ASSUME UNCHANGED <<call, toMain, run, lease>>,
             \A q \in Prompts : InTransit("prompt", q, toAgent) => InTransit("prompt", q, toAgent')
      PROVE  LeaseHasReleaser'
  BY <1>1, Releasers DEF Releasing
<1>2. CASE TakeShutdown
  <2>1. /\ toAgent \in Seq(ToAgentMessages) /\ toAgent # <<>> /\ toAgent' = Tail(toAgent)
        /\ Head(toAgent).kind = "shutdown"
    BY <1>2 DEF TakeShutdown, ToAgentMessages
  <2>2. \A q \in Prompts : Head(toAgent) # Message("prompt", q)
    BY <2>1 DEF Message
  <2> QED
    BY <1>1, <1>2, <2>1, <2>2, Kept DEF TakeShutdown, mainVars, agentVars
<1>3. CASE AskRestart
  BY <1>1, <1>3, Channels DEF AskRestart, mainVars, agentVars
<1>4. CASE ProcessEnds
  <2>1. Unexpected
    BY DEF StoppingWasAsked, Unexpected
  <2> QED
    BY <1>4, <2>1 DEF ProcessEnds, ReleaseAll, LeaseHasReleaser
<1> QED
  BY <1>1, <1>2, <1>3, <1>4, ReleaserMain, ReleaserAgent
     DEF Next, BeginManage, EndManage, WorkerStep, ExitDrained, Crash, vars, mainVars, agentVars

\* As long as nobody asks for a restart and prompts are answered in time, no session stays
\* owned with nothing left that would release it: the call that prepares the prompt, the
\* agent that is to answer it, the refusal or the drainage on its way.
THEOREM LeasesHaveReleasers ==
  ASSUME "slowAnswer" \notin Faults
  PROVE  Spec => [](restarts = 0 => LeaseHasReleaser)
<1> DEFINE Inv == TypeInv /\ StoppingWasAsked /\ OnePlace /\ AnswerInv
                  /\ (restarts = 0 => LeaseHasReleaser)
<1>1. Init => Inv
  <2> SUFFICES ASSUME Init PROVE Inv
    OBVIOUS
  <2>1. StoppingWasAsked
    BY Zenon DEF Init, WorkerInit, StoppingWasAsked
  <2>2. AnswerInv /\ LeaseHasReleaser
    BY DEF Init, AnswerInv, InTransit, Once, LeaseHasReleaser
  <2> QED
    BY <2>1, <2>2, InitType, InitOnePlace
<1>2. Inv /\ [Next]_vars => Inv'
  BY TypeStep, StoppingAskedStep, OnePlaceStep, AnswerStep, ReleaserStep
<1>3. Inv => (restarts = 0 => LeaseHasReleaser)
  OBVIOUS
<1> QED
  BY <1>1, <1>2, <1>3, PTL DEF Spec

=============================================================================
