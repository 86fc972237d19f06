----------------------- MODULE DecompositionRun_proofs -----------------------
(***************************************************************************)
(* The loop that works a job off is a user of the job like any other: its  *)
(* runs are behaviours of DecompositionJob, so what is proved of every job *)
(* holds of those that a loop and its page work on.                        *)
(***************************************************************************)
EXTENDS DecompositionRun, DecompositionJob_work_proofs

\* A step of the loop, of its page or of the agent is a step of the job or none of it.
LEMMA RunStepIsJobStep ==
    ASSUME [RunNext]_runVars
    PROVE  [Next]_vars
<1>1. CASE UNCHANGED runVars
    BY <1>1 DEF runVars
<1>2. CASE Start
    BY <1>2 DEF Start, Next, Control
<1>3. CASE Arrive
    BY <1>3 DEF Arrive
<1>4. CASE OpenPackage
    <2>1. ReadyIn(unitStatus) \in SUBSET Units
        BY DEF ReadyIn
    <2>2. ASSUME Open(ReadyIn(unitStatus))
          PROVE  Next
        BY <2>1, <2>2 DEF Next
    <2>3. ASSUME Get(FALSE)
          PROVE  Next
        BY <2>3 DEF Next
    <2> QED BY <1>4, <2>2, <2>3 DEF OpenPackage
<1>5. CASE AdvanceStage
    BY <1>5 DEF AdvanceStage, Next, Control
<1>6. CASE EndPackage
    BY <1>6 DEF EndPackage, Next, Control
<1>7. CASE StopRun
    BY <1>7 DEF StopRun, Next, Control
<1>8. CASE Choose
    BY <1>8 DEF Choose, Next, Control
<1>9. CASE Meanwhile
    <2>1. ASSUME Get(engine # "package")
          PROVE  Next
        <3>1. (engine # "package") \in BOOLEAN
            OBVIOUS
        <3> QED BY <2>1, <3>1 DEF Next
    <2> QED BY <1>9, <2>1 DEF Meanwhile, Next
<1>10. CASE CoreStep
    BY <1>10 DEF CoreStep, Next
<1>11. CASE CoreEnds
    BY <1>11 DEF CoreEnds, Next
<1> QED BY <1>1, <1>2, <1>3, <1>4, <1>5, <1>6, <1>7, <1>8, <1>9, <1>10, <1>11 DEF RunNext

\* A run of the loop is a behaviour of the job.
THEOREM RunRefinesJob == RunSpec => Spec
<1>1. RunInit => Init
    BY DEF RunInit
<1> QED BY <1>1, RunStepIsJobStep, PTL DEF RunSpec, Spec

\* What a loop has done is saved, what its page has gone back from is open again, and
\* it finds something to do in a stage that is not finished, unless the saving of an
\* edited registry or the carrying out of a choice to keep is interrupted.
THEOREM RunStaysSaved ==
    ASSUME Calm
    PROVE  RunSpec => [](DoneIsSaved /\ LaterStagesWait /\ RunningAgrees /\ WorkGoesOn)
BY RunRefinesJob, DoneStaysSaved, LaterStagesStayOpen, WorkersAgree, JobsGoOn, PTL

-----------------------------------------------------------------------------
(* Why a run ends.                                                         *)

\* Between packages no attempt runs.
LoopIsFree == engine = "loop" => status # "running"

\* The steps of an operation start no attempt.
LEMMA StepStartsNone ==
    ASSUME Step, status # "running"
    PROVE  status' # "running"
<1>1. CASE SaveRecord \/ WriteEntry \/ MeetConflict \/ SubmitFails \/ FinishSubmit
    BY <1>1 DEF SaveRecord, WriteEntry, MeetConflict, SubmitFails, FinishSubmit, EndSubmit, jobVars
<1>2. CASE MergeRecord \/ MergeDone \/ KeepEntry \/ EditRecord \/ Edited
    BY <1>2 DEF MergeRecord, MergeDone, KeepEntry, EditRecord, Edited, jobVars
<1>3. CASE AdvanceMerged
    BY <1>3 DEF AdvanceMerged, GoOn, Finalize
<1>4. CASE Kept
    BY <1>4 DEF Kept
<1>5. CASE ResumeKept
    BY <1>5 DEF ResumeKept, Resumed
<1> QED BY <1>1, <1>2, <1>3, <1>4, <1>5 DEF Step

\* LoopIsFree is inductive beside RunningAgrees.
LEMMA LoopStep ==
    ASSUME RunningAgrees, LoopIsFree, [RunNext]_runVars
    PROVE  LoopIsFree'
<1>1. CASE UNCHANGED runVars
    BY <1>1 DEF runVars, vars, jobVars, LoopIsFree
<1>2. CASE Start
    <2>1. status' # "running"
        BY <1>2 DEF Start, Resume, Resumed, Keep, jobVars
    <2> QED BY <2>1 DEF LoopIsFree
<1>3. CASE Arrive \/ OpenPackage \/ StopRun \/ Choose \/ CoreEnds
    BY <1>3 DEF Arrive, OpenPackage, StopRun, Choose, CoreEnds, LoopIsFree
<1>4. CASE AdvanceStage
    <2>1. status # "running"
        BY <1>4 DEF AdvanceStage, Continues, LoopIsFree
    <2>2. status' # "running"
        BY <1>4, <2>1 DEF AdvanceStage, Advance, GoOn, Finalize, vars, jobVars
    <2> QED BY <2>2 DEF LoopIsFree
<1>5. CASE EndPackage
    <2>1. status' # "running"
        BY <1>5 DEF EndPackage, FinishPackage, RunningAgrees, vars, jobVars
    <2> QED BY <2>1 DEF LoopIsFree
<1>6. CASE Meanwhile
    <2>1. engine' = "loop" => engine = "loop" /\ status # "running"
        BY <1>6 DEF Meanwhile, LoopIsFree
    <2>2. engine' = "loop" => status' \in {status, "stopped"}
        BY <1>6, <2>1 DEF Meanwhile, Get, EditEntry, jobVars
    <2> QED BY <2>1, <2>2 DEF LoopIsFree
<1>7. CASE CoreStep
    BY <1>7, StepStartsNone DEF CoreStep, LoopIsFree
<1> QED BY <1>1, <1>2, <1>3, <1>4, <1>5, <1>6, <1>7 DEF RunNext

\* A package is refused because a unit of it, or what one depends on, was found to be
\* done or in conflict.
LEMMA RefusalHasReason ==
    ASSUME TypeInv, ~(ReadyIn(unitStatus) \subseteq ReadyIn(Recovered(unitStatus))), Get(FALSE)
    PROVE  \/ \E u \in Units : unitStatus'[u] = "conflict"
           \/ \E u \in Units : unitStatus[u] # "done" /\ unitStatus'[u] = "done"
<1>1. unitStatus' = Recovered(unitStatus)
    BY DEF Get
<1>2. PICK u \in Units : u \in ReadyIn(unitStatus) /\ u \notin ReadyIn(Recovered(unitStatus))
    BY DEF ReadyIn
<1>3. unitStatus[u] = "pending"
    BY <1>2 DEF ReadyIn
<1>4. CASE unitStatus'[u] # "pending"
    BY <1>1, <1>3, <1>4, RecoveredIs
<1>5. CASE unitStatus'[u] = "pending"
    <2>1. PICK d \in DependsOn[u] : /\ unitStatus[d] \in {"done", "skipped"}
                                    /\ unitStatus'[d] \notin {"done", "skipped"}
        BY <1>1, <1>2, <1>5 DEF ReadyIn
    <2>2. d \in Units
        BY JobAssumption
    <2>3. unitStatus'[d] = "conflict"
        BY <1>1, <2>1, <2>2, RecoveredIs
    <2> QED BY <2>2, <2>3
<1> QED BY <1>4, <1>5

\* A loop that goes no further than its stage has finished the job, or has failed to.
LEMMA NoFurther ==
    ASSUME Advance, phase \in Phases \ {"done", "registry_review"},
           op' = "none", phase' = phase \/ status' = "failed"
    PROVE  phase' = "done" \/ status' = "failed"
<1>1. GoOn
    BY DEF Advance, Begin
<1>2. CASE NextPhase = "finalize"
    BY <1>1, <1>2 DEF GoOn, Finalize
<1>3. CASE NextPhase # "finalize"
    <2>1. phase' = NextPhase
        BY <1>1, <1>3 DEF GoOn
    <2>2. NextPhase # phase
        BY <1>3 DEF NextPhase, Phases, Stages
    <2> QED BY <2>1, <2>2
<1> QED BY <1>2, <1>3

\* A loop that finds nothing ready in an unfinished stage waits for its user.
LEMMA NothingReady ==
    ASSUME TypeInv, RunningAgrees, WorkGoesOn, Idle, status # "running",
           phase \notin {"done", "registry_review", "finalize"},
           ReadyIn(unitStatus) = {},
           NEW u \in Unfinished(unitStatus), stage[u] = phase
    PROVE  Uprooted \/ \E w \in Units : unitStatus[w] \in {"conflict", "failed"}
<1>1. SUFFICES ASSUME \A w \in Units : unitStatus[w] \notin {"conflict", "failed"}, ~Uprooted
               PROVE  FALSE
    OBVIOUS
<1>2. phase \in Stages
    BY DEF TypeInv, TypeOK, Phases
<1>3. \A w \in Units : unitStatus[w] \in UnitStatuses /\ unitStatus[w] \notin InFlight
    BY DEF TypeInv, TypeOK, RunningAgrees
<1>4. \A w \in Units : unitStatus[w] \in {"pending", "done", "skipped"}
    BY <1>1, <1>3 DEF UnitStatuses, InFlight
<1>5. u \in Units /\ unitStatus[u] = "pending"
    BY <1>4 DEF Unfinished
<1> QED BY <1>1, <1>2, <1>4, <1>5 DEF WorkGoesOn, ContinueHasWork

\* The reasons for which a run ends.
Reasons ==
    \/ phase' \in {"done", "registry_review"}
    \/ status' \in {"stopped", "failed"}
    \/ \E u \in Units : unitStatus'[u] \in {"conflict", "failed"}
    \/ Uprooted'
    \/ \E u \in Units : unitStatus[u] # "done" /\ unitStatus'[u] = "done"

\* Whichever step ends a run has one of them.
LEMMA EndStep ==
    ASSUME TypeInv, RunningAgrees, WorkGoesOn, LoopIsFree, RunNext,
           engine # "off", engine' = "off", Idle
    PROVE  Reasons
<1>1. CASE Arrive
    BY <1>1 DEF Arrive, vars, jobVars, Reasons
<1>2. CASE OpenPackage
    BY <1>2, RefusalHasReason DEF OpenPackage, Reasons
<1>3. CASE AdvanceStage
    <2>1. phase \in Phases \ {"done", "registry_review"} /\ status # "running"
        BY <1>3 DEF AdvanceStage, Continues, TypeInv, TypeOK, LoopIsFree
    <2>2. CASE /\ Advance /\ op' = "none" /\ (phase' = phase \/ status' = "failed")
        BY <2>1, <2>2, NoFurther DEF Reasons
    <2>3. CASE /\ phase # "finalize" /\ UNCHANGED vars
               /\ \E u \in Unfinished(unitStatus) : stage[u] = phase
        <3>1. Uprooted \/ \E w \in Units : unitStatus[w] \in {"conflict", "failed"}
            BY <1>3, <2>1, <2>3, NothingReady DEF AdvanceStage
        <3>2. stage' = stage /\ unitStatus' = unitStatus
            BY <2>3 DEF vars, unitVars
        <3> QED BY <3>1, <3>2 DEF Uprooted, Reasons
    <2> QED BY <1>3, <2>2, <2>3 DEF AdvanceStage
<1>4. CASE EndPackage
    BY <1>4 DEF EndPackage, Reasons
<1>5. CASE StopRun
    BY <1>5 DEF StopRun, Stop, Reasons
<1>6. CASE Start \/ Choose \/ Meanwhile \/ CoreStep \/ CoreEnds
    BY <1>6 DEF Start, Choose, Meanwhile, CoreStep, CoreEnds, Interrupt
<1> QED BY <1>1, <1>2, <1>3, <1>4, <1>5, <1>6 DEF RunNext

\* A run that ends by itself is done or needs its user for a reason that the job tells.
THEOREM RunsEndForAReason == ASSUME Calm PROVE RunSpec => RunEndsForAReason
<1>1. RunInit => LoopIsFree
    BY DEF RunInit, LoopIsFree
<1>2. Spec => []RunningAgrees /\ []WorkGoesOn
    BY WorkersAgree, JobsGoOn, PTL
<1>3. Spec => []TypeInv
    <2>1. JobInv => TypeInv
        BY DEF JobInv
    <2> QED BY <2>1, JobInvariant, PTL
<1>4. RunningAgrees /\ LoopIsFree /\ [RunNext]_runVars => LoopIsFree'
    BY LoopStep
<1>5. TypeInv /\ RunningAgrees /\ WorkGoesOn /\ LoopIsFree /\ [RunNext]_runVars
      => [engine # "off" /\ engine' = "off" /\ Idle => Reasons]_runVars
    <2> SUFFICES ASSUME TypeInv, RunningAgrees, WorkGoesOn, LoopIsFree, RunNext,
                        engine # "off", engine' = "off", Idle
                 PROVE  Reasons
        OBVIOUS
    <2> QED BY EndStep
<1>6. RunSpec => [][engine # "off" /\ engine' = "off" /\ Idle => Reasons]_runVars
    BY <1>1, <1>2, <1>3, <1>4, <1>5, RunRefinesJob, PTL DEF RunSpec
<1> QED BY <1>6 DEF RunEndsForAReason, Reasons
=============================================================================
