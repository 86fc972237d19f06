------------------------------ MODULE DecompositionRun ------------------------------
(***************************************************************************)
(* The loop that works a job off (renderer/src/extras/                     *)
(* long-book-decomposition/engine.ts): resume, open a package of all ready *)
(* units, let the agent work, finish the package, advance to the next      *)
(* stage, until the job is done or needs its user.  While the loop runs    *)
(* the page offers to stop it and nothing else; while it does not, the     *)
(* page offers the controls of DecompositionProgress.vue.                  *)
(***************************************************************************)
EXTENDS DecompositionJob

CONSTANT MaxStarts  \* the packages after which the model starts no run

ASSUME RunAssumption == MaxStarts \in Nat

VARIABLE engine     \* off, loop: between packages, package: an agent works

runVars == <<vars, engine>>

RunInit == Init /\ engine = "off"

Start == engine = "off" /\ issued < MaxStarts /\ Resume /\ engine' = "loop"

Continues == engine = "loop" /\ Idle /\ phase \notin {"done", "registry_review"}

\* The job is done, or its registry is for the user to review.
Arrive ==
    /\ engine = "loop" /\ Idle
    /\ phase \in {"done", "registry_review"}
    /\ engine' = "off"
    /\ UNCHANGED vars

\* A package of everything that is ready, from the job as it was last answered;
\* it is refused when recovery has found something else.
OpenPackage ==
    /\ Continues
    /\ ReadyIn(unitStatus) # {}
    /\ \/ Open(ReadyIn(unitStatus)) /\ engine' = "package"
       \/ /\ ~(ReadyIn(unitStatus) \subseteq ReadyIn(Recovered(unitStatus)))
          /\ Get(FALSE)
          /\ engine' = "off"

\* Mutant: the loop does not look at the answer.
AdvanceStage_Blind ==
    /\ Continues
    /\ ReadyIn(unitStatus) = {}
    /\ Advance
    /\ UNCHANGED engine

\* Nothing is ready: the next stage, or the end of the run if there is none.
AdvanceStage ==
    /\ Continues
    /\ ReadyIn(unitStatus) = {}
    /\ \/ /\ Advance
          /\ engine' = IF op' = "none" /\ (phase' = phase \/ status' = "failed") THEN "off" ELSE "loop"
       \/ /\ phase # "finalize"
          /\ \E u \in Unfinished(unitStatus) : stage[u] = phase
          /\ engine' = "off"
          /\ UNCHANGED vars

\* The agent has ended, whatever it has left undone.
EndPackage ==
    /\ engine = "package" /\ Idle
    /\ \/ \E quota \in BOOLEAN : FinishPackage(quota)
       \/ active = 0 /\ UNCHANGED vars
    /\ engine' = IF status' \in {"failed", "stopped"} THEN "off" ELSE "loop"

StopRun == engine # "off" /\ Stop /\ engine' = "off"

\* What the page offers while nothing runs.
Choose ==
    /\ engine = "off"
    /\ \/ \E u \in Units :
            \/ unitStatus[u] \in {"failed", "pending"} /\ Skip(u)
            \/ unitStatus[u] \in {"failed", "skipped"} /\ Retry(u)
            \/ Regenerate(u)
            \/ Keep(u, "return")
       \/ EditRegistry
    /\ UNCHANGED engine

\* Units are submitted by the agent of the package, and the job is read: the
\* run is known to the main process while its package is open.
Meanwhile ==
    /\ \/ engine = "package" /\ \E u \in Units : Submit(u)
       \/ Get(engine # "package")
       \/ \E p \in Places : EditEntry(p)
    /\ UNCHANGED engine

CoreStep == Step /\ UNCHANGED engine

\* The core ends within an operation.  An agent that submitted learns of it and
\* goes on, unless its package cannot be finished either; a loop that asked for
\* the operation ends with the error.
CoreEnds ==
    /\ Interrupt
    /\ \/ engine' = "off"
       \/ engine = "package" /\ UNCHANGED engine

RunNext ==
    \/ Start \/ Arrive \/ OpenPackage \/ AdvanceStage \/ EndPackage \/ StopRun
    \/ Choose \/ Meanwhile \/ CoreStep \/ CoreEnds

\* The loop and the core go on.  The run of an agent ends, however often its
\* submissions fail: it is asked to end again and again while one is under way.
RunFairness ==
    /\ WF_runVars(CoreStep)
    /\ WF_runVars(Arrive) /\ WF_runVars(OpenPackage) /\ WF_runVars(AdvanceStage)
    /\ SF_runVars(EndPackage)

RunSpec == RunInit /\ [][RunNext]_runVars /\ RunFairness

-----------------------------------------------------------------------------

\* A run returns to its user: packages are not opened for ever, and no stage is
\* waited for that nobody works on.
RunReturns == engine # "off" ~> engine = "off"

\* A run that ends by itself is done, or something in it needs the user, unless
\* the core has ended within an operation, a review has sent back a unit of a
\* dependency, or what an interrupted submission had saved was found just when its
\* unit was to be handed out again.
RunEndsForAReason ==
    [][engine # "off" /\ engine' = "off" /\ Idle =>
          \/ phase' \in {"done", "registry_review"}
          \/ status' \in {"stopped", "failed"}
          \/ \E u \in Units : unitStatus'[u] \in {"conflict", "failed"}
          \/ Uprooted'
          \/ \E u \in Units : unitStatus[u] # "done" /\ unitStatus'[u] = "done"]_runVars
=============================================================================
