------------------ MODULE ProjectTransaction_refinement_proofs ------------------
(***************************************************************************)
(* Commits and recoveries implement AtomicProject, for any files, contents *)
(* and bounds.                                                             *)
(***************************************************************************)
EXTENDS ProjectTransaction_proofs

\* Only commits and recoveries, and no edit of a file between the comparison
\* of its version and the step that relies on it.
CommitsAndRecoveries ==
  /\ "resolve" \notin Kinds
  /\ {"revert", "race", "lateEdit"} \cap Faults = {}

\* A transaction starts with operations that only check keeping their file.
LEMMA ChecksInit == Init => ChecksKeep
  BY DEF Init, ChecksKeep, NoJournal, NoOp

\* Every action keeps it so: a check is staged with the version it found.
LEMMA ChecksStep ==
  ASSUME TypeOK, SessionShape, ChecksKeep, [Next]_vars
  PROVE  ChecksKeep'
<1> USE DistinctValues DEF ChecksKeep, TypeOK, SessionShape,
         diskVars, locals, history, counters
<1>1. CASE StartCommit
  BY <1>1 DEF StartCommit
<1>2. CASE StartRecover
  BY <1>2 DEF StartRecover
<1>3. CASE StartResolve
  BY <1>3 DEF StartResolve
<1>4. CASE BeginStage
  BY <1>4 DEF BeginStage, NewJournal, NoJournal, NoOp
<1>5. CASE Publish
  BY <1>5 DEF Publish
<1>6. CASE Load
  BY <1>6 DEF Load
<1>7. CASE MarkCommitting
  BY <1>7 DEF MarkCommitting, Journal
<1>8. CASE ApplyChange
  BY <1>8 DEF ApplyChange
<1>9. CASE ApplyUnlinkFails
  BY <1>9 DEF ApplyUnlinkFails, Leave, NoJournal, NoOp
<1>10. CASE MarkCommitted
  BY <1>10 DEF MarkCommitted, Journal
<1>11. CASE UnlinkJournal
  BY <1>11 DEF UnlinkJournal, NoJournal, NoOp
<1>12. CASE RemoveStage
  BY <1>12 DEF RemoveStage
<1>13. CASE Return
  BY <1>13 DEF Return, Leave, NoJournal, NoOp
<1>14. CASE SurveyClean
  BY <1>14 DEF SurveyClean
<1>15. CASE Prepare
  BY <1>15 DEF Prepare, NewJournal, NoJournal, NoOp
<1>16. CASE PublishSyncError
  BY <1>16 DEF PublishSyncError, Leave, NoJournal, NoOp
<1>17. CASE Crash
  BY <1>17 DEF Crash, Leave, NoJournal, NoOp
<1>18. CASE IOError
  BY <1>18 DEF IOError, Leave, NoJournal, NoOp
<1>19. CASE PowerLoss
  BY <1>19 DEF PowerLoss, Leave, NoJournal, NoOp
<1>20. CASE \E f \in Files : StageFile(f)
  BY <1>20 DEF StageFile, AfterOf, Journal, Op
<1>21. CASE \E f \in Files : StageConflict(f)
  BY <1>21 DEF StageConflict, Leave, NoJournal, NoOp
<1>22. CASE \E f \in Files : AssertFile(f)
  BY <1>22 DEF AssertFile
<1>23. CASE \E f \in Files : AbortPrepared(f)
  BY <1>23 DEF AbortPrepared
<1>24. CASE \E f \in Files : AssertConflict(f)
  BY <1>24 DEF AssertConflict, Leave, NoJournal, NoOp
<1>25. CASE \E f \in Files : ApplySkip(f)
  BY <1>25 DEF ApplySkip
<1>26. CASE \E f \in Files : ApplyCheck(f)
  BY <1>26 DEF ApplyCheck
<1>27. CASE \E f \in Files : ApplyConflict(f)
  BY <1>27 DEF ApplyConflict, Leave, NoJournal, NoOp
<1>28. CASE \E f \in Files : ApplyStageMissing(f)
  BY <1>28 DEF ApplyStageMissing, Leave, NoJournal, NoOp
<1>29. CASE \E f \in Files : Survey(f)
  BY <1>29 DEF Survey
<1>30. CASE \E f \in Files : SurveyStageMissing(f)
  BY <1>30 DEF SurveyStageMissing, Leave, NoJournal, NoOp
<1>31. CASE \E f \in Files, c \in Versions : Edit(f, c)
  BY <1>31 DEF Edit
<1>32. CASE UNCHANGED vars
  BY <1>32 DEF vars
<1>33. QED
  BY <1>1, <1>2, <1>3, <1>4, <1>5, <1>6, <1>7, <1>8, <1>9, <1>10, <1>11, <1>12,
     <1>13, <1>14, <1>15, <1>16, <1>17, <1>18, <1>19, <1>20, <1>21, <1>22,
     <1>23, <1>24, <1>25, <1>26, <1>27, <1>28, <1>29, <1>30, <1>31, <1>32 DEF
     Next, Start, SessionStep, FileStep, Environment

\* No session runs at first.
LEMMA AtomicInit == Init => AtomicInv
  BY DEF Init, AtomicInv

\* Without late edits a compared file stays acceptable until the point of no
\* return, and a changed one is not changed back.
LEMMA AtomicStep ==
  ASSUME CommitsAndRecoveries,
         TypeOK, SessionShape, AtomicInv, [Next]_vars
  PROVE  AtomicInv'
<1> USE DistinctValues DEF CommitsAndRecoveries, AtomicInv, OpFiles, TypeOK, SessionShape,
         diskVars, locals, history, counters
<1>1. CASE StartCommit
  BY <1>1 DEF StartCommit
<1>2. CASE StartRecover
  BY <1>2 DEF StartRecover
<1>3. CASE StartResolve
  BY <1>3 DEF StartResolve
<1>4. CASE BeginStage
  BY <1>4 DEF BeginStage
<1>5. CASE Publish
  BY <1>5 DEF Publish
<1>6. CASE Load
  BY <1>6 DEF Load, Acceptable
<1>7. CASE MarkCommitting
  BY <1>7 DEF MarkCommitting, Journal
<1>8. CASE ApplyChange
  BY <1>8 DEF ApplyChange, Journal, Op
<1>9. CASE ApplyUnlinkFails
  BY <1>9 DEF ApplyUnlinkFails, Leave
<1>10. CASE MarkCommitted
  BY <1>10 DEF MarkCommitted
<1>11. CASE UnlinkJournal
  BY <1>11 DEF UnlinkJournal
<1>12. CASE RemoveStage
  BY <1>12 DEF RemoveStage
<1>13. CASE Return
  BY <1>13 DEF Return, Leave
<1>14. CASE SurveyClean
  BY <1>14 DEF SurveyClean
<1>15. CASE Prepare
  BY <1>15 DEF Prepare
<1>16. CASE PublishSyncError
  BY <1>16 DEF PublishSyncError, Leave
<1>17. CASE Crash
  BY <1>17 DEF Crash, Leave
<1>18. CASE IOError
  BY <1>18 DEF IOError, Leave
<1>19. CASE PowerLoss
  BY <1>19 DEF PowerLoss, Leave
<1>20. CASE \E f \in Files : StageFile(f)
  BY <1>20 DEF StageFile
<1>21. CASE \E f \in Files : StageConflict(f)
  BY <1>21 DEF StageConflict, Leave
<1>22. CASE \E f \in Files : AssertFile(f)
  BY <1>22 DEF AssertFile
<1>23. CASE \E f \in Files : AbortPrepared(f)
  BY <1>23 DEF AbortPrepared
<1>24. CASE \E f \in Files : AssertConflict(f)
  BY <1>24 DEF AssertConflict, Leave
<1>25. CASE \E f \in Files : ApplySkip(f)
  BY <1>25 DEF ApplySkip
<1>26. CASE \E f \in Files : ApplyCheck(f)
  BY <1>26 DEF ApplyCheck, Untouched
<1>27. CASE \E f \in Files : ApplyConflict(f)
  BY <1>27 DEF ApplyConflict, Leave
<1>28. CASE \E f \in Files : ApplyStageMissing(f)
  BY <1>28 DEF ApplyStageMissing, Leave
<1>29. CASE \E f \in Files : Survey(f)
  BY <1>29 DEF Survey
<1>30. CASE \E f \in Files : SurveyStageMissing(f)
  BY <1>30 DEF SurveyStageMissing, Leave
<1>31. CASE \E f \in Files, c \in Versions : Edit(f, c)
  BY <1>31 DEF Edit, Checked, Acceptable
<1>32. CASE UNCHANGED vars
  BY <1>32 DEF vars
<1>33. QED
  BY <1>1, <1>2, <1>3, <1>4, <1>5, <1>6, <1>7, <1>8, <1>9, <1>10, <1>11, <1>12,
     <1>13, <1>14, <1>15, <1>16, <1>17, <1>18, <1>19, <1>20, <1>21, <1>22,
     <1>23, <1>24, <1>25, <1>26, <1>27, <1>28, <1>29, <1>30, <1>31, <1>32 DEF
     Next, Start, SessionStep, FileStep, Environment

\* An empty journal shows the project as it is on disk.
LEMMA RefineInit == Init => Atomic!Init
<1> SUFFICES ASSUME Init PROVE Atomic!Init
  OBVIOUS
<1>1. ProjectView = disk
  BY DEF Init, ProjectView, NoJournal
<1>2. PendingView = Atomic!Nothing
  BY DEF Init, PendingView, NoJournal, Atomic!Nothing, Atomic!Keep
<1>3. QED
  BY <1>1, <1>2 DEF Init, Atomic!Init

\* Publishing submits, the step to committing commits, an abort gives up, an
\* edit edits; every other step stutters.
LEMMA RefineStep ==
  ASSUME CommitsAndRecoveries,
         TypeOK, SessionShape, ChecksKeep, ExpectedInv, AtomicInv, [Next]_vars
  PROVE  [Atomic!Next]_(Atomic!vars)
<1> USE DEF TypeOK, SessionShape
<1>view. ASSUME journal' = journal, disk' = disk, edits' = edits
         PROVE  UNCHANGED Atomic!vars
  BY <1>view DEF ProjectView, PendingView, Atomic!vars
<1>1. CASE StartCommit
  BY <1>1, <1>view DEF StartCommit, diskVars, counters
<1>2. CASE StartRecover
  BY <1>2, <1>view DEF StartRecover, diskVars, counters
<1>3. CASE StartResolve
  BY <1>3, <1>view DEF StartResolve, diskVars, counters
<1>4. CASE BeginStage
  BY <1>4, <1>view DEF BeginStage, diskVars, counters
<1>5. CASE Publish
  <2> USE DEF Publish, counters
  <2>1. journal.phase = "none" /\ journal'.phase = "prepared"
    BY <1>5, <1>view DEF AtomicInv, diskVars, counters
  <2>2. PendingView = Atomic!Nothing
    BY <2>1 DEF PendingView, Atomic!Nothing, Atomic!Keep
  <2>3. PendingView' \in [Files -> Atomic!Change \cup {Atomic!Keep}]
    <3>1. ASSUME NEW f \in Files, Replaces(journal'.ops[f])
          PROVE  [changes |-> TRUE, before |-> journal'.ops[f].before,
                  after |-> journal'.ops[f].after] \in Atomic!Change
      BY <1>5 DEF Journal, Op, Atomic!Change
    <3>2. QED
      BY <3>1, <2>1 DEF PendingView, Atomic!Keep
  <2>4. ProjectView' = ProjectView
    BY <1>5, <2>1 DEF ProjectView
  <2>5. Atomic!Submit
    BY <1>5, <2>2, <2>3, <2>4 DEF Atomic!Submit, counters
  <2>6. QED
    BY <2>5 DEF Atomic!Next
<1>6. CASE Load
  BY <1>6, <1>view DEF Load, diskVars, counters
<1>7. CASE MarkCommitting
  <2>1. draft = journal /\ journal' = [journal EXCEPT !.phase = "committing"]
        /\ disk' = disk /\ edits' = edits
    BY <1>7 DEF MarkCommitting, counters
  <2>2. journal'.phase = "committing" /\ journal'.ops = journal.ops
    BY <2>1 DEF Journal
  <2>3. CASE journal.phase = "committing"
    BY <2>1, <2>2, <2>3 DEF ProjectView, PendingView, Atomic!vars
  <2>4. CASE journal.phase = "prepared"
    <3>1. ASSUME NEW f \in Files, Replaces(journal.ops[f])
          PROVE  disk[f] \in {journal.ops[f].before, journal.ops[f].after}
      BY <1>7, <2>1, <3>1 DEF MarkCommitting, AtomicInv, OpFiles, Acceptable, Replaces
    <3>2. ProjectView = disk
      BY <2>4 DEF ProjectView
    <3>3. ASSUME NEW f \in Files
          PROVE  /\ PendingView[f].changes <=> Replaces(journal.ops[f])
                 /\ Replaces(journal.ops[f]) =>
                      /\ PendingView[f].before = journal.ops[f].before
                      /\ PendingView[f].after = journal.ops[f].after
      BY <2>4 DEF PendingView
    <3>4. \A f \in Files : PendingView[f].changes =>
            ProjectView[f] \in {PendingView[f].before, PendingView[f].after}
      BY <3>1, <3>2, <3>3
    <3>5. ProjectView' = [f \in Files |-> IF PendingView[f].changes
                                          THEN PendingView[f].after
                                          ELSE ProjectView[f]]
      <4>1. ASSUME NEW f \in Files
            PROVE  ProjectView'[f] = IF PendingView[f].changes
                                     THEN PendingView[f].after ELSE ProjectView[f]
        BY <2>1, <2>2, <3>1, <3>2, <3>3 DEF ProjectView
      <4>2. QED
        BY <4>1 DEF ProjectView
    <3>6. PendingView' = Atomic!Nothing
      BY <2>2 DEF PendingView, Atomic!Nothing, Atomic!Keep
    <3>7. Atomic!Commit
      BY <2>1, <3>4, <3>5, <3>6 DEF Atomic!Commit
    <3>8. QED
      BY <3>7 DEF Atomic!Next
  <2>5. QED
    BY <1>7, <2>3, <2>4 DEF MarkCommitting
<1>8. CASE ApplyChange
  <2>1. draft = journal /\ journal.phase = "committing" /\ target \in Files
    BY <1>8, <1>view DEF ApplyChange, diskVars, counters
  <2>2. disk[target] = journal.ops[target].before
    BY <1>8, <2>1 DEF ApplyChange, ExpectedInv
  <2>3. journal.ops[target].action # "none"
    BY <1>8, <2>1 DEF ApplyChange, OpFiles
  <2>4. journal.ops[target].action \in {"write", "delete", "check"}
    BY <2>1, <2>3 DEF Journal, Op
  <2>5. disk' = [disk EXCEPT ![target] = journal.ops[target].after]
        /\ journal' = journal /\ edits' = edits
    BY <1>8, <2>1 DEF ApplyChange, counters
  <2>6. ASSUME NEW f \in Files PROVE ProjectView'[f] = ProjectView[f]
    <3>1. CASE f = target
      BY <2>1, <2>2, <2>4, <2>5, <3>1 DEF ProjectView, Replaces, ChecksKeep
    <3>2. CASE f # target
      BY <2>1, <2>5, <3>2 DEF ProjectView
    <3>3. QED
      BY <3>1, <3>2
  <2>7. ProjectView' = ProjectView
    BY <2>6 DEF ProjectView
  <2>8. PendingView' = PendingView
    BY <2>5 DEF PendingView
  <2>9. QED
    BY <2>5, <2>7, <2>8 DEF Atomic!vars
<1>9. CASE ApplyUnlinkFails
  BY <1>9, <1>view DEF ApplyUnlinkFails, diskVars, counters
<1>10. CASE MarkCommitted
  <2>1. draft = journal /\ journal.phase = "committing"
        /\ journal' = [journal EXCEPT !.phase = "committed"]
        /\ disk' = disk /\ edits' = edits
    BY <1>10 DEF MarkCommitted, counters
  <2>2. journal'.phase = "committed" /\ journal'.ops = journal.ops
    BY <2>1 DEF Journal
  <2>3. ASSUME NEW f \in Files PROVE ProjectView'[f] = ProjectView[f]
    BY <1>10, <2>1, <2>2 DEF MarkCommitted, AllVisited, AtomicInv, OpFiles, ProjectView, Replaces
  <2>4. ProjectView' = ProjectView
    BY <2>3 DEF ProjectView
  <2>5. PendingView' = PendingView
    BY <2>1, <2>2 DEF PendingView
  <2>6. QED
    BY <2>1, <2>4, <2>5 DEF Atomic!vars
<1>11. CASE UnlinkJournal
  <2>1. journal.phase \in {"prepared", "committed"} /\ journal'.phase = "none"
        /\ disk' = disk /\ edits' = edits
    BY <1>11 DEF UnlinkJournal, NoJournal, counters
  <2>2. ProjectView' = ProjectView
    BY <2>1 DEF ProjectView
  <2>3. PendingView' = Atomic!Nothing
    BY <2>1 DEF PendingView, Atomic!Nothing, Atomic!Keep
  <2>4. Atomic!GiveUp
    BY <2>1, <2>2, <2>3 DEF Atomic!GiveUp
  <2>5. QED
    BY <2>4 DEF Atomic!Next
<1>12. CASE RemoveStage
  BY <1>12, <1>view DEF RemoveStage, diskVars, counters
<1>13. CASE Return
  BY <1>13, <1>view DEF Return, diskVars, counters
<1>14. CASE SurveyClean
  BY <1>14, <1>view DEF SurveyClean, diskVars, counters
<1>15. CASE Prepare
  BY <1>15, <1>view DEF Prepare, diskVars, counters
<1>16. CASE PublishSyncError
  <2> USE DEF PublishSyncError, counters
  <2>1. journal.phase = "none" /\ journal'.phase = "prepared"
    BY <1>16, <1>view DEF AtomicInv, diskVars, counters
  <2>2. PendingView = Atomic!Nothing
    BY <2>1 DEF PendingView, Atomic!Nothing, Atomic!Keep
  <2>3. PendingView' \in [Files -> Atomic!Change \cup {Atomic!Keep}]
    <3>1. ASSUME NEW f \in Files, Replaces(journal'.ops[f])
          PROVE  [changes |-> TRUE, before |-> journal'.ops[f].before,
                  after |-> journal'.ops[f].after] \in Atomic!Change
      BY <1>16 DEF Journal, Op, Atomic!Change
    <3>2. QED
      BY <3>1, <2>1 DEF PendingView, Atomic!Keep
  <2>4. ProjectView' = ProjectView
    BY <1>16, <2>1 DEF ProjectView
  <2>5. Atomic!Submit
    BY <1>16, <2>2, <2>3, <2>4 DEF Atomic!Submit, counters
  <2>6. QED
    BY <2>5 DEF Atomic!Next
<1>17. CASE Crash
  BY <1>17, <1>view DEF Crash, diskVars, counters
<1>18. CASE IOError
  BY <1>18, <1>view DEF IOError, diskVars, counters
<1>19. CASE PowerLoss
  <2>1. PICK undone \in SUBSET {f \in unsynced : disk[f] = draft.ops[f].after} :
          disk' = [f \in Files |-> IF f \in undone THEN draft.ops[f].before
                                  ELSE disk[f]]
    BY <1>19 DEF PowerLoss
  <2>2. journal' = journal /\ edits' = edits
    BY <1>19 DEF PowerLoss
  <2>3. ASSUME NEW f \in Files PROVE ProjectView'[f] = ProjectView[f]
    <3>1. CASE f \in undone
      <4>1. draft = journal /\ journal.phase = "committing"
            /\ journal.ops[f].action \in {"write", "delete", "check"}
        BY <2>1, <3>1 DEF OpFiles, Journal, Op
      <4>2. disk[f] = journal.ops[f].after /\ disk'[f] = journal.ops[f].before
        BY <2>1, <3>1, <4>1
      <4>3. QED
        BY <2>2, <4>1, <4>2 DEF ProjectView, Replaces, ChecksKeep
    <3>2. CASE f \notin undone
      BY <2>1, <2>2, <3>2 DEF ProjectView
    <3>3. QED
      BY <3>1, <3>2
  <2>4. ProjectView' = ProjectView
    BY <2>3 DEF ProjectView
  <2>5. PendingView' = PendingView
    BY <2>2 DEF PendingView
  <2>6. QED
    BY <2>2, <2>4, <2>5 DEF Atomic!vars
<1>20. CASE \E f \in Files : StageFile(f)
  BY <1>20, <1>view DEF StageFile, diskVars, counters
<1>21. CASE \E f \in Files : StageConflict(f)
  BY <1>21, <1>view DEF StageConflict, diskVars, counters
<1>22. CASE \E f \in Files : AssertFile(f)
  BY <1>22, <1>view DEF AssertFile, diskVars, counters
<1>23. CASE \E f \in Files : AbortPrepared(f)
  BY <1>23, <1>view DEF AbortPrepared, diskVars, counters
<1>24. CASE \E f \in Files : AssertConflict(f)
  BY <1>24, <1>view DEF AssertConflict, diskVars, counters
<1>25. CASE \E f \in Files : ApplySkip(f)
  BY <1>25, <1>view DEF ApplySkip, diskVars, counters
<1>26. CASE \E f \in Files : ApplyCheck(f)
  BY <1>26, <1>view DEF ApplyCheck, diskVars, counters
<1>27. CASE \E f \in Files : ApplyConflict(f)
  BY <1>27, <1>view DEF ApplyConflict, diskVars, counters
<1>28. CASE \E f \in Files : ApplyStageMissing(f)
  BY <1>28, <1>view DEF ApplyStageMissing, diskVars, counters
<1>29. CASE \E f \in Files : Survey(f)
  BY <1>29, <1>view DEF Survey, diskVars, counters
<1>30. CASE \E f \in Files : SurveyStageMissing(f)
  BY <1>30, <1>view DEF SurveyStageMissing, diskVars, counters
<1>31. CASE \E f \in Files, c \in Versions : Edit(f, c)
  <2>1. PICK f \in Files, c \in Versions : Edit(f, c)
    BY <1>31
  <2>2. journal' = journal /\ disk' = [disk EXCEPT ![f] = c] /\ edits' = edits + 1
    BY <2>1 DEF Edit
  <2>3. ProjectView'[f] \in Versions
    BY <2>2 DEF ProjectView, Journal, Op
  <2>4. \A g \in Files : g # f => ProjectView'[g] = ProjectView[g]
    BY <2>2 DEF ProjectView
  <2>5. ProjectView' = [ProjectView EXCEPT ![f] = ProjectView'[f]]
    BY <2>4 DEF ProjectView
  <2>6. PendingView' = PendingView
    BY <2>2 DEF PendingView
  <2>7. Atomic!Edit
    BY <2>2, <2>3, <2>5, <2>6 DEF Atomic!Edit
  <2>8. QED
    BY <2>7 DEF Atomic!Next
<1>32. CASE UNCHANGED vars
  BY <1>32, <1>view DEF vars, diskVars, counters
<1>33. QED
  BY <1>1, <1>2, <1>3, <1>4, <1>5, <1>6, <1>7, <1>8, <1>9, <1>10, <1>11, <1>12,
     <1>13, <1>14, <1>15, <1>16, <1>17, <1>18, <1>19, <1>20, <1>21, <1>22,
     <1>23, <1>24, <1>25, <1>26, <1>27, <1>28, <1>29, <1>30, <1>31, <1>32 DEF
     Next, Start, SessionStep, FileStep, Environment

\* Over any crashes, I/O errors and power losses, commits and recoveries make
\* a project change as AtomicProject says: one whole transaction, or one edit
\* of another program, at a time.
THEOREM Refinement ==
  ASSUME CommitsAndRecoveries
  PROVE  Spec => ImplementsAtomicProject
<1>1. "race" \notin Faults
  BY DEF CommitsAndRecoveries
<1>2. TypeOK /\ SessionShape /\ ExpectedInv /\ [Next]_vars => ExpectedInv'
  BY <1>1, ExpectedStep
<1>3. TypeOK /\ SessionShape /\ ChecksKeep /\ [Next]_vars => ChecksKeep'
  BY ChecksStep
<1>4. TypeOK /\ SessionShape /\ AtomicInv /\ [Next]_vars => AtomicInv'
  BY AtomicStep
<1>5. TypeOK /\ SessionShape /\ ChecksKeep /\ ExpectedInv /\ AtomicInv /\ [Next]_vars
        => [Atomic!Next]_(Atomic!vars)
  BY RefineStep
<1>6. QED
  BY <1>2, <1>3, <1>4, <1>5, RefineInit, ExpectedInit, ChecksInit, AtomicInit, Shape, PTL
    DEF Spec, ImplementsAtomicProject, Atomic!Spec
=============================================================================
