---------------------- MODULE ProjectTransaction_proofs ----------------------
(* What holds of ProjectTransaction for any files, contents and bounds.    *)
EXTENDS ProjectTransaction, TLAPS

\* The empty values have their types.
LEMMA EmptyValues ==
  /\ NoOp \in Op /\ NoRequest \in Request
  /\ NoInput \in [Files -> Request]
  /\ NoStage \in [Files -> Versions]
  /\ NoJournal \in Journal
  /\ \A i \in Ids : NewJournal(i) \in Journal
<1>1. NoOp \in Op /\ NoRequest \in Request
  BY DEF NoOp, NoRequest, Op, Request, Versions
<1>2. NoStage \in [Files -> Versions]
  BY DEF NoStage, Versions
<1>3. NoInput \in [Files -> Request] /\ [f \in Files |-> NoOp] \in [Files -> Op]
  BY <1>1 DEF NoInput
<1>4. NoJournal \in Journal
  BY <1>3 DEF NoJournal, Journal, Phases
<1>5. \A i \in Ids : NewJournal(i) \in Journal
  BY <1>3 DEF NewJournal, NoJournal, Journal, Phases
<1>6. QED
  BY <1>1, <1>2, <1>3, <1>4, <1>5

\* A resolution hands commitProjectTransactionLocked well-formed operations.
LEMMA RequestType ==
  ASSUME NEW v \in Versions \cup {Unstated}, NEW next \in Versions
  PROVE  RequestFor(v, next) \in Request
  BY DEF RequestFor, Request

\* The empty project is well typed.
LEMMA TypeInit == Init => TypeOK
<1> SUFFICES ASSUME Init PROVE TypeOK
  OBVIOUS
<1>1. stage \in [Ids -> [Files -> Versions]]
  BY EmptyValues DEF Init
<1>2. edits \in Nat /\ faults \in Nat
  BY DEF Init
<1>3. QED
  BY EmptyValues, <1>1, <1>2 DEF Init, TypeOK

\* Every action of a session and of the environment keeps the types.
LEMMA TypeStep == TypeOK /\ [Next]_vars => TypeOK'
<1> SUFFICES ASSUME TypeOK, [Next]_vars PROVE TypeOK'
  OBVIOUS
<1> USE EmptyValues DEF TypeOK, diskVars, locals, history, counters
<1>1. CASE StartCommit
  BY <1>1 DEF StartCommit
<1>2. CASE StartRecover
  BY <1>2 DEF StartRecover
<1>3. CASE StartResolve
  BY <1>3 DEF StartResolve, OpFiles
<1>4. CASE BeginStage
  <2>1. PICK req \in Inputs, i \in Ids :
          /\ input' = req /\ todo' = InputFiles(req)
          /\ draft' = NewJournal(i)
          /\ stage' = [stage EXCEPT ![i] = NoStage]
    BY <1>4 DEF BeginStage
  <2>2. input' \in [Files -> Request] /\ todo' \subseteq Files
    BY <2>1, InputsAreValid DEF InputFiles
  <2>3. draft' \in Journal
    BY <2>1
  <2>4. stage' \in [Ids -> [Files -> Versions]]
    BY <2>1
  <2>5. QED
    BY <1>4, <2>2, <2>3, <2>4 DEF BeginStage
<1>5. CASE Publish
  BY <1>5 DEF Publish
<1>6. CASE Load
  BY <1>6 DEF Load, OpFiles
<1>7. CASE MarkCommitting
  BY <1>7 DEF MarkCommitting, OpFiles, Journal, Phases
<1>8. CASE ApplyChange
  <2>1. target \in Files /\ draft.ops[target].after \in Versions
    BY <1>8 DEF ApplyChange, Journal, Op
  <2>2. disk' \in [Files -> Versions]
    BY <1>8, <2>1 DEF ApplyChange
  <2>3. stage' \in [Ids -> [Files -> Versions]]
    BY <1>8, <2>1 DEF ApplyChange, Versions
  <2>4. QED
    BY <1>8, <2>1, <2>2, <2>3 DEF ApplyChange
<1>9. CASE ApplyUnlinkFails
  BY <1>9 DEF ApplyUnlinkFails, Leave
<1>10. CASE MarkCommitted
  BY <1>10 DEF MarkCommitted, AfterSync, Journal, Phases
<1>11. CASE UnlinkJournal
  BY <1>11 DEF UnlinkJournal
<1>12. CASE RemoveStage
  BY <1>12 DEF RemoveStage
<1>13. CASE Return
  BY <1>13 DEF Return, Leave
<1>14. CASE SurveyClean
  BY <1>14 DEF SurveyClean
<1>15. CASE Prepare
  <2>1. PICK read \in SUBSET Files, fix \in SUBSET Files, c \in Contents, i \in Ids :
          /\ input' = Adjusted(read, fix, c)
          /\ draft' = NewJournal(i)
          /\ stage' = [stage EXCEPT ![i] = NoStage]
    BY <1>15 DEF Prepare
  <2>2. input' \in [Files -> Request]
    <3>1. ASSUME NEW f \in Files
          PROVE  /\ RequestFor(disk[f], disk[f]) \in Request
                 /\ RequestFor(disk[f], c) \in Request
                 /\ RequestFor(input[f].expected, c) \in Request
      <4>1. input[f].expected \in Versions \cup {Unstated} /\ disk[f] \in Versions
        BY DEF Request
      <4>2. QED
        BY <4>1, RequestType DEF Versions
    <3>2. QED
      BY <2>1, <3>1 DEF Adjusted
  <2>3. draft' \in Journal /\ todo' \subseteq Files
    BY <1>15, <2>1 DEF Prepare, InputFiles
  <2>4. stage' \in [Ids -> [Files -> Versions]]
    BY <2>1
  <2>5. old' \in Ids \cup {0}
    BY <1>15 DEF Prepare, Journal
  <2>6. QED
    BY <1>15, <2>2, <2>3, <2>4, <2>5 DEF Prepare
<1>16. CASE PublishSyncError
  <2>1. faults' \in Nat
    BY <1>16 DEF PublishSyncError
  <2>2. QED
    BY <1>16, <2>1 DEF PublishSyncError, Leave
<1>17. CASE Crash
  <2>1. faults' \in Nat
    BY <1>17 DEF Crash
  <2>2. QED
    BY <1>17, <2>1 DEF Crash, Leave
<1>18. CASE IOError
  <2>1. faults' \in Nat
    BY <1>18 DEF IOError
  <2>2. stage' \in [Ids -> [Files -> Versions]]
    BY <1>18 DEF IOError
  <2>3. QED
    BY <1>18, <2>1, <2>2 DEF IOError, Leave
<1>19. CASE PowerLoss
  <2>1. PICK lost \in SUBSET Ids,
             undone \in SUBSET {f \in unsynced : disk[f] = draft.ops[f].after} :
          /\ disk' = [f \in Files |-> IF f \in undone THEN draft.ops[f].before
                                     ELSE disk[f]]
          /\ stage' = [i \in Ids |->
               IF i \in lost THEN NoStage
               ELSE [f \in Files |->
                       IF i = draft.id /\ f \in undone THEN draft.ops[f].after
                       ELSE stage[i][f]]]
    BY <1>19 DEF PowerLoss
  <2>2. \A f \in Files : draft.ops[f].before \in Versions /\ draft.ops[f].after \in Versions
    BY DEF Journal, Op
  <2>3. disk' \in [Files -> Versions]
    BY <2>1, <2>2
  <2>4. stage' \in [Ids -> [Files -> Versions]]
    BY <2>1, <2>2
  <2>5. faults' \in Nat
    BY <1>19 DEF PowerLoss
  <2>6. QED
    BY <1>19, <2>3, <2>4, <2>5 DEF PowerLoss, Leave
<1>20. CASE \E f \in Files : StageFile(f)
  <2>1. PICK f \in Files : StageFile(f)
    BY <1>20
  <2>2. input[f] \in Request /\ disk[f] \in Versions
    OBVIOUS
  <2>3. [action |-> input[f].action, before |-> disk[f],
         after |-> AfterOf(input[f], disk[f])] \in Op
    BY <2>2 DEF AfterOf, Op, Request, Versions
  <2>4. draft' \in Journal
    BY <2>1, <2>3 DEF StageFile, Journal
  <2>5. stage' \in [Ids -> [Files -> Versions]]
    BY <2>1, <2>2 DEF StageFile, Request
  <2>6. QED
    BY <2>1, <2>4, <2>5 DEF StageFile
<1>21. CASE \E f \in Files : StageConflict(f)
  BY <1>21 DEF StageConflict, Leave
<1>22. CASE \E f \in Files : AssertFile(f)
  BY <1>22 DEF AssertFile
<1>23. CASE \E f \in Files : AbortPrepared(f)
  BY <1>23 DEF AbortPrepared
<1>24. CASE \E f \in Files : AssertConflict(f)
  BY <1>24 DEF AssertConflict, Leave
<1>25. CASE \E f \in Files : ApplySkip(f)
  BY <1>25 DEF ApplySkip
<1>26. CASE \E f \in Files : ApplyCheck(f)
  BY <1>26 DEF ApplyCheck
<1>27. CASE \E f \in Files : ApplyConflict(f)
  BY <1>27 DEF ApplyConflict, Leave
<1>28. CASE \E f \in Files : ApplyStageMissing(f)
  BY <1>28 DEF ApplyStageMissing, Leave
<1>29. CASE \E f \in Files : Survey(f)
  <2>1. PICK f \in Files : Survey(f)
    BY <1>29
  <2>2. draft.ops[f].after \in Versions /\ disk[f] \in Versions
    BY DEF Journal, Op
  <2>3. input' \in [Files -> Request]
    BY <2>1, <2>2, RequestType DEF Survey
  <2>4. clash' \in BOOLEAN
    BY <2>1 DEF Survey
  <2>5. QED
    BY <2>1, <2>3, <2>4 DEF Survey
<1>30. CASE \E f \in Files : SurveyStageMissing(f)
  BY <1>30 DEF SurveyStageMissing, Leave
<1>31. CASE \E f \in Files, c \in Versions : Edit(f, c)
  <2>1. edits' \in Nat
    BY <1>31 DEF Edit
  <2>2. disk' \in [Files -> Versions]
    BY <1>31 DEF Edit
  <2>3. edited' \subseteq Files
    BY <1>31 DEF Edit
  <2>4. QED
    BY <1>31, <2>1, <2>2, <2>3 DEF Edit
<1>32. CASE UNCHANGED vars
  BY <1>32 DEF vars
<1>33. QED
  BY <1>1, <1>2, <1>3, <1>4, <1>5, <1>6, <1>7, <1>8, <1>9, <1>10, <1>11, <1>12,
     <1>13, <1>14, <1>15, <1>16, <1>17, <1>18, <1>19, <1>20, <1>21, <1>22,
     <1>23, <1>24, <1>25, <1>26, <1>27, <1>28, <1>29, <1>30, <1>31, <1>32 DEF
     Next, Start, SessionStep, FileStep, Environment

\* Every reachable state is well typed.
THEOREM TypeCorrect == Spec => []TypeOK
  BY TypeInit, TypeStep, PTL DEF Spec

-----------------------------------------------------------------------------
(* Where a session is tells what it knows of the journal.                  *)

\* No session runs at first.
LEMMA ShapeInit == Init => SessionShape
  BY DEF Init, SessionShape

\* Every step leaves the session where its locals and the journal say.
LEMMA ShapeStep ==
  TypeOK /\ SessionShape /\ [Next]_vars => SessionShape'
<1> SUFFICES ASSUME TypeOK, SessionShape, [Next]_vars PROVE SessionShape'
  OBVIOUS
<1> USE DEF SessionShape, TypeOK, OpFiles, diskVars, locals, history, counters
<1>1. CASE StartCommit
  BY <1>1 DEF StartCommit
<1>2. CASE StartRecover
  BY <1>2 DEF StartRecover
<1>3. CASE StartResolve
  BY <1>3 DEF StartResolve, Journal, Phases
<1>4. CASE BeginStage
  BY <1>4 DEF BeginStage, Fresh, NewJournal, NoJournal
<1>5. CASE Publish
  BY <1>5 DEF Publish
<1>6. CASE Load
  BY <1>6 DEF Load, Journal, Phases
<1>7. CASE MarkCommitting
  BY <1>7 DEF MarkCommitting, Journal
<1>8. CASE ApplyChange
  BY <1>8 DEF ApplyChange
<1>9. CASE ApplyUnlinkFails
  BY <1>9 DEF ApplyUnlinkFails, Leave
<1>10. CASE MarkCommitted
  BY <1>10 DEF MarkCommitted, AfterSync, AllVisited, Journal
<1>11. CASE UnlinkJournal
  BY <1>11 DEF UnlinkJournal, NoJournal
<1>12. CASE RemoveStage
  BY <1>12 DEF RemoveStage
<1>13. CASE Return
  BY <1>13 DEF Return, Leave
<1>14. CASE SurveyClean
  BY <1>14 DEF SurveyClean
<1>15. CASE Prepare
  BY <1>15 DEF Prepare, Fresh, NewJournal, NoJournal
<1>16. CASE PublishSyncError
  BY <1>16 DEF PublishSyncError, Leave
<1>17. CASE Crash
  BY <1>17 DEF Crash, Leave
<1>18. CASE IOError
  BY <1>18 DEF IOError, Leave
<1>19. CASE PowerLoss
  BY <1>19 DEF PowerLoss, Leave
<1>20. CASE \E f \in Files : StageFile(f)
  BY <1>20 DEF StageFile
<1>21. CASE \E f \in Files : StageConflict(f)
  BY <1>21 DEF StageConflict, Leave
<1>22. CASE \E f \in Files : AssertFile(f)
  BY <1>22 DEF AssertFile
<1>23. CASE \E f \in Files : AbortPrepared(f)
  BY <1>23 DEF AbortPrepared, MayAbort
<1>24. CASE \E f \in Files : AssertConflict(f)
  BY <1>24 DEF AssertConflict, Leave
<1>25. CASE \E f \in Files : ApplySkip(f)
  BY <1>25 DEF ApplySkip
<1>26. CASE \E f \in Files : ApplyCheck(f)
  BY <1>26 DEF ApplyCheck
<1>27. CASE \E f \in Files : ApplyConflict(f)
  BY <1>27 DEF ApplyConflict, Leave
<1>28. CASE \E f \in Files : ApplyStageMissing(f)
  BY <1>28 DEF ApplyStageMissing, Leave
<1>29. CASE \E f \in Files : Survey(f)
  BY <1>29 DEF Survey
<1>30. CASE \E f \in Files : SurveyStageMissing(f)
  BY <1>30 DEF SurveyStageMissing, Leave
<1>31. CASE \E f \in Files, c \in Versions : Edit(f, c)
  BY <1>31 DEF Edit
<1>32. CASE UNCHANGED vars
  BY <1>32 DEF vars
<1>33. QED
  BY <1>1, <1>2, <1>3, <1>4, <1>5, <1>6, <1>7, <1>8, <1>9, <1>10, <1>11, <1>12,
     <1>13, <1>14, <1>15, <1>16, <1>17, <1>18, <1>19, <1>20, <1>21, <1>22,
     <1>23, <1>24, <1>25, <1>26, <1>27, <1>28, <1>29, <1>30, <1>31, <1>32 DEF
     Next, Start, SessionStep, FileStep, Environment

\* In every reachable state a session and the journal agree.
LEMMA Shape == Spec => [](TypeOK /\ SessionShape)
  BY TypeInit, TypeStep, ShapeInit, ShapeStep, PTL DEF Spec

-----------------------------------------------------------------------------
(* RollForwardPossible.                                                    *)

\* Nothing has to be rolled forward at first.
LEMMA RollInit == Init => RollForwardPossible /\ DraftStaged
  BY DEF Init, RollForwardPossible, DraftStaged, NoJournal

\* Publishing finds everything staged, applying changes the file with its stage,
\* and no other step takes a stage the journal needs.
LEMMA RollStep ==
  ASSUME "syncError" \notin Faults, "powerLoss" \notin Faults, "revert" \notin Faults,
         TypeOK, SessionShape, RollForwardPossible, DraftStaged, [Next]_vars
  PROVE  RollForwardPossible' /\ DraftStaged'
<1> USE DistinctValues DEF RollForwardPossible, DraftStaged, TypeOK, SessionShape,
         diskVars, locals, history, counters
<1>1. CASE StartCommit
  BY <1>1 DEF StartCommit
<1>2. CASE StartRecover
  BY <1>2 DEF StartRecover
<1>3. CASE StartResolve
  BY <1>3 DEF StartResolve
<1>4. CASE BeginStage
  BY <1>4 DEF BeginStage, Fresh, NewJournal, NoStage, Journal, NoJournal, NoOp
<1>5. CASE Publish
  BY <1>5 DEF Publish, Journal
<1>6. CASE Load
  BY <1>6 DEF Load
<1>7. CASE MarkCommitting
  BY <1>7 DEF MarkCommitting, Journal
<1>8. CASE ApplyChange
  BY <1>8 DEF ApplyChange, Journal, Op
<1>9. CASE ApplyUnlinkFails
  BY <1>9 DEF ApplyUnlinkFails, Leave
<1>10. CASE MarkCommitted
  BY <1>10 DEF MarkCommitted, AfterSync, Journal
<1>11. CASE UnlinkJournal
  BY <1>11 DEF UnlinkJournal, NoJournal, NoOp
<1>12. CASE RemoveStage
  BY <1>12 DEF RemoveStage, NoStage
<1>13. CASE Return
  BY <1>13 DEF Return, Leave, NoStage
<1>14. CASE SurveyClean
  BY <1>14 DEF SurveyClean
<1>15. CASE Prepare
  BY <1>15 DEF Prepare, Fresh, NewJournal, NoStage, Journal, NoJournal, NoOp
<1>16. CASE PublishSyncError
  BY <1>16 DEF PublishSyncError, Leave
<1>17. CASE Crash
  BY <1>17 DEF Crash, Leave
<1>18. CASE IOError
  BY <1>18 DEF IOError, Leave, JournalUnwritten, NoStage
<1>19. CASE PowerLoss
  BY <1>19 DEF PowerLoss, Leave
<1>20. CASE \E f \in Files : StageFile(f)
  BY <1>20 DEF StageFile, AfterOf, Journal, Op
<1>21. CASE \E f \in Files : StageConflict(f)
  BY <1>21 DEF StageConflict, Leave, NoStage
<1>22. CASE \E f \in Files : AssertFile(f)
  BY <1>22 DEF AssertFile
<1>23. CASE \E f \in Files : AbortPrepared(f)
  BY <1>23 DEF AbortPrepared
<1>24. CASE \E f \in Files : AssertConflict(f)
  BY <1>24 DEF AssertConflict, Leave
<1>25. CASE \E f \in Files : ApplySkip(f)
  BY <1>25 DEF ApplySkip
<1>26. CASE \E f \in Files : ApplyCheck(f)
  BY <1>26 DEF ApplyCheck
<1>27. CASE \E f \in Files : ApplyConflict(f)
  BY <1>27 DEF ApplyConflict, Leave
<1>28. CASE \E f \in Files : ApplyStageMissing(f)
  BY <1>28 DEF ApplyStageMissing, Leave
<1>29. CASE \E f \in Files : Survey(f)
  BY <1>29 DEF Survey
<1>30. CASE \E f \in Files : SurveyStageMissing(f)
  BY <1>30 DEF SurveyStageMissing, Leave
<1>31. CASE \E f \in Files, c \in Versions : Edit(f, c)
  BY <1>31 DEF Edit, Journal
<1>32. CASE UNCHANGED vars
  BY <1>32 DEF vars
<1>33. QED
  BY <1>1, <1>2, <1>3, <1>4, <1>5, <1>6, <1>7, <1>8, <1>9, <1>10, <1>11, <1>12,
     <1>13, <1>14, <1>15, <1>16, <1>17, <1>18, <1>19, <1>20, <1>21, <1>22,
     <1>23, <1>24, <1>25, <1>26, <1>27, <1>28, <1>29, <1>30, <1>31, <1>32 DEF
     Next, Start, SessionStep, FileStep, Environment

\* What an interrupted transaction still has to write is in its stage,
\* whatever crashes, fails or is edited, in every entry point - as long as the
\* journal's directory sync does not fail, no power is lost and no edit
\* restores a version the transaction has already replaced.
THEOREM RollsForward ==
  ASSUME "syncError" \notin Faults, "powerLoss" \notin Faults, "revert" \notin Faults
  PROVE  Spec => []RollForwardPossible
<1>1. TypeOK /\ SessionShape /\ RollForwardPossible /\ DraftStaged /\ [Next]_vars
        => (RollForwardPossible /\ DraftStaged)'
  BY RollStep
<1>2. QED
  BY <1>1, RollInit, Shape, PTL DEF Spec

-----------------------------------------------------------------------------
(* TornHasJournal.                                                         *)

\* No file is half-applied at first.
LEMMA TornInit == Init => TornInv
  BY DEF Init, TornInv, NoJournal

\* Only ApplyChange adds to the files of an unfinished transaction, under a
\* journal that says committing; what gives a journal up finds none.
LEMMA TornStep ==
  ASSUME "lateResolve" \notin Faults,
         TypeOK, SessionShape, TornInv, [Next]_vars
  PROVE  TornInv'
<1> USE DistinctValues DEF TornInv, TypeOK, SessionShape,
         diskVars, locals, history, counters
<1>1. CASE StartCommit
  BY <1>1 DEF StartCommit
<1>2. CASE StartRecover
  BY <1>2 DEF StartRecover
<1>3. CASE StartResolve
  BY <1>3 DEF StartResolve, OpFiles
<1>4. CASE BeginStage
  BY <1>4 DEF BeginStage, Fresh, NewJournal, Journal, NoJournal, NoOp
<1>5. CASE Publish
  BY <1>5 DEF Publish, Journal, OpFiles
<1>6. CASE Load
  BY <1>6 DEF Load, Journal, Phases, OpFiles
<1>7. CASE MarkCommitting
  BY <1>7 DEF MarkCommitting, Journal
<1>8. CASE ApplyChange
  BY <1>8 DEF ApplyChange, Journal, Op
<1>9. CASE ApplyUnlinkFails
  BY <1>9 DEF ApplyUnlinkFails, Leave
<1>10. CASE MarkCommitted
  BY <1>10 DEF MarkCommitted, AfterSync, AllVisited, Journal
<1>11. CASE UnlinkJournal
  BY <1>11 DEF UnlinkJournal, NoJournal, NoOp
<1>12. CASE RemoveStage
  BY <1>12 DEF RemoveStage
<1>13. CASE Return
  BY <1>13 DEF Return, Leave
<1>14. CASE SurveyClean
  BY <1>14 DEF SurveyClean
<1>15. CASE Prepare
  BY <1>15 DEF Prepare, Fresh, NewJournal, Journal, InputFiles, NoJournal, NoOp
<1>16. CASE PublishSyncError
  BY <1>16 DEF PublishSyncError, Leave, Journal
<1>17. CASE Crash
  BY <1>17 DEF Crash, Leave
<1>18. CASE IOError
  BY <1>18 DEF IOError, Leave
<1>19. CASE PowerLoss
  BY <1>19 DEF PowerLoss, Leave
<1>20. CASE \E f \in Files : StageFile(f)
  BY <1>20 DEF StageFile, AfterOf, Journal, Op
<1>21. CASE \E f \in Files : StageConflict(f)
  BY <1>21 DEF StageConflict, Leave
<1>22. CASE \E f \in Files : AssertFile(f)
  BY <1>22 DEF AssertFile, OpFiles
<1>23. CASE \E f \in Files : AbortPrepared(f)
  BY <1>23 DEF AbortPrepared, MayAbort, Acceptable, OpFiles
<1>24. CASE \E f \in Files : AssertConflict(f)
  BY <1>24 DEF AssertConflict, Leave
<1>25. CASE \E f \in Files : ApplySkip(f)
  BY <1>25 DEF ApplySkip
<1>26. CASE \E f \in Files : ApplyCheck(f)
  BY <1>26 DEF ApplyCheck
<1>27. CASE \E f \in Files : ApplyConflict(f)
  BY <1>27 DEF ApplyConflict, Leave
<1>28. CASE \E f \in Files : ApplyStageMissing(f)
  BY <1>28 DEF ApplyStageMissing, Leave
<1>29. CASE \E f \in Files : Survey(f)
  BY <1>29 DEF Survey, OpFiles
<1>30. CASE \E f \in Files : SurveyStageMissing(f)
  BY <1>30 DEF SurveyStageMissing, Leave
<1>31. CASE \E f \in Files, c \in Versions : Edit(f, c)
  BY <1>31 DEF Edit, Journal, Checked, OpFiles
<1>32. CASE UNCHANGED vars
  BY <1>32 DEF vars
<1>33. QED
  BY <1>1, <1>2, <1>3, <1>4, <1>5, <1>6, <1>7, <1>8, <1>9, <1>10, <1>11, <1>12,
     <1>13, <1>14, <1>15, <1>16, <1>17, <1>18, <1>19, <1>20, <1>21, <1>22,
     <1>23, <1>24, <1>25, <1>26, <1>27, <1>28, <1>29, <1>30, <1>31, <1>32 DEF
     Next, Start, SessionStep, FileStep, Environment

\* A half-applied transaction keeps its journal until it is finished, unless
\* an edit hits the transaction of a conflict resolution.
THEOREM TornIsRemembered ==
  ASSUME "lateResolve" \notin Faults
  PROVE  Spec => []TornHasJournal
<1>1. TypeOK /\ SessionShape /\ TornInv /\ [Next]_vars => TornInv'
  BY TornStep
<1>2. TornInv => TornHasJournal
  BY DEF TornInv, TornHasJournal
<1>3. QED
  BY <1>1, <1>2, TornInit, Shape, PTL DEF Spec

-----------------------------------------------------------------------------
(* CommittedIsWhole.                                                       *)

\* No journal says committed at first.
LEMMA AppliedInit == Init => AppliedInv
  BY DEF Init, AppliedInv, CommittedIsWhole, NoJournal

\* The apply loop leaves behind files that are as the journal wants them.
LEMMA AppliedStep ==
  ASSUME TypeOK, SessionShape, AppliedInv, [Next]_vars
  PROVE  AppliedInv'
<1> USE DistinctValues DEF AppliedInv, CommittedIsWhole, OpFiles, TypeOK, SessionShape,
         diskVars, locals, history, counters
<1>1. CASE StartCommit
  BY <1>1 DEF StartCommit
<1>2. CASE StartRecover
  BY <1>2 DEF StartRecover
<1>3. CASE StartResolve
  BY <1>3 DEF StartResolve
<1>4. CASE BeginStage
  BY <1>4 DEF BeginStage, Fresh, NewJournal, Journal, NoJournal, NoOp
<1>5. CASE Publish
  BY <1>5 DEF Publish, Journal
<1>6. CASE Load
  BY <1>6 DEF Load
<1>7. CASE MarkCommitting
  BY <1>7 DEF MarkCommitting, Journal
<1>8. CASE ApplyChange
  BY <1>8 DEF ApplyChange, Journal, Op
<1>9. CASE ApplyUnlinkFails
  BY <1>9 DEF ApplyUnlinkFails, Leave
<1>10. CASE MarkCommitted
  BY <1>10 DEF MarkCommitted, AfterSync, AllVisited, Journal
<1>11. CASE UnlinkJournal
  BY <1>11 DEF UnlinkJournal, NoJournal, NoOp
<1>12. CASE RemoveStage
  BY <1>12 DEF RemoveStage
<1>13. CASE Return
  BY <1>13 DEF Return, Leave
<1>14. CASE SurveyClean
  BY <1>14 DEF SurveyClean
<1>15. CASE Prepare
  BY <1>15 DEF Prepare, Fresh, NewJournal, Journal, InputFiles, NoJournal, NoOp
<1>16. CASE PublishSyncError
  BY <1>16 DEF PublishSyncError, Leave, Journal
<1>17. CASE Crash
  BY <1>17 DEF Crash, Leave
<1>18. CASE IOError
  BY <1>18 DEF IOError, Leave
<1>19. CASE PowerLoss
  BY <1>19 DEF PowerLoss, Leave
<1>20. CASE \E f \in Files : StageFile(f)
  BY <1>20 DEF StageFile
<1>21. CASE \E f \in Files : StageConflict(f)
  BY <1>21 DEF StageConflict, Leave
<1>22. CASE \E f \in Files : AssertFile(f)
  BY <1>22 DEF AssertFile
<1>23. CASE \E f \in Files : AbortPrepared(f)
  BY <1>23 DEF AbortPrepared, MayAbort
<1>24. CASE \E f \in Files : AssertConflict(f)
  BY <1>24 DEF AssertConflict, Leave
<1>25. CASE \E f \in Files : ApplySkip(f)
  BY <1>25 DEF ApplySkip
<1>26. CASE \E f \in Files : ApplyCheck(f)
  BY <1>26 DEF ApplyCheck
<1>27. CASE \E f \in Files : ApplyConflict(f)
  BY <1>27 DEF ApplyConflict, Leave
<1>28. CASE \E f \in Files : ApplyStageMissing(f)
  BY <1>28 DEF ApplyStageMissing, Leave
<1>29. CASE \E f \in Files : Survey(f)
  BY <1>29 DEF Survey
<1>30. CASE \E f \in Files : SurveyStageMissing(f)
  BY <1>30 DEF SurveyStageMissing, Leave
<1>31. CASE \E f \in Files, c \in Versions : Edit(f, c)
  BY <1>31 DEF Edit, Journal
<1>32. CASE UNCHANGED vars
  BY <1>32 DEF vars
<1>33. QED
  BY <1>1, <1>2, <1>3, <1>4, <1>5, <1>6, <1>7, <1>8, <1>9, <1>10, <1>11, <1>12,
     <1>13, <1>14, <1>15, <1>16, <1>17, <1>18, <1>19, <1>20, <1>21, <1>22,
     <1>23, <1>24, <1>25, <1>26, <1>27, <1>28, <1>29, <1>30, <1>31, <1>32 DEF
     Next, Start, SessionStep, FileStep, Environment

\* A journal that says committed tells the truth about every file that nobody
\* else edited, whatever goes wrong.
THEOREM CommittedIsTrue == Spec => []CommittedIsWhole
<1>1. TypeOK /\ SessionShape /\ AppliedInv /\ [Next]_vars => AppliedInv'
  BY AppliedStep
<1>2. AppliedInv => CommittedIsWhole
  BY DEF AppliedInv
<1>3. QED
  BY <1>1, <1>2, AppliedInit, Shape, PTL DEF Spec

-----------------------------------------------------------------------------
(* EditsSurvive.                                                           *)

\* Nothing is expected of any file at first.
LEMMA ExpectedInit == Init => ExpectedInv
  BY DEF Init, ExpectedInv, NoJournal, NoOp, Expects

\* What is staged, published and about to be changed was compared with the
\* expected version.
LEMMA ExpectedStep ==
  ASSUME "race" \notin Faults,
         TypeOK, SessionShape, ExpectedInv, [Next]_vars
  PROVE  ExpectedInv'
<1> USE DistinctValues DEF ExpectedInv, Expects, TypeOK, SessionShape,
         diskVars, locals, history, counters
<1>1. CASE StartCommit
  BY <1>1 DEF StartCommit
<1>2. CASE StartRecover
  BY <1>2 DEF StartRecover
<1>3. CASE StartResolve
  BY <1>3 DEF StartResolve
<1>4. CASE BeginStage
  BY <1>4 DEF BeginStage, Fresh, NewJournal, Journal, NoJournal, NoOp
<1>5. CASE Publish
  BY <1>5 DEF Publish, Journal
<1>6. CASE Load
  BY <1>6 DEF Load
<1>7. CASE MarkCommitting
  BY <1>7 DEF MarkCommitting, Journal, OpFiles
<1>8. CASE ApplyChange
  BY <1>8 DEF ApplyChange, Journal, Op
<1>9. CASE ApplyUnlinkFails
  BY <1>9 DEF ApplyUnlinkFails, Leave
<1>10. CASE MarkCommitted
  BY <1>10 DEF MarkCommitted, AfterSync, AllVisited, Journal
<1>11. CASE UnlinkJournal
  BY <1>11 DEF UnlinkJournal, NoJournal, NoOp
<1>12. CASE RemoveStage
  BY <1>12 DEF RemoveStage
<1>13. CASE Return
  BY <1>13 DEF Return, Leave
<1>14. CASE SurveyClean
  BY <1>14 DEF SurveyClean
<1>15. CASE Prepare
  BY <1>15 DEF Prepare, Fresh, NewJournal, Journal, InputFiles, NoJournal, NoOp
<1>16. CASE PublishSyncError
  BY <1>16 DEF PublishSyncError, Leave, Journal
<1>17. CASE Crash
  BY <1>17 DEF Crash, Leave
<1>18. CASE IOError
  BY <1>18 DEF IOError, Leave
<1>19. CASE PowerLoss
  BY <1>19 DEF PowerLoss, Leave
<1>20. CASE \E f \in Files : StageFile(f)
  BY <1>20 DEF StageFile, Journal, Op
<1>21. CASE \E f \in Files : StageConflict(f)
  BY <1>21 DEF StageConflict, Leave
<1>22. CASE \E f \in Files : AssertFile(f)
  BY <1>22 DEF AssertFile
<1>23. CASE \E f \in Files : AbortPrepared(f)
  BY <1>23 DEF AbortPrepared, MayAbort
<1>24. CASE \E f \in Files : AssertConflict(f)
  BY <1>24 DEF AssertConflict, Leave
<1>25. CASE \E f \in Files : ApplySkip(f)
  BY <1>25 DEF ApplySkip
<1>26. CASE \E f \in Files : ApplyCheck(f)
  BY <1>26 DEF ApplyCheck, OpFiles, Untouched
<1>27. CASE \E f \in Files : ApplyConflict(f)
  BY <1>27 DEF ApplyConflict, Leave
<1>28. CASE \E f \in Files : ApplyStageMissing(f)
  BY <1>28 DEF ApplyStageMissing, Leave
<1>29. CASE \E f \in Files : Survey(f)
  BY <1>29 DEF Survey
<1>30. CASE \E f \in Files : SurveyStageMissing(f)
  BY <1>30 DEF SurveyStageMissing, Leave
<1>31. CASE \E f \in Files, c \in Versions : Edit(f, c)
  BY <1>31 DEF Edit, Journal
<1>32. CASE UNCHANGED vars
  BY <1>32 DEF vars
<1>33. QED
  BY <1>1, <1>2, <1>3, <1>4, <1>5, <1>6, <1>7, <1>8, <1>9, <1>10, <1>11, <1>12,
     <1>13, <1>14, <1>15, <1>16, <1>17, <1>18, <1>19, <1>20, <1>21, <1>22,
     <1>23, <1>24, <1>25, <1>26, <1>27, <1>28, <1>29, <1>30, <1>31, <1>32 DEF
     Next, Start, SessionStep, FileStep, Environment

\* Of all steps only ApplyChange changes a file without being an edit
\* or the power loss that takes such a change back.
LEMMA OnlyApplyChanges ==
  ASSUME TypeOK, SessionShape, ExpectedInv, [Next]_vars,
         NEW f \in Files, disk'[f] # disk[f], counters' = counters
  PROVE  /\ disk[f] = journal.ops[f].before
         /\ Expects(agreed[f], disk[f])
<1> USE DEF diskVars, locals, history, counters
<1>1. CASE ApplyChange
  <2>1. pc = "change" /\ target \in Files /\ f = target
    BY <1>1 DEF ApplyChange, TypeOK
  <2>2. draft = journal /\ journal.ops[f].action # "none"
    BY <2>1 DEF SessionShape, OpFiles, TypeOK
  <2>3. QED
    BY <2>1, <2>2 DEF ExpectedInv
<1>2. ASSUME NEW g \in Files, NEW c \in Versions, Edit(g, c) PROVE FALSE
  <2>1. edits' = edits + 1 /\ edits' = edits /\ edits \in Nat
    BY <1>2 DEF Edit, TypeOK
  <2>2. QED
    BY <2>1
<1>3. ASSUME PowerLoss PROVE FALSE
  <2>1. faults' = faults + 1 /\ faults' = faults /\ faults \in Nat
    BY <1>3 DEF PowerLoss, TypeOK
  <2>2. QED
    BY <2>1
<1>4. CASE disk' = disk
  BY <1>4
<1>5. QED
  BY <1>1, <1>2, <1>3, <1>4, Zenon DEF Next, Start, SessionStep, FileStep, Environment, vars,
    StartCommit, StartRecover, StartResolve, BeginStage, Publish, Load,
    MarkCommitting, ApplyUnlinkFails, MarkCommitted, UnlinkJournal, RemoveStage,
    Return, SurveyClean, Prepare, PublishSyncError, Crash, IOError,
    StageFile, StageConflict, AssertFile, AbortPrepared, AssertConflict, ApplySkip,
    ApplyCheck, ApplyConflict, ApplyStageMissing, Survey, SurveyStageMissing

\* A transaction replaces a file only in the version its caller expected and
\* its journal names, unless an edit hits the file in the instant between the
\* comparison and the replacement.
THEOREM EditsAreKept ==
  ASSUME "race" \notin Faults
  PROVE  Spec => EditsSurvive
<1>1. TypeOK /\ SessionShape /\ ExpectedInv /\ [Next]_vars => ExpectedInv'
  BY ExpectedStep
<1>2. TypeOK /\ SessionShape /\ ExpectedInv /\ [Next]_vars =>
        \A f \in Files : disk'[f] # disk[f] /\ counters' = counters =>
          /\ disk[f] = journal.ops[f].before
          /\ Expects(agreed[f], disk[f])
  BY OnlyApplyChanges
<1>3. QED
  BY <1>1, <1>2, ExpectedInit, Shape, PTL DEF Spec, EditsSurvive
=============================================================================
