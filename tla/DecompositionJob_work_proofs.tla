---------------------- MODULE DecompositionJob_work_proofs ----------------------
(***************************************************************************)
(* A job can always go on: wherever it was stopped, sent back to or found  *)
(* after a crash, a stage with something left has a unit that can be       *)
(* handed out, unless one waits for the user or a review has sent back a   *)
(* unit of a dependency.                                                   *)
(*                                                                         *)
(* Among what is left in a stage one unit depends on nothing that is left; *)
(* it can be handed out if                                                 *)
(*   - it has attempts left: units run out of attempts only by failing     *)
(*     (TriesInv);                                                         *)
(*   - it is no reading, as readings are only handed out with their chunk: *)
(*     a chunk whose readings are not all read is itself left (ReadInv).   *)
(*     This holds because going back to a reading takes its chunk along,   *)
(*     with a revision that nothing is recorded for.                       *)
(***************************************************************************)
EXTENDS DecompositionJob_stage_proofs

\* A unit that waits or is worked on.
Trying == {"pending", "running", "writing"}

\* A unit that is worked off, though the user may have to look at it.
Closed == {"done", "skipped", "conflict"}

Submission == {"record", "write", "finish"}

\* Who has used up the attempts has failed, and who has failed is in no attempt.
TriesInv ==
    /\ \A u \in Units \ Readings : unitStatus[u] \in Trying => attempts[u] < MaxAttempts
    /\ \A u \in Units : unitStatus[u] = "failed" => attemptOf[u] = 0
    /\ op \in Submission => unitStatus[at] = "writing"

\* A chunk that is closed or recorded, or whose submission has been accepted.
Taken(c) ==
    \/ unitStatus[c] \in Closed
    \/ Recorded(c)
    \/ op \in Submission /\ at = c

ReadInv == \A c \in Chunks : Taken(c) => \A d \in DependsOn[c] : unitStatus[d] \in Closed

WorkInv == TriesInv /\ ReadInv

-----------------------------------------------------------------------------
(* The plan.                                                               *)

\* Readings are units that have no entries and depend on no reading; chunks have no
\* entries either, and depend on their readings only.
LEMMA Plan ==
    /\ \A c \in Chunks : c \in Units /\ c \notin Readings /\ RecordOnly(c) /\ c # Merge
    /\ \A c \in Chunks : \A d \in DependsOn[c] : d \in Units /\ d \in Readings /\ d \notin Chunks
    /\ \A d \in Readings : d \in Units /\ RecordOnly(d) /\ StageOf[d] = "read"
                           /\ DependsOn[d] \cap Readings = {}
    /\ \A c \in Chunks : StageOf[c] = "read"
    /\ 0 < MaxAttempts /\ MaxAttempts \in Nat
<1>1. \A c \in Chunks : c \in Units /\ c \notin Readings /\ RecordOnly(c) /\ StageOf[c] = "read" /\ c # Merge
    BY JobAssumption DEF RecordOnly
<1>2. \A c \in Chunks : \A d \in DependsOn[c] : d \in Units /\ d \in Readings /\ d \notin Chunks
    BY <1>1, JobAssumption DEF Readings
<1>3. ASSUME NEW d \in Readings
      PROVE  d \in Units /\ RecordOnly(d) /\ StageOf[d] = "read" /\ DependsOn[d] \cap Readings = {}
    <2>1. d \in Units /\ d \notin Chunks
        BY <1>2 DEF Readings
    <2> QED BY <2>1, JobAssumption DEF RecordOnly
<1>4. 0 < MaxAttempts /\ MaxAttempts \in Nat
    BY JobAssumption
<1> QED BY <1>1, <1>2, <1>3, <1>4

-----------------------------------------------------------------------------
(* Attempts.                                                               *)

\* A step keeps TriesInv when units go on trying with attempts left.
LEMMA TriesKeep ==
    ASSUME TriesInv,
           \A u \in Units \ Readings : unitStatus'[u] \in Trying =>
               \/ attempts'[u] = 0
               \/ attempts'[u] < MaxAttempts
               \/ attempts'[u] = attempts[u] /\ unitStatus[u] \in Trying,
           \A u \in Units : unitStatus'[u] = "failed" =>
               \/ attemptOf'[u] = 0
               \/ attemptOf'[u] = attemptOf[u] /\ unitStatus[u] = "failed",
           op' \in Submission =>
               op \in Submission /\ at' = at /\ unitStatus'[at] = unitStatus[at]
    PROVE  TriesInv'
BY Plan DEF TriesInv

\* Steps that change no unit's status and no attempt.
LEMMA SameTries ==
    ASSUME TypeInv, TriesInv,
           \/ SaveRecord \/ WriteEntry \/ MergeRecord \/ KeepEntry
           \/ EditRegistry \/ EditRecord \/ Edited \/ Interrupt \/ GoOn
           \/ \E u \in Units : Keep(u, "return") \/ Keep(u, "resume")
           \/ \E p \in Places : EditEntry(p)
    PROVE  TriesInv'
<1>1. UNCHANGED <<unitStatus, attempts, attemptOf>>
    BY DEF SaveRecord, WriteEntry, MergeRecord, KeepEntry, EditRegistry, EditRecord, Edited, Interrupt,
           GoOn, Keep, EditEntry, unitVars
<1>2. op' \in Submission => op \in Submission /\ at' = at
    BY DEF SaveRecord, WriteEntry, MergeRecord, KeepEntry, EditRegistry, EditRecord, Edited, Interrupt,
           GoOn, Keep, EditEntry, NextPlace, Begin, Return, Submission, opVars
<1> QED BY <1>1, <1>2, TriesKeep

\* Recovery sets a unit done or in conflict, or leaves it.
LEMMA RecoveredIs ==
    ASSUME NEW state, NEW u \in Units
    PROVE  /\ Recovered(state)[u] \in {"done", "conflict", state[u]}
           /\ state[u] = "done" => Recovered(state)[u] \in {"done", "conflict"}
           /\ RecordOnly(u) /\ Recovered(state)[u] \in Closed => state[u] \in Closed \/ Recorded(u)
BY DEF Recovered, Closed, Saved, Recorded

\* Get keeps TriesInv.
LEMMA GetTries ==
    ASSUME TypeInv, TriesInv, NEW flag \in BOOLEAN, Get(flag)
    PROVE  TriesInv'
<1>1. UNCHANGED <<attempts, op>> /\ op = "none"
    BY DEF Get, Idle, opVars
<1>2. ASSUME NEW u \in Units
      PROVE  /\ unitStatus'[u] \in Trying => unitStatus[u] \in Trying
             /\ unitStatus'[u] = "failed" =>
                    attemptOf'[u] \in {0, attemptOf[u]} /\ unitStatus[u] = "failed"
    <2>1. unitStatus'[u] \in {Recovered(unitStatus)[u], Released(Recovered(unitStatus))[u]}
        BY DEF Get
    <2>2. attemptOf'[u] \in {0, attemptOf[u]}
        BY DEF Get, ReleasedFrom, TypeInv, TypeOK
    <2> QED BY <2>1, <2>2, RecoveredIs DEF Released, InFlight, Trying
<1> QED BY <1>1, <1>2, TriesKeep DEF Submission

\* What is handed out, but for readings, has attempts left.
LEMMA OpenTries ==
    ASSUME TypeInv, TriesInv, NEW S \in SUBSET Units, Open(S)
    PROVE  TriesInv'
<1>1. UNCHANGED <<attempts, op>> /\ op = "none"
    BY DEF Open, Idle, opVars
<1>2. ASSUME NEW u \in Units \ Readings, unitStatus'[u] \in Trying
      PROVE  attempts[u] < MaxAttempts \/ unitStatus[u] \in Trying
    <2>1. CASE u \in S
        BY <2>1 DEF Open, ReadyIn
    <2>2. CASE u \notin S
        <3>1. unitStatus'[u] = Recovered(unitStatus)[u]
            BY <2>2 DEF Open, Readings
        <3> QED BY <1>2, <3>1, RecoveredIs DEF Trying
    <2> QED BY <2>1, <2>2
<1>3. ASSUME NEW u \in Units, unitStatus'[u] = "failed"
      PROVE  attemptOf'[u] = attemptOf[u] /\ unitStatus[u] = "failed"
    <2>1. /\ attemptOf'[u] = attemptOf[u]
          /\ unitStatus'[u] = Recovered(unitStatus)[u]
        BY <1>3 DEF Open
    <2> QED BY <1>3, <2>1, RecoveredIs
<1> QED BY <1>1, <1>2, <1>3, TriesKeep DEF Submission

\* A unit of the attempt that runs has not failed.
LEMMA SubmitTries ==
    ASSUME TypeInv, TriesInv, NEW u \in Units, Submit(u)
    PROVE  TriesInv'
<1>1. /\ UNCHANGED <<attempts, attemptOf>>
      /\ unitStatus' = [unitStatus EXCEPT ![u] = "writing"] /\ at' = u
    BY DEF Submit, Begin
<1>2. unitStatus[u] \in Trying
    BY DEF Submit, TriesInv, Trying, TypeInv, TypeOK, UnitStatuses
<1>3. unitStatus'[u] = "writing"
    BY <1>1 DEF TypeInv, TypeOK
<1>4. \A w \in Units : w # u => unitStatus'[w] = unitStatus[w]
    BY <1>1 DEF TypeInv, TypeOK
<1> QED BY <1>1, <1>2, <1>3, <1>4 DEF TriesInv, Trying

\* Steps that end an operation on one unit.
LEMMA AtTries ==
    ASSUME TypeInv, TriesInv, DoneInv, MeetConflict \/ SubmitFails \/ MergeDone \/ Kept
    PROVE  TriesInv'
<1>1. /\ UNCHANGED attempts /\ op' \notin Submission
      /\ \A w \in Units : attemptOf'[w] \in {0, attemptOf[w]}
    BY DEF MeetConflict, SubmitFails, MergeDone, Kept, ThenMerge, Return, Begin, Submission,
           TypeInv, TypeOK
<1>2. at \in Units /\ \A w \in Units : w # at => unitStatus'[w] = unitStatus[w]
    BY DEF MeetConflict, SubmitFails, MergeDone, Kept, KeptStatus, TypeInv, TypeOK, OpType,
           DoneInv, Progress
<1>3. \/ unitStatus'[at] \in {"done", "conflict"}
      \/ unitStatus'[at] = "running" /\ unitStatus[at] \in Trying
    <2>1. CASE SubmitFails
        <3>1. unitStatus[at] = "writing" /\ unitStatus'[at] = "running"
            BY <1>2, <2>1 DEF SubmitFails, TriesInv, Submission, TypeInv, TypeOK
        <3> QED BY <3>1 DEF Trying
    <2>2. CASE MeetConflict \/ MergeDone \/ Kept
        BY <1>2, <2>2 DEF MeetConflict, MergeDone, Kept, KeptStatus, TypeInv, TypeOK, DoneInv, Progress
    <2> QED BY <2>1, <2>2
<1>4. ASSUME NEW w \in Units
      PROVE  /\ unitStatus'[w] \in Trying => unitStatus[w] \in Trying
             /\ unitStatus'[w] = "failed" =>
                    attemptOf'[w] \in {0, attemptOf[w]} /\ unitStatus[w] = "failed"
    BY <1>1, <1>2, <1>3 DEF Trying
<1> QED BY <1>1, <1>4, TriesKeep

\* What a review sends back starts again; a submission that could not be saved is open.
LEMMA EndSubmitTries ==
    ASSUME TypeInv, TriesInv, op = "finish", NEW result \in {"done", "running"}, NEW repairs,
           EndSubmit(result, repairs)
    PROVE  TriesInv'
<1>1. /\ attempts' = [u \in Units |-> IF u \in repairs THEN 0 ELSE attempts[u]]
      /\ attemptOf' = [u \in Units |-> IF u \in repairs THEN 0 ELSE attemptOf[u]]
      /\ unitStatus' = [u \in Units |-> IF u \in repairs THEN "pending"
                                        ELSE IF u = at THEN result ELSE unitStatus[u]]
      /\ op' \notin Submission
    BY DEF EndSubmit, ThenMerge, Return, Begin, Submission
<1>2. unitStatus[at] \in Trying
    BY DEF TriesInv, Submission, Trying
<1>3. \A u \in Units : unitStatus'[u] \in Trying =>
          \/ attempts'[u] = 0
          \/ attempts'[u] = attempts[u] /\ unitStatus[u] \in Trying
    BY <1>1, <1>2 DEF Trying
<1>4. \A u \in Units : unitStatus'[u] = "failed" =>
          attemptOf'[u] \in {0, attemptOf[u]} /\ unitStatus[u] = "failed"
    BY <1>1
<1> QED BY <1>1, <1>3, <1>4, TriesKeep

\* What has used up its attempts has failed.
LEMMA FinishPackageTries ==
    ASSUME TypeInv, TriesInv, NEW q \in BOOLEAN, FinishPackage(q)
    PROVE  TriesInv'
<1> DEFINE left == PackageUnits(active)
           tried == [u \in Units |-> IF u \in left /\ ~q THEN attempts[u] + 1 ELSE attempts[u]]
<1>1. /\ attempts' = tried
      /\ unitStatus' = [u \in Units |->
            IF u \in left THEN IF ~q /\ tried[u] >= MaxAttempts THEN "failed" ELSE "pending"
            ELSE unitStatus[u]]
      /\ attemptOf' = [u \in Units |-> IF u \in left THEN 0 ELSE attemptOf[u]]
      /\ op' \notin Submission
    BY DEF FinishPackage, ThenMerge, Return, Begin, Submission
<1>2. \A u \in left : unitStatus[u] \in Trying
    BY DEF PackageUnits, InFlight, Trying
<1>3. \A u \in Units : attempts[u] \in Nat /\ attempts[u] + 1 \in Nat
    BY DEF TypeInv, TypeOK
<1> HIDE DEF left
<1>4. ASSUME NEW u \in Units \ Readings, unitStatus'[u] \in Trying
      PROVE  \/ attempts'[u] < MaxAttempts
             \/ attempts'[u] = attempts[u] /\ unitStatus[u] \in Trying
    <2>1. CASE u \in left /\ ~q
        <3>1. attempts'[u] = attempts[u] + 1 /\ ~(attempts[u] + 1 >= MaxAttempts)
            BY <1>1, <1>4, <2>1 DEF Trying
        <3> QED BY <1>3, <3>1, Plan
    <2>2. CASE ~(u \in left /\ ~q)
        BY <1>1, <1>2, <1>4, <2>2
    <2> QED BY <2>1, <2>2
<1>5. \A u \in Units : unitStatus'[u] = "failed" =>
          attemptOf'[u] = 0 \/ (attemptOf'[u] = attemptOf[u] /\ unitStatus[u] = "failed")
    BY <1>1
<1> HIDE DEF tried
<1> QED BY <1>1, <1>4, <1>5, TriesKeep

\* Stopping releases what is in flight, and skipping closes what it skips.
LEMMA StopTries ==
    ASSUME TypeInv, TriesInv, Stop \/ \E c \in Units : Skip(c)
    PROVE  TriesInv'
<1>1. /\ UNCHANGED attempts /\ op' \notin Submission
      /\ \A w \in Units : attemptOf'[w] \in {0, attemptOf[w]}
    BY DEF Stop, Skip, ReleasedFrom, ThenMerge, Return, Begin, Submission
<1>2. ASSUME NEW w \in Units
      PROVE  unitStatus'[w] \in {unitStatus[w], "skipped"} \/ (unitStatus'[w] = "pending" /\ unitStatus[w] \in Trying)
    BY DEF Stop, Skip, Released, InFlight, Trying
<1>3. \A w \in Units : /\ unitStatus'[w] \in Trying => unitStatus[w] \in Trying
                       /\ unitStatus'[w] = "failed" => unitStatus[w] = "failed"
    BY <1>2 DEF Trying
<1> QED BY <1>1, <1>3, TriesKeep

\* What goes back starts again.
LEMMA BackTries ==
    ASSUME TypeInv, TriesInv, NEW u \in Units, Retry(u) \/ Regenerate(u)
    PROVE  TriesInv'
<1>1. Requeue(u) /\ op' \notin Submission
    BY DEF Retry, Regenerate, ThenMerge, Return, Begin, Submission
<1>2. ASSUME NEW w \in Units
      PROVE  /\ unitStatus'[w] \in Trying =>
                    attempts'[w] = 0 \/ (attempts'[w] = attempts[w] /\ unitStatus[w] \in Trying)
             /\ unitStatus'[w] = "failed" => attemptOf'[w] = attemptOf[w] /\ unitStatus[w] = "failed"
    BY <1>1 DEF Requeue
<1> QED BY <1>1, <1>2, TriesKeep

\* What has failed in the stage starts again when the job is resumed.
LEMMA ResumedTries ==
    ASSUME TypeInv, TriesInv, NEW state, NEW ref, NEW halts \in BOOLEAN,
           \A u \in Units : state[u] = unitStatus[u] \/ state[u] = "done",
           Resumed(state, ref, halts)
    PROVE  TriesInv'
<1> DEFINE found == Recovered(state)
           fresh == {u \in Units : stage[u] = phase /\ found[u] = "failed"}
<1>1. /\ unitStatus' = [u \in Units |-> IF u \in fresh THEN "pending"
                                        ELSE IF halts THEN Released(found)[u] ELSE found[u]]
      /\ attempts' = [u \in Units |-> IF u \in fresh THEN 0 ELSE attempts[u]]
      /\ op' \notin Submission
    BY DEF Resumed, ThenMerge, Return, Begin, Submission
<1>2. \A u \in Units : attemptOf'[u] \in {0, attemptOf[u]}
    BY DEF Resumed
<1>3. \A u \in Units : found[u] \in {"done", "conflict", unitStatus[u]}
    BY RecoveredIs
<1> HIDE DEF found, fresh
<1>4. ASSUME NEW u \in Units
      PROVE  /\ unitStatus'[u] \in Trying =>
                    attempts'[u] = 0 \/ (attempts'[u] = attempts[u] /\ unitStatus[u] \in Trying)
             /\ unitStatus'[u] = "failed" => unitStatus[u] = "failed"
    BY <1>1, <1>3 DEF Released, InFlight, Trying
<1> QED BY <1>1, <1>2, <1>4, TriesKeep

-----------------------------------------------------------------------------
(* Readings and their chunks.                                              *)

\* A step keeps ReadInv when the readings of a chunk stay closed or become so.
LEMMA ReadKeeps ==
    ASSUME ReadInv,
           \A c \in Chunks : Taken(c)' =>
               \/ Taken(c) /\ \A d \in DependsOn[c] : unitStatus[d] \in Closed => unitStatus'[d] \in Closed
               \/ \A d \in DependsOn[c] : unitStatus'[d] \in Closed
    PROVE  ReadInv'
BY DEF ReadInv

\* Steps that record no chunk, accept no submission of one, and reopen nothing.
LEMMA QuietRead ==
    ASSUME TypeInv, ReadInv,
           \A c \in Chunks : Recorded(c)' => Taken(c),
           \A c \in Chunks : unitStatus'[c] \in Closed => Taken(c),
           op' \in Submission => op \in Submission /\ at' = at,
           \A d \in Readings : unitStatus[d] \in Closed => unitStatus'[d] \in Closed
    PROVE  ReadInv'
<1>1. \A c \in Chunks : Taken(c)' => Taken(c)
    BY DEF Taken
<1>2. \A c \in Chunks : \A d \in DependsOn[c] : d \in Readings
    BY Plan
<1> QED BY <1>1, <1>2, ReadKeeps

\* A unit is recorded while its revision and the records stay.
LEMMA StaysRecorded ==
    ASSUME NEW u, revision'[u] = revision[u], UNCHANGED records
    PROVE  Recorded(u)' <=> Recorded(u)
BY DEF Recorded, RecordId, Cut

\* What is recorded stays so, and no more.
LEMMA SameRecorded ==
    ASSUME UNCHANGED <<revision, records>>
    PROVE  \A u \in Units : Recorded(u)' <=> Recorded(u)
BY StaysRecorded

\* Steps that change no status and record no chunk.
LEMMA SameRead ==
    ASSUME TypeInv, DoneInv, ReadInv,
           \/ SaveRecord \/ WriteEntry \/ MergeRecord \/ KeepEntry
           \/ EditRecord \/ Edited \/ Interrupt \/ GoOn
           \/ \E p \in Places : EditEntry(p)
    PROVE  ReadInv'
<1>1. UNCHANGED <<unitStatus, revision>>
    BY DEF SaveRecord, WriteEntry, MergeRecord, KeepEntry, EditRecord, Edited, Interrupt,
           GoOn, EditEntry, unitVars
<1>2. op' \in Submission => op \in Submission /\ at' = at
    BY DEF SaveRecord, WriteEntry, MergeRecord, KeepEntry, EditRecord, Edited, Interrupt,
           GoOn, EditEntry, NextPlace, Begin, Return, Submission, opVars
<1>3. \/ records' = records
      \/ op = "record" /\ records' = records \cup {<<at, RecordId(revision[at])>>}
      \/ records' = records \cup {<<Merge, RecordId(revision[Merge])>>}
    BY DEF SaveRecord, WriteEntry, MergeRecord, KeepEntry, EditRecord, Edited, Interrupt,
           GoOn, EditEntry
<1>4. ASSUME NEW c \in Chunks, Recorded(c)'
      PROVE  Taken(c)
    <2>1. <<c, RecordId(revision[c])>> \in records'
        BY <1>1, <1>4 DEF Recorded, RecordId, Cut
    <2>2. c # Merge
        BY Plan
    <2>3. <<c, RecordId(revision[c])>> \in records \/ (op = "record" /\ c = at)
        BY <1>3, <2>1, <2>2
    <2> QED BY <2>3 DEF Taken, Recorded, Submission
<1> QED BY <1>1, <1>2, <1>4, QuietRead DEF Taken

\* A choice is made on a unit with entries, and the registry is no chunk.
LEMMA ChoiceRead ==
    ASSUME TypeInv, DoneInv, ReadInv,
           EditRegistry \/ \E u \in Units : Keep(u, "return") \/ Keep(u, "resume")
    PROVE  ReadInv'
<1>1. UNCHANGED <<unitStatus, records>> /\ op' \notin Submission
    BY DEF EditRegistry, Keep, Begin, Submission
<1>2. ASSUME NEW c \in Chunks
      PROVE  revision'[c] = revision[c]
    <2>1. c \in Units /\ RecordOnly(c) /\ c # Merge
        BY Plan
    <2>2. unitStatus[c] # "conflict"
        BY <2>1 DEF DoneInv, Settled
    <2> QED BY <2>1, <2>2 DEF EditRegistry, Keep, TypeInv, TypeOK
<1>3. \A c \in Chunks : Recorded(c)' => Recorded(c)
    BY <1>1, <1>2, StaysRecorded
<1> QED BY <1>1, <1>3, QuietRead DEF Taken

\* Get keeps ReadInv.
LEMMA GetRead ==
    ASSUME TypeInv, ReadInv, NEW flag \in BOOLEAN, Get(flag)
    PROVE  ReadInv'
<1>1. UNCHANGED <<revision, records>> /\ op' \notin Submission
    BY DEF Get, Idle, opVars, Submission
<1>2. ASSUME NEW u \in Units
      PROVE  /\ unitStatus[u] \in Closed => unitStatus'[u] \in Closed
             /\ RecordOnly(u) /\ unitStatus'[u] \in Closed => unitStatus[u] \in Closed \/ Recorded(u)
    <2>1. unitStatus'[u] \in {Recovered(unitStatus)[u], Released(Recovered(unitStatus))[u]}
        BY DEF Get
    <2>2. Recovered(unitStatus)[u] \in Closed => Released(Recovered(unitStatus))[u] = Recovered(unitStatus)[u]
        BY DEF Released, InFlight, Closed
    <2>3. Released(Recovered(unitStatus))[u] \in Closed => Recovered(unitStatus)[u] \in Closed
        BY DEF Released, Closed
    <2>4. unitStatus[u] \in Closed => Recovered(unitStatus)[u] \in Closed
        BY RecoveredIs DEF Closed
    <2> QED BY <2>1, <2>2, <2>3, <2>4, RecoveredIs
<1>3. \A c \in Chunks : c \in Units /\ RecordOnly(c)
    BY Plan
<1>4. \A d \in Readings : d \in Units
    BY Plan
<1> QED BY <1>1, <1>2, <1>3, <1>4, SameRecorded, QuietRead DEF Taken

\* A reading is handed out with its chunk, for which nothing is recorded then.
LEMMA OpenRead ==
    ASSUME TypeInv, ReadInv, NEW S \in SUBSET Units, Open(S)
    PROVE  ReadInv'
<1> DEFINE state == Recovered(unitStatus)
           claimed == {u \in S \cup UNION {DependsOn[c] : c \in S \cap Chunks} : state[u] # "done"}
<1>1. /\ UNCHANGED <<revision, records>> /\ op' \notin Submission
      /\ unitStatus' = [u \in Units |-> IF u \in claimed THEN "running" ELSE state[u]]
      /\ S \subseteq ReadyIn(state)
    BY DEF Open, Idle, opVars, Submission
<1>2. ASSUME NEW c \in Chunks, Taken(c)'
      PROVE  Taken(c) /\ \A d \in DependsOn[c] : unitStatus[d] \in Closed => unitStatus'[d] \in Closed
    <2>1. c \in Units /\ RecordOnly(c)
        BY Plan
    <2>2. c \notin S
        <3>1. ASSUME c \in S
              PROVE  FALSE
            <4>1. state[c] = "pending"
                BY <1>1, <3>1 DEF ReadyIn
            <4>2. ~Recorded(c)
                BY <2>1, <4>1 DEF Recovered, Saved, Recorded
            <4>3. c \in claimed
                BY <3>1, <4>1
            <4>4. unitStatus'[c] = "running"
                BY <1>1, <2>1, <4>3
            <4> QED BY <1>1, <1>2, <2>1, <4>2, <4>4, SameRecorded DEF Taken, Closed
        <3> QED BY <3>1
    <2>3. c \notin claimed
        BY <2>2, Plan
    <2>4. Taken(c)
        <3>1. unitStatus'[c] = state[c]
            BY <1>1, <2>1, <2>3
        <3> QED BY <1>1, <1>2, <2>1, <3>1, RecoveredIs, SameRecorded DEF Taken
    <2>5. ASSUME NEW d \in DependsOn[c], unitStatus[d] \in Closed
          PROVE  unitStatus'[d] \in Closed
        <3>1. d \in Units /\ d \notin S
            BY <1>1, Plan DEF ReadyIn
        <3>2. \A b \in S \cap Chunks : d \notin DependsOn[b]
            BY <2>2, JobAssumption
        <3>3. unitStatus'[d] = state[d]
            BY <1>1, <3>1, <3>2
        <3> QED BY <2>5, <3>1, <3>3, RecoveredIs DEF Closed
    <2> QED BY <2>4, <2>5
<1> QED BY <1>2, ReadKeeps

\* A chunk is submitted when its readings are done.
LEMMA SubmitRead ==
    ASSUME TypeInv, ReadInv, NEW u \in Units, Submit(u)
    PROVE  ReadInv'
<1>1. /\ UNCHANGED <<revision, records>> /\ at' = u
      /\ unitStatus' = [unitStatus EXCEPT ![u] = "writing"]
      /\ unitStatus[u] \notin Closed
      /\ u \in Chunks => \A d \in DependsOn[u] : unitStatus[d] = "done"
    BY DEF Submit, Begin, Closed
<1>2. \A w \in Units : unitStatus[w] \in Closed => unitStatus'[w] \in Closed
    BY <1>1 DEF TypeInv, TypeOK
<1>3. ASSUME NEW c \in Chunks, Taken(c)'
      PROVE  \/ Taken(c) /\ \A d \in DependsOn[c] : unitStatus[d] \in Closed => unitStatus'[d] \in Closed
             \/ \A d \in DependsOn[c] : unitStatus'[d] \in Closed
    <2>1. c \in Units /\ \A d \in DependsOn[c] : d \in Units
        BY Plan
    <2>2. CASE c = u
        BY <1>1, <1>2, <2>1, <2>2 DEF Closed
    <2>3. CASE c # u
        <3>1. unitStatus'[c] = unitStatus[c]
            BY <1>1, <2>1, <2>3 DEF TypeInv, TypeOK
        <3>2. Taken(c)
            BY <1>1, <1>3, <2>1, <2>3, <3>1, SameRecorded DEF Taken
        <3> QED BY <1>2, <2>1, <3>2
    <2> QED BY <2>2, <2>3
<1> QED BY <1>3, ReadKeeps

\* Steps that end an operation on one unit.
LEMMA AtRead ==
    ASSUME TypeInv, DoneInv, ReadInv, MeetConflict \/ SubmitFails \/ MergeDone \/ Kept,
           op \in Submission => unitStatus[at] = "writing"
    PROVE  ReadInv'
<1>1. UNCHANGED <<revision, records>> /\ op' \notin Submission
    BY DEF MeetConflict, SubmitFails, MergeDone, Kept, ThenMerge, Return, Begin, Submission
<1>2. at \in Units /\ \A w \in Units : w # at => unitStatus'[w] = unitStatus[w]
    BY DEF MeetConflict, SubmitFails, MergeDone, Kept, KeptStatus, TypeInv, TypeOK, OpType,
           DoneInv, Progress
<1>3. \/ at = Merge
      \/ ~RecordOnly(at)
      \/ unitStatus'[at] = "running" /\ unitStatus[at] = "writing"
    BY <1>2 DEF MeetConflict, SubmitFails, MergeDone, Kept, TypeInv, TypeOK, DoneInv, Progress,
                Settled, Submission
<1>4. \A c \in Chunks : c \in Units /\ c # Merge /\ RecordOnly(c)
    BY Plan
<1>5. \A d \in Readings : d \in Units /\ RecordOnly(d) /\ d # Merge
    BY Plan, JobAssumption
<1>6. \A c \in Chunks : unitStatus'[c] \in Closed => unitStatus[c] \in Closed
    BY <1>2, <1>3, <1>4 DEF Closed
<1>7. \A d \in Readings : unitStatus[d] \in Closed => unitStatus'[d] \in Closed
    BY <1>2, <1>3, <1>5 DEF Closed
<1> QED BY <1>1, <1>4, <1>6, <1>7, SameRecorded, QuietRead DEF Taken

\* The submission of a chunk ends when its readings are closed; none is sent back.
LEMMA EndSubmitRead ==
    ASSUME TypeInv, StageInv, ReadInv, op = "finish", unitStatus[at] = "writing",
           NEW result \in {"done", "running"},
           NEW repairs \in SUBSET Units, repairs \subseteq Repairable, EndSubmit(result, repairs)
    PROVE  ReadInv'
<1>1. /\ unitStatus' = [u \in Units |-> IF u \in repairs THEN "pending"
                                        ELSE IF u = at THEN result ELSE unitStatus[u]]
      /\ revision' = [u \in Units |-> IF u \in repairs THEN Suffixed(revision[u], "review")
                                      ELSE revision[u]]
      /\ UNCHANGED records /\ op' \notin Submission
    BY DEF EndSubmit, ThenMerge, Return, Begin, Submission
<1>2. \A u \in Units : StageOf[u] = "read" => u \notin repairs
    BY DEF Repairable, StageInv, StagePlan
<1>3. ASSUME NEW c \in Chunks
      PROVE  /\ Recorded(c)' => Recorded(c)
             /\ unitStatus'[c] \in Closed => Taken(c)
    <2>1. c \in Units /\ c \notin repairs
        BY <1>2, Plan
    <2>2. revision'[c] = revision[c]
        BY <1>1, <2>1
    <2>3. Recorded(c)' => Recorded(c)
        BY <1>1, <2>2, StaysRecorded
    <2>4. unitStatus'[c] \in Closed => Taken(c)
        BY <1>1, <2>1 DEF Taken, Submission
    <2> QED BY <2>3, <2>4
<1>4. \A d \in Readings : unitStatus[d] \in Closed => unitStatus'[d] \in Closed
    <2>1. \A d \in Readings : d \in Units /\ d \notin repairs
        BY <1>2, Plan
    <2> QED BY <1>1, <2>1 DEF Closed
<1> QED BY <1>1, <1>3, <1>4, QuietRead DEF Taken

\* The end of an attempt closes nothing.
LEMMA EndRead ==
    ASSUME TypeInv, ReadInv, Stop \/ \E q \in BOOLEAN : FinishPackage(q)
    PROVE  ReadInv'
<1>1. UNCHANGED <<revision, records>> /\ op' \notin Submission
    BY DEF Stop, FinishPackage, ThenMerge, Return, Begin, Submission
<1>2. ASSUME NEW u \in Units
      PROVE  unitStatus'[u] = unitStatus[u] \/ (unitStatus[u] \in InFlight /\ unitStatus'[u] \in {"pending", "failed"})
    BY DEF Stop, FinishPackage, PackageUnits, Released
<1>3. \A u \in Units : unitStatus'[u] \in Closed <=> unitStatus[u] \in Closed
    BY <1>2 DEF InFlight, Closed
<1>4. \A c \in Chunks : c \in Units
    BY Plan
<1>5. \A d \in Readings : d \in Units
    BY Plan
<1> QED BY <1>1, <1>3, <1>4, <1>5, SameRecorded, QuietRead DEF Taken

\* A chunk is skipped with its readings.
LEMMA SkipRead ==
    ASSUME TypeInv, ReadInv, NEW b \in Units, Skip(b)
    PROVE  ReadInv'
<1>1. /\ UNCHANGED <<revision, records>> /\ op' \notin Submission /\ b \in Chunks
      /\ unitStatus' = [u \in Units |->
             IF u = b \/ (u \in DependsOn[b] /\ unitStatus[u] # "done")
             THEN "skipped" ELSE unitStatus[u]]
    BY DEF Skip, ThenMerge, Return, Begin, Submission
<1>2. ASSUME NEW c \in Chunks, Taken(c)'
      PROVE  \/ Taken(c) /\ \A d \in DependsOn[c] : unitStatus[d] \in Closed => unitStatus'[d] \in Closed
             \/ \A d \in DependsOn[c] : unitStatus'[d] \in Closed
    <2>1. c \in Units /\ \A d \in DependsOn[c] : d \in Units
        BY Plan
    <2>2. CASE c = b
        BY <1>1, <2>1, <2>2 DEF Closed
    <2>3. CASE c # b
        <3>1. c \notin DependsOn[b]
            BY <1>1, Plan
        <3>2. unitStatus'[c] = unitStatus[c]
            BY <1>1, <2>1, <2>3, <3>1
        <3>3. Taken(c)
            BY <1>1, <1>2, <2>1, <3>2, SameRecorded DEF Taken
        <3> QED BY <1>1, <2>1, <3>3 DEF Closed
    <2> QED BY <2>2, <2>3
<1> QED BY <1>2, ReadKeeps

\* Going back to a reading takes its chunk along, and nothing is recorded for it.
LEMMA BackRead ==
    ASSUME TypeInv, TypeInv', DoneInv, StageInv, RecordsInv, RecordsInv', ReadInv,
           NEW u \in Units, Retry(u) \/ Regenerate(u)
    PROVE  ReadInv'
<1>1. Requeue(u) /\ UNCHANGED records /\ op' \notin Submission /\ RequeuedRevisions(u)
    BY RetryRevises, RegenerateRevises DEF Retry, Regenerate, ThenMerge, Return, Begin, Submission
<1>2. ASSUME NEW c \in Chunks, Taken(c)'
      PROVE  Taken(c) /\ \A d \in DependsOn[c] : unitStatus[d] \in Closed => unitStatus'[d] \in Closed
    <2>1. c \in Units /\ RecordOnly(c)
        BY Plan
    <2>2. c \notin Requeued(u)
        <3>1. ASSUME c \in Requeued(u)
              PROVE  FALSE
            <4>1. ~Recorded(c)'
                BY <1>1, <2>1, <3>1, BackUnrecorded
            <4>2. unitStatus'[c] = "pending"
                BY <1>1, <2>1, <3>1 DEF Requeue
            <4> QED BY <1>1, <1>2, <4>1, <4>2 DEF Taken, Closed
        <3> QED BY <3>1
    <2>3. unitStatus'[c] = unitStatus[c] /\ revision'[c] = revision[c]
        BY <1>1, <2>1, <2>2 DEF Requeue, RequeuedRevisions
    <2>4. Recorded(c)' => Recorded(c)
        BY <1>1, <2>3, StaysRecorded
    <2>5. ASSUME NEW d \in DependsOn[c]
          PROVE  unitStatus'[d] = unitStatus[d]
        <3>1. d \in Units /\ d \in Readings /\ stage[d] = "read" /\ DependsOn[d] \cap Readings = {}
            BY Plan, ReadStages DEF StageInv
        <3>2. d # u
            BY <2>1, <2>2, <3>1 DEF Requeued
        <3>3. ~(Rank[stage[d]] > Rank[stage[u]])
            BY <3>1, Ranks, StageRanks
        <3>4. d \notin Requeued(u)
            BY <3>1, <3>2, <3>3 DEF Requeued
        <3> QED BY <1>1, <3>1, <3>4 DEF Requeue
    <2> QED BY <1>1, <1>2, <2>3, <2>4, <2>5 DEF Taken
<1> QED BY <1>2, ReadKeeps

\* Resuming recovers, releases and tries again; it reopens nothing that is closed.
LEMMA ResumedRead ==
    ASSUME TypeInv, ReadInv, NEW state, NEW ref, NEW halts \in BOOLEAN,
           \A u \in Units : RecordOnly(u) => state[u] = unitStatus[u],
           Resumed(state, ref, halts)
    PROVE  ReadInv'
<1> DEFINE found == Recovered(state)
           fresh == {u \in Units : stage[u] = phase /\ found[u] = "failed"}
<1>1. /\ unitStatus' = [u \in Units |-> IF u \in fresh THEN "pending"
                                        ELSE IF halts THEN Released(found)[u] ELSE found[u]]
      /\ UNCHANGED <<revision, records>> /\ op' \notin Submission
    BY DEF Resumed, ThenMerge, Return, Begin, Submission
<1>2. ASSUME NEW u \in Units, RecordOnly(u)
      PROVE  /\ unitStatus[u] \in Closed => found[u] \in Closed
             /\ found[u] \in Closed => unitStatus[u] \in Closed \/ Recorded(u)
    BY <1>2, RecoveredIs DEF Closed
<1>3. \A u \in Units : found[u] \in Closed <=> unitStatus'[u] \in Closed
    <2> HIDE DEF found
    <2> QED BY <1>1 DEF Released, InFlight, Closed
<1> HIDE DEF found, fresh
<1>4. \A c \in Chunks : c \in Units /\ RecordOnly(c)
    BY Plan
<1>5. \A d \in Readings : d \in Units /\ RecordOnly(d)
    BY Plan
<1> QED BY <1>1, <1>2, <1>3, <1>4, <1>5, SameRecorded, QuietRead DEF Taken

-----------------------------------------------------------------------------
(* All steps.                                                              *)

\* The controls keep WorkInv.
LEMMA ControlWork ==
    ASSUME TypeInv, TypeInv', DoneInv, StageInv, RecordsInv, RecordsInv', WorkInv, Control
    PROVE  WorkInv'
<1>1. CASE Resume
    <2>1. ASSUME Resumed(unitStatus, refs, status = "running")
          PROVE  WorkInv'
        <3>1. (status = "running") \in BOOLEAN
            OBVIOUS
        <3> QED BY <2>1, <3>1, ResumedTries, ResumedRead DEF WorkInv
    <2> QED BY <1>1, <2>1, SameTries, ChoiceRead DEF Resume, WorkInv
<1>2. CASE Advance
    <2>1. CASE GoOn
        BY <2>1, SameTries, SameRead DEF WorkInv
    <2>2. CASE Begin("mergeRecord", Merge, <<>>, "advance") /\ UNCHANGED <<unitVars, records>>
        <3>1. UNCHANGED <<unitStatus, attempts, attemptOf, revision, records>> /\ op' \notin Submission
            BY <2>2 DEF Begin, unitVars, Submission
        <3> QED BY <3>1, TriesKeep, SameRecorded, QuietRead, Plan DEF WorkInv, Taken
    <2> QED BY <1>2, <2>1, <2>2 DEF Advance
<1>3. CASE EditRegistry \/ \E u \in Units : Keep(u, "return")
    BY <1>3, SameTries, ChoiceRead DEF WorkInv
<1>4. CASE \E u \in Units : Retry(u) \/ Regenerate(u)
    BY <1>4, BackTries, BackRead DEF WorkInv
<1>5. CASE Stop \/ (\E u \in Units : Skip(u)) \/ \E q \in BOOLEAN : FinishPackage(q)
    BY <1>5, StopTries, FinishPackageTries, EndRead, SkipRead DEF WorkInv
<1> QED BY <1>1, <1>2, <1>3, <1>4, <1>5 DEF Control

\* The steps of an operation keep WorkInv.
LEMMA StepWork ==
    ASSUME TypeInv, DoneInv, StageInv, WorkInv, Step
    PROVE  WorkInv'
<1>1. op \in Submission => unitStatus[at] = "writing"
    BY DEF WorkInv, TriesInv
<1>2. CASE FinishSubmit
    <2>1. op = "finish" /\ unitStatus[at] = "writing"
        BY <1>1, <1>2 DEF FinishSubmit, Submission
    <2>2. PICK repairs \in IF StageOf[at] = "review" THEN SUBSET Repairable ELSE {{}} :
              EndSubmit("done", repairs) \/ EndSubmit("running", repairs)
        BY <1>2 DEF FinishSubmit
    <2>3. repairs \subseteq Repairable /\ repairs \in SUBSET Units
        BY <2>2 DEF Repairable
    <2> HIDE DEF Repairable
    <2> QED BY <2>1, <2>2, <2>3, EndSubmitTries, EndSubmitRead DEF WorkInv
<1>3. CASE ResumeKept
    <2>1. Resumed(KeptStatus, KeptRefs, FALSE) /\ op = "kept"
        BY <1>3 DEF ResumeKept
    <2>2. at \in Units /\ ~RecordOnly(at)
        BY <2>1 DEF TypeInv, OpType, DoneInv, Progress, Settled
    <2>3. \A u \in Units : /\ KeptStatus[u] = unitStatus[u] \/ KeptStatus[u] = "done"
                           /\ RecordOnly(u) => KeptStatus[u] = unitStatus[u]
        BY <2>2 DEF KeptStatus, TypeInv, TypeOK
    <2> QED BY <2>1, <2>3, ResumedTries, ResumedRead DEF WorkInv
<1>4. CASE MeetConflict \/ SubmitFails \/ MergeDone \/ Kept
    BY <1>1, <1>4, AtTries, AtRead DEF WorkInv
<1>5. CASE SaveRecord \/ WriteEntry \/ MergeRecord \/ KeepEntry \/ EditRecord \/ Edited \/ AdvanceMerged
    BY <1>5, SameTries, SameRead DEF WorkInv, AdvanceMerged
<1> QED BY <1>2, <1>3, <1>4, <1>5 DEF Step

\* Every step keeps WorkInv.
LEMMA WorkInvStep ==
    ASSUME TypeInv, TypeInv', DoneInv, StageInv, RecordsInv, RecordsInv', WorkInv, [Next]_vars
    PROVE  WorkInv'
<1>1. CASE UNCHANGED vars
    <2>1. UNCHANGED <<unitStatus, attempts, attemptOf, revision, records, op, at>>
        BY <1>1 DEF vars, unitVars, opVars
    <2>2. TriesInv'
        BY <2>1, TriesKeep DEF WorkInv
    <2>3. ReadInv'
        BY <2>1, SameRecorded, QuietRead, Plan DEF WorkInv, Taken
    <2> QED BY <2>2, <2>3 DEF WorkInv
<1>2. CASE Interrupt \/ \E p \in Places : EditEntry(p)
    BY <1>2, SameTries, SameRead DEF WorkInv
<1>3. CASE \E flag \in BOOLEAN : Get(flag)
    BY <1>3, GetTries, GetRead DEF WorkInv
<1>4. CASE \E S \in SUBSET Units : Open(S)
    BY <1>4, OpenTries, OpenRead DEF WorkInv
<1>5. CASE \E u \in Units : Submit(u)
    BY <1>5, SubmitTries, SubmitRead DEF WorkInv
<1> QED BY <1>1, <1>2, <1>3, <1>4, <1>5, ControlWork, StepWork DEF Next

\* The job starts with WorkInv.
LEMMA WorkInvInit == Init => WorkInv
<1> SUFFICES ASSUME Init PROVE WorkInv
    OBVIOUS
<1>1. TriesInv
    BY Plan DEF Init, TriesInv, Submission
<1>2. ReadInv
    BY Plan DEF Init, ReadInv, Taken, Closed, Recorded, Submission
<1> QED BY <1>1, <1>2 DEF WorkInv

\* Among the pending of a stage, one depends on none of them, or a chunk does on
\* pending readings.
LEMMA SomeIsReady ==
    ASSUME TypeInv, StageInv, WorkInv
    PROVE  WorkGoesOn
<1> SUFFICES ASSUME Idle, status # "running", phase \in Stages, ~Uprooted,
                    \A u \in Units : unitStatus[u] \in {"pending", "done", "skipped"},
                    NEW x \in Units, stage[x] = phase, unitStatus[x] = "pending"
             PROVE  ReadyIn(unitStatus) # {}
    BY DEF WorkGoesOn, ContinueHasWork
<1> DEFINE left == {u \in Units \ Readings : stage[u] = phase /\ unitStatus[u] = "pending"}
<1>1. left # {}
    <2>1. CASE x \notin Readings
        BY <2>1
    <2>2. CASE x \in Readings
        <3>1. PICK c \in Chunks : x \in DependsOn[c]
            BY <2>2 DEF Readings
        <3>2. c \in Units /\ c \notin Readings /\ stage[c] = "read" /\ stage[x] = "read"
            BY <3>1, Plan, ReadStages DEF StageInv
        <3>3. unitStatus[c] = "pending"
            <4>1. unitStatus[x] \notin Closed
                BY DEF Closed
            <4>2. unitStatus[c] \notin Closed
                BY <3>1, <4>1 DEF WorkInv, ReadInv, Taken
            <4> QED BY <3>2, <4>2 DEF Closed
        <3> QED BY <3>2, <3>3
    <2> QED BY <2>1, <2>2
<1>2. PICK u \in left : DependsOn[u] \cap left = {}
    <2>1. left \in (SUBSET Units) \ {{}}
        BY <1>1
    <2> HIDE DEF left
    <2> QED BY <2>1, JobAssumption
<1>3. attempts[u] < MaxAttempts
    BY <1>2 DEF WorkInv, TriesInv, Trying
<1>4. ASSUME u \notin Chunks, NEW d \in DependsOn[u]
      PROVE  unitStatus[d] \in {"done", "skipped"}
    <2>1. d \in Units /\ d \notin Readings /\ StageOf[d] = StageOf[u]
        BY <1>2, <1>4, JobAssumption
    <2>2. stage[d] = phase
        BY <1>2, <2>1 DEF Uprooted
    <2>3. unitStatus[d] # "pending"
        BY <1>2, <2>1, <2>2
    <2> QED BY <2>1, <2>3
<1>5. u \in ReadyIn(unitStatus)
    BY <1>2, <1>3, <1>4 DEF ReadyIn
<1> QED BY <1>5

\* Everything that is invariant of a job.
JobInv == TypeInv /\ RunInv /\ EditInv /\ DoneInv /\ WaitInv /\ WorkInv

\* JobInv is inductive.
LEMMA JobInvariant == ASSUME Calm PROVE Spec => []JobInv
<1>1. JobInv /\ [Next]_vars => JobInv'
    <2> SUFFICES ASSUME JobInv, [Next]_vars PROVE JobInv'
        OBVIOUS
    <2>1. TypeInv' /\ RunInv' /\ EditInv' /\ DoneInv'
        BY TypeStep, RunStep, EditStep, DoneStep DEF JobInv
    <2>2. WaitInv'
        BY <2>1, WaitStep DEF JobInv
    <2>3. WorkInv'
        BY <2>1, <2>2, WorkInvStep DEF JobInv, WaitInv
    <2> QED BY <2>1, <2>2, <2>3 DEF JobInv
<1>2. Init => JobInv
    <2>1. Init => RunInv
        BY DEF Init, RunInv, RunningAgrees, OpAgrees, InFlight
    <2> QED BY <2>1, TypeInit, EditInit, DoneInit, WaitInit, WorkInvInit DEF JobInv
<1> QED BY <1>1, <1>2, PTL DEF Spec

\* A job can go on wherever it was stopped or sent back to, whatever was skipped or
\* had failed and after any crash, until a review sends back a unit of a dependency;
\* for a core that does not end within the saving of an edited registry or of a choice.
THEOREM JobsGoOn == ASSUME Calm PROVE Spec => []WorkGoesOn
<1>1. JobInv => WorkGoesOn
    BY SomeIsReady DEF JobInv, WaitInv
<1> QED BY <1>1, JobInvariant, PTL
=============================================================================
