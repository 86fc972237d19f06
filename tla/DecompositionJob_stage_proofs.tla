---------------------- MODULE DecompositionJob_stage_proofs ----------------------
(***************************************************************************)
(* Going back: after a retry or a regeneration has taken the job to an     *)
(* earlier stage, nothing of a later stage counts as done, whatever        *)
(* records and receipts earlier revisions have left behind.                *)
(*                                                                         *)
(* That a unit of a later stage is pending is not inductive: recovery      *)
(* would find it done if anything were saved for its current revision.     *)
(* WaitInv says that nothing is (Later), and what keeps it so:             *)
(*   - the units that are worked on are of the stage of the job or of an   *)
(*     earlier one (StageInv), so what is saved is not saved for a unit    *)
(*     that waits;                                                         *)
(*   - a unit that goes back gets a revision that is later than all that   *)
(*     is saved (Clocked for the receipts, RecordsInv for the records).    *)
(*     A record is found by what precedes the first choice in a revision,  *)
(*     so units whose record is all must never be given one.               *)
(***************************************************************************)
EXTENDS DecompositionJob_proofs

IsLater(u) == Rank[stage[u]] > Rank[phase]
Resolvable(rev) == \E i \in DOMAIN rev : rev[i].kind = "resolved"

\* A unit is at the stage it is planned for, or sent back by a review.
StagePlan ==
    \A u \in Units : stage[u] = StageOf[u] \/ (StageOf[u] = "integrate" /\ stage[u] = "review")

\* The attempt that runs has no unit of a later stage, and none is issued twice.
AttemptStage ==
    /\ active <= issued
    /\ \A u \in Units :
          /\ attemptOf[u] <= issued
          /\ active # 0 /\ attemptOf[u] = active => ~IsLater(u)

\* The registry is edited while the user reviews it.
EditPhase == op \in {"editRecord", "edited"} => phase = "registry_review"

StageInv == StagePlan /\ AttemptStage /\ EditPhase

\* Records are as old as the clock says; where a record is all there is, no
\* choice has been made.
RecordsInv ==
    /\ \A r \in records : Until(r[2], clock)
    /\ \A u \in Units : RecordOnly(u) => ~Resolvable(revision[u])

\* Nothing of a unit is saved for its current revision.
Untouched(u) ==
    /\ unitStatus[u] = "pending"
    /\ RecordOnly(u) => ~Recorded(u)
    /\ \A p \in Places : ~HasReceipt(u, p)

Later == \A u \in Units : IsLater(u) => Untouched(u)

WaitInv == StageInv /\ RecordsInv /\ Later

-----------------------------------------------------------------------------
(* Stages.                                                                 *)

\* The order of the phases.
LEMMA Ranks ==
    /\ Rank["read"] = 1 /\ Rank["registry"] = 2 /\ Rank["registry_review"] = 3
    /\ Rank["integrate"] = 4 /\ Rank["review"] = 5
    /\ Rank["finalize"] = 6 /\ Rank["done"] = 7
    /\ \A ph \in Phases : Rank[ph] \in 1..7
<1>1. /\ Rank["read"] = 1 /\ Rank["registry"] = 2 /\ Rank["registry_review"] = 3
      /\ Rank["integrate"] = 4 /\ Rank["review"] = 5
      /\ Rank["finalize"] = 6 /\ Rank["done"] = 7
    BY DEF Rank
<1>2. \A ph \in Phases : Rank[ph] \in 1..7
    BY <1>1 DEF Phases, Stages
<1> QED BY <1>1, <1>2

\* The stages of units are phases, and they have ranks.
LEMMA StageRanks ==
    ASSUME TypeInv
    PROVE  /\ Rank[phase] \in 1..7
           /\ \A u \in Units : stage[u] \in Stages /\ Rank[stage[u]] \in 1..5
BY Ranks DEF TypeInv, TypeOK, Phases, Stages

\* Chunks and their readings are of the first stage, the merge is of the second.
LEMMA ReadStages ==
    ASSUME StagePlan
    PROVE  /\ \A c \in Chunks : stage[c] = "read"
           /\ \A c \in Chunks : \A d \in DependsOn[c] : d \in Units /\ stage[d] = "read"
           /\ stage[Merge] = "registry"
<1>1. \A c \in Chunks : c \in Units /\ StageOf[c] = "read"
    BY JobAssumption
<1>2. ASSUME NEW c \in Chunks, NEW d \in DependsOn[c]
      PROVE  d \in Units /\ StageOf[d] = "read"
    <2>1. d \in Readings
        BY DEF Readings
    <2>2. d \in Units
        BY JobAssumption
    <2> QED BY <2>1, <2>2, JobAssumption
<1>3. Merge \in Units /\ StageOf[Merge] = "registry"
    BY JobAssumption
<1> QED BY <1>1, <1>2, <1>3 DEF StagePlan

\* Steps that take units out of the attempt, or none, and do not go back while a
\* package runs.
LEMMA StagesKeep ==
    ASSUME TypeInv, TypeInv', StageInv, UNCHANGED <<stage, issued>>, active' \in {0, active},
           \A u \in Units : attemptOf'[u] \in {0, attemptOf[u]},
           Rank[phase] <= Rank[phase'] \/ active' = 0,
           op' \in {"editRecord", "edited"} => phase' = "registry_review"
    PROVE  StageInv'
<1>1. Rank[phase] \in 1..7 /\ Rank[phase'] \in 1..7 /\ \A u \in Units : Rank[stage[u]] \in 1..5
    BY Ranks, StageRanks DEF TypeInv, TypeOK
<1>2. issued \in Nat /\ active \in Nat
    BY DEF TypeInv, TypeOK
<1>3. active' <= issued'
    BY <1>2 DEF StageInv, AttemptStage
<1>4. ASSUME NEW u \in Units
      PROVE  /\ attemptOf'[u] <= issued'
             /\ active' # 0 /\ attemptOf'[u] = active' => ~IsLater(u)'
    <2>1. attemptOf'[u] <= issued'
        BY <1>2 DEF StageInv, AttemptStage
    <2>2. ASSUME active' # 0, attemptOf'[u] = active'
          PROVE  ~IsLater(u)'
        <3>1. active # 0 /\ attemptOf[u] = active /\ Rank[phase] <= Rank[phase']
            BY <2>2
        <3>2. ~(Rank[stage[u]] > Rank[phase])
            BY <3>1 DEF StageInv, AttemptStage, IsLater
        <3> QED BY <1>1, <3>1, <3>2 DEF IsLater
    <2> QED BY <2>1, <2>2
<1>5. AttemptStage'
    BY <1>3, <1>4 DEF AttemptStage
<1> QED BY <1>5 DEF StageInv, StagePlan, EditPhase

\* Steps that leave stages and attempts alone.
LEMMA SameStages ==
    ASSUME TypeInv, TypeInv', StageInv, UNCHANGED <<phase, active, stage, attemptOf, issued>>,
           op' \in {"editRecord", "edited"} => op = "editRecord" \/ phase = "registry_review"
    PROVE  StageInv'
<1>1. Rank[phase] <= Rank[phase']
    BY StageRanks
<1>2. op' \in {"editRecord", "edited"} => phase' = "registry_review"
    BY DEF StageInv, EditPhase
<1> QED BY <1>1, <1>2, StagesKeep

\* Going on never leads to an earlier phase.
LEMMA GoOnRises ==
    ASSUME TypeInv, phase # "done", GoOn
    PROVE  Rank[phase] <= Rank[phase']
<1>1. phase \in {"read", "registry", "registry_review", "integrate", "review", "finalize"}
    BY DEF TypeInv, TypeOK, Phases, Stages
<1>2. CASE NextPhase = "finalize"
    <2>1. phase' \in {"done", "finalize"}
        BY <1>2 DEF GoOn, Finalize
    <2> QED BY <1>1, <2>1, Ranks
<1>3. CASE NextPhase # "finalize"
    <2>1. phase' = NextPhase
        BY <1>3 DEF GoOn
    <2>2. CASE phase \in {"read", "registry"}
        BY <2>1, <2>2, Ranks DEF NextPhase
    <2>3. CASE phase = "registry_review"
        BY <2>1, <2>3, Ranks DEF NextPhase
    <2>4. CASE phase = "integrate"
        BY <2>1, <2>4, Ranks DEF NextPhase
    <2>5. CASE phase \in {"review", "finalize"}
        BY <1>3, <2>5 DEF NextPhase
    <2> QED BY <1>1, <2>2, <2>3, <2>4, <2>5
<1> QED BY <1>2, <1>3

\* GoOn keeps StageInv.
LEMMA GoOnStages ==
    ASSUME TypeInv, TypeInv', StageInv, phase # "done", GoOn
    PROVE  StageInv'
<1>1. UNCHANGED <<stage, issued, active, attemptOf>> /\ op' = "none"
    BY DEF GoOn, bounds, Return, Begin
<1> QED BY <1>1, GoOnRises, StagesKeep

\* Open keeps StageInv: what is handed out is of the stage of the job, or is read.
LEMMA OpenStages ==
    ASSUME TypeInv, TypeInv', StageInv, NEW S \in SUBSET Units, Open(S)
    PROVE  StageInv'
<1> DEFINE claimed == {u \in S \cup UNION {DependsOn[c] : c \in S \cap Chunks} :
                           Recovered(unitStatus)[u] # "done"}
<1>1. /\ UNCHANGED <<phase, stage>> /\ op' = "none"
      /\ issued' = issued + 1 /\ active' = issued + 1
      /\ attemptOf' = [u \in Units |-> IF u \in claimed THEN issued + 1 ELSE attemptOf[u]]
      /\ S \subseteq ReadyIn(Recovered(unitStatus))
    BY DEF Open, Idle, opVars
<1>2. issued \in Nat /\ \A u \in Units : attemptOf[u] <= issued /\ attemptOf[u] \in Nat
    BY DEF TypeInv, TypeOK, StageInv, AttemptStage
<1>3. ASSUME NEW u \in claimed, u \in Units
      PROVE  ~(Rank[stage[u]] > Rank[phase])
    <2>1. CASE u \in S
        <3>1. stage[u] = phase
            BY <1>1, <2>1 DEF ReadyIn
        <3> QED BY <3>1, StageRanks
    <2>2. CASE u \notin S
        <3>1. PICK c \in S \cap Chunks : u \in DependsOn[c]
            BY <2>2
        <3>2. stage[u] = "read"
            BY <3>1, ReadStages DEF StageInv
        <3> QED BY <3>2, Ranks, StageRanks
    <2> QED BY <2>1, <2>2
<1> HIDE DEF claimed
<1>4. AttemptStage'
    BY <1>1, <1>2, <1>3 DEF AttemptStage, IsLater
<1> QED BY <1>1, <1>4 DEF StageInv, StagePlan, EditPhase

\* What an operation works on does not wait for a later stage.
LEMMA AtIsHere ==
    ASSUME TypeInv, RunInv, DoneInv, StageInv, Later, op \notin {"none", "advance"}
    PROVE  at \in Units /\ ~IsLater(at)
<1>1. at \in Units
    BY DEF TypeInv, OpType
<1>2. CASE op \in {"record", "write", "finish"}
    <2>1. active # 0 /\ attemptOf[at] = active
        BY <1>2 DEF RunInv, OpAgrees, RunningAgrees
    <2> QED BY <1>1, <2>1 DEF StageInv, AttemptStage
<1>3. CASE op \in {"keep", "kept"}
    <2>1. unitStatus[at] = "conflict"
        BY <1>3 DEF DoneInv, Progress
    <2> QED BY <1>1, <2>1 DEF Later, Untouched
<1>4. CASE op \in {"mergeRecord", "mergeDone"}
    <2>1. at = Merge /\ phase = "registry"
        BY <1>4 DEF DoneInv, Progress, TypeInv, OpType
    <2> QED BY <1>1, <2>1, ReadStages, Ranks DEF StageInv, IsLater
<1>5. CASE op \in {"editRecord", "edited"}
    <2>1. at = Merge /\ phase = "registry_review"
        BY <1>5 DEF DoneInv, Progress, StageInv, EditPhase
    <2> QED BY <1>1, <2>1, ReadStages, Ranks DEF StageInv, IsLater
<1> QED BY <1>1, <1>2, <1>3, <1>4, <1>5 DEF TypeInv, OpType, Operations

\* A review sends units back when the job has come to the reviews.
LEMMA ReviewIsReached ==
    ASSUME TypeInv, RunInv, DoneInv, StageInv, Later, op = "finish", StageOf[at] = "review"
    PROVE  Rank[phase] >= 5
<1>1. at \in Units /\ ~IsLater(at)
    BY AtIsHere
<1>2. stage[at] = "review"
    BY <1>1 DEF StageInv, StagePlan
<1> QED BY <1>1, <1>2, Ranks, StageRanks DEF IsLater

\* EndSubmit keeps StageInv.
LEMMA EndSubmitStages ==
    ASSUME TypeInv, RunInv, DoneInv, StageInv, Later, op = "finish",
           NEW result \in {"done", "running"},
           NEW repairs \in SUBSET Units, repairs \subseteq Repairable,
           repairs # {} => StageOf[at] = "review", EndSubmit(result, repairs)
    PROVE  StageInv'
<1>1. /\ UNCHANGED <<phase, active, issued>> /\ op' \in {"none", "mergeRecord"}
      /\ stage' = [u \in Units |-> IF u \in repairs THEN "review" ELSE stage[u]]
      /\ attemptOf' = [u \in Units |-> IF u \in repairs THEN 0 ELSE attemptOf[u]]
    BY DEF EndSubmit, jobVars, ThenMerge, Return, Begin
<1>2. StagePlan'
    <2>1. \A u \in repairs : u \in Units /\ stage[u] = "integrate"
        BY DEF Repairable
    <2> QED BY <1>1, <2>1 DEF StageInv, StagePlan
<1>3. AttemptStage'
    BY <1>1 DEF StageInv, AttemptStage, IsLater, TypeInv, TypeOK
<1> QED BY <1>1, <1>2, <1>3 DEF StageInv, EditPhase

\* Going back ends the attempt.
LEMMA BackStages ==
    ASSUME TypeInv, TypeInv', StageInv, NEW u \in Units, Retry(u) \/ Regenerate(u)
    PROVE  StageInv'
<1>1. UNCHANGED <<stage, issued>> /\ active' = 0 /\ op' \in {"none", "mergeRecord"}
    BY DEF Retry, Regenerate, Requeue, ThenMerge, Return, Begin
<1>2. \A w \in Units : attemptOf'[w] \in {0, attemptOf[w]}
    BY DEF Retry, Regenerate, Requeue
<1> QED BY <1>1, <1>2, StagesKeep

\* Resumed keeps StageInv.
LEMMA ResumedStages ==
    ASSUME TypeInv, TypeInv', StageInv, NEW state, NEW ref, NEW halts \in BOOLEAN,
           Resumed(state, ref, halts)
    PROVE  StageInv'
<1>1. /\ UNCHANGED <<phase, stage, issued>> /\ active' \in {0, active}
      /\ op' \in {"none", "mergeRecord"}
    BY DEF Resumed, bounds, ThenMerge, Return, Begin
<1>2. \A w \in Units : attemptOf'[w] \in {0, attemptOf[w]}
    BY DEF Resumed
<1> QED BY <1>1, <1>2, StageRanks, StagesKeep

\* Steps that release units, or forget their attempts, keep StageInv.
LEMMA ReleaseStages ==
    ASSUME TypeInv, TypeInv', StageInv,
           \/ \E flag \in BOOLEAN : Get(flag)
           \/ \E q \in BOOLEAN : FinishPackage(q)
           \/ Stop \/ Kept
    PROVE  StageInv'
<1>1. /\ UNCHANGED <<phase, stage, issued>> /\ active' \in {0, active}
      /\ op' \in {"none", "mergeRecord"}
    BY DEF Get, FinishPackage, Stop, Kept, Idle, opVars, bounds, ThenMerge, Return, Begin
<1>2. \A w \in Units : attemptOf'[w] \in {0, attemptOf[w]}
    BY DEF Get, FinishPackage, Stop, Kept, ReleasedFrom, TypeInv, TypeOK
<1> QED BY <1>1, <1>2, StageRanks, StagesKeep

\* Steps that change neither the stage of the job nor who works on what.
LEMMA OtherStages ==
    ASSUME TypeInv, TypeInv', StageInv,
           \/ \E u \in Units : Submit(u) \/ Skip(u) \/ Keep(u, "return") \/ Keep(u, "resume")
           \/ SaveRecord \/ WriteEntry \/ MeetConflict \/ SubmitFails \/ MergeRecord \/ MergeDone
           \/ KeepEntry \/ EditRegistry \/ EditRecord \/ Interrupt
           \/ \E p \in Places : EditEntry(p)
    PROVE  StageInv'
<1>1. UNCHANGED <<phase, active, stage, attemptOf, issued>>
    BY DEF Submit, Skip, Keep, SaveRecord, WriteEntry, MeetConflict, SubmitFails, MergeRecord,
           MergeDone, KeepEntry, EditRegistry, EditRecord, Interrupt, EditEntry, jobVars, unitVars, bounds
<1>2. op' \in {"editRecord", "edited"} => op \in {"editRecord", "edited"} \/ phase = "registry_review"
    BY DEF Submit, Skip, Keep, SaveRecord, WriteEntry, MeetConflict, SubmitFails, MergeRecord,
           MergeDone, KeepEntry, EditRegistry, EditRecord, Interrupt, EditEntry, NextPlace,
           ThenMerge, Return, Begin, opVars
<1> QED BY <1>1, <1>2, SameStages DEF StageInv, EditPhase

\* Confirming the registry goes on to the integration.
LEMMA EditedStages ==
    ASSUME TypeInv, TypeInv', StageInv, Edited
    PROVE  StageInv'
<1>1. /\ phase = "registry_review" /\ phase' \in {phase, "integrate"} /\ op' = "none"
      /\ UNCHANGED <<active, stage, attemptOf, issued>>
    BY DEF Edited, StageInv, EditPhase, unitVars, bounds, Return, Begin
<1>2. Rank[phase] <= Rank[phase']
    BY <1>1, Ranks
<1> QED BY <1>1, <1>2, StagesKeep

\* The controls keep StageInv.
LEMMA ControlStages ==
    ASSUME TypeInv, TypeInv', StageInv, Control
    PROVE  StageInv'
<1>1. CASE Resume
    <2>1. ASSUME Resumed(unitStatus, refs, status = "running")
          PROVE  StageInv'
        BY <2>1, ResumedStages
    <2> QED BY <1>1, <2>1, OtherStages DEF Resume
<1>2. CASE Advance
    <2>1. CASE GoOn
        BY <1>2, <2>1, GoOnStages DEF Advance
    <2>2. CASE /\ Begin("mergeRecord", Merge, <<>>, "advance")
               /\ UNCHANGED <<jobVars, unitVars, records, targetVars, bounds>>
        BY <2>2, SameStages DEF Begin, jobVars, unitVars, bounds
    <2> QED BY <1>2, <2>1, <2>2 DEF Advance
<1> QED BY <1>1, <1>2, ReleaseStages, OtherStages, BackStages DEF Control

\* The steps of an operation keep StageInv.
LEMMA StepStages ==
    ASSUME TypeInv, TypeInv', RunInv, DoneInv, StageInv, Later, Step
    PROVE  StageInv'
<1>1. CASE FinishSubmit
    <2>1. op = "finish"
        BY <1>1 DEF FinishSubmit
    <2>2. PICK repairs \in IF StageOf[at] = "review" THEN SUBSET Repairable ELSE {{}} :
              EndSubmit("done", repairs) \/ EndSubmit("running", repairs)
        BY <1>1 DEF FinishSubmit
    <2>3. repairs \subseteq Repairable /\ (repairs # {} => StageOf[at] = "review")
        BY <2>2
    <2>4. repairs \in SUBSET Units
        BY <2>3 DEF Repairable
    <2> HIDE DEF Repairable
    <2> QED BY <2>1, <2>2, <2>3, <2>4, EndSubmitStages
<1>2. CASE ResumeKept
    BY <1>2, ResumedStages DEF ResumeKept
<1>3. CASE AdvanceMerged
    <2>1. phase = "registry"
        BY <1>3 DEF AdvanceMerged, TypeInv, OpType
    <2> QED BY <1>3, <2>1, GoOnStages DEF AdvanceMerged
<1> QED BY <1>1, <1>2, <1>3, ReleaseStages, OtherStages, EditedStages DEF Step

\* Every step keeps StageInv.
LEMMA StageStep ==
    ASSUME TypeInv, TypeInv', RunInv, DoneInv, StageInv, Later, [Next]_vars
    PROVE  StageInv'
<1>1. CASE UNCHANGED vars
    <2>1. UNCHANGED <<phase, active, stage, attemptOf, issued, op>>
        BY <1>1 DEF vars, jobVars, unitVars, opVars, bounds
    <2> QED BY <2>1, SameStages DEF StageInv, EditPhase
<1> QED BY <1>1, ReleaseStages, OpenStages, OtherStages, ControlStages, StepStages DEF Next

-----------------------------------------------------------------------------
(* Records.                                                                *)

\* Cutting a revision, or another suffix than that of a choice, makes no choice.
LEMMA NoChoice ==
    ASSUME clock \in Nat, NEW rev \in Revisions, ~Resolvable(rev), NEW kind \in Kinds \ {"resolved"}
    PROVE  /\ Cut(rev, kind) \in Revisions
           /\ ~Resolvable(Cut(rev, kind))
           /\ ~Resolvable(Suffixed(rev, kind))
           /\ ~Resolvable(Suffixed(Cut(rev, kind), kind))
<1>1. ASSUME NEW r \in Revisions, ~Resolvable(r)
      PROVE  ~Resolvable(Suffixed(r, kind))
    <2> DEFINE last == [kind |-> kind, time |-> clock + 1]
    <2>1. /\ Len(r) \in Nat /\ DOMAIN r = 1..Len(r)
          /\ DOMAIN Append(r, last) = 1..(Len(r) + 1)
          /\ \A i \in 1..Len(r) : Append(r, last)[i] = r[i]
          /\ Append(r, last)[Len(r) + 1] = last
        BY DEF Revisions
    <2>2. last.kind # "resolved"
        BY DEF Kinds
    <2> HIDE DEF last
    <2>3. \A i \in 1..(Len(r) + 1) : i \in 1..Len(r) \/ i = Len(r) + 1
        BY <2>1
    <2>4. Suffixed(r, kind) = Append(r, last)
        BY DEF Suffixed, last
    <2> QED BY <1>1, <2>1, <2>2, <2>3, <2>4 DEF Resolvable
<1>2. Cut(rev, kind) \in Revisions
    BY CutType
<1>3. ~Resolvable(Cut(rev, kind))
    <2>1. /\ DOMAIN Cut(rev, kind) \subseteq DOMAIN rev
          /\ \A i \in DOMAIN Cut(rev, kind) : Cut(rev, kind)[i] = rev[i]
        BY CutBegins
    <2> QED BY <2>1 DEF Resolvable
<1> QED BY <1>1, <1>2, <1>3

\* A revision without a choice is that of its record.
LEMMA PlainRecord ==
    ASSUME NEW rev \in Revisions, ~Resolvable(rev)
    PROVE  RecordId(rev) = rev
BY CutBegins DEF RecordId, Resolvable

\* What is recorded is recorded for the current revision of a unit.
LEMMA RecordsKeep ==
    ASSUME TypeInv, Clocked, RecordsInv, clock' \in {clock, clock + 1},
           records' \subseteq records \cup {<<u, RecordId(revision[u])>> : u \in Units},
           \A u \in Units : RecordOnly(u) => ~Resolvable(revision'[u])
    PROVE  RecordsInv'
<1>1. clock \in Nat
    BY DEF TypeInv, TypeOK
<1>2. ASSUME NEW r \in records'
      PROVE  r[2] \in Revisions /\ Until(r[2], clock)
    <2>1. CASE r \in records
        <3>1. r \in Units \X Revisions
            BY <2>1 DEF TypeInv, TypeOK
        <3> QED BY <2>1, <3>1 DEF RecordsInv
    <2>2. CASE r \notin records
        <3>1. PICK u \in Units : r = <<u, RecordId(revision[u])>>
            BY <1>2, <2>2
        <3>2. revision[u] \in Revisions /\ Until(revision[u], clock)
            BY DEF TypeInv, TypeOK, Clocked
        <3>3. RecordId(revision[u]) \in Revisions /\ Until(RecordId(revision[u]), clock)
            BY <1>1, <3>2, CutType, CutUntil DEF RecordId
        <3> QED BY <3>1, <3>3
    <2> QED BY <2>1, <2>2
<1>3. \A r \in records' : Until(r[2], clock')
    BY <1>1, <1>2, UntilLater
<1> QED BY <1>3 DEF RecordsInv, RecordOnly, Until

\* Steps that leave revisions alone.
LEMMA SameRecords ==
    ASSUME TypeInv, Clocked, RecordsInv, UNCHANGED <<revision, clock>>,
           records' \subseteq records \cup {<<u, RecordId(revision[u])>> : u \in Units}
    PROVE  RecordsInv'
BY RecordsKeep DEF RecordsInv

\* Going back with a retry, and a choice on a unit that has entries.
LEMMA RevisedRecords ==
    ASSUME TypeInv, Clocked, RecordsInv, clock' \in {clock, clock + 1}, UNCHANGED records,
           \A u \in Units : RecordOnly(u) =>
               \/ revision'[u] = revision[u]
               \/ revision'[u] = Suffixed(revision[u], "review")
               \/ revision'[u] = Retried(revision[u])
               \/ revision'[u] = Suffixed(Cut(revision[u], "edit"), "edit")
    PROVE  RecordsInv'
<1>1. clock \in Nat
    BY DEF TypeInv, TypeOK
<1>2. ASSUME NEW u \in Units, RecordOnly(u)
      PROVE  ~Resolvable(revision'[u])
    <2>1. revision[u] \in Revisions /\ ~Resolvable(revision[u])
        BY <1>2 DEF TypeInv, TypeOK, RecordsInv
    <2>2. {"review", "retry", "edit"} \subseteq Kinds \ {"resolved"}
        BY DEF Kinds
    <2> QED BY <1>1, <1>2, <2>1, <2>2, NoChoice DEF Retried
<1> QED BY <1>2, RecordsKeep

\* A unit with a choice to make has entries, and so have none of its readers.
LEMMA ChoiceRecords ==
    ASSUME TypeInv, DoneInv, RecordsInv, NEW u \in Units,
           \/ Regenerate(u)
           \/ \E next : Keep(u, next)
    PROVE  RecordsInv'
<1>1. ~RecordOnly(u) /\ ~intent[u]
    BY IdleIs DEF Regenerate, Keep, Idle, DoneInv, Settled
<1>2. u \notin Readings
    BY <1>1, JobAssumption DEF RecordOnly
<1>3. \A w \in Chunks : u \notin DependsOn[w]
    BY <1>2 DEF Readings
<1>4. records' = records
    BY DEF Regenerate, Keep
<1>5. clock' \in {clock, clock + 1}
    BY DEF Regenerate, Keep, Requeue
<1>6. ASSUME NEW w \in Units, w # u
      PROVE  revision'[w] \in {revision[w], Retried(revision[w])}
    <2>1. CASE Regenerate(u)
        BY <1>3, <1>6, <2>1 DEF Regenerate, RetriedUnits
    <2>2. ASSUME NEW next, Keep(u, next)
          PROVE  revision'[w] \in {revision[w], Retried(revision[w])}
        BY <1>6, <2>2 DEF Keep, TypeInv, TypeOK
    <2> QED BY <2>1, <2>2
<1> QED BY <1>1, <1>4, <1>5, <1>6, RevisedRecords DEF DoneInv, DataInv

\* A retry, the edit of the registry and the end of a submission make no choice.
LEMMA NewRevisions ==
    ASSUME TypeInv, Clocked, RecordsInv,
           \/ \E u \in Units : Retry(u)
           \/ EditRegistry
           \/ \E result, repairs : EndSubmit(result, repairs)
    PROVE  RecordsInv'
<1>1. UNCHANGED records /\ clock' \in {clock, clock + 1}
    BY DEF Retry, Requeue, EditRegistry, EndSubmit
<1>2. ASSUME NEW w \in Units
      PROVE  \/ revision'[w] = revision[w]
             \/ revision'[w] = Suffixed(revision[w], "review")
             \/ revision'[w] = Retried(revision[w])
             \/ revision'[w] = Suffixed(Cut(revision[w], "edit"), "edit")
    <2>1. CASE \E u \in Units : Retry(u)
        BY <2>1 DEF Retry, RetriedUnits
    <2>2. CASE EditRegistry
        BY <2>2 DEF EditRegistry, TypeInv, TypeOK
    <2>3. CASE \E result, repairs : EndSubmit(result, repairs)
        BY <2>3 DEF EndSubmit
    <2> QED BY <2>1, <2>2, <2>3
<1> QED BY <1>1, <1>2, RevisedRecords

\* Steps that save nothing in the task directory.
LEMMA NoRecords ==
    ASSUME TypeInv, Clocked, RecordsInv,
           \/ \E flag \in BOOLEAN : Get(flag)
           \/ \E S \in SUBSET Units : Open(S)
           \/ \E u \in Units : Submit(u) \/ Skip(u)
           \/ \E q \in BOOLEAN : FinishPackage(q)
           \/ Stop \/ GoOn
           \/ WriteEntry \/ MeetConflict \/ SubmitFails \/ MergeDone \/ KeepEntry \/ Kept \/ Edited
           \/ Interrupt
           \/ \E state, ref, halts : Resumed(state, ref, halts)
           \/ \E p \in Places : EditEntry(p)
    PROVE  RecordsInv'
<1>1. UNCHANGED <<revision, clock, records>>
    BY DEF Get, Open, Submit, Skip, FinishPackage, Stop, GoOn, WriteEntry, MeetConflict, SubmitFails,
           MergeDone, KeepEntry, Kept, Edited, Interrupt, Resumed, EditEntry, unitVars, bounds
<1> QED BY <1>1, SameRecords

\* Steps that save a record.
LEMMA OneRecord ==
    ASSUME TypeInv, Clocked, RecordsInv, SaveRecord \/ MergeRecord \/ EditRecord
    PROVE  RecordsInv'
<1>1. /\ UNCHANGED <<revision, clock>>
      /\ \E u \in {at, Merge} : records' = records \cup {<<u, RecordId(revision[u])>>}
    BY DEF SaveRecord, MergeRecord, EditRecord, unitVars, bounds
<1>2. at \in Units /\ Merge \in Units
    BY JobAssumption DEF TypeInv, OpType, SaveRecord, MergeRecord, EditRecord
<1> QED BY <1>1, <1>2, SameRecords

\* Every step keeps RecordsInv.
LEMMA RecordsStep ==
    ASSUME TypeInv, DoneInv, RecordsInv, [Next]_vars
    PROVE  RecordsInv'
<1>1. Clocked
    BY DEF DoneInv, DataInv
<1>2. CASE UNCHANGED vars
    <2>1. UNCHANGED <<revision, clock, records>>
        BY <1>2 DEF vars, unitVars, bounds
    <2> QED BY <1>1, <2>1, SameRecords
<1>3. CASE Control
    <2>1. CASE Resume
        BY <1>1, <2>1, NoRecords, ChoiceRecords DEF Resume
    <2>2. CASE Advance
        <3>1. CASE GoOn
            BY <1>1, <3>1, NoRecords
        <3>2. CASE UNCHANGED <<jobVars, unitVars, records, targetVars, bounds>>
            <4>1. UNCHANGED <<revision, clock, records>>
                BY <3>2 DEF unitVars, bounds
            <4> QED BY <1>1, <4>1, SameRecords
        <3> QED BY <2>2, <3>1, <3>2 DEF Advance
    <2> QED BY <1>1, <1>3, <2>1, <2>2, NoRecords, NewRevisions, ChoiceRecords DEF Control
<1>4. CASE Step
    <2>1. CASE FinishSubmit
        BY <1>1, <2>1, NewRevisions DEF FinishSubmit
    <2> QED BY <1>1, <1>4, <2>1, NoRecords, OneRecord DEF Step, ResumeKept, AdvanceMerged
<1> QED BY <1>1, <1>2, <1>3, <1>4, NoRecords DEF Next

-----------------------------------------------------------------------------
(* Units of later stages.                                                  *)

\* A unit that waits stays untouched when nothing is saved for it.
LEMMA LaterKeeps ==
    ASSUME Later,
           \A u \in Units : IsLater(u)' =>
               /\ IsLater(u)
               /\ Untouched(u) => unitStatus'[u] = "pending"
               /\ revision'[u] = revision[u]
               /\ Recorded(u)' => Recorded(u)
               /\ \A p \in Places : HasReceipt(u, p)' => HasReceipt(u, p)
    PROVE  Later'
BY DEF Later, Untouched, RecordOnly

\* Receipts and records of other units do not concern it.
LEMMA SavedForOthers ==
    ASSUME TypeInv, NEW u \in Units, revision'[u] = revision[u],
           NEW w \in Units, w # u,
           \/ UNCHANGED records
           \/ records' = records \cup {<<w, RecordId(revision[w])>>},
           \/ UNCHANGED receipts
           \/ \E p \in Places, n \in Nat, owned \in BOOLEAN :
                  receipts' = Append(receipts, Receipt(w, p, n, owned))
    PROVE  /\ Recorded(u)' => Recorded(u)
           /\ \A p \in Places : HasReceipt(u, p)' => HasReceipt(u, p)
<1>1. Recorded(u)' => Recorded(u)
    BY DEF Recorded, RecordId, Cut
<1>2. ASSUME NEW p \in Places, HasReceipt(u, p)'
      PROVE  HasReceipt(u, p)
    <2>1. PICK i \in DOMAIN receipts' : receipts'[i].unit = u /\ receipts'[i].rev = revision[u] /\ receipts'[i].place = p
        BY <1>2 DEF HasReceipt, IsReceipt
    <2>2. ASSUME NEW q \in Places, NEW n \in Nat, NEW owned \in BOOLEAN,
                 receipts' = Append(receipts, Receipt(w, q, n, owned))
          PROVE  i \in DOMAIN receipts /\ receipts'[i] = receipts[i]
        <3>1. receipts \in Seq(ReceiptRecord)
            BY DEF TypeInv, TypeOK, ReceiptRecord
        <3>2. Receipt(w, q, n, owned).unit # u
            BY DEF Receipt
        <3>3. /\ Len(receipts) \in Nat /\ DOMAIN receipts = 1..Len(receipts)
              /\ DOMAIN receipts' = 1..(Len(receipts) + 1)
              /\ \A j \in 1..Len(receipts) : receipts'[j] = receipts[j]
              /\ receipts'[Len(receipts) + 1] = Receipt(w, q, n, owned)
            BY <2>2, <3>1
        <3>4. i # Len(receipts) + 1
            BY <2>1, <3>2, <3>3
        <3> QED BY <3>3, <3>4
    <2>3. i \in DOMAIN receipts /\ receipts'[i] = receipts[i]
        BY <2>2
    <2> QED BY <2>1, <2>3 DEF HasReceipt, IsReceipt
<1> QED BY <1>1, <1>2

\* Recovery finds nothing of it.
LEMMA NothingFound ==
    ASSUME NEW u \in Units, Untouched(u), NEW state, state[u] = "pending"
    PROVE  ~Saved(u) /\ Recovered(state)[u] = "pending"
BY DEF Untouched, Saved, Recovered, Recorded

\* Steps that save nothing and do not go back.
LEMMA QuietLater ==
    ASSUME TypeInv, TypeInv', Later, UNCHANGED <<stage, revision, records, receipts>>,
           Rank[phase] <= Rank[phase'],
           \A u \in Units : IsLater(u) /\ Untouched(u) => unitStatus'[u] = "pending"
    PROVE  Later'
<1>1. ASSUME NEW u \in Units, IsLater(u)'
      PROVE  /\ IsLater(u)
             /\ Untouched(u) => unitStatus'[u] = "pending"
    <2>1. Rank[phase] \in 1..7 /\ Rank[phase'] \in 1..7 /\ Rank[stage[u]] \in 1..5
        BY Ranks, StageRanks DEF TypeInv, TypeOK
    <2>2. IsLater(u)
        BY <1>1, <2>1 DEF IsLater
    <2> QED BY <2>2
<1>2. \A u \in Units : Recorded(u)' => Recorded(u)
    BY DEF Recorded, RecordId, Cut
<1>3. \A u \in Units, p \in Places : HasReceipt(u, p)' => HasReceipt(u, p)
    BY DEF HasReceipt, IsReceipt
<1> QED BY <1>1, <1>2, <1>3, LaterKeeps

\* Get keeps Later.
LEMMA GetLater ==
    ASSUME TypeInv, TypeInv', Later, NEW flag \in BOOLEAN, Get(flag)
    PROVE  Later'
<1>1. UNCHANGED <<phase, stage, revision, records, receipts>>
    BY DEF Get, targetVars
<1>2. ASSUME NEW u \in Units, Untouched(u)
      PROVE  unitStatus'[u] = "pending"
    <2>1. Recovered(unitStatus)[u] = "pending"
        BY <1>2, NothingFound DEF Untouched
    <2> QED BY <2>1 DEF Get, Released
<1> QED BY <1>1, <1>2, StageRanks, QuietLater

\* A package has no unit that waits for a later stage.
LEMMA OpenLater ==
    ASSUME TypeInv, TypeInv', StageInv, Later, NEW S \in SUBSET Units, Open(S)
    PROVE  Later'
<1>1. UNCHANGED <<phase, stage, revision, records, receipts>>
    BY DEF Open, targetVars
<1>2. ASSUME NEW u \in Units, IsLater(u), Untouched(u)
      PROVE  unitStatus'[u] = "pending"
    <2>1. Recovered(unitStatus)[u] = "pending"
        BY <1>2, NothingFound DEF Untouched
    <2>2. u \notin S
        BY <1>2, StageRanks DEF Open, ReadyIn, IsLater
    <2>3. ASSUME NEW c \in S \cap Chunks
          PROVE  u \notin DependsOn[c]
        BY <1>2, ReadStages, Ranks, StageRanks DEF StageInv, IsLater
    <2> QED BY <2>1, <2>2, <2>3 DEF Open
<1> QED BY <1>1, <1>2, StageRanks, QuietLater

\* Submit keeps Later.
LEMMA SubmitLater ==
    ASSUME TypeInv, TypeInv', StageInv, Later, NEW u \in Units, Submit(u)
    PROVE  Later'
<1>1. UNCHANGED <<phase, stage, revision, records, receipts>>
    BY DEF Submit, jobVars, targetVars
<1>2. ~IsLater(u)
    BY DEF Submit, StageInv, AttemptStage
<1>3. \A w \in Units : IsLater(w) /\ Untouched(w) => unitStatus'[w] = "pending"
    BY <1>2 DEF Submit, Untouched, TypeInv, TypeOK
<1> QED BY <1>1, <1>3, StageRanks, QuietLater

\* Steps that end what was worked on.
LEMMA EndLater ==
    ASSUME TypeInv, TypeInv', Later,
           \/ \E q \in BOOLEAN : FinishPackage(q)
           \/ Stop
    PROVE  Later'
<1>1. UNCHANGED <<phase, stage, revision, records, receipts>>
    BY DEF FinishPackage, Stop, targetVars
<1>2. \A w \in Units : Untouched(w) => unitStatus'[w] = "pending"
    BY DEF FinishPackage, Stop, PackageUnits, Released, InFlight, Untouched
<1> QED BY <1>1, <1>2, StageRanks, QuietLater

\* What is skipped belongs to the first stage.
LEMMA SkipLater ==
    ASSUME TypeInv, TypeInv', StageInv, Later, NEW c \in Units, Skip(c)
    PROVE  Later'
<1>1. UNCHANGED <<phase, stage, revision, records, receipts>> /\ c \in Chunks
    BY DEF Skip, targetVars
<1>2. ASSUME NEW w \in Units, IsLater(w)
      PROVE  w # c /\ w \notin DependsOn[c]
    BY <1>1, <1>2, ReadStages, Ranks, StageRanks DEF StageInv, IsLater
<1>3. \A w \in Units : IsLater(w) /\ Untouched(w) => unitStatus'[w] = "pending"
    BY <1>2 DEF Skip, Untouched
<1> QED BY <1>1, <1>3, StageRanks, QuietLater

\* Resumed keeps Later.
LEMMA ResumedLater ==
    ASSUME TypeInv, TypeInv', Later, NEW state, NEW ref, NEW halts \in BOOLEAN,
           \A u \in Units : IsLater(u) => state[u] = "pending",
           Resumed(state, ref, halts)
    PROVE  Later'
<1>1. UNCHANGED <<phase, stage, revision, records, receipts>>
    BY DEF Resumed, targetVars
<1>2. ASSUME NEW u \in Units, IsLater(u), Untouched(u)
      PROVE  unitStatus'[u] = "pending"
    <2>1. Recovered(state)[u] = "pending"
        BY <1>2, NothingFound
    <2> QED BY <2>1 DEF Resumed, Released
<1> QED BY <1>1, <1>2, StageRanks, QuietLater

\* GoOn keeps Later.
LEMMA GoOnLater ==
    ASSUME TypeInv, TypeInv', Later, phase # "done", GoOn
    PROVE  Later'
<1>1. UNCHANGED <<unitStatus, stage, revision, records, receipts>>
    BY DEF GoOn, targetVars
<1> QED BY <1>1, GoOnRises, QuietLater DEF Untouched

\* Steps of an operation change the status of the unit they work on.
LEMMA AtLater ==
    ASSUME TypeInv, TypeInv', RunInv, DoneInv, StageInv, Later,
           MeetConflict \/ SubmitFails \/ MergeDone \/ Kept
    PROVE  Later'
<1>1. UNCHANGED <<phase, stage, revision, records, receipts>>
    BY DEF MeetConflict, SubmitFails, MergeDone, Kept, jobVars, targetVars
<1>2. ~IsLater(at)
    <2>1. op \notin {"none", "advance"}
        BY DEF MeetConflict, SubmitFails, MergeDone, Kept
    <2> QED BY <2>1, AtIsHere
<1>3. \A w \in Units : w # at => unitStatus'[w] = unitStatus[w]
    BY DEF MeetConflict, SubmitFails, MergeDone, Kept, KeptStatus, TypeInv, TypeOK, DoneInv, Progress
<1>4. \A w \in Units : IsLater(w) /\ Untouched(w) => unitStatus'[w] = "pending"
    BY <1>2, <1>3 DEF Untouched
<1> QED BY <1>1, <1>4, StageRanks, QuietLater

\* Steps that change no unit and save nothing.
LEMMA SameLater ==
    ASSUME TypeInv, TypeInv', Later, UNCHANGED <<unitStatus, stage, revision, records, receipts>>,
           Rank[phase] <= Rank[phase']
    PROVE  Later'
BY QuietLater DEF Untouched

\* What an operation saves, it saves for the unit it works on.
LEMMA SaveLater ==
    ASSUME TypeInv, RunInv, DoneInv, StageInv, Later,
           SaveRecord \/ MergeRecord \/ EditRecord \/ WriteEntry \/ KeepEntry
    PROVE  Later'
<1>1. op \notin {"none", "advance"}
    BY DEF SaveRecord, MergeRecord, EditRecord, WriteEntry, KeepEntry
<1>2. at \in Units /\ ~IsLater(at)
    BY <1>1, AtIsHere
<1>3. UNCHANGED <<phase, unitStatus, stage, revision>>
    BY DEF SaveRecord, MergeRecord, EditRecord, WriteEntry, KeepEntry, jobVars, unitVars
<1>4. records' = records \/ records' = records \cup {<<at, RecordId(revision[at])>>}
    BY DEF SaveRecord, MergeRecord, EditRecord, WriteEntry, KeepEntry, DoneInv, Progress
<1>5. \/ receipts' = receipts
      \/ \E p \in Places, n \in Nat, owned \in BOOLEAN :
             receipts' = Append(receipts, Receipt(at, p, n, owned))
    <2>1. CASE SaveRecord \/ MergeRecord \/ EditRecord
        BY <2>1 DEF SaveRecord, MergeRecord, EditRecord, targetVars
    <2>2. CASE WriteEntry \/ KeepEntry
        <3>1. Head(todo) \in Places
            BY <2>2, TodoTypes DEF WriteEntry, KeepEntry
        <3>2. content[Head(todo)] \in Nat /\ content[Head(todo)] + 1 \in Nat
            BY <3>1 DEF TypeInv, TypeOK
        <3>3. \/ receipts' = receipts
              \/ receipts' = Append(receipts, Receipt(at, Head(todo), content[Head(todo)] + 1, FALSE))
              \/ receipts' = Append(receipts, Receipt(at, Head(todo), content[Head(todo)], TRUE))
            BY <2>2 DEF WriteEntry, KeepEntry, targetVars
        <3> QED BY <3>1, <3>2, <3>3
    <2> QED BY <2>1, <2>2
<1>6. ASSUME NEW u \in Units, IsLater(u)'
      PROVE  /\ IsLater(u) /\ Untouched(u) => unitStatus'[u] = "pending"
             /\ IsLater(u)
             /\ revision'[u] = revision[u]
             /\ Recorded(u)' => Recorded(u)
             /\ \A p \in Places : HasReceipt(u, p)' => HasReceipt(u, p)
    <2>1. IsLater(u) /\ u # at /\ revision'[u] = revision[u]
        BY <1>2, <1>3, <1>6 DEF IsLater
    <2>2. /\ Recorded(u)' => Recorded(u)
          /\ \A p \in Places : HasReceipt(u, p)' => HasReceipt(u, p)
        BY <1>2, <1>4, <1>5, <2>1, SavedForOthers
    <2> QED BY <1>3, <2>1, <2>2 DEF Untouched
<1> QED BY <1>6, LaterKeeps

\* Steps that give a unit of the stage of the job, or of an earlier one, another revision.
LEMMA RevisedLater ==
    ASSUME TypeInv, Later, UNCHANGED <<phase, stage, records, receipts>>, NEW x \in Units, ~IsLater(x),
           \A u \in Units : u # x => revision'[u] = revision[u],
           \A u \in Units : u # x => unitStatus'[u] = unitStatus[u]
    PROVE  Later'
<1>1. ASSUME NEW u \in Units, IsLater(u)'
      PROVE  /\ IsLater(u)
             /\ Untouched(u) => unitStatus'[u] = "pending"
             /\ revision'[u] = revision[u]
    <2>1. IsLater(u) /\ u # x
        BY <1>1 DEF IsLater
    <2> QED BY <2>1 DEF Untouched
<1>2. \A u \in Units : revision'[u] = revision[u] => (Recorded(u)' => Recorded(u))
    BY DEF Recorded, RecordId, Cut
<1>3. \A u \in Units, p \in Places : revision'[u] = revision[u] => (HasReceipt(u, p)' => HasReceipt(u, p))
    BY DEF HasReceipt, IsReceipt
<1> QED BY <1>1, <1>2, <1>3, LaterKeeps

\* The end of a submission touches its unit and, in the reviews, those it sends back.
LEMMA EndSubmitLater ==
    ASSUME TypeInv, RunInv, DoneInv, StageInv, Later, op = "finish",
           NEW result \in {"done", "running"},
           NEW repairs \in SUBSET Units, repairs \subseteq Repairable,
           repairs # {} => StageOf[at] = "review", EndSubmit(result, repairs)
    PROVE  Later'
<1>1. /\ UNCHANGED <<phase, records, receipts>>
      /\ stage' = [u \in Units |-> IF u \in repairs THEN "review" ELSE stage[u]]
      /\ revision' = [u \in Units |-> IF u \in repairs THEN Suffixed(revision[u], "review")
                                      ELSE revision[u]]
      /\ unitStatus' = [u \in Units |-> IF u \in repairs THEN "pending"
                                        ELSE IF u = at THEN result ELSE unitStatus[u]]
    BY DEF EndSubmit, jobVars, targetVars
<1>2. at \in Units /\ ~IsLater(at)
    BY AtIsHere
<1>3. CASE repairs = {}
    <2>1. \A u \in Units : revision'[u] = revision[u] /\ stage'[u] = stage[u]
                           /\ (u # at => unitStatus'[u] = unitStatus[u])
        BY <1>1, <1>3
    <2>2. stage' = stage
        BY <1>1, <1>3 DEF TypeInv, TypeOK
    <2> QED BY <1>1, <1>2, <2>1, <2>2, RevisedLater
<1>4. CASE repairs # {}
    <2>1. Rank[phase] >= 5 /\ Rank[phase] \in 1..7
        BY <1>4, ReviewIsReached, StageRanks
    <2>2. \A u \in Units : Rank[stage'[u]] \in 1..5
        BY <1>1, Ranks, StageRanks
    <2> QED BY <1>1, <2>1, <2>2 DEF Later, IsLater
<1> QED BY <1>3, <1>4

\* Every unit that goes back gets a new suffix.
RequeuedRevisions(u) ==
    \A w \in Units :
        IF w \in Requeued(u)
        THEN \E rev \in Revisions, kind \in Kinds :
                 Until(rev, clock + 1) /\ revision'[w] = Suffixed(rev, kind)
        ELSE revision'[w] = revision[w]

\* A retry gives units new suffixes.
LEMMA RetryRevises ==
    ASSUME TypeInv, DoneInv, NEW u \in Units, Retry(u)
    PROVE  RequeuedRevisions(u)
<1>1. revision' = RetriedUnits(u)
    BY DEF Retry
<1> QED BY <1>1, RetriedIs DEF RequeuedRevisions, RetriedUnits, DoneInv, DataInv

\* A regeneration gives units new suffixes.
LEMMA RegenerateRevises ==
    ASSUME TypeInv, DoneInv, NEW u \in Units, Regenerate(u)
    PROVE  RequeuedRevisions(u)
<1>1. ~intent[u]
    BY IdleIs DEF Regenerate, Idle
<1>2. ASSUME NEW w \in Units
      PROVE  IF w \in Requeued(u)
             THEN \E rev \in Revisions, kind \in Kinds :
                      Until(rev, clock + 1) /\ revision'[w] = Suffixed(rev, kind)
             ELSE revision'[w] = revision[w]
    <2>1. u \in Requeued(u) /\ (w \in Chunks /\ u \in DependsOn[w] => w \in Requeued(u))
        BY DEF Requeued, Readings
    <2>2. RetriedUnits(u)[w] = IF w \in Requeued(u) THEN Retried(revision[w]) ELSE revision[w]
        BY DEF RetriedUnits
    <2>3. revision'[w] = IF w = u THEN Resolved(revision[u])
                         ELSE IF w \in Chunks /\ u \in DependsOn[w]
                              THEN Suffixed(RetriedUnits(u)[w], "resolved") ELSE RetriedUnits(u)[w]
        BY <1>1 DEF Regenerate
    <2> QED BY <2>1, <2>2, <2>3, RetriedIs DEF Kinds, DoneInv, DataInv
<1> QED BY <1>2 DEF RequeuedRevisions

\* Nothing is recorded for what goes back.
LEMMA BackUnrecorded ==
    ASSUME TypeInv, TypeInv', DoneInv, RecordsInv, RecordsInv', NEW u \in Units,
           RequeuedRevisions(u), UNCHANGED records, NEW w \in Requeued(u)
    PROVE  /\ revision'[w] # revision[w]
           /\ RecordOnly(w) => ~Recorded(w)'
<1>1. w \in Units /\ clock \in Nat
    BY DEF Requeued, TypeInv, TypeOK
<1>2. PICK rev \in Revisions, kind \in Kinds :
          Until(rev, clock + 1) /\ revision'[w] = Suffixed(rev, kind)
    BY <1>1 DEF RequeuedRevisions
<1>3. ~Until(revision'[w], clock)
    BY <1>1, <1>2, SuffixedIsNew
<1>4. revision'[w] # revision[w]
    BY <1>1, <1>3 DEF DoneInv, DataInv, Clocked
<1>5. ASSUME RecordOnly(w)
      PROVE  ~Recorded(w)'
    <2>1. revision'[w] \in Revisions /\ ~Resolvable(revision'[w])
        BY <1>1, <1>5 DEF RecordsInv, RecordOnly, Resolvable, TypeInv, TypeOK
    <2>2. RecordId(revision'[w]) = revision'[w]
        BY <2>1, PlainRecord
    <2>3. <<w, revision'[w]>> \notin records
        BY <1>3 DEF RecordsInv
    <2> QED BY <2>2, <2>3 DEF Recorded
<1> QED BY <1>4, <1>5

\* Going back: units of later stages get a revision that nothing is saved for.
LEMMA BackLater ==
    ASSUME TypeInv, TypeInv', DoneInv, RecordsInv, RecordsInv', Later, NEW u \in Units,
           Requeue(u), UNCHANGED <<stage, records, receipts>>, RequeuedRevisions(u)
    PROVE  Later'
<1>1. clock' = clock + 1 /\ phase' = stage[u] /\ clock \in Nat
    BY DEF Requeue, TypeInv, TypeOK
<1>2. \A w \in Units, p \in Places : revision'[w] # revision[w] => ~HasReceipt(w, p)'
    BY <1>1, Revised DEF DoneInv, DataInv, RequeuedRevisions
<1>3. ASSUME NEW w \in Units, IsLater(w)'
      PROVE  Untouched(w)'
    <2>1. w \in Requeued(u)
        BY <1>1, <1>3 DEF IsLater, Requeued
    <2>2. unitStatus'[w] = "pending"
        BY <2>1 DEF Requeue
    <2> QED BY <1>2, <2>1, <2>2, BackUnrecorded DEF Untouched, RecordOnly
<1> QED BY <1>3 DEF Later

\* A retry keeps Later.
LEMMA RetryLater ==
    ASSUME TypeInv, TypeInv', DoneInv, RecordsInv, RecordsInv', Later, NEW u \in Units, Retry(u)
    PROVE  Later'
BY RetryRevises, BackLater DEF Retry, targetVars

\* A regeneration keeps Later.
LEMMA RegenerateLater ==
    ASSUME TypeInv, TypeInv', DoneInv, RecordsInv, RecordsInv', Later, NEW u \in Units, Regenerate(u)
    PROVE  Later'
BY RegenerateRevises, BackLater DEF Regenerate, targetVars

\* A choice is made on a unit that is set aside, which does not wait.
LEMMA KeepLater ==
    ASSUME TypeInv, Later, NEW u \in Units, NEW next, Keep(u, next)
    PROVE  Later'
<1>1. /\ UNCHANGED <<phase, stage, records, receipts, unitStatus>>
      /\ \A w \in Units : w # u => revision'[w] = revision[w]
    BY DEF Keep, jobVars, targetVars, TypeInv, TypeOK
<1>2. ~IsLater(u)
    BY DEF Keep, Later, Untouched
<1> QED BY <1>1, <1>2, RevisedLater

\* The registry is edited when its merge has been reached.
LEMMA EditRegistryLater ==
    ASSUME TypeInv, StageInv, Later, EditRegistry
    PROVE  Later'
<1>1. /\ UNCHANGED <<phase, stage, records, receipts, unitStatus>> /\ phase = "registry_review"
      /\ Merge \in Units
      /\ \A w \in Units : w # Merge => revision'[w] = revision[w]
    BY JobAssumption DEF EditRegistry, jobVars, targetVars, TypeInv, TypeOK
<1>2. ~IsLater(Merge)
    BY <1>1, ReadStages, Ranks DEF StageInv, IsLater
<1> QED BY <1>1, <1>2, RevisedLater

\* The controls keep Later.
LEMMA ControlLater ==
    ASSUME TypeInv, TypeInv', RunInv, DoneInv, StageInv, RecordsInv, RecordsInv', Later, Control
    PROVE  Later'
<1>1. CASE Resume
    <2>1. ASSUME Resumed(unitStatus, refs, status = "running")
          PROVE  Later'
        <3>1. \A u \in Units : IsLater(u) => unitStatus[u] = "pending"
            BY DEF Later, Untouched
        <3>2. (status = "running") \in BOOLEAN
            OBVIOUS
        <3> QED BY <2>1, <3>1, <3>2, ResumedLater
    <2> QED BY <1>1, <2>1, KeepLater DEF Resume
<1>2. CASE Advance
    <2>1. CASE GoOn
        BY <1>2, <2>1, GoOnLater DEF Advance
    <2>2. CASE UNCHANGED <<jobVars, unitVars, records, targetVars, bounds>>
        <3>1. UNCHANGED <<phase, unitStatus, stage, revision, records, receipts>>
            BY <2>2 DEF jobVars, unitVars, targetVars
        <3> QED BY <3>1, StageRanks, SameLater
    <2> QED BY <1>2, <2>1, <2>2 DEF Advance
<1> QED BY <1>1, <1>2, EndLater, SkipLater, RetryLater, RegenerateLater, KeepLater,
           EditRegistryLater
        DEF Control

\* The steps of an operation keep Later.
LEMMA StepLater ==
    ASSUME TypeInv, TypeInv', RunInv, DoneInv, StageInv, Later, Step
    PROVE  Later'
<1>1. CASE FinishSubmit
    <2>1. op = "finish"
        BY <1>1 DEF FinishSubmit
    <2>2. PICK repairs \in IF StageOf[at] = "review" THEN SUBSET Repairable ELSE {{}} :
              EndSubmit("done", repairs) \/ EndSubmit("running", repairs)
        BY <1>1 DEF FinishSubmit
    <2>3. repairs \subseteq Repairable /\ (repairs # {} => StageOf[at] = "review")
        BY <2>2
    <2>4. repairs \in SUBSET Units
        BY <2>3 DEF Repairable
    <2> HIDE DEF Repairable
    <2> QED BY <2>1, <2>2, <2>3, <2>4, EndSubmitLater
<1>2. CASE ResumeKept
    <2>1. op = "kept" /\ Resumed(KeptStatus, KeptRefs, FALSE)
        BY <1>2 DEF ResumeKept
    <2>2. at \in Units /\ ~IsLater(at)
        BY <2>1, AtIsHere
    <2>3. \A u \in Units : IsLater(u) => KeptStatus[u] = "pending"
        BY <2>2 DEF KeptStatus, Later, Untouched, TypeInv, TypeOK
    <2> QED BY <2>1, <2>3, ResumedLater
<1>3. CASE AdvanceMerged
    <2>1. phase = "registry"
        BY <1>3 DEF AdvanceMerged, TypeInv, OpType
    <2> QED BY <1>3, <2>1, GoOnLater DEF AdvanceMerged
<1>4. CASE Edited
    <2>1. /\ phase = "registry_review" /\ phase' \in {phase, "integrate"}
          /\ UNCHANGED <<unitStatus, stage, revision, records, receipts>>
        BY <1>4 DEF Edited, StageInv, EditPhase, unitVars, targetVars
    <2>2. Rank[phase] <= Rank[phase']
        BY <2>1, Ranks
    <2> QED BY <2>1, <2>2, SameLater
<1> QED BY <1>1, <1>2, <1>3, <1>4, SaveLater, AtLater DEF Step

\* Every step keeps Later.
LEMMA LaterStep ==
    ASSUME TypeInv, TypeInv', RunInv, DoneInv, StageInv, RecordsInv, RecordsInv', Later, [Next]_vars
    PROVE  Later'
<1>1. CASE UNCHANGED vars \/ Interrupt \/ \E p \in Places : EditEntry(p)
    <2>1. UNCHANGED <<phase, unitStatus, stage, revision, records, receipts>>
        BY <1>1 DEF vars, Interrupt, EditEntry, jobVars, unitVars, targetVars
    <2> QED BY <2>1, StageRanks, SameLater
<1> QED BY <1>1, GetLater, OpenLater, SubmitLater, ControlLater, StepLater DEF Next

\* Every step keeps WaitInv.
LEMMA WaitStep ==
    ASSUME TypeInv, TypeInv', RunInv, DoneInv, WaitInv, [Next]_vars
    PROVE  WaitInv'
<1>1. StageInv'
    BY StageStep DEF WaitInv
<1>2. RecordsInv'
    BY RecordsStep DEF WaitInv
<1>3. Later'
    BY <1>2, LaterStep DEF WaitInv
<1> QED BY <1>1, <1>2, <1>3 DEF WaitInv

\* The job starts with WaitInv.
LEMMA WaitInit == Init => WaitInv
<1> SUFFICES ASSUME Init PROVE WaitInv
    OBVIOUS
<1>1. StageInv
    BY DEF Init, StageInv, StagePlan, AttemptStage, EditPhase
<1>2. RecordsInv
    BY EmptySeq DEF Init, RecordsInv, Resolvable
<1>3. Later
    BY EmptySeq DEF Init, Later, Untouched, Recorded, HasReceipt
<1> QED BY <1>1, <1>2, <1>3 DEF WaitInv

\* After going back to a stage nothing of a later stage counts as done, as long as
\* neither the saving of an edited registry nor a choice to keep what the user
\* wrote is interrupted.
THEOREM LaterStagesStayOpen == ASSUME Calm PROVE Spec => []LaterStagesWait
<1>1. TypeInv /\ RunInv /\ EditInv /\ DoneInv /\ WaitInv /\ [Next]_vars
          => TypeInv' /\ RunInv' /\ EditInv' /\ DoneInv' /\ WaitInv'
    <2>1. TypeInv /\ RunInv /\ EditInv /\ DoneInv /\ [Next]_vars
              => TypeInv' /\ RunInv' /\ EditInv' /\ DoneInv'
        BY TypeStep, RunStep, EditStep, DoneStep
    <2> QED BY <2>1, WaitStep
<1>2. WaitInv => LaterStagesWait
    BY DEF WaitInv, Later, IsLater, Untouched, LaterStagesWait
<1>3. Init => RunInv
    BY DEF Init, RunInv, RunningAgrees, OpAgrees, InFlight
<1> QED BY TypeInit, EditInit, DoneInit, WaitInit, <1>1, <1>2, <1>3, PTL DEF Spec
=============================================================================
