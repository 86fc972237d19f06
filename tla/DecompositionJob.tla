------------------------------ MODULE DecompositionJob ------------------------------
(***************************************************************************)
(* A job that takes a long book apart, as the core keeps it (utilities/    *)
(* long-book-decomposition).  The job file lists units of work; an agent   *)
(* works on packages of units and submits their results, which are saved   *)
(* in three places: a record in the task directory, the content with its   *)
(* receipt in the user's material libraries, and the status in the job     *)
(* file.  Between any two of these saves the core may end, and meanwhile   *)
(* the user edits the very entries that the job writes.                    *)
(*                                                                         *)
(* The core runs the operations of a job one after the other               *)
(* (commands.ts:216), so at most one of them is in progress.  What an      *)
(* operation has changed but not saved is lost when it is interrupted:     *)
(* the variables of the job are what the job file says, and an action      *)
(* changes them where the code saves.  Modelled is the mode "materials".   *)
(***************************************************************************)
EXTENDS Naturals, Sequences, FiniteSets, SequencesExt

CONSTANTS
    Units,
    Places,         \* entries of the material libraries, each in its own library
    StageOf,        \* the stage each unit is planned for
    DependsOn,
    PlacesOf,       \* the entries a unit writes, in order; none: the record is all
    Chunks,         \* units that hand out the readings they depend on
    Merge,          \* registry:merge
    AutoContinue,   \* does the job go on without a review of the registry?
    MaxAttempts,    \* packages a unit may be in before it has failed
    MaxPackages, MaxRevisions, MaxEdits,  \* bounds of the model
    Faults,         \* what may go wrong, see FaultNames
    Nil

\* crash: the core ends within an operation, or a save of the job fails;
\* writeError: saving a record or an entry fails; edit: the user edits entries;
\* editCrash, keepCrash: the same while an edited registry is saved, and while a
\* choice to keep what the user wrote is carried out;
\* emptyKeep: the user keeps a conflict of a unit that has no content of its own.
FaultNames == {"crash", "writeError", "edit", "editCrash", "keepCrash", "emptyKeep"}

Stages == {"read", "registry", "integrate", "review"}
Phases == Stages \cup {"registry_review", "finalize", "done"}
Readings == UNION {DependsOn[c] : c \in Chunks}

ASSUME JobAssumption ==
    /\ StageOf \in [Units -> Stages]
    /\ DependsOn \in [Units -> SUBSET Units]
    /\ PlacesOf \in [Units -> Seq(Places)]
    /\ Chunks \subseteq Units
    /\ Merge \in Units
    /\ \A u \in Readings \cup Chunks \cup {Merge} : PlacesOf[u] = <<>>
    /\ \A u \in Readings \cup Chunks : StageOf[u] = "read"
    /\ StageOf[Merge] = "registry"
    /\ \A u \in Units : \A d \in DependsOn[u] : StageOf[d] = StageOf[u]
    /\ \A S \in (SUBSET Units) \ {{}} : \E u \in S : DependsOn[u] \cap S = {}
    /\ \A u \in Units \ Chunks : DependsOn[u] \cap Readings = {}
    /\ \A b, c \in Chunks : b # c => DependsOn[b] \cap DependsOn[c] = {}
    /\ Chunks \cap Readings = {}
    /\ AutoContinue \in BOOLEAN
    /\ MaxAttempts \in Nat \ {0}
    /\ MaxPackages \in Nat
    /\ MaxRevisions \in Nat
    /\ MaxEdits \in Nat
    /\ Faults \subseteq FaultNames
    /\ Nil \notin Units

VARIABLES
    phase, status, active,      \* of the job: its stage, its state, the attempt that runs
    unitStatus, stage, attempts, attemptOf, revision, required, refs, approved, intent,
    records,                    \* the records of the task directory
    receipts,                   \* receipts of the libraries, in the order they were written
    content,                    \* the version of each entry, 0 if it does not exist
    op, at, todo, then,         \* the operation in progress
    issued, clock, edits

jobVars == <<phase, status, active>>
unitVars == <<unitStatus, stage, attempts, attemptOf, revision, required, refs, approved, intent>>
opVars == <<op, at, todo, then>>
targetVars == <<receipts, content>>
bounds == <<issued, clock, edits>>
vars == <<jobVars, unitVars, records, targetVars, opVars, bounds>>

\* A unit refers to the receipt that is n-th of its library: the version its
\* content had then, and whether the user owns that version.
NoRef == [n |-> 0, stamp |-> 0, owned |-> FALSE]

Init ==
    /\ phase = "read" /\ status = "idle" /\ active = 0
    /\ unitStatus = [u \in Units |-> "pending"]
    /\ stage = StageOf
    /\ attempts = [u \in Units |-> 0]
    /\ attemptOf = [u \in Units |-> 0]
    /\ revision = [u \in Units |-> <<>>]
    /\ required = [u \in Units |-> {}]
    /\ refs = [u \in Units |-> [p \in Places |-> NoRef]]
    /\ approved = [u \in Units |-> FALSE]
    /\ intent = [u \in Units |-> FALSE]
    /\ records = {}
    /\ receipts = <<>>
    /\ content = [p \in Places |-> 0]
    /\ op = "none" /\ at = Nil /\ todo = <<>> /\ then = "return"
    /\ issued = 0 /\ clock = 0 /\ edits = 0

-----------------------------------------------------------------------------
(* Revisions of a unit's input: suffixes after a base.                     *)

\* What precedes the first suffix of that kind.
Cut(rev, kind) ==
    LET n == CHOOSE k \in 0..Len(rev) :
                /\ \A i \in 1..k : rev[i].kind # kind
                /\ k < Len(rev) => rev[k + 1].kind = kind
    IN SubSeq(rev, 1, n)

Suffixed(rev, kind) == Append(rev, [kind |-> kind, time |-> clock + 1])
Retried(rev) == Suffixed(Cut(rev, "retry"), "retry")
Resolved(rev) == Suffixed(Cut(rev, "resolved"), "resolved")

\* Keeping an edit renames the receipt, not the submitted record.
RecordId(rev) == Cut(rev, "resolved")

-----------------------------------------------------------------------------
(* What is saved.                                                          *)

RecordOnly(u) == PlacesOf[u] = <<>>

IsReceipt(i, u, p) ==
    receipts[i].unit = u /\ receipts[i].rev = revision[u] /\ receipts[i].place = p
HasReceipt(u, p) == \E i \in DOMAIN receipts : IsReceipt(i, u, p)

Newest(p) == CHOOSE i \in DOMAIN receipts :
    /\ receipts[i].place = p
    /\ \A j \in DOMAIN receipts : receipts[j].place = p => j <= i
RefTo(i) == [n |-> i, stamp |-> receipts[i].stamp, owned |-> receipts[i].owned]

\* Mutant: the first receipt of a unit counts for all of them.
Saved_FirstReceipt(u) ==
    IF RecordOnly(u)
    THEN <<u, RecordId(revision[u])>> \in records
    ELSE \E p \in Places : HasReceipt(u, p)

\* The unit's current revision has its record or all its receipts.
Saved(u) ==
    IF RecordOnly(u)
    THEN <<u, RecordId(revision[u])>> \in records
    ELSE /\ \E p \in Places : HasReceipt(u, p)
         /\ \A p \in required[u] : HasReceipt(u, p)

\* The newest content of every entry the unit wrote is what was written last.
Intact(u) == \A p \in Places : HasReceipt(u, p) => receipts[Newest(p)].stamp = content[p]
NewestRefs(u) == [p \in Places |-> IF HasReceipt(u, p) THEN RefTo(Newest(p)) ELSE NoRef]

-----------------------------------------------------------------------------
(* Recovery: the job is corrected by what its records and receipts say.    *)

InFlight == {"running", "writing"}

Recovered(state) == [u \in Units |->
    IF Saved(u) THEN IF Intact(u) THEN "done" ELSE "conflict"
    ELSE IF state[u] = "done" THEN "conflict" ELSE state[u]]
RecoveredRefs(ref) == [u \in Units |-> IF Saved(u) THEN NewestRefs(u) ELSE ref[u]]

\* Mutant: a unit that is being written is left as it is.
Released_Running(state) == [u \in Units |-> IF state[u] = "running" THEN "pending" ELSE state[u]]

\* Units that were worked on wait again.
Released(state) == [u \in Units |-> IF state[u] \in InFlight THEN "pending" ELSE state[u]]

\* Mutant: released units have no attempt, not even none.
ReleasedFrom_Unset(state) ==
    [u \in {w \in Units : state[w] \notin InFlight} |-> attemptOf[u]]

ReleasedFrom(state) == [u \in Units |-> IF state[u] \in InFlight THEN 0 ELSE attemptOf[u]]

Idle == op = "none"

\* longBookDecomposition.getJob.  The main process asks to recover what is in
\* flight when it knows of no run of the job: also between the opening of a
\* package and the registration of its run, so either may be asked at any time.
Get(inFlight) ==
    LET state == Recovered(unitStatus)
        halts == inFlight /\ status = "running"
    IN /\ Idle
       /\ unitStatus' = IF halts THEN Released(state) ELSE state
       /\ attemptOf' = IF halts THEN ReleasedFrom(state) ELSE attemptOf
       /\ status' = IF halts THEN "stopped" ELSE status
       /\ active' = IF halts THEN 0 ELSE active
       /\ refs' = RecoveredRefs(refs)
       /\ UNCHANGED <<phase, stage, attempts, revision, required, approved, intent,
                      records, targetVars, opVars, bounds>>

-----------------------------------------------------------------------------
(* Packages: the agent is handed units and submits them one by one.        *)

ReadyIn(state) == {u \in Units \ Readings :
    /\ stage[u] = phase
    /\ phase \in Stages
    /\ state[u] = "pending"
    /\ attempts[u] < MaxAttempts
    /\ u \in Chunks \/ \A d \in DependsOn[u] : state[d] \in {"done", "skipped"}}

\* Mutant: a package is opened on the job as it was saved.
Open_Unrecovered(S) ==
    LET claimed == {u \in S \cup UNION {DependsOn[c] : c \in S \cap Chunks} : unitStatus[u] # "done"}
    IN /\ Idle
       /\ issued < MaxPackages
       /\ status # "running"
       /\ S # {} /\ S \subseteq ReadyIn(unitStatus)
       /\ issued' = issued + 1
       /\ status' = "running"
       /\ active' = issued + 1
       /\ unitStatus' = [u \in Units |-> IF u \in claimed THEN "running" ELSE unitStatus[u]]
       /\ attemptOf' = [u \in Units |-> IF u \in claimed THEN issued + 1 ELSE attemptOf[u]]
       /\ UNCHANGED <<phase, stage, attempts, revision, required, refs, approved, intent,
                      records, targetVars, opVars, clock, edits>>

\* A package of the ready units S gets the next attempt.
Open(S) ==
    LET state == Recovered(unitStatus)
        claimed == {u \in S \cup UNION {DependsOn[c] : c \in S \cap Chunks} : state[u] # "done"}
    IN /\ Idle
       /\ issued < MaxPackages
       /\ status # "running"
       /\ S # {} /\ S \subseteq ReadyIn(state)
       /\ issued' = issued + 1
       /\ status' = "running"
       /\ active' = issued + 1
       /\ unitStatus' = [u \in Units |-> IF u \in claimed THEN "running" ELSE state[u]]
       /\ attemptOf' = [u \in Units |-> IF u \in claimed THEN issued + 1 ELSE attemptOf[u]]
       /\ refs' = RecoveredRefs(refs)
       /\ UNCHANGED <<phase, stage, attempts, revision, required, approved, intent,
                      records, targetVars, opVars, clock, edits>>

Begin(what, u, places, next) ==
    /\ op' = what /\ at' = u /\ todo' = places /\ then' = next
Return == Begin("none", Nil, <<>>, "return")

\* A submission of a unit that is in the package that runs; any other is
\* refused and changes nothing.  A chunk ends when its readings are done.
Submit(u) ==
    /\ Idle
    /\ status = "running" /\ active # 0 /\ attemptOf[u] = active
    /\ unitStatus[u] \notin {"done", "conflict", "skipped"}
    /\ u \in Chunks => \A d \in DependsOn[u] : unitStatus[d] = "done"
    /\ unitStatus' = [unitStatus EXCEPT ![u] = "writing"]
    /\ required' = [required EXCEPT ![u] = Range(PlacesOf[u])]
    /\ Begin("record", u, PlacesOf[u], "return")
    /\ UNCHANGED <<jobVars, stage, attempts, attemptOf, revision, refs, approved, intent,
                   records, targetVars, bounds>>

SaveRecord ==
    /\ op = "record"
    /\ records' = records \cup {<<at, RecordId(revision[at])>>}
    /\ Begin(IF todo = <<>> THEN "finish" ELSE "write", at, todo, then)
    /\ UNCHANGED <<jobVars, unitVars, targetVars, bounds>>

-----------------------------------------------------------------------------
(* Writing an entry of a library.                                          *)

\* The newest references of the job to an entry.
LatestRefs(p) ==
    {refs[u][p] : u \in {v \in Units :
        refs[v][p].n # 0 /\ \A w \in Units : refs[w][p].n <= refs[v][p].n}}

\* Mutant: whatever the job has written may be written again.
Writable_Unchecked(u, p) ==
    \/ content[p] = 0
    \/ approved[u]
    \/ LatestRefs(p) # {}

\* An entry with text is replaced while it equals what the job wrote last.
\* (Two references may be equally new; the code takes the older unit's.  An
\* entry the job never wrote may also equal the new text; it is left as it is
\* then, and a conflict here, as no version is written twice.)
Writable(u, p) ==
    \/ content[p] = 0
    \/ approved[u]
    \/ \E ref \in LatestRefs(p) : ~ref.owned /\ ref.stamp = content[p]

Blocked(u, p) ==
    /\ content[p] # 0
    /\ ~approved[u]
    /\ \/ LatestRefs(p) = {}
       \/ \E ref \in LatestRefs(p) : ref.owned \/ ref.stamp # content[p]

Receipt(u, p, version, kept) ==
    [unit |-> u, rev |-> revision[u], place |-> p, stamp |-> version, owned |-> kept]

NextPlace ==
    Begin(IF Len(todo) = 1 THEN "finish" ELSE "write", at, Tail(todo), then)

\* The entry and its receipt are committed together, once per revision.
WriteEntry ==
    /\ op = "write"
    /\ \/ /\ HasReceipt(at, Head(todo))
          /\ UNCHANGED targetVars
       \/ /\ ~HasReceipt(at, Head(todo))
          /\ Writable(at, Head(todo))
          /\ content' = [content EXCEPT ![Head(todo)] = @ + 1]
          /\ receipts' = Append(receipts,
                             Receipt(at, Head(todo), content[Head(todo)] + 1, FALSE))
    /\ NextPlace
    /\ UNCHANGED <<jobVars, unitVars, records, bounds>>

\* Somebody else has written there: the unit is set aside.
MeetConflict ==
    /\ op = "write"
    /\ ~HasReceipt(at, Head(todo))
    /\ Blocked(at, Head(todo))
    /\ unitStatus' = [unitStatus EXCEPT ![at] = "conflict"]
    /\ Return
    /\ UNCHANGED <<jobVars, stage, attempts, attemptOf, revision, required, refs, approved, intent,
                   records, targetVars, bounds>>

WrittenRefs(u) == [p \in Places |->
    IF p \in Range(PlacesOf[u]) /\ HasReceipt(u, p)
    THEN RefTo(CHOOSE i \in DOMAIN receipts : IsReceipt(i, u, p))
    ELSE NoRef]

\* Saving failed before everything was written: the unit is open again.
SubmitFails ==
    /\ "writeError" \in Faults
    /\ op \in {"record", "write"}
    /\ unitStatus' = [unitStatus EXCEPT ![at] = "running"]
    /\ Return
    /\ UNCHANGED <<jobVars, stage, attempts, attemptOf, revision, required, refs, approved, intent,
                   records, targetVars, bounds>>

-----------------------------------------------------------------------------
(* The end of a submission, and the merge that needs no model.             *)

Part(u) == u \in DependsOn[Merge]

\* The parts of the registry are done and leave nothing to decide.
MayMerge(ph, state) ==
    /\ ph = "registry"
    /\ state[Merge] \notin {"done", "skipped", "conflict"}
    /\ \A d \in DependsOn[Merge] : state[d] = "done"

\* Whether parts leave something to decide is up to their contents.
ThenMerge(ph, state) ==
    \/ Return
    \/ MayMerge(ph, state) /\ Begin("mergeRecord", Merge, <<>>, "return")

\* A review sends units back: they are done again in the review stage.
Repairable == {u \in Units : stage[u] = "integrate"}

\* The last save of a submission.  When it fails the unit is open again, with
\* what the submission has changed besides.
EndSubmit(result, repairs) ==
    LET state == [u \in Units |-> IF u \in repairs THEN "pending"
                                  ELSE IF u = at THEN result ELSE unitStatus[u]]
    IN /\ unitStatus' = state
       /\ refs' = [refs EXCEPT ![at] = WrittenRefs(at)]
       /\ approved' = [approved EXCEPT ![at] = FALSE]
       /\ stage' = [u \in Units |-> IF u \in repairs THEN "review" ELSE stage[u]]
       /\ attempts' = [u \in Units |-> IF u \in repairs THEN 0 ELSE attempts[u]]
       /\ attemptOf' = [u \in Units |-> IF u \in repairs THEN 0 ELSE attemptOf[u]]
       /\ revision' = [u \in Units |-> IF u \in repairs THEN Suffixed(revision[u], "review")
                                       ELSE revision[u]]
       /\ clock' = IF repairs = {} THEN clock ELSE clock + 1
       /\ clock' <= MaxRevisions
       /\ IF result = "done" /\ Part(at) THEN ThenMerge(phase, state) ELSE Return
       /\ UNCHANGED <<jobVars, required, intent, records, targetVars, issued, edits>>

FinishSubmit ==
    /\ op = "finish"
    /\ \E repairs \in IF StageOf[at] = "review" THEN SUBSET Repairable ELSE {{}} :
          \/ EndSubmit("done", repairs)
          \/ "writeError" \in Faults /\ EndSubmit("running", repairs)

MergeRecord ==
    /\ op = "mergeRecord"
    /\ records' = records \cup {<<Merge, RecordId(revision[Merge])>>}
    /\ Begin("mergeDone", Merge, <<>>, then)
    /\ UNCHANGED <<jobVars, unitVars, targetVars, bounds>>

\* A registry that was merged on the way to the next stage goes on there.
MergeDone ==
    /\ op = "mergeDone"
    /\ unitStatus' = [unitStatus EXCEPT ![Merge] = "done"]
    /\ approved' = [approved EXCEPT ![Merge] = FALSE]
    /\ IF then = "advance" THEN Begin("advance", Nil, <<>>, "return") ELSE Return
    /\ UNCHANGED <<jobVars, stage, attempts, attemptOf, revision, required, refs, intent,
                   records, targetVars, bounds>>

-----------------------------------------------------------------------------
(* longBookDecomposition.control                                           *)

PackageUnits(attempt) ==
    {u \in Units : attemptOf[u] = attempt /\ unitStatus[u] \in InFlight}

\* finish-package: the attempt that runs has ended.  The units it leaves wait
\* for another attempt or have failed; a model that is out of quota does not
\* count; the job may pause because of its usage.
FinishPackage(quota) ==
    LET left == PackageUnits(active)
        tried == [u \in Units |-> IF u \in left /\ ~quota THEN attempts[u] + 1 ELSE attempts[u]]
        state == [u \in Units |->
            IF u \in left THEN IF ~quota /\ tried[u] >= MaxAttempts THEN "failed" ELSE "pending"
            ELSE unitStatus[u]]
    IN /\ Idle
       /\ active # 0
       /\ attempts' = tried
       /\ unitStatus' = state
       /\ attemptOf' = [u \in Units |-> IF u \in left THEN 0 ELSE attemptOf[u]]
       /\ \/ quota /\ status' = "stopped"
          \/ ~quota /\ (\E u \in Units : state[u] = "failed") /\ status' = "failed"
          \/ /\ ~quota /\ \A u \in Units : state[u] # "failed"
             /\ status' \in {"idle", "stopped"}
       /\ active' = 0
       /\ ThenMerge(phase, state)
       /\ UNCHANGED <<phase, stage, revision, required, refs, approved, intent,
                      records, targetVars, bounds>>

Stop ==
    /\ Idle
    /\ phase # "done"
    /\ status' = "stopped"
    /\ active' = 0
    /\ unitStatus' = Released(unitStatus)
    /\ attemptOf' = ReleasedFrom(unitStatus)
    /\ ThenMerge(phase, unitStatus')
    /\ UNCHANGED <<phase, stage, attempts, revision, required, refs, approved, intent,
                   records, targetVars, bounds>>

\* skip: a chunk that cannot be read, with what of it is not done.
Skip(c) ==
    /\ Idle
    /\ status # "running"
    /\ c \in Chunks
    /\ unitStatus' = [u \in Units |->
           IF u = c \/ (u \in DependsOn[c] /\ unitStatus[u] # "done")
           THEN "skipped" ELSE unitStatus[u]]
    /\ status' = "idle"
    /\ ThenMerge(phase, unitStatus')
    /\ UNCHANGED <<phase, active, stage, attempts, attemptOf, revision, required, refs, approved,
                   intent, records, targetVars, bounds>>

-----------------------------------------------------------------------------
(* Going back: retry and regenerate.                                       *)

Rank == [read |-> 1, registry |-> 2, registry_review |-> 3, integrate |-> 4, review |-> 5,
         finalize |-> 6, done |-> 7]

\* Mutant: the chunk of a reading is left as it is.
Requeued_Reading(u) ==
    {w \in Units : w = u \/ Rank[stage[w]] > Rank[stage[u]]}

\* The unit, the chunk of a reading, and every unit of a later stage.
Requeued(u) ==
    {w \in Units : \/ w = u
                   \/ u \in Readings /\ u \in DependsOn[w]
                   \/ Rank[stage[w]] > Rank[stage[u]]}

\* requeueDecompositionUnit, on a job that is not running.
Requeue(u) ==
    /\ unitStatus' = [w \in Units |-> IF w \in Requeued(u) THEN "pending" ELSE unitStatus[w]]
    /\ attempts' = [w \in Units |-> IF w \in Requeued(u) THEN 0 ELSE attempts[w]]
    /\ attemptOf' = [w \in Units |-> IF w \in Requeued(u) THEN 0 ELSE attemptOf[w]]
    /\ required' = [w \in Units |-> IF w \in Requeued(u) THEN {} ELSE required[w]]
    /\ phase' = stage[u]
    /\ status' = "idle"
    /\ active' = 0
    /\ clock < MaxRevisions
    /\ clock' = clock + 1

\* Mutant: later stages keep the revision their results were saved for.
RetriedUnits_Alone(u) ==
    [w \in Units |-> IF w = u THEN Retried(revision[w]) ELSE revision[w]]

RetriedUnits(u) ==
    [w \in Units |-> IF w \in Requeued(u) THEN Retried(revision[w]) ELSE revision[w]]

Retry(u) ==
    /\ Idle
    /\ status # "running"
    /\ unitStatus[u] \in {"failed", "skipped", "pending"}
    /\ phase # "done"
    /\ Requeue(u)
    /\ revision' = RetriedUnits(u)
    /\ ThenMerge(stage[u], unitStatus')
    /\ UNCHANGED <<stage, refs, approved, intent, records, targetVars, issued, edits>>

\* The user lets a unit overwrite what is there.
Regenerate(u) ==
    /\ Idle
    /\ unitStatus[u] = "conflict"
    /\ status # "running"
    /\ phase # "done"
    /\ Requeue(u)
    /\ revision' = [w \in Units |->
           IF w = u THEN IF intent[u] THEN revision[u] ELSE Resolved(revision[u])
           ELSE IF w \in Chunks /\ u \in DependsOn[w]
                THEN Suffixed(RetriedUnits(u)[w], "resolved") ELSE RetriedUnits(u)[w]]
    /\ refs' = [refs EXCEPT ![u] = [p \in Places |->
                   IF @[p].n = 0 THEN NoRef ELSE [n |-> @[p].n, stamp |-> content[p], owned |-> FALSE]]]
    /\ approved' = [approved EXCEPT ![u] = TRUE]
    /\ intent' = [intent EXCEPT ![u] = FALSE]
    /\ ThenMerge(stage[u], unitStatus')
    /\ UNCHANGED <<stage, records, targetVars, issued, edits>>

-----------------------------------------------------------------------------
(* Keeping what the user has written.                                      *)

Written(u, p) == refs[u][p].n # 0

\* The choice is saved first, so that an interrupted one can be resumed.
Keep(u, next) ==
    /\ Idle
    /\ unitStatus[u] = "conflict"
    /\ status # "running"
    /\ "emptyKeep" \in Faults \/ RecordOnly(u) \/ \E p \in Places : Written(u, p)
    /\ revision' = [revision EXCEPT ![u] = IF intent[u] THEN @ ELSE Resolved(@)]
    /\ clock' = IF intent[u] THEN clock ELSE clock + 1
    /\ clock' <= MaxRevisions
    /\ intent' = [intent EXCEPT ![u] = TRUE]
    /\ required' = [required EXCEPT ![u] = {p \in Places : Written(u, p)}]
    /\ Begin(IF RecordOnly(u) THEN "kept" ELSE "keep", u, PlacesOf[u], next)
    /\ UNCHANGED <<jobVars, unitStatus, stage, attempts, attemptOf, refs, approved,
                   records, targetVars, issued, edits>>

\* Mutant: an entry that the unit has a receipt of, whatever revision, needs none.
KeepEntry_Once ==
    /\ op = "keep"
    /\ receipts' = IF \E i \in DOMAIN receipts : receipts[i].unit = at /\ receipts[i].place = Head(todo)
                   THEN receipts
                   ELSE Append(receipts, Receipt(at, Head(todo), content[Head(todo)], TRUE))
    /\ Begin(IF Len(todo) = 1 THEN "kept" ELSE "keep", at, Tail(todo), then)
    /\ UNCHANGED <<jobVars, unitVars, content, records, bounds>>

\* A receipt takes over what is in the library where the unit has written.
KeepEntry ==
    /\ op = "keep"
    /\ receipts' = IF ~Written(at, Head(todo)) \/ HasReceipt(at, Head(todo)) THEN receipts
                   ELSE Append(receipts, Receipt(at, Head(todo), content[Head(todo)], TRUE))
    /\ Begin(IF Len(todo) = 1 THEN "kept" ELSE "keep", at, Tail(todo), then)
    /\ UNCHANGED <<jobVars, unitVars, content, records, bounds>>

KeptStatus == [unitStatus EXCEPT ![at] = "done"]
KeptRefs == [refs EXCEPT ![at] = WrittenRefs(at)]
OtherChoices == {w \in Units : intent[w]} \ {at}

\* The choice has been carried out.  When others wait to be resumed the first
\* save of the next makes this one durable; resuming it is a step of its own.
Kept ==
    /\ op = "kept"
    /\ then = "return" \/ OtherChoices # {}
    /\ unitStatus' = KeptStatus
    /\ refs' = KeptRefs
    /\ intent' = [intent EXCEPT ![at] = FALSE]
    /\ attemptOf' = [attemptOf EXCEPT ![at] = 0]
    /\ status' = IF phase = "done" THEN "completed" ELSE "idle"
    /\ ThenMerge(phase, unitStatus')
    /\ UNCHANGED <<phase, active, stage, attempts, revision, required, approved,
                   records, targetVars, bounds>>

\* Mutant: what has failed may be tried again, but its attempts are used up.
Resumed_Exhausted(state, ref, halts) ==
    LET found == Recovered(state)
        fresh == {u \in Units : stage[u] = phase /\ found[u] = "failed"}
    IN /\ unitStatus' = [u \in Units |-> IF u \in fresh THEN "pending"
                                         ELSE IF halts THEN Released(found)[u] ELSE found[u]]
       /\ attemptOf' = [u \in Units |->
              IF u \in fresh \/ intent[u] \/ (halts /\ found[u] \in InFlight) THEN 0 ELSE attemptOf[u]]
       /\ intent' = [u \in Units |-> FALSE]
       /\ refs' = RecoveredRefs(ref)
       /\ status' = "idle"
       /\ active' = IF halts THEN 0 ELSE active
       /\ ThenMerge(phase, unitStatus')
       /\ UNCHANGED <<phase, stage, attempts, revision, required, approved, records, targetVars, bounds>>

\* The rest of resume, on a job whose choices have been carried out: the job
\* is recovered, and what has failed in its stage may be tried again.
Resumed(state, ref, halts) ==
    LET found == Recovered(state)
        fresh == {u \in Units : stage[u] = phase /\ found[u] = "failed"}
    IN /\ unitStatus' = [u \in Units |-> IF u \in fresh THEN "pending"
                                         ELSE IF halts THEN Released(found)[u] ELSE found[u]]
       /\ attempts' = [u \in Units |-> IF u \in fresh THEN 0 ELSE attempts[u]]
       /\ attemptOf' = [u \in Units |->
              IF u \in fresh \/ intent[u] \/ (halts /\ found[u] \in InFlight) THEN 0 ELSE attemptOf[u]]
       /\ intent' = [u \in Units |-> FALSE]
       /\ refs' = RecoveredRefs(ref)
       /\ status' = "idle"
       /\ active' = IF halts THEN 0 ELSE active
       /\ ThenMerge(phase, unitStatus')
       /\ UNCHANGED <<phase, stage, revision, required, approved, records, targetVars, bounds>>

\* A choice that was interrupted comes first; it is refused on a unit that is
\* in conflict no more, and nothing is resumed then.
Resume ==
    /\ phase # "done"
    /\ \/ /\ Idle
          /\ \A u \in Units : ~intent[u]
          /\ Resumed(unitStatus, refs, status = "running")
       \/ \E u \in Units : intent[u] /\ Keep(u, "resume")

ResumeKept ==
    /\ op = "kept" /\ then = "resume"
    /\ OtherChoices = {}
    /\ Resumed(KeptStatus, KeptRefs, FALSE)

-----------------------------------------------------------------------------
(* From stage to stage.                                                    *)

Unfinished(state) == {u \in Units : state[u] \notin {"done", "skipped"}}

\* finalizeDecomposition: everything is done, saved and as it was written.
Complete ==
    /\ Unfinished(unitStatus) = {}
    /\ \A u \in Units : unitStatus[u] = "done" =>
           Saved(u) /\ Intact(u) /\ <<u, RecordId(revision[u])>> \in records

Finalize ==
    \/ /\ Complete
       /\ phase' = "done" /\ status' = "completed"
       /\ refs' = [u \in Units |-> IF unitStatus[u] = "done" THEN NewestRefs(u) ELSE refs[u]]
    \/ /\ ~Complete
       /\ phase' = "finalize" /\ status' = "failed"
       /\ UNCHANGED refs

\* The phase that follows one whose units are done; the registry is reviewed
\* by the user unless the job goes on by itself.
NextPhase ==
    CASE phase \in {"read", "registry"} ->
            IF phase = "read" /\ unitStatus[Merge] # "done" THEN "registry"
            ELSE IF AutoContinue THEN "integrate" ELSE "registry_review"
      [] phase = "registry_review" -> "registry_review"
      [] phase = "integrate" -> "review"
      [] phase \in {"review", "finalize"} -> "finalize"

GoOn ==
    /\ phase = "finalize" \/ \A u \in Unfinished(unitStatus) : stage[u] # phase
    /\ IF NextPhase = "finalize"
       THEN Finalize
       ELSE phase' = NextPhase /\ UNCHANGED <<status, refs>>
    /\ Return
    /\ UNCHANGED <<active, unitStatus, stage, attempts, attemptOf, revision, required, approved,
                   intent, records, targetVars, bounds>>

\* advance: a merge that needs no model is finished first.
Advance ==
    /\ Idle
    /\ phase # "done"
    /\ status # "running"
    /\ \/ GoOn
       \/ /\ MayMerge(phase, unitStatus)
          /\ Begin("mergeRecord", Merge, <<>>, "advance")
          /\ UNCHANGED <<jobVars, unitVars, records, targetVars, bounds>>

AdvanceMerged == op = "advance" /\ GoOn

-----------------------------------------------------------------------------
(* saveRegistry: the user edits the registry.  The job is saved with the   *)
(* new revision before its record is.  The number of the edit suffix is one *)
(* more than that of the suffix it replaces, and a retry either keeps that *)
(* suffix or cuts it with what precedes it and appends its own time: no    *)
(* revision of an edit comes twice, as with the clock.                     *)

EditRegistry ==
    /\ Idle
    /\ phase = "registry_review"
    /\ status # "running"
    /\ <<Merge, RecordId(revision[Merge])>> \in records
    /\ clock < MaxRevisions
    /\ clock' = clock + 1
    /\ revision' = [revision EXCEPT ![Merge] = Suffixed(Cut(@, "edit"), "edit")]
    /\ Begin("editRecord", Merge, <<>>, "return")
    /\ UNCHANGED <<jobVars, unitStatus, stage, attempts, attemptOf, required, refs, approved, intent,
                   records, targetVars, issued, edits>>

EditRecord ==
    /\ op = "editRecord"
    /\ records' = records \cup {<<Merge, RecordId(revision[Merge])>>}
    /\ Begin("edited", Merge, <<>>, "return")
    /\ UNCHANGED <<jobVars, unitVars, targetVars, bounds>>

\* Saved, or saved and confirmed.
Edited ==
    /\ op = "edited"
    /\ phase' \in {phase, "integrate"}
    /\ Return
    /\ UNCHANGED <<status, active, unitVars, records, targetVars, bounds>>

-----------------------------------------------------------------------------
(* What happens besides.                                                   *)

\* The core ends, or the job cannot be saved: the rest of the operation is lost.
Interrupt ==
    /\ ~Idle
    /\ CASE op = "editRecord" -> "editCrash" \in Faults
         [] op \in {"keep", "kept"} -> "keepCrash" \in Faults
         [] OTHER -> "crash" \in Faults
    /\ Return
    /\ UNCHANGED <<jobVars, unitVars, records, targetVars, bounds>>

EditEntry(p) ==
    /\ "edit" \in Faults
    /\ content[p] # 0
    /\ edits < MaxEdits
    /\ edits' = edits + 1
    /\ content' = [content EXCEPT ![p] = @ + 1]
    /\ UNCHANGED <<jobVars, unitVars, records, receipts, opVars, issued, clock>>

Control ==
    \/ \E q \in BOOLEAN : FinishPackage(q)
    \/ Stop
    \/ Resume
    \/ Advance
    \/ EditRegistry
    \/ \E u \in Units : Skip(u) \/ Retry(u) \/ Regenerate(u) \/ Keep(u, "return")

Step ==
    \/ SaveRecord \/ WriteEntry \/ MeetConflict \/ SubmitFails \/ FinishSubmit
    \/ MergeRecord \/ MergeDone \/ AdvanceMerged
    \/ KeepEntry \/ Kept \/ ResumeKept
    \/ EditRecord \/ Edited

Next ==
    \/ \E flag \in BOOLEAN : Get(flag)
    \/ \E S \in SUBSET Units : Open(S)
    \/ \E u \in Units : Submit(u)
    \/ Control
    \/ Step
    \/ Interrupt
    \/ \E p \in Places : EditEntry(p)

Spec == Init /\ [][Next]_vars

-----------------------------------------------------------------------------
(* Properties.                                                             *)

Revisions == Seq([kind : {"retry", "resolved", "review", "edit"}, time : Nat])
Ref == [n : Nat, stamp : Nat, owned : BOOLEAN]
UnitStatuses == {"pending", "running", "writing", "done", "failed", "skipped", "conflict"}
Operations == {"none", "record", "write", "finish", "mergeRecord", "mergeDone", "advance",
               "keep", "kept", "editRecord", "edited"}

\* Every variable has its type.
TypeOK ==
    /\ phase \in Phases
    /\ status \in {"idle", "running", "stopped", "failed", "completed"}
    /\ active \in Nat
    /\ unitStatus \in [Units -> UnitStatuses]
    /\ stage \in [Units -> Stages]
    /\ attempts \in [Units -> Nat]
    /\ attemptOf \in [Units -> Nat]
    /\ revision \in [Units -> Revisions]
    /\ required \in [Units -> SUBSET Places]
    /\ refs \in [Units -> [Places -> Ref]]
    /\ approved \in [Units -> BOOLEAN]
    /\ intent \in [Units -> BOOLEAN]
    /\ records \in SUBSET (Units \X Revisions)
    /\ receipts \in Seq([unit : Units, rev : Revisions, place : Places, stamp : Nat, owned : BOOLEAN])
    /\ content \in [Places -> Nat]
    /\ op \in Operations
    /\ at \in Units \cup {Nil}
    /\ todo \in Seq(Places)
    /\ then \in {"return", "resume", "advance"}
    /\ issued \in Nat /\ clock \in Nat /\ edits \in Nat

\* The units that are being worked on are those of the attempt that runs, and
\* there are none when no package runs, whatever was stopped or interrupted.
RunningAgrees ==
    /\ status = "running" => active # 0
    /\ status # "running" => active = 0
    /\ \A u \in Units : unitStatus[u] \in InFlight => active # 0 /\ attemptOf[u] = active

\* A unit is done when its record, or all its entries with their receipts, are
\* saved for its current revision, except while an edited registry is saved.
DoneIsSaved ==
    \A u \in Units : unitStatus[u] = "done" /\ ~(op = "editRecord" /\ at = u) =>
        IF RecordOnly(u)
        THEN <<u, RecordId(revision[u])>> \in records
        ELSE \A p \in Range(PlacesOf[u]) : HasReceipt(u, p)

\* After going back to a stage nothing of a later stage counts as done, whatever
\* records and receipts earlier revisions have left behind.
LaterStagesWait ==
    \A u \in Units : Rank[stage[u]] > Rank[phase] => unitStatus[u] = "pending"

\* A job that is resumed goes on with what its stage has left: unless a unit waits
\* for the user, there is one among the pending that can be handed out.
ContinueHasWork ==
    /\ Idle /\ status # "running" /\ phase \in Stages
    /\ \A u \in Units : unitStatus[u] \in {"pending", "done", "skipped"}
    /\ \E u \in Units : stage[u] = phase /\ unitStatus[u] = "pending"
    => ReadyIn(unitStatus) # {}

\* A review has sent back a unit that others depend on, or that depends on others.
Uprooted ==
    \E u \in Units : \E d \in DependsOn[u] : stage[u] # StageOf[u] \/ stage[d] # StageOf[d]

\* A job can go on wherever it was stopped or sent back to, whatever was skipped or
\* had failed, until a review sends back a unit of a dependency.
WorkGoesOn == ContinueHasWork \/ Uprooted

ByUser(p) ==
    /\ content[p] # 0
    /\ \A i \in DOMAIN receipts :
          receipts[i].place = p /\ receipts[i].stamp = content[p] => receipts[i].owned

\* Text of the user is overwritten only when the user has had a unit that
\* writes there generated again.
EditsSurvive ==
    [][\A p \in Places : ByUser(p) /\ Len(receipts') > Len(receipts) /\ content'[p] # content[p]
           => \E u \in Units : p \in Range(PlacesOf[u]) /\ approved[u]]_vars

\* Work that is saved is never handed out again.
WorkIsKept ==
    [][\A u \in Units : unitStatus[u] # "running" /\ active' # active /\ unitStatus'[u] = "running"
           => ~Saved(u)]_vars

\* What the user chose to keep is not overwritten without asking: a unit that
\* writes there next would be set aside.
KeptIsAsked ==
    \A p \in Places :
        LatestRefs(p) # {} /\ (\A ref \in LatestRefs(p) : ref.owned /\ ref.stamp = content[p])
            => \A u \in Units : p \in Range(PlacesOf[u]) => Blocked(u, p)
=============================================================================
