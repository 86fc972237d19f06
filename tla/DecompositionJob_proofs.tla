-------------------------- MODULE DecompositionJob_proofs --------------------------
(***************************************************************************)
(* Theorems about DecompositionJob, for any plan of units, any entries and *)
(* any bounds.                                                             *)
(*                                                                         *)
(* The types come first: TypeInv adds to TypeOK which of its locals an     *)
(* operation has set.  Then                                                *)
(*   - units in progress belong to the attempt that runs: OpAgrees says    *)
(*     that a submission writes within it and a choice of the user does    *)
(*     not;                                                                *)
(*   - text of the user survives: what a unit refers to as the job's own   *)
(*     was written by the job (RefsTrue), so a text that no receipt of     *)
(*     the job vouches for is not writable;                                *)
(*   - saved work is not handed out: a package is opened on the recovered  *)
(*     job, in which what is saved is done or in conflict;                 *)
(*   - done units are saved: DoneInv follows an operation from save to     *)
(*     save (Progress), with revisions that are never used again           *)
(*     (Clocked).                                                          *)
(*                                                                         *)
(* For each invariant there is one lemma per action, a lemma for the       *)
(* controls and one for the steps of an operation, and one for Next.       *)
(***************************************************************************)
EXTENDS DecompositionJob, WellFoundedInduction, SequenceTheorems, TLAPS

Suffix == [kind : {"retry", "resolved", "review", "edit"}, time : Nat]

\* A set of numbers has a least one.
LEMMA Least ==
    ASSUME NEW T \in SUBSET Nat, T # {}
    PROVE  \E x \in T : \A y \in T : x <= y
<1> DEFINE R == OpToRel(<, Nat)
<1>1. IsWellFoundedOn(R, Nat)
    BY NatLessThanWellFounded
<1>2. R = {ss \in Nat \X Nat : ss[1] < ss[2]}
    BY DEF OpToRel
<1> HIDE DEF R
<1>3. \E x \in T : \A y \in T : <<y, x>> \notin R
    BY <1>1, WFMin
<1>4. PICK x \in T : \A y \in T : <<y, x>> \notin R
    BY <1>3
<1>5. \A y \in T : x <= y
    <2> TAKE y \in T
    <2>1. x \in Nat /\ y \in Nat
        OBVIOUS
    <2>2. ~(y < x)
        BY <1>2, <1>4, <2>1
    <2> QED BY <2>1, <2>2
<1> QED BY <1>5

\* The cut of a revision is defined.
LEMMA CutEnds ==
    ASSUME NEW rev \in Revisions, NEW kind
    PROVE  \E k \in 0..Len(rev) : /\ \A i \in 1..k : rev[i].kind # kind
                                  /\ k < Len(rev) => rev[k + 1].kind = kind
<1> DEFINE T == {k \in 1..Len(rev) : rev[k].kind = kind}
           Ends(k) == /\ \A i \in 1..k : rev[i].kind # kind
                      /\ k < Len(rev) => rev[k + 1].kind = kind
<1>1. Len(rev) \in Nat
    BY DEF Revisions
<1>2. CASE T = {}
    <2>1. Ends(Len(rev))
        BY <1>1, <1>2
    <2> QED BY <1>1, <2>1
<1>3. CASE T # {}
    <2>1. T \in SUBSET Nat
        BY <1>1
    <2>2. \E x \in T : \A y \in T : x <= y
        <3> HIDE DEF T
        <3> QED BY <1>3, <2>1, Least
    <2>3. PICK x \in T : \A y \in T : x <= y
        BY <2>2
    <2>4. Ends(x - 1)
        BY <1>1, <2>3
    <2>5. x - 1 \in 0..Len(rev)
        BY <1>1, <2>3
    <2> QED BY <2>4, <2>5
<1> QED BY <1>2, <1>3

\* The cut of a revision is a revision.
LEMMA CutType ==
    ASSUME NEW rev \in Revisions, NEW kind
    PROVE  Cut(rev, kind) \in Revisions
<1> DEFINE Ends(k) == /\ \A i \in 1..k : rev[i].kind # kind
                      /\ k < Len(rev) => rev[k + 1].kind = kind
<1>1. Len(rev) \in Nat
    BY DEF Revisions
<1>2. \E k \in 0..Len(rev) : Ends(k)
    BY CutEnds
<1>3. \A n \in 0..Len(rev) : SubSeq(rev, 1, n) \in Revisions
    <2> TAKE n \in 0..Len(rev)
    <2>1. rev \in Seq(Suffix)
        BY DEF Revisions, Suffix
    <2>2. \A i \in 1..n : rev[i] \in Suffix
        BY <2>1
    <2>3. n \in Int
        BY <1>1
    <2>4. SubSeq(rev, 1, n) \in Seq(Suffix)
        BY <2>2, <2>3, SubSeqProperties
    <2> QED BY <2>4 DEF Suffix, Revisions
<1> HIDE DEF Ends
<1>4. (CHOOSE k \in 0..Len(rev) : Ends(k)) \in 0..Len(rev)
    BY <1>2
<1> QED BY <1>3, <1>4 DEF Cut, Ends

\* What is made of revisions are revisions.
LEMMA RevisionTypes ==
    ASSUME NEW rev \in Revisions, clock \in Nat
    PROVE  /\ \A kind \in {"retry", "resolved", "review", "edit"} : Suffixed(rev, kind) \in Revisions
           /\ Retried(rev) \in Revisions
           /\ Resolved(rev) \in Revisions
           /\ RecordId(rev) \in Revisions
           /\ Suffixed(Cut(rev, "edit"), "edit") \in Revisions
<1>1. \A r \in Revisions, kind \in {"retry", "resolved", "review", "edit"} : Suffixed(r,
    kind) \in Revisions
    BY DEF Revisions, Suffixed
<1>2. \A kind : Cut(rev, kind) \in Revisions
    BY CutType
<1> QED BY <1>1, <1>2 DEF Retried, Resolved, RecordId

ReceiptRecord == [unit : Units, rev : Revisions, place : Places, stamp : Nat, owned : BOOLEAN]

\* The newest receipt of an entry, if there is one, is later than the others.
LEMMA NewestIs ==
    ASSUME NEW p, NEW n \in DOMAIN receipts, receipts[n].place = p, receipts \in Seq(ReceiptRecord)
    PROVE  /\ Newest(p) \in DOMAIN receipts
           /\ receipts[Newest(p)].place = p
           /\ \A j \in DOMAIN receipts : receipts[j].place = p => j <= Newest(p)
<1> DEFINE Is(i) == /\ receipts[i].place = p
                    /\ \A j \in DOMAIN receipts : receipts[j].place = p => j <= i
           T == {Len(receipts) - j : j \in {i \in DOMAIN receipts : receipts[i].place = p}}
<1>1. Len(receipts) \in Nat /\ DOMAIN receipts = 1..Len(receipts)
    OBVIOUS
<1>2. T \in SUBSET Nat /\ T # {}
    BY <1>1
<1>3. \E x \in T : \A y \in T : x <= y
    <2> HIDE DEF T
    <2> QED BY <1>2, Least
<1>4. PICK x \in T : \A y \in T : x <= y
    BY <1>3
<1>5. PICK i \in DOMAIN receipts : receipts[i].place = p /\ x = Len(receipts) - i
    BY <1>4
<1>6. ASSUME NEW j \in DOMAIN receipts, receipts[j].place = p
      PROVE  j <= i
    <2>1. Len(receipts) - j \in T
        BY <1>6
    <2>2. Len(receipts) - i <= Len(receipts) - j
        BY <2>1, <1>4, <1>5
    <2> QED BY <2>2, <1>1
<1>7. Is(i)
    BY <1>5, <1>6
<1>8. \E k \in DOMAIN receipts : Is(k)
    BY <1>7
<1> HIDE DEF Is
<1>9. (CHOOSE k \in DOMAIN receipts : Is(k)) \in DOMAIN receipts /\ Is(CHOOSE k \in DOMAIN receipts : Is(k))
    BY <1>8
<1>10. Newest(p) = CHOOSE k \in DOMAIN receipts : Is(k)
    BY DEF Newest, Is
<1> QED BY <1>9, <1>10 DEF Is

\* References made from receipts have their type.
LEMMA RefTypes ==
    ASSUME TypeOK
    PROVE  /\ \A i \in DOMAIN receipts : RefTo(i) \in Ref
           /\ \A u \in Units : NewestRefs(u) \in [Places -> Ref]
           /\ \A u \in Units : WrittenRefs(u) \in [Places -> Ref]
           /\ NoRef \in Ref
<1>1. receipts \in Seq(ReceiptRecord)
    BY DEF TypeOK, ReceiptRecord
<1>2. ASSUME NEW i \in DOMAIN receipts
      PROVE  RefTo(i) \in Ref
    <2>1. receipts[i] \in ReceiptRecord /\ i \in Nat
        BY <1>1
    <2> QED BY <2>1 DEF RefTo, Ref, ReceiptRecord
<1>3. NoRef \in Ref
    BY DEF NoRef, Ref
<1>4. ASSUME NEW u \in Units, NEW p \in Places, HasReceipt(u, p)
      PROVE  /\ Newest(p) \in DOMAIN receipts
             /\ (CHOOSE i \in DOMAIN receipts : IsReceipt(i, u, p)) \in DOMAIN receipts
    <2>1. PICK i \in DOMAIN receipts : IsReceipt(i, u, p)
        BY <1>4 DEF HasReceipt
    <2>2. receipts[i].place = p
        BY <2>1 DEF IsReceipt
    <2>3. Newest(p) \in DOMAIN receipts
        BY <1>1, <2>2, NewestIs
    <2> QED BY <2>1, <2>3
<1>5. \A u \in Units : NewestRefs(u) \in [Places -> Ref]
    BY <1>2, <1>3, <1>4 DEF NewestRefs
<1>6. \A u \in Units : WrittenRefs(u) \in [Places -> Ref]
    BY <1>2, <1>3, <1>4 DEF WrittenRefs
<1> QED BY <1>2, <1>3, <1>5, <1>6

\* Recovery keeps the types.
LEMMA RecoveredTypes ==
    ASSUME TypeOK, NEW state \in [Units -> UnitStatuses], NEW ref \in [Units -> [Places -> Ref]]
    PROVE  /\ Recovered(state) \in [Units -> UnitStatuses]
           /\ RecoveredRefs(ref) \in [Units -> [Places -> Ref]]
           /\ Released(state) \in [Units -> UnitStatuses]
           /\ ReleasedFrom(state) \in [Units -> Nat]
<1>1. RecoveredRefs(ref) \in [Units -> [Places -> Ref]]
    BY RefTypes DEF RecoveredRefs
<1>2. Recovered(state) \in [Units -> UnitStatuses]
    BY DEF Recovered, UnitStatuses
<1>3. Released(state) \in [Units -> UnitStatuses]
    BY DEF Released, UnitStatuses
<1>4. ReleasedFrom(state) \in [Units -> Nat]
    BY DEF ReleasedFrom, TypeOK
<1> QED BY <1>1, <1>2, <1>3, <1>4

OpType ==
    /\ op \in Operations
    /\ at \in Units \cup {Nil}
    /\ todo \in Seq(Places)
    /\ then \in {"return", "resume", "advance"}
    /\ op \notin {"none", "advance"} => at \in Units
    /\ op \in {"write", "keep"} => todo # <<>>
    /\ op \in {"mergeRecord", "mergeDone", "advance"} => phase = "registry"

TypeInv == TypeOK /\ OpType

\* What is left to be written or kept.
LEMMA TodoTypes ==
    ASSUME TypeInv, op \in {"write", "keep"}
    PROVE  /\ at \in Units
           /\ todo \in Seq(Places) /\ todo # <<>>
           /\ then \in {"return", "resume", "advance"}
           /\ Head(todo) \in Places
           /\ Tail(todo) \in Seq(Places)
           /\ Len(todo) # 1 => Tail(todo) # <<>>
<1>1. at \in Units /\ todo \in Seq(Places) /\ todo # <<>> /\ then \in {"return", "resume", "advance"}
    BY DEF TypeInv, OpType
<1>2. Len(todo) \in Nat \ {0} /\ Len(Tail(todo)) = Len(todo) - 1
    BY <1>1
<1>3. Tail(todo) = <<>> => Len(Tail(todo)) = 0
    BY EmptySeq
<1>4. Len(todo) # 1 => Len(Tail(todo)) # 0
    BY <1>2
<1>5. Head(todo) \in Places /\ Tail(todo) \in Seq(Places)
    BY <1>1
<1> QED BY <1>1, <1>3, <1>4, <1>5, Zenon

\* The entries of a unit are entries.
LEMMA RangeType ==
    ASSUME NEW u \in Units
    PROVE  PlacesOf[u] \in Seq(Places) /\ Range(PlacesOf[u]) \in SUBSET Places
BY JobAssumption DEF Range

\* A job that goes back keeps its types.
LEMMA RequeueTypes ==
    ASSUME TypeInv, NEW u \in Units, Requeue(u)
    PROVE  /\ phase' \in Phases
           /\ status' \in {"idle", "running", "stopped", "failed", "completed"}
           /\ active' \in Nat /\ clock' \in Nat
           /\ unitStatus' \in [Units -> UnitStatuses]
           /\ attempts' \in [Units -> Nat] /\ attemptOf' \in [Units -> Nat]
           /\ required' \in [Units -> SUBSET Places]
BY DEF Requeue, Phases, UnitStatuses, TypeInv, TypeOK

\* Get keeps the types.
LEMMA GetType ==
    ASSUME TypeInv, NEW flag \in BOOLEAN, Get(flag)
    PROVE  TypeInv'
<1>1. UNCHANGED <<phase, stage, attempts, revision, required, approved, intent, records, receipts,
                  content, issued, clock, edits, op, at, todo, then>>
    BY DEF Get, opVars, targetVars, bounds
<1>2. unitStatus' \in [Units -> UnitStatuses]
    BY RecoveredTypes DEF TypeInv, TypeOK, Get
<1>3. attemptOf' \in [Units -> Nat]
    BY RecoveredTypes DEF TypeInv, TypeOK, Get
<1>4. status' \in {"idle", "running", "stopped", "failed", "completed"}
    BY DEF TypeInv, TypeOK, Get
<1>5. active' \in Nat
    BY DEF TypeInv, TypeOK, Get
<1>6. refs' \in [Units -> [Places -> Ref]]
    BY RecoveredTypes DEF TypeInv, TypeOK, Get
<1> QED BY <1>1, <1>2, <1>3, <1>4, <1>5, <1>6 DEF TypeInv, TypeOK, OpType, ReceiptRecord

\* Open keeps the types.
LEMMA OpenType ==
    ASSUME TypeInv, NEW S \in SUBSET Units, Open(S)
    PROVE  TypeInv'
<1>1. UNCHANGED <<phase, stage, attempts, revision, required, approved, intent, records, receipts,
                  content, clock, edits, op, at, todo, then>>
    BY DEF Open, opVars, targetVars
<1>2. issued' \in Nat
    BY DEF TypeInv, TypeOK, Open
<1>3. status' \in {"idle", "running", "stopped", "failed", "completed"}
    BY DEF TypeInv, TypeOK, Open
<1>4. active' \in Nat
    BY DEF TypeInv, TypeOK, Open
<1>5. unitStatus' \in [Units -> UnitStatuses]
    <2>1. Recovered(unitStatus) \in [Units -> UnitStatuses]
        BY RecoveredTypes DEF TypeInv, TypeOK
    <2> QED BY <2>1 DEF TypeInv, TypeOK, UnitStatuses, Open
<1>6. attemptOf' \in [Units -> Nat]
    BY DEF TypeInv, TypeOK, Open
<1>7. refs' \in [Units -> [Places -> Ref]]
    BY RecoveredTypes DEF TypeInv, TypeOK, Open
<1> QED BY <1>1, <1>2, <1>3, <1>4, <1>5, <1>6, <1>7 DEF TypeInv, TypeOK, OpType, ReceiptRecord

\* Submit keeps the types.
LEMMA SubmitType ==
    ASSUME TypeInv, NEW u \in Units, Submit(u)
    PROVE  TypeInv'
<1>1. UNCHANGED <<phase, status, active, stage, attempts, attemptOf, revision, refs, approved, intent,
                  records, receipts, content, issued, clock, edits>>
    BY DEF Submit, jobVars, targetVars, bounds
<1>2. unitStatus' \in [Units -> UnitStatuses]
    BY DEF TypeInv, TypeOK, Submit, UnitStatuses
<1>3. required' \in [Units -> SUBSET Places]
    BY RangeType DEF TypeInv, TypeOK, Submit
<1>4. OpType'
    BY RangeType DEF TypeInv, TypeOK, OpType, Submit, Begin, Operations, RecordOnly
<1> QED BY <1>1, <1>2, <1>3, <1>4 DEF TypeInv, TypeOK, OpType, ReceiptRecord

\* SaveRecord keeps the types.
LEMMA SaveRecordType ==
    ASSUME TypeInv, SaveRecord
    PROVE  TypeInv'
<1>1. UNCHANGED <<phase, status, active, unitStatus, stage, attempts, attemptOf, revision, required,
                  refs, approved, intent, receipts, content, issued, clock, edits>>
    BY DEF SaveRecord, jobVars, unitVars, targetVars, bounds
<1>2. records' \in SUBSET (Units \X Revisions)
    <2>1. at \in Units /\ revision[at] \in Revisions /\ clock \in Nat
        BY JobAssumption DEF TypeInv, TypeOK, OpType, SaveRecord
    <2>2. <<at, RecordId(revision[at])>> \in Units \X Revisions
        BY <2>1, RevisionTypes
    <2> QED BY <2>2 DEF TypeInv, TypeOK, SaveRecord
<1>3. OpType'
    BY DEF TypeInv, TypeOK, OpType, SaveRecord, Begin, Operations
<1> QED BY <1>1, <1>2, <1>3 DEF TypeInv, TypeOK, OpType, ReceiptRecord

\* WriteEntry keeps the types.
LEMMA WriteEntryType ==
    ASSUME TypeInv, WriteEntry
    PROVE  TypeInv'
<1>1. UNCHANGED <<phase, status, active, unitStatus, stage, attempts, attemptOf, revision, required,
                  refs, approved, intent, records, issued, clock, edits>>
    BY DEF WriteEntry, jobVars, unitVars, targetVars, bounds
<1>2. content' \in [Places -> Nat]
    <2>1. at \in Units /\ Head(todo) \in Places
        BY TodoTypes DEF WriteEntry
    <2>2. \/ content' = content
          \/ content' = [content EXCEPT ![Head(todo)] = @ + 1]
        BY DEF WriteEntry, targetVars
    <2>3. content \in [Places -> Nat]
        BY DEF TypeInv, TypeOK
    <2> QED BY <2>1, <2>2, <2>3
<1>3. receipts' \in Seq(ReceiptRecord)
    <2>1. at \in Units /\ Head(todo) \in Places
        BY TodoTypes DEF WriteEntry
    <2>2. Receipt(at, Head(todo), content[Head(todo)] + 1, FALSE) \in ReceiptRecord
        BY <2>1 DEF TypeInv, TypeOK, Receipt, ReceiptRecord
    <2>3. \/ receipts' = receipts
          \/ receipts' = Append(receipts, Receipt(at, Head(todo), content[Head(todo)] + 1, FALSE))
        BY DEF WriteEntry, targetVars
    <2>4. receipts \in Seq(ReceiptRecord)
        BY DEF TypeInv, TypeOK, ReceiptRecord
    <2>5. \A x \in ReceiptRecord : Append(receipts, x) \in Seq(ReceiptRecord)
        BY <2>4, AppendProperties
    <2> QED BY <2>2, <2>3, <2>4, <2>5
<1>4. OpType'
    BY TodoTypes DEF OpType, WriteEntry, NextPlace, Begin, Operations
<1> QED BY <1>1, <1>2, <1>3, <1>4 DEF TypeInv, TypeOK, OpType, ReceiptRecord

\* MeetConflict keeps the types.
LEMMA MeetConflictType ==
    ASSUME TypeInv, MeetConflict
    PROVE  TypeInv'
<1>1. UNCHANGED <<phase, status, active, stage, attempts, attemptOf, revision, required, refs,
                  approved, intent, records, receipts, content, issued, clock, edits>>
    BY DEF MeetConflict, jobVars, targetVars, bounds
<1>2. unitStatus' \in [Units -> UnitStatuses]
    BY DEF TypeInv, TypeOK, MeetConflict, UnitStatuses
<1>3. OpType'
    BY DEF TypeInv, TypeOK, OpType, MeetConflict, Return, Begin, Operations
<1> QED BY <1>1, <1>2, <1>3 DEF TypeInv, TypeOK, OpType, ReceiptRecord

\* SubmitFails keeps the types.
LEMMA SubmitFailsType ==
    ASSUME TypeInv, SubmitFails
    PROVE  TypeInv'
<1>1. UNCHANGED <<phase, status, active, stage, attempts, attemptOf, revision, required, refs,
                  approved, intent, records, receipts, content, issued, clock, edits>>
    BY DEF SubmitFails, jobVars, targetVars, bounds
<1>2. unitStatus' \in [Units -> UnitStatuses]
    BY DEF TypeInv, TypeOK, SubmitFails, UnitStatuses
<1>3. OpType'
    BY DEF TypeInv, TypeOK, OpType, SubmitFails, Return, Begin, Operations
<1> QED BY <1>1, <1>2, <1>3 DEF TypeInv, TypeOK, OpType, ReceiptRecord

\* KeepEntry keeps the types.
LEMMA KeepEntryType ==
    ASSUME TypeInv, KeepEntry
    PROVE  TypeInv'
<1>1. UNCHANGED <<phase, status, active, unitStatus, stage, attempts, attemptOf, revision, required,
                  refs, approved, intent, records, content, issued, clock, edits>>
    BY DEF KeepEntry, jobVars, unitVars, bounds
<1>2. receipts' \in Seq(ReceiptRecord)
    <2>1. at \in Units /\ Head(todo) \in Places
        BY TodoTypes DEF KeepEntry
    <2>2. Receipt(at, Head(todo), content[Head(todo)], TRUE) \in ReceiptRecord
        BY <2>1 DEF TypeInv, TypeOK, Receipt, ReceiptRecord
    <2>3. \/ receipts' = receipts
          \/ receipts' = Append(receipts, Receipt(at, Head(todo), content[Head(todo)], TRUE))
        BY DEF KeepEntry
    <2>4. receipts \in Seq(ReceiptRecord)
        BY DEF TypeInv, TypeOK, ReceiptRecord
    <2>5. \A x \in ReceiptRecord : Append(receipts, x) \in Seq(ReceiptRecord)
        BY <2>4, AppendProperties
    <2> QED BY <2>2, <2>3, <2>4, <2>5
<1>3. OpType'
    BY TodoTypes DEF OpType, KeepEntry, Begin, Operations
<1> QED BY <1>1, <1>2, <1>3 DEF TypeInv, TypeOK, OpType, ReceiptRecord

\* MergeRecord keeps the types.
LEMMA MergeRecordType ==
    ASSUME TypeInv, MergeRecord
    PROVE  TypeInv'
<1>1. UNCHANGED <<phase, status, active, unitStatus, stage, attempts, attemptOf, revision, required,
                  refs, approved, intent, receipts, content, issued, clock, edits>>
    BY DEF MergeRecord, jobVars, unitVars, targetVars, bounds
<1>2. records' \in SUBSET (Units \X Revisions)
    <2>1. Merge \in Units /\ revision[Merge] \in Revisions /\ clock \in Nat
        BY JobAssumption DEF TypeInv, TypeOK, OpType, MergeRecord
    <2>2. <<Merge, RecordId(revision[Merge])>> \in Units \X Revisions
        BY <2>1, RevisionTypes
    <2> QED BY <2>2 DEF TypeInv, TypeOK, MergeRecord
<1>3. OpType'
    <2>1. Merge \in Units
        BY JobAssumption
    <2> QED BY <1>1, <2>1 DEF TypeInv, OpType, MergeRecord, Begin, Operations
<1> QED BY <1>1, <1>2, <1>3 DEF TypeInv, TypeOK, OpType, ReceiptRecord

\* MergeDone keeps the types.
LEMMA MergeDoneType ==
    ASSUME TypeInv, MergeDone
    PROVE  TypeInv'
<1>1. UNCHANGED <<phase, status, active, stage, attempts, attemptOf, revision, required, refs, intent,
                  records, receipts, content, issued, clock, edits>>
    BY DEF MergeDone, jobVars, targetVars, bounds
<1>2. unitStatus' \in [Units -> UnitStatuses]
    BY DEF TypeInv, TypeOK, MergeDone, UnitStatuses
<1>3. approved' \in [Units -> BOOLEAN]
    BY DEF TypeInv, TypeOK, MergeDone
<1>4. OpType'
    <2>1. phase' = "registry"
        BY <1>1 DEF TypeInv, OpType, MergeDone
    <2>2. Return \/ Begin("advance", Nil, <<>>, "return")
        BY DEF MergeDone
    <2>3. CASE Return
        BY <2>3 DEF OpType, Return, Begin, Operations
    <2>4. CASE Begin("advance", Nil, <<>>, "return")
        BY <2>1, <2>4 DEF OpType, Begin, Operations
    <2> QED BY <2>2, <2>3, <2>4
<1> QED BY <1>1, <1>2, <1>3, <1>4 DEF TypeInv, TypeOK, OpType, ReceiptRecord

\* A merge of the record that an operation is followed by has its type.
LEMMA ThenMergeType ==
    ASSUME TypeInv, NEW ph, NEW state, phase' = ph, ThenMerge(ph, state)
    PROVE  OpType'
<1>1. Return \/ (phase' = "registry" /\ Begin("mergeRecord", Merge, <<>>, "return"))
    BY DEF ThenMerge, MayMerge
<1>2. Merge \in Units
    BY JobAssumption
<1>3. CASE Return
    BY <1>3 DEF OpType, Return, Begin, Operations
<1>4. CASE phase' = "registry" /\ Begin("mergeRecord", Merge, <<>>, "return")
    BY <1>2, <1>4 DEF OpType, Begin, Operations
<1> QED BY <1>1, <1>3, <1>4

\* FinishPackage keeps the types.
LEMMA FinishPackageType ==
    ASSUME TypeInv, NEW q \in BOOLEAN, FinishPackage(q)
    PROVE  TypeInv'
<1>1. UNCHANGED <<phase, stage, revision, required, refs, approved, intent, records, receipts, content,
                  issued, clock, edits>>
    BY DEF FinishPackage, targetVars, bounds
<1>2. attempts' \in [Units -> Nat]
    BY DEF TypeInv, TypeOK, FinishPackage
<1>3. unitStatus' \in [Units -> UnitStatuses]
    <2>1. \A u \in Units : unitStatus'[u] \in UnitStatuses
        BY DEF TypeInv, TypeOK, FinishPackage, UnitStatuses
    <2>2. unitStatus' = [u \in Units |-> unitStatus'[u]]
        BY DEF FinishPackage
    <2> QED BY <2>1, <2>2
<1>4. attemptOf' \in [Units -> Nat]
    BY DEF TypeInv, TypeOK, FinishPackage
<1>5. status' \in {"idle", "running", "stopped", "failed", "completed"}
    BY DEF TypeInv, TypeOK, FinishPackage
<1>6. active' \in Nat
    BY DEF TypeInv, TypeOK, FinishPackage
<1>7. OpType'
    <2>1. phase' = phase
        BY DEF FinishPackage
    <2>2. ThenMerge(phase, unitStatus')
        BY DEF FinishPackage
    <2> QED BY <2>1, <2>2, ThenMergeType
<1> QED BY <1>1, <1>2, <1>3, <1>4, <1>5, <1>6, <1>7 DEF TypeInv, TypeOK, OpType, ReceiptRecord

\* Stop keeps the types.
LEMMA StopType ==
    ASSUME TypeInv, Stop
    PROVE  TypeInv'
<1>1. UNCHANGED <<phase, stage, attempts, revision, required, refs, approved, intent, records,
                  receipts, content, issued, clock, edits>>
    BY DEF Stop, targetVars, bounds
<1>2. status' \in {"idle", "running", "stopped", "failed", "completed"}
    BY DEF TypeInv, TypeOK, Stop
<1>3. active' \in Nat
    BY DEF TypeInv, TypeOK, Stop
<1>4. unitStatus' \in [Units -> UnitStatuses]
    BY RecoveredTypes DEF TypeInv, TypeOK, Stop
<1>5. attemptOf' \in [Units -> Nat]
    BY RecoveredTypes DEF TypeInv, TypeOK, Stop
<1>6. OpType'
    <2>1. phase' = phase
        BY DEF Stop
    <2>2. ThenMerge(phase, unitStatus')
        BY DEF Stop
    <2> QED BY <2>1, <2>2, ThenMergeType
<1> QED BY <1>1, <1>2, <1>3, <1>4, <1>5, <1>6 DEF TypeInv, TypeOK, OpType, ReceiptRecord

\* Skip keeps the types.
LEMMA SkipType ==
    ASSUME TypeInv, NEW c \in Units, Skip(c)
    PROVE  TypeInv'
<1>1. UNCHANGED <<phase, active, stage, attempts, attemptOf, revision, required, refs, approved,
                  intent, records, receipts, content, issued, clock, edits>>
    BY DEF Skip, targetVars, bounds
<1>2. unitStatus' \in [Units -> UnitStatuses]
    BY DEF TypeInv, TypeOK, Skip, UnitStatuses
<1>3. status' \in {"idle", "running", "stopped", "failed", "completed"}
    BY DEF TypeInv, TypeOK, Skip
<1>4. OpType'
    <2>1. phase' = phase
        BY DEF Skip
    <2>2. ThenMerge(phase, unitStatus')
        BY DEF Skip
    <2> QED BY <2>1, <2>2, ThenMergeType
<1> QED BY <1>1, <1>2, <1>3, <1>4 DEF TypeInv, TypeOK, OpType, ReceiptRecord

\* EditRecord keeps the types.
LEMMA EditRecordType ==
    ASSUME TypeInv, EditRecord
    PROVE  TypeInv'
<1>1. UNCHANGED <<phase, status, active, unitStatus, stage, attempts, attemptOf, revision, required,
                  refs, approved, intent, receipts, content, issued, clock, edits>>
    BY DEF EditRecord, jobVars, unitVars, targetVars, bounds
<1>2. records' \in SUBSET (Units \X Revisions)
    <2>1. Merge \in Units /\ revision[Merge] \in Revisions /\ clock \in Nat
        BY JobAssumption DEF TypeInv, TypeOK, OpType, EditRecord
    <2>2. <<Merge, RecordId(revision[Merge])>> \in Units \X Revisions
        BY <2>1, RevisionTypes
    <2> QED BY <2>2 DEF TypeInv, TypeOK, EditRecord
<1>3. OpType'
    BY JobAssumption DEF TypeInv, TypeOK, OpType, EditRecord, Begin, Operations
<1> QED BY <1>1, <1>2, <1>3 DEF TypeInv, TypeOK, OpType, ReceiptRecord

\* EditRegistry keeps the types.
LEMMA EditRegistryType ==
    ASSUME TypeInv, EditRegistry
    PROVE  TypeInv'
<1>1. UNCHANGED <<phase, status, active, unitStatus, stage, attempts, attemptOf, required, refs,
                  approved, intent, records, receipts, content, issued, edits>>
    BY DEF EditRegistry, jobVars, targetVars
<1>2. clock' \in Nat
    BY DEF TypeInv, TypeOK, EditRegistry
<1>3. revision' \in [Units -> Revisions]
    <2>1. Suffixed(Cut(revision[Merge], "edit"), "edit") \in Revisions
        BY JobAssumption, RevisionTypes DEF TypeInv, TypeOK
    <2> QED BY <2>1 DEF TypeInv, TypeOK, EditRegistry
<1>4. OpType'
    BY JobAssumption DEF TypeInv, TypeOK, OpType, EditRegistry, Begin, Operations
<1> QED BY <1>1, <1>2, <1>3, <1>4 DEF TypeInv, TypeOK, OpType, ReceiptRecord

\* Edited keeps the types.
LEMMA EditedType ==
    ASSUME TypeInv, Edited
    PROVE  TypeInv'
<1>1. UNCHANGED <<status, active, unitStatus, stage, attempts, attemptOf, revision, required, refs,
                  approved, intent, records, receipts, content, issued, clock, edits>>
    BY DEF Edited, unitVars, targetVars, bounds
<1>2. phase' \in Phases
    BY DEF TypeInv, TypeOK, Edited, Phases, Stages
<1>3. OpType'
    BY DEF TypeInv, TypeOK, OpType, Edited, Return, Begin, Operations
<1> QED BY <1>1, <1>2, <1>3 DEF TypeInv, TypeOK, OpType, ReceiptRecord

\* Interrupt keeps the types.
LEMMA InterruptType ==
    ASSUME TypeInv, Interrupt
    PROVE  TypeInv'
<1>1. UNCHANGED <<phase, status, active, unitStatus, stage, attempts, attemptOf, revision, required,
                  refs, approved, intent, records, receipts, content, issued, clock, edits>>
    BY DEF Interrupt, jobVars, unitVars, targetVars, bounds
<1>2. OpType'
    BY DEF TypeInv, TypeOK, OpType, Interrupt, Return, Begin, Operations
<1> QED BY <1>1, <1>2 DEF TypeInv, TypeOK, OpType, ReceiptRecord

\* EditEntry keeps the types.
LEMMA EditEntryType ==
    ASSUME TypeInv, NEW p \in Places, EditEntry(p)
    PROVE  TypeInv'
<1>1. UNCHANGED <<phase, status, active, unitStatus, stage, attempts, attemptOf, revision, required,
                  refs, approved, intent, records, receipts, issued, clock, op, at, todo, then>>
    BY DEF EditEntry, jobVars, unitVars, opVars
<1>2. edits' \in Nat
    BY DEF TypeInv, TypeOK, EditEntry
<1>3. content' \in [Places -> Nat]
    <2>1. content[p] + 1 \in Nat
        BY DEF TypeInv, TypeOK
    <2> QED BY <2>1 DEF TypeInv, TypeOK, EditEntry
<1> QED BY <1>1, <1>2, <1>3 DEF TypeInv, TypeOK, OpType, ReceiptRecord

\* Keep keeps the types.
LEMMA KeepType ==
    ASSUME TypeInv, NEW u \in Units, NEW next \in {"return", "resume"}, Keep(u, next)
    PROVE  TypeInv'
<1>1. UNCHANGED <<phase, status, active, unitStatus, stage, attempts, attemptOf, refs, approved,
                  records, receipts, content, issued, edits>>
    BY DEF Keep, jobVars, targetVars
<1>2. clock' \in Nat
    BY DEF TypeInv, TypeOK, Keep
<1>3. revision' \in [Units -> Revisions]
    <2>1. Resolved(revision[u]) \in Revisions
        BY RevisionTypes DEF TypeInv, TypeOK
    <2> QED BY <2>1 DEF TypeInv, TypeOK, Keep
<1>4. required' \in [Units -> SUBSET Places]
    BY DEF TypeInv, TypeOK, Keep
<1>5. intent' \in [Units -> BOOLEAN]
    BY DEF TypeInv, TypeOK, Keep
<1>6. OpType'
    BY RangeType DEF TypeInv, TypeOK, OpType, Keep, Begin, Operations, RecordOnly
<1> QED BY <1>1, <1>2, <1>3, <1>4, <1>5, <1>6 DEF TypeInv, TypeOK, OpType, ReceiptRecord

\* Kept keeps the types.
LEMMA KeptType ==
    ASSUME TypeInv, Kept
    PROVE  TypeInv'
<1>1. UNCHANGED <<phase, active, stage, attempts, revision, required, approved, records, receipts,
                  content, issued, clock, edits>>
    BY DEF Kept, targetVars, bounds
<1>2. unitStatus' \in [Units -> UnitStatuses]
    BY DEF TypeInv, TypeOK, Kept, KeptStatus, UnitStatuses
<1>3. refs' \in [Units -> [Places -> Ref]]
    <2>1. at \in Units /\ WrittenRefs(at) \in [Places -> Ref]
        BY RefTypes DEF TypeInv, OpType, Kept
    <2> QED BY <2>1 DEF TypeInv, TypeOK, Kept, KeptRefs
<1>4. intent' \in [Units -> BOOLEAN]
    BY DEF TypeInv, TypeOK, Kept
<1>5. attemptOf' \in [Units -> Nat]
    BY DEF TypeInv, TypeOK, Kept
<1>6. status' \in {"idle", "running", "stopped", "failed", "completed"}
    BY DEF TypeInv, TypeOK, Kept
<1>7. OpType'
    <2>1. phase' = phase
        BY DEF Kept
    <2>2. ThenMerge(phase, unitStatus')
        BY DEF Kept
    <2> QED BY <2>1, <2>2, ThenMergeType
<1> QED BY <1>1, <1>2, <1>3, <1>4, <1>5, <1>6, <1>7 DEF TypeInv, TypeOK, OpType, ReceiptRecord

\* The job goes on to another stage.
LEMMA GoOnType ==
    ASSUME TypeInv, phase # "done", GoOn
    PROVE  TypeInv'
<1>1. UNCHANGED <<active, unitStatus, stage, attempts, attemptOf, revision, required, approved, intent,
                  records, receipts, content, issued, clock, edits>>
    BY DEF GoOn, targetVars, bounds
<1>2. phase' \in Phases
    <2>1. NextPhase \in Phases
        <3>1. phase \in {"read", "registry", "registry_review", "integrate", "review", "finalize"}
            BY DEF TypeInv, TypeOK, Phases, Stages
        <3>2. CASE phase \in {"read", "registry"}
            BY <3>2 DEF NextPhase, Phases, Stages
        <3>3. CASE phase \in {"registry_review", "integrate", "review", "finalize"}
            BY <3>3 DEF NextPhase, Phases, Stages
        <3> QED BY <3>1, <3>2, <3>3
    <2>2. phase' \in {"done", "finalize", NextPhase}
        BY DEF GoOn, Finalize
    <2> QED BY <2>1, <2>2 DEF Phases
<1>3. status' \in {"idle", "running", "stopped", "failed", "completed"}
    <2>1. status' \in {"completed", "failed", status}
        BY DEF GoOn, Finalize
    <2> QED BY <2>1 DEF TypeInv, TypeOK
<1>4. refs' \in [Units -> [Places -> Ref]]
    <2>1. \A u \in Units : NewestRefs(u) \in [Places -> Ref]
        BY RefTypes DEF TypeInv
    <2>2. \/ refs' = refs
          \/ refs' = [u \in Units |-> IF unitStatus[u] = "done" THEN NewestRefs(u) ELSE refs[u]]
        BY DEF GoOn, Finalize
    <2>3. refs \in [Units -> [Places -> Ref]]
        BY DEF TypeInv, TypeOK
    <2>4. CASE refs' = refs
        BY <2>3, <2>4
    <2>5. CASE refs' = [u \in Units |-> IF unitStatus[u] = "done" THEN NewestRefs(u) ELSE refs[u]]
        BY <2>1, <2>3, <2>5
    <2> QED BY <2>2, <2>4, <2>5
<1>5. OpType'
    <2>1. op' = "none" /\ at' = Nil /\ todo' = <<>> /\ then' = "return"
        BY DEF GoOn, Return, Begin
    <2> QED BY <2>1 DEF OpType, Operations
<1> QED BY <1>1, <1>2, <1>3, <1>4, <1>5 DEF TypeInv, TypeOK, OpType, ReceiptRecord

\* Retry keeps the types.
LEMMA RetryType ==
    ASSUME TypeInv, NEW u \in Units, Retry(u)
    PROVE  TypeInv'
<1>1. UNCHANGED <<stage, refs, approved, intent, records, receipts, content, issued, edits>>
    BY DEF Retry, targetVars
<1>2. Requeue(u)
    BY DEF Retry
<1>3. revision' \in [Units -> Revisions]
    <2>1. \A w \in Units : Retried(revision[w]) \in Revisions
        BY RevisionTypes DEF TypeInv, TypeOK
    <2> QED BY <2>1 DEF TypeInv, TypeOK, Retry, RetriedUnits
<1>4. OpType'
    <2>1. phase' = stage[u]
        BY DEF Retry, Requeue
    <2>2. ThenMerge(stage[u], unitStatus')
        BY DEF Retry
    <2> QED BY <2>1, <2>2, ThenMergeType
<1> QED BY <1>1, <1>2, <1>3, <1>4, RequeueTypes DEF TypeInv, TypeOK, OpType, ReceiptRecord

\* Regenerate keeps the types.
LEMMA RegenerateType ==
    ASSUME TypeInv, NEW u \in Units, Regenerate(u)
    PROVE  TypeInv'
<1>1. UNCHANGED <<stage, records, receipts, content, issued, edits>>
    BY DEF Regenerate, targetVars
<1>2. Requeue(u)
    BY DEF Regenerate
<1>3. revision' \in [Units -> Revisions]
    <2>1. \A w \in Units : /\ RetriedUnits(u)[w] \in Revisions
                           /\ Resolved(revision[w]) \in Revisions
        BY RevisionTypes DEF TypeInv, TypeOK, RetriedUnits
    <2>2. \A w \in Units : Suffixed(RetriedUnits(u)[w], "resolved") \in Revisions
        BY <2>1, RevisionTypes DEF TypeInv, TypeOK
    <2> QED BY <2>1, <2>2 DEF TypeInv, TypeOK, Regenerate
<1>4. refs' \in [Units -> [Places -> Ref]]
    <2>1. NoRef \in Ref
        BY RefTypes DEF TypeInv
    <2>2. \A x \in Places : [n |-> refs[u][x].n, stamp |-> content[x], owned |-> FALSE] \in Ref
        BY DEF TypeInv, TypeOK, Ref
    <2> QED BY <2>1, <2>2 DEF TypeInv, TypeOK, Regenerate
<1>5. approved' \in [Units -> BOOLEAN]
    BY DEF TypeInv, TypeOK, Regenerate
<1>6. intent' \in [Units -> BOOLEAN]
    BY DEF TypeInv, TypeOK, Regenerate
<1>7. OpType'
    <2>1. phase' = stage[u]
        BY DEF Regenerate, Requeue
    <2>2. ThenMerge(stage[u], unitStatus')
        BY DEF Regenerate
    <2> QED BY <2>1, <2>2, ThenMergeType
<1> QED BY <1>1, <1>2, <1>3, <1>4, <1>5, <1>6, <1>7, RequeueTypes DEF TypeInv, TypeOK, OpType,
       ReceiptRecord

\* A job is resumed.
LEMMA ResumedType ==
    ASSUME TypeInv, NEW halts \in BOOLEAN, NEW state \in [Units -> UnitStatuses],
           NEW ref \in [Units -> [Places -> Ref]], Resumed(state, ref, halts)
    PROVE  TypeInv'
<1>1. UNCHANGED <<phase, stage, revision, required, approved, records, receipts, content, issued,
                  clock, edits>>
    BY DEF Resumed, targetVars, bounds
<1>2. unitStatus' \in [Units -> UnitStatuses]
    <2>1. /\ Recovered(state) \in [Units -> UnitStatuses]
          /\ Released(Recovered(state)) \in [Units -> UnitStatuses]
        BY RecoveredTypes DEF TypeInv
    <2>2. "pending" \in UnitStatuses
        BY DEF UnitStatuses
    <2> QED BY <2>1, <2>2 DEF Resumed
<1>3. attempts' \in [Units -> Nat]
    BY DEF TypeInv, TypeOK, Resumed
<1>4. attemptOf' \in [Units -> Nat]
    BY DEF TypeInv, TypeOK, Resumed
<1>5. intent' \in [Units -> BOOLEAN]
    BY DEF TypeInv, TypeOK, Resumed
<1>6. refs' \in [Units -> [Places -> Ref]]
    BY RecoveredTypes DEF TypeInv, TypeOK, Resumed
<1>7. status' \in {"idle", "running", "stopped", "failed", "completed"}
    BY DEF TypeInv, TypeOK, Resumed
<1>8. active' \in Nat
    BY DEF TypeInv, TypeOK, Resumed
<1>9. OpType'
    <2>1. phase' = phase
        BY DEF Resumed
    <2>2. ThenMerge(phase, unitStatus')
        BY DEF Resumed
    <2> QED BY <2>1, <2>2, ThenMergeType
<1> QED BY <1>1, <1>2, <1>3, <1>4, <1>5, <1>6, <1>7, <1>8, <1>9 DEF TypeInv, TypeOK, OpType,
       ReceiptRecord

\* A submission ends.
LEMMA EndSubmitType ==
    ASSUME TypeInv, NEW repairs \in SUBSET Units, NEW result \in {"done", "running"}, op = "finish",
           EndSubmit(result, repairs)
    PROVE  TypeInv'
<1>1. UNCHANGED <<phase, status, active, required, intent, records, receipts, content, issued, edits>>
    BY DEF EndSubmit, jobVars, targetVars
<1>2. unitStatus' \in [Units -> UnitStatuses]
    BY DEF TypeInv, TypeOK, EndSubmit, UnitStatuses
<1>3. refs' \in [Units -> [Places -> Ref]]
    <2>1. at \in Units /\ WrittenRefs(at) \in [Places -> Ref]
        BY RefTypes DEF TypeInv, OpType
    <2> QED BY <2>1 DEF TypeInv, TypeOK, EndSubmit
<1>4. approved' \in [Units -> BOOLEAN]
    BY DEF TypeInv, TypeOK, EndSubmit
<1>5. stage' \in [Units -> Stages]
    BY DEF TypeInv, TypeOK, EndSubmit, Stages
<1>6. attempts' \in [Units -> Nat]
    BY DEF TypeInv, TypeOK, EndSubmit
<1>7. attemptOf' \in [Units -> Nat]
    BY DEF TypeInv, TypeOK, EndSubmit
<1>8. revision' \in [Units -> Revisions]
    <2>1. \A u \in Units : Suffixed(revision[u], "review") \in Revisions
        BY RevisionTypes DEF TypeInv, TypeOK
    <2> QED BY <2>1 DEF TypeInv, TypeOK, EndSubmit
<1>9. clock' \in Nat
    BY DEF TypeInv, TypeOK, EndSubmit
<1>10. OpType'
    <2>1. phase' = phase
        BY <1>1
    <2>2. Return \/ (phase' = "registry" /\ Begin("mergeRecord", Merge, <<>>, "return"))
        BY <2>1 DEF EndSubmit, ThenMerge, MayMerge
    <2> QED BY JobAssumption, <2>2 DEF TypeInv, TypeOK, OpType, Return, Begin, Operations
<1> QED BY <1>1, <1>2, <1>3, <1>4, <1>5, <1>6, <1>7, <1>8, <1>9, <1>10 DEF TypeInv, TypeOK, OpType,
       ReceiptRecord

\* FinishSubmit keeps the types.
LEMMA FinishSubmitType ==
    ASSUME TypeInv, FinishSubmit
    PROVE  TypeInv'
<1>1. PICK repairs \in SUBSET Units : \E result \in {"done", "running"} : EndSubmit(result, repairs)
    BY DEF FinishSubmit, Repairable
<1> QED BY <1>1, EndSubmitType DEF FinishSubmit

\* Resume keeps the types.
LEMMA ResumeType ==
    ASSUME TypeInv, Resume
    PROVE  TypeInv'
<1>1. CASE \E u \in Units : intent[u] /\ Keep(u, "resume")
    BY <1>1, KeepType
<1>2. CASE Resumed(unitStatus, refs, status = "running")
    <2>1. unitStatus \in [Units -> UnitStatuses] /\ refs \in [Units -> [Places -> Ref]]
        BY DEF TypeInv, TypeOK
    <2>2. (status = "running") \in BOOLEAN
        OBVIOUS
    <2> QED BY <1>2, <2>1, <2>2, ResumedType
<1> QED BY <1>1, <1>2 DEF Resume

\* ResumeKept keeps the types.
LEMMA ResumeKeptType ==
    ASSUME TypeInv, ResumeKept
    PROVE  TypeInv'
<1>1. at \in Units /\ WrittenRefs(at) \in [Places -> Ref]
    BY RefTypes DEF TypeInv, OpType, ResumeKept
<1>2. KeptStatus \in [Units -> UnitStatuses]
    BY DEF KeptStatus, UnitStatuses, TypeInv, TypeOK
<1>3. KeptRefs \in [Units -> [Places -> Ref]]
    BY <1>1 DEF KeptRefs, TypeInv, TypeOK
<1>4. Resumed(KeptStatus, KeptRefs, FALSE)
    BY DEF ResumeKept
<1> QED BY <1>2, <1>3, <1>4, ResumedType

\* Advance keeps the types.
LEMMA AdvanceType ==
    ASSUME TypeInv, Advance
    PROVE  TypeInv'
<1>1. CASE GoOn
    BY <1>1, GoOnType DEF Advance
<1>2. CASE /\ MayMerge(phase, unitStatus)
           /\ Begin("mergeRecord", Merge, <<>>, "advance")
           /\ UNCHANGED <<jobVars, unitVars, records, targetVars, bounds>>
    <2>1. OpType'
        BY <1>2, JobAssumption DEF TypeInv, TypeOK, OpType, Begin, MayMerge, Operations, jobVars
    <2> QED BY <1>2, <2>1 DEF TypeInv, TypeOK, OpType, jobVars, unitVars, targetVars, bounds
<1> QED BY <1>1, <1>2 DEF Advance

\* Every step keeps the types.
LEMMA TypeStep ==
    ASSUME TypeInv, [Next]_vars
    PROVE  TypeInv'
<1>1. CASE UNCHANGED vars
    BY <1>1 DEF TypeInv, TypeOK, OpType, vars, jobVars, unitVars, opVars, targetVars, bounds
<1>2. CASE Control
    <2>1. ASSUME NEW u \in Units, Keep(u, "return")
          PROVE  TypeInv'
        BY <2>1, KeepType
    <2> QED BY <1>2, <2>1, FinishPackageType, StopType, ResumeType, AdvanceType, EditRegistryType,
               SkipType, RetryType, RegenerateType
            DEF Control
<1>3. CASE Step
    <2>1. CASE AdvanceMerged
        BY <2>1, GoOnType DEF AdvanceMerged, TypeInv, OpType
    <2> QED BY <1>3, <2>1, SaveRecordType, WriteEntryType, MeetConflictType, SubmitFailsType,
               FinishSubmitType, MergeRecordType, MergeDoneType, KeepEntryType, KeptType,
               ResumeKeptType, EditRecordType, EditedType
            DEF Step
<1>4. CASE \/ \E flag \in BOOLEAN : Get(flag)
           \/ \E S \in SUBSET Units : Open(S)
           \/ \E u \in Units : Submit(u)
           \/ Interrupt
           \/ \E p \in Places : EditEntry(p)
    BY <1>4, GetType, OpenType, SubmitType, InterruptType, EditEntryType
<1> QED BY <1>1, <1>2, <1>3, <1>4 DEF Next

\* The job starts with its types.
LEMMA TypeInit ==
    ASSUME Init
    PROVE  TypeInv
<1>1. \A u \in Units : <<>> \in Revisions
    BY DEF Revisions
<1>2. [p \in Places |-> NoRef] \in [Places -> Ref]
    BY DEF NoRef, Ref
<1>3. receipts \in Seq([unit : Units, rev : Revisions, place : Places, stamp : Nat, owned : BOOLEAN])
    BY DEF Init
<1>4. stage \in [Units -> Stages]
    BY JobAssumption DEF Init
<1>5. phase \in Phases /\ unitStatus \in [Units -> UnitStatuses] /\ op \in Operations
    BY DEF Init, Phases, Stages, UnitStatuses, Operations
<1>6. OpType
    BY <1>5 DEF Init, OpType
<1> QED BY <1>1, <1>2, <1>3, <1>4, <1>5, <1>6 DEF TypeInv, TypeOK, Init

\* The variables of a job keep their types.
THEOREM TypeCorrect == Spec => []TypeOK
<1>1. TypeInv /\ [Next]_vars => TypeInv'
    BY TypeStep
<1>2. TypeInv => TypeOK
    BY DEF TypeInv
<1> QED BY TypeInit, <1>1, <1>2, PTL DEF Spec

-----------------------------------------------------------------------------
(* Who works on what.                                                      *)

\* What is written belongs to the package that runs; the user's choices are
\* carried out when no package runs.
OpAgrees ==
    /\ op \in {"record", "write", "finish"} => status = "running" /\ attemptOf[at] = active
    /\ op \in {"keep", "kept", "editRecord", "edited", "advance"} => status # "running"
    /\ op \in {"mergeRecord", "mergeDone"} /\ then = "advance" => status # "running"

RunInv == RunningAgrees /\ OpAgrees

\* Steps that leave the units, the attempt and the state of the job alone.
LEMMA SameRuns ==
    ASSUME RunInv,
           \/ SaveRecord \/ WriteEntry \/ MergeRecord \/ KeepEntry
           \/ EditRegistry \/ EditRecord \/ Edited \/ Interrupt
           \/ \E u \in Units : Keep(u, "return") \/ Keep(u, "resume")
           \/ \E p \in Places : EditEntry(p)
    PROVE  RunInv'
<1>1. UNCHANGED <<status, active, attemptOf, unitStatus>>
    BY DEF SaveRecord, WriteEntry, MergeRecord, KeepEntry, EditRegistry, EditRecord, Edited, Interrupt,
           Keep, EditEntry, jobVars, unitVars
<1>2. RunningAgrees'
    BY <1>1 DEF RunInv, RunningAgrees
<1>3. OpAgrees'
    BY <1>1 DEF RunInv, OpAgrees, Begin, Return, NextPlace, SaveRecord, WriteEntry, MergeRecord,
                KeepEntry,
           EditRegistry, EditRecord, Edited, Interrupt, Keep, EditEntry, Idle, opVars
<1> QED BY <1>2, <1>3 DEF RunInv

\* Going back leaves no unit in work but those that were, and no package.
LEMMA RequeueRuns ==
    ASSUME RunInv, status # "running", NEW u \in Units, Requeue(u)
    PROVE  RunningAgrees' /\ status' # "running"
BY DEF Requeue, RunInv, RunningAgrees, InFlight

\* Get keeps RunInv.
LEMMA GetRuns ==
    ASSUME TypeInv, RunInv, NEW flag \in BOOLEAN, Get(flag)
    PROVE  RunInv'
<1>1. RunningAgrees'
    BY DEF RunInv, RunningAgrees, OpAgrees, InFlight, TypeInv, TypeOK, OpType, Get, Recovered,
           Released, ReleasedFrom, Idle, jobVars, unitVars
<1>2. OpAgrees'
    BY DEF RunInv, OpAgrees, Get, TypeInv, OpType, Idle, opVars
<1> QED BY <1>1, <1>2 DEF RunInv

\* Open keeps RunInv.
LEMMA OpenRuns ==
    ASSUME TypeInv, RunInv, NEW S \in SUBSET Units, Open(S)
    PROVE  RunInv'
<1>1. RunningAgrees'
    BY DEF RunInv, RunningAgrees, OpAgrees, InFlight, TypeInv, TypeOK, OpType, Open, Recovered, Idle,
           jobVars, unitVars
<1>2. OpAgrees'
    BY DEF RunInv, OpAgrees, Open, TypeInv, OpType, Idle, opVars
<1> QED BY <1>1, <1>2 DEF RunInv

\* Submit keeps RunInv.
LEMMA SubmitRuns ==
    ASSUME TypeInv, RunInv, NEW u \in Units, Submit(u)
    PROVE  RunInv'
<1>1. RunningAgrees'
    BY DEF RunInv, RunningAgrees, OpAgrees, InFlight, TypeInv, TypeOK, OpType, Submit, Idle, jobVars,
           unitVars
<1>2. OpAgrees'
    BY DEF RunInv, OpAgrees, Submit, Begin, TypeInv, TypeOK, OpType, Idle, jobVars, opVars
<1> QED BY <1>1, <1>2 DEF RunInv

\* MeetConflict keeps RunInv.
LEMMA MeetConflictRuns ==
    ASSUME TypeInv, RunInv, MeetConflict
    PROVE  RunInv'
<1>1. RunningAgrees'
    BY DEF RunInv, RunningAgrees, OpAgrees, InFlight, TypeInv, TypeOK, OpType, MeetConflict, Idle,
           jobVars, unitVars
<1>2. OpAgrees'
    BY DEF RunInv, OpAgrees, MeetConflict, Return, Begin, TypeInv, OpType, Idle, opVars
<1> QED BY <1>1, <1>2 DEF RunInv

\* SubmitFails keeps RunInv.
LEMMA SubmitFailsRuns ==
    ASSUME TypeInv, RunInv, SubmitFails
    PROVE  RunInv'
<1>1. RunningAgrees'
    BY DEF RunInv, RunningAgrees, OpAgrees, InFlight, TypeInv, TypeOK, OpType, SubmitFails, Idle,
           jobVars, unitVars
<1>2. OpAgrees'
    BY DEF RunInv, OpAgrees, SubmitFails, Return, Begin, TypeInv, OpType, Idle, opVars
<1> QED BY <1>1, <1>2 DEF RunInv

\* EndSubmit keeps RunInv.
LEMMA EndSubmitRuns ==
    ASSUME TypeInv, RunInv, NEW result \in {"done", "running"},
           NEW repairs \in SUBSET Units, op = "finish", EndSubmit(result, repairs)
    PROVE  RunInv'
<1>1. RunningAgrees'
    BY DEF RunInv, RunningAgrees, OpAgrees, InFlight, TypeInv, TypeOK, OpType, EndSubmit, Idle,
           jobVars, unitVars
<1>2. OpAgrees'
    BY DEF RunInv, OpAgrees, EndSubmit, Return, ThenMerge, Begin, TypeInv, OpType, Idle, opVars
<1> QED BY <1>1, <1>2 DEF RunInv

\* MergeDone keeps RunInv.
LEMMA MergeDoneRuns ==
    ASSUME TypeInv, RunInv, MergeDone
    PROVE  RunInv'
<1>1. RunningAgrees'
    BY DEF RunInv, RunningAgrees, OpAgrees, InFlight, TypeInv, TypeOK, OpType, MergeDone, Idle,
           jobVars, unitVars
<1>2. OpAgrees'
    BY DEF RunInv, OpAgrees, MergeDone, Return, Begin, TypeInv, OpType, Idle, jobVars, opVars
<1> QED BY <1>1, <1>2 DEF RunInv

\* FinishPackage keeps RunInv.
LEMMA FinishPackageRuns ==
    ASSUME TypeInv, RunInv, NEW q \in BOOLEAN, FinishPackage(q)
    PROVE  RunInv'
<1>1. RunningAgrees'
    BY DEF RunInv, RunningAgrees, OpAgrees, InFlight, TypeInv, TypeOK, OpType, FinishPackage,
           PackageUnits, Idle, jobVars, unitVars
<1>2. OpAgrees'
    BY DEF RunInv, OpAgrees, FinishPackage, ThenMerge, Return, Begin, TypeInv, OpType, Idle, opVars
<1> QED BY <1>1, <1>2 DEF RunInv

\* Stop keeps RunInv.
LEMMA StopRuns ==
    ASSUME TypeInv, RunInv, Stop
    PROVE  RunInv'
<1>1. RunningAgrees'
    BY DEF RunInv, RunningAgrees, OpAgrees, InFlight, TypeInv, TypeOK, OpType, Stop, Released,
           ReleasedFrom, Idle, jobVars, unitVars
<1>2. OpAgrees'
    BY DEF RunInv, OpAgrees, Stop, ThenMerge, Return, Begin, TypeInv, OpType, Idle, opVars
<1> QED BY <1>1, <1>2 DEF RunInv

\* Skip keeps RunInv.
LEMMA SkipRuns ==
    ASSUME TypeInv, RunInv, NEW c \in Units, Skip(c)
    PROVE  RunInv'
<1>1. RunningAgrees'
    BY DEF RunInv, RunningAgrees, OpAgrees, InFlight, TypeInv, TypeOK, OpType, Skip, Idle, jobVars,
           unitVars
<1>2. OpAgrees'
    BY DEF RunInv, OpAgrees, Skip, ThenMerge, Return, Begin, TypeInv, OpType, Idle, opVars
<1> QED BY <1>1, <1>2 DEF RunInv

\* Retry keeps RunInv.
LEMMA RetryRuns ==
    ASSUME TypeInv, RunInv, NEW u \in Units, Retry(u)
    PROVE  RunInv'
<1>1. RunningAgrees' /\ status' # "running"
    BY RequeueRuns DEF Retry
<1>2. OpAgrees'
    BY <1>1 DEF OpAgrees, Retry, ThenMerge, Return, Begin
<1> QED BY <1>1, <1>2 DEF RunInv

\* Regenerate keeps RunInv.
LEMMA RegenerateRuns ==
    ASSUME TypeInv, RunInv, NEW u \in Units, Regenerate(u)
    PROVE  RunInv'
<1>1. RunningAgrees' /\ status' # "running"
    BY RequeueRuns DEF Regenerate
<1>2. OpAgrees'
    BY <1>1 DEF OpAgrees, Regenerate, ThenMerge, Return, Begin
<1> QED BY <1>1, <1>2 DEF RunInv

\* Kept keeps RunInv.
LEMMA KeptRuns ==
    ASSUME TypeInv, RunInv, Kept
    PROVE  RunInv'
<1>1. RunningAgrees'
    BY DEF RunInv, RunningAgrees, OpAgrees, InFlight, TypeInv, TypeOK, OpType, Kept, KeptStatus, Idle,
           jobVars, unitVars
<1>2. OpAgrees'
    BY DEF RunInv, OpAgrees, Kept, ThenMerge, Return, Begin, TypeInv, OpType, Idle, opVars
<1> QED BY <1>1, <1>2 DEF RunInv

\* Resumed keeps RunInv.
LEMMA ResumedRuns ==
    ASSUME TypeInv, RunInv, NEW state \in [Units -> UnitStatuses], NEW ref, NEW halts \in BOOLEAN,
           halts <=> status = "running",
           \A u \in Units : state[u] \in InFlight => unitStatus[u] \in InFlight,
           Resumed(state, ref, halts)
    PROVE  RunInv'
<1>1. RunningAgrees'
    BY DEF RunInv, RunningAgrees, OpAgrees, InFlight, TypeInv, TypeOK, OpType, Resumed, Recovered,
           Released, Idle, jobVars, unitVars
<1>2. OpAgrees'
    BY DEF RunInv, OpAgrees, Resumed, ThenMerge, Return, Begin, TypeInv, OpType, Idle, opVars
<1> QED BY <1>1, <1>2 DEF RunInv

\* GoOn keeps RunInv.
LEMMA GoOnRuns ==
    ASSUME TypeInv, RunInv, status # "running", GoOn
    PROVE  RunInv'
<1>1. RunningAgrees'
    BY DEF RunInv, RunningAgrees, OpAgrees, InFlight, TypeInv, TypeOK, OpType, GoOn, Finalize, Idle,
           jobVars, unitVars
<1>2. OpAgrees'
    BY DEF RunInv, OpAgrees, GoOn, Finalize, Return, Begin, TypeInv, OpType, Idle, opVars
<1> QED BY <1>1, <1>2 DEF RunInv

\* The controls keep RunInv.
LEMMA ControlRuns ==
    ASSUME TypeInv, RunInv, Control
    PROVE  RunInv'
<1>1. ASSUME NEW u \in Units, Keep(u, "return") \/ Keep(u, "resume")
      PROVE  RunInv'
    BY <1>1, SameRuns
<1>2. CASE Resume
    <2>1. ASSUME Resumed(unitStatus, refs, status = "running")
          PROVE  RunInv'
        <3>1. unitStatus \in [Units -> UnitStatuses]
            BY DEF TypeInv, TypeOK
        <3>2. (status = "running") \in BOOLEAN
            OBVIOUS
        <3> QED BY <2>1, <3>1, <3>2, ResumedRuns
    <2> QED BY <1>1, <1>2, <2>1 DEF Resume
<1>3. CASE Advance
    <2>1. CASE GoOn
        BY <1>3, <2>1, GoOnRuns DEF Advance
    <2>2. CASE /\ Begin("mergeRecord", Merge, <<>>, "advance")
               /\ UNCHANGED <<jobVars, unitVars, records, targetVars, bounds>>
        BY <1>3, <2>2 DEF Advance, RunInv, RunningAgrees, OpAgrees, Begin, jobVars, unitVars
    <2> QED BY <1>3, <2>1, <2>2 DEF Advance
<1> QED BY <1>1, <1>2, <1>3, FinishPackageRuns, StopRuns, SameRuns,
           SkipRuns, RetryRuns, RegenerateRuns
        DEF Control

\* The steps of an operation keep RunInv.
LEMMA StepRuns ==
    ASSUME TypeInv, RunInv, Step
    PROVE  RunInv'
<1>1. CASE FinishSubmit
    <2>1. PICK repairs \in SUBSET Units : \E result \in {"done", "running"} : EndSubmit(result, repairs)
        BY <1>1 DEF FinishSubmit, Repairable
    <2> QED BY <1>1, <2>1, EndSubmitRuns DEF FinishSubmit
<1>2. CASE ResumeKept
    <2>1. KeptStatus \in [Units -> UnitStatuses]
        BY DEF KeptStatus, UnitStatuses, TypeInv, TypeOK
    <2>2. /\ status # "running"
          /\ Resumed(KeptStatus, KeptRefs, FALSE)
        BY <1>2 DEF ResumeKept, RunInv, OpAgrees
    <2>3. \A u \in Units : KeptStatus[u] \in InFlight => unitStatus[u] \in InFlight
        BY DEF KeptStatus, InFlight, TypeInv, TypeOK
    <2> QED BY <2>1, <2>2, <2>3, ResumedRuns
<1>3. CASE AdvanceMerged
    BY <1>3, GoOnRuns DEF AdvanceMerged, RunInv, OpAgrees
<1> QED BY <1>1, <1>2, <1>3, SameRuns, MeetConflictRuns, SubmitFailsRuns, MergeDoneRuns, KeptRuns
        DEF Step

\* Every step keeps RunInv.
LEMMA RunStep ==
    ASSUME TypeInv, RunInv, [Next]_vars
    PROVE  RunInv'
<1>1. CASE UNCHANGED vars
    BY <1>1 DEF RunInv, RunningAgrees, OpAgrees, vars, jobVars, unitVars, opVars
<1>2. CASE \/ \E flag \in BOOLEAN : Get(flag)
           \/ \E S \in SUBSET Units : Open(S)
           \/ \E u \in Units : Submit(u)
           \/ Interrupt
           \/ \E p \in Places : EditEntry(p)
    BY <1>2, GetRuns, OpenRuns, SubmitRuns, SameRuns
<1> QED BY <1>1, <1>2, ControlRuns, StepRuns DEF Next

\* The units in work are those of the package that runs.
THEOREM WorkersAgree == Spec => []RunningAgrees
<1>1. Init => RunInv
    BY DEF Init, RunInv, RunningAgrees, OpAgrees, InFlight
<1>2. TypeInv /\ RunInv /\ [Next]_vars => TypeInv' /\ RunInv'
    BY TypeStep, RunStep
<1>3. RunInv => RunningAgrees
    BY DEF RunInv
<1> QED BY TypeInit, <1>1, <1>2, <1>3, PTL DEF Spec

-----------------------------------------------------------------------------
(* What the user has written.                                              *)

\* Some receipt says that the job itself has written that version.
OwnWriting(p, version) ==
    \E i \in DOMAIN receipts :
        receipts[i].place = p /\ receipts[i].stamp = version /\ ~receipts[i].owned

\* Units refer to their own entries, and a version that a unit takes for the job's
\* own was written by the job, or is the user's and may be overwritten.
RefsTrue ==
    \A u \in Units, p \in Places : refs[u][p].n # 0 =>
        /\ p \in Range(PlacesOf[u])
        /\ ~refs[u][p].owned => OwnWriting(p, refs[u][p].stamp) \/ approved[u]

ReceiptsTrue ==
    \A i \in DOMAIN receipts : receipts[i].place \in Range(PlacesOf[receipts[i].unit])

TodoTrue == op \in {"record", "write", "keep"} => Range(todo) \subseteq Range(PlacesOf[at])

EditInv == RefsTrue /\ ReceiptsTrue /\ TodoTrue

\* The head and the tail of a sequence of entries are among its entries.
LEMMA RangeSeq ==
    ASSUME NEW s \in Seq(Places)
    PROVE  /\ Range(<<>>) = {}
           /\ s # <<>> => Head(s) \in Range(s) /\ Range(Tail(s)) \subseteq Range(s)
<1>1. Range(<<>>) = {}
    BY DEF Range
<1>2. ASSUME s # <<>>
      PROVE  Head(s) \in Range(s)
    BY <1>2 DEF Range
<1>3. ASSUME s # <<>>
      PROVE  Range(Tail(s)) \subseteq Range(s)
    <2> SUFFICES ASSUME NEW x \in Range(Tail(s))
                 PROVE  x \in Range(s)
        OBVIOUS
    <2>1. PICK i \in DOMAIN Tail(s) : x = Tail(s)[i]
        BY DEF Range
    <2>2. /\ i \in 1..Len(s) - 1
          /\ Tail(s)[i] = s[i + 1]
          /\ Len(s) \in Nat
        BY <1>3, <2>1
    <2> QED BY <2>1, <2>2 DEF Range
<1> QED BY <1>1, <1>2, <1>3

\* References made from receipts are true.
LEMMA NewRefs ==
    ASSUME TypeInv, EditInv, NEW u \in Units, NEW p \in Places
    PROVE  /\ NewestRefs(u)[p].n # 0 =>
                  /\ p \in Range(PlacesOf[u])
                  /\ ~NewestRefs(u)[p].owned => OwnWriting(p, NewestRefs(u)[p].stamp)
           /\ WrittenRefs(u)[p].n # 0 =>
                  /\ p \in Range(PlacesOf[u])
                  /\ ~WrittenRefs(u)[p].owned => OwnWriting(p, WrittenRefs(u)[p].stamp)
<1>1. ASSUME NEW i \in DOMAIN receipts, IsReceipt(i, u, p)
      PROVE  /\ p \in Range(PlacesOf[u])
             /\ Newest(p) \in DOMAIN receipts
             /\ receipts[Newest(p)].place = p
             /\ receipts[i].place = p
    BY <1>1, NewestIs DEF IsReceipt, EditInv, ReceiptsTrue, TypeInv, TypeOK, ReceiptRecord
<1>2. ASSUME NEW i \in DOMAIN receipts, receipts[i].place = p, ~RefTo(i).owned
      PROVE  OwnWriting(p, RefTo(i).stamp)
    BY <1>2 DEF RefTo, OwnWriting
<1>3. CASE HasReceipt(u, p)
    <2>1. PICK j \in DOMAIN receipts : IsReceipt(j, u, p)
        BY <1>3 DEF HasReceipt
    <2> DEFINE k == CHOOSE i \in DOMAIN receipts : IsReceipt(i, u, p)
    <2>2. k \in DOMAIN receipts /\ IsReceipt(k, u, p)
        BY <2>1
    <2> HIDE DEF k
    <2>3. NewestRefs(u)[p] = RefTo(Newest(p))
        BY <1>3 DEF NewestRefs
    <2>4. WrittenRefs(u)[p] = RefTo(k)
        BY <1>1, <1>3, <2>1 DEF WrittenRefs, k
    <2> QED BY <1>1, <1>2, <2>2, <2>3, <2>4
<1>4. CASE ~HasReceipt(u, p)
    BY <1>4 DEF NewestRefs, WrittenRefs, NoRef
<1> QED BY <1>3, <1>4

\* References that are new or as they were stay true while receipts and approvals stay.
LEMMA RefsStep ==
    ASSUME TypeInv, EditInv, UNCHANGED receipts,
           \A u \in Units, p \in Places :
               \/ refs'[u][p] \in {NewestRefs(u)[p], WrittenRefs(u)[p]}
               \/ refs'[u][p] = refs[u][p] /\ approved'[u] = approved[u]
               \/ refs'[u][p] = refs[u][p] /\ PlacesOf[u] = <<>>
    PROVE  RefsTrue' /\ ReceiptsTrue'
<1>1. ASSUME NEW u \in Units, NEW p \in Places, refs'[u][p].n # 0
      PROVE  /\ p \in Range(PlacesOf[u])
             /\ ~refs'[u][p].owned => OwnWriting(p, refs'[u][p].stamp) \/ approved'[u]
    <2>1. CASE refs'[u][p] \in {NewestRefs(u)[p], WrittenRefs(u)[p]}
        BY <1>1, <2>1, NewRefs
    <2>2. CASE refs'[u][p] = refs[u][p] /\ approved'[u] = approved[u]
        BY <1>1, <2>2 DEF EditInv, RefsTrue
    <2>3. CASE refs'[u][p] = refs[u][p] /\ PlacesOf[u] = <<>>
        BY <1>1, <2>3, RangeSeq, JobAssumption DEF EditInv, RefsTrue
    <2> QED BY <2>1, <2>2, <2>3
<1>2. \A p, version : OwnWriting(p, version) => OwnWriting(p, version)'
    BY DEF OwnWriting
<1>3. RefsTrue'
    BY <1>1, <1>2 DEF RefsTrue
<1> QED BY <1>3 DEF EditInv, ReceiptsTrue

\* What leaves references and receipts alone, and begins no writing.
LEMMA QuietStep ==
    ASSUME TypeInv, EditInv, UNCHANGED <<refs, receipts, approved>>,
           op' \notin {"record", "write", "keep"} \/ UNCHANGED <<op, at, todo>>
    PROVE  EditInv'
BY RefsStep DEF EditInv, TodoTrue

\* A receipt of an entry of its unit is added.
LEMMA ReceiptStep ==
    ASSUME TypeInv, EditInv, UNCHANGED <<refs, approved>>,
           NEW r \in ReceiptRecord, r.place \in Range(PlacesOf[r.unit]),
           receipts' = receipts \/ receipts' = Append(receipts, r)
    PROVE  RefsTrue' /\ ReceiptsTrue'
<1>1. receipts \in Seq(ReceiptRecord)
    BY DEF TypeInv, TypeOK, ReceiptRecord
<1>2. CASE receipts' = receipts
    BY <1>2, RefsStep
<1>3. CASE receipts' = Append(receipts, r)
    <2>1. /\ DOMAIN receipts' = DOMAIN receipts \cup {Len(receipts) + 1}
          /\ \A i \in DOMAIN receipts : receipts'[i] = receipts[i]
          /\ receipts'[Len(receipts) + 1] = r
        BY <1>1, <1>3
    <2>2. \A p, version : OwnWriting(p, version) => OwnWriting(p, version)'
        BY <2>1 DEF OwnWriting
    <2>3. ReceiptsTrue'
        BY <2>1 DEF EditInv, ReceiptsTrue
    <2> QED BY <2>2, <2>3 DEF EditInv, RefsTrue
<1> QED BY <1>2, <1>3

\* Steps that change no reference and no receipt.
LEMMA QuietEdits ==
    ASSUME TypeInv, EditInv,
           \/ MeetConflict \/ SubmitFails \/ MergeRecord \/ Stop \/ EditRegistry \/ EditRecord \/ Edited
           \/ Interrupt
           \/ \E q \in BOOLEAN : FinishPackage(q)
           \/ \E u \in Units : Skip(u) \/ Retry(u)
           \/ \E p \in Places : EditEntry(p)
    PROVE  EditInv'
<1>1. UNCHANGED <<refs, receipts, approved>>
    BY DEF MeetConflict, SubmitFails, MergeRecord, Stop, EditRegistry, EditRecord, Edited, Interrupt,
           FinishPackage, Skip, Retry, EditEntry, unitVars, targetVars
<1>2. op' \notin {"record", "write", "keep"} \/ UNCHANGED <<op, at, todo>>
    BY DEF MeetConflict, SubmitFails, MergeRecord, Stop, EditRegistry, EditRecord, Edited, Interrupt,
           FinishPackage, Skip, Retry, EditEntry, ThenMerge, Return, Begin, opVars
<1> QED BY <1>1, <1>2, QuietStep

\* Get keeps EditInv.
LEMMA GetEdits ==
    ASSUME TypeInv, EditInv, NEW flag \in BOOLEAN, Get(flag)
    PROVE  EditInv'
<1>1. /\ UNCHANGED receipts
      /\ op' \notin {"record", "write", "keep"}
    BY DEF Get, Idle, targetVars, opVars
<1>2. \A u \in Units, p \in Places :
          \/ refs'[u][p] \in {NewestRefs(u)[p], WrittenRefs(u)[p]}
          \/ refs'[u][p] = refs[u][p] /\ approved'[u] = approved[u]
          \/ refs'[u][p] = refs[u][p] /\ PlacesOf[u] = <<>>
    BY DEF Get, RecoveredRefs, TypeInv, TypeOK
<1> QED BY <1>1, <1>2, RefsStep DEF EditInv, TodoTrue

\* Open keeps EditInv.
LEMMA OpenEdits ==
    ASSUME TypeInv, EditInv, NEW S \in SUBSET Units, Open(S)
    PROVE  EditInv'
<1>1. /\ UNCHANGED receipts
      /\ op' \notin {"record", "write", "keep"}
    BY DEF Open, Idle, targetVars, opVars
<1>2. \A u \in Units, p \in Places :
          \/ refs'[u][p] \in {NewestRefs(u)[p], WrittenRefs(u)[p]}
          \/ refs'[u][p] = refs[u][p] /\ approved'[u] = approved[u]
          \/ refs'[u][p] = refs[u][p] /\ PlacesOf[u] = <<>>
    BY DEF Open, RecoveredRefs, TypeInv, TypeOK
<1> QED BY <1>1, <1>2, RefsStep DEF EditInv, TodoTrue

\* EndSubmit keeps EditInv.
LEMMA EndSubmitEdits ==
    ASSUME TypeInv, EditInv, NEW result, NEW repairs, EndSubmit(result, repairs)
    PROVE  EditInv'
<1>1. /\ UNCHANGED receipts
      /\ op' \notin {"record", "write", "keep"}
    BY DEF EndSubmit, ThenMerge, Return, Begin, targetVars
<1>2. \A u \in Units, p \in Places :
          \/ refs'[u][p] \in {NewestRefs(u)[p], WrittenRefs(u)[p]}
          \/ refs'[u][p] = refs[u][p] /\ approved'[u] = approved[u]
          \/ refs'[u][p] = refs[u][p] /\ PlacesOf[u] = <<>>
    BY DEF EndSubmit, TypeInv, TypeOK
<1> QED BY <1>1, <1>2, RefsStep DEF EditInv, TodoTrue

\* MergeDone keeps EditInv.
LEMMA MergeDoneEdits ==
    ASSUME TypeInv, EditInv, MergeDone
    PROVE  EditInv'
<1>1. /\ UNCHANGED receipts
      /\ op' \notin {"record", "write", "keep"}
    BY DEF MergeDone, Return, Begin, targetVars
<1>2. \A u \in Units, p \in Places :
          \/ refs'[u][p] \in {NewestRefs(u)[p], WrittenRefs(u)[p]}
          \/ refs'[u][p] = refs[u][p] /\ approved'[u] = approved[u]
          \/ refs'[u][p] = refs[u][p] /\ PlacesOf[u] = <<>>
    <2>1. PlacesOf[Merge] = <<>>
        BY JobAssumption
    <2>2. refs' = refs /\ \A u \in Units \ {Merge} : approved'[u] = approved[u]
        BY DEF MergeDone, TypeInv, TypeOK
    <2> QED BY <2>1, <2>2
<1> QED BY <1>1, <1>2, RefsStep DEF EditInv, TodoTrue

\* Kept keeps EditInv.
LEMMA KeptEdits ==
    ASSUME TypeInv, EditInv, Kept
    PROVE  EditInv'
<1>1. /\ UNCHANGED receipts
      /\ op' \notin {"record", "write", "keep"}
    BY DEF Kept, ThenMerge, Return, Begin, targetVars
<1>2. \A u \in Units, p \in Places :
          \/ refs'[u][p] \in {NewestRefs(u)[p], WrittenRefs(u)[p]}
          \/ refs'[u][p] = refs[u][p] /\ approved'[u] = approved[u]
          \/ refs'[u][p] = refs[u][p] /\ PlacesOf[u] = <<>>
    BY DEF Kept, KeptRefs, TypeInv, TypeOK
<1> QED BY <1>1, <1>2, RefsStep DEF EditInv, TodoTrue

\* Resumed keeps EditInv.
LEMMA ResumedEdits ==
    ASSUME TypeInv, EditInv, NEW state, NEW halts, NEW ref, ref = refs \/ ref = KeptRefs,
           Resumed(state, ref, halts)
    PROVE  EditInv'
<1>1. /\ UNCHANGED receipts
      /\ op' \notin {"record", "write", "keep"}
    BY DEF Resumed, ThenMerge, Return, Begin, targetVars
<1>2. \A u \in Units, p \in Places :
          \/ refs'[u][p] \in {NewestRefs(u)[p], WrittenRefs(u)[p]}
          \/ refs'[u][p] = refs[u][p] /\ approved'[u] = approved[u]
          \/ refs'[u][p] = refs[u][p] /\ PlacesOf[u] = <<>>
    BY DEF Resumed, RecoveredRefs, KeptRefs, TypeInv, TypeOK
<1> QED BY <1>1, <1>2, RefsStep DEF EditInv, TodoTrue

\* GoOn keeps EditInv.
LEMMA GoOnEdits ==
    ASSUME TypeInv, EditInv, GoOn
    PROVE  EditInv'
<1>1. /\ UNCHANGED receipts
      /\ op' \notin {"record", "write", "keep"}
    BY DEF GoOn, Return, Begin, targetVars
<1>2. \A u \in Units, p \in Places :
          \/ refs'[u][p] \in {NewestRefs(u)[p], WrittenRefs(u)[p]}
          \/ refs'[u][p] = refs[u][p] /\ approved'[u] = approved[u]
          \/ refs'[u][p] = refs[u][p] /\ PlacesOf[u] = <<>>
    BY DEF GoOn, Finalize, unitVars, TypeInv, TypeOK
<1> QED BY <1>1, <1>2, RefsStep DEF EditInv, TodoTrue

\* WriteEntry keeps EditInv.
LEMMA WriteEntryEdits ==
    ASSUME TypeInv, EditInv, WriteEntry
    PROVE  EditInv'
<1>1. at \in Units /\ todo \in Seq(Places) /\ todo # <<>> /\ Head(todo) \in Places
    BY TodoTypes DEF WriteEntry
<1>2. /\ Head(todo) \in Places /\ Head(todo) \in Range(PlacesOf[at])
      /\ Range(Tail(todo)) \subseteq Range(PlacesOf[at])
    BY <1>1, RangeSeq DEF EditInv, TodoTrue, WriteEntry
<1>3. Receipt(at, Head(todo), content[Head(todo)] + 1, FALSE) \in ReceiptRecord
    BY <1>1, <1>2 DEF TypeInv, TypeOK, Receipt, ReceiptRecord
<1>4. RefsTrue' /\ ReceiptsTrue'
    <2> DEFINE r == Receipt(at, Head(todo), content[Head(todo)] + 1, FALSE)
    <2>1. /\ UNCHANGED <<refs, approved>>
          /\ receipts' = receipts \/ receipts' = Append(receipts, r)
        BY DEF WriteEntry, unitVars, targetVars
    <2>2. r.place \in Range(PlacesOf[r.unit])
        BY <1>2 DEF Receipt
    <2> HIDE DEF r
    <2>3. r \in ReceiptRecord
        BY <1>3 DEF r
    <2> QED BY <2>1, <2>2, <2>3, ReceiptStep
<1>5. TodoTrue'
    BY <1>2 DEF TodoTrue, WriteEntry, NextPlace, Begin
<1> QED BY <1>4, <1>5 DEF EditInv

\* KeepEntry keeps EditInv.
LEMMA KeepEntryEdits ==
    ASSUME TypeInv, EditInv, KeepEntry
    PROVE  EditInv'
<1>1. at \in Units /\ todo \in Seq(Places) /\ todo # <<>> /\ Head(todo) \in Places
    BY TodoTypes DEF KeepEntry
<1>2. /\ Head(todo) \in Places /\ Head(todo) \in Range(PlacesOf[at])
      /\ Range(Tail(todo)) \subseteq Range(PlacesOf[at])
    BY <1>1, RangeSeq DEF EditInv, TodoTrue, KeepEntry
<1>3. Receipt(at, Head(todo), content[Head(todo)], TRUE) \in ReceiptRecord
    BY <1>1, <1>2 DEF TypeInv, TypeOK, Receipt, ReceiptRecord
<1>4. RefsTrue' /\ ReceiptsTrue'
    <2> DEFINE r == Receipt(at, Head(todo), content[Head(todo)], TRUE)
    <2>1. /\ UNCHANGED <<refs, approved>>
          /\ receipts' = receipts \/ receipts' = Append(receipts, r)
        BY DEF KeepEntry, unitVars, targetVars
    <2>2. r.place \in Range(PlacesOf[r.unit])
        BY <1>2 DEF Receipt
    <2> HIDE DEF r
    <2>3. r \in ReceiptRecord
        BY <1>3 DEF r
    <2> QED BY <2>1, <2>2, <2>3, ReceiptStep
<1>5. TodoTrue'
    BY <1>2 DEF TodoTrue, KeepEntry, NextPlace, Begin
<1> QED BY <1>4, <1>5 DEF EditInv

\* An operation begins to write or to keep, or its record has been saved.
LEMMA BeginEdits ==
    ASSUME TypeInv, EditInv,
           SaveRecord \/ \E u \in Units : Submit(u) \/ Keep(u, "return") \/ Keep(u, "resume")
    PROVE  EditInv'
<1>1. UNCHANGED <<refs, receipts, approved>>
    BY DEF Submit, Keep, SaveRecord, unitVars, targetVars
<1>2. TodoTrue'
    BY DEF EditInv, TodoTrue, Submit, Keep, SaveRecord, Begin
<1> QED BY <1>1, <1>2, RefsStep DEF EditInv

\* Regenerate keeps EditInv.
LEMMA RegenerateEdits ==
    ASSUME TypeInv, EditInv, NEW u \in Units, Regenerate(u)
    PROVE  EditInv'
<1>1. /\ UNCHANGED receipts
      /\ op' \notin {"record", "write", "keep"}
    BY DEF Regenerate, ThenMerge, Return, Begin, targetVars
<1>2. approved' = [approved EXCEPT ![u] = TRUE] /\ approved'[u]
    BY DEF Regenerate, TypeInv, TypeOK
<1>3. \A w \in Units, p \in Places : w # u => refs'[w][p] = refs[w][p] /\ approved'[w] = approved[w]
    BY <1>2 DEF Regenerate, TypeInv, TypeOK
<1>4. \A p \in Places : refs'[u][p].n = refs[u][p].n
    BY DEF Regenerate, TypeInv, TypeOK, NoRef
<1>5. \A p, version : OwnWriting(p, version) => OwnWriting(p, version)'
    BY <1>1 DEF OwnWriting
<1>6. ASSUME NEW w \in Units, NEW p \in Places, refs'[w][p].n # 0
      PROVE  /\ p \in Range(PlacesOf[w])
             /\ ~refs'[w][p].owned => OwnWriting(p, refs'[w][p].stamp) \/ approved'[w]
    <2>1. CASE w = u
        BY <1>2, <1>4, <1>6, <2>1 DEF EditInv, RefsTrue
    <2>2. CASE w # u
        BY <1>3, <1>6, <2>2 DEF EditInv, RefsTrue
    <2> QED BY <2>1, <2>2
<1>7. RefsTrue'
    BY <1>5, <1>6 DEF RefsTrue
<1> QED BY <1>1, <1>7 DEF EditInv, ReceiptsTrue, TodoTrue

\* Every step keeps EditInv.
LEMMA EditStep ==
    ASSUME TypeInv, EditInv, [Next]_vars
    PROVE  EditInv'
<1>1. CASE UNCHANGED vars
    BY <1>1, QuietStep DEF vars, unitVars, targetVars, opVars
<1>2. ASSUME NEW u \in Units, Keep(u, "return") \/ Keep(u, "resume")
      PROVE  EditInv'
    BY <1>2, BeginEdits
<1>3. CASE Advance
    <2>1. CASE GoOn
        BY <2>1, GoOnEdits
    <2>2. CASE /\ Begin("mergeRecord", Merge, <<>>, "advance")
               /\ UNCHANGED <<jobVars, unitVars, records, targetVars, bounds>>
        BY <2>2, QuietStep DEF Begin, unitVars, targetVars
    <2> QED BY <1>3, <2>1, <2>2 DEF Advance
<1>4. CASE Control
    <2>1. CASE Resume
        BY <1>2, <2>1, ResumedEdits DEF Resume
    <2> QED BY <1>2, <1>3, <1>4, <2>1, QuietEdits, RegenerateEdits
            DEF Control
<1>5. CASE Step
    <2>1. CASE FinishSubmit
        BY <2>1, EndSubmitEdits DEF FinishSubmit
    <2>2. CASE ResumeKept
        BY <2>2, ResumedEdits DEF ResumeKept
    <2>3. CASE AdvanceMerged
        BY <2>3, GoOnEdits DEF AdvanceMerged
    <2> QED BY <1>5, <2>1, <2>2, <2>3, QuietEdits, BeginEdits, WriteEntryEdits, MergeDoneEdits,
               KeepEntryEdits, KeptEdits
            DEF Step
<1>6. CASE \/ \E flag \in BOOLEAN : Get(flag)
           \/ \E S \in SUBSET Units : Open(S)
           \/ \E u \in Units : Submit(u)
           \/ Interrupt
           \/ \E p \in Places : EditEntry(p)
    BY <1>6, GetEdits, OpenEdits, BeginEdits, QuietEdits
<1> QED BY <1>1, <1>4, <1>5, <1>6 DEF Next

\* The job starts with EditInv.
LEMMA EditInit ==
    ASSUME Init
    PROVE  EditInv
BY DEF Init, EditInv, RefsTrue, ReceiptsTrue, TodoTrue, NoRef

\* Only a submission writes new versions of entries and their receipts.
LEMMA WritingIsSubmission ==
    ASSUME TypeInv, EditInv, [Next]_vars, NEW p \in Places,
           Len(receipts') > Len(receipts), content'[p] # content[p]
    PROVE  /\ op = "write" /\ p = Head(todo) /\ ~HasReceipt(at, p) /\ Writable(at, p)
<1>1. receipts' # receipts /\ content' # content
    BY DEF TypeInv, TypeOK
<1>2. WriteEntry
    BY <1>1 DEF Next, Control, Step, vars, targetVars, Get, Open, Submit, FinishPackage, Stop, Resume,
                Resumed, Keep, Advance, GoOn, EditRegistry, Skip, Retry, Regenerate, SaveRecord,
                MeetConflict, SubmitFails, FinishSubmit, EndSubmit, MergeRecord, MergeDone,
                AdvanceMerged, KeepEntry, Kept, ResumeKept, EditRecord, Edited, Interrupt, EditEntry
<1>3. content' = [content EXCEPT ![Head(todo)] = @ + 1] /\ ~HasReceipt(at, Head(todo)) /\ Writable(at,
    Head(todo))
    BY <1>1, <1>2 DEF WriteEntry, targetVars
<1>4. p = Head(todo)
    BY <1>3 DEF TypeInv, TypeOK
<1> QED BY <1>2, <1>3, <1>4 DEF WriteEntry

\* A step that writes an entry without approval finds the version the job wrote last.
LEMMA EditsStep ==
    ASSUME TypeInv, EditInv, [Next]_vars, NEW p \in Places,
           ByUser(p), Len(receipts') > Len(receipts), content'[p] # content[p]
    PROVE  \E u \in Units : p \in Range(PlacesOf[u]) /\ approved[u]
<1>1. op = "write" /\ p = Head(todo) /\ Writable(at, p)
    BY WritingIsSubmission
<1>2. at \in Units /\ p \in Range(PlacesOf[at])
    BY <1>1, RangeSeq DEF TypeInv, TypeOK, OpType, EditInv, TodoTrue
<1>3. CASE approved[at]
    BY <1>2, <1>3
<1>4. CASE \E ref \in LatestRefs(p) : ~ref.owned /\ ref.stamp = content[p]
    <2>1. PICK u \in Units : refs[u][p].n # 0 /\ ~refs[u][p].owned /\ refs[u][p].stamp = content[p]
        BY <1>4 DEF LatestRefs
    <2>2. ~OwnWriting(p, content[p])
        BY DEF ByUser, OwnWriting
    <2> QED BY <2>1, <2>2 DEF EditInv, RefsTrue
<1> QED BY <1>1, <1>3, <1>4 DEF Writable, ByUser

\* A package never hands out what is saved.
LEMMA WorkStep ==
    ASSUME TypeInv, EditInv, [Next]_vars, NEW u \in Units,
           unitStatus[u] # "running", active' # active, unitStatus'[u] = "running"
    PROVE  ~Saved(u)
<1>1. CASE \E S \in SUBSET Units : Open(S)
    <2>1. PICK S \in SUBSET Units : Open(S)
        BY <1>1
    <2> DEFINE state == Recovered(unitStatus)
               claimed == {w \in S \cup UNION {DependsOn[c] : c \in S \cap Chunks} : state[w] # "done"}
    <2>2. S \subseteq ReadyIn(state)
        BY <2>1 DEF Open
    <2>3. unitStatus'[u] = IF u \in claimed THEN "running" ELSE state[u]
        BY <2>1 DEF Open
    <2>4. state[u] = IF Saved(u) THEN IF Intact(u) THEN "done" ELSE "conflict"
                     ELSE IF unitStatus[u] = "done" THEN "conflict" ELSE unitStatus[u]
        BY DEF Recovered
    <2>5. CASE u \in S
        BY <2>2, <2>4, <2>5 DEF ReadyIn
    <2>6. CASE u \notin S /\ u \in claimed
        <3>1. u \in Readings
            BY <2>6 DEF Readings
        <3>2. \A p : ~HasReceipt(u, p)
            BY <3>1, JobAssumption, RangeSeq
               DEF EditInv, ReceiptsTrue, HasReceipt, IsReceipt
        <3>3. Intact(u)
            BY <3>2 DEF Intact
        <3> QED BY <2>4, <2>6, <3>3
    <2>7. CASE u \notin claimed
        BY <2>3, <2>4, <2>7
    <2> QED BY <2>5, <2>6, <2>7
<1>2. CASE ~\E S \in SUBSET Units : Open(S)
    <2>1. ASSUME NEW flag \in BOOLEAN, Get(flag)
          PROVE  unitStatus'[u] # "running" \/ active' = active
        BY <2>1 DEF Get, Released, InFlight
    <2>2. ASSUME NEW q \in BOOLEAN, FinishPackage(q)
          PROVE  unitStatus'[u] # "running"
        BY <2>2 DEF FinishPackage
    <2>3. ASSUME Stop
          PROVE  unitStatus'[u] # "running"
        BY <2>3 DEF Stop, Released, InFlight
    <2>4. ASSUME NEW w \in Units, Requeue(w)
          PROVE  unitStatus'[u] # "running"
        BY <2>4 DEF Requeue
    <2>5. ASSUME NEW state, NEW ref, NEW halts \in BOOLEAN, Resumed(state, ref, halts)
          PROVE  unitStatus'[u] # "running" \/ active' = active
        BY <2>5 DEF Resumed, Released, InFlight
    <2>6. \A w \in Units : Retry(w) \/ Regenerate(w) => Requeue(w)
        BY DEF Retry, Regenerate
    <2>7. Resume => \/ Resumed(unitStatus, refs, status = "running")
                    \/ \E w \in Units : Keep(w, "resume")
        BY DEF Resume
    <2>8. (status = "running") \in BOOLEAN
        OBVIOUS
    <2>9. \/ active' = active
          \/ \E flag \in BOOLEAN : Get(flag)
          \/ \E q \in BOOLEAN : FinishPackage(q)
          \/ Stop
          \/ \E w \in Units : Requeue(w)
          \/ Resumed(unitStatus, refs, status = "running")
          \/ Resumed(KeptStatus, KeptRefs, FALSE)
        BY <1>2, <2>6, <2>7
           DEF Next, Control, Step, vars, jobVars, Submit, Keep, Advance, GoOn, EditRegistry, Skip,
               SaveRecord, WriteEntry, MeetConflict, SubmitFails, FinishSubmit, EndSubmit, MergeRecord,
               MergeDone, AdvanceMerged, KeepEntry, Kept, ResumeKept, EditRecord, Edited, Interrupt,
                   EditEntry
    <2>10. Resumed(unitStatus, refs, status = "running") \/ Resumed(KeptStatus, KeptRefs, FALSE)
              => unitStatus'[u] # "running" \/ active' = active
        BY <2>5, <2>8
    <2> QED BY <2>1, <2>2, <2>3, <2>4, <2>9, <2>10
<1> QED BY <1>1, <1>2

-----------------------------------------------------------------------------

\* Text of the user is overwritten only where the user let a unit do that.
THEOREM UserTextSurvives == Spec => EditsSurvive
<1>1. TypeInv /\ EditInv /\ [Next]_vars => TypeInv' /\ EditInv'
    BY TypeStep, EditStep
<1>2. ASSUME TypeInv, EditInv, [Next]_vars
      PROVE  [\A p \in Places : ByUser(p) /\ Len(receipts') > Len(receipts) /\ content'[p] # content[p]
                  => \E u \in Units : p \in Range(PlacesOf[u]) /\ approved[u]]_vars
    BY <1>2, EditsStep
<1> QED BY TypeInit, EditInit, <1>1, <1>2, PTL DEF Spec, EditsSurvive

\* Saved work is not handed out again, whatever was interrupted before.
THEOREM SavedWorkIsKept == Spec => WorkIsKept
<1>1. TypeInv /\ EditInv /\ [Next]_vars => TypeInv' /\ EditInv'
    BY TypeStep, EditStep
<1>2. ASSUME TypeInv, EditInv, [Next]_vars
      PROVE  [\A u \in Units : unitStatus[u] # "running" /\ active' # active /\ unitStatus'[u] = "running"
                  => ~Saved(u)]_vars
    BY <1>2, WorkStep
<1> QED BY TypeInit, EditInit, <1>1, <1>2, PTL DEF Spec, WorkIsKept

-----------------------------------------------------------------------------
(* What is done is saved, unless the core ends while an edited registry is  *)
(* saved or while a choice to keep what the user wrote is carried out.      *)

Calm == Faults \cap {"editCrash", "keepCrash", "emptyKeep"} = {}

Kinds == {"retry", "resolved", "review", "edit"}
Until(rev, time) == \A i \in DOMAIN rev : rev[i].time <= time

\* Revisions are as old as the clock says.
Clocked ==
    /\ \A u \in Units : Until(revision[u], clock)
    /\ \A i \in DOMAIN receipts : Until(receipts[i].rev, clock)

\* A unit that has written for its revision knows all it has to write.
SavedOnce ==
    \A u \in Units, p \in Places : HasReceipt(u, p) => required[u] = Range(PlacesOf[u])

\* A unit refers to all its entries or to none.
RefsWhole ==
    \A u \in Units : (\E p \in Places : Written(u, p)) => \A p \in Range(PlacesOf[u]) : Written(u, p)

Recorded(u) == <<u, RecordId(revision[u])>> \in records
Whole(u) == \A p \in Range(PlacesOf[u]) : HasReceipt(u, p)

\* How far an operation has come.
Progress ==
    /\ op \in {"record", "write", "finish", "keep", "kept"} =>
          /\ required[at] = Range(PlacesOf[at])
          /\ \A p \in Range(PlacesOf[at]) : p \in Range(todo) \/ HasReceipt(at, p)
    /\ op \in {"finish", "kept"} => todo = <<>>
    /\ op \in {"write", "finish"} /\ RecordOnly(at) => Recorded(at)
    /\ op = "keep" => \A p \in Range(PlacesOf[at]) : Written(at, p)
    /\ op \in {"write", "keep"} => ~RecordOnly(at)
    /\ op \in {"keep", "kept"} => unitStatus[at] = "conflict"
    /\ op \in {"editRecord", "edited", "mergeDone", "mergeRecord"} => at = Merge
    /\ op = "mergeDone" => Recorded(Merge)

\* Records are never in conflict, and a choice is carried out at once.
Settled ==
    \A u \in Units :
        /\ unitStatus[u] = "conflict" => ~RecordOnly(u)
        /\ intent[u] => op \in {"keep", "kept"} /\ at = u

DataInv == Clocked /\ SavedOnce /\ RefsWhole
DoneInv == DataInv /\ Progress /\ Settled /\ DoneIsSaved

\* A cut is the beginning of what it is cut from, and all of it if it has no such suffix.
LEMMA CutBegins ==
    ASSUME NEW rev \in Revisions, NEW kind
    PROVE  /\ DOMAIN Cut(rev, kind) \subseteq DOMAIN rev
           /\ \A i \in DOMAIN Cut(rev, kind) : Cut(rev, kind)[i] = rev[i]
           /\ (\A i \in DOMAIN rev : rev[i].kind # kind) => Cut(rev, kind) = rev
<1> DEFINE n == CHOOSE k \in 0..Len(rev) : /\ \A i \in 1..k : rev[i].kind # kind
                                           /\ k < Len(rev) => rev[k + 1].kind = kind
<1>1. \E k \in 0..Len(rev) : /\ \A i \in 1..k : rev[i].kind # kind
                             /\ k < Len(rev) => rev[k + 1].kind = kind
    BY CutEnds
<1>2. n \in 0..Len(rev) /\ (n < Len(rev) => rev[n + 1].kind = kind)
    BY <1>1
<1> HIDE DEF n
<1>3. rev \in Seq(Suffix) /\ Len(rev) \in Nat /\ DOMAIN rev = 1..Len(rev)
    BY DEF Revisions, Suffix
<1>4. /\ DOMAIN SubSeq(rev, 1, n) \subseteq DOMAIN rev
      /\ \A i \in DOMAIN SubSeq(rev, 1, n) : SubSeq(rev, 1, n)[i] = rev[i]
    <2>1. \A i \in 1..n : rev[i] \in Suffix
        BY <1>2, <1>3
    <2>2. n \in Int /\ Len(rev) \in Nat
        BY <1>2, <1>3
    <2>3. /\ SubSeq(rev, 1, n) \in Seq(Suffix)
          /\ Len(SubSeq(rev, 1, n)) = IF 1 <= n THEN n - 1 + 1 ELSE 0
          /\ \A i \in 1..(n - 1 + 1) : SubSeq(rev, 1, n)[i] = rev[1 + i - 1]
        BY <2>1, <2>2, SubSeqProperties
    <2>4. DOMAIN SubSeq(rev, 1, n) = 1..n /\ DOMAIN rev = 1..Len(rev)
        BY <1>2, <1>3, <2>2, <2>3
    <2> QED BY <1>2, <2>2, <2>3, <2>4
<1>5. ASSUME \A i \in DOMAIN rev : rev[i].kind # kind
      PROVE  SubSeq(rev, 1, n) = rev
    <2>1. n = Len(rev)
        <3>1. n < Len(rev) => n + 1 \in DOMAIN rev
            BY <1>2, <1>3
        <3>2. n < Len(rev) => rev[n + 1].kind = kind
            BY <1>2
        <3>3. ~(n < Len(rev))
            BY <1>5, <3>1, <3>2, Zenon
        <3>4. n \in 0..Len(rev) /\ Len(rev) \in Nat
            BY <1>2, <1>3
        <3> QED BY <3>3, <3>4
    <2> QED BY <1>3, <2>1, SubSeqFull
<1>6. Cut(rev, kind) = SubSeq(rev, 1, n)
    BY DEF Cut, n
<1> QED BY <1>4, <1>5, <1>6

\* A cut is not younger than what it is cut from.
LEMMA CutUntil ==
    ASSUME NEW rev \in Revisions, NEW kind, NEW time \in Nat, Until(rev, time)
    PROVE  Until(Cut(rev, kind), time)
BY CutBegins DEF Until

\* What is as old as a time is as old as a later one.
LEMMA UntilLater ==
    ASSUME NEW rev \in Revisions, NEW time \in Nat, Until(rev, time)
    PROVE  Until(rev, time + 1)
<1>1. rev \in Seq(Suffix)
    BY DEF Revisions, Suffix
<1>2. \A i \in DOMAIN rev : rev[i] \in Suffix
    BY <1>1
<1> QED BY <1>2 DEF Suffix, Until

\* A new suffix is later than all that has been saved.
LEMMA SuffixedIsNew ==
    ASSUME clock \in Nat, NEW rev \in Revisions, NEW kind, Until(rev, clock + 1)
    PROVE  /\ Until(Suffixed(rev, kind), clock + 1)
           /\ ~Until(Suffixed(rev, kind), clock)
<1> DEFINE last == [kind |-> kind, time |-> clock + 1]
<1>1. /\ Len(rev) \in Nat /\ DOMAIN rev = 1..Len(rev)
      /\ DOMAIN Append(rev, last) = 1..(Len(rev) + 1)
      /\ \A i \in 1..Len(rev) : Append(rev, last)[i] = rev[i]
      /\ Append(rev, last)[Len(rev) + 1] = last
    BY DEF Revisions
<1>2. last.time = clock + 1
    OBVIOUS
<1> HIDE DEF last
<1>3. \A i \in 1..(Len(rev) + 1) : i \in 1..Len(rev) \/ i = Len(rev) + 1
    BY <1>1
<1>4. Suffixed(rev, kind) = Append(rev, last)
    BY DEF Suffixed, last
<1>5. \A i \in DOMAIN Append(rev, last) : Append(rev, last)[i].time <= clock + 1
    BY <1>1, <1>2, <1>3 DEF Until
<1>6. Len(rev) + 1 \in DOMAIN Append(rev, last) /\ ~(Append(rev, last)[Len(rev) + 1].time <= clock)
    BY <1>1, <1>2
<1> QED BY <1>4, <1>5, <1>6 DEF Until

\* A suffix that is new makes a revision that nothing has been saved for.
LEMMA Revised ==
    ASSUME TypeInv, Clocked, UNCHANGED receipts, clock' \in {clock, clock + 1},
           \A u \in Units :
               \/ revision'[u] = revision[u]
               \/ /\ clock' = clock + 1
                  /\ \E rev \in Revisions, kind \in Kinds :
                        Until(rev, clock + 1) /\ revision'[u] = Suffixed(rev, kind)
    PROVE  /\ Clocked'
           /\ \A u \in Units, p \in Places :
                 /\ revision'[u] = revision[u] => (HasReceipt(u, p)' <=> HasReceipt(u, p))
                 /\ revision'[u] # revision[u] => ~HasReceipt(u, p)'
<1>1. clock \in Nat
    BY DEF TypeInv, TypeOK
<1>2. \A rev \in Revisions : Until(rev, clock) => Until(rev, clock + 1)
    BY <1>1, UntilLater
<1>3. /\ \A u \in Units : revision[u] \in Revisions
      /\ \A i \in DOMAIN receipts : receipts[i].rev \in Revisions
    <2>1. receipts \in Seq(ReceiptRecord)
        BY DEF TypeInv, TypeOK, ReceiptRecord
    <2>2. \A i \in DOMAIN receipts : receipts[i] \in ReceiptRecord
        BY <2>1
    <2> QED BY <2>2 DEF TypeInv, TypeOK, ReceiptRecord
<1>4. ASSUME NEW u \in Units
      PROVE  Until(revision'[u], clock')
    BY <1>1, <1>2, <1>3, SuffixedIsNew DEF Clocked
<1>5. ASSUME NEW i \in DOMAIN receipts
      PROVE  Until(receipts[i].rev, clock')
    BY <1>2, <1>3 DEF Clocked
<1>6. Clocked'
    BY <1>4, <1>5 DEF Clocked, Until
<1>7. ASSUME NEW u \in Units, NEW p \in Places
      PROVE  /\ revision'[u] = revision[u] => (HasReceipt(u, p)' <=> HasReceipt(u, p))
             /\ revision'[u] # revision[u] => ~HasReceipt(u, p)'
    <2>1. HasReceipt(u, p)' <=> \E i \in DOMAIN receipts :
              receipts[i].unit = u /\ receipts[i].rev = revision'[u] /\ receipts[i].place = p
        BY DEF HasReceipt, IsReceipt
    <2>2. CASE revision'[u] = revision[u]
        BY <2>1, <2>2 DEF HasReceipt, IsReceipt
    <2>3. CASE revision'[u] # revision[u]
        <3>1. ~Until(revision'[u], clock)
            BY <1>1, <2>3, SuffixedIsNew
        <3> QED BY <2>1, <2>3, <3>1 DEF Clocked
    <2> QED BY <2>2, <2>3
<1> QED BY <1>6, <1>7

Safe(u) == IF RecordOnly(u) THEN Recorded(u) ELSE Whole(u)

\* A saved unit that has to write all its entries has written them.
LEMMA SavedIsSafe ==
    ASSUME SavedOnce, NEW u \in Units, Saved(u)
    PROVE  Safe(u)
BY DEF SavedOnce, Saved, Safe, Whole, Recorded

\* DoneIsSaved in terms of Safe.
LEMMA DoneIsSafe ==
    DoneIsSaved <=>
        \A u \in Units : unitStatus[u] = "done" /\ ~(op = "editRecord" /\ at = u) => Safe(u)
BY DEF DoneIsSaved, Safe, Whole, Recorded

\* What is saved stays so while its revision stays.
LEMMA StaysSafe ==
    ASSUME TypeInv, records \subseteq records',
           receipts' = receipts \/ \E r \in ReceiptRecord : receipts' = Append(receipts, r),
           NEW u \in Units, revision'[u] = revision[u]
    PROVE  /\ \A p \in Places : HasReceipt(u, p) => HasReceipt(u, p)'
           /\ Recorded(u) => Recorded(u)'
           /\ Safe(u) => Safe(u)'
<1>1. /\ DOMAIN receipts \subseteq DOMAIN receipts'
      /\ \A i \in DOMAIN receipts : receipts'[i] = receipts[i]
    <2>1. receipts \in Seq(ReceiptRecord)
        BY DEF TypeInv, TypeOK, ReceiptRecord
    <2>2. ASSUME NEW r \in ReceiptRecord, receipts' = Append(receipts, r)
          PROVE  /\ DOMAIN receipts \subseteq DOMAIN receipts'
                 /\ \A i \in DOMAIN receipts : receipts'[i] = receipts[i]
        BY <2>1, <2>2
    <2> QED BY <2>2
<1>2. \A p : HasReceipt(u, p) => HasReceipt(u, p)'
    BY <1>1 DEF HasReceipt, IsReceipt
<1>3. Recorded(u) => Recorded(u)'
    BY DEF Recorded, RecordId, Cut
<1> QED BY <1>2, <1>3 DEF Safe, Whole, RecordOnly


\* What a step makes a unit refer to is all of its entries or none.
LEMMA RefsStayWhole ==
    ASSUME TypeInv, SavedOnce, RefsWhole,
           \A u \in Units : \/ \A p \in Places : refs'[u][p].n = refs[u][p].n
                            \/ refs'[u] = NewestRefs(u) /\ Saved(u)
                            \/ refs'[u] = WrittenRefs(u) /\ Whole(u)
    PROVE  RefsWhole'
<1>1. ASSUME NEW u \in Units, NEW p \in Places, refs'[u][p].n # 0, NEW q \in Range(PlacesOf[u])
      PROVE  refs'[u][q].n # 0
    <2>1. q \in Places
        BY RangeType
    <2>2. CASE \A x \in Places : refs'[u][x].n = refs[u][x].n
        BY <1>1, <2>1, <2>2 DEF RefsWhole, Written
    <2>3. ASSUME NEW i \in DOMAIN receipts
          PROVE  RefTo(i).n # 0
        BY DEF RefTo, TypeInv, TypeOK
    <2>4. ASSUME Whole(u)
          PROVE  NewestRefs(u)[q].n # 0 /\ WrittenRefs(u)[q].n # 0
        <3>1. PICK j \in DOMAIN receipts : IsReceipt(j, u, q)
            BY <2>4 DEF Whole, HasReceipt
        <3>2. Newest(q) \in DOMAIN receipts
            BY <3>1, NewestIs DEF IsReceipt, TypeInv, TypeOK, ReceiptRecord
        <3>3. (CHOOSE i \in DOMAIN receipts : IsReceipt(i, u, q)) \in DOMAIN receipts
            BY <3>1
        <3> QED BY <2>1, <2>3, <2>4, <3>2, <3>3 DEF NewestRefs, WrittenRefs, Whole
    <2>5. CASE refs'[u] = NewestRefs(u) /\ Saved(u)
        <3>1. HasReceipt(u, p)
            BY <1>1, <2>5 DEF NewestRefs, NoRef
        <3>2. required[u] = Range(PlacesOf[u]) /\ ~RecordOnly(u)
            <4>1. required[u] = Range(PlacesOf[u])
                BY <3>1 DEF SavedOnce
            <4>2. ~RecordOnly(u)
                <5>1. PlacesOf[u] = <<>> => Range(PlacesOf[u]) = {}
                    BY RangeType, RangeSeq
                <5> QED BY <1>1, <5>1 DEF RecordOnly
            <4> QED BY <4>1, <4>2
        <3>3. Whole(u)
            BY <2>5, <3>2 DEF Saved, Whole
        <3> QED BY <2>4, <2>5, <3>3
    <2> QED BY <2>2, <2>4, <2>5
<1> QED BY <1>1 DEF RefsWhole, Written

\* Recovery finds no record in conflict, and what it takes for done is saved.
LEMMA RecoveredSafe ==
    ASSUME TypeInv, ReceiptsTrue, SavedOnce, NEW state,
           \A u \in Units : /\ state[u] = "done" => Safe(u)
                            /\ state[u] = "conflict" => ~RecordOnly(u)
    PROVE  \A u \in Units : /\ Recovered(state)[u] = "done" => Safe(u)
                            /\ Recovered(state)[u] = "conflict" => ~RecordOnly(u)
<1>1. ASSUME NEW u \in Units, RecordOnly(u)
      PROVE  Recovered(state)[u] # "conflict"
    <2>1. Range(PlacesOf[u]) = {}
        BY <1>1, RangeType, RangeSeq DEF RecordOnly
    <2>2. \A p \in Places : ~HasReceipt(u, p)
        BY <2>1 DEF ReceiptsTrue, HasReceipt, IsReceipt
    <2>3. Intact(u)
        BY <2>2 DEF Intact
    <2>4. state[u] = "done" => Saved(u)
        BY <1>1 DEF Safe, Recorded, Saved
    <2> QED BY <1>1, <2>3, <2>4 DEF Recovered
<1>2. ASSUME NEW u \in Units, Recovered(state)[u] = "done"
      PROVE  Safe(u)
    BY <1>2, SavedIsSafe DEF Recovered
<1> QED BY <1>1, <1>2

\* What holds between two operations.
LEMMA IdleIs ==
    ASSUME DoneInv, op \notin {"keep", "kept", "editRecord"}
    PROVE  \A u \in Units : /\ unitStatus[u] = "done" => Safe(u)
                            /\ unitStatus[u] = "conflict" => ~RecordOnly(u)
                            /\ ~intent[u]
BY DoneIsSafe DEF DoneInv, Settled

\* Steps that end an operation, or are one: they save nothing but the job.
LEMMA QuietDone ==
    ASSUME TypeInv, DataInv, UNCHANGED <<revision, receipts, required, clock, records>>,
           \A u \in Units : \/ refs'[u] = refs[u]
                            \/ refs'[u] = NewestRefs(u) /\ Saved(u)
                            \/ refs'[u] = WrittenRefs(u) /\ Whole(u),
           \A u \in Units : /\ unitStatus'[u] = "done" => Safe(u)
                            /\ unitStatus'[u] = "conflict" => ~RecordOnly(u)
                            /\ ~intent'[u],
           op' \in {"none", "mergeRecord", "advance"}, op' = "mergeRecord" => at' = Merge
    PROVE  DoneInv'
<1>1. \A u, p : HasReceipt(u, p)' <=> HasReceipt(u, p)
    BY DEF HasReceipt, IsReceipt
<1>2. Clocked' /\ SavedOnce'
    BY <1>1 DEF DataInv, Clocked, Until, SavedOnce
<1>3. RefsWhole'
    BY RefsStayWhole DEF DataInv
<1>4. Progress' /\ Settled'
    BY DEF Progress, Settled, RecordOnly
<1>5. \A u \in Units : Safe(u) => Safe(u)'
    BY StaysSafe
<1>6. DoneIsSaved'
    BY <1>5 DEF DoneIsSaved, Safe, Whole, Recorded
<1> QED BY <1>2, <1>3, <1>4, <1>6 DEF DoneInv, DataInv

\* Get keeps DoneInv.
LEMMA GetDone ==
    ASSUME TypeInv, EditInv, DoneInv, NEW flag \in BOOLEAN, Get(flag)
    PROVE  DoneInv'
<1>1. op = "none" /\ op' = "none"
    BY DEF Get, Idle, opVars
<1>2. \A u \in Units : /\ unitStatus'[u] = "done" => Safe(u)
                       /\ unitStatus'[u] = "conflict" => ~RecordOnly(u)
                       /\ ~intent'[u]
    BY <1>1, IdleIs, RecoveredSafe DEF Get, Released, EditInv, DoneInv, DataInv
<1>3. \A u \in Units : refs'[u] = refs[u] \/ (refs'[u] = NewestRefs(u) /\ Saved(u))
    BY DEF Get, RecoveredRefs
<1>4. DataInv /\ UNCHANGED <<revision, receipts, required, clock, records>>
    BY DEF Get, targetVars, bounds, DoneInv
<1> QED BY <1>1, <1>2, <1>3, <1>4, QuietDone

\* Open keeps DoneInv.
LEMMA OpenDone ==
    ASSUME TypeInv, EditInv, DoneInv, NEW S \in SUBSET Units, Open(S)
    PROVE  DoneInv'
<1>1. op = "none" /\ op' = "none"
    BY DEF Open, Idle, opVars
<1>2. \A u \in Units : /\ unitStatus'[u] = "done" => Safe(u)
                       /\ unitStatus'[u] = "conflict" => ~RecordOnly(u)
                       /\ ~intent'[u]
    <2>1. \A u \in Units : unitStatus'[u] \in {"running", Recovered(unitStatus)[u]}
        BY DEF Open
    <2>2. intent' = intent
        BY DEF Open
    <2> QED BY <1>1, <2>1, <2>2, IdleIs, RecoveredSafe DEF EditInv, DoneInv, DataInv
<1>3. \A u \in Units : refs'[u] = refs[u] \/ (refs'[u] = NewestRefs(u) /\ Saved(u))
    BY DEF Open, RecoveredRefs
<1>4. DataInv /\ UNCHANGED <<revision, receipts, required, clock, records>>
    BY DEF Open, targetVars, DoneInv
<1> QED BY <1>1, <1>2, <1>3, <1>4, QuietDone

\* Submit keeps DoneInv.
LEMMA SubmitDone ==
    ASSUME TypeInv, DoneInv, NEW u \in Units, Submit(u)
    PROVE  DoneInv'
<1>1. /\ UNCHANGED <<revision, receipts, clock, records, refs, intent>>
      /\ op = "none"
      /\ op' = "record" /\ at' = u /\ todo' = PlacesOf[u]
    BY DEF Submit, Idle, Begin, targetVars, bounds
<1>2. required' = [required EXCEPT ![u] = Range(PlacesOf[u])]
    BY DEF Submit
<1>3. \A w, p : HasReceipt(w, p)' <=> HasReceipt(w, p)
    BY <1>1 DEF HasReceipt, IsReceipt
<1>4. DataInv'
    BY <1>1, <1>2, <1>3 DEF DoneInv, DataInv, Clocked, Until, SavedOnce, RefsWhole, Written, TypeInv,
                            TypeOK
<1>5. Progress'
    BY <1>1, <1>2 DEF Progress, TypeInv, TypeOK
<1>6. \A w \in Units : unitStatus'[w] \in {"writing", unitStatus[w]}
    BY DEF Submit, TypeInv, TypeOK
<1>7. Settled'
    BY <1>1, <1>6, IdleIs DEF Settled, RecordOnly
<1>8. DoneIsSaved'
    <2>1. \A w \in Units : Safe(w) => Safe(w)'
        BY <1>1, StaysSafe
    <2> QED BY <1>1, <1>6, <2>1, IdleIs DEF DoneIsSaved, Safe, Whole, Recorded
<1> QED BY <1>4, <1>5, <1>7, <1>8 DEF DoneInv

\* SaveRecord keeps DoneInv.
LEMMA SaveRecordDone ==
    ASSUME TypeInv, EditInv, DoneInv, SaveRecord
    PROVE  DoneInv'
<1>1. /\ UNCHANGED <<revision, receipts, clock, required, refs, intent, unitStatus, at, todo>>
      /\ op = "record" /\ op' = IF todo = <<>> THEN "finish" ELSE "write"
      /\ records' = records \cup {<<at, RecordId(revision[at])>>}
    BY DEF SaveRecord, Begin, unitVars, targetVars, bounds
<1>2. \A w, p : HasReceipt(w, p)' <=> HasReceipt(w, p)
    BY <1>1 DEF HasReceipt, IsReceipt
<1>3. DataInv'
    BY <1>1, <1>2 DEF DoneInv, DataInv, Clocked, Until, SavedOnce, RefsWhole, Written
<1>4. Progress'
    <2>1. Recorded(at)'
        BY <1>1 DEF Recorded
    <2>2. \A p \in Range(PlacesOf[at]) : p \in Range(todo) \/ HasReceipt(at, p)
        BY <1>1 DEF DoneInv, Progress
    <2>3. required[at] = Range(PlacesOf[at])
        BY <1>1 DEF DoneInv, Progress
    <2>4. todo = <<>> \/ ~RecordOnly(at)
        <3>1. todo \in Seq(Places) /\ Range(todo) \subseteq Range(PlacesOf[at])
            BY <1>1 DEF TypeInv, OpType, EditInv, TodoTrue
        <3>2. /\ Range(<<>>) = {}
              /\ todo # <<>> => Head(todo) \in Range(todo)
            BY <3>1, RangeSeq
        <3> QED BY <3>1, <3>2 DEF RecordOnly
    <2> QED BY <1>1, <1>2, <2>1, <2>2, <2>3, <2>4 DEF Progress, RecordOnly
<1>5. Settled' /\ DoneIsSaved'
    <2>1. \A w \in Units : Safe(w) => Safe(w)'
        BY <1>1, StaysSafe
    <2> QED BY <1>1, <2>1, IdleIs DEF Settled, RecordOnly, DoneIsSaved, Safe, Whole, Recorded
<1> QED BY <1>3, <1>4, <1>5 DEF DoneInv

\* MeetConflict keeps DoneInv.
LEMMA MeetConflictDone ==
    ASSUME TypeInv, DoneInv, MeetConflict
    PROVE  DoneInv'
<1>1. op = "write" /\ op' = "none"
    BY DEF MeetConflict, Return, Begin
<1>2. \A u \in Units : /\ unitStatus'[u] = "done" => Safe(u)
                       /\ unitStatus'[u] = "conflict" => ~RecordOnly(u)
                       /\ ~intent'[u]
    <2>1. ~RecordOnly(at)
        BY <1>1 DEF DoneInv, Progress
    <2> QED BY <1>1, <2>1, IdleIs DEF MeetConflict, TypeInv, TypeOK
<1>3. DataInv /\ UNCHANGED <<revision, receipts, required, clock, records, refs>>
    BY DEF MeetConflict, targetVars, bounds, DoneInv
<1> QED BY <1>1, <1>2, <1>3, QuietDone

\* SubmitFails keeps DoneInv.
LEMMA SubmitFailsDone ==
    ASSUME TypeInv, DoneInv, SubmitFails
    PROVE  DoneInv'
<1>1. op \in {"record", "write"} /\ op' = "none"
    BY DEF SubmitFails, Return, Begin
<1>2. \A u \in Units : /\ unitStatus'[u] = "done" => Safe(u)
                       /\ unitStatus'[u] = "conflict" => ~RecordOnly(u)
                       /\ ~intent'[u]
    BY <1>1, IdleIs DEF SubmitFails, TypeInv, TypeOK
<1>3. DataInv /\ UNCHANGED <<revision, receipts, required, clock, records, refs>>
    BY DEF SubmitFails, targetVars, bounds, DoneInv
<1> QED BY <1>1, <1>2, <1>3, QuietDone

\* An entry is written, or kept, with a receipt of the unit's revision.
LEMMA EntryData ==
    ASSUME TypeInv, EditInv, DataInv, NEW u \in Units, NEW s \in Seq(Places), s # <<>>,
           NEW stamp \in Nat, NEW owned \in BOOLEAN,
           UNCHANGED <<revision, required, clock, refs>>, required[u] = Range(PlacesOf[u]),
           Range(s) \subseteq Range(PlacesOf[u]),
           \A p \in Range(PlacesOf[u]) : p \in Range(s) \/ HasReceipt(u, p),
           \/ receipts' = receipts /\ HasReceipt(u, Head(s))
           \/ receipts' = Append(receipts, Receipt(u, Head(s), stamp, owned))
    PROVE  /\ DataInv'
           /\ \A p \in Range(PlacesOf[u]) : p \in Range(Tail(s)) \/ HasReceipt(u, p)'
<1> DEFINE new == Receipt(u, Head(s), stamp, owned)
<1>1. Head(s) \in Places /\ Head(s) \in Range(s)
    BY RangeSeq
<1>2. receipts \in Seq(ReceiptRecord)
    BY DEF TypeInv, TypeOK, ReceiptRecord
<1>3. new \in ReceiptRecord
    BY <1>1 DEF Receipt, ReceiptRecord, TypeInv, TypeOK
<1>4. new.unit = u /\ new.rev = revision[u] /\ new.place = Head(s)
    BY DEF Receipt
<1>5. receipts' = receipts \/ receipts' = Append(receipts, new)
    OBVIOUS
<1> HIDE DEF new
<1>6. \A i \in DOMAIN receipts' :
          (i \in DOMAIN receipts /\ receipts'[i] = receipts[i]) \/ receipts'[i] = new
    BY <1>2, <1>3, <1>5
<1>7. ASSUME NEW w \in Units, NEW p \in Places, HasReceipt(w, p)'
      PROVE  HasReceipt(w, p) \/ w = u
    BY <1>4, <1>6, <1>7 DEF HasReceipt, IsReceipt
<1>8. Clocked'
    <2>1. Until(revision[u], clock)
        BY DEF DataInv, Clocked
    <2> QED BY <1>4, <1>6, <2>1 DEF DataInv, Clocked, Until
<1>9. SavedOnce' /\ RefsWhole'
    BY <1>7 DEF DataInv, SavedOnce, RefsWhole, Written
<1>10. HasReceipt(u, Head(s))'
    <2>1. CASE receipts' = receipts /\ HasReceipt(u, Head(s))
        BY <2>1 DEF HasReceipt, IsReceipt
    <2>2. CASE receipts' = Append(receipts, new)
        <3>1. Len(receipts) + 1 \in DOMAIN receipts' /\ receipts'[Len(receipts) + 1] = new
            BY <1>2, <1>3, <2>2
        <3> QED BY <1>4, <3>1 DEF HasReceipt, IsReceipt
    <2> QED BY <2>1, <2>2 DEF new
<1>11. \A p \in Places : HasReceipt(u, p) => HasReceipt(u, p)'
    <2>1. ASSUME receipts' = Append(receipts, new)
          PROVE  /\ DOMAIN receipts \subseteq DOMAIN receipts'
                 /\ \A i \in DOMAIN receipts : receipts'[i] = receipts[i]
        BY <1>2, <1>3, <2>1
    <2> QED BY <1>5, <2>1 DEF HasReceipt, IsReceipt
<1>12. \A p \in Range(s) : p = Head(s) \/ p \in Range(Tail(s))
    <2> SUFFICES ASSUME NEW p \in Range(s) PROVE p = Head(s) \/ p \in Range(Tail(s))
        OBVIOUS
    <2>1. PICK i \in DOMAIN s : p = s[i]
        BY DEF Range
    <2>2. CASE i = 1
        BY <1>1, <2>1, <2>2
    <2>3. CASE i # 1
        <3>1. i - 1 \in DOMAIN Tail(s) /\ Tail(s)[i - 1] = s[i]
            BY <1>1, <2>1, <2>3
        <3> QED BY <2>1, <3>1 DEF Range
    <2> QED BY <2>2, <2>3
<1>13. \A p \in Range(PlacesOf[u]) : p \in Places
    BY RangeType
<1> QED BY <1>8, <1>9, <1>10, <1>11, <1>12, <1>13 DEF DataInv

\* The entries of a tail are those of the sequence but for its head.
LEMMA TailEnds ==
    ASSUME NEW s \in Seq(Places), s # <<>>
    PROVE  Len(s) = 1 <=> Tail(s) = <<>>
<1>1. Len(s) \in Nat \ {0} /\ Tail(s) \in Seq(Places) /\ Len(Tail(s)) = Len(s) - 1
    OBVIOUS
<1>2. Tail(s) = <<>> <=> Len(Tail(s)) = 0
    BY <1>1, EmptySeq
<1> QED BY <1>1, <1>2

\* WriteEntry keeps DoneInv.
LEMMA WriteEntryDone ==
    ASSUME TypeInv, EditInv, DoneInv, WriteEntry
    PROVE  DoneInv'
<1>1. /\ UNCHANGED <<revision, required, clock, refs, records, intent, unitStatus, at>>
      /\ op = "write" /\ op' = IF Len(todo) = 1 THEN "finish" ELSE "write"
      /\ todo' = Tail(todo)
    BY DEF WriteEntry, NextPlace, Begin, unitVars, bounds
<1>2. /\ at \in Units /\ todo \in Seq(Places) /\ todo # <<>>
      /\ Head(todo) \in Places
    BY <1>1, TodoTypes DEF TypeInv, OpType
<1>3. \/ receipts' = receipts /\ HasReceipt(at, Head(todo))
      \/ receipts' = Append(receipts, Receipt(at, Head(todo), content[Head(todo)] + 1, FALSE))
    BY DEF WriteEntry, targetVars
<1>4. content[Head(todo)] + 1 \in Nat
    BY <1>2 DEF TypeInv, TypeOK
<1>5. /\ required[at] = Range(PlacesOf[at]) /\ ~RecordOnly(at)
      /\ \A p \in Range(PlacesOf[at]) : p \in Range(todo) \/ HasReceipt(at, p)
    BY <1>1 DEF DoneInv, Progress
<1>6. Range(todo) \subseteq Range(PlacesOf[at])
    BY <1>1 DEF EditInv, TodoTrue
<1>7. /\ DataInv'
      /\ \A p \in Range(PlacesOf[at]) : p \in Range(Tail(todo)) \/ HasReceipt(at, p)'
    BY <1>1, <1>2, <1>3, <1>4, <1>5, <1>6, EntryData DEF DoneInv
<1>8. Progress'
    BY <1>1, <1>2, <1>5, <1>7, TailEnds DEF Progress, RecordOnly
<1>9. Settled' /\ DoneIsSaved'
    <2>1. Receipt(at, Head(todo), content[Head(todo)] + 1, FALSE) \in ReceiptRecord
        BY <1>2, <1>4 DEF Receipt, ReceiptRecord, TypeInv, TypeOK
    <2>2. \A w \in Units : Safe(w) => Safe(w)'
        BY <1>1, <1>3, <2>1, StaysSafe
    <2> QED BY <1>1, <2>2, IdleIs DEF Settled, RecordOnly, DoneIsSaved, Safe, Whole, Recorded
<1> QED BY <1>7, <1>8, <1>9 DEF DoneInv

\* KeepEntry keeps DoneInv.
LEMMA KeepEntryDone ==
    ASSUME TypeInv, EditInv, DoneInv, KeepEntry
    PROVE  DoneInv'
<1>1. /\ UNCHANGED <<revision, required, clock, refs, records, intent, unitStatus, at>>
      /\ op = "keep" /\ op' = IF Len(todo) = 1 THEN "kept" ELSE "keep"
      /\ todo' = Tail(todo)
    BY DEF KeepEntry, Begin, unitVars, bounds
<1>2. /\ at \in Units /\ todo \in Seq(Places) /\ todo # <<>>
      /\ Head(todo) \in Places /\ Head(todo) \in Range(todo)
    BY <1>1, TodoTypes, RangeSeq DEF TypeInv, OpType
<1>3. Range(todo) \subseteq Range(PlacesOf[at])
    BY <1>1 DEF EditInv, TodoTrue
<1>4. /\ required[at] = Range(PlacesOf[at]) /\ ~RecordOnly(at)
      /\ \A p \in Range(PlacesOf[at]) : p \in Range(todo) \/ HasReceipt(at, p)
      /\ \A p \in Range(PlacesOf[at]) : Written(at, p)
      /\ unitStatus[at] = "conflict"
    BY <1>1 DEF DoneInv, Progress
<1>5. \/ receipts' = receipts /\ HasReceipt(at, Head(todo))
      \/ receipts' = Append(receipts, Receipt(at, Head(todo), content[Head(todo)], TRUE))
    BY <1>2, <1>3, <1>4 DEF KeepEntry
<1>6. content[Head(todo)] \in Nat
    BY <1>2 DEF TypeInv, TypeOK
<1>7. /\ DataInv'
      /\ \A p \in Range(PlacesOf[at]) : p \in Range(Tail(todo)) \/ HasReceipt(at, p)'
    BY <1>1, <1>2, <1>3, <1>4, <1>5, <1>6, EntryData DEF DoneInv
<1>8. Progress'
    BY <1>1, <1>2, <1>4, <1>7, TailEnds DEF Progress, RecordOnly, Written
<1>9. Settled' /\ DoneIsSaved'
    <2>1. Receipt(at, Head(todo), content[Head(todo)], TRUE) \in ReceiptRecord
        BY <1>2, <1>6 DEF Receipt, ReceiptRecord, TypeInv, TypeOK
    <2>2. \A w \in Units : Safe(w) => Safe(w)'
        BY <1>1, <1>5, <2>1, StaysSafe
    <2>3. Settled'
        BY <1>1 DEF DoneInv, Settled, RecordOnly
    <2>4. DoneIsSaved'
        BY <1>1, <2>2, DoneIsSafe DEF DoneInv, DoneIsSaved, Safe, Whole, Recorded
    <2> QED BY <2>3, <2>4
<1> QED BY <1>7, <1>8, <1>9 DEF DoneInv

\* EndSubmit keeps DoneInv.
LEMMA EndSubmitDone ==
    ASSUME TypeInv, EditInv, DoneInv, NEW result \in {"done", "running"}, NEW repairs \in SUBSET Units,
           op = "finish", EndSubmit(result, repairs)
    PROVE  DoneInv'
<1>1. /\ UNCHANGED <<receipts, required, records, intent>>
      /\ clock' = IF repairs = {} THEN clock ELSE clock + 1
      /\ refs' = [refs EXCEPT ![at] = WrittenRefs(at)]
      /\ revision' = [u \in Units |-> IF u \in repairs THEN Suffixed(revision[u], "review")
                                      ELSE revision[u]]
      /\ unitStatus' = [u \in Units |-> IF u \in repairs THEN "pending"
                                        ELSE IF u = at THEN result ELSE unitStatus[u]]
    BY DEF EndSubmit, targetVars
<1>2. op' \in {"none", "mergeRecord"} /\ (op' = "mergeRecord" => at' = Merge)
    BY DEF EndSubmit, ThenMerge, Return, Begin
<1>3. at \in Units /\ Whole(at) /\ Safe(at)
    <2>1. at \in Units /\ todo = <<>>
        BY DEF TypeInv, OpType, DoneInv, Progress
    <2>2. Range(<<>>) = {}
        BY EmptySeq, RangeSeq
    <2> QED BY <2>1, <2>2 DEF DoneInv, Progress, Whole, Safe
<1>4. /\ Clocked'
      /\ \A u \in Units, p \in Places :
            /\ revision'[u] = revision[u] => (HasReceipt(u, p)' <=> HasReceipt(u, p))
            /\ revision'[u] # revision[u] => ~HasReceipt(u, p)'
    <2>1. \A u \in Units : revision[u] \in Revisions /\ Until(revision[u], clock)
        BY DEF TypeInv, TypeOK, DoneInv, DataInv, Clocked
    <2>2. \A u \in Units : Until(revision[u], clock + 1)
        BY <2>1, UntilLater DEF TypeInv, TypeOK
    <2> QED BY <1>1, <2>1, <2>2, Revised DEF Kinds, DoneInv, DataInv
<1>5. SavedOnce' /\ RefsWhole'
    <2>1. \A u \in Units : refs'[u] = refs[u] \/ (refs'[u] = WrittenRefs(u) /\ Whole(u))
        BY <1>1, <1>3 DEF TypeInv, TypeOK
    <2>2. RefsWhole'
        BY <2>1, RefsStayWhole DEF DoneInv, DataInv
    <2> QED BY <1>1, <1>4, <2>2 DEF DoneInv, DataInv, SavedOnce
<1>6. Progress'
    BY <1>2 DEF Progress
<1>7. Settled'
    BY <1>1, IdleIs DEF Settled, RecordOnly
<1>8. DoneIsSaved'
    <2>1. \A u \in Units : unitStatus'[u] = "done" => revision'[u] = revision[u] /\ Safe(u)
        BY <1>1, <1>3, IdleIs
    <2>2. \A u \in Units : unitStatus'[u] = "done" => Safe(u)'
        BY <1>1, <2>1, StaysSafe
    <2> QED BY <2>2 DEF DoneIsSaved, Safe, Whole, Recorded
<1> QED BY <1>4, <1>5, <1>6, <1>7, <1>8 DEF DoneInv, DataInv

\* MergeRecord keeps DoneInv.
LEMMA MergeRecordDone ==
    ASSUME TypeInv, DoneInv, MergeRecord
    PROVE  DoneInv'
<1>1. /\ UNCHANGED <<revision, receipts, clock, required, refs, intent, unitStatus>>
      /\ op = "mergeRecord" /\ op' = "mergeDone" /\ at' = Merge
      /\ records' = records \cup {<<Merge, RecordId(revision[Merge])>>}
    BY DEF MergeRecord, Begin, unitVars, targetVars, bounds
<1>2. DataInv'
    BY <1>1 DEF DoneInv, DataInv, Clocked, Until, SavedOnce, RefsWhole, Written, HasReceipt, IsReceipt
<1>3. Progress'
    BY <1>1 DEF Progress, Recorded
<1>4. Settled' /\ DoneIsSaved'
    <2>1. \A w \in Units : Safe(w) => Safe(w)'
        BY <1>1, StaysSafe
    <2> QED BY <1>1, <2>1, IdleIs DEF Settled, RecordOnly, DoneIsSaved, Safe, Whole, Recorded
<1> QED BY <1>2, <1>3, <1>4 DEF DoneInv

\* MergeDone keeps DoneInv.
LEMMA MergeDoneDone ==
    ASSUME TypeInv, DoneInv, MergeDone
    PROVE  DoneInv'
<1>1. op = "mergeDone" /\ op' \in {"none", "advance"}
    BY DEF MergeDone, Return, Begin
<1>2. \A u \in Units : /\ unitStatus'[u] = "done" => Safe(u)
                       /\ unitStatus'[u] = "conflict" => ~RecordOnly(u)
                       /\ ~intent'[u]
    <2>1. Safe(Merge)
        BY <1>1, JobAssumption DEF DoneInv, Progress, Safe, RecordOnly
    <2> QED BY <1>1, <2>1, IdleIs DEF MergeDone, TypeInv, TypeOK
<1>3. DataInv /\ UNCHANGED <<revision, receipts, required, clock, records, refs>>
    BY DEF MergeDone, targetVars, bounds, DoneInv
<1> QED BY <1>1, <1>2, <1>3, QuietDone

\* FinishPackage keeps DoneInv.
LEMMA FinishPackageDone ==
    ASSUME TypeInv, DoneInv, NEW q \in BOOLEAN, FinishPackage(q)
    PROVE  DoneInv'
<1>1. op = "none" /\ op' \in {"none", "mergeRecord"} /\ (op' = "mergeRecord" => at' = Merge)
    BY DEF FinishPackage, Idle, ThenMerge, Return, Begin
<1>2. \A u \in Units : /\ unitStatus'[u] = "done" => Safe(u)
                       /\ unitStatus'[u] = "conflict" => ~RecordOnly(u)
                       /\ ~intent'[u]
    <2>1. \A u \in Units : unitStatus'[u] \in {"failed", "pending", unitStatus[u]}
        BY DEF FinishPackage
    <2>2. intent' = intent
        BY DEF FinishPackage
    <2> QED BY <1>1, <2>1, <2>2, IdleIs
<1>3. DataInv /\ UNCHANGED <<revision, receipts, required, clock, records, refs>>
    BY DEF FinishPackage, targetVars, bounds, DoneInv
<1> QED BY <1>1, <1>2, <1>3, QuietDone

\* Stop keeps DoneInv.
LEMMA StopDone ==
    ASSUME TypeInv, DoneInv, Stop
    PROVE  DoneInv'
<1>1. op = "none" /\ op' \in {"none", "mergeRecord"} /\ (op' = "mergeRecord" => at' = Merge)
    BY DEF Stop, Idle, ThenMerge, Return, Begin
<1>2. \A u \in Units : /\ unitStatus'[u] = "done" => Safe(u)
                       /\ unitStatus'[u] = "conflict" => ~RecordOnly(u)
                       /\ ~intent'[u]
    BY <1>1, IdleIs DEF Stop, Released
<1>3. DataInv /\ UNCHANGED <<revision, receipts, required, clock, records, refs>>
    BY DEF Stop, targetVars, bounds, DoneInv
<1> QED BY <1>1, <1>2, <1>3, QuietDone

\* Skip keeps DoneInv.
LEMMA SkipDone ==
    ASSUME TypeInv, DoneInv, NEW c \in Units, Skip(c)
    PROVE  DoneInv'
<1>1. op = "none" /\ op' \in {"none", "mergeRecord"} /\ (op' = "mergeRecord" => at' = Merge)
    BY DEF Skip, Idle, ThenMerge, Return, Begin
<1>2. \A u \in Units : /\ unitStatus'[u] = "done" => Safe(u)
                       /\ unitStatus'[u] = "conflict" => ~RecordOnly(u)
                       /\ ~intent'[u]
    BY <1>1, IdleIs DEF Skip
<1>3. DataInv /\ UNCHANGED <<revision, receipts, required, clock, records, refs>>
    BY DEF Skip, targetVars, bounds, DoneInv
<1> QED BY <1>1, <1>2, <1>3, QuietDone

\* Going back gives the units that go back another revision.
LEMMA RetriedIs ==
    ASSUME TypeInv, Clocked, NEW w \in Units
    PROVE  /\ \E rev \in Revisions, kind \in Kinds :
                 Until(rev, clock + 1) /\ Retried(revision[w]) = Suffixed(rev, kind)
           /\ \E rev \in Revisions, kind \in Kinds :
                 Until(rev, clock + 1) /\ Resolved(revision[w]) = Suffixed(rev, kind)
           /\ revision[w] \in Revisions /\ Until(revision[w], clock + 1)
           /\ Retried(revision[w]) \in Revisions /\ Until(Retried(revision[w]), clock + 1)
<1>1. clock \in Nat /\ revision[w] \in Revisions /\ Until(revision[w], clock)
    BY DEF TypeInv, TypeOK, Clocked
<1>2. Until(revision[w], clock + 1)
    BY <1>1, UntilLater
<1>3. \A kind : Cut(revision[w], kind) \in Revisions /\ Until(Cut(revision[w], kind), clock + 1)
    BY <1>1, <1>2, CutType, CutUntil
<1>4. Retried(revision[w]) \in Revisions
    BY <1>1, RevisionTypes
<1>5. Until(Retried(revision[w]), clock + 1)
    BY <1>1, <1>3, SuffixedIsNew DEF Retried
<1> QED BY <1>1, <1>2, <1>3, <1>4, <1>5 DEF Retried, Resolved, Kinds

\* What both ways of going back have in common.
LEMMA RequeueDone ==
    ASSUME TypeInv, DoneInv, op = "none", NEW u \in Units, Requeue(u), UNCHANGED <<receipts, records>>,
           \A w \in Units :
               IF w \in Requeued(u)
               THEN \E rev \in Revisions, kind \in Kinds :
                        Until(rev, clock + 1) /\ revision'[w] = Suffixed(rev, kind)
               ELSE revision'[w] = revision[w],
           \A w \in Units : \A p \in Places : refs'[w][p].n = refs[w][p].n,
           \A w \in Units : ~intent'[w],
           op' \in {"none", "mergeRecord"}, op' = "mergeRecord" => at' = Merge
    PROVE  DoneInv'
<1>1. clock' = clock + 1
    BY DEF Requeue
<1>2. /\ Clocked'
      /\ \A w \in Units, p \in Places :
            /\ revision'[w] = revision[w] => (HasReceipt(w, p)' <=> HasReceipt(w, p))
            /\ revision'[w] # revision[w] => ~HasReceipt(w, p)'
    BY <1>1, Revised DEF DoneInv, DataInv
<1>3. ASSUME NEW w \in Units, revision'[w] = revision[w]
      PROVE  w \notin Requeued(u)
    BY <1>3, SuffixedIsNew DEF DoneInv, DataInv, Clocked, TypeInv, TypeOK
<1>4. SavedOnce'
    <2>1. \A w \in Units : w \notin Requeued(u) => required'[w] = required[w]
        BY DEF Requeue
    <2> QED BY <1>2, <1>3, <2>1 DEF DoneInv, DataInv, SavedOnce
<1>5. RefsWhole'
    BY RefsStayWhole DEF DoneInv, DataInv
<1>6. Progress'
    BY DEF Progress
<1>7. \A w \in Units : unitStatus'[w] \in {"done", "conflict"} =>
          w \notin Requeued(u) /\ unitStatus'[w] = unitStatus[w]
    BY DEF Requeue
<1>8. Settled'
    BY <1>7, IdleIs DEF Settled, RecordOnly
<1>9. DoneIsSaved'
    <2>1. \A w \in Units : unitStatus'[w] = "done" => Safe(w)'
        BY <1>7, StaysSafe, IdleIs
    <2> QED BY <2>1 DEF DoneIsSaved, Safe, Whole, Recorded
<1> QED BY <1>2, <1>4, <1>5, <1>6, <1>8, <1>9 DEF DoneInv, DataInv

\* Retry keeps DoneInv.
LEMMA RetryDone ==
    ASSUME TypeInv, DoneInv, NEW u \in Units, Retry(u)
    PROVE  DoneInv'
<1>1. /\ op = "none" /\ op' \in {"none", "mergeRecord"} /\ (op' = "mergeRecord" => at' = Merge)
      /\ Requeue(u) /\ UNCHANGED <<receipts, records, refs, intent>>
      /\ revision' = RetriedUnits(u)
    BY DEF Retry, Idle, ThenMerge, Return, Begin, targetVars
<1>2. \A w \in Units :
          IF w \in Requeued(u)
          THEN \E rev \in Revisions, kind \in Kinds :
                   Until(rev, clock + 1) /\ revision'[w] = Suffixed(rev, kind)
          ELSE revision'[w] = revision[w]
    BY <1>1, RetriedIs DEF RetriedUnits, DoneInv, DataInv
<1> QED BY <1>1, <1>2, IdleIs, RequeueDone

\* Regenerate keeps DoneInv.
LEMMA RegenerateDone ==
    ASSUME TypeInv, DoneInv, NEW u \in Units, Regenerate(u)
    PROVE  DoneInv'
<1>1. /\ op = "none" /\ op' \in {"none", "mergeRecord"} /\ (op' = "mergeRecord" => at' = Merge)
      /\ Requeue(u) /\ UNCHANGED <<receipts, records>>
      /\ \A w \in Units : ~intent[w]
      /\ intent' = [intent EXCEPT ![u] = FALSE]
    BY IdleIs DEF Regenerate, Idle, ThenMerge, Return, Begin, targetVars
<1>2. ASSUME NEW w \in Units
      PROVE  IF w \in Requeued(u)
             THEN \E rev \in Revisions, kind \in Kinds :
                      Until(rev, clock + 1) /\ revision'[w] = Suffixed(rev, kind)
             ELSE revision'[w] = revision[w]
    <2>1. u \in Requeued(u) /\ (w \in Chunks /\ u \in DependsOn[w] => w \in Requeued(u))
        BY DEF Requeued, Readings
    <2>2. RetriedUnits(u)[w] = IF w \in Requeued(u) THEN Retried(revision[w]) ELSE revision[w]
        BY DEF RetriedUnits
    <2>3. revision'[w] = IF w = u THEN Resolved(revision[u])
                         ELSE IF w \in Chunks /\ u \in DependsOn[w]
                              THEN Suffixed(RetriedUnits(u)[w], "resolved") ELSE RetriedUnits(u)[w]
        BY <1>1 DEF Regenerate
    <2> QED BY <2>1, <2>2, <2>3, RetriedIs DEF Kinds, DoneInv, DataInv
<1>3. \A w \in Units : \A p \in Places : refs'[w][p].n = refs[w][p].n
    <2>1. \A p \in Places : refs'[u][p].n = refs[u][p].n
        BY DEF Regenerate, NoRef, TypeInv, TypeOK
    <2> QED BY <2>1 DEF Regenerate, TypeInv, TypeOK
<1>4. \A w \in Units : ~intent'[w]
    BY <1>1 DEF TypeInv, TypeOK
<1> QED BY <1>1, <1>2, <1>3, <1>4, RequeueDone

\* The user keeps what is there: under another revision, for all entries.
LEMMA KeepDone ==
    ASSUME Calm, TypeInv, EditInv, DoneInv, NEW u \in Units, NEW next, Keep(u, next)
    PROVE  DoneInv'
<1>1. /\ op = "none" /\ op' = (IF RecordOnly(u) THEN "kept" ELSE "keep")
      /\ at' = u /\ todo' = PlacesOf[u]
      /\ UNCHANGED <<receipts, records, refs, unitStatus>>
      /\ unitStatus[u] = "conflict"
    BY DEF Keep, Idle, Begin, targetVars
<1>2. ~RecordOnly(u) /\ \A w \in Units : ~intent[w]
    BY <1>1, IdleIs
<1>3. /\ \A p \in Range(PlacesOf[u]) : Written(u, p)
      /\ {p \in Places : Written(u, p)} = Range(PlacesOf[u])
    <2>1. \E p \in Places : Written(u, p)
        BY <1>2 DEF Keep, Calm
    <2>2. \A p \in Range(PlacesOf[u]) : Written(u, p)
        BY <2>1 DEF DoneInv, DataInv, RefsWhole
    <2>3. \A p \in Places : Written(u, p) => p \in Range(PlacesOf[u])
        BY DEF EditInv, RefsTrue, Written
    <2> QED BY <2>2, <2>3, RangeType
<1>4. /\ required' = [required EXCEPT ![u] = Range(PlacesOf[u])]
      /\ revision' = [revision EXCEPT ![u] = Resolved(@)]
      /\ clock' = clock + 1
      /\ intent' = [intent EXCEPT ![u] = TRUE]
    BY <1>2, <1>3 DEF Keep
<1>5. \A w \in Units : \/ revision'[w] = revision[w]
                       \/ /\ clock' = clock + 1
                          /\ \E rev \in Revisions, kind \in Kinds :
                                Until(rev, clock + 1) /\ revision'[w] = Suffixed(rev, kind)
    BY <1>4, RetriedIs DEF DoneInv, DataInv, TypeInv, TypeOK
<1>6. /\ Clocked'
      /\ \A w \in Units, p \in Places :
            /\ revision'[w] = revision[w] => (HasReceipt(w, p)' <=> HasReceipt(w, p))
            /\ revision'[w] # revision[w] => ~HasReceipt(w, p)'
    BY <1>1, <1>4, <1>5, Revised DEF DoneInv, DataInv
<1>7. SavedOnce' /\ RefsWhole'
    <2>1. \A w \in Units : w # u => required'[w] = required[w] /\ revision'[w] = revision[w]
        BY <1>4 DEF TypeInv, TypeOK
    <2>2. required'[u] = Range(PlacesOf[u])
        BY <1>4 DEF TypeInv, TypeOK
    <2> QED BY <1>1, <1>6, <2>1, <2>2 DEF DoneInv, DataInv, SavedOnce, RefsWhole, Written
<1>8. Progress'
    BY <1>1, <1>2, <1>3, <1>4 DEF Progress, RecordOnly, Written, TypeInv, TypeOK
<1>9. Settled'
    <2>1. \A w \in Units : w # u => ~intent'[w]
        BY <1>2, <1>4 DEF TypeInv, TypeOK
    <2> QED BY <1>1, <1>2, <2>1, IdleIs DEF Settled, RecordOnly
<1>10. DoneIsSaved'
    <2>1. \A w \in Units : unitStatus'[w] = "done" => Safe(w) /\ revision'[w] = revision[w]
        BY <1>1, <1>4, IdleIs DEF TypeInv, TypeOK
    <2>2. \A w \in Units : unitStatus'[w] = "done" => Safe(w)'
        BY <1>1, <2>1, StaysSafe
    <2> QED BY <2>2 DEF DoneIsSaved, Safe, Whole, Recorded
<1> QED BY <1>6, <1>7, <1>8, <1>9, <1>10 DEF DoneInv, DataInv

\* A choice that has been carried out leaves its unit saved.
LEMMA KeptIsSafe ==
    ASSUME TypeInv, DoneInv, op = "kept"
    PROVE  /\ at \in Units /\ Safe(at) /\ Whole(at) /\ ~RecordOnly(at)
           /\ \A u \in Units : /\ KeptStatus[u] = "done" => Safe(u)
                               /\ KeptStatus[u] = "conflict" => ~RecordOnly(u)
                               /\ u # at => ~intent[u]
           /\ \A u \in Units : KeptRefs[u] = refs[u] \/ (KeptRefs[u] = WrittenRefs(u) /\ Whole(u))
<1>1. at \in Units /\ todo = <<>> /\ unitStatus[at] = "conflict"
    BY DEF TypeInv, OpType, DoneInv, Progress
<1>2. ~RecordOnly(at)
    BY <1>1 DEF DoneInv, Settled
<1>3. Whole(at)
    <2>1. Range(<<>>) = {}
        BY EmptySeq, RangeSeq
    <2> QED BY <1>1, <2>1 DEF DoneInv, Progress, Whole
<1>4. Safe(at)
    BY <1>2, <1>3 DEF Safe
<1>5. \A u \in Units : /\ KeptStatus[u] = "done" => Safe(u)
                       /\ KeptStatus[u] = "conflict" => ~RecordOnly(u)
                       /\ u # at => ~intent[u]
    BY <1>4, DoneIsSafe DEF KeptStatus, DoneInv, Settled, TypeInv, TypeOK
<1>6. \A u \in Units : KeptRefs[u] = refs[u] \/ (KeptRefs[u] = WrittenRefs(u) /\ Whole(u))
    BY <1>1, <1>3 DEF KeptRefs, TypeInv, TypeOK
<1> QED BY <1>1, <1>2, <1>3, <1>4, <1>5, <1>6

\* Kept keeps DoneInv.
LEMMA KeptDone ==
    ASSUME TypeInv, DoneInv, Kept
    PROVE  DoneInv'
<1>1. op = "kept" /\ op' \in {"none", "mergeRecord"} /\ (op' = "mergeRecord" => at' = Merge)
    BY DEF Kept, ThenMerge, Return, Begin
<1>2. \A u \in Units : /\ unitStatus'[u] = "done" => Safe(u)
                       /\ unitStatus'[u] = "conflict" => ~RecordOnly(u)
                       /\ ~intent'[u]
    BY <1>1, KeptIsSafe DEF Kept, TypeInv, TypeOK
<1>3. \A u \in Units : refs'[u] = refs[u] \/ (refs'[u] = WrittenRefs(u) /\ Whole(u))
    BY <1>1, KeptIsSafe DEF Kept
<1>4. DataInv /\ UNCHANGED <<revision, receipts, required, clock, records>>
    BY DEF Kept, targetVars, bounds, DoneInv
<1> QED BY <1>1, <1>2, <1>3, <1>4, QuietDone

\* Resumed keeps DoneInv.
LEMMA ResumedDone ==
    ASSUME TypeInv, EditInv, DoneInv, NEW state, NEW ref, NEW halts \in BOOLEAN,
           \A u \in Units : /\ state[u] = "done" => Safe(u)
                            /\ state[u] = "conflict" => ~RecordOnly(u),
           \A u \in Units : ref[u] = refs[u] \/ (ref[u] = WrittenRefs(u) /\ Whole(u)),
           Resumed(state, ref, halts)
    PROVE  DoneInv'
<1>1. op' \in {"none", "mergeRecord"} /\ (op' = "mergeRecord" => at' = Merge)
    BY DEF Resumed, ThenMerge, Return, Begin
<1>2. \A u \in Units : unitStatus'[u] \in {"pending", Recovered(state)[u]}
    BY DEF Resumed, Released
<1>3. \A u \in Units : /\ unitStatus'[u] = "done" => Safe(u)
                       /\ unitStatus'[u] = "conflict" => ~RecordOnly(u)
                       /\ ~intent'[u]
    <2>1. \A u \in Units : ~intent'[u]
        BY DEF Resumed
    <2> QED BY <1>2, <2>1, RecoveredSafe DEF EditInv, DoneInv, DataInv
<1>4. \A u \in Units : \/ refs'[u] = refs[u]
                       \/ refs'[u] = NewestRefs(u) /\ Saved(u)
                       \/ refs'[u] = WrittenRefs(u) /\ Whole(u)
    BY DEF Resumed, RecoveredRefs
<1>5. DataInv /\ UNCHANGED <<revision, receipts, required, clock, records>>
    BY DEF Resumed, targetVars, bounds, DoneInv
<1> QED BY <1>1, <1>3, <1>4, <1>5, QuietDone

\* GoOn keeps DoneInv.
LEMMA GoOnDone ==
    ASSUME TypeInv, DoneInv, op \in {"none", "advance"}, GoOn
    PROVE  DoneInv'
<1>1. op' = "none"
    BY DEF GoOn, Return, Begin
<1>2. \A u \in Units : /\ unitStatus'[u] = "done" => Safe(u)
                       /\ unitStatus'[u] = "conflict" => ~RecordOnly(u)
                       /\ ~intent'[u]
    BY IdleIs DEF GoOn
<1>3. \A u \in Units : refs'[u] = refs[u] \/ (refs'[u] = NewestRefs(u) /\ Saved(u))
    <2>1. ASSUME Complete,
        refs' = [u \in Units |-> IF unitStatus[u] = "done" THEN NewestRefs(u) ELSE refs[u]]
          PROVE  \A u \in Units : refs'[u] = refs[u] \/ (refs'[u] = NewestRefs(u) /\ Saved(u))
        BY <2>1 DEF Complete
    <2>2. refs' = refs \/ (Complete /\ refs' = [u \in Units |-> IF unitStatus[u] = "done" THEN NewestRefs(u) ELSE refs[u]])
        BY DEF GoOn, Finalize
    <2> QED BY <2>1, <2>2
<1>4. DataInv /\ UNCHANGED <<revision, receipts, required, clock, records>>
    BY DEF GoOn, targetVars, bounds, DoneInv
<1> QED BY <1>1, <1>2, <1>3, <1>4, QuietDone

\* EditRegistry keeps DoneInv.
LEMMA EditRegistryDone ==
    ASSUME TypeInv, EditInv, DoneInv, EditRegistry
    PROVE  DoneInv'
<1>1. /\ op = "none" /\ op' = "editRecord" /\ at' = Merge
      /\ UNCHANGED <<receipts, required, records, refs, unitStatus, intent>>
      /\ clock' = clock + 1
      /\ revision' = [revision EXCEPT ![Merge] = Suffixed(Cut(@, "edit"), "edit")]
    BY DEF EditRegistry, Idle, Begin, targetVars
<1>2. Merge \in Units /\ RecordOnly(Merge)
    BY JobAssumption DEF RecordOnly
<1>3. /\ Cut(revision[Merge], "edit") \in Revisions
      /\ Until(Cut(revision[Merge], "edit"), clock + 1)
    <2>1. clock \in Nat /\ revision[Merge] \in Revisions /\ Until(revision[Merge], clock)
        BY <1>2 DEF TypeInv, TypeOK, DoneInv, DataInv, Clocked
    <2>2. Until(revision[Merge], clock + 1)
        BY <2>1, UntilLater
    <2> QED BY <2>1, <2>2, CutType, CutUntil
<1>4. /\ Clocked'
      /\ \A w \in Units, p \in Places :
            /\ revision'[w] = revision[w] => (HasReceipt(w, p)' <=> HasReceipt(w, p))
            /\ revision'[w] # revision[w] => ~HasReceipt(w, p)'
    <2>1. \A w \in Units : \/ revision'[w] = revision[w]
                           \/ /\ clock' = clock + 1
                              /\ \E rev \in Revisions, kind \in Kinds :
                                    Until(rev, clock + 1) /\ revision'[w] = Suffixed(rev, kind)
        BY <1>1, <1>3 DEF Kinds, TypeInv, TypeOK
    <2> QED BY <1>1, <2>1, Revised DEF DoneInv, DataInv
<1>5. SavedOnce' /\ RefsWhole'
    BY <1>1, <1>4 DEF DoneInv, DataInv, SavedOnce, RefsWhole, Written
<1>6. Progress'
    BY <1>1 DEF Progress
<1>7. Settled'
    BY <1>1, IdleIs DEF Settled, RecordOnly
<1>8. DoneIsSaved'
    <2>1. \A w \in Units : w # Merge => revision'[w] = revision[w]
        BY <1>1 DEF TypeInv, TypeOK
    <2>2. \A w \in Units : w # Merge /\ unitStatus'[w] = "done" => Safe(w)'
        BY <1>1, <2>1, StaysSafe, IdleIs
    <2> QED BY <1>1, <2>2 DEF DoneIsSaved, Safe, Whole, Recorded
<1> QED BY <1>4, <1>5, <1>6, <1>7, <1>8 DEF DoneInv, DataInv

\* EditRecord keeps DoneInv.
LEMMA EditRecordDone ==
    ASSUME TypeInv, DoneInv, EditRecord
    PROVE  DoneInv'
<1>1. /\ UNCHANGED <<revision, receipts, clock, required, refs, intent, unitStatus>>
      /\ op = "editRecord" /\ op' = "edited" /\ at' = Merge /\ at = Merge
      /\ records' = records \cup {<<Merge, RecordId(revision[Merge])>>}
    BY DEF EditRecord, Begin, unitVars, targetVars, bounds, DoneInv, Progress
<1>2. DataInv'
    BY <1>1 DEF DoneInv, DataInv, Clocked, Until, SavedOnce, RefsWhole, Written, HasReceipt, IsReceipt
<1>3. Progress' /\ Settled'
    BY <1>1 DEF DoneInv, Progress, Settled, RecordOnly
<1>4. DoneIsSaved'
    <2>1. Safe(Merge)'
        BY <1>1, JobAssumption DEF Safe, Recorded, RecordOnly
    <2>2. \A w \in Units : Safe(w) => Safe(w)'
        BY <1>1, StaysSafe
    <2>3. \A w \in Units : unitStatus'[w] = "done" => Safe(w)'
        BY <1>1, <2>1, <2>2, DoneIsSafe DEF DoneInv
    <2> QED BY <2>3 DEF DoneIsSaved, Safe, Whole, Recorded
<1> QED BY <1>2, <1>3, <1>4 DEF DoneInv

\* Edited keeps DoneInv.
LEMMA EditedDone ==
    ASSUME TypeInv, DoneInv, Edited
    PROVE  DoneInv'
<1>1. op = "edited" /\ op' = "none"
    BY DEF Edited, Return, Begin
<1>2. DataInv /\ UNCHANGED <<revision, receipts, required, clock, records, refs, unitStatus, intent>>
    BY DEF Edited, unitVars, targetVars, bounds, DoneInv
<1> QED BY <1>1, <1>2, IdleIs, QuietDone

\* No choice is interrupted, and no edit of the registry either.
LEMMA InterruptDone ==
    ASSUME Calm, TypeInv, DoneInv, Interrupt
    PROVE  DoneInv'
<1>1. op \notin {"keep", "kept", "editRecord"} /\ op' = "none"
    <2>1. op # "editRecord"
        BY DEF Interrupt, Calm
    <2>2. op \notin {"keep", "kept"}
        BY DEF Interrupt, Calm
    <2> QED BY <2>1, <2>2 DEF Interrupt, Return, Begin
<1>2. DataInv /\ UNCHANGED <<revision, receipts, required, clock, records, refs, unitStatus, intent>>
    BY DEF Interrupt, unitVars, targetVars, bounds, DoneInv
<1> QED BY <1>1, <1>2, IdleIs, QuietDone

\* Nothing here depends on the content of an entry.
LEMMA SameDone ==
    ASSUME TypeInv, DoneInv,
           UNCHANGED <<revision, receipts, required, clock, records, refs, unitStatus, intent, opVars>>
    PROVE  DoneInv'
<1>1. DataInv'
    BY DEF DoneInv, DataInv, Clocked, Until, SavedOnce, RefsWhole, Written, HasReceipt, IsReceipt
<1>2. Progress'
    BY DEF DoneInv, Progress, Written, HasReceipt, IsReceipt, RecordOnly, Recorded, RecordId, Cut,
           opVars
<1>3. Settled'
    BY DEF DoneInv, Settled, RecordOnly, opVars
<1>4. DoneIsSaved'
    <2>1. \A u \in Units : Safe(u) => Safe(u)'
        BY StaysSafe
    <2> QED BY <2>1, DoneIsSafe DEF DoneInv, DoneIsSaved, Safe, Whole, Recorded, opVars
<1> QED BY <1>1, <1>2, <1>3, <1>4 DEF DoneInv

\* The controls keep DoneInv.
LEMMA ControlDone ==
    ASSUME Calm, TypeInv, EditInv, DoneInv, Control
    PROVE  DoneInv'
<1>1. CASE Resume
    <2>1. ASSUME Idle, Resumed(unitStatus, refs, status = "running")
          PROVE  DoneInv'
        BY <2>1, IdleIs, ResumedDone DEF Idle
    <2> QED BY <1>1, <2>1, KeepDone DEF Resume
<1>2. CASE Advance
    <2>1. CASE GoOn
        BY <1>2, <2>1, GoOnDone DEF Advance, Idle
    <2>2. CASE /\ Begin("mergeRecord", Merge, <<>>, "advance")
               /\ UNCHANGED <<jobVars, unitVars, records, targetVars, bounds>>
        <3>1. op = "none" /\ op' = "mergeRecord" /\ at' = Merge
            BY <1>2, <2>2 DEF Advance, Idle, Begin
        <3>2. DataInv /\ UNCHANGED <<revision, receipts, required, clock, records, refs, unitStatus,
                                     intent>>
            BY <2>2 DEF unitVars, targetVars, bounds, DoneInv
        <3> QED BY <3>1, <3>2, IdleIs, QuietDone
    <2> QED BY <1>2, <2>1, <2>2 DEF Advance
<1> QED BY <1>1, <1>2, FinishPackageDone, StopDone, EditRegistryDone, SkipDone, RetryDone,
           RegenerateDone, KeepDone
        DEF Control

\* The steps of an operation keep DoneInv.
LEMMA StepDone ==
    ASSUME Calm, TypeInv, EditInv, DoneInv, Step
    PROVE  DoneInv'
<1>1. CASE FinishSubmit
    <2>1. op = "finish" /\ \E repairs \in SUBSET Units : \E result \in {"done",
                                                                        "running"} : EndSubmit(result,
                                                                               repairs)
        BY <1>1 DEF FinishSubmit, Repairable
    <2> QED BY <2>1, EndSubmitDone
<1>2. CASE ResumeKept
    <2>1. op = "kept" /\ Resumed(KeptStatus, KeptRefs, FALSE)
        BY <1>2 DEF ResumeKept
    <2> QED BY <2>1, KeptIsSafe, ResumedDone
<1>3. CASE AdvanceMerged
    BY <1>3, GoOnDone DEF AdvanceMerged
<1> QED BY <1>1, <1>2, <1>3, SaveRecordDone, WriteEntryDone, MeetConflictDone, SubmitFailsDone,
           MergeRecordDone, MergeDoneDone, KeepEntryDone, KeptDone, EditRecordDone, EditedDone
        DEF Step

\* Every step keeps DoneInv.
LEMMA DoneStep ==
    ASSUME Calm, TypeInv, EditInv, DoneInv, [Next]_vars
    PROVE  DoneInv'
<1>1. CASE UNCHANGED vars
    BY <1>1, SameDone DEF vars, unitVars, targetVars, bounds
<1>2. ASSUME NEW p \in Places, EditEntry(p)
      PROVE  DoneInv'
    BY <1>2, SameDone DEF EditEntry, unitVars
<1> QED BY <1>1, <1>2, GetDone, OpenDone, SubmitDone, ControlDone, StepDone, InterruptDone DEF Next

\* The job starts with DoneInv.
LEMMA DoneInit == Init => DoneInv
<1> SUFFICES ASSUME Init PROVE DoneInv
    OBVIOUS
<1>1. DataInv
    BY EmptySeq DEF Init, DataInv, Clocked, Until, SavedOnce, RefsWhole, Written, NoRef, HasReceipt
<1>2. Progress /\ Settled /\ DoneIsSaved
    BY DEF Init, Progress, Settled, DoneIsSaved
<1> QED BY <1>1, <1>2 DEF DoneInv

\* A unit that is done has its record, or all its entries with their receipts, saved
\* for its current revision, as long as neither the saving of an edited registry nor
\* a choice to keep what the user wrote is interrupted.
THEOREM DoneStaysSaved == ASSUME Calm PROVE Spec => []DoneIsSaved
<1>1. TypeInv /\ EditInv /\ DoneInv /\ [Next]_vars => TypeInv' /\ EditInv' /\ DoneInv'
    BY TypeStep, EditStep, DoneStep
<1>2. DoneInv => DoneIsSaved
    BY DEF DoneInv
<1> QED BY TypeInit, EditInit, DoneInit, <1>1, <1>2, PTL DEF Spec
=============================================================================
