------------------------ MODULE ProjectLock_proofs ------------------------
(***************************************************************************)
(* Proofs about ProjectLock, for any number of tasks, processes and files: *)
(* types, that a lock is lost by the one race only that ProjectLock names, *)
(* and that of tasks which worked at the same time all but one notice.     *)
(***************************************************************************)
EXTENDS ProjectLock, TLAPS

\* The notes a task keeps and where it stands, of which TypeOK speaks besides
\* the files.
TasksOK ==
  /\ pc \in [Tasks -> {"idle", "open", "write", "verify", "held", "peek", "judge",
                      "lstat", "unlink", "retry", "dead"}]
  /\ mine \in [Tasks -> Inodes \cup {NoInode}]
  /\ \A t \in Tasks : pc[t] = "write" => mine[t] \in Inodes
  /\ suspect \in [Tasks -> Inodes \cup {NoInode}]
  /\ aged \in [Tasks -> BOOLEAN]
  /\ giveUp \in [Tasks -> BOOLEAN]
  /\ outlived \subseteq Tasks

\* A task whose attempt ends has forgotten its notes, and keeps its types.
LEMMA EndType ==
  ASSUME TypeOK, NEW t \in Tasks, NEW step \in {"idle", "retry"}, End(t, step)
  PROVE  TasksOK'
<1> USE DEF TypeOK, End
<1>1. pc' \in [Tasks -> {"idle", "open", "write", "verify", "held", "peek", "judge",
                         "lstat", "unlink", "retry", "dead"}]
  BY DEF Goto
<1>2. mine' \in [Tasks -> Inodes \cup {NoInode}]
  OBVIOUS
<1>3. \A u \in Tasks : pc'[u] = "write" => mine'[u] \in Inodes
  BY DEF Goto
<1>4. suspect' \in [Tasks -> Inodes \cup {NoInode}]
  OBVIOUS
<1>5. aged' \in [Tasks -> BOOLEAN]
  OBVIOUS
<1>6. giveUp' \in [Tasks -> BOOLEAN]
  OBVIOUS
<1>7. outlived' \subseteq Tasks
  OBVIOUS
<1> QED
  BY <1>1, <1>2, <1>3, <1>4, <1>5, <1>6, <1>7 DEF TasksOK

\* Every step preserves the types.
LEMMA TypeStep ==
  ASSUME TypeOK, [Next]_vars
  PROVE  TypeOK'
<1> USE LockConstants
         DEF TypeOK, files, notes
<1>1. ASSUME NEW t \in Tasks, Acquire(t)
      PROVE  TypeOK'
  BY <1>1 DEF Acquire, Goto
<1>2. ASSUME NEW t \in Tasks, Create(t)
      PROVE  TypeOK'
  BY <1>2 DEF Create, Goto, Used
<1>3. ASSUME NEW t \in Tasks, Exists(t)
      PROVE  TypeOK'
  BY <1>3 DEF Exists, Goto
<1>4. ASSUME NEW t \in Tasks, WriteOwner(t)
      PROVE  TypeOK'
  BY <1>4 DEF WriteOwner, Goto, Record
<1>5. ASSUME NEW t \in Tasks, Verify(t)
      PROVE  TypeOK'
  BY <1>5 DEF Verify, Goto
<1>6. ASSUME NEW t \in Tasks, CreateFails(t)
      PROVE  TypeOK'
  BY <1>6 DEF CreateFails, Goto
<1>7. ASSUME NEW t \in Tasks, Retry(t)
      PROVE  TypeOK'
  BY <1>7 DEF Retry, Goto
<1>8. ASSUME NEW t \in Tasks, TimeOut(t)
      PROVE  TypeOK'
  BY <1>8 DEF TimeOut, Goto
<1>9. ASSUME NEW t \in Tasks, Peek(t)
      PROVE  TypeOK'
  <2>1. CASE End(t, "retry")
    BY <1>9, <2>1, EndType DEF Peek, TasksOK
  <2>2. CASE ~End(t, "retry")
    BY <1>9, <2>2 DEF Peek, Goto, Young
  <2> QED
    BY <2>1, <2>2
<1>10. ASSUME NEW t \in Tasks, Judge(t)
      PROVE  TypeOK'
  <2>1. CASE path = NoInode \/ Respected(t, path)
    <3>1. End(t, "retry") /\ UNCHANGED files
      BY <1>10, <2>1 DEF Judge
    <3> QED
      BY <3>1, EndType DEF TasksOK
  <2>2. CASE ~(path = NoInode \/ Respected(t, path))
    BY <1>10, <2>2 DEF Judge, Goto
  <2> QED
    BY <2>1, <2>2
<1>11. ASSUME NEW t \in Tasks, Lstat(t)
      PROVE  TypeOK'
  <2>1. CASE SameIdentity(t)
    BY <1>11, <2>1 DEF Lstat, Goto
  <2>2. CASE ~SameIdentity(t)
    <3>1. PICK step \in {"idle", "retry"} : End(t, step)
      BY <1>11, <2>2 DEF Lstat, After
    <3> QED
      BY <1>11, <3>1, EndType DEF Lstat, TasksOK
  <2> QED
    BY <2>1, <2>2
<1>12. ASSUME NEW t \in Tasks, Unlink(t)
      PROVE  TypeOK'
  <2>1. PICK step \in {"idle", "retry"} : End(t, step)
    BY <1>12 DEF Unlink, After
  <2> QED
    BY <1>12, <2>1, EndType DEF Unlink, TasksOK
<1>13. ASSUME NEW t \in Tasks, Release(t)
      PROVE  TypeOK'
  <2>1. CASE End(t, "idle")
    BY <1>13, <2>1, EndType DEF Release, TasksOK
  <2>2. CASE ~End(t, "idle")
    BY <1>13, <2>2 DEF Release, Goto
  <2> QED
    BY <2>1, <2>2
<1>14. ASSUME NEW i \in Inodes, Age(i)
      PROVE  TypeOK'
  BY <1>14 DEF Age, Initialising
<1>15. ASSUME NEW p \in Pids, Crash(p)
      PROVE  TypeOK'
  BY <1>15 DEF Crash
<1>16. ASSUME NEW t \in Tasks, ReadFails(t)
      PROVE  TypeOK'
  BY <1>16, EndType DEF ReadFails, TasksOK
<1>17. CASE UNCHANGED vars
  BY <1>17 DEF vars
<1> QED
  BY <1>1, <1>2, <1>3, <1>4, <1>5, <1>6, <1>7, <1>8, <1>9, <1>10, <1>11, <1>12, <1>13, <1>14, <1>15, <1>16, <1>17 DEF Next, Step

\* Every variable has its type, whatever goes wrong.
THEOREM TypeCorrect == Spec => []TypeOK
<1>1. Init => TypeOK
  <2> SUFFICES ASSUME Init
               PROVE  TypeOK
    OBVIOUS
  <2>1. PICK o \in Tasks \cup {Nobody} :
          owner = [i \in Inodes |-> IF i = path THEN o ELSE Nobody]
    BY DEF Init
  <2>2. owner \in [Inodes -> Tasks \cup {Nobody}]
    BY <2>1
  <2> QED
    BY <2>2, LockConstants DEF Init, TypeOK
<1>2. TypeOK /\ [Next]_vars => TypeOK'
  BY TypeStep
<1> QED
  BY <1>1, <1>2, PTL DEF Spec

\* A task is dead when its process is, and notes end with their attempt.
LEMMA LocalsStep ==
  ASSUME TypeOK, LocalsInv, [Next]_vars
  PROVE  LocalsInv'
<1> USE LockConstants
         DEF TypeOK, LocalsInv, Running, files, notes
<1>1. ASSUME NEW t \in Tasks, Acquire(t)
      PROVE  LocalsInv'
  BY <1>1 DEF Acquire, Goto
<1>2. ASSUME NEW t \in Tasks, Create(t)
      PROVE  LocalsInv'
  BY <1>2 DEF Create, Goto, Used
<1>3. ASSUME NEW t \in Tasks, Exists(t)
      PROVE  LocalsInv'
  BY <1>3 DEF Exists, Goto
<1>4. ASSUME NEW t \in Tasks, WriteOwner(t)
      PROVE  LocalsInv'
  BY <1>4 DEF WriteOwner, Goto, Record
<1>5. ASSUME NEW t \in Tasks, Verify(t)
      PROVE  LocalsInv'
  BY <1>5 DEF Verify, Goto
<1>6. ASSUME NEW t \in Tasks, CreateFails(t)
      PROVE  LocalsInv'
  BY <1>6 DEF CreateFails, Goto
<1>7. ASSUME NEW t \in Tasks, Retry(t)
      PROVE  LocalsInv'
  BY <1>7 DEF Retry, Goto
<1>8. ASSUME NEW t \in Tasks, TimeOut(t)
      PROVE  LocalsInv'
  BY <1>8 DEF TimeOut, Goto
<1>9. ASSUME NEW t \in Tasks, Peek(t)
      PROVE  LocalsInv'
  BY <1>9 DEF Peek, Goto, End, Young
<1>10. ASSUME NEW t \in Tasks, Judge(t)
      PROVE  LocalsInv'
  BY <1>10 DEF Judge, Goto, End, Respected, OwnerAlive
<1>11. ASSUME NEW t \in Tasks, Lstat(t)
      PROVE  LocalsInv'
  BY <1>11 DEF Lstat, Goto, End, SameIdentity, After
<1>12. ASSUME NEW t \in Tasks, Unlink(t)
      PROVE  LocalsInv'
  BY <1>12 DEF Unlink, Goto, End, After
<1>13. ASSUME NEW t \in Tasks, Release(t)
      PROVE  LocalsInv'
  BY <1>13 DEF Release, Goto, End
<1>14. ASSUME NEW i \in Inodes, Age(i)
      PROVE  LocalsInv'
  BY <1>14 DEF Age, Initialising
<1>15. ASSUME NEW p \in Pids, Crash(p)
      PROVE  LocalsInv'
  BY <1>15 DEF Crash
<1>16. ASSUME NEW t \in Tasks, ReadFails(t)
      PROVE  LocalsInv'
  BY <1>16 DEF ReadFails, End, Goto
<1>17. CASE UNCHANGED vars
  BY <1>17 DEF vars
<1> QED
  BY <1>1, <1>2, <1>3, <1>4, <1>5, <1>6, <1>7, <1>8, <1>9, <1>10, <1>11, <1>12, <1>13, <1>14, <1>15, <1>16, <1>17 DEF Next, Step

\* Only the creator of a file gets to own it, and only a creator or a file
\* without an owner loses it, as long as no lock is created too late.
LEMMA OwnerStep ==
  ASSUME TypeOK, LocalsInv, OwnerInv, ReclaimInv, [Next]_vars, ~raced'
  PROVE  OwnerInv'
<1> USE LockConstants
         DEF TypeOK, LocalsInv, OwnerInv, ReclaimInv, Owning,
             Reclaiming, Running, files, notes
<1>1. ASSUME NEW t \in Tasks, Acquire(t)
      PROVE  OwnerInv'
  BY <1>1 DEF Acquire, Goto
<1>2. ASSUME NEW t \in Tasks, Create(t)
      PROVE  OwnerInv'
  BY <1>2 DEF Create, Goto, Used, Condemning
<1>3. ASSUME NEW t \in Tasks, Exists(t)
      PROVE  OwnerInv'
  BY <1>3 DEF Exists, Goto
<1>4. ASSUME NEW t \in Tasks, WriteOwner(t)
      PROVE  OwnerInv'
  BY <1>4 DEF WriteOwner, Goto, Record
<1>5. ASSUME NEW t \in Tasks, Verify(t)
      PROVE  OwnerInv'
  BY <1>5 DEF Verify, Goto
<1>6. ASSUME NEW t \in Tasks, CreateFails(t)
      PROVE  OwnerInv'
  BY <1>6 DEF CreateFails, Goto
<1>7. ASSUME NEW t \in Tasks, Retry(t)
      PROVE  OwnerInv'
  BY <1>7 DEF Retry, Goto
<1>8. ASSUME NEW t \in Tasks, TimeOut(t)
      PROVE  OwnerInv'
  BY <1>8 DEF TimeOut, Goto
<1>9. ASSUME NEW t \in Tasks, Peek(t)
      PROVE  OwnerInv'
  BY <1>9 DEF Peek, Goto, End, Young
<1>10. ASSUME NEW t \in Tasks, Judge(t)
      PROVE  OwnerInv'
  BY <1>10 DEF Judge, Goto, End, Respected, OwnerAlive
<1>11. ASSUME NEW t \in Tasks, Lstat(t)
      PROVE  OwnerInv'
  BY <1>11 DEF Lstat, Goto, End, SameIdentity, After
<1>12. ASSUME NEW t \in Tasks, Unlink(t)
      PROVE  OwnerInv'
  BY <1>12 DEF Unlink, Goto, End, After
<1>13. ASSUME NEW t \in Tasks, Release(t)
      PROVE  OwnerInv'
  BY <1>13 DEF Release, Goto, End
<1>14. ASSUME NEW i \in Inodes, Age(i)
      PROVE  OwnerInv'
  BY <1>14 DEF Age, Initialising
<1>15. ASSUME NEW p \in Pids, Crash(p)
      PROVE  OwnerInv'
  BY <1>15 DEF Crash
<1>16. ASSUME NEW t \in Tasks, ReadFails(t)
      PROVE  OwnerInv'
  BY <1>16 DEF ReadFails, End, Goto
<1>17. CASE UNCHANGED vars
  BY <1>17 DEF vars
<1> QED
  BY <1>1, <1>2, <1>3, <1>4, <1>5, <1>6, <1>7, <1>8, <1>9, <1>10, <1>11, <1>12, <1>13, <1>14, <1>15, <1>16, <1>17 DEF Next, Step

\* The file a reclaimer removes, if it is still there, has no owner.
LEMMA ReclaimStep ==
  ASSUME TypeOK, LocalsInv, OwnerInv, ReclaimInv, [Next]_vars, ~raced'
  PROVE  ReclaimInv'
<1> USE LockConstants
         DEF TypeOK, LocalsInv, OwnerInv, ReclaimInv, Owning,
             Reclaiming, Running, files, notes
<1>1. ASSUME NEW t \in Tasks, Acquire(t)
      PROVE  ReclaimInv'
  BY <1>1 DEF Acquire, Goto
<1>2. ASSUME NEW t \in Tasks, Create(t)
      PROVE  ReclaimInv'
  <2>1. \A u \in Tasks : ~(pc[u] = "judge" /\ aged[u]) /\ ~Reclaiming(u)
    BY <1>2 DEF Create, Condemning
  <2>2. aged' = aged /\ giveUp' = giveUp /\ pc' = [pc EXCEPT ![t] = "write"]
    BY <1>2 DEF Create, Goto
  <2> QED
    BY <2>1, <2>2
<1>3. ASSUME NEW t \in Tasks, Exists(t)
      PROVE  ReclaimInv'
  BY <1>3 DEF Exists, Goto
<1>4. ASSUME NEW t \in Tasks, WriteOwner(t)
      PROVE  ReclaimInv'
  BY <1>4 DEF WriteOwner, Goto, Record
<1>5. ASSUME NEW t \in Tasks, Verify(t)
      PROVE  ReclaimInv'
  BY <1>5 DEF Verify, Goto
<1>6. ASSUME NEW t \in Tasks, CreateFails(t)
      PROVE  ReclaimInv'
  BY <1>6 DEF CreateFails, Goto
<1>7. ASSUME NEW t \in Tasks, Retry(t)
      PROVE  ReclaimInv'
  BY <1>7 DEF Retry, Goto
<1>8. ASSUME NEW t \in Tasks, TimeOut(t)
      PROVE  ReclaimInv'
  BY <1>8 DEF TimeOut, Goto
<1>9. ASSUME NEW t \in Tasks, Peek(t)
      PROVE  ReclaimInv'
  BY <1>9 DEF Peek, Goto, End, Young
<1>10. ASSUME NEW t \in Tasks, Judge(t)
      PROVE  ReclaimInv'
  BY <1>10 DEF Judge, Goto, End, Respected, OwnerAlive
<1>11. ASSUME NEW t \in Tasks, Lstat(t)
      PROVE  ReclaimInv'
  BY <1>11 DEF Lstat, Goto, End, SameIdentity, After
<1>12. ASSUME NEW t \in Tasks, Unlink(t)
      PROVE  ReclaimInv'
  BY <1>12 DEF Unlink, Goto, End, After
<1>13. ASSUME NEW t \in Tasks, Release(t)
      PROVE  ReclaimInv'
  BY <1>13 DEF Release, Goto, End
<1>14. ASSUME NEW i \in Inodes, Age(i)
      PROVE  ReclaimInv'
  BY <1>14 DEF Age, Initialising
<1>15. ASSUME NEW p \in Pids, Crash(p)
      PROVE  ReclaimInv'
  BY <1>15 DEF Crash
<1>16. ASSUME NEW t \in Tasks, ReadFails(t)
      PROVE  ReclaimInv'
  BY <1>16 DEF ReadFails, End, Goto
<1>17. CASE UNCHANGED vars
  BY <1>17 DEF vars
<1> QED
  BY <1>1, <1>2, <1>3, <1>4, <1>5, <1>6, <1>7, <1>8, <1>9, <1>10, <1>11, <1>12, <1>13, <1>14, <1>15, <1>16, <1>17 DEF Next, Step

\* A race is not forgotten.
LEMMA RacedStays ==
  ASSUME raced, [Next]_vars
  PROVE  raced'
BY DEF Next, Step, vars, files, notes, Acquire, Create, Exists, WriteOwner, Verify,
       CreateFails, Retry, TimeOut, Peek, Judge, ReadFails, Lstat, Unlink, Release,
       Age, Crash

\* A task that has lost its file does not get it back: only a creation changes
\* the path to a file, and it names nobody; only its creator's record names it.
LEMMA OutlivedStep ==
  ASSUME TypeOK, LocalsInv, OutlivedInv, [Next]_vars
  PROVE  OutlivedInv'
<1> USE LockConstants
         DEF TypeOK, LocalsInv, OutlivedInv, StillOwn, Running, files, notes
<1>1. ASSUME NEW t \in Tasks, Acquire(t)
      PROVE  OutlivedInv'
  BY <1>1 DEF Acquire, Goto
<1>2. ASSUME NEW t \in Tasks, Create(t)
      PROVE  OutlivedInv'
  BY <1>2 DEF Create, Goto, Used
<1>3. ASSUME NEW t \in Tasks, Exists(t)
      PROVE  OutlivedInv'
  BY <1>3 DEF Exists, Goto
<1>4. ASSUME NEW t \in Tasks, WriteOwner(t)
      PROVE  OutlivedInv'
  BY <1>4 DEF WriteOwner, Goto, Record
<1>5. ASSUME NEW t \in Tasks, Verify(t)
      PROVE  OutlivedInv'
  BY <1>5 DEF Verify, Goto
<1>6. ASSUME NEW t \in Tasks, CreateFails(t)
      PROVE  OutlivedInv'
  BY <1>6 DEF CreateFails, Goto
<1>7. ASSUME NEW t \in Tasks, Retry(t)
      PROVE  OutlivedInv'
  BY <1>7 DEF Retry, Goto
<1>8. ASSUME NEW t \in Tasks, TimeOut(t)
      PROVE  OutlivedInv'
  BY <1>8 DEF TimeOut, Goto
<1>9. ASSUME NEW t \in Tasks, Peek(t)
      PROVE  OutlivedInv'
  BY <1>9 DEF Peek, Goto, End, Young
<1>10. ASSUME NEW t \in Tasks, Judge(t)
      PROVE  OutlivedInv'
  BY <1>10 DEF Judge, Goto, End, Respected, OwnerAlive
<1>11. ASSUME NEW t \in Tasks, Lstat(t)
      PROVE  OutlivedInv'
  BY <1>11 DEF Lstat, Goto, End, SameIdentity, After
<1>12. ASSUME NEW t \in Tasks, Unlink(t)
      PROVE  OutlivedInv'
  BY <1>12 DEF Unlink, Goto, End, After
<1>13. ASSUME NEW t \in Tasks, Release(t)
      PROVE  OutlivedInv'
  BY <1>13 DEF Release, Goto, End
<1>14. ASSUME NEW i \in Inodes, Age(i)
      PROVE  OutlivedInv'
  BY <1>14 DEF Age, Initialising
<1>15. ASSUME NEW p \in Pids, Crash(p)
      PROVE  OutlivedInv'
  BY <1>15 DEF Crash
<1>16. ASSUME NEW t \in Tasks, ReadFails(t)
      PROVE  OutlivedInv'
  BY <1>16 DEF ReadFails, End, Goto
<1>17. CASE UNCHANGED vars
  BY <1>17 DEF vars
<1> QED
  BY <1>1, <1>2, <1>3, <1>4, <1>5, <1>6, <1>7, <1>8, <1>9, <1>10, <1>11, <1>12, <1>13, <1>14, <1>15, <1>16, <1>17 DEF Next, Step

\* The invariant holds in every reachable state.
LEMMA Locked == Spec => []LockInv
<1>1. Init => LockInv
  <2> SUFFICES ASSUME Init
               PROVE  LockInv
    OBVIOUS
  <2>1. TypeOK
    BY LockConstants DEF Init, TypeOK
  <2>2. LocalsInv
    BY LockConstants DEF Init, LocalsInv, Running
  <2>3. OwnerInv /\ ReclaimInv
    BY DEF Init, OwnerInv, ReclaimInv, Owning, Reclaiming
  <2>4. OutlivedInv
    BY DEF Init, OutlivedInv
  <2> QED
    BY <2>1, <2>2, <2>3, <2>4 DEF LockInv
<1>2. LockInv /\ [Next]_vars => LockInv'
  BY TypeStep, LocalsStep, OwnerStep, ReclaimStep, OutlivedStep, RacedStays DEF LockInv
<1> QED
  BY <1>1, <1>2, PTL DEF Spec

\* Two tasks never work on a project at the same time, and the lock file of a
\* task that works stays in place and names it, over any number of crashes,
\* failed acquisitions and tasks that reclaim at the same time, until a lock is
\* created under a reclaimer that has still to unlink, or is too slow to be
\* initialised. ProjectLock does lose the lock then.
THEOREM OnlyRacesLose == Spec => []LostOnlyByRace
<1>1. LockInv => LostOnlyByRace
  BY DEF LockInv, OwnerInv, Owning, LostOnlyByRace, MutualExclusion, HolderKeepsFile
<1>2. Spec => []LockInv
  BY Locked
<1> QED
  BY <1>1, <1>2, PTL

\* Until such a race no task unlinks the lock another running task has created.
THEOREM OnlyRacesUnlink == Spec => LiveLockUnlinkedOnlyByRace
<1>1. ASSUME LockInv
      PROVE  \A t, u \in Tasks :
               pc[t] = "unlink" /\ pc[u] \in {"write", "verify", "held"} => t = u \/ raced
  BY <1>1 DEF LockInv, OwnerInv, ReclaimInv, Owning, Reclaiming
<1>2. Spec => []LockInv
  BY Locked
<1>3. LockInv /\ [Next]_vars =>
        [\A t, u \in Tasks :
           /\ pc[t] = "unlink" /\ pc'[t] # "unlink" /\ pc'[t] # "dead"
           /\ pc[u] \in {"write", "verify", "held"} /\ path = mine[u]
           => t = u \/ raced]_vars
  BY <1>1
<1> QED
  BY <1>2, <1>3, PTL DEF Spec, LiveLockUnlinkedOnlyByRace

\* Work ends by its release or with its process.
LEMMA WorkEnds ==
  ASSUME TypeOK, [Next]_vars, NEW t \in Tasks, pc[t] = "held", pc'[t] # "held"
  PROVE  Release(t) \/ pc'[t] = "dead"
<1> USE LockConstants DEF TypeOK, files, notes, Goto, End
<1>1. ASSUME NEW u \in Tasks,
             Acquire(u) \/ Create(u) \/ Exists(u) \/ WriteOwner(u) \/ Verify(u)
               \/ CreateFails(u) \/ Retry(u) \/ TimeOut(u)
      PROVE  FALSE
  BY <1>1 DEF Acquire, Create, Exists, WriteOwner, Verify, CreateFails, Retry, TimeOut
<1>2. ASSUME NEW u \in Tasks,
             Peek(u) \/ Judge(u) \/ ReadFails(u) \/ Lstat(u) \/ Unlink(u)
      PROVE  FALSE
  BY <1>2 DEF Peek, Judge, ReadFails, Lstat, Unlink
<1>3. ASSUME NEW u \in Tasks, Release(u)
      PROVE  u = t
  BY <1>3 DEF Release
<1>4. ASSUME NEW i \in Inodes, Age(i)
      PROVE  FALSE
  BY <1>4 DEF Age
<1>5. ASSUME NEW p \in Pids, Crash(p)
      PROVE  pc'[t] = "dead"
  BY <1>5 DEF Crash
<1>6. CASE UNCHANGED vars
  BY <1>6 DEF vars
<1> QED
  BY <1>1, <1>2, <1>3, <1>4, <1>5, <1>6 DEF Next, Step

\* Of tasks that worked at the same time all but one meet an error at their
\* release, whatever raced, under every fault.
THEOREM OverlapsAreNoticed == Spec => OverlapIsNoticed
<1>1. ASSUME LockInv, [Next]_vars
      PROVE  \A t \in Tasks : pc[t] = "held" /\ t \in outlived /\ pc'[t] # "held"
                             => pc'[t] \in {"idle", "dead"}
  <2> SUFFICES ASSUME NEW t \in Tasks, pc[t] = "held", t \in outlived, pc'[t] # "held"
               PROVE  pc'[t] \in {"idle", "dead"}
    OBVIOUS
  <2>1. ~StillOwn(t)
    BY <1>1 DEF LockInv, OutlivedInv
  <2>2. Release(t) => pc'[t] = "idle"
    BY <1>1, <2>1 DEF LockInv, TypeOK, Release, End, Goto
  <2> QED
    BY <1>1, <2>2, WorkEnds DEF LockInv
<1>2. Spec => []LockInv
  BY Locked
<1>3. LockInv /\ [Next]_vars =>
        [\A t \in Tasks : pc[t] = "held" /\ t \in outlived /\ pc'[t] # "held"
                         => pc'[t] \in {"idle", "dead"}]_vars
  BY <1>1
<1> QED
  BY <1>2, <1>3, PTL DEF Spec, OverlapIsNoticed
=============================================================================
