---------------------------- MODULE ProjectLock ----------------------------
(***************************************************************************)
(* The lock file of a project, .deepwrite/transaction.lock: created        *)
(* exclusively, owned by the process whose pid it names, reclaimed when    *)
(* that process is gone.  apps/desktop/src/utilities/project-transaction/  *)
(* lock.ts.                                                                *)
(*                                                                         *)
(* One action is one file system call with the decision taken on it.  A    *)
(* task is one call of withProjectTransactionLock; several may run in one  *)
(* process.  An inode number stands for projectTransactionFileIdentity; it *)
(* is free again once its file is neither linked nor open.                 *)
(***************************************************************************)
EXTENDS Naturals, FiniteSets

CONSTANTS
  Tasks,     \* callers of withProjectTransactionLock
  Pids,      \* process identifiers
  PidOf,     \* the process a task runs in
  Gone,      \* processes that have died before
  Inodes,    \* identities of files
  NoInode,   \* no file
  Nobody,    \* the content of a file without an owner record
  Faults     \* what may go wrong, see FaultNames

(***************************************************************************)
(* crash    a process dies                                                 *)
(* ioError  creating the lock fails once its file is there                 *)
(* slow     a file stays empty for five seconds and its creator lives      *)
(***************************************************************************)
FaultNames == {"crash", "ioError", "slow"}

ASSUME LockConstants ==
  /\ PidOf \in [Tasks -> Pids]
  /\ Gone \subseteq Pids
  /\ NoInode \notin Inodes
  /\ Nobody \notin Tasks
  /\ Faults \subseteq FaultNames

VARIABLES
  path,      \* the inode linked at the lock path
  owner,     \* the owner record in every inode
  young,     \* inodes modified less than LOCK_INITIALIZATION_GRACE_MS ago
  live,      \* running processes
  pc,        \* next step of every task
  mine,      \* the inode the task created
  suspect,   \* the inode the task is about to unlink
  aged,      \* what the task's lstat told: the file is older than the grace
  giveUp,    \* the unlink belongs to a release or a failed acquisition
  \* What happened before; no step depends on it.
  raced,     \* a lock was created, or initialised, too late for a reclaimer
  outlived   \* tasks at work, as was another that has passed its release

vars == <<path, owner, young, live, pc, mine, suspect, aged, giveUp, raced, outlived>>

\* Inodes kept by a link or by an open handle.
Used(i) == \/ path = i
           \/ \E t \in Tasks : pc[t] = "write" /\ mine[t] = i

Running(t) == PidOf[t] \in live

\* A process that has died may have left its lock, with a record or without.
Init ==
  /\ path \in Inodes \cup {NoInode}
  /\ Gone = {} => path = NoInode
  /\ \E o \in {t \in Tasks : PidOf[t] \in Gone} \cup {Nobody} :
       owner = [i \in Inodes |-> IF i = path THEN o ELSE Nobody]
  /\ young = {path} \ {NoInode}
  /\ live = Pids \ Gone
  /\ pc = [t \in Tasks |-> IF PidOf[t] \in Gone THEN "dead" ELSE "idle"]
  /\ mine = [t \in Tasks |-> NoInode]
  /\ suspect = [t \in Tasks |-> NoInode]
  /\ aged = [t \in Tasks |-> FALSE]
  /\ giveUp = [t \in Tasks |-> FALSE]
  /\ raced = FALSE
  /\ outlived = {}

Goto(t, step) == pc' = [pc EXCEPT ![t] = step]

\* An attempt or a call ends, and its locals with it.
End(t, step) ==
  /\ Goto(t, step)
  /\ mine' = [mine EXCEPT ![t] = NoInode]
  /\ suspect' = [suspect EXCEPT ![t] = NoInode]
  /\ aged' = [aged EXCEPT ![t] = FALSE]
  /\ giveUp' = [giveUp EXCEPT ![t] = FALSE]
  /\ outlived' = outlived \ {t}

files  == <<path, owner, young, live, raced>>
notes  == <<mine, suspect, aged, giveUp, outlived>>

\* About to remove the file it judged stale.
Reclaiming(t) == pc[t] \in {"lstat", "unlink"} /\ ~giveUp[t]

\* What the task has seen of one file may cost another its place.
Condemning(t) == (pc[t] = "judge" /\ aged[t]) \/ Reclaiming(t)

-----------------------------------------------------------------------------
(* acquireProjectTransactionLock.                                          *)

Acquire(t) ==
  /\ pc[t] = "idle"
  /\ Goto(t, "open")
  /\ UNCHANGED <<files, notes>>

\* open(O_CREAT | O_EXCL) succeeds: an empty file of a new identity.
Create(t) ==
  /\ pc[t] = "open" /\ path = NoInode
  /\ \E i \in Inodes :
       /\ ~Used(i)
       /\ path' = i
       /\ owner' = [owner EXCEPT ![i] = Nobody]
       /\ young' = young \cup {i}
       /\ mine' = [mine EXCEPT ![t] = i]
  /\ raced' = (raced \/ \E u \in Tasks : Condemning(u))
  /\ Goto(t, "write")
  /\ UNCHANGED <<live, suspect, aged, giveUp, outlived>>

\* EEXIST.
Exists(t) ==
  /\ pc[t] = "open" /\ path # NoInode
  /\ Goto(t, "peek")
  /\ UNCHANGED <<files, notes>>

\* The record names the process and, by its token, the acquisition.
Record_PidOnly(t) == PidOf[t]
Record(t) == t

\* Through the open handle, whatever the path has become.
WriteOwner(t) ==
  /\ pc[t] = "write"
  /\ owner' = [owner EXCEPT ![mine[t]] = Record(t)]
  /\ young' = young \cup {mine[t]}
  /\ Goto(t, "verify")
  /\ UNCHANGED <<path, live, raced, notes>>

Verify(t) ==
  /\ pc[t] = "verify" /\ path = mine[t]
  /\ Goto(t, "held")
  /\ UNCHANGED <<files, notes>>

\* The path was replaced meanwhile, or the creation failed after its open:
\* remove what is one's own and throw.
CreateFails(t) ==
  /\ pc[t] \in {"write", "verify"}
  /\ "ioError" \in Faults \/ (pc[t] = "verify" /\ path # mine[t])
  /\ Goto(t, "lstat")
  /\ suspect' = [suspect EXCEPT ![t] = mine[t]]
  /\ giveUp' = [giveUp EXCEPT ![t] = TRUE]
  /\ UNCHANGED <<files, mine, aged, outlived>>

\* Between two attempts: try again, or throw when two minutes have passed.
Retry(t) ==
  /\ pc[t] = "retry"
  /\ Goto(t, "open")
  /\ UNCHANGED <<files, notes>>

TimeOut_Never(t) == FALSE
TimeOut(t) ==
  /\ pc[t] = "retry"
  /\ Goto(t, "idle")
  /\ UNCHANGED <<files, notes>>

-----------------------------------------------------------------------------
(* removeStaleProjectTransactionLock.                                      *)

\* Within the grace of a file that is not initialised yet.
Young_Never(i) == FALSE
Young(i) == i \in young

\* lstat: is there a file, and is an empty one old enough to be judged?
Peek(t) ==
  /\ pc[t] = "peek"
  /\ IF path = NoInode \/ (owner[path] = Nobody /\ Young(path))
     THEN End(t, "retry")
     ELSE /\ Goto(t, "judge")
          /\ aged' = [aged EXCEPT ![t] = ~Young(path)]
          /\ UNCHANGED <<mine, suspect, giveUp, outlived>>
  /\ UNCHANGED files

\* The owner's process is alive, or the record is missing and the file that
\* lstat saw is young.
OwnerAlive_OwnPid(t, i) == owner[i] # Nobody /\ PidOf[owner[i]] = PidOf[t]
OwnerAlive_NotAsked(t, i) == owner[i] # Nobody
OwnerAlive(t, i) == owner[i] # Nobody /\ Running(owner[i])

Respected(t, i) == \/ OwnerAlive(t, i)
                   \/ owner[i] = Nobody /\ ~aged[t]

\* Read the record of the file that is there now.
Judge(t) ==
  /\ pc[t] = "judge"
  /\ IF path = NoInode \/ Respected(t, path)
     THEN End(t, "retry")
     ELSE /\ Goto(t, "lstat")
          /\ suspect' = [suspect EXCEPT ![t] = path]
          /\ UNCHANGED <<mine, aged, giveUp, outlived>>
  /\ UNCHANGED files

\* The record is written while it is read: the read, and the call, throws.
ReadFails(t) ==
  /\ pc[t] = "judge"
  /\ \E u \in Tasks : pc[u] = "write" /\ path = mine[u]
  /\ End(t, "idle")
  /\ UNCHANGED files

-----------------------------------------------------------------------------
(* unlinkProjectTransactionLockIfIdentity, of a stale lock or of one's own. *)

After(t) == IF giveUp[t] THEN "idle" ELSE "retry"

SameIdentity(t) == path = suspect[t]

Lstat(t) ==
  /\ pc[t] = "lstat"
  /\ IF SameIdentity(t) THEN Goto(t, "unlink") /\ UNCHANGED notes
                        ELSE End(t, After(t))
  /\ UNCHANGED files

\* By name: whatever is at the path now.  Nothing there: the call throws.
Unlink(t) ==
  /\ pc[t] = "unlink"
  /\ End(t, IF path = NoInode THEN "idle" ELSE After(t))
  /\ path' = NoInode
  /\ young' = young \ {path}
  /\ UNCHANGED <<owner, live, raced>>

-----------------------------------------------------------------------------
(* The release.                                                            *)

\* The file at the path is the one the task created and names the task. The
\* identity alone says little: the inode may have been given out again.
StillOwn_IdentityOnly(t) == path = mine[t]
StillOwn(t) == path # NoInode /\ owner[path] = t /\ path = mine[t]

\* The task is done; its lock must still be its own, or the call throws.
Release(t) ==
  /\ pc[t] = "held"
  /\ IF StillOwn(t)
     THEN /\ Goto(t, "lstat")
          /\ suspect' = [suspect EXCEPT ![t] = mine[t]]
          /\ giveUp' = [giveUp EXCEPT ![t] = TRUE]
          /\ outlived' = (outlived \cup {u \in Tasks : pc[u] = "held"}) \ {t}
          /\ UNCHANGED <<mine, aged>>
     ELSE End(t, "idle")
  /\ UNCHANGED files

-----------------------------------------------------------------------------
(* The environment.                                                        *)

\* The creator has neither written its record nor removed the file.
Initialising(i) ==
  \E t \in Tasks : /\ mine[t] = i /\ owner[i] = Nobody
                   /\ \/ pc[t] = "write"
                      \/ pc[t] \in {"lstat", "unlink"} /\ giveUp[t]

\* The grace of a file passes.
Age(i) ==
  /\ i \in young
  /\ "slow" \in Faults \/ ~Initialising(i)
  /\ young' = young \ {i}
  /\ raced' = (raced \/ Initialising(i))
  /\ UNCHANGED <<path, owner, live, pc, notes>>

\* A process dies with all its tasks; the lock file stays.
Crash(p) ==
  /\ "crash" \in Faults
  /\ p \in live
  /\ live' = live \ {p}
  /\ LET spared(t) == PidOf[t] # p IN
     /\ pc' = [t \in Tasks |-> IF spared(t) THEN pc[t] ELSE "dead"]
     /\ mine' = [t \in Tasks |-> IF spared(t) THEN mine[t] ELSE NoInode]
     /\ suspect' = [t \in Tasks |-> IF spared(t) THEN suspect[t] ELSE NoInode]
     /\ aged' = [t \in Tasks |-> spared(t) /\ aged[t]]
     /\ giveUp' = [t \in Tasks |-> spared(t) /\ giveUp[t]]
     /\ outlived' = {t \in outlived : spared(t)}
  /\ UNCHANGED <<path, owner, young, raced>>

-----------------------------------------------------------------------------
Step(t) ==
  \/ Create(t) \/ Exists(t) \/ WriteOwner(t) \/ Verify(t) \/ CreateFails(t)
  \/ Retry(t) \/ Peek(t) \/ Judge(t) \/ Lstat(t) \/ Unlink(t) \/ Release(t)

Next ==
  \/ \E t \in Tasks : Acquire(t) \/ Step(t) \/ ReadFails(t) \/ TimeOut(t)
  \/ \E i \in Inodes : Age(i)
  \/ \E p \in Pids : Crash(p)

Spec == Init /\ [][Next]_vars

\* Tasks go on and end their work, the clock runs, and a task that comes back
\* to the end of an attempt again and again finds its deadline passed.
FairSpec ==
  /\ Spec
  /\ \A t \in Tasks : WF_vars(Step(t)) /\ SF_vars(TimeOut(t))
  /\ \A i \in Inodes : WF_vars(Age(i))

-----------------------------------------------------------------------------
(* Properties.                                                             *)

TypeOK ==
  /\ path \in Inodes \cup {NoInode}
  /\ owner \in [Inodes -> Tasks \cup {Nobody}]
  /\ young \subseteq Inodes
  /\ live \subseteq Pids
  /\ pc \in [Tasks -> {"idle", "open", "write", "verify", "held", "peek",
                       "judge", "lstat", "unlink", "retry", "dead"}]
  /\ mine \in [Tasks -> Inodes \cup {NoInode}]
  /\ \A t \in Tasks : pc[t] = "write" => mine[t] \in Inodes
  /\ suspect \in [Tasks -> Inodes \cup {NoInode}]
  /\ aged \in [Tasks -> BOOLEAN]
  /\ giveUp \in [Tasks -> BOOLEAN]
  /\ raced \in BOOLEAN
  /\ outlived \subseteq Tasks

\* At most one task works on the project at a time.
MutualExclusion == \A t, u \in Tasks : pc[t] = "held" /\ pc[u] = "held" => t = u

\* The lock file of a task that works is at its place and is its own.
HolderKeepsFile ==
  \A t \in Tasks : pc[t] = "held" => path = mine[t] /\ owner[mine[t]] = t

\* Tasks contend, die and fail at any point, any number of them reclaim one
\* lock at a time, and yet a lock is lost in one way only: it was created while
\* a task that had found the previous one old could still remove what is at
\* the path by name, or it stayed empty for longer than the grace.
LostOnlyByRace == raced \/ (MutualExclusion /\ HolderKeepsFile)

\* Until then a task that unlinks a file of a running task, be it only created
\* or in use, is the one that created it.
LiveLockUnlinkedOnlyByRace ==
  [][\A t, u \in Tasks :
       /\ pc[t] = "unlink" /\ pc'[t] # "unlink" /\ pc'[t] # "dead"
       /\ pc[u] \in {"write", "verify", "held"} /\ path = mine[u]
       => t = u \/ raced]_vars

\* A lost lock is noticed: of tasks that worked at the same time all but one
\* meet an error at their release, whatever raced and whichever inodes were
\* given out again.
OverlapIsNoticed ==
  [][\A t \in Tasks : pc[t] = "held" /\ t \in outlived /\ pc'[t] # "held"
                     => pc'[t] \in {"idle", "dead"}]_vars

\* Removing a stale lock removes the file that was judged stale.
UnlinksItsSuspect ==
  [][\A t \in Tasks : /\ pc[t] = "unlink" /\ pc'[t] \in {"idle", "retry"}
                      /\ path # NoInode
                      => path = suspect[t]]_vars

\* Every acquisition ends, with the lock, with an error or with the process.
AcquireReturns ==
  \A t \in Tasks : pc[t] = "open" ~> pc[t] \in {"held", "idle", "dead"}

\* A lock whose process died does not outlive the next attempt to acquire it.
Stale(i) == i # NoInode /\ owner[i] # Nobody /\ ~Running(owner[i])

StaleLockGoes ==
  \A t \in Tasks : (pc[t] = "open" /\ Stale(path)) ~> (~Stale(path) \/ pc[t] = "dead")
-----------------------------------------------------------------------------
(* The inductive invariant behind the safety properties.                   *)

\* From the creation of its file to its removal.
Owning(t) == \/ pc[t] \in {"write", "verify", "held"}
             \/ pc[t] \in {"lstat", "unlink"} /\ giveUp[t]

\* A task runs while its process does; the notes of an attempt end with it.
LocalsInv ==
  \A t \in Tasks :
    /\ pc[t] = "dead" <=> ~Running(t)
    /\ giveUp[t] => pc[t] \in {"lstat", "unlink"}

\* At most one task owns a file: it is at its place, young as long as it is
\* empty, and it names nobody else.
OwnerInv ==
  /\ \A t, u \in Tasks : Owning(t) /\ Owning(u) => t = u
  /\ \A t \in Tasks : Owning(t) =>
       /\ mine[t] \in Inodes /\ path = mine[t]
       /\ giveUp[t] => suspect[t] = mine[t]
       /\ pc[t] \in {"verify", "held"} => owner[path] = t
       /\ owner[path] \in {t, Nobody}
       /\ owner[path] = Nobody => path \in young

\* What a task found of the age of a file stays true while it examines it; the
\* file it is going to remove has no owner, and nothing is at its place once
\* another task has removed it.
ReclaimInv ==
  /\ \A t \in Tasks : pc[t] = "judge" /\ aged[t] =>
       path = NoInode \/ owner[path] # Nobody \/ path \notin young
  /\ \A t \in Tasks : Reclaiming(t) =>
       /\ path \in {suspect[t], NoInode}
       /\ \A u \in Tasks : ~Owning(u)

\* A task that was outlived has lost its file for good.
OutlivedInv == \A t \in outlived : pc[t] = "held" /\ ~StillOwn(t)

LockInv == TypeOK /\ LocalsInv /\ (raced \/ (OwnerInv /\ ReclaimInv)) /\ OutlivedInv
=============================================================================
