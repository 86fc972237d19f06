# DeepWrite: a TLA+ model of how manuscripts are kept safe

DeepWrite is a desktop writing application (Electron, TypeScript). A main
process supervises three utility processes (core, agent, tool); the core process
owns the projects, which are directories of text and JSON files on the user's
disk. Agents propose edits, users accept them, devices exchange versions, and
other programs (editors, sync clients, version control) change the same files.

The project specifies the parts whose correctness is about order and failure,
checks them with TLC on small instances and proves the most important results
with TLAPS for all instances. Paths below are relative to
`src/apps/desktop/src/` unless they start with `src/`.

## The system

| Component | State it keeps | Operations | What is hard | Where |
|---|---|---|---|---|
| Project transaction | project files; `.deepwrite/transaction.json` (the journal: phase, operations with hashes before and after); `.deepwrite/transactions/<id>/stage` and `backup` | commit, recover, resolve conflicts | a crash or an error between any two disk accesses; other programs' edits between any two; a resolution that replaces a half-applied transaction | `utilities/project-transaction/` — modelled |
| Project lock | `.deepwrite/transaction.lock` (pid, token) | acquire, wait, reclaim, release | several processes and tasks; owners that die; decisions on a file that has been replaced since | `utilities/project-transaction/lock.ts` — modelled |
| Utility supervisor | worker processes, pending commands, restart and shutdown timers, the agent-to-core bridge | start, exit, restart, shut down, forward, answer, time out | restarts that race a shutdown; answers of a process that is gone; limits | `main/supervisor.ts`, `main/graceful-shutdown.ts` — partly |
| Conversation ownership and agent runs | owner of each session and runs known in the main process; runs of each session in the agent process | prompt, accept, refuse, stream, drain, purge, delete | two processes that learn of each other late or never; exits and restarts; calls that time out | `main/ipc/conversation-operation-guard.ts`, `main/ipc/session-commands.ts`, `main/index.ts`, `utilities/agent-run-registry.ts` — modelled but for aborts and inputs |
| Managed project store | caches of loaded projects, revisions | load, read, write chapter, commit batch | reads without the lock, compare-and-swap on stale revisions | `utilities/long-project-store/` |
| Device sync | ledgers of versions of two devices, transfer plans | compare, transfer, adopt, initialise | two devices, interrupted exchanges, deletions against edits | `extras/device-sync/`, `utilities/device-sync-*.ts` |
| Long book decomposition jobs | the job file (stage, status, attempt, a status and a revision for each unit); records in the task directory; entries and receipts in the material libraries; the loop of the page | open a package, submit, finish, stop, resume, skip, retry, keep or regenerate a conflict, advance, edit the registry, recover | a crash or a failed save between any two of three stores; the user's edits of the same entries; going back with old results still there; a loop that must end | `utilities/long-book-decomposition/`, `utilities/folder-catalog-store/managed-*.ts`, `renderer/src/extras/long-book-decomposition/` — modelled for jobs that write material libraries |
| Folder catalog, conversations, settings | JSON files | CRUD | mostly sequential I/O | `utilities/folder-catalog-store*`, `utilities/conversation-storage/`, `main/*-store.ts` |
| Everything else | | | user interface, remote services, import and export formats | `renderer/`, `packages/`, … |

The transaction is what all stores rest on: `long-project-store`,
`folder-catalog-store`, device sync, decomposition jobs, material packs and
agent sources commit through `commitProjectTransaction` and call
`recoverProjectTransaction` before they read. It is modelled first.

What makes each part correct:

* **Project transaction**: all files change or none do, as far as nobody else edits
  them; an interrupted change is remembered and can be completed; nobody's edit is
  overwritten; a journal never claims more than is done; nothing blocks a project for ever.
* **Project lock**: one task works at a time and its lock file stays its own, but for
  two races the code leaves open; tasks that did work at the same time do not both
  succeed; a dead owner's lock goes; every acquisition returns.
* **Conversation ownership**: a run owns its session until it has drained; history is
  changed only when nothing runs; every owner gives the session back.
* **Supervisor**: a worker that is gone or refuses commands comes back; every request
  is answered once; nothing starts after the shutdown.
* **Managed project store** (planned): no update is lost between a read and a commit.
* **Device sync** (planned): an interrupted exchange is resumed or undone; an edit on
  one device is not lost to a deletion on the other.
* **Long book decomposition**: a unit that is done is saved, and saved work is not handed
  out again; units in progress belong to the attempt that runs; the user's text is not
  overwritten unasked; after going back nothing of a later stage counts; an unfinished
  stage has work to hand out; a run ends, and for a reason its user can see.

How they interact: the renderer calls the main process; main forwards commands to
core, agent and tool by `postMessage` and gets results and events back on the same
channels; the agent asks main to forward commands to core; core alone touches project
files, in transactions under the lock, which other applications of the same
user may hold too. The page of a decomposition asks the core, through main, for
one operation after the other; an agent submits units to it meanwhile, and the
core takes the operations of a job one by one.

## Modules

| Module | Models | Kind |
|---|---|---|
| `ProjectTransaction` | commit, recovery and conflict resolution, one action per disk access | detailed specification |
| `AtomicProject` | what a commit promises: all files change at once, or none | abstract specification |
| `MCProjectTransaction` | instances for TLC | model checking |
| `ProjectTransaction_proofs` | types and the four safety properties | proofs |
| `ProjectTransaction_refinement_proofs` | `ProjectTransaction` implements `AtomicProject` | proofs |
| `ProjectLock` | the lock file, one action per file system call | detailed specification |
| `MCProjectLock` | instances for TLC | model checking |
| `ProjectLock_proofs` | types, how a lock can be lost, overlaps are noticed | proofs |
| `UtilityWorker` | the life cycle of one supervised process | component |
| `ConversationOwnership` | who may work on a conversation, across two processes | detailed specification |
| `MCConversationOwnership` | instances for TLC | model checking |
| `ConversationOwnership_proofs` | types, one run of a session, authority, ownership, ghosts, releasers | proofs |
| `DecompositionJob` | a decomposition job in the core, one action per save | detailed specification |
| `DecompositionRun` | the loop of the page that works a job off, with what the page offers | composition |
| `MCDecompositionJob`, `MCDecompositionRun` | instances for TLC | model checking |
| `DecompositionJob_proofs` | types, attempts, the user's text, saved work, done units | proofs |
| `DecompositionJob_stage_proofs` | going back leaves nothing of a later stage done | proofs |
| `DecompositionJob_work_proofs` | a job can go on wherever it stands | proofs |
| `DecompositionRun_proofs` | the loop implements the job, and ends for a reason | proofs |

`ProjectTransaction` assumes that at most one session runs on a project, which
is what the lock is for. The two are composed by that assumption, not by a product of
their states, and the assumption is more than the lock guarantees: `lock_swap` and
`lock_reclaim` show how it is lost without any fault, `OnlyRacesLose` that this
race and a creator slower than the grace are the only ways, and `OverlapsAreNoticed` that of sessions that overlapped at
most one returns without an error. `ConversationOwnership`
concerns other processes and other state and is composed with `UtilityWorker`,
whose actions it conjoins. `DecompositionRun` extends `DecompositionJob` and
conjoins its actions with the state of the loop. `DecompositionJob` in turn
assumes what `ProjectTransaction` and the lock are for: an entry and its
receipt change together (`WriteEntry`, `KeepEntry`).

### ProjectTransaction

A *session* is one call of `commitProjectTransaction`,
`recoverProjectTransaction` or `resolveProjectTransactionConflicts` under the
lock; `kind` says which, `pc` where it is, and the other locals are the
variables of the call (`draft` is the journal in memory, `again` is
`abortPreparedConflict`, `target` the file that has been compared and is about
to be replaced, `old` and `clash` belong to a resolution). On disk there are
`disk` (the version of each file), `journal` and `stage`.

| Code | Actions |
|---|---|
| `commitProjectTransaction` | `StartCommit`, then `Load`… (the recovery that comes first), then `BeginStage` |
| the staging loop, `writeJournal` | `StageFile`, `StageConflict`, `Publish`, `PublishSyncError` |
| `recoverProjectTransactionLocked` | `Load`, `AssertFile`, `AbortPrepared`, `AssertConflict`, `MarkCommitting`, `ApplySkip`, `ApplyCheck`, `ApplyChange`, `ApplyConflict`, `ApplyStageMissing`, `ApplyUnlinkFails`, `MarkCommitted` |
| `cleanupTransaction` | `UnlinkJournal`, `RemoveStage` |
| `resolveProjectTransactionConflicts` | `StartResolve`, `Survey`, `SurveyStageMissing`, `SurveyClean`, `Prepare`, then the staging loop |
| returning and throwing | `Return`, and `Leave` inside every action that ends a session |
| everything that interrupts | `Crash`, `IOError`, `PowerLoss`, `Edit` |

Data is abstract: a version is a content and its hash in one. The order of the
operations is not fixed, which covers every array a caller may pass. Path
checks, hard-link aliases and size limits are errors like `IOError` and are not
told apart. The backup copies are not modelled: no code path restores from them
except to show a deleted file to the preparation of a resolution.

`unsynced` is `changedDirectories`: the files the session has replaced or deleted
and whose directories it has yet to sync. A power loss (`PowerLoss`) takes back
any of them, and with any of the stages, whose directories are never synced. What
an earlier session replaced before it was interrupted is taken to be on disk, for
the recovery that comes after it skips files that are done already and syncs the
directories of those it changes itself only (`recovery.ts:165`, `193`): a process that dies and
a power loss after the next recovery has finished are together outside the model.

### ProjectLock

A task is one call of `withProjectTransactionLock`; tasks live in processes
(`PidOf`) that may die. `path` is the inode linked at the lock's path, and an
inode number is given out again when its file is neither linked nor open, as
file systems do: `projectTransactionFileIdentity` is device and inode. `young`
stands for the five seconds of `LOCK_INITIALIZATION_GRACE_MS`. The decision to
reclaim takes an `lstat` (`Peek`), a read (`Judge`), a second `lstat`
(`Lstat`) and an `unlink` by name (`Unlink`); release and failed acquisitions
share the last two. Nothing orders the waiters: any number of them examine and
reclaim at the same time, and others create in between. A process in `Gone` died
before the start and may have left its lock, with a record or empty.

Two variables remember what happened; no step reads them for anything else.
`raced` says that a lock was created while a task that had found the previous one
old, or was about to remove it, had still to act (`Condemning`), or that a
creator was overtaken by the grace. `outlived` has the tasks at work while another
one that worked at the same time has passed its release.

### UtilityWorker and ConversationOwnership

The main process, the agent process and what lies between them. `UtilityWorker`
is the life cycle of one worker of the supervisor; `ConversationOwnership`
extends it, conjoins its actions where a step concerns both (a process that
exits also loses its runs and the messages under way), and adds:

| Code | Actions and state |
|---|---|
| `conversation-operation-guard.ts` | `lease` (owner of each session), `managing`; `Free`, `Released` |
| `session.prompt` in `session-commands.ts` | `BeginPrompt`, `RefusePrompt`, `PromptFails`, `SendPrompt`, `PromptTimeout`; `call` is where each one is |
| its continuation when the agent answers | `ReceiveAccepted`, `ReceiveRejected` |
| purge and delete in `conversation-history-commands.ts` | `BeginManage`, `EndManage` |
| `handleUtilityEvent`, `releaseDrainedAgentRun` | `ReceiveEvent`, `ReceiveTerminal`, `ReceiveDrained`; `activeRuns`, `terminalRuns` |
| `handleUnexpectedExit` of `main/index.ts` | `ReleaseAll`, part of `ProcessEnds` |
| `agent-entry.ts`, `agent-run-registry.ts` | `RejectRun`, `AdmitRun`, `RunEvent`, `RunTerminal`, `RunDrained`; `run`, `sessionRuns` |
| `UtilityWorker` of `supervisor.ts` | `RestartStopped`, `RestartRunning`, `RestartPolling`, `PollEnds`, `KillTimeout`, `GraceTimeout`, `Exit`, `RestartTimeout` |
| `utility-lifecycle.ts` | `BeginDrain`, `ExitDrained` |

Between the processes there are two ordered channels (`postMessage`). A prompt
stands for its call, its owner identifier, its command and its run, because
each gives rise to at most one of the next. A continuation of an awaited promise
runs before the next message is taken, as the event loop does; only awaits that
leave the event loop separate actions. An exit that was asked for happens when
what had been posted is delivered; a crash loses it.

### DecompositionJob and DecompositionRun

A job has *units*: readings of chapters, chunks of readings, parts of the
registry and their merge, assets, reviews. `StageOf`, `DependsOn` and `PlacesOf`
are its plan: when a unit is worked on, what must be done before, and which
entries of the libraries it writes. The variables of the job are those of the
job *file*: the code changes a job in memory and saves it at a few places, and
the actions end there. What lies between two saves of an operation is `op`
(which save comes next), `at` (its unit), `todo` (entries still to be written)
and `then` (the caller that goes on). The core takes the operations of a job one
after the other (`commands.ts:216`), so `op` is one variable.

| Code | Actions and state |
|---|---|
| `job-recovery.ts` | `Get`, and `Recovered`, `RecoveredRefs` in every operation that recovers first; `Saved` and `Intact` are what the records reader finds |
| `service.ts` `open` | `Open` |
| `service.ts` `submit`, `unit-persistence.ts`, `record-store.ts` | `Submit`, `SaveRecord`, `WriteEntry` for each entry, `FinishSubmit`; `MeetConflict` and `SubmitFails` are its `catch` |
| `content-guard.ts`, `managed-entry.ts` | `Writable`, `Blocked`, `LatestRefs` |
| `submission-staging.ts` | `ThenMerge`, `MergeRecord`, `MergeDone`: the merge of the registry that needs no model |
| `job-control.ts` | `FinishPackage`, `Stop`, `Skip`, `Retry`, `Resume`, `ResumeKept` |
| `unit-retry.ts` | `Requeue`, `RetriedUnits` |
| `conflicts.ts`, `managed-receipt.ts` | `Keep`, `KeepEntry`, `Kept`, `Regenerate` |
| `job-advance.ts`, `completion-service.ts` | `Advance`, `AdvanceMerged`, `GoOn`, `Finalize` |
| `job-registry.ts` | `EditRegistry`, `EditRecord`, `Edited` |
| `engine.ts` | `Start`, `OpenPackage`, `EndPackage`, `AdvanceStage`, `Arrive`, `StopRun`, `CoreEnds` |
| `DecompositionProgress.vue` | `Choose` |
| the end of the core, a disk that is full, the user | `Interrupt`, `SubmitFails`, `EditEntry` |

An input revision is a string with suffixes (`:retry:…`, `:resolved:…`,
`:review:…`, `:registry-edit:…`); here it is a sequence of suffixes, each with
the value of a clock that stands for `Date.now()`, and `Cut` is
`split(suffix)[0]`. A version of an entry is a number and stands for its text and
its hash; a new write never repeats an older version. (So an entry the job never
wrote cannot equal the new text, in which case `managed-entry.ts:110` asks for
nothing and leaves the text as it is.) The number in a suffix of an edited registry is
one more than that of the suffix it replaces (`query-records.ts:29`), and a retry
keeps that suffix or puts a new time in front of the next (`unit-retry.ts:24`): such
a revision never comes twice, as if it had the time. A receipt is kept for ever,
as in the manifest of a library, and the position of a receipt stands for the
revision of the library it was committed at. An edit is saved in the library
under no receipt. Skipping and retrying are open to every unit that the core
accepts them for in `DecompositionJob`, and in `DecompositionRun` to those that
the page offers them for.

`JobAssumption` says of a plan what `workflow.ts` and the reading plan
(`chunking.ts`, `packages/contracts`) make of it: readings and chunks are of the
stage that reads, their records are all they write, a chunk has readings of its
own and nothing else depends on them, a unit depends on units of its own stage
only, and no unit depends on itself by way of others. TLC evaluates it in every
run of a job; the proofs use nothing else of a plan.

The plan of a job is fixed: the stages that plan units as they are reached
(`workflow.ts`, `registry-plan.ts`) are taken to plan the same units again after
going back, so that `previousOutputRefs`, which carries references over to a new
plan, is not needed. Not modelled besides: creating, preparing and deleting a
job, reusing the records of another one, jobs that write a long book and its
ledger (another writer and a completion of its own), drafts and parts of assets,
planning by topic, usage accounting (`FinishPackage` may pause the job), and
waiting for a free agent.

## Properties and runs

| Run | Question | Bounds | Result |
|---|---|---|---|
| `transaction` | `TypeOK`, `RollForwardPossible`, `TornHasJournal`, `CommittedIsWhole`, `EditsSurvive`, and that every interrupted transaction ends (`Settles`), for commits, recoveries and resolutions | 2 files, 3 contents, 2 identifiers, 2 interruptions (crashes, I/O errors), 1 edit at any time but the last window | holds |
| `storm` | what survives power losses, failed directory syncs, edits back and edits in the last window: `TornHasJournal`, `CommittedIsWhole` (everything is synced before the journal says committed) | the same, 1 interruption, 2 edits | holds |
| `atomic` | `ImplementsAtomicProject`, when power is lost and directory syncs fail, too | commits and recoveries, 2 interruptions, 2 edits | holds |
| `lock` | a lock is lost by a race only (`LostOnlyByRace`, `LiveLockUnlinkedOnlyByRace`), an overlap is noticed (`OverlapIsNoticed`), acquisitions end (`AcquireReturns`), dead locks go (`StaleLockGoes`) | 2 tasks in 2 processes and a third process that died before, 2 inodes, crashes, I/O errors and slow creators | holds |
| `lock_swap` | `MutualExclusion` | 3 tasks in 3 processes, no fault | violated |
| `lock_reclaim` | `UnlinksItsSuspect`: the file removed is the one judged stale | 2 tasks and a lock that a dead process left, no fault | violated |
| `ownership` | a run owns its session, history is managed alone, every owner gives back, nothing is listed that is gone | 2 sessions, 2 prompts and a deletion on one, 1 prompt on the other, an agent with room for 1 run, 1 crash | holds |
| `ownership_all` | what holds when ownership is lost: one run of a session, no authority for ended runs, the worker comes back | 2 prompts, 2 restarts, 1 crash, all faults | holds |
| `ownership_restart` | `LeaseHasReleaser` over a planned restart | 1 restart | violated |
| `job` | units in progress belong to the attempt, done is saved, the user's text survives, saved work is not handed out | a merge, a chunk that has been read, 2 units that write the same entry; packages of any ready units, any order of operations; 3 packages, 1 attempt, 1 new revision, 1 edit, crashes and write errors at any save, interrupted choices | holds |
| `job_run` | done is saved, nothing of a later stage counts after going back, a job can go on wherever it stands, a run returns, and for a reason | a reading, its chunk, a merge, a unit with 2 entries, a review: the whole way to completion; no run is started after 3 packages, 1 attempt, 2 new revisions, 1 edit, crashes | holds |
| `job_kept` | `KeptIsAsked` | 2 new revisions, 2 edits, crashes | violated, see below |

`WorkGoesOn` is `ContinueHasWork \/ Uprooted`: the exception is that a review has sent
back a unit of a dependency (see *What the runs found*). In `job_run` the
dependency is that of a chunk on its reading, and `Uprooted` is false; chains of
dependencies within a stage are left to the theorem `JobsGoOn`.

Two files are enough for a transaction to be half applied and for a
compare-only operation to stand beside a write; three contents tell the version
before, the version after and a foreign one apart; two identifiers let a
resolution hold one while the interrupted transaction keeps the other.
`MaxEdits` and `MaxFaults` bound how often the environment acts; two
interruptions are what the deepest counterexamples need (one to leave a
transaction half applied, one to hit its recovery). Two inodes make the reuse of
an inode number happen. Two waiters and a lock left by a dead process are
enough for one to reclaim what the other has acquired; a third live one, which
releases the lock that the waiter saw, is what `lock_swap` takes, and the theorems hold for
any number. Two prompts of a session are needed for one to take it while
the other's run is still under way; room for one run makes a free session meet a
full agent; two restarts let one poll while the other waits and let the timer of
a kill meet the shutdown of a later restart.

A new revision is what every way back takes (retry, regenerate, a review, an
edited registry): one lets a unit be sent back with its old record and receipts
around, two let it be sent back and then resolved. Two units with one entry make
a later write supersede an earlier one; one unit with two entries is
half-written. With one attempt a unit fails the first time, which brings retries
and resumptions early; a second attempt of a unit within one run of the loop is
left to the theorems. `job` starts where the book has been read, `job_run` at the
beginning. In `job` interrupted choices to keep an edit (`keepCrash`) meet units
of one entry only, see *Faults*.

Deadlock is not checked for the lock, where all processes may be dead, nor for
ownership, where all calls may have returned, nor for jobs, which may be
completed or have used up the bounds of the model.

Symmetry is used where no liveness is checked: identifiers of transactions.

**Faults.** `Faults` of each module names what the environment does. A property
that needs one of them absent is checked and proved without it. What such a fault
breaks:

* `syncError` breaks `RollForwardPossible`: `writeJournal` renames the journal into
  place and then syncs the directory (`journal.ts:70`); if the sync throws, the
  caller takes the journal for unwritten and removes the stages that the visible
  journal names (`commit.ts:148`), and the project is stuck.
* `powerLoss` (the journal is synced, the directories of its stages are not) does
  the same; `atomic` and `storm` run with both. The replacements it takes back break
  nothing: they are synced before the journal says committed.
* `race` (comparing a hash and renaming over the file are two steps) breaks
  `EditsSurvive` of the transaction: an edit in that window is overwritten.
* `revert` (replacing a file consumes its stage) breaks `RollForwardPossible`:
  editing back to the former version after an interruption leaves nothing to
  roll forward with. `TornHasJournal` and `CommittedIsWhole` are proved with all four
  of these faults, for resolutions, too, and `storm` runs with them.
* `lateResolve` (an edit between the staging and the assertion of a resolution's
  own transaction) breaks `TornHasJournal`: that transaction is given up on a
  conflict like any fresh one (`recovery.ts:113`), although its journal has
  replaced the one of a half-applied transaction.
* `slow` (a creator is held up for longer than the grace and taken for dead) breaks
  mutual exclusion; `lock` runs with it, and `LostOnlyByRace` names it.
* `midPrepare` (the agent exits while a prompt is prepared) breaks `ManagedAlone`
  and `OwnedWhileRunning`: the exit releases every prompt, also one that has not
  been sent yet. `ownership_all` runs with it, and with `slowAnswer` (a prompt
  times out before the agent has read it, so that a refusal comes too late to
  free the session).
* `editCrash` (the core ends while an edited registry is saved) breaks
  `DoneIsSaved`: the job names a revision whose record does not exist
  (`unit-persistence.ts:97`), and the next recovery puts the registry in
  conflict.
* `keepCrash` (a choice to keep an edit is interrupted) breaks `DoneIsSaved` for
  units with two entries: when the user then has the unit generated again,
  `conflicts.ts:42` keeps its revision, and receipts that adopt the user's text
  count as written. `emptyKeep` is the choice to keep a conflict of a unit that
  has written nothing.

**Fairness.** `FairSpec` of `ProjectTransaction` lets a session that is not
interrupted go on (the code awaits only the disk) and assumes that a project
with a pending journal is opened again and that the user asks for the
resolution (`SF` on `StartRecover` and `StartResolve`: other sessions may get
the lock first, but not forever). `FairSpec` of `ProjectLock` lets every task
proceed, lets the clock run, and lets a waiter that keeps retrying find its two
minutes passed. `FairSpec` of `ConversationOwnership` delivers messages, fires
timers, lets handlers finish and a process that drains exit (the registry bounds
the drain by a second), and lets runs end: that a model or a tool that never ends
blocks its session is documented (`src/docs/Agent对话性能优化方案.md:9`), so it is
an assumption of `LeaseEnds`, not a finding. Nothing is assumed of crashes,
restarts and time-outs of prompts. `RunFairness` of `DecompositionRun` lets the
core finish its operations and the loop take its next step (`WF`: nothing else
runs in the page between two answers), and lets the run of an agent end (`SF` on
`EndPackage`: while its submissions are under way the package cannot be
finished; the model calls of an agent are bounded). The user is not assumed to
do anything, and nothing is assumed of crashes.

## What the runs found

* **Two holders of a lock** (`lock_swap`). The age of one file is used to judge
  another: a waiter that saw an old lock removes the one just created.
* **A reclaimer removes its successor** (`lock_reclaim`). Two waiters find the
  owner of a lock dead, and both compare its identity. One removes it and acquires
  a lock of its own; the other goes on to unlink what is at the path by then. It takes
  no fault but the death that left the lock. Whoever loses a lock so learns it
  when it releases, after it has worked.
* **A planned restart leaves sessions owned** (`ownership_restart`). Changing
  the network proxy restarts the agent. The exit is expected, so nothing releases
  the sessions of the runs it ended before they had drained.
* **An approval outlives its use** (`job_kept`). The user lets a unit overwrite
  a conflict; the core ends after the entry is written and before the job is
  saved. Recovery finds the receipt and sets the unit done, but leaves
  `regenerateApproved` set. When the user later keeps an edit of that entry and
  the unit is sent back, it overwrites what was kept without asking.
* **A repair that nobody can start** (met while proving `JobsGoOn`; no run). A
  review sets the unit it sends back to the stage `review` (`service.ts:230`). If
  another unit of the old stage depends on it, as those of `workflow.ts:148-158` do,
  is in conflict and is generated again, the job goes back to the old stage
  (`unit-retry.ts:32`): the one waits for a dependency that is not done, the other
  for a stage that is not reached. `advance` answers with the same job
  (`job-advance.ts:28`), the loop ends without an error, and every further start
  does the same. `Uprooted` in `WorkGoesOn` and in `RunEndsForAReason` stands for
  this case.

## Proofs

All theorems hold for any set of files, contents, identifiers, inputs, and any
bounds.

`ProjectTransaction_proofs` starts from `TypeOK` and `SessionShape` (what the
step of a session says about the journal: it is the draft while asserting and
applying, absent after cleaning up, and so on), which are inductive together.
Each property then needs one strengthening:

| Theorem | Statement | Assumes | Strengthening |
|---|---|---|---|
| `TypeCorrect` | `Spec => []TypeOK` | | |
| `RollsForward` | `[]RollForwardPossible` | no `syncError`, `powerLoss`, `revert` | `DraftStaged`: what the draft writes is in its stage, so that publishing it is safe |
| `TornIsRemembered` | `[]TornHasJournal` | no `lateResolve` | `TornInv`: nothing is applied under a journal that may be given up |
| `CommittedIsTrue` | `[]CommittedIsWhole` | | `AppliedInv`: the apply loop leaves finished files behind |
| `EditsAreKept` | `EditsSurvive` | no `race` | `ExpectedInv`: draft, journal and target carry the expected version |
| `Refinement` | `Spec => ImplementsAtomicProject` | commits and recoveries, no `revert`, `race`, `lateEdit` | `ChecksKeep`, `AtomicInv`: asserted files stay acceptable until the journal says committing, changed files stay changed |

`ProjectLock_proofs` proves, for any number of tasks, processes and inodes and under
every fault, `TypeCorrect`, `OnlyRacesLose` (`[]LostOnlyByRace`), `OnlyRacesUnlink`
(`LiveLockUnlinkedOnlyByRace`) and `OverlapsAreNoticed` (`OverlapIsNoticed`) from one
inductive invariant, `LockInv`. Mutual exclusion is no invariant of the code, and
what it would follow from is inductive only until `raced`: `OwnerInv` (at most one
task owns a file, from its creation to its removal; it is the one at the path,
and young as long as it is empty) and `ReclaimInv` (a file about to be
reclaimed has no owner, and what a task saw of its age is still true; both fail for a file
that is created behind the back of a reclaimer, which is when `raced` is set).
`LocalsInv` and `OutlivedInv` (a task that was outlived no longer finds its file at the
path, for good: its inode number may come back, its record does not) need no such
condition, and `OverlapsAreNoticed` rests on them alone.

`ConversationOwnership_proofs` proves, under every fault and for any number of
crashes and restarts, `TypeCorrect` (with `TypeInv`: no more restarts poll than
were asked for), `OneRun` (from `SessionNamesRun`: the agent's list of sessions
names each run), `NoAuthority` and `StoppingEnds`; and, when `midPrepare` is not
among the faults, `Owns` and `ManagesAlone`. These two rest on `OnePlace` (a prompt is
with its call, in the channel, running, or over, and in the channel at most once)
and on `LeaseInv` (what is prepared, under way or running owns its session, and
a session that is managed has no owner). `OnePlace` is needed because a refusal
and a drainage give a session back: they may do so only because nothing of that
prompt is left to run.

Two more hold as long as nobody asks for a restart (`restarts = 0`; the run
`ownership_restart` shows what a restart breaks), with crashes at any time:

* `NoGhosts`: main lists no run that is over. The channel is ordered, and
  `NewsOfRuns` says what that is good for: whatever the agent reports of a run
  has the report of its drainage behind it, or the run goes on.
* `LeasesHaveReleasers`, when `slowAnswer` is not among the faults: something is
  left that gives each session back. `AnswerInv` says that the call of a prompt
  waits as long as the prompt may still be refused, so that a refusal finds it,
  and that acceptance and refusal exclude each other.

The proofs about jobs hold for any units, entries and bounds, and any plan that satisfies
`JobAssumption`:

| Theorem | Statement | Assumes | Strengthening |
|---|---|---|---|
| `TypeCorrect` | `Spec => []TypeOK` | | `OpType`: which locals an operation has set |
| `WorkersAgree` | `[]RunningAgrees` | | `OpAgrees`: a submission is of the attempt that runs, a choice is carried out while none runs |
| `UserTextSurvives` | `EditsSurvive` | | `EditInv`: a version that a unit refers to as the job's own was written by the job, and units refer to their own entries |
| `SavedWorkIsKept` | `WorkIsKept` | | the same: a package is opened on what recovery finds |
| `DoneStaysSaved` | `[]DoneIsSaved` | `Calm`: no `editCrash`, `keepCrash`, `emptyKeep` | `DoneInv`: how far an operation has come (`Progress`), receipts and records are of revisions that are not used again (`Clocked`, `SavedOnce`), references are to all entries of a unit or none |
| `LaterStagesStayOpen` | `[]LaterStagesWait` | `Calm` | `WaitInv`: nothing is saved for the current revision of a unit of a later stage (`Later`), what is worked on is of the stage of the job or an earlier one (`StageInv`), records are as old as the clock and units that are all record are given no choice (`RecordsInv`) |
| `JobsGoOn` | `[]WorkGoesOn` | `Calm` | `WorkInv`: a unit that waits has attempts left unless it is a reading (`TriesInv`), and the readings of a chunk that is closed or recorded are closed (`ReadInv`) |
| `RunRefinesJob` | `RunSpec => Spec` | | every step of the loop, its page and its agent is a step of the job or none |
| `RunStaysSaved` | `DoneIsSaved`, `LaterStagesWait`, `RunningAgrees` and `WorkGoesOn` under `RunSpec` | `Calm` | by `RunRefinesJob` |
| `RunsEndForAReason` | `RunSpec => RunEndsForAReason` | `Calm` | `LoopIsFree`: between packages no attempt runs; and `WorkGoesOn`, which is why a loop that finds nothing to do has a reason |

`Clocked` is what makes going back safe: a unit that is sent back gets a revision
later than every receipt and every record, so nothing that was saved before can
count for it. `Least` and `CutEnds` show that the recursion-free definition of
`Cut` finds the first suffix of a kind.

`JobsGoOn` rests on `JobInv`, all the invariants of the job together. Its last
step takes, among the pending units of the stage, one that depends on none of
them (the plan has no cycle). If it is a reading of a chunk, the chunk is
pending as well, by `ReadInv`, and can be handed out with its readings whatever
their state; otherwise what the unit depends on is of its stage and hence done or skipped.
`ReadInv` is why `Requeued` takes the chunk of a reading along.

`Calm` leaves out three of the faults: an interrupted save of an edited
registry, an interrupted choice to keep an edit, and the choice to keep a
conflict of a unit without content. The first two break `DoneIsSaved` (see
*Faults*). The first breaks `LaterStagesWait`, too: the merge is left with a revision
that ends in an edit nobody recorded, is put in conflict, resolved and tried
again, and as the record of a revision is named by what precedes its first
`:resolved:` (`record-store.ts:33`), the record of the choice counts for
the merge that should wait (TLC finds this after 14 steps of a chunk and a merge with
three new revisions). `LaterStagesWait` and `WorkGoesOn` are proved without the other two
as well because their invariant contains that of `DoneIsSaved`.

Only model-checked is liveness (`RunReturns`, `Settles`, `AcquireReturns`,
`StaleLockGoes`, `LeaseEnds`, `WorkerComesBack`), because the prover does not
handle fairness. `RunReturns` would need a measure of what a run has left
besides. Every invariant and action property of a passing run is stated by a theorem.

## Plan

1. `ProjectTransaction`, `AtomicProject`, `ProjectLock`, with proofs (done).
2. `UtilityWorker`, `ConversationOwnership` (done; aborts, steering, user input
   and the limit of the extras remain).
3. `ConversationOwnership_proofs` (done).
4. `DecompositionJob`, `DecompositionRun` with their proofs (done for jobs that
   write material libraries).
5. Jobs that write a long book and its ledger.
6. The bridge for internal commands and `shutdownAll`, over `UtilityWorker`:
   answers of a target that is gone, cancellation, restart against shutdown.
7. `ManagedProject`: a client that loads without the lock and commits with the
   hashes it saw, over `AtomicProject`; lost updates and torn reads.
8. `DeviceSync`: two devices, ledgers, interrupted exchanges.

## Not modelled

The renderer but for the loop of a decomposition, remote services, import and export formats, and the stores that
are sequential JSON files have no state machine worth checking, or one whose
other half is outside the repository. Symbolic links, permissions and path
containment are checks of single calls. Hash collisions are taken to be
impossible.
