------------------------- MODULE ProjectTransaction -------------------------
(***************************************************************************)
(* The journaled multi-file transaction that every DeepWrite project write *)
(* goes through: commitProjectTransaction, recoverProjectTransaction and   *)
(* resolveProjectTransactionConflicts of                                   *)
(* apps/desktop/src/utilities/project-transaction/.                        *)
(*                                                                         *)
(* One action is one disk access of the code together with the decision    *)
(* taken on it.  At most one session runs at a time: the file lock that    *)
(* guarantees it is the subject of module ProjectLock.  Programs that do   *)
(* not take the lock (an editor, a sync client) change files between any   *)
(* two steps.                                                              *)
(*                                                                         *)
(* Data is abstract: a version stands for a content and for its SHA-256,   *)
(* which are taken to be collision free.  The caller's array of operations *)
(* is a function on Files, and its loops visit the files in any order.     *)
(***************************************************************************)
EXTENDS Naturals, FiniteSets

CONSTANTS
  Files,      \* paths of a project
  Contents,   \* what a file can contain
  Absent,     \* the version of a path where there is no file
  Unstated,   \* an operation without expectedSha256
  NoFile,     \* no path
  Ids,        \* transaction identifiers; 0 is none
  Inputs,     \* the operation lists callers hand to commitProjectTransaction
  Kinds,      \* the entry points in use: subset of {"commit","recover","resolve"}
  Faults,     \* what may go wrong, see FaultNames
  MaxEdits,   \* bound on the external edits
  MaxFaults   \* bound on the crashes, I/O errors and power losses

Versions == Contents \cup {Absent}
Phases   == {"none", "prepared", "committing", "committed"}

(***************************************************************************)
(* crash       the process dies between two steps                          *)
(* ioError     a file operation throws                                     *)
(* syncError   the journal is renamed into place, the directory sync after *)
(*             it throws                                                   *)
(* powerLoss   directory entries that are not synced are gone              *)
(* edit        another program changes a file                              *)
(* revert      such an edit restores the version the journal names before  *)
(* race        such an edit hits the file between its check and its change *)
(* lateEdit    such an edit hits a file whose version the session already  *)
(*             checked, before the journal says committing                 *)
(* lateResolve the same, in the transaction of a conflict resolution       *)
(***************************************************************************)
FaultNames == {"crash", "ioError", "syncError", "powerLoss", "edit", "revert",
               "race", "lateEdit", "lateResolve"}

Op == [action : {"none", "write", "delete", "check"},
       before : Versions, after : Versions]

Request == [action : {"none", "write", "delete", "check"},
            expected : Versions \cup {Unstated}, content : Versions]

Journal == [id : Ids \cup {0}, phase : Phases, ops : [Files -> Op]]

NoOp      == [action |-> "none", before |-> Absent, after |-> Absent]
NoRequest == [action |-> "none", expected |-> Unstated, content |-> Absent]
NoInput   == [f \in Files |-> NoRequest]
NoJournal == [id |-> 0, phase |-> "none", ops |-> [f \in Files |-> NoOp]]
NewJournal(i) == [NoJournal EXCEPT !.id = i, !.phase = "prepared"]
NoStage   == [f \in Files |-> Absent]

\* What validateOperations lets through: a check names the version it expects,
\* a write has a content.
ValidRequest(r) == /\ r.action = "check" => r.expected # Unstated
                   /\ r.action = "write" => r.content \in Contents
                   /\ r.action = "none"  => r = NoRequest

ASSUME DistinctValues ==
  /\ Absent \notin Contents
  /\ Unstated \notin Versions
  /\ NoFile \notin Files
  /\ 0 \notin Ids
ASSUME InputsAreValid ==
  /\ Inputs \subseteq [Files -> Request]
  /\ \A req \in Inputs : /\ \A f \in Files : ValidRequest(req[f])
                         /\ \E f \in Files : req[f].action # "none"
ASSUME FaultsAreKnown ==
  /\ Kinds \subseteq {"commit", "recover", "resolve"}
  /\ Faults \subseteq FaultNames
  /\ MaxEdits \in Nat
  /\ MaxFaults \in Nat

VARIABLES
  \* on disk
  disk,      \* version of every project file
  journal,   \* .deepwrite/transaction.json
  stage,     \* .deepwrite/transactions/<id>/stage/<index>.next
  \* locals of the session that holds the lock
  kind,      \* its entry point, "none" when the lock is free
  pc,        \* its next step
  todo,      \* files its current loop has still to visit
  draft,     \* the journal it has in memory
  input,     \* the operations it is asked to commit
  again,     \* abortPreparedConflict
  target,    \* the file it has checked and is about to change
  old,       \* the journal a conflict resolution replaces
  clash,     \* a conflict resolution found an external edit
  unsynced,  \* changedDirectories: the files in them it has changed
  outcome,   \* how the last session ended, or is about to
  \* history
  applied,   \* files changed for a transaction that is not finished
  edited,    \* files edited by others since the journal was published
  agreed,    \* the operations the journal stands for
  edits, faults

diskVars  == <<disk, journal, stage>>
locals    == <<kind, pc, todo, draft, input, again, target, old, clash,
               unsynced, outcome>>
history   == <<applied, edited, agreed>>
counters  == <<edits, faults>>
vars      == <<diskVars, locals, history, counters>>

OpFiles(ops)   == {f \in Files : ops[f].action # "none"}
InputFiles(in) == {f \in Files : in[f].action # "none"}

\* Identifiers are random; here one that neither the journal nor the session
\* names stands for a new one.  A directory that a crash left behind under it
\* is never read again, so the transaction finds its own empty.
Fresh(i) == i \notin {journal.id, draft.id}

Init ==
  /\ disk \in [Files -> Versions]
  /\ journal = NoJournal
  /\ stage = [i \in Ids |-> NoStage]
  /\ kind = "none" /\ pc = "idle" /\ todo = {} /\ draft = NoJournal
  /\ input = NoInput /\ again = FALSE /\ target = NoFile /\ old = 0
  /\ clash = FALSE /\ unsynced = {} /\ outcome = "ok"
  /\ applied = {} /\ edited = {} /\ agreed = NoInput
  /\ edits = 0 /\ faults = 0

\* The session returns or throws, and its lock is released.
Leave(result) ==
  /\ kind' = "none" /\ pc' = "idle" /\ todo' = {} /\ draft' = NoJournal
  /\ input' = NoInput /\ again' = FALSE /\ target' = NoFile /\ old' = 0
  /\ clash' = FALSE /\ unsynced' = {} /\ outcome' = result

-----------------------------------------------------------------------------
(* Taking the lock: the entry points.                                      *)

StartCommit ==
  /\ kind = "none" /\ "commit" \in Kinds
  /\ kind' = "commit" /\ pc' = "load" /\ outcome' = "ok"
  /\ UNCHANGED <<diskVars, todo, draft, input, again, target, old, clash,
                 unsynced, history, counters>>

\* Without a journal, recoverProjectTransaction has nothing to do.
StartRecover ==
  /\ kind = "none" /\ "recover" \in Kinds
  /\ journal.phase # "none"
  /\ kind' = "recover" /\ pc' = "load" /\ outcome' = "ok"
  /\ UNCHANGED <<diskVars, todo, draft, input, again, target, old, clash,
                 unsynced, history, counters>>

StartResolve ==
  /\ kind = "none" /\ "resolve" \in Kinds
  /\ journal.phase # "none"
  /\ kind' = "resolve" /\ outcome' = "ok"
  /\ IF journal.phase = "committed"
     THEN pc' = "load" /\ UNCHANGED <<todo, draft>>
     ELSE pc' = "survey" /\ todo' = OpFiles(journal.ops) /\ draft' = journal
  /\ UNCHANGED <<diskVars, input, again, target, old, clash, unsynced, history,
                 counters>>

-----------------------------------------------------------------------------
(* commitProjectTransactionLocked: read, check and stage every operation,  *)
(* publish the journal, then run the recovery on it.                       *)

BeginStage ==
  /\ pc = "return" /\ outcome = "ok" /\ kind = "commit" /\ ~again
  /\ \E req \in Inputs, i \in Ids :
       /\ Fresh(i)
       /\ input' = req /\ todo' = InputFiles(req)
       /\ draft' = NewJournal(i)
       /\ stage' = [stage EXCEPT ![i] = NoStage]
  /\ pc' = "stage"
  /\ UNCHANGED <<disk, journal, kind, again, target, old, clash, unsynced,
                 outcome, history, counters>>

AfterOf_Expected(req, current) == req.expected
AfterOf(req, current) ==
  CASE req.action = "write"  -> req.content
    [] req.action = "check"  -> current
    [] OTHER                 -> Absent

Expects(req, version) == req.expected \in {Unstated, version}

StageFile(f) ==
  /\ pc = "stage" /\ f \in todo
  /\ Expects(input[f], disk[f])
  /\ todo' = todo \ {f}
  /\ draft' = [draft EXCEPT !.ops[f] =
                 [action |-> input[f].action, before |-> disk[f],
                  after |-> AfterOf(input[f], disk[f])]]
  /\ stage' = IF input[f].action = "write"
              THEN [stage EXCEPT ![draft.id][f] = input[f].content]
              ELSE stage
  /\ UNCHANGED <<disk, journal, kind, pc, input, again, target, old, clash,
                 unsynced, outcome, history, counters>>

StageConflict(f) ==
  /\ pc = "stage" /\ f \in todo
  /\ ~Expects(input[f], disk[f])
  /\ stage' = [stage EXCEPT ![draft.id] = NoStage]
  /\ Leave("conflict")
  /\ UNCHANGED <<disk, journal, history, counters>>

Publish ==
  /\ pc = "stage" /\ todo = {}
  /\ journal' = draft
  /\ agreed' = input /\ edited' = {}
  /\ pc' = "load" /\ again' = TRUE
  /\ UNCHANGED <<disk, stage, kind, todo, draft, input, target, old, clash,
                 unsynced, outcome, applied, counters>>

\* writeJournal throws after its rename: the caller takes the journal for
\* unwritten and removes the transaction's directory.
PublishSyncError ==
  /\ "syncError" \in Faults /\ faults < MaxFaults
  /\ pc = "stage" /\ todo = {}
  /\ journal' = draft
  /\ agreed' = input /\ edited' = {}
  /\ stage' = [stage EXCEPT ![draft.id] = NoStage]
  /\ Leave("error")
  /\ faults' = faults + 1
  /\ UNCHANGED <<disk, applied, edits>>

-----------------------------------------------------------------------------
(* recoverProjectTransactionLocked.                                        *)

Load ==
  /\ pc = "load"
  /\ CASE journal.phase = "none"      -> /\ pc' = "return"
                                         /\ UNCHANGED <<todo, draft>>
       [] journal.phase = "committed" -> /\ pc' = "unlink" /\ draft' = journal
                                         /\ UNCHANGED todo
       [] OTHER                       -> /\ pc' = "assert" /\ draft' = journal
                                         /\ todo' = OpFiles(journal.ops)
  /\ UNCHANGED <<diskVars, kind, input, again, target, old, clash, unsynced,
                 outcome, history, counters>>

\* Acceptable(op, v): v is the version the operation starts from, or, for an
\* operation that changes the file, the one it ends with.
Acceptable(op, v) ==
  \/ v = op.before
  \/ op.action # "check" /\ v = op.after

AssertFile(f) ==
  /\ pc = "assert" /\ f \in todo
  /\ Acceptable(draft.ops[f], disk[f])
  /\ todo' = todo \ {f}
  /\ UNCHANGED <<diskVars, kind, pc, draft, input, again, target, old, clash,
                 unsynced, outcome, history, counters>>

MayAbort_AnyPhase == TRUE
MayAbort == draft.phase = "prepared" /\ again

\* A transaction that was just published is given up.
AbortPrepared(f) ==
  /\ pc = "assert" /\ f \in todo
  /\ ~Acceptable(draft.ops[f], disk[f])
  /\ MayAbort
  /\ pc' = "unlink" /\ todo' = {} /\ outcome' = "conflict"
  /\ UNCHANGED <<diskVars, kind, draft, input, again, target, old, clash,
                 unsynced, history, counters>>

\* An interrupted transaction is left for resolveProjectTransactionConflicts.
AssertConflict(f) ==
  /\ pc = "assert" /\ f \in todo
  /\ ~Acceptable(draft.ops[f], disk[f])
  /\ ~MayAbort
  /\ Leave("conflict")
  /\ UNCHANGED <<diskVars, history, counters>>

MarkCommitting ==
  /\ pc = "assert" /\ todo = {}
  /\ journal' = [draft EXCEPT !.phase = "committing"]
  /\ draft' = journal'
  /\ todo' = OpFiles(draft.ops) /\ pc' = "apply"
  /\ UNCHANGED <<disk, stage, kind, input, again, target, old, clash, unsynced,
                 outcome, history, counters>>

\* The file is as the operation wants it.
ApplySkip(f) ==
  /\ pc = "apply" /\ f \in todo
  /\ disk[f] = draft.ops[f].after
  /\ todo' = todo \ {f}
  /\ UNCHANGED <<diskVars, kind, pc, draft, input, again, target, old, clash,
                 unsynced, outcome, history, counters>>

\* The version the operation is going to replace is the one it started from.
Untouched_NotCompared(f) == TRUE
Untouched(f) == disk[f] = draft.ops[f].before

\* The file is as it was: read it, and the stage if the operation writes.
ApplyCheck(f) ==
  LET op == draft.ops[f] IN
  /\ pc = "apply" /\ f \in todo
  /\ Untouched(f) /\ disk[f] # op.after
  /\ op.action = "write" => stage[draft.id][f] = op.after
  /\ pc' = "change" /\ target' = f
  /\ UNCHANGED <<diskVars, kind, todo, draft, input, again, old, clash,
                 unsynced, outcome, history, counters>>

\* Neither: another program wrote it.  The journal stays.
ApplyConflict(f) ==
  /\ pc = "apply" /\ f \in todo
  /\ ~Untouched(f) /\ disk[f] # draft.ops[f].after
  /\ Leave("conflict")
  /\ UNCHANGED <<diskVars, history, counters>>

\* The staged content is gone or damaged.  The journal stays.
ApplyStageMissing(f) ==
  LET op == draft.ops[f] IN
  /\ pc = "apply" /\ f \in todo
  /\ op.action = "write" /\ Untouched(f) /\ disk[f] # op.after
  /\ stage[draft.id][f] # op.after
  /\ Leave("error")
  /\ UNCHANGED <<diskVars, history, counters>>

\* rename(staged, target) or unlink(target).
ApplyChange ==
  LET op == draft.ops[target] IN
  /\ pc = "change"
  /\ op.action = "delete" => disk[target] # Absent
  /\ disk' = [disk EXCEPT ![target] = op.after]
  /\ stage' = IF op.action = "write"
              THEN [stage EXCEPT ![draft.id][target] = Absent] ELSE stage
  /\ applied' = applied \cup {target}
  /\ unsynced' = unsynced \cup {target}
  /\ pc' = "apply" /\ todo' = todo \ {target} /\ target' = NoFile
  /\ UNCHANGED <<journal, kind, draft, input, again, old, clash, outcome,
                 edited, agreed, counters>>

\* unlink throws: the file is gone already.
ApplyUnlinkFails ==
  /\ pc = "change"
  /\ draft.ops[target].action = "delete" /\ disk[target] = Absent
  /\ Leave("error")
  /\ UNCHANGED <<diskVars, history, counters>>

AllVisited_LastSkipped == Cardinality(todo) <= 1
AllVisited == todo = {}

\* Every directory with a changed file is synced before the journal says
\* committed.
AfterSync_Forgotten == unsynced
AfterSync == {}

MarkCommitted ==
  /\ pc = "apply" /\ AllVisited
  /\ unsynced' = AfterSync
  /\ journal' = [draft EXCEPT !.phase = "committed"]
  /\ draft' = journal'
  /\ applied' = {}
  /\ pc' = "unlink"
  /\ UNCHANGED <<disk, stage, kind, todo, input, again, target, old, clash,
                 outcome, edited, agreed, counters>>

\* cleanupTransaction: the journal first, then the transaction's directory.
UnlinkJournal ==
  /\ pc = "unlink"
  /\ journal' = NoJournal
  /\ pc' = "remove"
  /\ UNCHANGED <<disk, stage, kind, todo, draft, input, again, target, old,
                 clash, unsynced, outcome, history, counters>>

RemoveStage ==
  /\ pc = "remove"
  /\ stage' = [stage EXCEPT ![draft.id] = NoStage]
  /\ pc' = "return"
  /\ UNCHANGED <<disk, journal, kind, todo, draft, input, again, target, old,
                 clash, unsynced, outcome, history, counters>>

\* The recovery returned or threw: its caller does too, except where commit
\* goes on to stage, and where resolve removes what it replaced.
Return ==
  /\ pc = "return"
  /\ ~(outcome = "ok" /\ kind = "commit" /\ ~again)
  /\ stage' = IF outcome = "ok" /\ kind = "resolve" /\ again
              THEN [stage EXCEPT ![old] = NoStage] ELSE stage
  /\ Leave(outcome)
  /\ UNCHANGED <<disk, journal, history, counters>>

-----------------------------------------------------------------------------
(* resolveProjectTransactionConflicts: keep what others wrote, finish the  *)
(* rest in a transaction that takes the place of the interrupted one.      *)

RequestFor_ExpectsNext(current, next) ==
  [action   |-> IF next = current THEN "check"
                ELSE IF next = Absent THEN "delete" ELSE "write",
   expected |-> next,
   content  |-> next]
RequestFor(current, next) ==
  [action   |-> IF next = current THEN "check"
                ELSE IF next = Absent THEN "delete" ELSE "write",
   expected |-> current,
   content  |-> next]

\* Nothing to do for the file: it was edited, is done, or is only checked.
Kept(f) == \/ disk[f] # draft.ops[f].before
           \/ draft.ops[f].action = "check"
           \/ disk[f] = draft.ops[f].after

Survey(f) ==
  LET op == draft.ops[f] IN
  /\ pc = "survey" /\ f \in todo
  /\ Kept(f) \/ op.action = "delete" \/ stage[draft.id][f] = op.after
  /\ clash' = (clash \/ ~Acceptable(op, disk[f]))
  /\ input' = [input EXCEPT ![f] =
                 RequestFor(disk[f], IF Kept(f) THEN disk[f] ELSE op.after)]
  /\ todo' = todo \ {f}
  /\ UNCHANGED <<diskVars, kind, pc, draft, again, target, old, unsynced,
                 outcome, history, counters>>

SurveyStageMissing(f) ==
  /\ pc = "survey" /\ f \in todo
  /\ ~Kept(f) /\ draft.ops[f].action = "write"
  /\ stage[draft.id][f] # draft.ops[f].after
  /\ Leave("error")
  /\ UNCHANGED <<diskVars, history, counters>>

\* No external edit: the plain recovery will do.
SurveyClean ==
  /\ pc = "survey" /\ todo = {} /\ ~clash
  /\ pc' = "load" /\ input' = NoInput
  /\ UNCHANGED <<diskVars, kind, todo, draft, again, target, old, clash,
                 unsynced, outcome, history, counters>>

\* What the caller's prepare() makes of the surveyed files: it reads more of
\* them and rewrites some.
Adjusted(read, fix, c) ==
  LET known(f)   == input[f].action # "none"
      current(f) == IF known(f) THEN input[f].expected ELSE disk[f]
  IN [f \in Files |-> IF f \in fix THEN RequestFor(current(f), c)
                      ELSE IF known(f) \/ f \notin read THEN input[f]
                      ELSE RequestFor(disk[f], disk[f])]

Prepare ==
  /\ pc = "survey" /\ todo = {} /\ clash
  /\ \E read, fix \in SUBSET Files, c \in Contents, i \in Ids :
       /\ Fresh(i)
       /\ input' = Adjusted(read, fix, c)
       /\ draft' = NewJournal(i)
       /\ stage' = [stage EXCEPT ![i] = NoStage]
  /\ todo' = InputFiles(input')
  /\ old' = draft.id
  /\ pc' = "stage"
  /\ UNCHANGED <<disk, journal, kind, again, target, clash, unsynced, outcome,
                 history, counters>>

-----------------------------------------------------------------------------
(* The environment.                                                        *)

\* The process dies; its locals are gone and its lock is stale.
Crash ==
  /\ "crash" \in Faults /\ faults < MaxFaults
  /\ kind # "none"
  /\ Leave("crash")
  /\ faults' = faults + 1
  /\ UNCHANGED <<diskVars, history, edits>>

\* journalWritten is still FALSE.
JournalUnwritten_Late == pc = "stage" \/ (pc = "load" /\ again)
JournalUnwritten == pc = "stage"

\* A file operation throws.  Before the journal is written the transaction's
\* directory goes, afterwards everything stays for the next recovery.
IOError ==
  /\ "ioError" \in Faults /\ faults < MaxFaults
  /\ kind # "none"
  /\ stage' = IF JournalUnwritten THEN [stage EXCEPT ![draft.id] = NoStage]
              ELSE stage
  /\ Leave("error")
  /\ faults' = faults + 1
  /\ UNCHANGED <<disk, journal, history, edits>>

\* What is not synced may be gone: transactions/<id> and its subdirectories,
\* whose entries never are, and the session's replacements and deletions in
\* directories it has yet to sync.  A replacement that is gone has its staged
\* file back.
PowerLoss ==
  /\ "powerLoss" \in Faults /\ faults < MaxFaults
  /\ \E lost \in SUBSET Ids,
        undone \in SUBSET {f \in unsynced : disk[f] = draft.ops[f].after} :
       /\ disk' = [f \in Files |-> IF f \in undone THEN draft.ops[f].before
                                  ELSE disk[f]]
       /\ stage' = [i \in Ids |->
            IF i \in lost THEN NoStage
            ELSE [f \in Files |->
                    IF i = draft.id /\ f \in undone THEN draft.ops[f].after
                    ELSE stage[i][f]]]
  /\ Leave("crash")
  /\ faults' = faults + 1
  /\ UNCHANGED <<journal, history, edits>>

\* f has been compared with the version it starts from by this session, and
\* the journal does not yet say committing.
Checked(f) == \/ pc = "stage" /\ f \notin todo
              \/ pc = "load" /\ again
              \/ pc = "assert" /\ (again \/ f \notin todo)

Edit(f, c) ==
  /\ "edit" \in Faults /\ edits < MaxEdits
  /\ c # disk[f]
  /\ "race" \in Faults \/ ~(pc = "change" /\ f = target)
  /\ "revert" \in Faults \/ ~(journal.ops[f].action # "none"
                              /\ c = journal.ops[f].before)
  /\ kind # "resolve" => "lateEdit" \in Faults \/ ~Checked(f)
  /\ kind = "resolve" => "lateResolve" \in Faults \/ ~Checked(f)
  /\ disk' = [disk EXCEPT ![f] = c]
  /\ edited' = edited \cup {f}
  /\ edits' = edits + 1
  /\ UNCHANGED <<journal, stage, locals, applied, agreed, faults>>

-----------------------------------------------------------------------------
FileStep(f) ==
  \/ StageFile(f) \/ StageConflict(f)
  \/ AssertFile(f) \/ AbortPrepared(f) \/ AssertConflict(f)
  \/ ApplySkip(f) \/ ApplyCheck(f) \/ ApplyConflict(f) \/ ApplyStageMissing(f)
  \/ Survey(f) \/ SurveyStageMissing(f)

SessionStep ==
  \/ \E f \in Files : FileStep(f)
  \/ BeginStage \/ Publish \/ Load \/ MarkCommitting \/ ApplyChange
  \/ ApplyUnlinkFails \/ MarkCommitted \/ UnlinkJournal \/ RemoveStage
  \/ Return \/ SurveyClean \/ Prepare

Start == StartCommit \/ StartRecover \/ StartResolve

Environment ==
  \/ PublishSyncError \/ Crash \/ IOError \/ PowerLoss
  \/ \E f \in Files, c \in Versions : Edit(f, c)

Next == Start \/ SessionStep \/ Environment

Spec == Init /\ [][Next]_vars

\* A session that is not interrupted goes on; projects are opened again, which
\* recovers them, and a user told of a conflict asks for its resolution.
FairSpec ==
  Spec /\ WF_vars(SessionStep) /\ SF_vars(StartRecover) /\ SF_vars(StartResolve)

-----------------------------------------------------------------------------
(* Properties.                                                             *)

\* Every variable has its type, and a session its locals.
TypeOK ==
  /\ disk \in [Files -> Versions]
  /\ journal \in Journal
  /\ stage \in [Ids -> [Files -> Versions]]
  /\ kind \in {"none", "commit", "recover", "resolve"}
  /\ pc \in {"idle", "stage", "load", "assert", "apply", "change", "unlink",
             "remove", "return", "survey"}
  /\ todo \subseteq Files
  /\ draft \in Journal
  /\ input \in [Files -> Request]
  /\ again \in BOOLEAN
  /\ target \in Files \cup {NoFile}
  /\ pc = "change" => target \in todo
  /\ old \in Ids \cup {0}
  /\ clash \in BOOLEAN
  /\ unsynced \subseteq Files
  /\ outcome \in {"ok", "conflict", "error", "crash"}
  /\ applied \subseteq Files
  /\ edited \subseteq Files
  /\ agreed \in [Files -> Request]
  /\ edits \in Nat
  /\ faults \in Nat

\* An interrupted transaction can always be rolled forward: whatever it still
\* has to write is in its stage, so that no recovery ends in a missing stage
\* file (the promise above recoverProjectTransaction).
RollForwardPossible ==
  journal.phase \in {"prepared", "committing"} =>
    \A f \in Files :
      LET op == journal.ops[f] IN
      op.action = "write" /\ disk[f] = op.before /\ op.before # op.after
        => stage[journal.id][f] = op.after

\* A half-applied transaction is never forgotten: as long as some of its files
\* are changed and it is not finished, its journal is there to finish it, over
\* every crash, error, abort and conflict resolution.
TornHasJournal == applied # {} => journal.phase # "none"

\* A journal that says committed tells the truth: all the files nobody else
\* edited since it was published are as the transaction wants them.
CommittedIsWhole ==
  journal.phase = "committed" =>
    \A f \in OpFiles(journal.ops) \ edited : disk[f] = journal.ops[f].after

\* A transaction changes a file only from the version its caller expected and
\* the journal recorded: it never overwrites another program's edit, nor a
\* newer version of its own.  (A power loss may take its change back.)
EditsSurvive ==
  [][\A f \in Files :
       disk'[f] # disk[f] /\ counters' = counters =>
         /\ disk[f] = journal.ops[f].before
         /\ Expects(agreed[f], disk[f])]_vars

\* The project as whoever recovers before reading sees it: from the moment the
\* journal says committing, the files still to be changed count as changed.
Replaces(op) == op.action \in {"write", "delete"}

ProjectView ==
  [f \in Files |->
     LET op == journal.ops[f] IN
     IF journal.phase = "committing" /\ Replaces(op) /\ disk[f] = op.before
     THEN op.after ELSE disk[f]]

PendingView ==
  [f \in Files |->
     LET op == journal.ops[f] IN
     IF journal.phase = "prepared" /\ Replaces(op)
     THEN [changes |-> TRUE, before |-> op.before, after |-> op.after]
     ELSE [changes |-> FALSE]]

Atomic == INSTANCE AtomicProject WITH
  store <- ProjectView, pending <- PendingView

\* Commits and recoveries implement the atomic project, over crashes, I/O
\* errors and edits, as long as no edit hits a file between the check of its
\* version and the point of no return.
ImplementsAtomicProject == Atomic!Spec

\* Whatever interrupts a transaction, it is finished or given up in the end.
Settles == (journal.phase # "none") ~> (journal.phase = "none")
-----------------------------------------------------------------------------
(* The inductive invariants behind the properties.                         *)

\* Where a session is tells what it knows of the journal.
SessionShape ==
  /\ kind = "none" <=> pc = "idle"
  /\ again => kind \in {"commit", "resolve"}
  /\ pc \in {"assert", "survey"} =>
       draft = journal /\ journal.phase \in {"prepared", "committing"}
  /\ pc = "survey" => kind = "resolve" /\ ~again
  /\ pc \in {"apply", "change"} => draft = journal /\ journal.phase = "committing"
  /\ pc = "load" /\ again => journal.phase = "prepared"
  /\ pc = "unlink" => /\ draft = journal
                      /\ \/ journal.phase = "committed"
                         \/ journal.phase = "prepared" /\ again
  /\ pc \in {"remove", "return"} => journal.phase = "none"
  /\ pc = "stage" => /\ kind \in {"commit", "resolve"} /\ ~again
                     /\ draft.phase = "prepared"
                     /\ draft.id \in Ids /\ draft.id # journal.id
                     /\ kind = "commit" => journal.phase = "none"
  /\ pc \in {"idle", "load", "unlink", "remove", "return"} => todo = {}
  /\ pc \in {"assert", "apply", "change", "survey"} => todo \subseteq OpFiles(draft.ops)
  /\ unsynced # {} => /\ pc \in {"apply", "change"}
                      /\ unsynced \subseteq OpFiles(draft.ops)

\* What the session has put into its draft is in its stage.
DraftStaged ==
  pc = "stage" =>
    \A f \in Files : draft.ops[f].action = "write" =>
                       stage[draft.id][f] = draft.ops[f].after

\* Nothing is changed before the journal says committing, nor left to change
\* when it says committed; a resolution's transaction, which may follow a
\* half-applied one, is not given up: its files are as its draft saw them.
TornInv ==
  /\ journal.phase \in {"none", "committed"} => applied = {}
  /\ kind = "commit" /\ again /\ journal.phase = "prepared" => applied = {}
  /\ kind = "resolve" /\ pc = "stage" =>
       \A f \in Files \ todo : draft.ops[f].action # "none" =>
                                 disk[f] = draft.ops[f].before
  /\ kind = "resolve" /\ again /\ pc \in {"load", "assert"}
       /\ journal.phase = "prepared" =>
       \A f \in OpFiles(journal.ops) : disk[f] = journal.ops[f].before
  /\ kind = "resolve" /\ again /\ pc = "unlink" => journal.phase = "committed"

\* The files the apply loop has left behind are as they should be.
AppliedInv ==
  /\ CommittedIsWhole
  /\ pc \in {"apply", "change"} =>
       \A f \in OpFiles(journal.ops) \ (todo \cup edited) :
         disk[f] = journal.ops[f].after

\* The versions the journal starts from are those the caller expected, and
\* the file about to be changed still has that version.
ExpectedInv ==
  /\ pc = "stage" => \A f \in Files : draft.ops[f].action # "none" =>
                       Expects(input[f], draft.ops[f].before)
  /\ \A f \in Files : journal.ops[f].action # "none" =>
                       Expects(agreed[f], journal.ops[f].before)
  /\ pc = "change" => disk[target] = draft.ops[target].before

\* An operation that only checks ends where it starts.
ChecksKeep ==
  \A f \in Files :
    /\ journal.ops[f].action = "check" => journal.ops[f].after = journal.ops[f].before
    /\ draft.ops[f].action = "check"   => draft.ops[f].after = draft.ops[f].before

\* Behind the refinement: a file that was checked stays acceptable until the
\* journal says committing, one that was changed stays changed.
AtomicInv ==
  /\ kind # "resolve"
  /\ pc = "assert" => \A f \in OpFiles(draft.ops) \ todo :
                        Acceptable(draft.ops[f], disk[f])
  /\ pc \in {"apply", "change"} =>
       \A f \in OpFiles(draft.ops) \ todo :
         disk[f] = draft.ops[f].before => draft.ops[f].after = draft.ops[f].before
=============================================================================
