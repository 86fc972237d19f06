------------------------------ MODULE UtilityWorker ------------------------------
(***************************************************************************)
(* One worker of the supervisor (main/supervisor.ts): a child process that *)
(* is started, restarted on demand, asked to shut down, killed when it     *)
(* takes too long, and started again when it exits unexpectedly.  The      *)
(* child's side is utilities/utility-lifecycle.ts: it drains when it is    *)
(* asked to, and a kill (SIGTERM) only makes it drain.                     *)
(*                                                                         *)
(* The actions here are conjoined by a module that says what the worker    *)
(* does while it is up.  A continuation of an awaited promise runs in the  *)
(* same turn of the event loop as the call that resolves it.               *)
(***************************************************************************)
EXTENDS Naturals

CONSTANT MaxRestarts    \* how often restartWorker is called

ASSUME MaxRestartsAssumption == MaxRestarts \in Nat

VARIABLES
    child,              \* "none", "up" or "draining"
    isStopping,         \* commands are refused
    pendingShutdown,    \* "none", "waiting", or "killed" once its time is up
    graceTimer,         \* the 250 ms after a kill are running
    polling,            \* restarts that wait for another's shutdown
    restartTimer,       \* the 250 ms after an unexpected exit are running
    restarts            \* calls of restartWorker so far

workerVars ==
    <<child, isStopping, pendingShutdown, graceTimer, polling, restartTimer, restarts>>

WorkerInit ==
    /\ child = "up"
    /\ isStopping = FALSE
    /\ pendingShutdown = "none"
    /\ graceTimer = FALSE
    /\ polling = 0
    /\ restartTimer = FALSE
    /\ restarts = 0

\* start(): nothing happens while there is a child or the worker is stopping.
Started(process, stopping) ==
    IF process = "none" /\ ~stopping THEN "up" ELSE process

Available == child # "none" /\ ~isStopping

-----------------------------------------------------------------------------
\* restart() of a worker that has no child.
RestartStopped ==
    /\ restarts < MaxRestarts
    /\ child = "none"
    /\ restarts' = restarts + 1
    /\ isStopping' = FALSE
    /\ child' = Started(child, FALSE)
    /\ UNCHANGED <<pendingShutdown, graceTimer, polling, restartTimer>>

\* restart() of a running worker: shutdown() posts a message and waits.
RestartRunning ==
    /\ restarts < MaxRestarts
    /\ child # "none" /\ pendingShutdown = "none"
    /\ restarts' = restarts + 1
    /\ isStopping' = TRUE
    /\ pendingShutdown' = "waiting"
    /\ UNCHANGED <<child, graceTimer, polling, restartTimer>>

\* restart() while another one waits: shutdown() polls until that has ended.
RestartPolling ==
    /\ restarts < MaxRestarts
    /\ child # "none" /\ pendingShutdown # "none"
    /\ restarts' = restarts + 1
    /\ isStopping' = TRUE
    /\ polling' = polling + 1
    /\ UNCHANGED <<child, pendingShutdown, graceTimer, restartTimer>>

\* A poll finds no shutdown pending; its restart goes on.
PollEnds ==
    /\ polling > 0 /\ pendingShutdown = "none"
    /\ polling' = polling - 1
    /\ isStopping' = FALSE
    /\ child' = Started(child, FALSE)
    /\ UNCHANGED <<pendingShutdown, graceTimer, restartTimer, restarts>>

\* The child has not exited in 1.8 s and is killed: it drains, if it does not already.
KillTimeout ==
    /\ pendingShutdown = "waiting" /\ ~graceTimer
    /\ pendingShutdown' = "killed"
    /\ graceTimer' = TRUE
    /\ child' = "draining"
    /\ UNCHANGED <<isStopping, polling, restartTimer, restarts>>

\* Mutant: the restart that goes on after a kill does not accept commands again.
GraceTimeout_Forgets ==
    /\ graceTimer
    /\ graceTimer' = FALSE
    /\ pendingShutdown' = "none"
    /\ UNCHANGED <<child, isStopping, polling, restartTimer, restarts>>

\* 250 ms later whatever shutdown is pending counts as done, child or no child,
\* and its restart goes on.
GraceTimeout ==
    /\ graceTimer
    /\ graceTimer' = FALSE
    /\ pendingShutdown' = "none"
    /\ isStopping' = (isStopping /\ pendingShutdown = "none")
    /\ UNCHANGED <<child, polling, restartTimer, restarts>>

\* The child has read the request to shut down.
BeginDrain ==
    /\ child' = "draining"
    /\ UNCHANGED <<isStopping, pendingShutdown, graceTimer, polling, restartTimer, restarts>>

\* Mutant: only a child that has not begun to drain is started again.
Exit_DrainedStaysAway ==
    /\ child # "none"
    /\ pendingShutdown' = "none"
    /\ isStopping' = (isStopping /\ pendingShutdown = "none")
    /\ child' = IF pendingShutdown = "none" THEN "none" ELSE "up"
    /\ restartTimer' = (restartTimer \/ (~isStopping /\ child = "up"))
    /\ UNCHANGED <<graceTimer, polling, restarts>>

\* The exit handler.  An exit nobody asked for is followed by a start in 250 ms;
\* otherwise the restart that waits goes on and starts the worker.
Exit ==
    /\ child # "none"
    /\ pendingShutdown' = "none"
    /\ isStopping' = (isStopping /\ pendingShutdown = "none")
    /\ child' = IF pendingShutdown = "none" THEN "none" ELSE "up"
    /\ restartTimer' = (restartTimer \/ ~isStopping)
    /\ UNCHANGED <<graceTimer, polling, restarts>>

RestartTimeout ==
    /\ restartTimer
    /\ restartTimer' = FALSE
    /\ child' = Started(child, isStopping)
    /\ UNCHANGED <<isStopping, pendingShutdown, graceTimer, polling, restarts>>

\* The steps of the supervisor and of restartWorker that concern nothing but the worker.
WorkerAlone ==
    RestartStopped \/ RestartPolling \/ PollEnds \/ KillTimeout \/ GraceTimeout \/ RestartTimeout

WorkerFairness ==
    /\ WF_workerVars(PollEnds)
    /\ WF_workerVars(KillTimeout)
    /\ WF_workerVars(GraceTimeout)
    /\ WF_workerVars(RestartTimeout)

-----------------------------------------------------------------------------
WorkerTypeOK ==
    /\ child \in {"none", "up", "draining"}
    /\ isStopping \in BOOLEAN
    /\ pendingShutdown \in {"none", "waiting", "killed"}
    /\ graceTimer \in BOOLEAN
    /\ polling \in 0..MaxRestarts
    /\ restartTimer \in BOOLEAN
    /\ restarts \in 0..MaxRestarts

=============================================================================
