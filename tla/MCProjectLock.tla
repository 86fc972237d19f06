--------------------------- MODULE MCProjectLock ---------------------------
(* Small instances of ProjectLock for TLC: two tasks in a process each, and *)
(* the lock a third one may have left.                                     *)
EXTENDS ProjectLock, TLC

CONSTANTS t1, t2, t3, p1, p2, p3, i1, i2

MCTasks   == {t1, t2, t3}
MCInodes  == {i1, i2}
MCPids    == {p1, p2, p3}
ThreeApps == (t1 :> p1) @@ (t2 :> p2) @@ (t3 :> p3)
MCGone    == {p3}
=============================================================================
