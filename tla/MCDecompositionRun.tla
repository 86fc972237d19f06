----------------------------- MODULE MCDecompositionRun -----------------------------
(* Small instances of DecompositionRun. *)
EXTENDS DecompositionRun

CONSTANTS r, c, m, a, v, p, q

RunStages == (r :> "read") @@ (c :> "read") @@ (m :> "registry") @@ (a :> "integrate")
             @@ (v :> "review")
MCStageOf == [u \in Units |-> RunStages[u]]
MCDependsOn == [u \in Units |-> IF u = c THEN {r} ELSE {}]
MCPlacesOf == [u \in Units |-> IF u = a THEN <<p, q>> ELSE <<>>]
=============================================================================
