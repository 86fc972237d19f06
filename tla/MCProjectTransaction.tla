------------------------ MODULE MCProjectTransaction ------------------------
(* Small instances of ProjectTransaction for TLC.                          *)
EXTENDS ProjectTransaction, TLC

CONSTANTS f1, f2, c1, c2, c3, i1, i2

Write(e, c) == [action |-> "write",  expected |-> e, content |-> c]
Delete(e)   == [action |-> "delete", expected |-> e, content |-> Absent]
Check(e)    == [action |-> "check",  expected |-> e, content |-> Absent]
On(r1, r2)  == (f1 :> r1) @@ (f2 :> r2)

\* A replacement of both files, a creation next to a deletion, a write that
\* depends on an unchanged file, and a write that expects nothing.
MCInputs == {On(Write(c1, c2), Write(c1, c2)),
             On(Write(Absent, c2), Delete(c1)),
             On(Check(c2), Write(c1, c3)),
             On(NoRequest, Write(Unstated, c2))}

MCFiles    == {f1, f2}
MCContents == {c1, c2, c3}
MCIds      == {i1, i2}
IdSymmetry == Permutations(MCIds)

\* A project starts with one file, or with two.
MCInit == Init /\ disk \in {On(c1, c1), On(Absent, c1)}
MCSpec == MCInit /\ [][Next]_vars
MCFairSpec == /\ MCSpec
              /\ WF_vars(SessionStep)
              /\ SF_vars(StartRecover) /\ SF_vars(StartResolve)
=============================================================================
