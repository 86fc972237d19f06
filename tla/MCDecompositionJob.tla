----------------------------- MODULE MCDecompositionJob -----------------------------
(* Small instances of DecompositionJob. *)
EXTENDS DecompositionJob

CONSTANTS r, c, m, a, b, v, p, q

Stage == (r :> "read") @@ (c :> "read") @@ (m :> "registry")
         @@ (a :> "integrate") @@ (b :> "integrate") @@ (v :> "review")
Needs == (c :> {r} \cap Units) @@ [u \in {r, m, a, b, v} |-> {}]
Entries == (a :> <<p, q>>) @@ (b :> <<p>>) @@ [u \in {r, c, m, v} |-> <<>>]

MCStageOf == [u \in Units |-> Stage[u]]
MCDependsOn == [u \in Units |-> Needs[u]]
(* Units a and b write the same single entry. *)
SharedPlacesOf == [u \in Units |-> IF u \in {a, b} THEN <<p>> ELSE <<>>]
MCPlacesOf == [u \in Units |-> Entries[u]]

(* A job that has read the book; its registry is merged or about to be. *)
ReadAlready == {r, c} \cap Units

MergeInit ==
    /\ status = "idle" /\ active = 0
    /\ \E finished \in {ReadAlready, ReadAlready \cup {m}} :
          /\ phase = IF m \in finished THEN "integrate" ELSE "registry"
          /\ unitStatus = [u \in Units |-> IF u \in finished THEN "done" ELSE "pending"]
          /\ records = finished \X {<<>>}
    /\ stage = StageOf
    /\ attempts = [u \in Units |-> 0]
    /\ attemptOf = [u \in Units |-> 0]
    /\ revision = [u \in Units |-> <<>>]
    /\ required = [u \in Units |-> {}]
    /\ refs = [u \in Units |-> [x \in Places |-> NoRef]]
    /\ approved = [u \in Units |-> FALSE]
    /\ intent = [u \in Units |-> FALSE]
    /\ receipts = <<>>
    /\ content = [x \in Places |-> 0]
    /\ op = "none" /\ at = Nil /\ todo = <<>> /\ then = "return"
    /\ issued = 0 /\ clock = 0 /\ edits = 0

MergeSpec == MergeInit /\ [][Next]_vars
=============================================================================
