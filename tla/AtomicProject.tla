--------------------------- MODULE AtomicProject ---------------------------
(***************************************************************************)
(* What the project transaction promises: a submitted transaction replaces *)
(* all its files in one step or is given up without a trace, whatever      *)
(* crashes in between; apart from that a file changes only when another    *)
(* program edits it, one at a time.                                        *)
(*                                                                         *)
(* store is the project as whoever recovers before reading sees it.        *)
(***************************************************************************)
EXTENDS Naturals

CONSTANTS
  Files,      \* paths of a project
  Versions    \* versions of a file, absence included

VARIABLES
  store,      \* the version of every file
  pending,    \* what the submitted transaction is to do with every file
  edits       \* how many edits other programs made

vars == <<store, pending, edits>>

Keep    == [changes |-> FALSE]
Change  == [changes : {TRUE}, before : Versions, after : Versions]
Nothing == [f \in Files |-> Keep]

Init ==
  /\ store \in [Files -> Versions]
  /\ pending = Nothing
  /\ edits = 0

Submit ==
  /\ pending = Nothing
  /\ pending' \in [Files -> Change \cup {Keep}]
  /\ UNCHANGED <<store, edits>>

\* All files at once, each from the version it was submitted against, unless
\* it already is what it should become.
Commit ==
  /\ \A f \in Files :
       pending[f].changes => store[f] \in {pending[f].before, pending[f].after}
  /\ store' = [f \in Files |-> IF pending[f].changes THEN pending[f].after
                               ELSE store[f]]
  /\ pending' = Nothing
  /\ UNCHANGED edits

GiveUp ==
  /\ pending' = Nothing
  /\ UNCHANGED <<store, edits>>

Edit ==
  /\ \E f \in Files, v \in Versions : store' = [store EXCEPT ![f] = v]
  /\ edits' = edits + 1
  /\ UNCHANGED pending

Next == Submit \/ Commit \/ GiveUp \/ Edit

Spec == Init /\ [][Next]_vars
=============================================================================
