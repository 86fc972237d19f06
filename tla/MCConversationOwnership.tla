-------------------------- MODULE MCConversationOwnership --------------------------
(* Instances of ConversationOwnership for TLC: one session that two prompts and *)
(* a deletion contend for, another that shares the capacity of the agent.       *)
EXTENDS ConversationOwnership

CONSTANTS s1, s2, p1, p2, p3, m1

MCSessionOf == [c \in Prompts \cup Managements |-> IF c = p3 THEN s2 ELSE s1]

NoFaults == {}
MidPrepare == {"midPrepare"}

=============================================================================
