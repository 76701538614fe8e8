------------------------------ MODULE MCAgentTurn ------------------------------
(* Instances of AgentTurn for TLC. *)
EXTENDS AgentTurn, TLC

CONSTANTS a, b

OneChat  == {a}
TwoChats == {a, b}
==============================================================================
