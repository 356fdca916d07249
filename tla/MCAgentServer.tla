--------------------------- MODULE MCAgentServer ---------------------------
(* TLC instances of AgentServer.                                           *)
EXTENDS AgentServer, TLC

CONSTANTS r1, r2, r3, u1

ThreeOfOneUser == [r \in Request |-> u1]

SameUserSymmetry == Permutations(Request)
============================================================================
