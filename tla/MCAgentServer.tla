--------------------------- MODULE MCAgentServer ---------------------------
(* AgentServer with interchangeable clients.                                *)
EXTENDS AgentServer, TLC

ClientSymmetry == Permutations(Clients)
=============================================================================
