---------------------------- MODULE MCGameServer ----------------------------
(* GameServer on the scaled-down sizes of MCSession, with interchangeable   *)
(* clients where no liveness is checked.                                    *)
EXTENDS GameServer, TLC

ClientSymmetry == Permutations(Clients)
==============================================================================
