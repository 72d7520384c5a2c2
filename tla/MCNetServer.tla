---------------------------- MODULE MCNetServer ----------------------------
(* NetServer with interchangeable workers.                                  *)
EXTENDS NetServer, TLC

WorkerSymmetry == Permutations(Workers)
=============================================================================
