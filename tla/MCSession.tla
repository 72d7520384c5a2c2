----------------------------- MODULE MCSession -----------------------------
(* Session on the sizes of a scaled-down buffer: 4 stands for the 1000 byte *)
(* threshold, 6 for the largest message; 2 is a message that batches, 5 one *)
(* that reaches the threshold alone, 7 one that is too large.               *)
EXTENDS Session
=============================================================================
