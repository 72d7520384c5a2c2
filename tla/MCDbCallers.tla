---------------------------- MODULE MCDbCallers ----------------------------
(* DbCallers with small answers and results.                                *)
EXTENDS DbCallers

(* Nothing, one or two empty or short result sets.                          *)
SmallResultSets == {<< >>, << 0 >>, << 2 >>, << 1, 1 >>}
=============================================================================
