---------------------------- MODULE MCServerMain ---------------------------
(* ServerMain on the instance of the configuration; its workers are model   *)
(* values.                                                                  *)
EXTENDS ServerMain
=============================================================================
