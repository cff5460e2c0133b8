-------------------------------- MODULE MCFdb -------------------------------
(***************************************************************************)
(* A small instance of Fdb: the stations share ports and vSwitches.        *)
(***************************************************************************)
EXTENDS Fdb
=============================================================================
