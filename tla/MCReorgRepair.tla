---------------------------- MODULE MCReorgRepair ----------------------------
(* The follow indexer with its history, for TLC. *)
EXTENDS ReorgRepair
=============================================================================
