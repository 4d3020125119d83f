------------------------------ MODULE MCForkScan ------------------------------
(* The reorg scan for TLC: the window widens from 1 row to 4, then to all. *)
EXTENDS ForkScan
=============================================================================
