------------------------------ MODULE MCTuiApp ------------------------------
(* TuiApp with two transactions on a page and a total of two pages. *)
EXTENDS TuiApp
=============================================================================
