------------------------------ MODULE MCIndexer ------------------------------
(* The follow indexer for TLC: the .cfg files bound the chain and the faults. *)
EXTENDS Indexer
=============================================================================
