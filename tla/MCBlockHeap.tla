---------------------------- MODULE MCBlockHeap -----------------------------
(* Model checking of BlockHeap.                                            *)
EXTENDS BlockHeap
=============================================================================
