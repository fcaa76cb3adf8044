----------------------------- MODULE MCPageScan -----------------------------
(* Model checking of PageScan, and the plausible mistakes in it.           *)
EXTENDS PageScan

=============================================================================
