---- MODULE MCInterrupts ----
(* Interrupts with a counter that starts again at 0 every few ticks. *)
EXTENDS Interrupts
=============================
