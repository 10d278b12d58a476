---------------------------- MODULE MCInterrupts ----------------------------
(***************************************************************************)
(* Interrupts for TLC: up to three handlers on the stack (two ticks and a  *)
(* spurious interrupt in any order) and a page fault on top of them.       *)
(***************************************************************************)
EXTENDS Interrupts
=============================================================================
