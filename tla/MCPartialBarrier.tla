-------------------------- MODULE MCPartialBarrier --------------------------
(***************************************************************************)
(* PartialBarrier for TLC: three harts, words of four values, so that      *)
(* iteration wraps around within the calls each hart makes.                *)
(***************************************************************************)
EXTENDS PartialBarrier

=============================================================================
