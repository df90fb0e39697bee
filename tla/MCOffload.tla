------------------------------ MODULE MCOffload ------------------------------
(***************************************************************************)
(* Offload for TLC: one or two clusters of a compute core and a DM core,   *)
(* with the two races of the start-up and of the operand pointers.         *)
(***************************************************************************)
EXTENDS Offload

=============================================================================
