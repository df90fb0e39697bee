----------------------------- MODULE MCHwBarrier -----------------------------
(***************************************************************************)
(* HwBarrier for TLC: three ports, four rounds.                            *)
(***************************************************************************)
EXTENDS HwBarrier

=============================================================================
