---------------------------- MODULE MCHostRuntime ----------------------------
(***************************************************************************)
(* Four harts beside the host in registers of two bits: a wake-up touches   *)
(* one, two or three registers, skips one, and fills one entirely.          *)
(***************************************************************************)
EXTENDS HostRuntime

MCSelections == {<<2, 2, 1>>, <<1, 2, 3>>}
\* Of periods of 2 ns: less than one, and one that does not divide evenly.
MCIntervals == {1, 3}
=============================================================================
