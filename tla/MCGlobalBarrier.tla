--------------------------- MODULE MCGlobalBarrier ---------------------------
(***************************************************************************)
(* GlobalBarrier for TLC: two clusters of two compute cores and a DM core. *)
(***************************************************************************)
EXTENDS GlobalBarrier

\* "Synchronize clusters globally with a global software barrier"
\* (sync.h:67): no core returns before every core has made the call.  Does not
\* hold; see the README.
GlobalSync == \A x, y \in AllCores : hw_out[x] <= Calls(y)

=============================================================================
