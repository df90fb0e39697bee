------------------------------- MODULE MCMutex -------------------------------
(***************************************************************************)
(* Mutex for TLC: three harts that each take the lock three times, either  *)
(* way.                                                                    *)
(***************************************************************************)
EXTENDS Mutex

=============================================================================
