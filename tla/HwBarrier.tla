------------------------------ MODULE HwBarrier ------------------------------
(***************************************************************************)
(* The cluster's hardware barrier, snitch_barrier.sv: a filter between the *)
(* cores' memory ports and the interconnect.  A load from the barrier      *)
(* register is held back (no q_ready to the core, no q_valid to the        *)
(* interconnect) until the ports of all cores hold such a load; then all   *)
(* of them go through, each when the interconnect takes it.  Any other     *)
(* request passes unchanged.                                               *)
(*                                                                         *)
(* A step is a core raising a request or an edge of the clock, at which    *)
(* the state registers of all ports are updated together.                  *)
(***************************************************************************)
EXTENDS Naturals

CONSTANTS
    Ports,          \* one memory port per core
    MaxLoads       \* how many times each core loads from the barrier register

ASSUME LoadsAssumption == MaxLoads \in Nat

VARIABLES
    state,          \* state_q
    req,            \* what each core requests: q_valid and the address, in one
    entered, left,  \* history: barrier loads raised and accepted, per port
    taken           \* history: how often take_barrier was high at a clock edge

port_vars == <<state, req, entered, left, taken>>

States   == {"Idle", "Wait", "Take"}
Requests == {"none", "barrier", "other"}

PortInit ==
    /\ state = [i \in Ports |-> "Idle"]
    /\ req = [i \in Ports |-> "none"]
    /\ entered = [i \in Ports |-> 0]
    /\ left = [i \in Ports |-> 0]
    /\ taken = 0

\* A core raises q_valid; it then holds the request until it is accepted.
RaiseBarrier(i) ==
    /\ req[i] = "none"
    /\ entered[i] < MaxLoads
    /\ req' = [req EXCEPT ![i] = "barrier"]
    /\ entered' = [entered EXCEPT ![i] = @ + 1]
    /\ UNCHANGED <<state, left, taken>>

RaiseOther(i) ==
    /\ req[i] = "none"
    /\ req' = [req EXCEPT ![i] = "other"]
    /\ UNCHANGED <<state, entered, left, taken>>

-----------------------------------------------------------------------------
\* Plausible mistakes in the code, to show that the properties notice them.

\* take_barrier = |is_barrier
TakeBarrierAny == \E i \in Ports : state[i] = "Wait"
-----------------------------------------------------------------------------

\* take_barrier = &is_barrier
TakeBarrier == \A i \in Ports : state[i] = "Wait"

-----------------------------------------------------------------------------
\* More of them.

\* A port leaves Take when nobody is held back any more.
NextStateTogether(i, accepted) ==
    CASE state[i] = "Idle" -> IF req[i] = "barrier" THEN "Wait" ELSE "Idle"
      [] state[i] = "Wait" -> IF TakeBarrier THEN "Take" ELSE "Wait"
      [] state[i] = "Take" -> IF \A j \in Ports : req[j] # "barrier"
                                THEN "Idle" ELSE "Take"

\* Every request of a port is held back while some port waits.
HeldBackAll(i) ==
    \/ \E j \in Ports : state[j] = "Wait"
    \/ state[i] = "Idle" /\ req[i] = "barrier"
-----------------------------------------------------------------------------

\* The request of port i is neither shown to the interconnect nor accepted.
HeldBack(i) == state[i] = "Wait" \/ (state[i] = "Idle" /\ req[i] = "barrier")

\* state_d, given whether the request of the port is accepted at this edge
NextState(i, accepted) ==
    CASE state[i] = "Idle" -> IF req[i] = "barrier" THEN "Wait" ELSE "Idle"
      [] state[i] = "Wait" -> IF TakeBarrier THEN "Take" ELSE "Wait"
      [] state[i] = "Take" -> IF accepted THEN "Idle" ELSE "Take"

\* The edge of the clock, with q_ready of the interconnect at the ports in R.
Clock(R) ==
    LET Accepted(i) == i \in R /\ req[i] # "none" /\ ~HeldBack(i)
    IN  /\ state' = [i \in Ports |-> NextState(i, Accepted(i))]
        /\ req' = [i \in Ports |-> IF Accepted(i) THEN "none" ELSE req[i]]
        /\ left' = [i \in Ports |-> IF Accepted(i) /\ req[i] = "barrier"
                                      THEN left[i] + 1 ELSE left[i]]
        /\ taken' = IF TakeBarrier THEN taken + 1 ELSE taken
        /\ UNCHANGED entered

PortNext ==
    \/ \E i \in Ports : RaiseBarrier(i) \/ RaiseOther(i)
    \/ \E R \in SUBSET Ports : Clock(R)

\* The clock runs, and the interconnect does not ignore a port forever.
PortSpec ==
    /\ PortInit /\ [][PortNext]_port_vars
    /\ \A i \in Ports : WF_port_vars(\E R \in SUBSET Ports : i \in R /\ Clock(R))

-----------------------------------------------------------------------------
PortTypeOK ==
    /\ state \in [Ports -> States]
    /\ req \in [Ports -> Requests]
    /\ entered \in [Ports -> Nat]
    /\ left \in [Ports -> Nat]
    /\ taken \in Nat

\* How far each port is, relative to the rounds taken so far: a port that has
\* been let through and already waits in the next round cannot be confused
\* with one that is still to go through in this round.
PortProgress ==
    \A i \in Ports :
        /\ state[i] = "Idle" =>
              /\ left[i] = taken
              /\ entered[i] = IF req[i] = "barrier" THEN taken + 1 ELSE taken
        /\ state[i] = "Wait" =>
              /\ req[i] = "barrier"
              /\ left[i] = taken /\ entered[i] = taken + 1
        /\ state[i] = "Take" =>
              /\ req[i] = "barrier"
              /\ left[i] + 1 = taken /\ entered[i] = taken

\* The inductive invariant.
PortIInv == PortTypeOK /\ PortProgress

\* No load from the barrier register goes through before the cores of all
\* ports have raised as many (snitch_barrier.sv:42, 62-70).
NoEarlyExit == \A i, j \in Ports : left[i] <= entered[j]

\* The hardware barrier is what AbstractBarrier says a barrier is.
Abstract == INSTANCE AbstractBarrier WITH Parties <- Ports, MaxRounds <- MaxLoads
ImplementsBarrier == Abstract!Spec

\* A request for anything else gets through, whatever the other ports do.
OthersPass == \A i \in Ports : req[i] = "other" ~> req[i] # "other"

=============================================================================
