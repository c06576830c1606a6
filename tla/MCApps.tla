------------------------------- MODULE MCApps -------------------------------
(***************************************************************************)
(* A small server: two apps and two requests at a time, or one request and *)
(* faults.                                                                 *)
(***************************************************************************)
EXTENDS AppsApi, TLC

\* History: has a call failed, a handler died, or another clone pushed?
VARIABLE faulted

\* The bound: where there are faults, requests come one after the other.
MCInit == Init /\ faulted = FALSE
MCNext ==
    /\ \/ ServerStep /\ UNCHANGED faulted
       \/ FaultStep /\ faulted' = TRUE
    /\ faulted' => mixed' = {}

MCSpec == MCInit /\ [][MCNext]_<<vars, faulted>>

Symmetry == Permutations(Apps) \cup Permutations(Handlers)
=============================================================================
