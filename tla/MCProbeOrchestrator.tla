---------------------------- MODULE MCProbeOrchestrator ----------------------------
(* Probers of one sub-component. *)
EXTENDS ProbeOrchestrator

CONSTANTS p1, p2, s1

OneSub  == [p \in Probers |-> s1]
================================================================================
