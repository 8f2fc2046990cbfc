-------------------------- MODULE MCMatlabProcess --------------------------
(***************************************************************************)
(* Instances of MatlabProcess for TLC.  One caller stands for calls made   *)
(* one at a time, two for concurrent ones.                                 *)
(***************************************************************************)
EXTENDS MatlabProcess

CONSTANTS c1, c2

OneCaller == {c1}
TwoCallers == {c1, c2}

NoFaults == {}
AllFaults == FaultKinds
ScheduledFaults == FaultKinds \ {"lateSpawn"}
SlowStart == {"startTimeout"}
=============================================================================
