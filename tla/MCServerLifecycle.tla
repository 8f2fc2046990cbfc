-------------------------- MODULE MCServerLifecycle --------------------------
(* Instances of ServerLifecycle for TLC.                                   *)
EXTENDS ServerLifecycle
CONSTANT m1
MCLaunches == {m1}
PortTaken == {"portTaken"}
NoFaults == {}
=============================================================================
