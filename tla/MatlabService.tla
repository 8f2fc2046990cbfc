---------------------------- MODULE MatlabService ----------------------------
(***************************************************************************)
(* What type Process of internal/matlab promises to the rest of the proxy: *)
(* a status that moves along a diagram, at most one MATLAB at a time, none *)
(* while the status is down, and a stop that ends there.  MatlabProcess    *)
(* implements it when Start and Stop are called one at a time and nothing  *)
(* goes wrong; ServerLifecycle is built on it.                             *)
(***************************************************************************)
CONSTANT Launches   \* identities of MATLAB processes

VARIABLES
  status,    \* down, starting, up, stopping
  running    \* the MATLAB processes that run

vars == <<status, running>>

Init == status = "down" /\ running = {}

\* A start is only begun when no MATLAB is left.
Begin ==
  /\ status = "down" /\ running = {}
  /\ status' = "starting"
  /\ UNCHANGED running

\* The process may still appear when a stop has already been asked for.
Spawn(l) ==
  /\ status \in {"starting", "stopping"} /\ running = {}
  /\ running' = {l}
  /\ UNCHANGED status

\* The answer to a ping may arrive when a stop has already been asked for.
BecomeUp ==
  /\ status \in {"starting", "stopping"}
  /\ status' = "up"
  /\ UNCHANGED running

Stop ==
  /\ status \in {"starting", "up"}
  /\ status' = "stopping"
  /\ UNCHANGED running

\* MATLAB exits, obeys, crashes or is killed.
End ==
  /\ running # {}
  /\ running' = {}
  /\ UNCHANGED status

\* The status becomes down only when MATLAB is gone.
Settle ==
  /\ status # "down" /\ running = {}
  /\ status' = "down"
  /\ UNCHANGED running

Next ==
  \/ Begin \/ BecomeUp \/ Stop \/ End \/ Settle
  \/ \E l \in Launches : Spawn(l)

\* A stop ends with the status down.
StopEndsDown == status = "stopping" ~> status = "down"

Spec == Init /\ [][Next]_vars /\ StopEndsDown
=============================================================================
