----------------------------- MODULE MCFrontEnd -----------------------------
(* An instance of FrontEnd for TLC.                                        *)
EXTENDS FrontEnd

\* The page is loaded while MATLAB is down, and no page is the active one.
MCFirstWorlds ==
  { [matlab |-> "down", licensed |-> TRUE, isActiveClient |-> FALSE] }
=============================================================================
