-------------------------- MODULE MCTerminalDrawer --------------------------
(* An instance of TerminalDrawer for TLC.                                  *)
EXTENDS TerminalDrawer
CONSTANTS s1, s2
MCSockets == {s1, s2}
=============================================================================
