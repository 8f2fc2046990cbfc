----------------------------- MODULE MCLicensing -----------------------------
(***************************************************************************)
(* Instances of Licensing for TLC.  One identity has a single entitlement, *)
(* the other one several.                                                  *)
(***************************************************************************)
EXTENDS Licensing

CONSTANTS h1, h2, single, multiple, c1

OneHandler == {h1}
TwoHandlers == {h1, h2}
BothIdentities == {single, multiple}
HasSeveral == {multiple}
OneIdentity == {single}
OneConn == {c1}
AllPresets == {None, Existing, c1}
NoPreset == {None}
AllFaults == {"network", "disk"}
NoFaults == {}
=============================================================================
