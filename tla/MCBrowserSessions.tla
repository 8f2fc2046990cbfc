------------------------ MODULE MCBrowserSessions ------------------------
(***************************************************************************)
(* Instance of BrowserSessions for TLC: two page loads compete for the     *)
(* session; the timeouts are as short as the assumptions allow.            *)
(***************************************************************************)
EXTENDS BrowserSessions

CONSTANTS t1, t2

TwoTabs == {t1, t2}
=============================================================================
