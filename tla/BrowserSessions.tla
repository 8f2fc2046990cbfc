-------------------------- MODULE BrowserSessions --------------------------
(***************************************************************************)
(* Browser tabs sharing one proxy: the polling part of                     *)
(* internal/server/static/js/app.js, the handlers handleIndex,             *)
(* handleGetStatus and handleClearClientID of internal/server/server.go,   *)
(* and the session manager they call.                                      *)
(*                                                                         *)
(* Requests and responses travel on connections of their own and overtake  *)
(* one another; up to MaxLosses of them fail.  Everything sent within a    *)
(* second is dealt with in that second: timers, network and goroutines are *)
(* fast on the scale of the poll interval.  MATLAB is up throughout.       *)
(***************************************************************************)
EXTENDS SessionManager, FiniteSets

CONSTANT MaxLosses   \* bound on the calls of fetch that fail

\* The code's timeouts, ten seconds and a multiple of sixty, outlast a few
\* lost polls; each makes a tab skip a second.  Of the idle timeout two more
\* seconds are needed, for a reset taken just before a tick and the next one
\* just after the following tick.
ASSUME LossesAssumption ==
  /\ MaxLosses \in Nat
  /\ ActiveClientTimeout > MaxLosses
  /\ IdleTimeout > MaxLosses + 2

VARIABLES
  tab,        \* the tab of each client ID
  frame,      \* tabs that show the MATLAB iframe
  dialog,     \* tabs that show one of the two concurrency dialogs
  due,        \* tabs whose poll timer has fired
  clicked,    \* tabs whose user asked for the session in this second
  requests,   \* requests on their way to the proxy
  responses,  \* status responses on their way back
  losses

pages    == <<tab, frame, dialog, due, clicked>>
messages == <<requests, responses, losses>>
vars     == <<ownership, idleTimer, pages, messages>>

Kinds == {"poll", "transfer", "clear"}
Requests == [client : Clients, kind : Kinds]
Responses == [client : Clients, isActiveClient : BOOLEAN]
Request(c, kind) == [client |-> c, kind |-> kind]

\* A tab is new until a second has passed since it was opened.
TabStates == {"unopened", "new", "open", "gone"}
Open(c) == tab[c] \in {"new", "open"}

TypeOK ==
  /\ ManagerTypeOK
  /\ tab \in [Clients -> TabStates]
  /\ frame \subseteq Clients
  /\ dialog \subseteq Clients
  /\ due \subseteq Clients
  /\ clicked \subseteq Clients
  /\ requests \subseteq Requests
  /\ responses \subseteq Responses
  /\ losses \in 0..MaxLosses

Init ==
  /\ ManagerInit
  /\ tab = [c \in Clients |-> "unopened"]
  /\ frame = {} /\ dialog = {} /\ due = {} /\ clicked = {}
  /\ requests = {} /\ responses = {} /\ losses = 0

----------------------------------------------------------------------------
(* The tabs.                                                               *)

\* The page is loaded (handleIndex) and startApp polls for the first time.
OpenTab(c) ==
  /\ tab[c] = "unopened"
  /\ ~shutdown
  /\ ResetIdleTimer
  /\ tab' = [tab EXCEPT ![c] = "new"]
  /\ requests' = requests \cup {Request(c, "poll")}
  /\ UNCHANGED <<ownership, frame, dialog, due, clicked, responses, losses>>

\* pollStatus, once a second.
PollStatus(c) ==
  /\ c \in due
  /\ due' = due \ {c}
  /\ requests' = requests \cup {Request(c, "poll")}
  /\ UNCHANGED <<ownership, idleTimer, tab, frame, dialog, clicked, responses,
                 losses>>

\* transferSession: the user asks for the session.
TransferSession(c) ==
  /\ c \in dialog \ clicked
  /\ clicked' = clicked \cup {c}
  /\ requests' = requests \cup {Request(c, "transfer")}
  /\ UNCHANGED <<ownership, idleTimer, tab, frame, dialog, due, responses,
                 losses>>

\* dismissConcurrentDialog: the user cancels.
DismissDialog(c) ==
  /\ c \in dialog
  /\ dialog' = dialog \ {c}
  /\ UNCHANGED <<ownership, idleTimer, tab, frame, due, clicked, messages>>

\* The tab is closed, with its beacon, or the browser dies without one.
\* Requests already sent may still arrive, before or after the beacon.
CloseTab(c, beacon) ==
  /\ Open(c)
  /\ tab' = [tab EXCEPT ![c] = "gone"]
  /\ frame' = frame \ {c} /\ dialog' = dialog \ {c}
  /\ due' = due \ {c} /\ clicked' = clicked \ {c}
  /\ requests' = IF beacon THEN requests \cup {Request(c, "clear")}
                           ELSE requests
  /\ responses' = {m \in responses : m.client # c}
  /\ UNCHANGED <<ownership, idleTimer, losses>>

\* Mutation of UpdateUI: the iframe is left where it is.
UpdateUIKeepsFrame(m) ==
  /\ responses' = responses \ {m}
  /\ IF m.isActiveClient
       THEN frame' = frame \cup {m.client} /\ dialog' = dialog \ {m.client}
       ELSE frame' = frame /\ dialog' = dialog \cup {m.client}
  /\ UNCHANGED <<ownership, idleTimer, tab, due, clicked, requests, losses>>

\* updateUI, with the answer to a poll or a transfer, in the order in which
\* the answers arrive.
UpdateUI(m) ==
  /\ responses' = responses \ {m}
  /\ IF m.isActiveClient
       THEN frame' = frame \cup {m.client} /\ dialog' = dialog \ {m.client}
       ELSE frame' = frame \ {m.client} /\ dialog' = dialog \cup {m.client}
  /\ UNCHANGED <<ownership, idleTimer, tab, due, clicked, requests, losses>>

----------------------------------------------------------------------------
(* The handlers.                                                           *)

HandleGetStatus(m) ==
  LET transfer == m.kind = "transfer" IN
  /\ m.kind \in {"poll", "transfer"}
  /\ ~shutdown
  /\ requests' = requests \ {m}
  /\ ResetIdleTimer
  /\ SetActiveClient(m.client, transfer)
  /\ responses' = IF Open(m.client)
                    THEN responses \cup
                           {[client |-> m.client,
                             isActiveClient |-> IsActive(m.client, transfer)]}
                    ELSE responses
  /\ UNCHANGED <<pages, losses>>

HandleClearClientID(m) ==
  /\ m.kind = "clear"
  /\ ~shutdown
  /\ requests' = requests \ {m}
  /\ ClearClient(m.client)
  /\ UNCHANGED <<idleTimer, pages, responses, losses>>

\* fetch fails: always when the server is shut down.
LoseRequest(m) ==
  /\ requests' = requests \ {m}
  /\ IF shutdown
       THEN UNCHANGED losses
       ELSE losses < MaxLosses /\ losses' = losses + 1
  /\ UNCHANGED <<ownership, idleTimer, pages, responses>>

LoseResponse(m) ==
  /\ losses < MaxLosses
  /\ losses' = losses + 1
  /\ responses' = responses \ {m}
  /\ UNCHANGED <<ownership, idleTimer, pages, requests>>

----------------------------------------------------------------------------

TimerStep == (TimerReset \/ TimerTick) /\ UNCHANGED <<pages, messages>>

\* One second passes, and the timers of all open tabs fire.
Second ==
  /\ due = {} /\ requests = {} /\ responses = {}
  /\ shutdown \/ ~(ticked \/ resetIdle)
  /\ ManagerSecond
  /\ tab' = [c \in Clients |-> IF tab[c] = "new" THEN "open" ELSE tab[c]]
  /\ due' = {c \in Clients : Open(c)}
  /\ clicked' = {}
  /\ UNCHANGED <<frame, dialog, messages>>

TabStep(c) ==
  \/ OpenTab(c)
  \/ TransferSession(c) \/ DismissDialog(c)
  \/ \E beacon \in BOOLEAN : CloseTab(c, beacon)

Served ==
  \/ \E m \in requests : HandleGetStatus(m) \/ HandleClearClientID(m)
                         \/ LoseRequest(m)
  \/ \E m \in responses : UpdateUI(m) \/ LoseResponse(m)

Next ==
  \/ \E c \in Clients : TabStep(c) \/ PollStatus(c)
  \/ Served
  \/ TimerStep
  \/ Second

Spec == Init /\ [][Next]_vars

\* The browser's timers, the network, the idle timer and time go on.  Users
\* are free to open and close tabs, to move the session or not.
Fairness ==
  /\ \A c \in Clients : WF_vars(PollStatus(c))
  /\ WF_vars(Served)
  /\ WF_vars(TimerStep)
  /\ WF_vars(Second)

LiveSpec == Spec /\ Fairness

----------------------------------------------------------------------------
(* Properties.                                                             *)

\* An open tab keeps the session: it loses it only to a user who asked for
\* it, never to another tab's poll or to a beacon, although beacons, polls
\* and transfers overtake one another and a poll may be lost.
OwnerKept ==
  [][\A c \in Clients :
       /\ activeClientID = c /\ Open(c)
       /\ activeClientID' # c
       => Request(activeClientID', "transfer") \in requests]_vars

\* A page that polls keeps the server alive: the idle shutdown never comes
\* while a tab has been open for a second, whichever of a waiting tick and a
\* waiting reset the timer takes first.
OpenTabKeepsServer ==
  [][~shutdown /\ shutdown' => \A c \in Clients : tab[c] # "open"]_vars

\* A tab that lost the session takes its MATLAB window down, unless it gets
\* the session back: the connector does not support two viewers.
FrameFollowsOwner ==
  \A c \in Clients :
    c \in frame /\ activeClientID # c
      ~> c \notin frame \/ activeClientID = c \/ shutdown

\* A closed tab does not keep the session from the open ones, even when its
\* last poll was handled after its beacon, or no beacon was sent.
SessionReleased ==
  \A c \in Clients :
    tab[c] = "gone" /\ activeClientID = c
      ~> activeClientID # c \/ shutdown \/ \A d \in Clients : ~Open(d)

\* A server that everybody has left shuts down.
IdleServerStops == (\A c \in Clients : tab[c] = "gone") ~> shutdown

=============================================================================
