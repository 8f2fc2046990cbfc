--------------------------- MODULE TerminalDrawer ---------------------------
(***************************************************************************)
(* The terminal drawer of app.js, with the server's handlers of the        *)
(* WebSockets it opens (TerminalHandler).  A terminal is known by the      *)
(* socket it was made with.  Socket callbacks use the current terminal,    *)
(* whichever socket they are of.                                           *)
(*                                                                         *)
(* Of the terminal's size only this is kept: whether the PTY of the        *)
(* current terminal still has another size than the drawer (stale), and    *)
(* whether a resize message with the drawer's size is under way (resizing).*)
(***************************************************************************)
EXTENDS TerminalHandler, Naturals

CONSTANTS
  MaxResizes,   \* changes of the drawer's size
  None

ASSUME NoneAssumption == None \notin Sockets /\ MaxResizes \in Nat

VARIABLES
  termState,
  termSocket,  \* the current socket, terminal and fit addon
  observed,    \* ResizeObservers have a change of size to report
  stale, resizing, resizes

size       == <<observed, stale, resizing, resizes>>
drawerVars == <<termState, termSocket, size>>
vars       == <<drawerVars, handlerVars, client>>

TypeOK ==
  /\ HandlerTypeOK
  /\ termState \in {"closed", "open", "minimized"}
  /\ termSocket \in Sockets \cup {None}
  /\ termState = "closed" <=> termSocket = None
  /\ resizes \in 0..MaxResizes
  /\ {observed, stale, resizing} \subseteq BOOLEAN

Init ==
  /\ HandlerInit
  /\ termState = "closed" /\ termSocket = None
  /\ observed = FALSE
  /\ stale = FALSE /\ resizing = FALSE /\ resizes = 0

----------------------------------------------------------------------------
SocketOpen == termSocket # None /\ client[termSocket] = "open"

\* initTerminal, after setTermState("open").
InitTerminal(s) ==
  /\ client' = [client EXCEPT ![s] = "connecting"]
  /\ termSocket' = s
  /\ observed' = TRUE /\ stale' = TRUE /\ resizing' = FALSE
  /\ UNCHANGED resizes

\* destroyTerminal.  The ResizeObserver stays.
DestroyTerminal ==
  /\ client' = [s \in Sockets |-> IF s = termSocket THEN "closed" ELSE client[s]]
  /\ termSocket' = None
  /\ stale' = FALSE /\ resizing' = FALSE

\* Mutation of CloseButton: the drawer is hidden with its terminal.
CloseButtonHides ==
  /\ termState # "closed"
  /\ termState' = "closed"
  /\ UNCHANGED <<client, termSocket, size, handlerVars>>

CloseButton ==
  /\ termState # "closed"
  /\ termState' = "closed"
  /\ DestroyTerminal
  /\ UNCHANGED <<observed, resizes, handlerVars>>

\* toggleTerminal, by the button or with Ctrl+`; the minimize button does the
\* same to a drawer that is not closed.  Opening changes the container.
ToggleTerminal ==
  /\ \/ /\ termState = "closed"
        /\ termState' = "open"
        /\ \E s \in Sockets : client[s] = "unused"
        /\ InitTerminal(CHOOSE s \in Sockets : client[s] = "unused")
     \/ /\ termState = "minimized" /\ termState' = "open"
        /\ observed' = TRUE
        /\ UNCHANGED <<client, termSocket, stale, resizing, resizes>>
     \/ /\ termState = "open" /\ termState' = "minimized"
        /\ UNCHANGED <<client, termSocket, size>>
  /\ UNCHANGED handlerVars

\* The divider is dragged or the window resized: the observers will be told,
\* and a message under way carries the old size.  The end of a drag sends the
\* size as they do.
Resize ==
  /\ termState # "closed"
  /\ resizes < MaxResizes
  /\ resizes' = resizes + 1
  /\ observed' = TRUE /\ stale' = TRUE /\ resizing' = FALSE
  /\ UNCHANGED <<termState, termSocket, handlerVars, client>>

\* The ResizeObservers, one of every terminal since the page was loaded.
Observe ==
  /\ observed
  /\ observed' = FALSE
  /\ resizing' = (resizing \/ (termState = "open" /\ SocketOpen /\ stale))
  /\ UNCHANGED <<termState, termSocket, stale, resizes, handlerVars, client>>

\* Mutation of OnOpen: the initial size is not sent.
OnOpenQuiet(s) ==
  /\ client[s] = "connecting" /\ pc[s] # "idle"
  /\ client' = [client EXCEPT ![s] = "open"]
  /\ UNCHANGED <<drawerVars, handlerVars>>

\* The size sent is the drawer's, unless that is minimized now.
OnOpen(s) ==
  /\ client[s] = "connecting" /\ pc[s] # "idle"
  /\ client' = [client EXCEPT ![s] = "open"]
  /\ resizing' = (stale /\ termState = "open")
  /\ UNCHANGED <<termState, termSocket, observed, stale, resizes, handlerVars>>

\* The handler ended the connection, or it is lost, which the server may
\* notice later.  onclose writes into the current terminal, whoever's it is.
OnClose(s) ==
  /\ client[s] \in {"connecting", "open"}
  /\ client' = [client EXCEPT ![s] = "closed"]
  /\ UNCHANGED <<drawerVars, handlerVars>>

HandlerCloses(s) == pc[s] \in {"joining", "ended"} /\ OnClose(s)

\* The handler resizes the PTY.
ResizePTY ==
  /\ resizing /\ ~crashed
  /\ termSocket # None /\ input[termSocket] = "reading"
  /\ resizing' = FALSE /\ stale' = FALSE
  /\ UNCHANGED <<termState, termSocket, observed, resizes, handlerVars, client>>

\* The tab is closed or loaded again: its sockets end without callbacks.
Leave ==
  /\ termState' = "closed" /\ termSocket' = None
  /\ client' = [s \in Sockets |->
                 IF client[s] = "unused" THEN "unused" ELSE "closed"]
  /\ observed' = FALSE /\ stale' = FALSE /\ resizing' = FALSE
  /\ UNCHANGED <<resizes, handlerVars>>

Next ==
  \/ ToggleTerminal \/ CloseButton \/ Resize \/ Observe
  \/ ResizePTY \/ Leave
  \/ \E s \in Sockets : OnOpen(s) \/ OnClose(s)
  \/ \E s \in Sockets : HandlerNext(s) /\ UNCHANGED drawerVars

\* The browser delivers its events; the goroutines of the server run.
Fairness ==
  /\ WF_vars(Observe) /\ WF_vars(ResizePTY)
  /\ \A s \in Sockets :
       WF_vars(OnOpen(s)) /\ WF_vars(HandlerCloses(s)) /\ HandlerFairness(s)

Spec == Init /\ [][Next]_vars /\ Fairness

----------------------------------------------------------------------------
(* Properties.                                                             *)

\* "Closing the browser tab or clicking the close button terminates the shell
\* process" (docs/terminal.md:69), and so does a lost connection, whatever the
\* shell has started and whatever terminal was opened since (handler.go:74).
ShellEndsWithTerminal ==
  \A s \in Sockets :
    shell[s] = "running" /\ (s # termSocket \/ client[s] = "closed")
      ~> shell[s] = "dead"

\* When the shell has exited and nobody else has its PTY open, the handler
\* ends with both of its goroutines: none is left waiting for the other end
\* (handler.go:99).
HandlerEnds ==
  \A s \in Sockets :
    shell[s] = "dead" /\ s \notin jobs ~> pc[s] = "ended" \/ crashed

\* The shell of an open terminal comes to have the size of the drawer, also
\* when that changed while the socket was connecting or the drawer minimized
\* (app.js:579, 609).
SizeFollows ==
  termState = "open" /\ stale
    ~> ~stale \/ ~(termState = "open" /\ SocketOpen)
=============================================================================
