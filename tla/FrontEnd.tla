------------------------------ MODULE FrontEnd ------------------------------
(***************************************************************************)
(* One page of internal/server/static/js/app.js, from its loading to the   *)
(* end of the proxy: the authentication gate, the overlay with its panels  *)
(* and dialogs, the buttons, the embedded login and the status polls that  *)
(* redraw all of them.                                                     *)
(*                                                                         *)
(* world is what the proxy would answer this page's poll now.  It is       *)
(* changed by the page's requests, by MATLAB and by other pages.  A status *)
(* request is sent and handled in one step; its answer, a copy of world,   *)
(* is applied later, in any order with other answers.                      *)
(***************************************************************************)
EXTENDS Naturals, FiniteSets

CONSTANTS
  MaxPolls,    \* status answers under way
  MaxChecks,   \* token checks under way
  MaxGranted,  \* accepted licensing requests under way
  FirstWorlds, \* what the proxy may be like when it renders the page
  None

ASSUME BoundsAssumption == {MaxPolls, MaxChecks, MaxGranted} \subseteq Nat \ {0}

Statuses == {"down", "starting", "up", "stopping"}
Tokens == {"good", "bad", "empty"}
Concurrency == {"concurrent-session", "session-transferred"}
Templates == {"status-panel", "licensing-panel", "confirm", "auth"}
               \cup Concurrency
Destructive == {"restart", "stop", "removeLicense", "shutdown"}

ASSUME NoneAssumption == None \notin Statuses \cup Templates \cup Destructive

Snapshots == [matlab : Statuses, licensed : BOOLEAN, isActiveClient : BOOLEAN]

ASSUME WorldsAssumption == FirstWorlds \subseteq Snapshots

\* The content of the overlay: of a status panel its status and whether it
\* offers to configure a license, of a confirmation what it asks about.
Bodies ==
  {b \in [tmpl : Templates \cup {None}, matlab : Statuses \cup {None},
          licensed : BOOLEAN, asks : Destructive \cup {None}] :
     b.tmpl = "confirm" => b.asks # None}
Plain(tmpl) ==
  [tmpl |-> tmpl, matlab |-> None, licensed |-> FALSE, asks |-> None]
Panel(m) ==
  [tmpl |-> "status-panel", matlab |-> m.matlab, licensed |-> m.licensed,
   asks |-> None]
Confirm(what) == [Plain("confirm") EXCEPT !.asks = what]

VARIABLES
  world,      \* the state of the proxy, seen from this page
  cookie,     \* the browser holds a valid session cookie
  answers,    \* answers to status requests, not applied yet
  granted,    \* accepted licensing requests whose answer is under way
  checks,     \* how many checks of each token are under way
  phase,      \* of the page: loading, gate, running, over
  starts,     \* calls of startApp: poll timers, and listeners of each kind
  rendered,   \* the status panel as the server rendered it into the page
  body,       \* what the overlay shows; nothing when it is hidden
  currentOverlay,
  login,      \* the login iframe of a visible licensing panel
  frame,      \* the MATLAB iframe is there
  wasUp,      \* previousStatus is "up"
  wasEverActive

network == <<answers, granted, checks>>
auth    == <<phase, starts, rendered>>
overlay == <<body, currentOverlay, login>>
view    == <<frame, wasUp, wasEverActive>>
vars    == <<world, cookie, network, auth, overlay, view>>

Phases == {"loading", "gate", "running", "over"}
LoginStates == {"none", "loading", "init", "form"}

TypeOK ==
  /\ world \in Snapshots /\ cookie \in BOOLEAN
  /\ answers \subseteq Snapshots
  /\ granted \in 0..MaxGranted
  /\ checks \in [Tokens -> 0..MaxChecks]
  /\ phase \in Phases /\ starts \in 0..MaxChecks
  /\ rendered \in Bodies
  /\ body \in Bodies
  /\ currentOverlay \in Templates \cup {None}
  /\ frame \in BOOLEAN
  /\ wasUp \in BOOLEAN /\ wasEverActive \in BOOLEAN
  /\ login \in LoginStates

\* The page is loaded and runs init: with a token in its address, a cookie,
\* both or neither; a good token has made handleIndex set the cookie.
Init ==
  /\ world \in FirstWorlds
  /\ rendered = Panel(world)
  /\ answers = {} /\ granted = 0
  /\ body = Plain(None) /\ currentOverlay = None
  /\ frame = FALSE /\ wasUp = FALSE /\ wasEverActive = FALSE
  /\ login = "none"
  /\ \/ \E t \in Tokens :
          /\ cookie \in IF t = "good" THEN {TRUE} ELSE BOOLEAN
          /\ checks = [u \in Tokens |-> IF u = t THEN 1 ELSE 0]
          /\ phase = "loading" /\ starts = 0
     \/ /\ cookie = TRUE   \* authentication is disabled
        /\ checks = [u \in Tokens |-> 0]
        /\ phase = "running" /\ starts = 1

----------------------------------------------------------------------------
(* The overlay.                                                            *)

ShowOverlay(b) ==
  /\ body' = b
  /\ currentOverlay' = b.tmpl
  /\ login' = IF b.tmpl = "licensing-panel" THEN "loading" ELSE "none"

\* What is hidden is never uncovered, only replaced.  The message of a
\* hidden login iframe is left out: it could as well have come before.
HideOverlay ==
  /\ body' = Plain(None)
  /\ currentOverlay' = None
  /\ login' = "none"

\* The panel is the server's template, whatever has been polled since.
ShowStatusPanel == ShowOverlay(rendered)

Visible(tmpl) == body.tmpl = tmpl
Hidden == Visible(None)

\* Mutation of MayClose: the authentication screen is forgotten.
MayCloseAuth == currentOverlay \notin Concurrency

\* closeOverlay: not for the dialogs that need an answer.
MayClose == currentOverlay \notin Concurrency \cup {"auth"}
CloseOverlay == IF MayClose THEN HideOverlay ELSE UNCHANGED overlay

\* A click on the backdrop.
ClickBackdrop ==
  /\ ~Hidden
  /\ CloseOverlay
  /\ UNCHANGED <<world, cookie, network, auth, view>>

\* Hiding the overlay so does not change currentOverlay.
TogglePanel ==
  IF Hidden THEN ShowStatusPanel
            ELSE /\ body' = Plain(None) /\ login' = "none"
                 /\ UNCHANGED currentOverlay

\* A click on the trigger reaches the listeners of every startApp: two of
\* them undo each other, but leave the status panel behind.
TogglePanelTwice ==
  /\ body' = IF Hidden THEN body ELSE rendered
  /\ currentOverlay' = "status-panel"
  /\ login' = "none"

ClickTrigger ==
  /\ phase = "running"
  /\ IF starts % 2 = 1 THEN TogglePanel ELSE TogglePanelTwice
  /\ UNCHANGED <<world, cookie, network, auth, view>>

----------------------------------------------------------------------------
(* Authentication.                                                         *)

\* The server looks at the cookie first, then at the token.
Accepts(token) == cookie \/ token = "good"

\* It begins by removing an iframe of the page.
StartApp ==
  /\ phase' = "running"
  /\ starts' = starts + 1
  /\ frame' = FALSE
  /\ UNCHANGED <<rendered, wasUp, wasEverActive>>

ShowAuthScreen ==
  /\ phase' = "gate"
  /\ ShowOverlay(Plain("auth"))
  /\ UNCHANGED <<starts, rendered, view>>

\* checkAuth is answered, or its request or its answer is lost.
CheckAuth(t, valid) ==
  /\ checks[t] > 0
  /\ checks' = [checks EXCEPT ![t] = @ - 1]
  /\ valid => Accepts(t)
  /\ cookie' \in {cookie \/ valid, cookie \/ Accepts(t)}

\* The check of init.
InitChecked(t) ==
  /\ phase = "loading"
  /\ \/ CheckAuth(t, TRUE) /\ StartApp /\ UNCHANGED overlay
     \/ CheckAuth(t, FALSE) /\ ShowAuthScreen
  /\ UNCHANGED <<world, answers, granted>>

\* submitAuthToken, which may be called again before it is answered.
SubmitAuthToken(t) ==
  /\ phase = "gate" /\ Visible("auth")
  /\ t # "empty"
  /\ checks["good"] + checks["bad"] + checks["empty"] < MaxChecks
  /\ checks' = [checks EXCEPT ![t] = @ + 1]
  /\ UNCHANGED <<world, cookie, answers, granted, auth, overlay, view>>

\* The answer to a submitted token.  The first valid one starts the page,
\* and so does every later one.
SubmitChecked(t) ==
  /\ phase \notin {"loading", "over"}
  /\ \/ CheckAuth(t, TRUE) /\ HideOverlay /\ StartApp
     \/ CheckAuth(t, FALSE) /\ UNCHANGED <<auth, overlay, view>>
  /\ UNCHANGED <<world, answers, granted>>

----------------------------------------------------------------------------
(* The status polls.                                                       *)

\* A poll is answered.  It makes this page the active one when there is none.
PollStatus ==
  /\ starts > 0
  /\ \E active \in {TRUE, world.isActiveClient} :
       world' = [world EXCEPT !.isActiveClient = active]
  /\ Cardinality(answers) < MaxPolls
  /\ answers' = answers \cup {world'}
  /\ UNCHANGED <<cookie, granted, checks, auth, overlay, view>>

\* Mutation of ConcurrencyDialog: an open panel keeps its place.
ConcurrencyDialogQuiet ==
  IF currentOverlay = None
    THEN ShowOverlay(Plain("session-transferred"))
    ELSE UNCHANGED overlay

ConcurrencyDialog ==
  ShowOverlay(Plain(IF wasEverActive THEN "session-transferred"
                                     ELSE "concurrent-session"))

\* updateUI of a page that is not the active one.
UpdateInactive(m) ==
  /\ ~m.isActiveClient
  /\ frame' = FALSE
  /\ IF currentOverlay # "auth" THEN ConcurrencyDialog ELSE UNCHANGED overlay
  /\ UNCHANGED wasEverActive

\* The overlay closes when MATLAB came up, or the page got the session back.
ClosedBy(m) ==
  \/ currentOverlay \in Concurrency
  \/ /\ currentOverlay \in {"status-panel", "licensing-panel"}
     /\ m.matlab = "up" /\ ~wasUp

\* Mutation of UpdateActive: the panel is redrawn when the status changed.
UpdateActiveOnChange(m) ==
  /\ m.isActiveClient
  /\ wasEverActive' = TRUE
  /\ frame' = (m.matlab = "up")
  /\ CASE ClosedBy(m) -> HideOverlay
       [] ~ClosedBy(m) /\ ~Hidden /\ currentOverlay = "status-panel"
            /\ wasUp # (m.matlab = "up") ->
            body' = Panel(m) /\ UNCHANGED <<currentOverlay, login>>
       [] OTHER -> UNCHANGED overlay

\* updateUI of the active page, with updateStatusPanelContent.
UpdateActive(m) ==
  /\ m.isActiveClient
  /\ wasEverActive' = TRUE
  /\ frame' = (m.matlab = "up")
  /\ CASE ClosedBy(m) -> HideOverlay
       [] ~ClosedBy(m) /\ ~Hidden /\ currentOverlay = "status-panel" ->
            body' = Panel(m) /\ UNCHANGED <<currentOverlay, login>>
       [] OTHER -> UNCHANGED overlay

\* Once the page has been replaced updateUI finds no element and throws.
UpdateUI(m) ==
  /\ m \in answers
  /\ answers' = answers \ {m}
  /\ IF phase = "over" THEN UNCHANGED <<overlay, view>>
     ELSE /\ UpdateInactive(m) \/ UpdateActive(m)
          /\ wasUp' = (m.matlab = "up")
  /\ UNCHANGED <<world, cookie, granted, checks, auth>>

----------------------------------------------------------------------------
(* The buttons, and the requests they make.  A request has its effect on   *)
(* the proxy at once, or fails.                                            *)

Starting(w) == IF w.licensed THEN [w EXCEPT !.matlab = "starting"] ELSE w
Ending(w) ==
  IF w.matlab = "down" THEN w ELSE [w EXCEPT !.matlab = "stopping"]

Effect(what, w) ==
  CASE what = "restart"       -> Starting(w)
    [] what = "stop"          -> Ending(w)
    [] what = "removeLicense" -> [Ending(w) EXCEPT !.licensed = FALSE]
    [] what = "shutdown"      -> Ending(w)

Buttons ==
  IF ~body.licensed THEN {"configure", "shutdown"}
  ELSE {"configure", "removeLicense", "shutdown"}
         \cup CASE body.matlab = "down"     -> {"start"}
                [] body.matlab = "up"       -> {"restart", "stop"}
                [] body.matlab = "stopping" -> {"restart"}
                [] OTHER                    -> {}

Offers(button) ==
  phase = "running" /\ Visible("status-panel") /\ button \in Buttons

StartMatlab ==
  /\ Offers("start")
  /\ world' \in {world, Starting(world)}
  /\ CloseOverlay
  /\ UNCHANGED <<cookie, network, auth, view>>

\* restartMatlab, stopMatlab, removeLicense, confirmShutdown.
AskConfirmation(what) ==
  /\ Offers(what)
  /\ ShowOverlay(Confirm(what))
  /\ UNCHANGED <<world, cookie, network, auth, view>>

\* After a shutdown the page is replaced by a message.  It goes on polling.
ConfirmYes ==
  /\ phase = "running" /\ Visible("confirm")
  /\ world' \in {world, Effect(body.asks, world)}
  /\ IF body.asks = "shutdown"
       THEN /\ phase' = "over" /\ frame' = FALSE
            /\ body' = Plain(None) /\ login' = "none"
            /\ UNCHANGED <<currentOverlay, starts, rendered, wasUp,
                           wasEverActive>>
       ELSE ShowStatusPanel /\ UNCHANGED <<auth, view>>
  /\ UNCHANGED <<cookie, network>>

ShowLicensing ==
  /\ Offers("configure")
  /\ ShowOverlay(Plain("licensing-panel"))
  /\ UNCHANGED <<world, cookie, network, auth, view>>

\* Cancel of a confirmation, Back of the licensing panel.
Back ==
  /\ phase = "running"
  /\ Visible("confirm") \/ Visible("licensing-panel")
  /\ ShowStatusPanel
  /\ UNCHANGED <<world, cookie, network, auth, view>>

\* setLicensing, called n times at once: every accepted call is answered.
Licensed(n) ==
  \E k \in 0..n :
    /\ granted + k <= MaxGranted
    /\ granted' = granted + k
    /\ world' = IF k > 0 THEN [world EXCEPT !.licensed = TRUE] ELSE world

\* The existing license, or submitNLM.
SetLicensing ==
  /\ phase = "running" /\ Visible("licensing-panel")
  /\ Licensed(1)
  /\ UNCHANGED <<cookie, answers, checks, auth, overlay, view>>

\* Mutation of LicensingSet: an answer is handled again.
LicensingSetAgain ==
  /\ granted' = granted - 1
  /\ phase = "running"
  /\ ShowStatusPanel
  /\ world' \in {world, Starting(world)}
  /\ UNCHANGED <<cookie, answers, checks, auth, view>>

\* The answer: back to the status panel, and MATLAB is started.
LicensingSet ==
  /\ granted > 0
  /\ granted' = granted - 1
  /\ IF phase = "over" THEN UNCHANGED <<world, overlay>>
     ELSE /\ ShowStatusPanel
          /\ world' \in {world, Starting(world)}
  /\ UNCHANGED <<cookie, answers, checks, auth, view>>

\* "Open MATLAB Here" or "Reclaim Session".
TransferSession ==
  /\ phase = "running"
  /\ Visible("concurrent-session") \/ Visible("session-transferred")
  /\ world' = [world EXCEPT !.isActiveClient = TRUE]
  /\ Cardinality(answers) < MaxPolls
  /\ answers' = answers \cup {world'}
  /\ UNCHANGED <<cookie, granted, checks, auth, overlay, view>>

DismissConcurrentDialog ==
  /\ phase = "running" /\ Visible("concurrent-session")
  /\ HideOverlay
  /\ UNCHANGED <<world, cookie, network, auth, view>>

----------------------------------------------------------------------------
(* The embedded MathWorks login: init, nonce, load, login.                 *)

OnMHLMIframeLoaded ==
  /\ login = "loading" /\ phase # "over"
  /\ login' = "init"
  /\ UNCHANGED <<world, cookie, network, auth, view,
                 body, currentOverlay>>

\* It answers with a nonce, which is sent back for the form to load.
OnNonce ==
  /\ login = "init" /\ starts > 0
  /\ login' = "form"
  /\ UNCHANGED <<world, cookie, network, auth, view, body, currentOverlay>>

\* The user logs in: every startApp has left a listener on the window.
OnLogin ==
  /\ login = "form" /\ phase # "over"
  /\ Licensed(starts)
  /\ UNCHANGED <<cookie, answers, checks, auth, overlay, view>>

----------------------------------------------------------------------------
(* MATLAB, and the other pages.                                            *)

MatlabMoves ==
  \E to \in CASE world.matlab = "down"     -> {"starting"}
              [] world.matlab = "starting" -> {"up", "stopping", "down"}
              [] world.matlab = "up"       -> {"stopping", "down"}
              [] world.matlab = "stopping" -> {"starting", "down"} :
    world' = [world EXCEPT !.matlab = to]

Elsewhere ==
  /\ \/ MatlabMoves
     \/ world' = [world EXCEPT !.licensed = ~@]
     \/ world.isActiveClient /\ world' = [world EXCEPT !.isActiveClient = FALSE]
  /\ UNCHANGED <<cookie, network, auth, overlay, view>>

Next ==
  \/ \E t \in Tokens : InitChecked(t) \/ SubmitAuthToken(t) \/ SubmitChecked(t)
  \/ PollStatus
  \/ \E m \in answers : UpdateUI(m)
  \/ ClickBackdrop \/ ClickTrigger
  \/ StartMatlab \/ ConfirmYes \/ Back
  \/ \E what \in Destructive : AskConfirmation(what)
  \/ ShowLicensing \/ SetLicensing \/ LicensingSet
  \/ TransferSession \/ DismissConcurrentDialog
  \/ OnMHLMIframeLoaded \/ OnNonce \/ OnLogin
  \/ Elsewhere

\* The timer polls every second, and answers are handled.
Fairness ==
  /\ WF_vars(PollStatus)
  /\ WF_vars(\E m \in answers : UpdateUI(m))

Spec == Init /\ [][Next]_vars /\ Fairness

----------------------------------------------------------------------------
(* Properties.                                                             *)

\* The authentication screen stays until a token is accepted: neither the
\* backdrop nor any answer takes it away (app.js:256, 774).
GateHolds == phase = "gate" => Visible("auth")

\* MATLAB is displayed in the active page only.  A page that lost the session
\* comes to remove the iframe and to offer the session, over whatever it
\* shows; an active page comes to show a MATLAB that is up, without that
\* dialog; late and reordered answers notwithstanding (app.js:76, 98, 105).
OnePageDisplays ==
  LET offered == Visible("concurrent-session") \/ Visible("session-transferred")
      mine    == world.isActiveClient /\ world.matlab = "up"
  IN  /\ phase = "running" /\ ~world.isActiveClient
           ~> (offered /\ ~frame) \/ world.isActiveClient \/ phase = "over"
      /\ phase = "running" /\ mine
           ~> (frame /\ ~offered) \/ ~mine \/ phase = "over"

\* A status panel on the screen comes to show where MATLAB has settled,
\* although it opens with what MATLAB did when the page was loaded and polls
\* go on being answered late (app.js:127, 263).
PanelCatchesUp ==
  \A s \in {"down", "up"} :
    Visible("status-panel") /\ world.matlab = s
      ~> body.matlab = s \/ world.matlab # s \/ ~Visible("status-panel")

=============================================================================
