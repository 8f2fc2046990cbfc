--------------------------- MODULE FrontEndProofs ---------------------------
(***************************************************************************)
(* Theorems about FrontEnd, for every bound and every first world: the     *)
(* type invariant, the authentication gate, and what the iframe and the    *)
(* dialogs say of the session.                                             *)
(***************************************************************************)
EXTENDS FrontEnd, TLAPS

\* Before a token is accepted nothing is started and no licence is asked for.
\* Every check that is accepted starts the page, so what is started and what
\* is being checked share a bound.
PageInv ==
  /\ starts + checks["good"] + checks["bad"] + checks["empty"] <= MaxChecks
  /\ phase \in {"loading", "gate"} => starts = 0 /\ granted = 0
  /\ phase = "gate" => Visible("auth") /\ currentOverlay = "auth"

Inv == TypeOK /\ PageInv

USE DEF Statuses, Tokens, Concurrency, Templates, Destructive, Phases,
        LoginStates

LEMMA Bounds ==
  MaxPolls \in Nat \ {0} /\ MaxChecks \in Nat \ {0} /\ MaxGranted \in Nat \ {0}
BY BoundsAssumption

LEMMA PlainIsBody ==
  \A t \in (Templates \ {"confirm"}) \cup {None} : Plain(t) \in Bodies
BY NoneAssumption DEF Plain, Bodies

LEMMA PanelIsBody == \A m \in Snapshots : Panel(m) \in Bodies
BY DEF Panel, Bodies, Snapshots

LEMMA ConfirmIsBody == \A w \in Destructive : Confirm(w) \in Bodies
BY NoneAssumption DEF Confirm, Plain, Bodies

----------------------------------------------------------------------------
LEMMA InitInv == Init => Inv
<1>. SUFFICES ASSUME Init PROVE Inv
  OBVIOUS
<1>1. world \in Snapshots /\ rendered \in Bodies
  BY WorldsAssumption, PanelIsBody DEF Init
<1>2. body \in Bodies
  BY PlainIsBody DEF Init
<1>3. /\ answers = {} /\ granted = 0
      /\ currentOverlay = None /\ login = "none"
      /\ frame = FALSE /\ wasUp = FALSE /\ wasEverActive = FALSE
  BY DEF Init
<1>4. ASSUME cookie \in BOOLEAN, checks \in [Tokens -> 0..MaxChecks],
             phase \in Phases, starts \in 0..MaxChecks
      PROVE  TypeOK
  <2>1. answers \subseteq Snapshots
    BY <1>3
  <2>2. granted \in 0..MaxGranted
    BY <1>3, Bounds
  <2>3. frame \in BOOLEAN /\ wasUp \in BOOLEAN /\ wasEverActive \in BOOLEAN
    BY <1>3
  <2>. QED
    BY <1>1, <1>2, <1>3, <1>4, <2>1, <2>2, <2>3 DEF TypeOK
<1>5. CASE \E t \in Tokens :
             /\ cookie \in IF t = "good" THEN {TRUE} ELSE BOOLEAN
             /\ checks = [u \in Tokens |-> IF u = t THEN 1 ELSE 0]
             /\ phase = "loading" /\ starts = 0
  <2>1. cookie \in BOOLEAN
    BY <1>5
  <2>2. /\ checks \in [Tokens -> 0..MaxChecks]
        /\ starts + checks["good"] + checks["bad"] + checks["empty"] <= MaxChecks
    BY <1>5, Bounds
  <2>. QED
    BY <1>5, <1>3, <1>4, <2>1, <2>2, Bounds DEF Inv, PageInv
<1>6. CASE /\ cookie = TRUE
           /\ checks = [u \in Tokens |-> 0]
           /\ phase = "running" /\ starts = 1
  <2>1. /\ checks \in [Tokens -> 0..MaxChecks]
        /\ starts + checks["good"] + checks["bad"] + checks["empty"] <= MaxChecks
    BY <1>6, Bounds
  <2>. QED
    BY <1>6, <1>3, <1>4, <2>1, Bounds DEF Inv, PageInv
<1>. QED
  BY <1>5, <1>6 DEF Init

----------------------------------------------------------------------------
(* Steps of the overlay alone.                                             *)

OverlayTyped ==
  /\ body' \in Bodies
  /\ currentOverlay' \in Templates \cup {None}
  /\ login' \in LoginStates

LEMMA ShowTyped ==
  ASSUME NEW b \in Bodies, ShowOverlay(b)
  PROVE  OverlayTyped /\ body' = b /\ currentOverlay' = b.tmpl
BY DEF ShowOverlay, OverlayTyped, Bodies

LEMMA HideTyped == HideOverlay => OverlayTyped
BY PlainIsBody DEF HideOverlay, OverlayTyped

LEMMA PanelTyped == TypeOK /\ ShowStatusPanel => OverlayTyped
BY ShowTyped DEF ShowStatusPanel, TypeOK

LEMMA CloseTyped ==
  ASSUME TypeOK, CloseOverlay
  PROVE  /\ OverlayTyped
         /\ currentOverlay = "auth" => UNCHANGED overlay
<1>1. CASE MayClose
  BY <1>1, HideTyped DEF CloseOverlay, MayClose
<1>2. CASE ~MayClose
  BY <1>2 DEF CloseOverlay, TypeOK, OverlayTyped, overlay
<1>. QED
  BY <1>1, <1>2

\* Where only the overlay changes: its type, and the gate.
LEMMA OverlayStep ==
  ASSUME Inv, OverlayTyped, phase # "gate" \/ UNCHANGED overlay,
         UNCHANGED <<world, cookie, network, auth, view>>
  PROVE  Inv'
BY DEF Inv, TypeOK, PageInv, OverlayTyped, overlay, network, auth, view, Visible

LEMMA OverlaySteps ==
  ASSUME Inv, \/ ClickBackdrop \/ ClickTrigger \/ ShowLicensing \/ Back
              \/ DismissConcurrentDialog
              \/ \E what \in Destructive : AskConfirmation(what)
  PROVE  Inv'
<1>. TypeOK /\ PageInv
  BY DEF Inv
<1>1. CASE ClickBackdrop
  <2>1. phase # "gate" \/ UNCHANGED overlay
    BY <1>1, CloseTyped DEF ClickBackdrop, PageInv
  <2>. QED
    BY <1>1, <2>1, CloseTyped, OverlayStep DEF ClickBackdrop
<1>2. CASE ClickTrigger
  <2>1. CASE TogglePanel
    <3>1. OverlayTyped
      BY <2>1, PanelTyped, PlainIsBody DEF TogglePanel, OverlayTyped, TypeOK
    <3>. QED
      BY <1>2, <3>1, OverlayStep DEF ClickTrigger
  <2>2. CASE TogglePanelTwice
    <3>1. OverlayTyped
      BY <2>2 DEF TogglePanelTwice, OverlayTyped, TypeOK
    <3>. QED
      BY <1>2, <3>1, OverlayStep DEF ClickTrigger
  <2>. QED
    BY <1>2, <2>1, <2>2 DEF ClickTrigger
<1>3. CASE ShowLicensing
  <2>1. OverlayTyped
    BY <1>3, PlainIsBody, ShowTyped DEF ShowLicensing
  <2>. QED
    BY <1>3, <2>1, OverlayStep DEF ShowLicensing, Offers
<1>4. CASE Back
  BY <1>4, PanelTyped, OverlayStep DEF Back
<1>5. CASE DismissConcurrentDialog
  BY <1>5, HideTyped, OverlayStep DEF DismissConcurrentDialog
<1>6. ASSUME NEW what \in Destructive, AskConfirmation(what) PROVE Inv'
  <2>1. OverlayTyped
    BY <1>6, ConfirmIsBody, ShowTyped DEF AskConfirmation
  <2>. QED
    BY <1>6, <2>1, OverlayStep DEF AskConfirmation, Offers
<1>. QED
  BY <1>1, <1>2, <1>3, <1>4, <1>5, <1>6

----------------------------------------------------------------------------
(* Authentication.                                                         *)

LEMMA CheckBound ==
  ASSUME Inv, NEW t \in Tokens, NEW valid \in BOOLEAN, CheckAuth(t, valid)
  PROVE  /\ checks' \in [Tokens -> 0..MaxChecks]
         /\ cookie' \in BOOLEAN
         /\ starts + 1 + checks'["good"] + checks'["bad"] + checks'["empty"]
              <= MaxChecks
         /\ starts + 1 \in 0..MaxChecks
<1>1. cookie' \in BOOLEAN
  BY DEF CheckAuth, Accepts, Inv, TypeOK
<1>2. /\ checks \in [Tokens -> 0..MaxChecks] /\ starts \in 0..MaxChecks
      /\ checks' = [checks EXCEPT ![t] = checks[t] - 1] /\ checks[t] > 0
      /\ starts + checks["good"] + checks["bad"] + checks["empty"] <= MaxChecks
  BY DEF CheckAuth, Inv, TypeOK, PageInv
<1>3. checks' \in [Tokens -> 0..MaxChecks]
  BY <1>2, Bounds
<1>4. \/ t = "good" /\ checks'["good"] = checks["good"] - 1
           /\ checks'["bad"] = checks["bad"] /\ checks'["empty"] = checks["empty"]
      \/ t = "bad" /\ checks'["bad"] = checks["bad"] - 1
           /\ checks'["good"] = checks["good"] /\ checks'["empty"] = checks["empty"]
      \/ t = "empty" /\ checks'["empty"] = checks["empty"] - 1
           /\ checks'["good"] = checks["good"] /\ checks'["bad"] = checks["bad"]
  BY <1>2
<1>5. starts + 1 + checks'["good"] + checks'["bad"] + checks'["empty"]
        <= MaxChecks
  BY <1>2, <1>4, Bounds
<1>6. \A u \in Tokens : checks'[u] \in Nat
  BY <1>3, Bounds
<1>7. starts + 1 \in 0..MaxChecks
  BY <1>2, <1>5, <1>6, Bounds
<1>. QED
  BY <1>1, <1>3, <1>5, <1>7

LEMMA AuthSteps ==
  ASSUME Inv, NEW t \in Tokens,
         InitChecked(t) \/ SubmitAuthToken(t) \/ SubmitChecked(t)
  PROVE  Inv'
<1>. TypeOK /\ PageInv
  BY DEF Inv
<1>1. CASE InitChecked(t)
  <2>1. CASE CheckAuth(t, TRUE) /\ StartApp /\ UNCHANGED overlay
    BY <1>1, <2>1, CheckBound
    DEF InitChecked, StartApp, Inv, TypeOK, PageInv, overlay
  <2>2. CASE CheckAuth(t, FALSE) /\ ShowAuthScreen
    <3>1. OverlayTyped /\ body'.tmpl = "auth" /\ currentOverlay' = "auth"
      BY <2>2, PlainIsBody, ShowTyped DEF ShowAuthScreen, Plain
    <3>2. /\ checks' \in [Tokens -> 0..MaxChecks] /\ cookie' \in BOOLEAN
          /\ starts + 1 + checks'["good"] + checks'["bad"] + checks'["empty"]
               <= MaxChecks
      BY <2>2, CheckBound
    <3>3. starts + checks'["good"] + checks'["bad"] + checks'["empty"]
            <= MaxChecks
      BY <3>2, Bounds DEF TypeOK
    <3>. QED
      BY <1>1, <2>2, <3>1, <3>2, <3>3
      DEF InitChecked, ShowAuthScreen, Inv, TypeOK, PageInv, OverlayTyped, view,
          Visible
  <2>. QED
    BY <1>1, <2>1, <2>2 DEF InitChecked
<1>2. CASE SubmitAuthToken(t)
  <2>1. /\ checks \in [Tokens -> 0..MaxChecks]
        /\ checks' = [checks EXCEPT ![t] = checks[t] + 1]
        /\ checks["good"] + checks["bad"] + checks["empty"] < MaxChecks
        /\ starts = 0
    BY <1>2 DEF SubmitAuthToken, TypeOK, PageInv
  <2>2. \A u \in Tokens : checks[u] \in Nat
    BY <2>1, Bounds
  <2>3. checks[t] + 1 \in 0..MaxChecks
    BY <2>1, <2>2, Bounds
  <2>4. checks' \in [Tokens -> 0..MaxChecks]
    BY <2>1, <2>3
  <2>5. CASE t = "good"
    BY <1>2, <2>1, <2>2, <2>4, <2>5, Bounds
    DEF SubmitAuthToken, Inv, TypeOK, PageInv, auth, overlay, view, Visible
  <2>6. CASE t = "bad"
    BY <1>2, <2>1, <2>2, <2>4, <2>6, Bounds
    DEF SubmitAuthToken, Inv, TypeOK, PageInv, auth, overlay, view, Visible
  <2>. QED
    BY <1>2, <2>5, <2>6 DEF SubmitAuthToken
<1>3. CASE SubmitChecked(t)
  <2>1. CASE CheckAuth(t, TRUE) /\ HideOverlay /\ StartApp
    BY <1>3, <2>1, CheckBound, HideTyped
    DEF SubmitChecked, StartApp, Inv, TypeOK, PageInv, OverlayTyped
  <2>2. CASE CheckAuth(t, FALSE) /\ UNCHANGED <<auth, overlay, view>>
    <3>1. /\ checks' \in [Tokens -> 0..MaxChecks] /\ cookie' \in BOOLEAN
          /\ starts + 1 + checks'["good"] + checks'["bad"] + checks'["empty"]
               <= MaxChecks
      BY <2>2, CheckBound
    <3>2. starts + checks'["good"] + checks'["bad"] + checks'["empty"]
            <= MaxChecks
      BY <3>1, Bounds DEF TypeOK
    <3>. QED
      BY <1>3, <2>2, <3>1, <3>2
      DEF SubmitChecked, Inv, TypeOK, PageInv, auth, overlay, view, Visible
  <2>. QED
    BY <1>3, <2>1, <2>2 DEF SubmitChecked
<1>. QED
  BY <1>1, <1>2, <1>3

----------------------------------------------------------------------------
(* Answers and requests.                                                   *)

LEMMA UpdateTyped ==
  ASSUME Inv, NEW m \in answers, UpdateInactive(m) \/ UpdateActive(m)
  PROVE  /\ OverlayTyped
         /\ frame' \in BOOLEAN /\ wasEverActive' \in BOOLEAN
         /\ phase = "gate" => UNCHANGED overlay
<1>. TypeOK /\ PageInv
  BY DEF Inv
<1>1. m \in Snapshots
  BY DEF TypeOK
<1>2. CASE UpdateInactive(m)
  <2>1. CASE currentOverlay = "auth"
    BY <1>2, <2>1 DEF UpdateInactive, TypeOK, OverlayTyped, overlay
  <2>2. CASE currentOverlay # "auth" /\ ConcurrencyDialog
    <3>1. OverlayTyped
      BY <2>2, PlainIsBody, ShowTyped DEF ConcurrencyDialog
    <3>. QED
      BY <1>2, <2>2, <3>1 DEF UpdateInactive, TypeOK, PageInv
  <2>. QED
    BY <1>2, <2>1, <2>2 DEF UpdateInactive
<1>3. CASE UpdateActive(m)
  <2>1. frame' \in BOOLEAN /\ wasEverActive' \in BOOLEAN
    BY <1>3 DEF UpdateActive
  <2>2. CASE ClosedBy(m)
    <3>1. OverlayTyped
      BY <1>3, <2>2, HideTyped DEF UpdateActive
    <3>2. phase # "gate"
      BY <2>2 DEF ClosedBy, PageInv
    <3>. QED
      BY <2>1, <3>1, <3>2
  <2>3. CASE ~ClosedBy(m) /\ ~Hidden /\ currentOverlay = "status-panel"
    <3>1. body' = Panel(m) /\ UNCHANGED <<currentOverlay, login>>
      BY <1>3, <2>3 DEF UpdateActive
    <3>2. OverlayTyped
      BY <1>1, <3>1, PanelIsBody DEF OverlayTyped, TypeOK
    <3>. QED
      BY <2>1, <2>3, <3>2 DEF PageInv
  <2>4. CASE ~ClosedBy(m) /\ ~(~Hidden /\ currentOverlay = "status-panel")
    <3>1. UNCHANGED overlay
      BY <1>3, <2>4 DEF UpdateActive
    <3>. QED
      BY <2>1, <3>1 DEF TypeOK, OverlayTyped, overlay
  <2>. QED
    BY <2>2, <2>3, <2>4
<1>. QED
  BY <1>2, <1>3

LEMMA AnswerStep == ASSUME Inv, NEW m \in answers, UpdateUI(m) PROVE Inv'
<1>. TypeOK /\ PageInv
  BY DEF Inv
<1>1. CASE phase = "over"
  BY <1>1 DEF UpdateUI, Inv, TypeOK, PageInv, auth, overlay, view, Visible
<1>2. CASE phase # "over"
  <2>1. /\ OverlayTyped
        /\ frame' \in BOOLEAN /\ wasEverActive' \in BOOLEAN
        /\ phase = "gate" => UNCHANGED overlay
    BY <1>2, UpdateTyped DEF UpdateUI
  <2>2. wasUp' \in BOOLEAN
    BY <1>2 DEF UpdateUI
  <2>. QED
    BY <1>2, <2>1, <2>2
    DEF UpdateUI, Inv, TypeOK, PageInv, OverlayTyped, auth, overlay, Visible
<1>. QED
  BY <1>1, <1>2

LEMMA EffectTyped ==
  ASSUME NEW w \in Snapshots
  PROVE  /\ Starting(w) \in Snapshots /\ Ending(w) \in Snapshots
         /\ \A what \in Destructive : Effect(what, w) \in Snapshots
<1>1. Starting(w) \in Snapshots
  BY DEF Starting, Snapshots
<1>2. Ending(w) \in Snapshots
  BY DEF Ending, Snapshots
<1>3. [Ending(w) EXCEPT !.licensed = FALSE] \in Snapshots
  BY <1>2 DEF Snapshots
<1>4. \A what \in Destructive : Effect(what, w) \in
        {Starting(w), Ending(w), [Ending(w) EXCEPT !.licensed = FALSE]}
  BY DEF Effect
<1>. QED
  BY <1>1, <1>2, <1>3, <1>4

LEMMA LicensedTyped ==
  ASSUME TypeOK, NEW n \in Nat, Licensed(n)
  PROVE  /\ world' \in Snapshots /\ granted' \in 0..MaxGranted
         /\ n = 0 => granted' = granted
<1>1. PICK k \in 0..n :
        /\ granted + k <= MaxGranted
        /\ granted' = granted + k
        /\ world' = IF k > 0 THEN [world EXCEPT !.licensed = TRUE] ELSE world
  BY DEF Licensed
<1>2. world' \in Snapshots
  BY <1>1 DEF TypeOK, Snapshots
<1>3. granted \in 0..MaxGranted
  BY DEF TypeOK
<1>4. granted' \in 0..MaxGranted /\ (n = 0 => granted' = granted)
  BY <1>1, <1>3, Bounds
<1>. QED
  BY <1>2, <1>4

LEMMA RequestSteps ==
  ASSUME Inv, \/ PollStatus \/ TransferSession \/ StartMatlab \/ ConfirmYes
              \/ SetLicensing \/ LicensingSet
  PROVE  Inv'
<1>. TypeOK /\ PageInv
  BY DEF Inv
<1>. world \in Snapshots
  BY DEF TypeOK
<1>1. CASE PollStatus
  <2>1. world' \in Snapshots
    BY <1>1 DEF PollStatus, Snapshots
  <2>. QED
    BY <1>1, <2>1
    DEF PollStatus, Inv, TypeOK, PageInv, auth, overlay, view, Visible
<1>2. CASE TransferSession
  <2>1. world' \in Snapshots
    BY <1>2 DEF TransferSession, Snapshots
  <2>. QED
    BY <1>2, <2>1
    DEF TransferSession, Inv, TypeOK, PageInv, auth, overlay, view, Visible
<1>3. CASE StartMatlab
  <2>1. world' \in Snapshots
    BY <1>3, EffectTyped DEF StartMatlab
  <2>. QED
    BY <1>3, <2>1, CloseTyped
    DEF StartMatlab, Offers, Inv, TypeOK, PageInv, network, auth, view,
        OverlayTyped
<1>4. CASE ConfirmYes
  <2>1. body.asks \in Destructive
    BY <1>4 DEF ConfirmYes, Visible, TypeOK, Bodies
  <2>2. world' \in Snapshots
    BY <1>4, <2>1, EffectTyped DEF ConfirmYes
  <2>3. CASE body.asks = "shutdown"
    BY <1>4, <2>2, <2>3, PlainIsBody
    DEF ConfirmYes, Inv, TypeOK, PageInv, network
  <2>4. CASE body.asks # "shutdown"
    BY <1>4, <2>2, <2>4, PanelTyped
    DEF ConfirmYes, Inv, TypeOK, PageInv, network, auth, view, OverlayTyped
  <2>. QED
    BY <2>3, <2>4
<1>5. CASE SetLicensing
  <2>1. world' \in Snapshots /\ granted' \in 0..MaxGranted
    BY <1>5, LicensedTyped DEF SetLicensing
  <2>. QED
    BY <1>5, <2>1
    DEF SetLicensing, Inv, TypeOK, PageInv, auth, overlay, view, Visible
<1>6. CASE LicensingSet
  <2>1. granted' \in 0..MaxGranted /\ phase \notin {"loading", "gate"}
    BY <1>6, Bounds DEF LicensingSet, TypeOK, PageInv
  <2>2. world' \in Snapshots /\ OverlayTyped
    BY <1>6, EffectTyped, PanelTyped
    DEF LicensingSet, OverlayTyped, TypeOK, overlay
  <2>. QED
    BY <1>6, <2>1, <2>2
    DEF LicensingSet, Inv, TypeOK, PageInv, auth, view, OverlayTyped
<1>. QED
  BY <1>1, <1>2, <1>3, <1>4, <1>5, <1>6

LEMMA LoginSteps ==
  ASSUME Inv, OnMHLMIframeLoaded \/ OnNonce \/ OnLogin \/ Elsewhere
  PROVE  Inv'
<1>. TypeOK /\ PageInv
  BY DEF Inv
<1>1. CASE OnMHLMIframeLoaded
  BY <1>1 DEF OnMHLMIframeLoaded, Inv, TypeOK, PageInv, network, auth, view, Visible
<1>2. CASE OnNonce
  BY <1>2 DEF OnNonce, Inv, TypeOK, PageInv, network, auth, view, Visible
<1>3. CASE OnLogin
  <2>0. starts \in Nat
    BY Bounds DEF TypeOK
  <2>1. world' \in Snapshots /\ granted' \in 0..MaxGranted
    BY <1>3, <2>0, LicensedTyped DEF OnLogin
  <2>2. starts = 0 => granted' = granted
    BY <1>3, <2>0, LicensedTyped DEF OnLogin
  <2>. QED
    BY <1>3, <2>1, <2>2
    DEF OnLogin, Inv, TypeOK, PageInv, auth, overlay, view, Visible
<1>4. CASE Elsewhere
  <2>1. world' \in Snapshots
    BY <1>4 DEF Elsewhere, MatlabMoves, Snapshots, TypeOK
  <2>. QED
    BY <1>4, <2>1
    DEF Elsewhere, Inv, TypeOK, PageInv, network, auth, overlay, view, Visible
<1>. QED
  BY <1>1, <1>2, <1>3, <1>4

----------------------------------------------------------------------------
LEMMA NextInv == Inv /\ [Next]_vars => Inv'
<1>. SUFFICES ASSUME Inv, [Next]_vars PROVE Inv'
  OBVIOUS
<1>1. CASE UNCHANGED vars
  BY <1>1 DEF Inv, TypeOK, PageInv, vars, network, auth, overlay, view, Visible
<1>2. CASE Next
  BY <1>2, OverlaySteps, AuthSteps, AnswerStep, RequestSteps, LoginSteps
  DEF Next
<1>. QED
  BY <1>1, <1>2

\* Everything the page keeps has its type: the number of times it was started
\* never exceeds that of the checks it made, and the embedded login's listeners
\* ask for no more licences than that.
THEOREM FrontEndTypeCorrect == Spec => []TypeOK
<1>1. Inv => TypeOK
  BY DEF Inv
<1>. QED
  BY InitInv, NextInv, <1>1, PTL DEF Spec

\* Until a token is accepted the authentication screen is on top, whatever the
\* user clicks and whatever is answered.
THEOREM GateKept == Spec => []GateHolds
<1>1. Inv => GateHolds
  BY DEF Inv, PageInv, GateHolds
<1>. QED
  BY InitInv, NextInv, <1>1, PTL DEF Spec

----------------------------------------------------------------------------
(* The iframe and the dialogs are those of the last answer.                *)

\* The MATLAB iframe is in a running page only, and only while the answer that
\* was applied last said that MATLAB is up; the page has been the active one
\* (app.js:76, 105).
FrameShown == frame => phase = "running" /\ wasUp /\ wasEverActive

\* A page that never was the active one is offered to open MATLAB, one that
\* was is told that its session was transferred: no dialog is left over from
\* before the page became active, although the trigger hides the overlay
\* without forgetting what it showed (app.js:84, 99, 319).
DialogsTell ==
  /\ Visible("concurrent-session") => ~wasEverActive
  /\ Visible("session-transferred") => wasEverActive

\* What is visible is what currentOverlay says; a hidden overlay may be
\* remembered.  Only a visible licensing panel has an embedded login.
OverlayNamed ==
  /\ ~Hidden => currentOverlay = body.tmpl
  /\ rendered.tmpl = "status-panel"
  /\ login # "none" => Visible("licensing-panel")

NoAnswers == phase \in {"loading", "gate"} => answers = {}

ViewInv == FrameShown /\ DialogsTell /\ OverlayNamed /\ NoAnswers

LEMMA RenderedShown ==
  ASSUME ViewInv, ShowStatusPanel
  PROVE  /\ body'.tmpl = "status-panel" /\ currentOverlay' = "status-panel"
         /\ login' = "none"
BY DEF ViewInv, OverlayNamed, ShowStatusPanel, ShowOverlay

LEMMA OverlayHidden ==
  ASSUME HideOverlay
  PROVE  body'.tmpl = None /\ currentOverlay' = None /\ login' = "none"
BY DEF HideOverlay, Plain

LEMMA InitViewInv == Init => ViewInv
<1>. SUFFICES ASSUME Init PROVE ViewInv
  OBVIOUS
<1>1. body.tmpl = None /\ rendered.tmpl = "status-panel"
  BY DEF Init, Plain, Panel
<1>. QED
  BY <1>1, NoneAssumption
  DEF Init, ViewInv, FrameShown, DialogsTell, OverlayNamed, NoAnswers, Visible,
      Hidden

\* The iframe and what has been polled do not depend on the overlay: a step
\* of the overlay that shows a dialog shows no other than it showed.
LEMMA SameView ==
  ASSUME ViewInv, UNCHANGED <<phase, rendered>>, UNCHANGED view,
         answers' = answers \/ phase \notin {"loading", "gate"},
         \/ UNCHANGED overlay
         \/ /\ \/ body'.tmpl = None
               \/ body'.tmpl = currentOverlay' /\ currentOverlay' \notin Concurrency
            /\ login' = "none" \/ body'.tmpl = "licensing-panel"
  PROVE  ViewInv'
<1>. USE NoneAssumption
<1>. UNCHANGED <<frame, wasUp, wasEverActive>>
  BY DEF view
<1>1. FrameShown' /\ NoAnswers'
  BY DEF ViewInv, FrameShown, NoAnswers
<1>2. CASE UNCHANGED overlay
  BY <1>1, <1>2
  DEF ViewInv, DialogsTell, OverlayNamed, overlay, Visible, Hidden
<1>3. CASE /\ \/ body'.tmpl = None
              \/ body'.tmpl = currentOverlay' /\ currentOverlay' \notin Concurrency
           /\ login' = "none" \/ body'.tmpl = "licensing-panel"
  BY <1>1, <1>3 DEF ViewInv, DialogsTell, OverlayNamed, Visible, Hidden
<1>. QED
  BY <1>2, <1>3

LEMMA OverlayStepsView ==
  ASSUME ViewInv, \/ ClickBackdrop \/ ClickTrigger \/ ShowLicensing \/ Back
                  \/ DismissConcurrentDialog
                  \/ \E what \in Destructive : AskConfirmation(what)
  PROVE  ViewInv'
<1>. USE NoneAssumption
<1>0. UNCHANGED <<phase, rendered>> /\ UNCHANGED view /\ answers' = answers
  BY DEF ClickBackdrop, ClickTrigger, ShowLicensing, Back,
         DismissConcurrentDialog, AskConfirmation, auth, network
<1>1. CASE ClickBackdrop
  BY <1>0, <1>1, OverlayHidden, SameView DEF ClickBackdrop, CloseOverlay
<1>2. CASE ClickTrigger
  <2>1. CASE TogglePanel
    <3>1. CASE Hidden
      BY <1>0, <2>1, <3>1, RenderedShown, SameView DEF TogglePanel
    <3>2. CASE ~Hidden
      BY <1>0, <2>1, <3>2, SameView DEF TogglePanel, Plain
    <3>. QED
      BY <3>1, <3>2
  <2>2. CASE TogglePanelTwice
    <3>1. body'.tmpl \in {None, "status-panel"}
      BY <2>2 DEF TogglePanelTwice, ViewInv, OverlayNamed, Hidden, Visible
    <3>. QED
      BY <1>0, <2>2, <3>1, SameView DEF TogglePanelTwice
  <2>. QED
    BY <1>2, <2>1, <2>2 DEF ClickTrigger
<1>3. CASE ShowLicensing
  BY <1>0, <1>3, SameView DEF ShowLicensing, ShowOverlay, Plain
<1>4. CASE Back
  BY <1>0, <1>4, RenderedShown, SameView DEF Back
<1>5. CASE DismissConcurrentDialog
  BY <1>0, <1>5, OverlayHidden, SameView DEF DismissConcurrentDialog
<1>6. ASSUME NEW what \in Destructive, AskConfirmation(what) PROVE ViewInv'
  BY <1>0, <1>6, SameView DEF AskConfirmation, ShowOverlay, Confirm, Plain
<1>. QED
  BY <1>1, <1>2, <1>3, <1>4, <1>5, <1>6

\* A page that is started begins without an iframe.
LEMMA AuthStepsView ==
  ASSUME ViewInv, NEW t \in Tokens,
         InitChecked(t) \/ SubmitAuthToken(t) \/ SubmitChecked(t)
  PROVE  ViewInv'
<1>. USE NoneAssumption
<1>0. answers' = answers
  BY DEF InitChecked, SubmitAuthToken, SubmitChecked
<1>1. ASSUME StartApp, UNCHANGED overlay \/ HideOverlay PROVE ViewInv'
  <2>1. /\ phase' = "running" /\ frame' = FALSE
        /\ UNCHANGED <<rendered, wasUp, wasEverActive>>
    BY <1>1 DEF StartApp
  <2>2. FrameShown' /\ NoAnswers'
    BY <2>1 DEF FrameShown, NoAnswers
  <2>3. CASE UNCHANGED overlay
    BY <2>1, <2>2, <2>3
    DEF ViewInv, DialogsTell, OverlayNamed, overlay, Visible, Hidden
  <2>4. CASE HideOverlay
    BY <2>1, <2>2, <2>4, OverlayHidden
    DEF ViewInv, DialogsTell, OverlayNamed, Visible, Hidden
  <2>. QED
    BY <1>1, <2>3, <2>4
<1>2. CASE InitChecked(t) /\ ShowAuthScreen
  <2>1. /\ phase = "loading" /\ phase' = "gate" /\ UNCHANGED rendered
        /\ UNCHANGED view
        /\ body'.tmpl = "auth" /\ currentOverlay' = "auth" /\ login' = "none"
    BY <1>2 DEF InitChecked, ShowAuthScreen, ShowOverlay, Plain
  <2>2. FrameShown' /\ NoAnswers'
    BY <1>0, <2>1 DEF ViewInv, FrameShown, NoAnswers, view
  <2>. QED
    BY <2>1, <2>2 DEF ViewInv, DialogsTell, OverlayNamed, Visible, Hidden
<1>3. CASE UNCHANGED <<auth, overlay, view>>
  BY <1>0, <1>3, SameView DEF auth
<1>. QED
  BY <1>1, <1>2, <1>3 DEF InitChecked, SubmitAuthToken, SubmitChecked

\* An answer is applied.
LEMMA AnswerStepView ==
  ASSUME Inv, ViewInv, NEW m \in answers, UpdateUI(m)
  PROVE  ViewInv'
<1>. USE NoneAssumption
<1>1. phase' = phase /\ rendered' = rendered /\ answers' \subseteq answers
  BY DEF UpdateUI, auth
<1>2. phase \notin {"loading", "gate"}
  BY DEF ViewInv, NoAnswers
<1>3. CASE phase = "over"
  BY <1>1, <1>2, <1>3, SameView DEF UpdateUI
<1>4. CASE phase # "over"
  <2>1. phase = "running"
    BY <1>2, <1>4 DEF Inv, TypeOK
  <2>2. wasUp' = (m.matlab = "up") /\ NoAnswers'
    BY <1>1, <1>2, <1>4 DEF UpdateUI, NoAnswers
  <2>3. CASE UpdateInactive(m)
    <3>1. frame' = FALSE /\ wasEverActive' = wasEverActive
      BY <2>3 DEF UpdateInactive
    <3>2. CASE UNCHANGED overlay
      BY <1>1, <2>2, <3>1, <3>2
      DEF ViewInv, FrameShown, DialogsTell, OverlayNamed, overlay, Visible,
          Hidden
    <3>3. CASE ConcurrencyDialog
      <4>1. /\ body'.tmpl = IF wasEverActive THEN "session-transferred"
                                             ELSE "concurrent-session"
            /\ currentOverlay' = body'.tmpl /\ login' = "none"
        BY <3>3 DEF ConcurrencyDialog, ShowOverlay, Plain
      <4>. QED
        BY <1>1, <2>2, <3>1, <4>1
        DEF ViewInv, FrameShown, DialogsTell, OverlayNamed, Visible, Hidden
    <3>. QED
      BY <2>3, <3>2, <3>3 DEF UpdateInactive
  <2>4. CASE UpdateActive(m)
    <3>1. frame' = (m.matlab = "up") /\ wasEverActive' = TRUE
      BY <2>4 DEF UpdateActive
    <3>2. FrameShown'
      BY <1>1, <2>1, <2>2, <3>1 DEF FrameShown
    <3>3. CASE ClosedBy(m)
      BY <1>1, <2>2, <2>4, <3>1, <3>2, <3>3, OverlayHidden
      DEF UpdateActive, ViewInv, DialogsTell, OverlayNamed, Visible, Hidden
    <3>4. CASE ~ClosedBy(m) /\ ~Hidden /\ currentOverlay = "status-panel"
      <4>1. body'.tmpl = "status-panel" /\ UNCHANGED <<currentOverlay, login>>
        BY <2>4, <3>4 DEF UpdateActive, Panel
      <4>. QED
        BY <1>1, <2>2, <3>1, <3>2, <3>4, <4>1
        DEF ViewInv, DialogsTell, OverlayNamed, Visible, Hidden
    <3>5. CASE ~ClosedBy(m) /\ ~(~Hidden /\ currentOverlay = "status-panel")
      <4>1. UNCHANGED overlay
        BY <2>4, <3>5 DEF UpdateActive
      <4>2. currentOverlay \notin Concurrency
        BY <3>5 DEF ClosedBy
      <4>. QED
        BY <1>1, <2>2, <3>1, <3>2, <4>1, <4>2
        DEF ViewInv, DialogsTell, OverlayNamed, Visible, Hidden, overlay
    <3>. QED
      BY <3>3, <3>4, <3>5
  <2>. QED
    BY <1>4, <2>3, <2>4 DEF UpdateUI
<1>. QED
  BY <1>3, <1>4

\* The page after a shutdown has no iframe.
LEMMA RequestStepsView ==
  ASSUME Inv, ViewInv,
         \/ PollStatus \/ TransferSession \/ StartMatlab \/ ConfirmYes
         \/ SetLicensing \/ LicensingSet
  PROVE  ViewInv'
<1>. USE NoneAssumption
<1>1. CASE PollStatus
  <2>1. phase \notin {"loading", "gate"}
    BY <1>1 DEF PollStatus, Inv, TypeOK, PageInv
  <2>. QED
    BY <1>1, <2>1, SameView DEF PollStatus, auth
<1>2. CASE TransferSession \/ SetLicensing
  BY <1>2, SameView DEF TransferSession, SetLicensing, auth
<1>3. CASE StartMatlab
  BY <1>3, OverlayHidden, SameView DEF StartMatlab, CloseOverlay, auth, network
<1>4. CASE ConfirmYes
  <2>1. CASE body.asks = "shutdown"
    <3>1. /\ phase' = "over" /\ frame' = FALSE /\ body'.tmpl = None
          /\ login' = "none" /\ UNCHANGED <<rendered, wasUp, wasEverActive>>
      BY <1>4, <2>1 DEF ConfirmYes, Plain
    <3>. QED
      BY <3>1 DEF ViewInv, FrameShown, DialogsTell, OverlayNamed, NoAnswers,
                  Visible, Hidden
  <2>2. CASE body.asks # "shutdown"
    BY <1>4, <2>2, RenderedShown, SameView DEF ConfirmYes, auth, network
  <2>. QED
    BY <2>1, <2>2
<1>5. CASE LicensingSet
  <2>1. CASE phase = "over"
    BY <1>5, <2>1, SameView DEF LicensingSet, auth
  <2>2. CASE phase # "over"
    BY <1>5, <2>2, RenderedShown, SameView DEF LicensingSet, auth
  <2>. QED
    BY <2>1, <2>2
<1>. QED
  BY <1>1, <1>2, <1>3, <1>4, <1>5

LEMMA LoginStepsView ==
  ASSUME ViewInv, OnMHLMIframeLoaded \/ OnNonce \/ OnLogin \/ Elsewhere
  PROVE  ViewInv'
<1>. USE NoneAssumption
<1>1. UNCHANGED <<phase, rendered>> /\ UNCHANGED view /\ answers' = answers
  BY DEF OnMHLMIframeLoaded, OnNonce, OnLogin, Elsewhere, auth, network
<1>2. CASE OnMHLMIframeLoaded \/ OnNonce
  <2>1. body' = body /\ currentOverlay' = currentOverlay /\ login # "none"
    BY <1>2 DEF OnMHLMIframeLoaded, OnNonce
  <2>2. body.tmpl = "licensing-panel" /\ currentOverlay = "licensing-panel"
    BY <2>1 DEF ViewInv, OverlayNamed, Visible, Hidden
  <2>. QED
    BY <1>1, <2>1, <2>2, SameView
<1>3. CASE OnLogin \/ Elsewhere
  BY <1>1, <1>3, SameView DEF OnLogin, Elsewhere
<1>. QED
  BY <1>2, <1>3

LEMMA NextViewInv == Inv /\ ViewInv /\ [Next]_vars => ViewInv'
<1>. SUFFICES ASSUME Inv, ViewInv, [Next]_vars PROVE ViewInv'
  OBVIOUS
<1>1. CASE UNCHANGED vars
  BY <1>1, SameView DEF vars, network, auth
<1>2. CASE Next
  BY <1>2, OverlayStepsView, AuthStepsView, AnswerStepView, RequestStepsView,
     LoginStepsView DEF Next
<1>. QED
  BY <1>1, <1>2

\* No iframe of a MATLAB that is gone, of a page that was never the active
\* one, or behind the gate, in whatever order the answers are applied.
THEOREM FrameKept == Spec => []FrameShown
<1>1. ViewInv => FrameShown
  BY DEF ViewInv
<1>. QED
  BY InitInv, NextInv, InitViewInv, NextViewInv, <1>1, PTL DEF Spec

\* The dialogs tell the user whether the session was taken from this page.
THEOREM DialogsKept == Spec => []DialogsTell
<1>1. ViewInv => DialogsTell
  BY DEF ViewInv
<1>. QED
  BY InitInv, NextInv, InitViewInv, NextViewInv, <1>1, PTL DEF Spec
=============================================================================
