----------------------- MODULE BrowserSessionsProofs -----------------------
(***************************************************************************)
(* Theorems about BrowserSessions for every number of tabs, every number   *)
(* of lost calls and every pair of timeouts that outlasts them.            *)
(***************************************************************************)
EXTENDS BrowserSessions, TLAPS

----------------------------------------------------------------------------
(* The inductive invariant.  What an owner and an open tab owe to their    *)
(* polls is counted in seconds: each lost call costs one, and a poll that  *)
(* is still to be dealt with another.                                      *)

\* A poll of c has yet to reach the proxy.
Pending(c) == c \in due \/ Request(c, "poll") \in requests

\* Only pages that were loaded send requests and own the session; a beacon is
\* the last thing a page sends.
PagesSend ==
  /\ \A c \in Clients, kind \in Kinds :
       Request(c, kind) \in requests => tab[c] # "unopened"
  /\ \A c \in Clients : activeClientID = c => tab[c] # "unopened"
  /\ \A c \in due \cup dialog : Open(c)
  /\ \A m \in responses : Open(m.client)
  /\ \A c \in Clients : Request(c, "clear") \in requests => tab[c] = "gone"

\* An owner that is still open was seen lately.
OwnerSeen ==
  \A c \in Clients :
    ~shutdown /\ activeClientID = c /\ Open(c) =>
      /\ unseen <= losses + 1
      /\ ~Pending(c) => unseen <= losses

\* A page that has just been loaded has reset the timer.
NewKeeps ==
  ~resetIdle =>
    /\ ticked => remaining >= IdleTimeout
    /\ ~ticked => remaining + 1 >= IdleTimeout

\* The time that is left while page c polls, before and after the tick of
\* this second, and before and after the reset by the poll of this second.
OpenKeeps(c) ==
  /\ ticked /\ ~Pending(c) /\ ~resetIdle => remaining + losses >= IdleTimeout
  /\ ticked => remaining + losses + 1 >= IdleTimeout
  /\ ~Pending(c) /\ ~resetIdle => remaining + losses + 1 >= IdleTimeout
  /\ remaining + losses + 2 >= IdleTimeout

TimeLeft ==
  ~shutdown =>
    /\ remaining >= 1
    /\ \A c \in Clients : /\ tab[c] = "new" => NewKeeps
                          /\ tab[c] = "open" => OpenKeeps(c)

SessionInv == TypeOK /\ PagesSend /\ OwnerSeen /\ TimeLeft

\* Requests are told apart by their client and kind.
LEMMA RequestFields ==
  ASSUME NEW c, NEW kind
  PROVE  Request(c, kind).client = c /\ Request(c, kind).kind = kind
BY DEF Request

LEMMA RequestShape ==
  ASSUME NEW m \in Requests
  PROVE  /\ m.client \in Clients /\ m.kind \in Kinds
         /\ m = Request(m.client, m.kind)
BY DEF Requests, Request

LEMMA RequestType ==
  ASSUME NEW c \in Clients, NEW kind \in Kinds
  PROVE  Request(c, kind) \in Requests
BY DEF Requests, Request

LEMMA InitSession == Init => SessionInv
<1> SUFFICES ASSUME Init PROVE SessionInv
  OBVIOUS
<1>1. TypeOK
  <2>1. unseen \in 0..(ActiveClientTimeout + 1)
    BY TimeoutAssumption DEF Init, ManagerInit
  <2>2. remaining \in 0..IdleTimeout /\ losses \in 0..MaxLosses
    BY LossesAssumption, IdleAssumption DEF Init, ManagerInit
  <2> QED
    BY <2>1, <2>2 DEF Init, ManagerInit, TypeOK, ManagerTypeOK, TabStates
<1>2. PagesSend /\ OwnerSeen
  BY NoneAssumption DEF Init, ManagerInit, PagesSend, OwnerSeen, Open
<1>3. TimeLeft
  BY IdleAssumption DEF Init, ManagerInit, TimeLeft
<1> QED
  BY <1>1, <1>2, <1>3 DEF SessionInv

\* The types and bounds that the counting below needs.
LEMMA NumberTypes ==
  ASSUME TypeOK
  PROVE  /\ unseen \in Nat /\ remaining \in Nat /\ losses \in Nat
         /\ losses <= MaxLosses /\ unseen <= ActiveClientTimeout + 1
         /\ remaining <= IdleTimeout
         /\ MaxLosses \in Nat /\ IdleTimeout \in Nat /\ ActiveClientTimeout \in Nat
         /\ ActiveClientTimeout > MaxLosses /\ IdleTimeout > MaxLosses + 2
         /\ resetIdle \in BOOLEAN /\ ticked \in BOOLEAN /\ shutdown \in BOOLEAN
         /\ tab \in [Clients -> TabStates]
         /\ requests \subseteq Requests
BY LossesAssumption, TimeoutAssumption, IdleAssumption
   DEF TypeOK, ManagerTypeOK

----------------------------------------------------------------------------
(* The steps of tabs.                                                      *)

LEMMA TabStepInv ==
  ASSUME SessionInv, NEW c \in Clients, TabStep(c) \/ PollStatus(c)
  PROVE  SessionInv'
<1> USE NumberTypes, RequestFields DEF SessionInv
<1>1. CASE OpenTab(c)
  <2>1. TypeOK'
    BY <1>1, RequestType
       DEF OpenTab, ResetIdleTimer, TypeOK, ManagerTypeOK, TabStates, ownership, Kinds
  <2>2. PagesSend'
    BY <1>1, RequestShape DEF OpenTab, TypeOK, PagesSend, Open, ownership, Kinds
  <2>3. OwnerSeen'
    BY <1>1 DEF OpenTab, ResetIdleTimer, PagesSend, OwnerSeen, Open, Pending, ownership
  <2>4. TimeLeft'
    BY <1>1 DEF OpenTab, ResetIdleTimer, TimeLeft, NewKeeps, OpenKeeps, Pending
  <2> QED
    BY <2>1, <2>2, <2>3, <2>4
<1>2. CASE PollStatus(c)
  <2>1. TypeOK'
    BY <1>2, RequestType
       DEF PollStatus, TypeOK, ManagerTypeOK, ownership, idleTimer, Kinds
  <2>2. PagesSend'
    BY <1>2 DEF PollStatus, PagesSend, Open, ownership, Kinds
  <2>3. OwnerSeen'
    BY <1>2 DEF PollStatus, OwnerSeen, Open, Pending, ownership, idleTimer
  <2>4. TimeLeft'
    BY <1>2 DEF PollStatus, TimeLeft, NewKeeps, OpenKeeps, Pending, idleTimer
  <2> QED
    BY <2>1, <2>2, <2>3, <2>4
<1>3. CASE TransferSession(c)
  <2>1. TypeOK'
    BY <1>3, RequestType
       DEF TransferSession, TypeOK, ManagerTypeOK, ownership, idleTimer, Kinds
  <2>2. PagesSend'
    BY <1>3 DEF TransferSession, PagesSend, Open, ownership, Kinds
  <2>3. OwnerSeen'
    BY <1>3 DEF TransferSession, OwnerSeen, Open, Pending, ownership, idleTimer
  <2>4. TimeLeft'
    BY <1>3 DEF TransferSession, TimeLeft, NewKeeps, OpenKeeps, Pending, idleTimer
  <2> QED
    BY <2>1, <2>2, <2>3, <2>4
<1>4. CASE DismissDialog(c)
  <2>1. TypeOK'
    BY <1>4 DEF DismissDialog, TypeOK, ManagerTypeOK, ownership, idleTimer, messages
  <2>2. PagesSend'
    BY <1>4 DEF DismissDialog, PagesSend, Open, ownership, messages
  <2>3. OwnerSeen'
    BY <1>4 DEF DismissDialog, OwnerSeen, Open, Pending, ownership, idleTimer,
                messages
  <2>4. TimeLeft'
    BY <1>4 DEF DismissDialog, TimeLeft, NewKeeps, OpenKeeps, Pending, idleTimer,
                messages
  <2> QED
    BY <2>1, <2>2, <2>3, <2>4
<1>5. ASSUME NEW beacon \in BOOLEAN, CloseTab(c, beacon) PROVE SessionInv'
  <2>1. TypeOK'
    BY <1>5, RequestType
       DEF CloseTab, TypeOK, ManagerTypeOK, ownership, idleTimer, Kinds, TabStates
  <2>0. /\ tab' = [tab EXCEPT ![c] = "gone"]
        /\ requests' \subseteq requests \cup {Request(c, "clear")}
        /\ requests \subseteq requests'
        /\ due' = due \ {c} /\ dialog' = dialog \ {c}
    BY <1>5 DEF CloseTab
  <2>2. PagesSend'
    BY <1>5, <2>0 DEF CloseTab, PagesSend, Open, ownership, Kinds
  <2>5. \A d \in Clients \ {c} : Pending(d)' <=> Pending(d)
    BY <2>0 DEF Pending
  <2>3. OwnerSeen'
    BY <1>5, <2>0, <2>5 DEF CloseTab, OwnerSeen, Open, ownership, idleTimer
  <2>4. TimeLeft'
    BY <1>5, <2>0, <2>5 DEF CloseTab, TimeLeft, NewKeeps, OpenKeeps, idleTimer
  <2> QED
    BY <2>1, <2>2, <2>3, <2>4
<1> QED
  BY <1>1, <1>2, <1>3, <1>4, <1>5 DEF TabStep

----------------------------------------------------------------------------
(* The steps of the proxy and the network.                                 *)

LEMMA ServedInv ==
  ASSUME SessionInv, Served
  PROVE  SessionInv'
<1> USE NumberTypes, RequestFields DEF SessionInv
<1>1. ASSUME NEW m \in requests, HandleGetStatus(m) PROVE SessionInv'
  <2>0. /\ m.client \in Clients /\ m = Request(m.client, m.kind)
        /\ m.kind \in {"poll", "transfer"} /\ ~shutdown
        /\ m.kind \in Kinds
        /\ requests' = requests \ {m}
        /\ resetIdle' = TRUE
        /\ UNCHANGED <<remaining, ticked, shutdown, pages, losses>>
        /\ \/ activeClientID' = m.client /\ unseen' = 0
           \/ UNCHANGED ownership /\ activeClientID # m.client
    BY <1>1, RequestShape
       DEF HandleGetStatus, ResetIdleTimer, SetActiveClient, IsActive, Kinds
  <2>6. IsActive(m.client, m.kind = "transfer") \in BOOLEAN
    BY DEF IsActive, ActiveExpired
  <2>00. /\ responses' \subseteq Responses
         /\ \A x \in responses' :
              x \in responses \/ (x.client = m.client /\ Open(m.client))
    BY <1>1, <2>0, <2>6 DEF HandleGetStatus, TypeOK, Responses
  <2>1. TypeOK'
    BY <2>0, <2>00 DEF TypeOK, ManagerTypeOK, pages, ownership, Responses
  <2>2. PagesSend'
    BY <2>0, <2>00 DEF PagesSend, Open, pages, ownership
  <2>3. OwnerSeen'
    BY <2>0 DEF OwnerSeen, Open, Pending, pages, ownership
  <2>4. TimeLeft'
    BY <2>0 DEF TimeLeft, NewKeeps, OpenKeeps, pages
  <2> QED
    BY <2>1, <2>2, <2>3, <2>4
<1>2. ASSUME NEW m \in requests, HandleClearClientID(m) PROVE SessionInv'
  <2>0. /\ m.client \in Clients /\ m = Request(m.client, "clear")
        /\ requests' = requests \ {m}
        /\ UNCHANGED <<unseen, idleTimer, pages, responses, losses>>
        /\ activeClientID' \in {None, activeClientID}
    BY <1>2, RequestShape DEF HandleClearClientID, ClearClient
  <2>5. \A c \in Clients : Pending(c)' <=> Pending(c)
    BY <2>0 DEF Pending, pages
  <2>1. TypeOK'
    BY <2>0 DEF TypeOK, ManagerTypeOK, pages, idleTimer
  <2>2. PagesSend'
    BY <2>0, NoneAssumption DEF PagesSend, Open, pages
  <2>3. OwnerSeen'
    BY <2>0, <2>5, NoneAssumption DEF OwnerSeen, Open, pages, idleTimer
  <2>4. TimeLeft'
    BY <2>0, <2>5 DEF TimeLeft, NewKeeps, OpenKeeps, pages, idleTimer
  <2> QED
    BY <2>1, <2>2, <2>3, <2>4
\* A lost call is paid for in losses, unless the server is down anyway.
<1>3. ASSUME NEW m \in requests, LoseRequest(m) PROVE SessionInv'
  <2>0. /\ m.client \in Clients /\ m = Request(m.client, m.kind)
        /\ requests' = requests \ {m}
        /\ UNCHANGED <<ownership, idleTimer, pages, responses>>
        /\ shutdown => losses' = losses
        /\ ~shutdown => losses < MaxLosses /\ losses' = losses + 1
    BY <1>3, RequestShape DEF LoseRequest
  <2>1. TypeOK'
    BY <2>0 DEF TypeOK, ManagerTypeOK, pages, idleTimer, ownership
  <2>2. PagesSend'
    BY <2>0 DEF PagesSend, Open, pages, ownership
  <2>3. OwnerSeen'
    BY <2>0 DEF OwnerSeen, Open, pages, idleTimer, ownership
  <2>4. TimeLeft'
    BY <2>0 DEF TimeLeft, NewKeeps, OpenKeeps, pages, idleTimer
  <2> QED
    BY <2>1, <2>2, <2>3, <2>4
<1>4. ASSUME NEW m \in responses, UpdateUI(m) PROVE SessionInv'
  <2>0. m.client \in Clients
    BY DEF TypeOK, Responses
  <2>1. TypeOK'
    BY <1>4, <2>0 DEF UpdateUI, TypeOK, ManagerTypeOK, idleTimer, ownership
  <2>2. PagesSend'
    BY <1>4 DEF UpdateUI, PagesSend, Open, ownership
  <2>3. OwnerSeen'
    BY <1>4 DEF UpdateUI, OwnerSeen, Open, Pending, idleTimer, ownership
  <2>4. TimeLeft'
    BY <1>4 DEF UpdateUI, TimeLeft, NewKeeps, OpenKeeps, Pending, idleTimer
  <2> QED
    BY <2>1, <2>2, <2>3, <2>4
<1>5. ASSUME NEW m \in responses, LoseResponse(m) PROVE SessionInv'
  <2>1. TypeOK'
    BY <1>5 DEF LoseResponse, TypeOK, ManagerTypeOK, pages, idleTimer, ownership
  <2>2. PagesSend'
    BY <1>5 DEF LoseResponse, PagesSend, Open, pages, ownership
  <2>3. OwnerSeen'
    BY <1>5 DEF LoseResponse, OwnerSeen, Open, Pending, pages, idleTimer, ownership
  <2>4. TimeLeft'
    BY <1>5 DEF LoseResponse, TimeLeft, NewKeeps, OpenKeeps, Pending, pages, idleTimer
  <2> QED
    BY <2>1, <2>2, <2>3, <2>4
<1> QED
  BY <1>1, <1>2, <1>3, <1>4, <1>5 DEF Served

----------------------------------------------------------------------------
(* The idle timer and the clock.                                           *)

LEMMA TimerInv ==
  ASSUME SessionInv, TimerStep
  PROVE  SessionInv'
<1> USE NumberTypes DEF SessionInv
<1>0. UNCHANGED <<ownership, pages, messages>>
  BY DEF TimerStep, TimerReset, TimerTick
<1>1. \A c \in Clients : Pending(c)' <=> Pending(c)
  BY <1>0 DEF Pending, pages, messages
<1>2. PagesSend'
  BY <1>0 DEF PagesSend, Open, pages, messages, ownership
<1>3. OwnerSeen'
  BY <1>0, <1>1 DEF TimerStep, TimerReset, TimerTick, OwnerSeen, Open, pages,
                    messages, ownership
<1>4. CASE TimerReset
  <2>4. remaining' = IdleTimeout /\ resetIdle' = FALSE
    BY <1>4 DEF TimerReset
  <2>3. remaining' \in 0..IdleTimeout
    BY <2>4
  <2>1. TypeOK'
    BY <1>0, <1>4, <2>3, <2>4
       DEF TimerReset, TypeOK, ManagerTypeOK, pages, messages, ownership
  <2>2. TimeLeft'
    BY <1>0, <1>1, <1>4
       DEF TimerReset, TimeLeft, NewKeeps, OpenKeeps, pages, messages
  <2> QED
    BY <1>2, <1>3, <2>1, <2>2
<1>5. CASE TimerTick
  <2>0. /\ ~shutdown /\ ticked /\ ~ticked' /\ remaining' = remaining - 1
        /\ UNCHANGED resetIdle
    BY <1>5 DEF TimerTick
  <2>3. shutdown' = (remaining - 1 <= 0)
    BY <1>5 DEF TimerTick
  <2>5. ~shutdown' => remaining' >= 1
    <3>1. CASE remaining - 1 <= 0
      BY <2>3, <3>1, Zenon
    <3>2. CASE ~(remaining - 1 <= 0)
      BY <2>0, <3>2
    <3> QED
      BY <3>1, <3>2
  <2>6. shutdown' \in BOOLEAN
    BY <2>3
  <2>4. remaining' \in 0..IdleTimeout
    BY <2>0 DEF TimeLeft, TypeOK, ManagerTypeOK
  <2>7. ticked' \in BOOLEAN
    BY <1>5 DEF TimerTick
  <2>1. TypeOK'
    BY <1>0, <2>0, <2>4, <2>6, <2>7
       DEF TypeOK, ManagerTypeOK, pages, messages, ownership
  <2>2. TimeLeft'
    BY <1>0, <1>1, <2>0, <2>5 DEF TimeLeft, NewKeeps, OpenKeeps, pages, messages
  <2> QED
    BY <1>2, <1>3, <2>1, <2>2
<1> QED
  BY <1>4, <1>5 DEF TimerStep

LEMMA SecondInv ==
  ASSUME SessionInv, Second
  PROVE  SessionInv'
<1> USE NumberTypes DEF SessionInv
<1>0. /\ due = {} /\ requests = {} /\ responses = {} /\ requests' = {}
      /\ shutdown \/ ~(ticked \/ resetIdle)
      /\ unseen' \in {unseen, unseen + 1} /\ unseen' <= ActiveClientTimeout + 1
      /\ ticked' = ~shutdown
      /\ due' = {c \in Clients : Open(c)}
      /\ UNCHANGED <<activeClientID, remaining, resetIdle, shutdown, frame,
                     dialog, responses, losses>>
  BY DEF Second, ManagerSecond, messages
<1>1. /\ tab' \in [Clients -> TabStates]
      /\ \A c \in Clients : /\ tab'[c] # "new" /\ (Open(c)' <=> Open(c))
                            /\ tab'[c] = "unopened" => tab[c] = "unopened"
                            /\ tab'[c] = "open" => tab[c] \in {"new", "open"}
                            /\ tab[c] = "gone" => tab'[c] = "gone"
                            /\ tab'[c] = "open" => c \in due'
  BY <1>0 DEF Second, TabStates, Open
<1>2. TypeOK'
  <2>1. ticked' \in BOOLEAN /\ unseen' \in 0..(ActiveClientTimeout + 1)
    BY <1>0
  <2> QED
    BY <1>0, <1>1, <2>1 DEF Second, TypeOK, ManagerTypeOK
<1>3. PagesSend'
  BY <1>0, <1>1 DEF PagesSend, TypeOK
<1>4. OwnerSeen'
  BY <1>0, <1>1 DEF OwnerSeen, Pending, Open
<1>5. TimeLeft'
  <2>1. CASE shutdown
    BY <1>0, <2>1 DEF TimeLeft
  <2>2. CASE ~shutdown
    <3>1. ~ticked /\ ~resetIdle /\ ticked' /\ ~resetIdle' /\ ~shutdown'
      BY <1>0, <2>2
    <3>2. \A c \in Clients : ~Pending(c)
      BY <1>0 DEF Pending
    <3>3. \A c \in Clients : tab'[c] = "open" => remaining + losses + 1 >= IdleTimeout
      BY <1>1, <2>2, <3>1, <3>2 DEF TimeLeft, NewKeeps, OpenKeeps
    <3>4. \A c \in Clients : tab'[c] = "open" => OpenKeeps(c)'
      BY <1>0, <1>1, <3>1, <3>3 DEF OpenKeeps, Pending
    <3> QED
      BY <1>0, <1>1, <2>2, <3>4 DEF TimeLeft
  <2> QED
    BY <2>1, <2>2
<1> QED
  BY <1>2, <1>3, <1>4, <1>5

----------------------------------------------------------------------------
(* All steps, and the theorems.                                            *)

LEMMA NextSession == SessionInv /\ [Next]_vars => SessionInv'
<1>1. ASSUME SessionInv, UNCHANGED vars PROVE SessionInv'
  BY <1>1 DEF SessionInv, TypeOK, ManagerTypeOK, PagesSend, OwnerSeen, TimeLeft,
              NewKeeps, OpenKeeps, Pending, Open, vars, ownership, idleTimer,
              pages, messages
<1> QED
  BY <1>1, TabStepInv, ServedInv, TimerInv, SecondInv DEF Next

\* Every variable keeps its type: in particular the idle timer never counts
\* below zero, for it ends when it comes there.
THEOREM SessionTypeCorrect == Spec => []TypeOK
<1>1. SessionInv => TypeOK
  BY DEF SessionInv
<1> QED
  BY <1>1, InitSession, NextSession, PTL DEF Spec

\* The owner of an open tab has not expired while the server runs.
LEMMA OpenOwnerActive ==
  ASSUME SessionInv, NEW c \in Clients, activeClientID = c, Open(c), ~shutdown
  PROVE  ~ActiveExpired
BY NumberTypes DEF SessionInv, OwnerSeen, ActiveExpired

LEMMA OwnerKeptStep ==
  ASSUME SessionInv, Next, NEW c \in Clients, activeClientID = c, Open(c),
         activeClientID' # c
  PROVE  Request(activeClientID', "transfer") \in requests
<1> USE NumberTypes, NoneAssumption
<1>1. ~UNCHANGED ownership
  BY DEF ownership
<1>2. PICK m \in requests : HandleGetStatus(m) \/ HandleClearClientID(m)
  <2>1. ~\E d \in Clients : TabStep(d) \/ PollStatus(d)
    BY <1>1 DEF TabStep, OpenTab, PollStatus, TransferSession, DismissDialog,
                CloseTab
  <2>2. ~TimerStep /\ ~Second
    BY DEF TimerStep, TimerReset, TimerTick, Second, ManagerSecond, ownership
  <2>3. ~\E m \in responses : UpdateUI(m) \/ LoseResponse(m)
    BY <1>1 DEF UpdateUI, LoseResponse
  <2>4. ~\E m \in requests : LoseRequest(m)
    BY <1>1 DEF LoseRequest
  <2> QED
    BY <2>1, <2>2, <2>3, <2>4 DEF Next, Served
<1>3. m = Request(m.client, m.kind) /\ m.client \in Clients
  BY RequestShape DEF SessionInv
<1>4. CASE HandleGetStatus(m)
  <2>1. ~ActiveExpired
    BY <1>4, OpenOwnerActive DEF HandleGetStatus
  <2>2. activeClientID' = m.client /\ IsActive(m.client, m.kind = "transfer")
    BY <1>1, <1>4 DEF HandleGetStatus, SetActiveClient
  <2>3. m.kind = "transfer"
    BY <2>1, <2>2 DEF IsActive
  <2> QED
    BY <1>3, <2>2, <2>3
<1>5. CASE HandleClearClientID(m)
  <2>1. m.client = c /\ m.kind = "clear"
    BY <1>5 DEF HandleClearClientID, ClearClient
  <2>2. tab[c] = "gone"
    BY <1>3, <2>1 DEF SessionInv, PagesSend
  <2> QED
    BY <2>2 DEF Open
<1> QED
  BY <1>2, <1>4, <1>5

\* An open tab loses the session only to a user who asked for it, for every
\* number of tabs and of lost polls that the expiry time outlasts.
THEOREM OpenOwnerKept == Spec => OwnerKept
<1>1. SessionInv /\ [Next]_vars
        => [\A c \in Clients :
              /\ activeClientID = c /\ Open(c)
              /\ activeClientID' # c
              => Request(activeClientID', "transfer") \in requests]_vars
  BY OwnerKeptStep
<1> QED
  BY <1>1, InitSession, NextSession, PTL DEF Spec, OwnerKept

LEMMA KeepsServerStep ==
  ASSUME SessionInv, Next, ~shutdown, shutdown', NEW c \in Clients
  PROVE  tab[c] # "open"
<1> USE NumberTypes
<1>1. ~UNCHANGED shutdown
  OBVIOUS
<1>2. TimerTick
  <2>1. ~\E d \in Clients : TabStep(d) \/ PollStatus(d)
    BY <1>1 DEF TabStep, OpenTab, PollStatus, TransferSession, DismissDialog,
                CloseTab, ResetIdleTimer, idleTimer
  <2>2. ~Served
    BY <1>1 DEF Served, HandleGetStatus, HandleClearClientID, LoseRequest,
                UpdateUI, LoseResponse, ResetIdleTimer, idleTimer
  <2>3. ~Second
    BY <1>1 DEF Second, ManagerSecond
  <2> QED
    BY <1>1, <2>1, <2>2, <2>3 DEF Next, TimerStep, TimerReset
<1>3. ticked /\ shutdown' = (remaining - 1 <= 0)
  BY <1>2 DEF TimerTick
<1>4. remaining - 1 <= 0
  BY <1>3, Zenon
<1> QED
  BY <1>3, <1>4 DEF SessionInv, TimeLeft, OpenKeeps

\* The idle shutdown never comes while a tab has been open for a second.
THEOREM OpenTabKeeps == Spec => OpenTabKeepsServer
<1>1. SessionInv /\ [Next]_vars
        => [~shutdown /\ shutdown' => \A c \in Clients : tab[c] # "open"]_vars
  BY KeepsServerStep
<1> QED
  BY <1>1, InitSession, NextSession, PTL DEF Spec, OpenTabKeepsServer
=============================================================================
