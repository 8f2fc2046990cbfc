------------------------ MODULE TerminalDrawerProofs ------------------------
(***************************************************************************)
(* Theorems about TerminalDrawer with the handlers it works with: types,   *)
(* the one terminal that the drawer has, and the shells that handlers      *)
(* leave behind, for any number of terminals and changes of size.          *)
(***************************************************************************)
EXTENDS TerminalDrawer, TLAPS

----------------------------------------------------------------------------
(* The invariant.                                                          *)

\* TypeOK by the module that a variable belongs to.
DrawerTypes ==
  /\ termState \in {"closed", "open", "minimized"}
  /\ termSocket \in Sockets \cup {None}
  /\ termState = "closed" <=> termSocket = None
  /\ resizes \in 0..MaxResizes
SizeTypes == observed \in BOOLEAN /\ stale \in BOOLEAN /\ resizing \in BOOLEAN

\* Whatever is opened, closed, minimized or lost, the page has no socket but
\* that of its terminal: none is left open behind a closed drawer, and no
\* callback of another socket finds it connecting or open (app.js:579, 625).
OneTerminal ==
  \A s \in Sockets : client[s] \in {"connecting", "open"} => s = termSocket

\* A size is under way only on a socket that has been opened, and only when
\* the PTY needs it.
SizeSent ==
  resizing => /\ stale /\ termSocket # None
              /\ client[termSocket] \in {"open", "closed"}

\* How far the handler of a socket is, and the shell that it has started.
HandlerStage(s) ==
  /\ client[s] = "unused" /\ ~crashed => pc[s] = "idle"
  /\ pc[s] = "idle" => /\ shell[s] = "none" /\ s \notin jobs
                       /\ output[s] = "off" /\ input[s] = "off"
  /\ pc[s] \in {"waiting", "closing", "joining"}
       => output[s] # "off" /\ input[s] # "off" /\ shell[s] # "none"
  /\ pc[s] \in {"closing", "joining"} => shell[s] = "dead"
  /\ pc[s] = "ended" /\ ~crashed => shell[s] # "running"
  /\ s \in jobs => shell[s] = "dead"
  /\ crashed => pc[s] = "ended" /\ output[s] = "done" /\ input[s] = "done"

Stages == \A s \in Sockets : HandlerStage(s)

TerminalInv ==
  /\ HandlerTypeOK /\ DrawerTypes /\ SizeTypes
  /\ OneTerminal /\ SizeSent /\ Stages

\* A handler that ends, other than with the proxy, does not leave its shell
\* running: it has waited for the shell, or has never had one.
EndedShellIsDead ==
  \A s \in Sockets : pc[s] = "ended" /\ ~crashed => shell[s] # "running"

LEMMA InvTypes == TerminalInv => TypeOK
BY DEF TerminalInv, DrawerTypes, SizeTypes, TypeOK

LEMMA InvEnds == TerminalInv => EndedShellIsDead
BY DEF TerminalInv, Stages, HandlerStage, EndedShellIsDead

LEMMA InitInv == Init => TerminalInv
<1> SUFFICES ASSUME Init PROVE TerminalInv
  OBVIOUS
<1>1. HandlerTypeOK
  BY DEF Init, HandlerInit, HandlerTypeOK, Copying
<1>2. DrawerTypes /\ SizeTypes
  <2>1. resizes \in 0..MaxResizes
    BY NoneAssumption DEF Init
  <2>2. SizeTypes
    BY DEF Init, SizeTypes
  <2> QED
    BY <2>1, <2>2 DEF Init, DrawerTypes
<1>3. OneTerminal /\ SizeSent /\ Stages
  BY DEF Init, HandlerInit, OneTerminal, SizeSent, Stages, HandlerStage
<1> QED
  BY <1>1, <1>2, <1>3 DEF TerminalInv

----------------------------------------------------------------------------
(* The steps of the page.                                                  *)

\* The page does not touch the handlers: they are as far as they were, unless
\* a socket that was unused is used now, which no handler knows of yet.
LEMMA HandlersStay ==
  ASSUME TerminalInv, UNCHANGED handlerVars,
         client' \in [Sockets -> {"unused", "connecting", "open", "closed"}],
         \A s \in Sockets : client'[s] = "unused" => client[s] = "unused"
  PROVE  HandlerTypeOK' /\ Stages'
<1>1. HandlerTypeOK'
  BY DEF TerminalInv, HandlerTypeOK, handlerVars
<1>2. Stages'
  BY DEF TerminalInv, Stages, HandlerStage, handlerVars
<1> QED
  BY <1>1, <1>2

LEMMA CloseButtonInv ==
  ASSUME TerminalInv, CloseButton
  PROVE  TerminalInv'
<1> USE NoneAssumption DEF TerminalInv
<1>1. client' = [s \in Sockets |-> IF s = termSocket THEN "closed" ELSE client[s]]
  BY DEF CloseButton, DestroyTerminal
<1>2. HandlerTypeOK' /\ Stages'
  <2>1. client' \in [Sockets -> {"unused", "connecting", "open", "closed"}]
    BY <1>1 DEF HandlerTypeOK
  <2> QED
    BY <1>1, <2>1, HandlersStay DEF CloseButton
<1>3. DrawerTypes' /\ SizeTypes'
  BY DEF CloseButton, DestroyTerminal, DrawerTypes, SizeTypes
<1>4. OneTerminal' /\ SizeSent'
  BY <1>1 DEF CloseButton, DestroyTerminal, OneTerminal, SizeSent
<1> QED
  BY <1>2, <1>3, <1>4

\* A drawer that opens finds no socket that is still in use.
LEMMA ToggleInv ==
  ASSUME TerminalInv, ToggleTerminal
  PROVE  TerminalInv'
<1> USE NoneAssumption DEF TerminalInv
<1>1. CASE /\ termState = "closed" /\ termState' = "open"
           /\ \E s \in Sockets : client[s] = "unused"
           /\ InitTerminal(CHOOSE s \in Sockets : client[s] = "unused")
  <2>1. PICK s \in Sockets : client[s] = "unused" /\ InitTerminal(s)
    BY <1>1
  <2>2. /\ client' = [client EXCEPT ![s] = "connecting"]
        /\ termSocket' = s /\ resizes' = resizes
        /\ observed' = TRUE /\ stale' = TRUE /\ resizing' = FALSE
    BY <2>1 DEF InitTerminal
  <2>3. HandlerTypeOK' /\ Stages'
    <3>1. client' \in [Sockets -> {"unused", "connecting", "open", "closed"}]
      BY <2>2 DEF HandlerTypeOK
    <3>2. \A t \in Sockets : client'[t] = "unused" => client[t] = "unused"
      BY <2>1, <2>2 DEF HandlerTypeOK
    <3> QED
      BY <3>1, <3>2, HandlersStay DEF ToggleTerminal
  <2>4. DrawerTypes' /\ SizeTypes' /\ SizeSent'
    BY <1>1, <2>1, <2>2 DEF DrawerTypes, SizeTypes, SizeSent
  <2>5. OneTerminal'
    <3>1. termSocket = None
      BY <1>1 DEF DrawerTypes
    <3>2. \A t \in Sockets : client[t] \notin {"connecting", "open"}
      BY <3>1 DEF OneTerminal
    <3> QED
      BY <2>2, <3>2 DEF OneTerminal, HandlerTypeOK
  <2> QED
    BY <2>3, <2>4, <2>5
<1>2. CASE /\ termState # "closed" /\ termState' \in {"open", "minimized"}
           /\ observed' \in {TRUE, observed}
           /\ UNCHANGED <<client, termSocket, stale, resizing, resizes>>
  <2>1. HandlerTypeOK' /\ Stages'
    BY <1>2, HandlersStay DEF ToggleTerminal, HandlerTypeOK
  <2>2. DrawerTypes' /\ SizeTypes'
    BY <1>2 DEF DrawerTypes, SizeTypes
  <2>3. OneTerminal' /\ SizeSent'
    BY <1>2 DEF OneTerminal, SizeSent
  <2> QED
    BY <2>1, <2>2, <2>3
<1> QED
  BY <1>1, <1>2 DEF ToggleTerminal, size

\* Sizes change, are observed and reach the PTY; the sockets stay.
LEMMA SizeInv ==
  ASSUME TerminalInv, Resize \/ Observe \/ ResizePTY
  PROVE  TerminalInv'
<1> USE NoneAssumption DEF TerminalInv
<1>1. UNCHANGED <<termState, termSocket, client>> /\ UNCHANGED handlerVars
  BY DEF Resize, Observe, ResizePTY
<1>2. HandlerTypeOK' /\ Stages'
  BY <1>1, HandlersStay DEF HandlerTypeOK
<1>3. resizes' \in 0..MaxResizes
  <2>1. resizes \in 0..MaxResizes
    BY DEF DrawerTypes
  <2>2. CASE Resize
    BY <2>1, <2>2 DEF Resize
  <2> QED
    BY <2>1, <2>2 DEF Observe, ResizePTY
<1>4. DrawerTypes'
  BY <1>1, <1>3 DEF DrawerTypes
<1>5. SizeTypes'
  BY DEF SizeTypes, Resize, Observe, ResizePTY
<1>6. SizeSent'
  <2>1. CASE Observe
    BY <1>1, <2>1 DEF Observe, SizeSent, SocketOpen
  <2> QED
    BY <1>1, <2>1 DEF Resize, ResizePTY, SizeSent
<1>7. OneTerminal'
  BY <1>1 DEF OneTerminal
<1> QED
  BY <1>2, <1>4, <1>5, <1>6, <1>7

\* A callback of a socket that opens is one of the current terminal's.
LEMMA OnOpenInv ==
  ASSUME TerminalInv, NEW s \in Sockets, OnOpen(s)
  PROVE  TerminalInv'
<1> USE NoneAssumption DEF TerminalInv
<1>1. /\ client[s] = "connecting" /\ client' = [client EXCEPT ![s] = "open"]
      /\ resizing' = (stale /\ termState = "open")
      /\ UNCHANGED <<termState, termSocket, observed, stale, resizes>>
  BY DEF OnOpen
<1>2. s = termSocket
  BY <1>1 DEF OneTerminal
<1>3. HandlerTypeOK' /\ Stages'
  <2>1. client' \in [Sockets -> {"unused", "connecting", "open", "closed"}]
    BY <1>1 DEF HandlerTypeOK
  <2>2. \A t \in Sockets : client'[t] = "unused" => client[t] = "unused"
    BY <1>1 DEF HandlerTypeOK
  <2> QED
    BY <2>1, <2>2, HandlersStay DEF OnOpen
<1>4. DrawerTypes' /\ SizeTypes'
  BY <1>1 DEF DrawerTypes, SizeTypes
<1>5. OneTerminal' /\ SizeSent'
  BY <1>1, <1>2 DEF OneTerminal, SizeSent, HandlerTypeOK
<1> QED
  BY <1>3, <1>4, <1>5

LEMMA OnCloseInv ==
  ASSUME TerminalInv, NEW s \in Sockets, OnClose(s)
  PROVE  TerminalInv'
<1> USE NoneAssumption DEF TerminalInv
<1>1. /\ client[s] \in {"connecting", "open"}
      /\ client' = [client EXCEPT ![s] = "closed"]
      /\ UNCHANGED <<termState, termSocket, observed, stale, resizing, resizes>>
  BY DEF OnClose, drawerVars, size
<1>2. HandlerTypeOK' /\ Stages'
  <2>1. client' \in [Sockets -> {"unused", "connecting", "open", "closed"}]
    BY <1>1 DEF HandlerTypeOK
  <2>2. \A t \in Sockets : client'[t] = "unused" => client[t] = "unused"
    BY <1>1 DEF HandlerTypeOK
  <2> QED
    BY <2>1, <2>2, HandlersStay DEF OnClose
<1>3. DrawerTypes' /\ SizeTypes'
  BY <1>1 DEF DrawerTypes, SizeTypes
<1>4. OneTerminal' /\ SizeSent'
  BY <1>1 DEF OneTerminal, SizeSent, HandlerTypeOK, DrawerTypes
<1> QED
  BY <1>2, <1>3, <1>4

LEMMA LeaveInv ==
  ASSUME TerminalInv, Leave
  PROVE  TerminalInv'
<1> USE NoneAssumption DEF TerminalInv
<1>1. client' = [s \in Sockets |->
                  IF client[s] = "unused" THEN "unused" ELSE "closed"]
  BY DEF Leave
<1>2. HandlerTypeOK' /\ Stages'
  <2>1. client' \in [Sockets -> {"unused", "connecting", "open", "closed"}]
    BY <1>1
  <2> QED
    BY <1>1, <2>1, HandlersStay DEF Leave
<1>3. DrawerTypes' /\ SizeTypes'
  BY DEF Leave, DrawerTypes, SizeTypes
<1>4. OneTerminal' /\ SizeSent'
  BY <1>1 DEF Leave, OneTerminal, SizeSent
<1> QED
  BY <1>2, <1>3, <1>4

----------------------------------------------------------------------------
(* The steps of a handler.                                                 *)

\* A handler does not touch the page.
LEMMA PageStays ==
  ASSUME TerminalInv, UNCHANGED drawerVars, UNCHANGED client
  PROVE  DrawerTypes' /\ SizeTypes' /\ OneTerminal' /\ SizeSent'
<1>1. UNCHANGED <<termState, termSocket, observed, stale, resizing, resizes>>
  BY DEF drawerVars, size
<1>2. DrawerTypes' /\ SizeTypes'
  BY <1>1 DEF TerminalInv, DrawerTypes, SizeTypes
<1>3. OneTerminal' /\ SizeSent'
  BY <1>1 DEF TerminalInv, OneTerminal, SizeSent
<1> QED
  BY <1>2, <1>3

\* The goroutines of a socket leave the other sockets' alone, unless the
\* proxy ends.
LEMMA HandlerTypes ==
  ASSUME HandlerTypeOK, NEW s \in Sockets, HandlerNext(s)
  PROVE  HandlerTypeOK'
<1> USE DEF HandlerTypeOK, Copying
<1>1. CASE Upgrade(s)
  BY <1>1 DEF Upgrade
<1>2. CASE ReadOutput(s) \/ ReadEnd(s) \/ WriteOutput(s)
  BY <1>2 DEF ReadOutput, ReadEnd, WriteOutput
<1>3. CASE ReadInput(s) \/ WriteInputFails(s)
  BY <1>3 DEF ReadInput, WriteInputFails, ShellDies
<1>4. CASE Wait(s) \/ SendClose(s) \/ Join(s)
  BY <1>4 DEF Wait, SendClose, Join
<1>5. CASE ConcurrentWrite(s)
  <2>1. UNCHANGED <<client, shell, jobs>>
    BY <1>5 DEF ConcurrentWrite
  <2>2. CASE /\ pc' = [pc EXCEPT ![s] = "ended"]
             /\ UNCHANGED <<output, input, crashed>>
    BY <2>1, <2>2
  <2>3. CASE /\ crashed' = TRUE
             /\ pc' = [t \in Sockets |-> "ended"]
             /\ output' = [t \in Sockets |-> "done"]
             /\ input' = [t \in Sockets |-> "done"]
    BY <2>1, <2>3
  <2> QED
    BY <1>5, <2>2, <2>3 DEF ConcurrentWrite
<1>6. CASE JobEnds(s) \/ ShellExits(s)
  BY <1>6 DEF JobEnds, ShellExits, ShellDies
<1> QED
  BY <1>1, <1>2, <1>3, <1>4, <1>5, <1>6 DEF HandlerNext

\* The main goroutine goes on only with a shell that is dead.
LEMMA HandlerStages ==
  ASSUME HandlerTypeOK, Stages, NEW s \in Sockets, HandlerNext(s),
         NEW t \in Sockets
  PROVE  HandlerStage(t)'
<1> USE DEF HandlerTypeOK, Copying
<1>0. HandlerStage(t) /\ HandlerStage(s)
  BY DEF Stages
<1>1. CASE Upgrade(s)
  BY <1>0, <1>1 DEF Upgrade, HandlerStage
<1>2. CASE ReadOutput(s)
  BY <1>0, <1>2 DEF ReadOutput, HandlerStage
<1>3. CASE ReadEnd(s)
  BY <1>0, <1>3 DEF ReadEnd, HandlerStage
<1>4. CASE WriteOutput(s)
  BY <1>0, <1>4 DEF WriteOutput, HandlerStage
<1>5. CASE ReadInput(s)
  BY <1>0, <1>5 DEF ReadInput, ShellDies, HandlerStage
<1>6. CASE WriteInputFails(s)
  BY <1>0, <1>6 DEF WriteInputFails, HandlerStage
<1>7. CASE Wait(s)
  BY <1>0, <1>7 DEF Wait, HandlerStage
<1>8. CASE SendClose(s)
  BY <1>0, <1>8 DEF SendClose, HandlerStage
<1>9. CASE ConcurrentWrite(s)
  BY <1>0, <1>9 DEF ConcurrentWrite, HandlerStage
<1>10. CASE Join(s)
  BY <1>0, <1>10 DEF Join, HandlerStage
<1>11. CASE JobEnds(s)
  BY <1>0, <1>11 DEF JobEnds, HandlerStage
<1>12. CASE ShellExits(s)
  BY <1>0, <1>12 DEF ShellExits, ShellDies, HandlerStage
<1> QED
  BY <1>1, <1>2, <1>3, <1>4, <1>5, <1>6, <1>7, <1>8, <1>9, <1>10, <1>11,
     <1>12 DEF HandlerNext

LEMMA HandlerInv ==
  ASSUME TerminalInv, NEW s \in Sockets, HandlerNext(s), UNCHANGED drawerVars
  PROVE  TerminalInv'
<1>1. HandlerTypeOK'
  BY HandlerTypes DEF TerminalInv
<1>2. Stages'
  BY HandlerStages DEF TerminalInv, Stages
<1>3. UNCHANGED client
  BY DEF HandlerNext, Upgrade, ReadOutput, ReadEnd, WriteOutput, ReadInput,
         WriteInputFails, Wait, SendClose, ConcurrentWrite, Join, JobEnds,
         ShellExits
<1> QED
  BY <1>1, <1>2, <1>3, PageStays DEF TerminalInv

----------------------------------------------------------------------------
\* TerminalInv is inductive.
LEMMA NextInv == TerminalInv /\ [Next]_vars => TerminalInv'
<1> SUFFICES ASSUME TerminalInv, [Next]_vars PROVE TerminalInv'
  OBVIOUS
<1>1. ASSUME UNCHANGED vars PROVE TerminalInv'
  <2>1. UNCHANGED drawerVars /\ UNCHANGED handlerVars /\ UNCHANGED client
    BY <1>1 DEF vars
  <2>2. HandlerTypeOK' /\ Stages'
    BY <2>1, HandlersStay DEF TerminalInv, HandlerTypeOK
  <2> QED
    BY <2>1, <2>2, PageStays DEF TerminalInv
<1> QED
  BY <1>1, ToggleInv, CloseButtonInv, SizeInv, LeaveInv, OnOpenInv, OnCloseInv,
     HandlerInv DEF Next

\* The drawer and the handlers of all its sockets keep their types, and the
\* drawer has a terminal exactly as long as it is not closed.
THEOREM TerminalTypeCorrect == Spec => []TypeOK
BY InitInv, NextInv, InvTypes, PTL DEF Spec

\* The page has no socket in use but that of its terminal, so that the
\* callbacks that use the current one use their own.
THEOREM OneTerminalKept == Spec => []OneTerminal
<1>1. TerminalInv => OneTerminal
  BY DEF TerminalInv
<1> QED
  BY <1>1, InitInv, NextInv, PTL DEF Spec

\* No handler leaves its shell running, unless the proxy ends with it.
THEOREM ShellsEnded == Spec => []EndedShellIsDead
BY InitInv, NextInv, InvEnds, PTL DEF Spec
=============================================================================
