------------------------- MODULE AttachedProcessProofs -------------------------
(***************************************************************************)
(* Theorems about AttachedProcess: for any number of callers, any bounds   *)
(* and every fault at first, then for one user whose connector answers or  *)
(* refuses in time.                                                        *)
(***************************************************************************)
EXTENDS AttachedProcess, TLAPS

----------------------------------------------------------------------------
(* Type correctness.                                                       *)

\* TypeOK in parts.
FieldTypes ==
  /\ status \in {"down", "starting", "up", "stopping"}
  /\ connector \in Attaches \cup {None}
  /\ matlab \in {"absent", "serving", "gone"}
HandleTypes ==
  /\ cancel \in Attaches \cup {None}
  /\ done \in Channels
  /\ cancelled \subseteq Attaches
  /\ closed \subseteq Channels
PanicType == panicked \in BOOLEAN
CallerTypes ==
  /\ pc \in [Callers -> CallerPcs]
  /\ call \in [Callers -> Channels]
  /\ nextAttach \in 1..(MaxAttaches + 1)
RunnerTypes ==
  /\ rpc \in [Attaches -> RunPcs]
  /\ chan \in [Attaches -> Channels]
  /\ consecutiveFailures \in [Attaches -> 0..MaxFailures]

\* A call of Attach that has not spawned its attachment yet.
Pending(c) == pc[c] \in {"setCancel", "setDone"}

\* Every attachment is spawned once, by the call that has drawn its number.
SpawnedOnce ==
  /\ \A c \in Callers :
       Pending(c) => /\ call[c] \in Attaches /\ call[c] < nextAttach
                     /\ rpc[call[c]] = "unborn"
  /\ \A c, k \in Callers : Pending(c) /\ Pending(k) /\ c # k => call[c] # call[k]
  /\ \A a \in Attaches : a >= nextAttach => rpc[a] = "unborn"

\* The monitor looks at the count as soon as it is full.
CountFits ==
  \A a \in Attaches : consecutiveFailures[a] = MaxFailures => rpc[a] = "silent"

TypeInv ==
  /\ FieldTypes /\ HandleTypes /\ PanicType /\ CallerTypes /\ RunnerTypes
  /\ SpawnedOnce /\ CountFits

LEMMA TypeInvTypes == TypeInv => TypeOK
BY DEF TypeInv, TypeOK, FieldTypes, HandleTypes, PanicType, CallerTypes,
       RunnerTypes

LEMMA InitTypeInv == Init => TypeInv
<1> SUFFICES ASSUME Init PROVE TypeInv
  OBVIOUS
<1> USE BoundsAssumption, NoneAssumption
<1>1. FieldTypes /\ HandleTypes
  BY DEF Init, FieldTypes, HandleTypes, Channels
<1>2. PanicType
  BY DEF Init, PanicType
<1>3. CallerTypes /\ RunnerTypes
  BY DEF Init, CallerTypes, RunnerTypes, CallerPcs, RunPcs, Channels
<1>4. SpawnedOnce /\ CountFits
  BY DEF Init, SpawnedOnce, CountFits, Pending
<1> QED
  BY <1>1, <1>2, <1>3, <1>4 DEF TypeInv

\* The steps of the callers.
LEMMA CallerTypeInv ==
  ASSUME TypeInv, NEW c \in Callers, Attach(c) \/ Stop(c) \/ CallerStep(c)
  PROVE  TypeInv'
<1> USE BoundsAssumption, NoneAssumption
<1>1. CASE Attach(c)
  <2>1. FieldTypes' /\ HandleTypes'
    BY <1>1 DEF Attach, TypeInv, FieldTypes, HandleTypes, handles, runtime
  <2>2. PanicType' /\ CountFits'
    BY <1>1 DEF Attach, TypeInv, PanicType, CountFits, runtime, runners
  <2>3. CallerTypes' /\ RunnerTypes'
    BY <1>1 DEF Attach, Goto, TypeInv, CallerTypes, RunnerTypes, CallerPcs,
                Attaches, Channels, runners
  <2>4. SpawnedOnce'
    <3>1. /\ pc' = [pc EXCEPT ![c] = "setCancel"]
          /\ call' = [call EXCEPT ![c] = nextAttach]
          /\ nextAttach' = nextAttach + 1 /\ nextAttach \in Attaches
          /\ rpc' = rpc /\ pc[c] = "idle"
      BY <1>1 DEF Attach, Goto, runners
    <3>2. rpc[nextAttach] = "unborn"
      BY <3>1 DEF TypeInv, SpawnedOnce, Attaches
    <3>3. \A k \in Callers : k # c /\ Pending(k)' =>
            Pending(k) /\ call'[k] = call[k]
      BY <3>1 DEF Pending, TypeInv, CallerTypes
    <3>4. call'[c] = nextAttach
      BY <3>1 DEF TypeInv, CallerTypes
    <3> QED
      BY <3>1, <3>2, <3>3, <3>4 DEF TypeInv, SpawnedOnce, CallerTypes, Attaches
  <2> QED
    BY <2>1, <2>2, <2>3, <2>4 DEF TypeInv
<1>2. CASE SetDone(c)
  <2>1. /\ call[c] \in Attaches /\ call[c] < nextAttach
        /\ Pending(c)
    BY <1>2 DEF SetDone, Pending, TypeInv, SpawnedOnce
  <2>2. /\ pc' = [pc EXCEPT ![c] = "idle"]
        /\ call' = [call EXCEPT ![c] = 0]
        /\ rpc' = [rpc EXCEPT ![call[c]] = "spawned"]
        /\ UNCHANGED <<nextAttach, chan, consecutiveFailures>>
    BY <1>2 DEF SetDone, Goto
  <2>3. FieldTypes' /\ HandleTypes'
    BY <1>2, <2>1 DEF SetDone, TypeInv, FieldTypes, HandleTypes, fields,
                      runtime, Channels, Attaches
  <2>4. PanicType'
    BY <1>2 DEF SetDone, TypeInv, PanicType, runtime
  <2>5. CallerTypes' /\ RunnerTypes'
    BY <2>1, <2>2 DEF TypeInv, CallerTypes, RunnerTypes, CallerPcs, RunPcs,
                      Channels
  <2>6. CountFits'
    BY <2>1, <2>2 DEF TypeInv, CountFits, SpawnedOnce, RunnerTypes
  <2>7. SpawnedOnce'
    <3>1. \A k \in Callers : Pending(k)' =>
            k # c /\ Pending(k) /\ call'[k] = call[k] /\ call[k] # call[c]
      BY <2>1, <2>2 DEF Pending, TypeInv, CallerTypes, SpawnedOnce
    <3>2. \A a \in Attaches : a # call[c] => rpc'[a] = rpc[a]
      BY <2>2 DEF TypeInv, RunnerTypes
    <3> QED
      BY <2>1, <2>2, <3>1, <3>2 DEF TypeInv, SpawnedOnce, CallerTypes, Attaches
  <2> QED
    BY <2>3, <2>4, <2>5, <2>6, <2>7 DEF TypeInv
<1>3. CASE SetCancel(c) \/ Stop(c) \/ Cancel(c) \/ Drain(c) \/ Await(c) \/ Settle(c)
  <2>1. UNCHANGED <<runners, nextAttach, panicked, matlab>>
    BY <1>3 DEF SetCancel, Stop, Cancel, Drain, Await, Settle, runtime
  <2>2. PICK to \in CallerPcs : Goto(c, to) /\ (to = "setDone" <=> SetCancel(c))
                                /\ to # "setCancel"
    BY <1>3 DEF SetCancel, Stop, Cancel, Drain, Await, Settle, Goto, CallerPcs
  <2>3. \/ call' = call
        \/ ~SetCancel(c) /\ \E ch \in Channels : call' = [call EXCEPT ![c] = ch]
    BY <1>3 DEF SetCancel, Stop, Cancel, Drain, Await, Settle, Channels,
                TypeInv, HandleTypes
  <2>4. FieldTypes'
    BY <1>3, <2>1 DEF SetCancel, Stop, Cancel, Drain, Await, Settle, Detached,
                TypeInv, FieldTypes, fields
  <2>5. HandleTypes'
    <3>1. SetCancel(c) => call[c] \in Attaches
      BY DEF SetCancel, TypeInv, SpawnedOnce, Pending
    <3> QED
      BY <1>3, <3>1 DEF SetCancel, Stop, Cancel, Drain, Await, Settle,
                TypeInv, HandleTypes, handles, runtime
  <2>6. PanicType' /\ CountFits'
    BY <2>1 DEF TypeInv, PanicType, CountFits, runners
  <2>7. CallerTypes' /\ RunnerTypes'
    BY <2>1, <2>2, <2>3 DEF Goto, TypeInv, CallerTypes, RunnerTypes, runners
  <2>8. SpawnedOnce'
    <3>1. \A k \in Callers : Pending(k)' => Pending(k) /\ call'[k] = call[k]
      BY <2>2, <2>3 DEF Goto, Pending, TypeInv, CallerTypes, SetCancel
    <3> QED
      BY <2>1, <3>1 DEF TypeInv, SpawnedOnce, runners
  <2> QED
    BY <2>4, <2>5, <2>6, <2>7, <2>8 DEF TypeInv
<1> QED
  BY <1>1, <1>2, <1>3 DEF CallerStep

\* The steps of the attachments.
LEMMA RunnerTypeInv ==
  ASSUME TypeInv, NEW a \in Attaches, RunStep(a)
  PROVE  TypeInv'
<1> USE BoundsAssumption, NoneAssumption
<1>1. UNCHANGED <<handles, cancelled, callers, matlab>>
  BY DEF RunStep, Begin, GiveUp, AttachTimeout, Ping, BecomeUp, NoticeCancel,
         Tick, Query, PingAgain, CountSilence, Close, runtime
<1>2. PICK to \in RunPcs \ {"unborn"} :
        rpc[a] # "unborn" /\ rpc' = [rpc EXCEPT ![a] = to]
  BY DEF RunStep, Begin, GiveUp, AttachTimeout, Ping, BecomeUp, NoticeCancel,
         Tick, Query, PingAgain, CountSilence, Close, EndMonitor, Advance,
         RunPcs
<1>3. FieldTypes'
  BY <1>1 DEF RunStep, Begin, GiveUp, AttachTimeout, Ping, BecomeUp,
         NoticeCancel, Tick, Query, PingAgain, CountSilence, Close, Detached,
         TypeInv, FieldTypes, fields
<1>4. closed' = closed \/ closed' = closed \cup {chan[a]}
  BY DEF RunStep, Begin, GiveUp, AttachTimeout, Ping, BecomeUp, NoticeCancel,
         Tick, Query, PingAgain, CountSilence, Close, runtime
<1>5. HandleTypes'
  BY <1>1, <1>4 DEF TypeInv, HandleTypes, RunnerTypes, handles
<1>6. PanicType'
  <2>1. CASE Close(a)
    <3>1. panicked' = TRUE \/ panicked' = panicked
      BY <2>1 DEF Close
    <3> QED
      BY <3>1 DEF TypeInv, PanicType
  <2>2. CASE ~Close(a)
    <3>1. UNCHANGED runtime
      BY <2>2 DEF RunStep, Begin, GiveUp, AttachTimeout, Ping, BecomeUp,
             NoticeCancel, Tick, Query, PingAgain, CountSilence
    <3>2. panicked' = panicked
      BY <3>1 DEF runtime
    <3> QED
      BY <3>2 DEF TypeInv, PanicType
  <2> QED
    BY <2>1, <2>2
<1>7. chan' \in [Attaches -> Channels]
  BY DEF RunStep, Begin, GiveUp, AttachTimeout, Ping, BecomeUp, NoticeCancel,
         Tick, Query, PingAgain, CountSilence, Close, TypeInv, RunnerTypes,
         HandleTypes, Channels
<1>8. \/ consecutiveFailures' = consecutiveFailures
      \/ consecutiveFailures' = [consecutiveFailures EXCEPT ![a] = 0]
      \/ /\ consecutiveFailures' =
              [consecutiveFailures EXCEPT ![a] = consecutiveFailures[a] + 1]
         /\ rpc[a] = "ping" /\ rpc' = [rpc EXCEPT ![a] = "silent"]
  BY DEF RunStep, Begin, GiveUp, AttachTimeout, Ping, BecomeUp, NoticeCancel,
         Tick, Query, PingAgain, CountSilence, Close, EndMonitor, Advance
<1>9. consecutiveFailures[a] = MaxFailures => rpc[a] = "silent"
  BY DEF TypeInv, CountFits
<1>10. consecutiveFailures' \in [Attaches -> 0..MaxFailures]
  BY <1>8, <1>9 DEF TypeInv, RunnerTypes
<1>11. CallerTypes' /\ RunnerTypes'
  BY <1>1, <1>2, <1>7, <1>10 DEF Advance, TypeInv, CallerTypes, RunnerTypes,
                                callers
<1>12. rpc[a] = "silent" => consecutiveFailures'[a] # MaxFailures
  <2>1. ASSUME rpc[a] = "silent" PROVE CountSilence(a)
    BY <2>1 DEF RunStep, Begin, GiveUp, AttachTimeout, Ping, BecomeUp,
         NoticeCancel, Tick, Query, PingAgain, CountSilence, Close,
         EndMonitor, Advance
  <2>2. consecutiveFailures[a] \in 0..MaxFailures
    BY DEF TypeInv, RunnerTypes
  <2>3. ASSUME CountSilence(a) PROVE consecutiveFailures'[a] # MaxFailures
    BY <2>2, <2>3 DEF CountSilence, EndMonitor, TypeInv, RunnerTypes
  <2> QED
    BY <2>1, <2>3
<1>13. CountFits'
  <2>1. \A b \in Attaches \ {a} : /\ rpc'[b] = rpc[b]
                                 /\ consecutiveFailures'[b] = consecutiveFailures[b]
    BY <1>2, <1>8 DEF Advance, TypeInv, RunnerTypes
  <2>2. consecutiveFailures'[a] = MaxFailures => rpc'[a] = "silent"
    BY <1>2, <1>8, <1>9, <1>12 DEF TypeInv, RunnerTypes
  <2> QED
    BY <2>1, <2>2 DEF TypeInv, CountFits
<1>14. SpawnedOnce'
  <2>1. /\ \A b \in Attaches : rpc[b] = "unborn" => rpc'[b] = "unborn"
    BY <1>2 DEF Advance, TypeInv, RunnerTypes
  <2>2. UNCHANGED <<pc, call, nextAttach>>
    BY <1>1 DEF callers
  <2> QED
    BY <2>1, <2>2 DEF TypeInv, SpawnedOnce, Pending
<1> QED
  BY <1>3, <1>5, <1>6, <1>11, <1>13, <1>14 DEF TypeInv

\* TypeInv is inductive.
LEMMA NextTypeInv == TypeInv /\ [Next]_vars => TypeInv'
<1> SUFFICES ASSUME TypeInv, [Next]_vars PROVE TypeInv'
  OBVIOUS
<1>1. ASSUME NEW c \in Callers, Attach(c) \/ Stop(c) \/ CallerStep(c)
      PROVE  TypeInv'
  BY <1>1, CallerTypeInv
<1>2. ASSUME NEW a \in Attaches, RunStep(a) PROVE TypeInv'
  BY <1>2, RunnerTypeInv
<1>3. CASE Serve \/ Leave
  <2>1. UNCHANGED <<fields, handles, runtime, callers, runners>>
        /\ matlab' \in {"serving", "gone"}
    BY <1>3 DEF Serve, Leave
  <2>2. FieldTypes' /\ HandleTypes'
    BY <2>1 DEF TypeInv, FieldTypes, HandleTypes, fields, handles, runtime
  <2>3. PanicType'
    BY <2>1 DEF TypeInv, PanicType, runtime
  <2>4. CallerTypes' /\ RunnerTypes' /\ CountFits'
    BY <2>1 DEF TypeInv, CallerTypes, RunnerTypes, CountFits, callers, runners
  <2>5. SpawnedOnce'
    BY <2>1 DEF TypeInv, SpawnedOnce, Pending, callers, runners
  <2> QED
    BY <2>2, <2>3, <2>4, <2>5 DEF TypeInv
<1>4. CASE UNCHANGED vars
  <2>1. FieldTypes' /\ HandleTypes'
    BY <1>4 DEF TypeInv, FieldTypes, HandleTypes, vars, fields, handles, runtime
  <2>2. PanicType'
    BY <1>4 DEF TypeInv, PanicType, vars, runtime
  <2>3. CallerTypes' /\ RunnerTypes' /\ CountFits'
    BY <1>4 DEF TypeInv, CallerTypes, RunnerTypes, CountFits, vars, callers,
                runners
  <2>4. SpawnedOnce'
    BY <1>4 DEF TypeInv, SpawnedOnce, Pending, vars, callers, runners
  <2> QED
    BY <2>1, <2>2, <2>3, <2>4 DEF TypeInv
<1> QED
  BY <1>1, <1>2, <1>3, <1>4 DEF Next, NewCall

\* The fields of the process, the channels and the count of failures keep
\* their types: in particular the count never passes MaxFailures.
THEOREM AttachedTypeCorrect == Spec => []TypeOK
<1>1. Spec => []TypeInv
  BY InitTypeInv, NextTypeInv, PTL DEF Spec
<1> QED
  BY <1>1, TypeInvTypes, PTL

----------------------------------------------------------------------------
(* The connector.                                                          *)

\* The connector is watched by the very attachment that stored it.
ConnectorInv ==
  /\ UpHasConnector
  /\ connector # None => Watching(connector)

LEMMA ConnectorInvWatched == TypeInv /\ ConnectorInv => ConnectorWatched
BY DEF TypeInv, FieldTypes, ConnectorInv, ConnectorWatched

LEMMA InitConnectorInv == Init => ConnectorInv
BY DEF Init, ConnectorInv, UpHasConnector

\* Every step that ends a monitor leaves no connector or finds none.
LEMMA NextConnectorInv ==
  ASSUME TypeInv, ConnectorInv, [Next]_vars
  PROVE  ConnectorInv'
<1> USE NoneAssumption, BoundsAssumption
<1>0. connector \in Attaches \cup {None} /\ rpc \in [Attaches -> RunPcs]
  BY DEF TypeInv, FieldTypes, RunnerTypes
<1>1. ASSUME NEW c \in Callers, SetDone(c) PROVE ConnectorInv'
  <2>1. call[c] \in Attaches /\ rpc[call[c]] = "unborn"
    BY <1>1 DEF SetDone, TypeInv, SpawnedOnce, Pending
  <2>2. /\ status' = status /\ connector' = connector
        /\ rpc' = [rpc EXCEPT ![call[c]] = "spawned"]
    BY <1>1 DEF SetDone, fields
  <2> QED
    BY <1>0, <2>1, <2>2 DEF ConnectorInv, UpHasConnector, Watching
<1>2. ASSUME NEW c \in Callers,
             \/ Attach(c) \/ Stop(c) \/ SetCancel(c) \/ Cancel(c) \/ Drain(c)
             \/ Await(c) \/ Settle(c)
      PROVE  ConnectorInv'
  <2>1. /\ rpc' = rpc
        /\ connector' = connector \/ connector' = None
        /\ status' = "up" => status = "up" /\ connector' = connector
    BY <1>2 DEF Attach, Stop, SetCancel, Cancel, Drain, Await, Settle, Detached,
                fields, runners
  <2> QED
    BY <1>0, <2>1 DEF ConnectorInv, UpHasConnector, Watching
<1>3. ASSUME NEW a \in Attaches, BecomeUp(a) PROVE ConnectorInv'
  <2>1. connector' = a /\ rpc' = [rpc EXCEPT ![a] = "watch"]
    BY <1>3 DEF BecomeUp, Advance
  <2> QED
    BY <1>0, <2>1 DEF ConnectorInv, UpHasConnector, Watching, Attaches
<1>4. ASSUME NEW a \in Attaches,
             NoticeCancel(a) \/ Tick(a) \/ Query(a) \/ PingAgain(a)
               \/ CountSilence(a)
      PROVE  ConnectorInv'
  <2>1. CASE connector' = None /\ status' # "up"
    BY <2>1 DEF ConnectorInv, UpHasConnector
  <2>2. CASE connector = None /\ status' = status /\ connector' = connector
    BY <2>2 DEF ConnectorInv, UpHasConnector
  <2>3. CASE /\ UNCHANGED fields
             /\ \E to \in {"watch", "query", "ping", "silent"} :
                  rpc' = [rpc EXCEPT ![a] = to]
    BY <1>0, <2>3 DEF ConnectorInv, UpHasConnector, Watching, fields
  <2> QED
    BY <1>4, <2>1, <2>2, <2>3
       DEF NoticeCancel, Tick, Query, PingAgain, CountSilence, Detached,
           Advance, fields
<1>5. ASSUME NEW a \in Attaches,
             Begin(a) \/ GiveUp(a) \/ AttachTimeout(a) \/ Ping(a) \/ Close(a)
      PROVE  ConnectorInv'
  <2>1. /\ connector' = connector /\ (status' = "up" => status = "up")
        /\ ~Watching(a) /\ \E to \in RunPcs : rpc' = [rpc EXCEPT ![a] = to]
    BY <1>5 DEF Begin, GiveUp, AttachTimeout, Ping, Close, Advance, Watching,
                fields, RunPcs
  <2> QED
    BY <1>0, <2>1 DEF ConnectorInv, UpHasConnector, Watching
<1>6. CASE Serve \/ Leave \/ UNCHANGED vars
  <2>1. UNCHANGED <<status, connector, rpc>>
    BY <1>6 DEF Serve, Leave, vars, fields, runners
  <2> QED
    BY <2>1 DEF ConnectorInv, UpHasConnector, Watching
<1> QED
  BY <1>1, <1>2, <1>3, <1>4, <1>5, <1>6
     DEF Next, NewCall, CallerStep, RunStep

LEMMA AttachedInvariant == Spec => [](TypeInv /\ ConnectorInv)
<1>1. Init => TypeInv /\ ConnectorInv
  BY InitTypeInv, InitConnectorInv
<1>2. TypeInv /\ ConnectorInv /\ [Next]_vars => (TypeInv /\ ConnectorInv)'
  BY NextTypeInv, NextConnectorInv
<1> QED
  BY <1>1, <1>2, PTL DEF Spec

\* While the status is up there is a connector to proxy requests to, however
\* attachments overlap.
THEOREM AttachedUpConnected == Spec => []UpHasConnector
<1>1. TypeInv /\ ConnectorInv => UpHasConnector
  BY DEF ConnectorInv
<1> QED
  BY <1>1, AttachedInvariant, PTL

\* Requests are proxied to a connector only as long as an attachment watches
\* it.
THEOREM AttachedWatched == Spec => []ConnectorWatched
BY AttachedInvariant, ConnectorInvWatched, PTL

----------------------------------------------------------------------------
(* Calls one at a time, and a connector that answers or refuses at once.   *)
(* With a connector that is silent a Stop gives up waiting, and the late   *)
(* end of its attachment takes the status of the next one down.            *)

OneUser == (\A c, k \in Callers : c = k) /\ "slow" \notin Faults

\* An attachment from its spawn until it has told that it ends.
Active(a) == Watching(a) \/ rpc[a] \in {"spawned", "connecting", "pinged"}

Latest == nextAttach - 1

\* One attachment at a time: the latest, which the fields speak of.
OneActive ==
  \A a \in Attaches :
    Active(a) => a = Latest /\ cancel = a /\ done = a

\* It closes the channel that was made for it, once.
OwnChannel ==
  \A a \in Attaches :
    /\ Active(a) \/ rpc[a] = "close" => rpc[a] = "spawned" \/ chan[a] = a
    /\ a \in closed => rpc[a] = "exited"

\* A call of Attach finds nothing active; a call of Stop waits for the latest.
CallsWait ==
  \A c \in Callers :
    /\ Pending(c) => /\ call[c] = Latest /\ status = "starting"
                     /\ connector = None
                     /\ \A a \in Attaches : ~Active(a)
    /\ pc[c] = "setDone" => cancel = call[c]
    /\ pc[c] \in {"cancel", "drain", "await"} => done = Latest /\ done # 0
    /\ pc[c] = "await" => call[c] = done
    /\ pc[c] = "settle" => \A a \in Attaches : ~Active(a)

\* The status knows of the attachment.
StatusKnows ==
  /\ status = "down" => \A a \in Attaches : ~Active(a)
  /\ status # "down" => nextAttach > 1
  /\ nextAttach > 1 => done = Latest \/ \E c \in Callers : Pending(c)
  /\ \A a \in Attaches : Watching(a) => connector = a

UserInv ==
  /\ OneActive /\ OwnChannel /\ CallsWait /\ StatusKnows
  /\ 0 \notin closed /\ ~panicked

\* "Disconnected" is true: no attachment polls the user's MATLAB, or comes up,
\* once the status is down (process.go:183, 224).
DownIsDetached == status = "down" => \A a \in Attaches : ~Active(a)

\* Requests are proxied to the connector of the latest attachment.
UpIsLatest == status = "up" => connector = Latest

AllInv == TypeInv /\ ConnectorInv /\ UserInv

LEMMA UserTypes ==
  ASSUME AllInv
  PROVE  /\ rpc \in [Attaches -> RunPcs] /\ chan \in [Attaches -> Channels]
         /\ pc \in [Callers -> CallerPcs] /\ call \in [Callers -> Channels]
         /\ nextAttach \in Nat /\ nextAttach >= 1
         /\ done \in Nat /\ Attaches \subseteq Nat \ {0} /\ None \notin Attaches
         /\ connector \in Attaches \cup {None}
<1>1. /\ rpc \in [Attaches -> RunPcs] /\ chan \in [Attaches -> Channels]
      /\ pc \in [Callers -> CallerPcs] /\ call \in [Callers -> Channels]
  BY DEF AllInv, TypeInv, RunnerTypes, CallerTypes
<1>2. nextAttach \in 1..(MaxAttaches + 1) /\ done \in Channels
  BY DEF AllInv, TypeInv, CallerTypes, HandleTypes
<1>3. connector \in Attaches \cup {None}
  BY DEF AllInv, TypeInv, FieldTypes
<1> QED
  BY <1>1, <1>2, <1>3, BoundsAssumption, NoneAssumption DEF Attaches, Channels

LEMMA InitUserInv == Init => UserInv
<1> SUFFICES ASSUME Init PROVE UserInv
  OBVIOUS
<1>1. \A a \in Attaches : ~Active(a) /\ rpc[a] = "unborn"
  BY DEF Init, Active, Watching
<1>2. OneActive /\ OwnChannel
  BY <1>1 DEF Init, OneActive, OwnChannel
<1>3. CallsWait /\ StatusKnows
  BY <1>1 DEF Init, CallsWait, StatusKnows, Pending, Active
<1> QED
  BY <1>2, <1>3 DEF Init, UserInv

\* What Attach takes over from a status that is down.
LEMMA AttachUser ==
  ASSUME OneUser, AllInv, NEW c \in Callers, Attach(c)
  PROVE  UserInv'
<1> USE UserTypes DEF AllInv
<1>1. /\ pc[c] = "idle" /\ status = "down" /\ nextAttach \in Attaches
      /\ status' = "starting" /\ nextAttach' = nextAttach + 1
      /\ call' = [call EXCEPT ![c] = nextAttach]
      /\ pc' = [pc EXCEPT ![c] = "setCancel"]
  BY DEF Attach, Goto
<1>2. UNCHANGED <<connector, cancel, done, closed, panicked, rpc, chan>>
  BY DEF Attach, handles, runtime, runners
<1>3. \A a \in Attaches : ~Active(a) /\ ~Active(a)'
  BY <1>1, <1>2 DEF UserInv, StatusKnows, Active, Watching
<1>4. connector = None
  BY <1>3 DEF ConnectorInv, Active
<1>5. \A k \in Callers : k = c /\ pc'[k] = "setCancel" /\ call'[k] = nextAttach
  BY <1>1 DEF OneUser
<1>6. OneActive' /\ OwnChannel'
  BY <1>2, <1>3 DEF UserInv, OneActive, OwnChannel
<1>7. CallsWait'
  BY <1>1, <1>2, <1>3, <1>4, <1>5 DEF CallsWait, Pending, Latest
<1>8. StatusKnows'
  BY <1>1, <1>2, <1>3, <1>5 DEF StatusKnows, Pending, Active
<1> QED
  BY <1>2, <1>6, <1>7, <1>8 DEF UserInv

LEMMA SetUser ==
  ASSUME OneUser, AllInv, NEW c \in Callers, SetCancel(c) \/ SetDone(c)
  PROVE  UserInv'
<1> USE UserTypes DEF AllInv
<1>1. \A k \in Callers : k = c
  BY DEF OneUser
<1>2. /\ Pending(c) /\ call[c] = Latest /\ status = "starting"
      /\ connector = None /\ \A a \in Attaches : ~Active(a)
      /\ pc[c] = "setDone" => cancel = call[c]
      /\ call[c] \in Attaches /\ rpc[call[c]] = "unborn"
  BY DEF SetCancel, SetDone, Pending, UserInv, CallsWait, TypeInv, SpawnedOnce
<1>3. UNCHANGED <<status, connector, closed, panicked, chan, nextAttach>>
  BY DEF SetCancel, SetDone, fields, runtime, runners
<1>4. CASE SetCancel(c)
  <2>1. /\ cancel' = call[c] /\ pc' = [pc EXCEPT ![c] = "setDone"]
        /\ UNCHANGED <<done, rpc, call>>
    BY <1>4 DEF SetCancel, Goto, runners
  <2>2. pc'[c] = "setDone"
    BY <2>1
  <2>3. \A a \in Attaches : ~Active(a)'
    BY <1>2, <2>1 DEF Active, Watching
  <2>4. OneActive' /\ OwnChannel'
    BY <1>3, <2>1, <2>3 DEF UserInv, OneActive, OwnChannel
  <2>5. CallsWait'
    BY <1>1, <1>2, <1>3, <2>1, <2>2, <2>3 DEF CallsWait, Pending, Latest
  <2>6. StatusKnows'
    BY <1>2, <1>3, <2>1, <2>2, <2>3
       DEF UserInv, StatusKnows, Pending, Latest, Active
  <2> QED
    BY <1>3, <2>4, <2>5, <2>6 DEF UserInv
<1>5. CASE SetDone(c)
  <2>1. /\ done' = call[c] /\ rpc' = [rpc EXCEPT ![call[c]] = "spawned"]
        /\ pc' = [pc EXCEPT ![c] = "idle"] /\ cancel = call[c]
        /\ cancel' = cancel
    BY <1>2, <1>5 DEF SetDone, Goto
  <2>2. \A a \in Attaches : Active(a)' <=> a = call[c]
    BY <1>2, <2>1 DEF Active, Watching
  <2>3. OneActive'
    BY <1>2, <1>3, <2>1, <2>2 DEF OneActive, Latest
  <2>4. OwnChannel'
    BY <1>2, <1>3, <2>1, <2>2 DEF UserInv, OwnChannel
  <2>5. \A k \in Callers : pc'[k] = "idle"
    BY <1>1, <2>1
  <2>6. CallsWait'
    BY <2>5 DEF CallsWait, Pending
  <2>7. StatusKnows'
    <3>1. \A a \in Attaches : ~Watching(a)'
      BY <1>2, <2>1 DEF Active, Watching
    <3> QED
      BY <1>2, <1>3, <2>1, <3>1 DEF UserInv, StatusKnows, Latest
  <2> QED
    BY <1>3, <2>3, <2>4, <2>6, <2>7 DEF UserInv
<1> QED
  BY <1>4, <1>5

\* Stop waits for the latest attachment until it has ended.
LEMMA StopUser ==
  ASSUME OneUser, AllInv, NEW c \in Callers,
         Stop(c) \/ Cancel(c) \/ Drain(c) \/ Await(c) \/ Settle(c)
  PROVE  UserInv'
<1> USE UserTypes DEF AllInv
<1>1. \A k \in Callers : k = c
  BY DEF OneUser
<1>2. UNCHANGED <<cancel, done, closed, panicked, rpc, chan, nextAttach>>
  BY DEF Stop, Cancel, Drain, Await, Settle, handles, runtime, runners
<1>3. \A a \in Attaches : (Active(a)' <=> Active(a)) /\ (Watching(a)' <=> Watching(a))
  BY <1>2 DEF Active, Watching
<1>4. OneActive' /\ OwnChannel'
  BY <1>2, <1>3 DEF UserInv, OneActive, OwnChannel, Latest
<1>5. ~Pending(c) /\ ~Pending(c)'
  BY DEF Stop, Cancel, Drain, Await, Settle, Goto, Pending
<1>6. nextAttach > 1 => done = Latest
  BY <1>1, <1>5 DEF UserInv, StatusKnows
<1>7. CASE Settle(c)
  <2>1. /\ status' = "down" /\ pc'[c] = "idle"
        /\ \A a \in Attaches : ~Active(a)
    BY <1>7 DEF Settle, Detached, Goto, UserInv, CallsWait
  <2>2. CallsWait'
    BY <1>1, <2>1 DEF CallsWait, Pending
  <2>3. StatusKnows'
    BY <1>2, <1>3, <1>6, <2>1 DEF StatusKnows, Latest, Active
  <2> QED
    BY <1>2, <1>4, <2>2, <2>3 DEF UserInv
<1>8. CASE Stop(c)
  <2>1. /\ status # "down" /\ status' = "stopping" /\ connector' = connector
        /\ pc'[c] = "cancel"
    BY <1>8 DEF Stop, Goto
  <2>2. nextAttach > 1
    BY <2>1 DEF UserInv, StatusKnows
  <2>3. CallsWait'
    BY <1>1, <1>2, <1>6, <2>1, <2>2 DEF CallsWait, Pending, Latest
  <2>4. StatusKnows'
    BY <1>2, <1>3, <1>6, <2>1, <2>2 DEF UserInv, StatusKnows, Latest
  <2> QED
    BY <1>2, <1>4, <2>3, <2>4 DEF UserInv
<1>9. CASE Cancel(c) \/ Drain(c) \/ Await(c)
  <2>1. UNCHANGED <<status, connector>> /\ done = Latest /\ done # 0
    BY <1>9 DEF Cancel, Drain, Await, fields, UserInv, CallsWait
  <2>2. StatusKnows'
    BY <1>2, <1>3, <1>6, <2>1 DEF UserInv, StatusKnows, Latest
  <2>3. CallsWait'
    <3>1. CASE Cancel(c)
      <4>1. pc'[c] = "drain"
        BY <3>1 DEF Cancel, Goto
      <4> QED
        BY <1>1, <1>2, <2>1, <4>1 DEF CallsWait, Pending, Latest
    <3>2. CASE Drain(c)
      <4>1. pc'[c] = "await" /\ call'[c] = done
        BY <3>2 DEF Drain, Goto
      <4> QED
        BY <1>1, <1>2, <2>1, <4>1 DEF CallsWait, Pending, Latest
    <3>3. CASE Await(c)
      <4>1. pc'[c] = "settle" /\ call[c] = done
        BY <3>3 DEF Await, Goto, UserInv, CallsWait
      <4>2. done \in closed
        BY <2>1, <3>3, <4>1 DEF Await, OneUser
      <4>3. \A a \in Attaches : ~Active(a)
        BY <2>1, <4>2 DEF UserInv, OneActive, OwnChannel, Active, Watching
      <4> QED
        BY <1>1, <1>3, <4>1, <4>3 DEF CallsWait, Pending, Active
    <3> QED
      BY <1>9, <3>1, <3>2, <3>3
  <2> QED
    BY <1>2, <1>4, <2>2, <2>3 DEF UserInv
<1> QED
  BY <1>7, <1>8, <1>9

\* A caller whose attachment is active has spawned it; what it waits for does
\* not depend on the step that the attachment takes.
LEMMA CallsGoOn ==
  ASSUME AllInv, NEW a \in Attaches, Active(a),
         UNCHANGED <<pc, call, done, cancel, nextAttach>>,
         \A b \in Attaches : b # a => (Active(b)' <=> Active(b))
  PROVE  CallsWait'
<1> USE UserTypes DEF AllInv
<1>1. \A c \in Callers : ~Pending(c) /\ pc[c] # "settle"
  BY DEF UserInv, CallsWait
<1> QED
  BY <1>1 DEF UserInv, CallsWait, Pending, Latest

\* The steps of an attachment that is active.
LEMMA ActiveUser ==
  ASSUME OneUser, AllInv, NEW a \in Attaches,
         \/ Begin(a) \/ GiveUp(a) \/ AttachTimeout(a) \/ Ping(a) \/ BecomeUp(a)
         \/ NoticeCancel(a) \/ Tick(a) \/ Query(a) \/ PingAgain(a)
         \/ CountSilence(a)
  PROVE  UserInv'
<1> USE UserTypes DEF AllInv
<1> DEFINE step == \/ Begin(a) \/ GiveUp(a) \/ AttachTimeout(a) \/ Ping(a)
                   \/ BecomeUp(a) \/ NoticeCancel(a) \/ Tick(a) \/ Query(a)
                   \/ PingAgain(a) \/ CountSilence(a)
<1>1. Active(a) /\ rpc[a] # "close"
  BY DEF Begin, GiveUp, AttachTimeout, Ping, BecomeUp, NoticeCancel, Tick,
         Query, PingAgain, CountSilence, Advance, EndMonitor, Active, Watching
<1>2. a = Latest /\ cancel = a /\ done = a
  BY <1>1 DEF UserInv, OneActive
<1>3. \A b \in Attaches : Active(b) => b = a
  BY <1>2 DEF UserInv, OneActive
<1>4. UNCHANGED <<pc, call, nextAttach, cancel, done, closed, panicked>>
  BY DEF Begin, GiveUp, AttachTimeout, Ping, BecomeUp, NoticeCancel, Tick,
         Query, PingAgain, CountSilence, handles, runtime, callers
<1>5. Watching(a) => connector = a
  BY DEF UserInv, StatusKnows
<1>6. \E to \in RunPcs \ {"unborn", "spawned", "exited"} :
        /\ rpc' = [rpc EXCEPT ![a] = to]
        /\ \/ to = "close" /\ status' = "down"
           \/ /\ to \in {"connecting", "pinged"} /\ ~Watching(a)
              /\ status' = status /\ connector' = connector
           \/ to \in {"watch", "query", "ping", "silent"} /\ connector' = a
              /\ (status' = status \/ status' = "up")
  BY <1>1, <1>5
     DEF Begin, GiveUp, AttachTimeout, Ping, BecomeUp, NoticeCancel, Tick,
         Query, PingAgain, CountSilence, Advance, EndMonitor, Detached,
         Watching, RunPcs, fields
<1>7. PICK to \in RunPcs \ {"unborn", "spawned", "exited"} :
        /\ rpc' = [rpc EXCEPT ![a] = to]
        /\ \/ to = "close" /\ status' = "down"
           \/ /\ to \in {"connecting", "pinged"} /\ ~Watching(a)
              /\ status' = status /\ connector' = connector
           \/ to \in {"watch", "query", "ping", "silent"} /\ connector' = a
              /\ (status' = status \/ status' = "up")
  BY <1>6
<1>8. /\ rpc'[a] = to
      /\ \A b \in Attaches : b # a => rpc'[b] = rpc[b]
  BY <1>7
<1>9. \A b \in Attaches : b # a => ~Active(b) /\ ~Active(b)' /\ ~Watching(b)'
  BY <1>3, <1>8 DEF Active, Watching
<1>10. OneActive'
  BY <1>2, <1>4, <1>9 DEF OneActive, Latest
<1>11. OwnChannel'
  <2>1. CASE Begin(a)
    <3>1. chan'[a] = a /\ \A b \in Attaches : b # a => chan'[b] = chan[b]
      BY <1>2, <2>1 DEF Begin
    <3> QED
      BY <1>1, <1>4, <1>8, <1>9, <3>1 DEF UserInv, OwnChannel, Active, Watching
  <2>2. CASE ~Begin(a)
    <3>1. chan' = chan
      BY <2>2 DEF GiveUp, AttachTimeout, Ping, BecomeUp, NoticeCancel, Tick,
                  Query, PingAgain, CountSilence
    <3>2. rpc[a] # "spawned"
      BY <2>2 DEF GiveUp, AttachTimeout, Ping, BecomeUp, NoticeCancel, Tick,
                  Query, PingAgain, CountSilence, Advance, EndMonitor
    <3> QED
      BY <1>1, <1>4, <1>8, <1>9, <3>1, <3>2
         DEF UserInv, OwnChannel, Active, Watching
  <2> QED
    BY <2>1, <2>2
<1>12. CallsWait'
  BY <1>1, <1>4, <1>9, CallsGoOn
<1>13. StatusKnows'
  <2>1. nextAttach > 1 /\ done' = Latest'
    BY <1>2, <1>4 DEF Latest
  <2>2. status # "down"
    BY <1>1 DEF UserInv, StatusKnows
  <2>3. status' = "down" => ~Active(a)'
    BY <1>7, <1>8, <2>2 DEF Active, Watching
  <2>4. Watching(a)' => connector' = a
    BY <1>7, <1>8 DEF Watching
  <2> QED
    BY <1>4, <1>9, <2>1, <2>3, <2>4 DEF StatusKnows, Active
<1> QED
  BY <1>4, <1>10, <1>11, <1>12, <1>13 DEF UserInv

\* The channel that is closed is the attachment's own, and is open.
LEMMA CloseUser ==
  ASSUME OneUser, AllInv, NEW a \in Attaches, Close(a)
  PROVE  UserInv'
<1> USE UserTypes DEF AllInv
<1>1. rpc[a] = "close" /\ rpc' = [rpc EXCEPT ![a] = "exited"]
  BY DEF Close, Advance
<1>2. chan[a] = a /\ a \notin closed
  BY <1>1 DEF UserInv, OwnChannel
<1>3. /\ closed' = closed \cup {a} /\ panicked' = panicked
      /\ chan' = [chan EXCEPT ![a] = 0]
      /\ UNCHANGED <<status, connector, cancel, done, pc, call, nextAttach>>
  BY <1>2 DEF Close, fields, handles, callers
<1>4. \A b \in Attaches :
        (Active(b)' <=> Active(b)) /\ (Watching(b)' <=> Watching(b))
  BY <1>1 DEF Active, Watching
<1>5. OneActive'
  BY <1>3, <1>4 DEF UserInv, OneActive, Latest
<1>6. OwnChannel'
  <2>1. ~Active(a)' /\ rpc'[a] = "exited"
    BY <1>1 DEF Active, Watching
  <2> QED
    BY <1>1, <1>3, <1>4, <2>1 DEF UserInv, OwnChannel
<1>7. CallsWait'
  BY <1>3, <1>4 DEF UserInv, CallsWait, Pending, Latest
<1>8. StatusKnows'
  BY <1>3, <1>4 DEF UserInv, StatusKnows, Pending, Latest
<1> QED
  BY <1>2, <1>3, <1>5, <1>6, <1>7, <1>8 DEF UserInv

LEMMA NextUserInv ==
  ASSUME OneUser
  PROVE  AllInv /\ [Next]_vars => AllInv'
<1> SUFFICES ASSUME AllInv, [Next]_vars PROVE AllInv'
  OBVIOUS
<1>1. TypeInv' /\ ConnectorInv'
  BY NextTypeInv, NextConnectorInv DEF AllInv
<1>2. ASSUME Serve \/ Leave \/ UNCHANGED vars PROVE UserInv'
  <2>1. UNCHANGED <<status, connector, cancel, done, closed, panicked, pc, call,
                    nextAttach, rpc, chan>>
    BY <1>2 DEF Serve, Leave, vars, fields, handles, runtime, callers, runners
  <2>2. \A b \in Attaches :
          (Active(b)' <=> Active(b)) /\ (Watching(b)' <=> Watching(b))
    BY <2>1 DEF Active, Watching
  <2>3. OneActive' /\ OwnChannel'
    BY <2>1, <2>2 DEF AllInv, UserInv, OneActive, OwnChannel, Latest
  <2>4. CallsWait' /\ StatusKnows'
    BY <2>1, <2>2
       DEF AllInv, UserInv, CallsWait, StatusKnows, Pending, Latest
  <2> QED
    BY <2>1, <2>3, <2>4 DEF AllInv, UserInv
<1>3. ASSUME NEW c \in Callers, NewCall(c) \/ CallerStep(c) PROVE UserInv'
  BY <1>2, <1>3, AttachUser, SetUser, StopUser DEF NewCall, CallerStep
<1>4. ASSUME NEW a \in Attaches, RunStep(a) PROVE UserInv'
  BY <1>4, ActiveUser, CloseUser DEF RunStep
<1>5. UserInv'
  BY <1>2, <1>3, <1>4 DEF Next
<1> QED
  BY <1>1, <1>5 DEF AllInv

LEMMA InitAllInv == Init => AllInv
BY InitTypeInv, InitConnectorInv, InitUserInv DEF AllInv

\* With calls one at a time and a connector that answers or refuses at once,
\* no attachment closes a closed channel, which would end the proxy.
THEOREM AttachedNoPanic == ASSUME OneUser PROVE Spec => []~panicked
<1>1. AllInv => ~panicked
  BY DEF AllInv, UserInv
<1>2. AllInv /\ [Next]_vars => AllInv'
  BY NextUserInv
<1> QED
  BY <1>1, <1>2, InitAllInv, PTL DEF Spec

\* In the same setting, nothing polls MATLAB once the status is down.
THEOREM AttachedDetached == ASSUME OneUser PROVE Spec => []DownIsDetached
<1>1. AllInv => DownIsDetached
  BY DEF AllInv, UserInv, StatusKnows, DownIsDetached
<1>2. AllInv /\ [Next]_vars => AllInv'
  BY NextUserInv
<1> QED
  BY <1>1, <1>2, InitAllInv, PTL DEF Spec

\* And requests are proxied to the connector of the latest attachment.
THEOREM AttachedLatest == ASSUME OneUser PROVE Spec => []UpIsLatest
<1>1. AllInv => UpIsLatest
  BY UserTypes
     DEF AllInv, ConnectorInv, UpHasConnector, UserInv, OneActive, Active,
         UpIsLatest
<1>2. AllInv /\ [Next]_vars => AllInv'
  BY NextUserInv
<1> QED
  BY <1>1, <1>2, InitAllInv, PTL DEF Spec
=============================================================================
