------------------------ MODULE MatlabProcessProofs ------------------------
(***************************************************************************)
(* Theorems about MatlabProcess for every number of callers and launches,  *)
(* every combination of faults and every interleaving.                     *)
(***************************************************************************)
EXTENDS MatlabProcess, TLAPS

----------------------------------------------------------------------------
(* Type correctness.  TypeOK is not inductive: a Start must know the       *)
(* number of the launch it is about to make.                               *)

\* A call that is about to make a launch has a launch number.
CallsHaveRuns ==
  \A c \in Callers :
    pc[c] \in {"stop", "relock", "setCancel", "setDone"} => call[c].run \in Runs

TypeInv == TypeOK /\ CallsHaveRuns

\* The records of fresh calls are calls.
LEMMA CallForType ==
  /\ NoCall \in Calls
  /\ \A r \in Runs \cup {None} : /\ CallFor(r, FALSE) \in Calls
                                 /\ CallFor(r, FALSE).run = r
BY MaxRunsAssumption DEF NoCall, CallFor, Calls, Channels

\* Channel 0 is a channel.
LEMMA ZeroIsChannel == 0 \in Channels
BY MaxRunsAssumption DEF Channels

\* The bound on launches keeps their numbers in Runs.
LEMMA NextRunType ==
  \A n \in 1..(MaxRuns + 1) :
    n <= MaxRuns => n \in Runs /\ n + 1 \in 1..(MaxRuns + 1)
BY MaxRunsAssumption DEF Runs

\* Steps that leave the callers alone keep their types.
LEMMA CallersSame ==
  ASSUME CallersTypeOK, CallsHaveRuns, UNCHANGED callers
  PROVE  CallersTypeOK' /\ CallsHaveRuns'
BY DEF CallersTypeOK, CallsHaveRuns, callers

\* Steps that move one caller on within a call keep the callers' types.
LEMMA CallerMoves ==
  ASSUME NEW c \in Callers, NEW to \in CallerPcs, NEW x \in Calls,
         CallersTypeOK, CallsHaveRuns,
         Goto(c, to), call' = [call EXCEPT ![c] = x], nextRun' = nextRun,
         to \notin {"stop", "relock", "setCancel", "setDone"}
  PROVE  CallersTypeOK' /\ CallsHaveRuns'
BY DEF CallersTypeOK, CallsHaveRuns, Goto

LEMMA InitTypeInv == Init => TypeInv
<1> SUFFICES ASSUME Init PROVE TypeInv
  OBVIOUS
<1>1. FieldsTypeOK
  BY MaxRunsAssumption DEF Init, FieldsTypeOK, Statuses, Channels
<1>2. RuntimeTypeOK
  BY MaxRunsAssumption DEF Init, RuntimeTypeOK, Channels
<1>3. OutsideTypeOK
  BY MaxRunsAssumption DEF Init, OutsideTypeOK, ProcStates, Ports
<1>4. CallersTypeOK
  BY MaxRunsAssumption, CallForType DEF Init, CallersTypeOK, CallerPcs
<1>5. RunnersTypeOK
  BY MaxRunsAssumption
     DEF Init, RunnersTypeOK, RunPcs, PollStates, PollAt, Channels
<1>6. CallsHaveRuns
  BY DEF Init, CallsHaveRuns
<1> QED
  BY <1>1, <1>2, <1>3, <1>4, <1>5, <1>6 DEF TypeInv, TypeOK

LEMMA BeginRunType ==
  ASSUME NEW c \in Callers, NEW r \in Runs, TypeInv, BeginRun(c, r)
  PROVE  /\ status' \in Statuses
         /\ busyStatus' \in Ports \cup {None}
         /\ connector' \in Connectors \cup {None}
         /\ errors' \subseteq ErrorTypes
         /\ pc' \in [Callers -> CallerPcs]
         /\ call' \in [Callers -> Calls]
         /\ CallsHaveRuns'
<1> USE DEF TypeInv, TypeOK
<1>1. /\ status' \in Statuses
      /\ busyStatus' \in Ports \cup {None}
      /\ connector' \in Connectors \cup {None}
  BY DEF BeginRun, FieldsTypeOK, Statuses
<1>2. errors' \subseteq ErrorTypes
  BY DEF BeginRun, ErrorTypes
<1>3. pc' \in [Callers -> CallerPcs]
  BY DEF BeginRun, Goto, CallersTypeOK, CallerPcs
<1>4. call' \in [Callers -> Calls]
  BY CallForType DEF BeginRun, CallersTypeOK
<1>5. CallsHaveRuns'
  <2>1. CASE ~installed
    BY <2>1 DEF BeginRun, Goto, CallersTypeOK, CallsHaveRuns
  <2>2. CASE installed
    <3>1. call' = [call EXCEPT ![c] = CallFor(r, FALSE)] /\ Goto(c, "setCancel")
      BY <2>2 DEF BeginRun
    <3> QED
      BY <3>1, CallForType DEF Goto, CallersTypeOK, CallsHaveRuns
  <2> QED
    BY <2>1, <2>2
<1> QED
  BY <1>1, <1>2, <1>3, <1>4, <1>5

LEMMA ReturnType ==
  ASSUME NEW c \in Callers, CallersTypeOK, CallsHaveRuns, ReturnFromStop(c),
         nextRun' = nextRun
  PROVE  CallersTypeOK' /\ CallsHaveRuns'
<1>1. call[c] \in Calls /\ call[c].run \in Runs \cup {None}
  BY DEF CallersTypeOK, Calls
<1>2. call' \in [Callers -> Calls] /\ pc' \in [Callers -> CallerPcs]
  BY <1>1, CallForType DEF CallersTypeOK, ReturnFromStop, Goto, CallerPcs
<1>3. CallsHaveRuns'
  BY <1>1, CallForType DEF CallersTypeOK, ReturnFromStop, Goto, CallsHaveRuns
<1> QED
  BY <1>2, <1>3 DEF CallersTypeOK

LEMMA SnapshotType ==
  ASSUME NEW c \in Callers, NEW run \in Runs \cup {None}, NEW force \in BOOLEAN,
         TypeInv, Snapshot(c, run, force), nextRun' = nextRun
  PROVE  FieldsTypeOK' /\ CallersTypeOK' /\ CallsHaveRuns'
<1> USE DEF TypeInv, TypeOK
<1>1. FieldsTypeOK'
  BY DEF Snapshot, FieldsTypeOK, Statuses
<1>2. [run |-> run, force |-> force, cmd |-> matlabCmd,
       ec |-> IF Graceful(force) THEN connector ELSE None,
       starting |-> (status = "starting"), wait |-> 0] \in Calls
  BY MaxRunsAssumption DEF FieldsTypeOK, Calls, Channels
<1>3. /\ pc' \in [Callers -> CallerPcs]
      /\ call' \in [Callers -> Calls]
  BY <1>2 DEF Snapshot, Goto, CallersTypeOK, CallerPcs
<1>4. CallsHaveRuns'
  BY DEF Snapshot, Goto, CallersTypeOK, CallsHaveRuns
<1> QED
  BY <1>1, <1>3, <1>4 DEF CallersTypeOK

LEMMA StartType ==
  ASSUME NEW c \in Callers, NEW restart \in BOOLEAN, TypeInv, Start(c, restart)
  PROVE  TypeInv'
<1>1. nextRun \in Runs /\ nextRun' \in 1..(MaxRuns + 1)
  BY NextRunType DEF Start, TypeInv, TypeOK, CallersTypeOK
<1>2. RuntimeTypeOK' /\ OutsideTypeOK' /\ RunnersTypeOK'
  BY DEF Start, TypeInv, TypeOK, RuntimeTypeOK, OutsideTypeOK, RunnersTypeOK,
         handles, runtime, outside, runners
<1>3. CASE status = "down"
  BY <1>1, <1>2, <1>3, BeginRunType
     DEF Start, TypeInv, TypeOK, FieldsTypeOK, CallersTypeOK
<1>4. CASE status # "down"
  <2>1. FieldsTypeOK'
    BY <1>4 DEF Start, TypeInv, TypeOK, FieldsTypeOK
  <2>2. CallersTypeOK' /\ CallsHaveRuns'
    <3>1. /\ CallFor(nextRun, status = "stopping") \in Calls
          /\ CallFor(nextRun, status = "stopping").run = nextRun
      BY <1>1, MaxRunsAssumption DEF CallFor, Calls, Channels
    <3> QED
      BY <1>1, <1>4, <3>1
         DEF Start, Goto, TypeInv, TypeOK, CallersTypeOK, CallerPcs,
             CallsHaveRuns
  <2> QED
    BY <1>2, <2>1, <2>2 DEF TypeInv, TypeOK
<1> QED
  BY <1>3, <1>4

LEMMA CallerStepType ==
  ASSUME NEW c \in Callers, TypeInv, CallerStep(c)
  PROVE  TypeInv'
<1> USE DEF TypeInv, TypeOK
<1>0. call[c] \in Calls
  BY DEF CallersTypeOK
<1>1. CASE Relock(c)
  <2>1. call[c].run \in Runs
    BY <1>1 DEF Relock, CallsHaveRuns
  <2>2. RuntimeTypeOK' /\ OutsideTypeOK' /\ RunnersTypeOK'
    BY <1>1 DEF Relock, RuntimeTypeOK, OutsideTypeOK, RunnersTypeOK, handles,
                runtime, outside, runners
  <2> QED
    BY <1>1, <2>1, <2>2, BeginRunType DEF Relock, FieldsTypeOK, CallersTypeOK
<1>2. CASE SetCancel(c)
  <2>1. call[c].run \in Runs
    BY <1>2 DEF SetCancel, CallsHaveRuns
  <2>2. RuntimeTypeOK'
    BY <1>2, <2>1 DEF SetCancel, RuntimeTypeOK, runtime
  <2>3. FieldsTypeOK' /\ OutsideTypeOK' /\ RunnersTypeOK'
    BY <1>2 DEF SetCancel, FieldsTypeOK, OutsideTypeOK, RunnersTypeOK, fields,
                outside, runners
  <2>4. CallersTypeOK' /\ CallsHaveRuns'
    BY <1>2, <2>1 DEF SetCancel, Goto, CallersTypeOK, CallerPcs, CallsHaveRuns
  <2> QED
    BY <2>2, <2>3, <2>4
<1>3. CASE SetDone(c)
  <2>1. call[c].run \in Runs
    BY <1>3 DEF SetDone, CallsHaveRuns
  <2>2. RuntimeTypeOK'
    BY <1>3, <2>1, MaxRunsAssumption
       DEF SetDone, RuntimeTypeOK, runtime, Runs, Channels
  <2>3. FieldsTypeOK' /\ OutsideTypeOK'
    BY <1>3 DEF SetDone, FieldsTypeOK, OutsideTypeOK, fields, outside
  <2>4. RunnersTypeOK'
    BY <1>3, <2>1 DEF SetDone, RunnersTypeOK, RunPcs
  <2>5. CallersTypeOK' /\ CallsHaveRuns'
    BY <1>3, CallForType, CallerMoves DEF SetDone, CallerPcs
  <2> QED
    BY <2>2, <2>3, <2>4, <2>5
<1>4. CASE RestartStop(c)
  <2>1. RuntimeTypeOK' /\ OutsideTypeOK' /\ RunnersTypeOK'
    BY <1>4 DEF RestartStop, RuntimeTypeOK, OutsideTypeOK, RunnersTypeOK,
                handles, runtime, outside, runners
  <2>2. CASE Snapshot(c, call[c].run, call[c].force)
    <3>1. call[c].run \in Runs \cup {None} /\ call[c].force \in BOOLEAN
      BY <1>0 DEF Calls
    <3> QED
      BY <1>4, <2>1, <2>2, <3>1, SnapshotType DEF RestartStop
  <2>3. CASE ReturnFromStop(c) /\ UNCHANGED fields
    <3>1. FieldsTypeOK'
      BY <2>3 DEF FieldsTypeOK, fields
    <3> QED
      BY <1>4, <2>1, <2>3, <3>1, ReturnType DEF RestartStop
  <2> QED
    BY <1>4, <2>2, <2>3 DEF RestartStop
<1>5. CASE SendExit(c)
  <2>1. FieldsTypeOK' /\ RuntimeTypeOK' /\ RunnersTypeOK'
    BY <1>5 DEF SendExit, FieldsTypeOK, RuntimeTypeOK, RunnersTypeOK, fields,
                handles, runtime, runners
  <2>2. OutsideTypeOK'
    BY <1>5 DEF SendExit, OutsideTypeOK, ProcStates, displays
  <2>3. /\ [call[c] EXCEPT !.ec = None] \in Calls
        /\ [call[c] EXCEPT !.force = TRUE, !.ec = None] \in Calls
    BY <1>0 DEF Calls
  <2>4. CallersTypeOK' /\ CallsHaveRuns'
    BY <1>5, <2>3 DEF SendExit, Goto, CallersTypeOK, CallsHaveRuns, CallerPcs
  <2> QED
    BY <2>1, <2>2, <2>4
<1>6. ASSUME NEW from, NEW to \in {"grace", "await"}, WaitOnDone(c, from, to)
      PROVE  TypeInv'
  <2>1. FieldsTypeOK' /\ RuntimeTypeOK' /\ OutsideTypeOK' /\ RunnersTypeOK'
    BY <1>6 DEF WaitOnDone, FieldsTypeOK, RuntimeTypeOK, OutsideTypeOK,
                RunnersTypeOK, fields, handles, runtime, outside, runners
  <2>2. [call[c] EXCEPT !.wait = done] \in Calls
    BY <1>0 DEF Calls, RuntimeTypeOK
  <2>3. CallersTypeOK' /\ CallsHaveRuns'
    BY <1>6, <2>2 DEF WaitOnDone, Goto, CallersTypeOK, CallsHaveRuns, CallerPcs
  <2> QED
    BY <2>1, <2>3
<1>7. CASE Grace(c)
  <2>1. FieldsTypeOK' /\ RuntimeTypeOK' /\ OutsideTypeOK' /\ RunnersTypeOK'
    BY <1>7 DEF Grace, FieldsTypeOK, RuntimeTypeOK, OutsideTypeOK,
                RunnersTypeOK, fields, handles, runtime, outside, runners
  <2>2. CASE ReturnFromStop(c)
    BY <1>7, <2>1, <2>2, ReturnType DEF Grace
  <2>3. CASE ~ReturnFromStop(c)
    <3>1. [call[c] EXCEPT !.force = TRUE, !.wait = 0] \in Calls
      BY <1>0, ZeroIsChannel DEF Calls
    <3>2. CallersTypeOK' /\ CallsHaveRuns'
      BY <1>7, <2>3, <3>1
         DEF Grace, Goto, CallersTypeOK, CallsHaveRuns, CallerPcs
    <3> QED
      BY <2>1, <3>2
  <2> QED
    BY <2>2, <2>3
<1>8. CASE Cancel(c)
  <2>1. FieldsTypeOK' /\ RunnersTypeOK'
    BY <1>8 DEF Cancel, FieldsTypeOK, RunnersTypeOK, fields, runners
  <2>2. RuntimeTypeOK'
    BY <1>8 DEF Cancel, RuntimeTypeOK, handles
  <2>3. OutsideTypeOK'
    BY <1>8 DEF Cancel, OutsideTypeOK, ProcStates, displays
  <2>4. [call[c] EXCEPT !.force = FALSE, !.starting = FALSE] \in Calls
    BY <1>0 DEF Calls
  <2>5. CallersTypeOK' /\ CallsHaveRuns'
    BY <1>8, <2>4 DEF Cancel, Goto, CallersTypeOK, CallsHaveRuns, CallerPcs
  <2> QED
    BY <2>1, <2>2, <2>3, <2>5
<1>9. CASE Await(c)
  <2>1. FieldsTypeOK' /\ RuntimeTypeOK' /\ OutsideTypeOK' /\ RunnersTypeOK'
    BY <1>9 DEF Await, FieldsTypeOK, RuntimeTypeOK, OutsideTypeOK,
                RunnersTypeOK, fields, handles, runtime, outside, runners
  <2>2. CASE GotoSettle(c)
    <3>1. [call[c] EXCEPT !.wait = 0] \in Calls
      BY <1>0, ZeroIsChannel DEF Calls
    <3>2. CallersTypeOK' /\ CallsHaveRuns'
      BY <1>9, <2>2, <3>1 DEF Await, GotoSettle, Goto, CallersTypeOK,
                              CallsHaveRuns, CallerPcs
    <3> QED
      BY <2>1, <3>2
  <2>3. CASE ReturnFromStop(c)
    BY <1>9, <2>1, <2>3, ReturnType DEF Await
  <2> QED
    BY <1>9, <2>2, <2>3 DEF Await
<1>10. CASE Settle(c)
  <2>1. FieldsTypeOK'
    BY <1>10 DEF Settle, FieldsTypeOK, Statuses
  <2>2. RuntimeTypeOK' /\ OutsideTypeOK' /\ RunnersTypeOK'
    BY <1>10 DEF Settle, RuntimeTypeOK, OutsideTypeOK, RunnersTypeOK, handles,
                 runtime, outside, runners
  <2> QED
    BY <1>10, <2>1, <2>2, ReturnType DEF Settle
<1> QED
  BY <1>1, <1>2, <1>3, <1>4, <1>5, <1>6, <1>7, <1>8, <1>9, <1>10 DEF CallerStep

LEMMA SetErrorType ==
  ASSUME FieldsTypeOK, NEW type \in ErrorTypes, SetError(type),
         mwapikey' \in Channels
  PROVE  FieldsTypeOK'
BY DEF SetError, FieldsTypeOK, Statuses

LEMMA RunStepType ==
  ASSUME NEW r \in Runs, TypeInv, RunStep(r)
  PROVE  TypeInv'
<1> USE DEF TypeInv, TypeOK
<1>0. CallersTypeOK' /\ CallsHaveRuns'
  <2>1. UNCHANGED callers
    BY DEF RunStep, Begin, MakeDisplay, StartDisplay, Launch, Publish,
           ReadPort, Ping,
           BecomeUp, StopWaiting, StartTimeout, NoticeExit, Cleanup, Finish,
           Close
  <2> QED
    BY <2>1, CallersSame
<1>1. CASE Begin(r)
  <2>1. RuntimeTypeOK' /\ OutsideTypeOK'
    BY <1>1 DEF Begin, RuntimeTypeOK, OutsideTypeOK, handles, runtime, outside
  <2>2. RunnersTypeOK'
    BY <1>1 DEF Begin, Advance, RunnersTypeOK, RuntimeTypeOK, RunPcs
  <2>3. FieldsTypeOK'
    BY <1>1, SetErrorType DEF Begin, FieldsTypeOK, ErrorTypes, fields
  <2> QED
    BY <1>0, <2>1, <2>2, <2>3
<1>2. CASE MakeDisplay(r)
  BY <1>0, <1>2
     DEF MakeDisplay, Advance, FieldsTypeOK, RuntimeTypeOK, OutsideTypeOK,
         RunnersTypeOK, RunPcs, handles, runtime, outside
<1>13. CASE StartDisplay(r)
  <2>1. FieldsTypeOK' /\ RunnersTypeOK'
    BY <1>13 DEF StartDisplay, Advance, FieldsTypeOK, RunnersTypeOK, RunPcs,
                 fields
  <2>2. RuntimeTypeOK'
    BY <1>13 DEF StartDisplay, RuntimeTypeOK, Panics, handles
  <2>3. OutsideTypeOK'
    BY <1>13 DEF StartDisplay, OutsideTypeOK, FieldsTypeOK, displays
  <2> QED
    BY <1>0, <2>1, <2>2, <2>3
<1>3. CASE Launch(r)
  <2>1. RuntimeTypeOK'
    BY <1>3 DEF Launch, RuntimeTypeOK, handles, runtime
  <2>2. OutsideTypeOK'
    BY <1>3 DEF Launch, OutsideTypeOK, ProcStates, displays
  <2>3. RunnersTypeOK'
    BY <1>3 DEF Launch, Advance, RunnersTypeOK, RunPcs
  <2>4. mwapikey' \in Channels
    BY <1>3, MaxRunsAssumption DEF Launch, Runs, Channels
  <2>5. FieldsTypeOK'
    BY <1>3, <2>4, SetErrorType DEF Launch, FieldsTypeOK, ErrorTypes
  <2> QED
    BY <1>0, <2>1, <2>2, <2>3, <2>5
<1>4. CASE Publish(r)
  BY <1>0, <1>4
     DEF Publish, Advance, FieldsTypeOK, RuntimeTypeOK, OutsideTypeOK,
         RunnersTypeOK, RunPcs, handles, runtime, outside
<1>5. CASE ReadPort(r)
  <2>1. FieldsTypeOK' /\ RuntimeTypeOK' /\ OutsideTypeOK'
    BY <1>5 DEF ReadPort, FieldsTypeOK, RuntimeTypeOK, OutsideTypeOK, fields,
                handles, runtime, outside
  <2>2. [port |-> readyFile, key |-> mwapikey] \in Connectors
    BY <1>5 DEF ReadPort, Connectors, FieldsTypeOK, OutsideTypeOK
  <2>3. RunnersTypeOK'
    BY <1>5, <2>2 DEF ReadPort, Advance, RunnersTypeOK, RunPcs
  <2> QED
    BY <1>0, <2>1, <2>3
<1>6. CASE Ping(r)
  BY <1>0, <1>6
     DEF Ping, Advance, FieldsTypeOK, RuntimeTypeOK, OutsideTypeOK,
         RunnersTypeOK, RunPcs, fields, handles, runtime, outside
<1>7. CASE BecomeUp(r)
  <2>1. RuntimeTypeOK' /\ OutsideTypeOK'
    BY <1>7 DEF BecomeUp, RuntimeTypeOK, OutsideTypeOK, handles, runtime,
                outside
  <2>2. FieldsTypeOK'
    BY <1>7 DEF BecomeUp, FieldsTypeOK, RunnersTypeOK, Statuses
  <2>3. RunnersTypeOK'
    BY <1>7 DEF BecomeUp, Advance, RunnersTypeOK, RunPcs, PollAt, PollStates
  <2> QED
    BY <1>0, <2>1, <2>2, <2>3
<1>8. CASE StopWaiting(r) \/ StartTimeout(r)
  <2>1. RuntimeTypeOK' /\ OutsideTypeOK' /\ RunnersTypeOK'
    BY <1>8
       DEF StopWaiting, StartTimeout, LeaveWait, RuntimeTypeOK, OutsideTypeOK,
           RunnersTypeOK, RunPcs, handles, runtime, outside
  <2>2. FieldsTypeOK'
    BY <1>8, SetErrorType
       DEF StopWaiting, StartTimeout, FieldsTypeOK, ErrorTypes, fields
  <2> QED
    BY <1>0, <2>1, <2>2
<1>9. CASE NoticeExit(r)
  <2>1. RuntimeTypeOK' /\ OutsideTypeOK' /\ RunnersTypeOK'
    BY <1>9
       DEF NoticeExit, Advance, RuntimeTypeOK, OutsideTypeOK, RunnersTypeOK,
           RunPcs, handles, runtime, outside
  <2>2. FieldsTypeOK'
    BY <1>9, SetErrorType DEF NoticeExit, FieldsTypeOK, ErrorTypes, fields
  <2> QED
    BY <1>0, <2>1, <2>2
<1>10. CASE Cleanup(r)
  BY <1>0, <1>10
     DEF Cleanup, Advance, FieldsTypeOK, RuntimeTypeOK, OutsideTypeOK,
         RunnersTypeOK, RunPcs, fields, handles, runtime, displays
<1>11. CASE Finish(r)
  BY <1>0, <1>11
     DEF Finish, StopDisplay, Advance, FieldsTypeOK, RuntimeTypeOK, OutsideTypeOK,
         RunnersTypeOK, RunPcs, Statuses, handles, runtime
<1>12. CASE Close(r)
  <2>1. FieldsTypeOK' /\ OutsideTypeOK' /\ RunnersTypeOK'
    BY <1>12 DEF Close, Advance, FieldsTypeOK, OutsideTypeOK, RunnersTypeOK,
                 RunPcs, fields, outside
  <2>2. closed' \subseteq Channels
    BY <1>12 DEF Close, RuntimeTypeOK, RunnersTypeOK
  <2>3. panicked' \subseteq Panics
    BY <1>12 DEF Close, RuntimeTypeOK, Panics
  <2> QED
    BY <1>0, <1>12, <2>1, <2>2, <2>3 DEF Close, RuntimeTypeOK, handles
<1> QED
  BY <1>1, <1>2, <1>3, <1>4, <1>5, <1>6, <1>7, <1>8, <1>9, <1>10, <1>11, <1>12,
     <1>13
     DEF RunStep

LEMMA PollStepType ==
  ASSUME NEW r \in Runs, TypeInv, PollStep(r)
  PROVE  TypeInv'
<1> USE DEF TypeInv, TypeOK
<1>1. UNCHANGED <<handles, runtime, outside, callers, runners>>
  BY DEF PollStep, PollTick, PollReply
<1>2. RuntimeTypeOK' /\ OutsideTypeOK'
  BY <1>1 DEF RuntimeTypeOK, OutsideTypeOK, handles, runtime, outside
<1>3. CallersTypeOK' /\ CallsHaveRuns'
  BY <1>1, CallersSame
<1>4. CASE PollTick(r)
  <2>1. FieldsTypeOK'
    BY <1>4 DEF PollTick, FieldsTypeOK, fields
  <2>2. connector # None => connector.port \in Ports
    BY DEF FieldsTypeOK, Connectors
  <2>3. RunnersTypeOK'
    BY <1>4, <2>2
       DEF PollTick, RunnersTypeOK, PollStates, PollAt, runners
  <2> QED
    BY <1>2, <1>3, <2>1, <2>3
<1>5. CASE PollReply(r)
  <2>1. FieldsTypeOK'
    BY <1>5 DEF PollReply, FieldsTypeOK, RunnersTypeOK, PollStates
  <2>2. RunnersTypeOK'
    BY <1>5 DEF PollReply, RunnersTypeOK, PollStates, PollAt, runners
  <2> QED
    BY <1>2, <1>3, <2>1, <2>2
<1> QED
  BY <1>4, <1>5 DEF PollStep

LEMMA MatlabStepType ==
  ASSUME NEW r \in Runs, TypeInv, MatlabStep(r)
  PROVE  TypeInv'
<1> USE DEF TypeInv, TypeOK
<1>1. UNCHANGED <<fields, handles, runtime, installed, xvfb, xvfbCmd, callers,
                  runners, poll>>
  BY DEF MatlabStep, Serve, Exit, Crash, ContextKill, displays, outside
<1>2. FieldsTypeOK' /\ RuntimeTypeOK' /\ RunnersTypeOK'
  BY <1>1 DEF FieldsTypeOK, RuntimeTypeOK, RunnersTypeOK, fields, handles,
              runtime, runners
<1>3. proc' \in [Runs -> ProcStates]
  BY DEF MatlabStep, Serve, Exit, Crash, ContextKill, OutsideTypeOK, ProcStates
<1>4. readyFile' \in Ports \cup {None}
  BY MaxRunsAssumption
     DEF MatlabStep, Serve, Exit, Crash, ContextKill, OutsideTypeOK, Runs,
         Ports
<1>5. CallersTypeOK' /\ CallsHaveRuns'
  BY <1>1, CallersSame
<1> QED
  BY <1>1, <1>2, <1>3, <1>4, <1>5 DEF OutsideTypeOK

LEMMA StutterType ==
  ASSUME TypeInv, UNCHANGED vars
  PROVE  TypeInv'
BY CallersSame
   DEF TypeInv, TypeOK, FieldsTypeOK, RuntimeTypeOK, OutsideTypeOK,
       RunnersTypeOK, vars, fields, handles, runtime, outside, runners

LEMMA NextTypeInv == TypeInv /\ [Next]_vars => TypeInv'
<1> SUFFICES ASSUME TypeInv, [Next]_vars PROVE TypeInv'
  OBVIOUS
<1>1. CASE UNCHANGED vars
  BY <1>1, StutterType
<1>2. ASSUME NEW c \in Callers, NewCall(c) PROVE TypeInv'
  <2>1. CASE Stop(c)
    <3>1. RuntimeTypeOK' /\ OutsideTypeOK' /\ RunnersTypeOK'
      BY <2>1 DEF Stop, TypeInv, TypeOK, RuntimeTypeOK, OutsideTypeOK,
                  RunnersTypeOK, handles, runtime, outside, runners
    <3> QED
      BY <2>1, <3>1, SnapshotType DEF Stop, TypeInv, TypeOK
  <2> QED
    BY <1>1, <1>2, <2>1, StartType DEF NewCall
<1> QED
  BY <1>1, <1>2, CallerStepType, RunStepType, PollStepType, MatlabStepType
     DEF Next

\* Every variable of the process manager keeps its type, whatever its
\* callers, its run goroutines and MATLAB do.
THEOREM TypeCorrect == Spec => []TypeOK
<1>1. TypeInv => TypeOK
  BY DEF TypeInv
<1> QED
  BY <1>1, InitTypeInv, NextTypeInv, PTL DEF Spec

----------------------------------------------------------------------------
(* Safety under every fault and interleaving.  That a goroutine watches    *)
(* every live MATLAB rests on launch numbers being handed out once; that   *)
(* a published connector was verified rests on what the run goroutine      *)
(* knows of its own connector between the ping and the publication.        *)

\* A launch number is held by at most one call until its goroutine starts.
RunsReserved ==
  /\ \A c \in Callers :
       call[c].run \in Runs =>
         call[c].run < nextRun /\ rpc[call[c].run] = "unborn"
  /\ \A c, d \in Callers :
       call[c].run \in Runs /\ call[c].run = call[d].run => c = d
  /\ \A r \in Runs : r >= nextRun => rpc[r] = "unborn"

\* What a run goroutine knows of its connector.
PortsVerified ==
  \A r \in Runs :
    /\ rpc[r] = "waitPing" => ec[r] # None
    /\ rpc[r] = "pinged" => /\ ec[r] # None
                            /\ ec[r].port \in Runs
                            /\ ec[r].key = ec[r].port

ConnectorInv == PortsVerified /\ UpHasConnector /\ ConnectorVerified

LaunchInv == RunsReserved /\ NoAbandonedMatlab

LEMMA InitSafe == Init => ConnectorInv /\ LaunchInv
<1> SUFFICES ASSUME Init PROVE ConnectorInv /\ LaunchInv
  OBVIOUS
<1>1. ConnectorInv
  BY DEF Init, ConnectorInv, PortsVerified, UpHasConnector, ConnectorVerified
<1>2. NoCall.run = None
  BY DEF NoCall, CallFor
<1>3. RunsReserved
  BY <1>2, NoneAssumption, MaxRunsAssumption DEF Init, RunsReserved, Runs
<1>4. NoAbandonedMatlab
  BY DEF Init, NoAbandonedMatlab, Alive
<1> QED
  BY <1>1, <1>3, <1>4 DEF LaunchInv

\* The connector part: only three kinds of step touch what it speaks of.
LEMMA NextConnectorInv ==
  ASSUME TypeInv, ConnectorInv, [Next]_vars
  PROVE  ConnectorInv'
<1> USE DEF ConnectorInv, TypeInv, TypeOK
<1>0. rpc \in [Runs -> RunPcs] /\ ec \in [Runs -> Connectors \cup {None}]
  BY DEF RunnersTypeOK
<1>1. CASE UNCHANGED vars
  BY <1>1 DEF PortsVerified, UpHasConnector, ConnectorVerified, vars, fields,
              runners
<1>2. ASSUME NEW c \in Callers, NewCall(c) PROVE ConnectorInv'
  <2>1. CASE Stop(c)
    BY <2>1 DEF Stop, Snapshot, PortsVerified, UpHasConnector,
                ConnectorVerified, runners
  <2>2. ASSUME NEW restart \in BOOLEAN, Start(c, restart) PROVE ConnectorInv'
    BY <2>2 DEF Start, BeginRun, PortsVerified, UpHasConnector,
                ConnectorVerified, runners
  <2> QED
    BY <1>1, <1>2, <2>1, <2>2 DEF NewCall
<1>3. ASSUME NEW c \in Callers, CallerStep(c) PROVE ConnectorInv'
  <2>1. CASE Relock(c)
    BY <2>1 DEF Relock, BeginRun, PortsVerified, UpHasConnector,
                ConnectorVerified, runners
  <2>2. CASE SetDone(c)
    BY <1>0, <2>2 DEF SetDone, PortsVerified, UpHasConnector,
                      ConnectorVerified, fields
  <2>3. CASE RestartStop(c)
    BY <2>3 DEF RestartStop, Snapshot, PortsVerified, UpHasConnector,
                ConnectorVerified, fields, runners
  <2>4. CASE Settle(c)
    BY <2>4 DEF Settle, PortsVerified, UpHasConnector, ConnectorVerified,
                runners
  <2>5. CASE UNCHANGED <<fields, runners>>
    BY <2>5 DEF PortsVerified, UpHasConnector, ConnectorVerified, fields,
                runners
  <2> QED
    BY <1>3, <2>1, <2>2, <2>3, <2>4, <2>5
       DEF CallerStep, SetCancel, SendExit, WaitOnDone, Grace, Cancel, Await
<1>4. ASSUME NEW r \in Runs, RunStep(r) PROVE ConnectorInv'
  <2>1. CASE ReadPort(r)
    <3>1. [port |-> readyFile, key |-> mwapikey] \in Connectors
      BY <2>1 DEF ReadPort, Connectors, FieldsTypeOK, OutsideTypeOK
    <3>2. [port |-> readyFile, key |-> mwapikey] # None
      BY <3>1, NoneAssumption
    <3> QED
      BY <1>0, <2>1, <3>2
         DEF ReadPort, Advance, PortsVerified, UpHasConnector,
             ConnectorVerified, fields
  <2>2. CASE Ping(r)
    BY <1>0, <2>2 DEF Ping, Advance, Answers, Listens, PortsVerified,
                      UpHasConnector, ConnectorVerified, fields
  <2>3. CASE BecomeUp(r)
    BY <1>0, <2>3 DEF BecomeUp, Advance, PortsVerified, UpHasConnector,
                      ConnectorVerified
  <2>4. CASE StopWaiting(r) \/ StartTimeout(r)
    BY <1>0, <2>4 DEF StopWaiting, StartTimeout, LeaveWait, SetError,
                      PortsVerified, UpHasConnector, ConnectorVerified, fields
  <2>5. CASE Begin(r) \/ Launch(r) \/ NoticeExit(r)
    BY <1>0, <2>5 DEF Begin, Launch, NoticeExit, Advance, SetError,
                      PortsVerified, UpHasConnector, ConnectorVerified, fields
  <2>6. CASE MakeDisplay(r) \/ StartDisplay(r) \/ Publish(r) \/ Cleanup(r) \/ Finish(r)
             \/ Close(r)
    BY <1>0, <2>6 DEF MakeDisplay, StartDisplay, Publish, Cleanup, Finish, Close, Advance,
                      PortsVerified, UpHasConnector, ConnectorVerified, fields
  <2> QED
    BY <1>4, <2>1, <2>2, <2>3, <2>4, <2>5, <2>6 DEF RunStep
<1>5. ASSUME NEW r \in Runs, PollStep(r) \/ MatlabStep(r) PROVE ConnectorInv'
  BY <1>5 DEF PollStep, PollTick, PollReply, MatlabStep, Serve, Exit, Crash,
              ContextKill, PortsVerified, UpHasConnector, ConnectorVerified,
              fields, runners
<1> QED
  BY <1>1, <1>2, <1>3, <1>4, <1>5 DEF Next

\* The launch part: who holds which number, and which goroutine is where.
LEMMA NextLaunchInv ==
  ASSUME TypeInv, LaunchInv, [Next]_vars
  PROVE  LaunchInv'
<1> USE DEF LaunchInv, TypeInv, TypeOK
<1>0. /\ rpc \in [Runs -> RunPcs] /\ proc \in [Runs -> ProcStates]
      /\ pc \in [Callers -> CallerPcs] /\ call \in [Callers -> Calls]
      /\ nextRun \in 1..(MaxRuns + 1)
  BY DEF RunnersTypeOK, OutsideTypeOK, CallersTypeOK
<1>00. \A n \in Nat : None # n
  BY NoneAssumption
<1>01. NoCall.run = None /\ \A r : \A f \in BOOLEAN : CallFor(r, f).run = r
  BY DEF NoCall, CallFor
<1>1. CASE UNCHANGED vars
  BY <1>1 DEF RunsReserved, NoAbandonedMatlab, Alive, vars, callers, runners,
              outside
\* What the steps of callers do to the numbers: hand the next one out, keep
\* or drop the caller's own, or turn it into a goroutine.
<1>2. ASSUME NEW c \in Callers,
             \A d \in Callers \ {c} : call'[d] = call[d],
             call'[c].run \in {None, call[c].run},
             UNCHANGED <<nextRun, rpc>>
      PROVE  RunsReserved'
  BY <1>0, <1>00, <1>2, MaxRunsAssumption DEF RunsReserved, Runs
<1>3. ASSUME NEW c \in Callers,
             \A d \in Callers \ {c} : call'[d] = call[d],
             call'[c].run \in {None, nextRun},
             nextRun <= MaxRuns, nextRun' = nextRun + 1, rpc' = rpc
      PROVE  RunsReserved'
  BY <1>0, <1>00, <1>3, MaxRunsAssumption DEF RunsReserved, Runs
<1>4. ASSUME NEW c \in Callers, SetDone(c) PROVE LaunchInv'
  <2>1. call[c].run \in Runs
    BY <1>4 DEF SetDone, CallsHaveRuns
  <2>2. RunsReserved'
    BY <1>0, <1>00, <1>01, <1>4, <2>1, MaxRunsAssumption
       DEF SetDone, RunsReserved, Runs
  <2>3. NoAbandonedMatlab'
    BY <1>0, <1>4, <2>1 DEF SetDone, RunsReserved, NoAbandonedMatlab, Alive,
                            outside
  <2> QED
    BY <2>2, <2>3
<1>5. ASSUME NEW c \in Callers, CallerStep(c), ~SetDone(c) PROVE LaunchInv'
  <2>0. UNCHANGED <<nextRun, rpc>>
    BY <1>5 DEF CallerStep, Relock, SetCancel, RestartStop, SendExit,
                WaitOnDone, Grace, Cancel, Await, Settle, runners
  <2>1. /\ \A d \in Callers \ {c} : call'[d] = call[d]
        /\ call'[c].run \in {None, call[c].run}
    <3>1. CASE Relock(c)
      <4>1. CASE call' = [call EXCEPT ![c] = NoCall]
        BY <1>0, <1>01, <4>1
      <4>2. CASE call' = [call EXCEPT ![c] = CallFor(call[c].run, FALSE)]
        BY <1>0, <1>01, <4>2
      <4> QED
        BY <3>1, <4>1, <4>2 DEF Relock, BeginRun
    <3>0. CASE ReturnFromStop(c)
      BY <1>0, <1>01, <3>0 DEF ReturnFromStop
    <3>2. CASE RestartStop(c)
      <4>1. CASE Snapshot(c, call[c].run, call[c].force)
        BY <1>0, <4>1 DEF Snapshot
      <4> QED
        BY <3>0, <3>2, <4>1 DEF RestartStop
    <3>3. CASE SendExit(c) \/ Cancel(c)
      BY <1>0, <3>3 DEF SendExit, Cancel, Calls
    <3>4. CASE WaitOnDone(c, "sent", "grace") \/ WaitOnDone(c, "drain", "await")
      BY <1>0, <3>4 DEF WaitOnDone, Calls
    <3>5. CASE Grace(c) \/ Await(c)
      BY <1>0, <3>0, <3>5 DEF Grace, Await, GotoSettle, Calls
    <3>6. CASE Settle(c) \/ SetCancel(c)
      BY <1>0, <3>0, <3>6 DEF Settle, SetCancel
    <3> QED
      BY <1>5, <3>1, <3>2, <3>3, <3>4, <3>5, <3>6 DEF CallerStep
  <2>2. NoAbandonedMatlab'
    BY <1>0, <1>5, <2>0
       DEF CallerStep, Relock, SetCancel, RestartStop, SendExit, WaitOnDone,
           Grace, Cancel, Await, Settle, NoAbandonedMatlab, Alive, outside, Answers, Listens
  <2> QED
    BY <1>2, <2>0, <2>1, <2>2
<1>6. ASSUME NEW c \in Callers, NewCall(c) PROVE LaunchInv'
  <2>1. CASE Stop(c)
    <3>1. /\ \A d \in Callers \ {c} : call'[d] = call[d]
          /\ call'[c].run = None
      BY <1>0, <2>1 DEF Stop, Snapshot
    <3>2. UNCHANGED <<nextRun, rpc, proc>>
      BY <2>1 DEF Stop, outside, runners
    <3> QED
      BY <1>2, <3>1, <3>2 DEF NoAbandonedMatlab, Alive
  <2>2. ASSUME NEW restart \in BOOLEAN, Start(c, restart) PROVE LaunchInv'
    <3>1. /\ \A d \in Callers \ {c} : call'[d] = call[d]
          /\ call'[c].run \in {None, nextRun}
      <4>1. CASE call' = [call EXCEPT ![c] = NoCall]
        BY <1>0, <1>01, <4>1
      <4>2. CASE \E f \in BOOLEAN : call' = [call EXCEPT ![c] = CallFor(nextRun, f)]
        BY <1>0, <1>01, <4>2
      <4> QED
        BY <2>2, <4>1, <4>2 DEF Start, BeginRun
    <3>2. /\ UNCHANGED <<rpc, proc>>
          /\ nextRun <= MaxRuns /\ nextRun' = nextRun + 1
      BY <2>2 DEF Start, outside, runners
    <3> QED
      BY <1>3, <3>1, <3>2 DEF NoAbandonedMatlab, Alive
  <2> QED
    BY <1>1, <1>6, <2>1, <2>2 DEF NewCall
<1>7. ASSUME NEW r \in Runs, RunStep(r) PROVE LaunchInv'
  <2>1. UNCHANGED callers
    BY <1>7 DEF RunStep, Begin, MakeDisplay, StartDisplay, Launch, Publish,
           ReadPort, Ping,
           BecomeUp, StopWaiting, StartTimeout, NoticeExit, Cleanup, Finish,
           Close
  <2>2. rpc[r] # "unborn" /\ \E to \in RunPcs : rpc' = [rpc EXCEPT ![r] = to] /\ to # "unborn"
    BY <1>0, <1>7 DEF RunStep, Begin, MakeDisplay, StartDisplay, Launch, Publish,
           ReadPort, Ping,
           BecomeUp, StopWaiting, StartTimeout, NoticeExit, Cleanup, Finish,
           Close, Advance, LeaveWait, RunPcs
  <2>3. RunsReserved'
    BY <1>0, <1>00, <2>1, <2>2, MaxRunsAssumption DEF RunsReserved, Runs, callers
  <2>4. NoAbandonedMatlab'
    BY <1>0, <1>7
       DEF RunStep, Begin, MakeDisplay, StartDisplay, Launch, Publish,
           ReadPort, Ping,
           BecomeUp, StopWaiting, StartTimeout, NoticeExit, Cleanup, Finish,
           Close, Advance, LeaveWait, NoAbandonedMatlab, Alive, Dead, outside
  <2> QED
    BY <2>3, <2>4
<1>8. ASSUME NEW r \in Runs, PollStep(r) \/ MatlabStep(r) PROVE LaunchInv'
  BY <1>0, <1>8
     DEF PollStep, PollTick, PollReply, MatlabStep, Serve, Exit, Crash,
         ContextKill, RunsReserved, NoAbandonedMatlab, Alive, callers, runners,
         outside
<1> QED
  BY <1>1, <1>4, <1>5, <1>6, <1>7, <1>8 DEF Next

\* While the status is up there is a connector to proxy requests to, under
\* every fault and interleaving: run sets the two in one critical section and
\* whoever clears the connector takes the status away from up.
THEOREM UpConnected == Spec => []UpHasConnector
<1>1. ConnectorInv => UpHasConnector
  BY DEF ConnectorInv
<1> QED
  BY <1>1, InitTypeInv, NextTypeInv, InitSafe, NextConnectorInv, PTL DEF Spec

\* A published connector is that of a MATLAB this proxy launched, with that
\* MATLAB's own key, although ready file and key are shared by all launches.
THEOREM ConnectorTrusted == Spec => []ConnectorVerified
<1>1. ConnectorInv => ConnectorVerified
  BY DEF ConnectorInv
<1> QED
  BY <1>1, InitTypeInv, NextTypeInv, InitSafe, NextConnectorInv, PTL DEF Spec

\* Every live MATLAB has a run goroutine that will notice its exit, also when
\* callers race and two launches are under way at once.
THEOREM MatlabWatched == Spec => []NoAbandonedMatlab
<1>1. LaunchInv => NoAbandonedMatlab
  BY DEF LaunchInv
<1> QED
  BY <1>1, InitTypeInv, NextTypeInv, InitSafe, NextLaunchInv, PTL DEF Spec

----------------------------------------------------------------------------
(* Calls made one at a time, with goroutines that are scheduled in time.   *)
(* p.done is written and evaluated without the lock; that a run goroutine  *)
(* nevertheless closes its own channel, and closes it once, rests on no    *)
(* other call coming between go p.run and its first statement.             *)

Serial ==
  /\ \A c, d \in Callers : c = d
  /\ "lateSpawn" \notin Faults

\* A goroutine that has yet to evaluate p.done will find its own channel, and
\* one that has evaluated it holds its own channel.
OwnChannels ==
  \A r \in Runs :
    /\ rpc[r] = "spawned" => done = r /\ Quiet
    /\ rpc[r] \notin {"unborn", "spawned"} => chan[r] = r

ChannelInv == OwnChannels /\ DoneMeansFinished /\ NoDoubleClose

LEMMA InitChannelInv == Init => ChannelInv
BY DEF Init, ChannelInv, OwnChannels, DoneMeansFinished, NoDoubleClose

\* A step of the only caller: no goroutine is waiting to start.
LEMMA CallerChannelInv ==
  ASSUME Serial, TypeInv, LaunchInv, ChannelInv,
         NEW c \in Callers, CallerStep(c)
  PROVE  ChannelInv'
<1> USE DEF ChannelInv, TypeInv, TypeOK
<1>0. /\ rpc \in [Runs -> RunPcs] /\ chan \in [Runs -> Channels]
      /\ pc \in [Callers -> CallerPcs]
  BY DEF RunnersTypeOK, CallersTypeOK
<1>1. pc[c] # "idle"
  BY DEF CallerStep, Relock, SetCancel, SetDone, RestartStop, SendExit,
         WaitOnDone, Grace, Cancel, Await, Settle
<1>2. \A r \in Runs : rpc[r] # "spawned"
  BY <1>1 DEF OwnChannels, Quiet, Idle
<1>3. CASE SetDone(c)
  <2>1. call[c].run \in Runs /\ rpc[call[c].run] = "unborn"
    BY <1>3 DEF SetDone, CallsHaveRuns, LaunchInv, RunsReserved
  <2>2. Quiet'
    BY <1>0, <1>3 DEF SetDone, Goto, Quiet, Idle, Serial
  <2>3. /\ done' = call[c].run
        /\ rpc' = [rpc EXCEPT ![call[c].run] = "spawned"]
        /\ UNCHANGED <<chan, closed, panicked>>
    BY <1>3 DEF SetDone, runtime
  <2>4. OwnChannels'
    BY <1>0, <1>2, <2>1, <2>2, <2>3 DEF OwnChannels
  <2>5. DoneMeansFinished' /\ NoDoubleClose'
    BY <1>0, <2>1, <2>3 DEF DoneMeansFinished, NoDoubleClose
  <2> QED
    BY <2>4, <2>5
<1>4. CASE ~SetDone(c)
  <2>1. UNCHANGED <<rpc, chan, closed, panicked>>
    BY <1>4 DEF CallerStep, Relock, SetCancel, RestartStop, SendExit,
                WaitOnDone, Grace, Cancel, Await, Settle, runners, runtime
  <2> QED
    BY <1>2, <2>1 DEF OwnChannels, DoneMeansFinished, NoDoubleClose
<1> QED
  BY <1>3, <1>4

\* A step of a run goroutine: only Begin reads p.done, only Close closes.
LEMMA RunChannelInv ==
  ASSUME TypeInv, ChannelInv, NEW r \in Runs, RunStep(r)
  PROVE  ChannelInv'
<1> USE DEF ChannelInv, TypeInv, TypeOK
<1>0. /\ rpc \in [Runs -> RunPcs] /\ chan \in [Runs -> Channels]
  BY DEF RunnersTypeOK
<1>1. Quiet' = Quiet /\ done' = done
  BY DEF RunStep, Begin, MakeDisplay, StartDisplay, Launch, Publish,
           ReadPort, Ping,
         BecomeUp, StopWaiting, StartTimeout, NoticeExit, Cleanup, Finish,
         Close, Quiet, Idle, callers, handles
<1>2. CASE Begin(r)
  <2>1. /\ chan' = [chan EXCEPT ![r] = r]
        /\ rpc[r] = "spawned"
        /\ \E to \in {"display", "close"} : rpc' = [rpc EXCEPT ![r] = to]
        /\ UNCHANGED <<closed, panicked>>
    BY <1>2 DEF Begin, Advance, OwnChannels, runtime
  <2> QED
    BY <1>0, <1>1, <2>1 DEF OwnChannels, DoneMeansFinished, NoDoubleClose
<1>3. CASE Close(r)
  <2>1. r \notin closed /\ chan[r] = r
    BY <1>3 DEF Close, Advance, OwnChannels, DoneMeansFinished
  <2>2. /\ rpc[r] = "close" /\ rpc' = [rpc EXCEPT ![r] = "exited"]
        /\ closed' = closed \cup {r}
        /\ UNCHANGED <<chan, panicked>>
    BY <1>3, <2>1 DEF Close, Advance
  <2> QED
    BY <1>0, <1>1, <2>2 DEF OwnChannels, DoneMeansFinished, NoDoubleClose
<1>4. CASE ~Begin(r) /\ ~Close(r)
  <2>1. UNCHANGED <<chan, closed>> /\ (NoDoubleClose => NoDoubleClose')
    BY <1>4 DEF RunStep, MakeDisplay, StartDisplay, Launch, Publish,
                ReadPort, Ping, BecomeUp, StopWaiting, StartTimeout, NoticeExit, Cleanup,
                Finish, NoDoubleClose, runtime
  <2>2. /\ rpc[r] \notin {"unborn", "spawned", "exited"}
        /\ \E to \in RunPcs \ {"unborn", "spawned", "exited"} :
             rpc' = [rpc EXCEPT ![r] = to]
    BY <1>4 DEF RunStep, MakeDisplay, StartDisplay, Launch, Publish,
                ReadPort, Ping, BecomeUp, StopWaiting, StartTimeout, NoticeExit, Cleanup,
                Finish, Advance, LeaveWait, RunPcs
  <2> QED
    BY <1>0, <1>1, <2>1, <2>2 DEF OwnChannels, DoneMeansFinished, NoDoubleClose
<1> QED
  BY <1>2, <1>3, <1>4

LEMMA NextChannelInv ==
  ASSUME Serial, TypeInv, LaunchInv, ChannelInv, [Next]_vars
  PROVE  ChannelInv'
<1> USE DEF ChannelInv
<1>1. CASE UNCHANGED vars
  BY <1>1 DEF OwnChannels, DoneMeansFinished, NoDoubleClose, Quiet, Idle, vars,
              handles, runtime, callers, runners
<1>2. ASSUME NEW c \in Callers, NewCall(c) PROVE ChannelInv'
  <2>1. CASE UNCHANGED vars
    BY <1>1, <2>1
  <2>2. CASE ~UNCHANGED vars
    <3>1. Scheduled /\ UNCHANGED <<rpc, chan, closed, panicked>>
      BY <1>2, <2>2 DEF NewCall, Start, Stop, runners, runtime
    <3> QED
      BY <3>1 DEF Serial, Scheduled, OwnChannels, DoneMeansFinished, NoDoubleClose
  <2> QED
    BY <2>1, <2>2
<1>3. ASSUME NEW r \in Runs, PollStep(r) \/ MatlabStep(r) PROVE ChannelInv'
  BY <1>3 DEF PollStep, PollTick, PollReply, MatlabStep, Serve, Exit, Crash,
              ContextKill, OwnChannels, DoneMeansFinished, NoDoubleClose, Quiet,
              Idle, handles, runtime, callers, runners
<1> QED
  BY <1>1, <1>2, <1>3, CallerChannelInv, RunChannelInv DEF Next

\* Calls made one at a time: a done channel is closed exactly when its run
\* goroutine has finished, for every number of launches and every fault but a
\* goroutine that is not scheduled for seconds.
THEOREM SerialDone == ASSUME Serial PROVE Spec => []DoneMeansFinished
<1>1. ChannelInv => DoneMeansFinished
  BY DEF ChannelInv
<1>2. TypeInv /\ LaunchInv /\ ChannelInv /\ [Next]_vars
        => (TypeInv /\ LaunchInv /\ ChannelInv)'
  BY Serial, NextTypeInv, NextLaunchInv, NextChannelInv
<1>3. Init => TypeInv /\ LaunchInv /\ ChannelInv
  BY InitTypeInv, InitSafe, InitChannelInv
<1> QED
  BY <1>1, <1>2, <1>3, PTL DEF Spec

\* Calls made one at a time: no run goroutine closes a closed channel, which
\* would take the proxy down.
THEOREM SerialClose == ASSUME Serial PROVE Spec => []NoDoubleClose
<1>1. ChannelInv => NoDoubleClose
  BY DEF ChannelInv
<1>2. TypeInv /\ LaunchInv /\ ChannelInv /\ [Next]_vars
        => (TypeInv /\ LaunchInv /\ ChannelInv)'
  BY Serial, NextTypeInv, NextLaunchInv, NextChannelInv
<1>3. Init => TypeInv /\ LaunchInv /\ ChannelInv
  BY InitTypeInv, InitSafe, InitChannelInv
<1> QED
  BY <1>1, <1>2, <1>3, PTL DEF Spec
=============================================================================
