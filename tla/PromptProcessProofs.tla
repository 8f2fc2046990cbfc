------------------------ MODULE PromptProcessProofs ------------------------
(***************************************************************************)
(* Theorems about MatlabProcess in prompt use, for every number of         *)
(* launches: calls of Start and Stop are made one at a time, MATLAB and    *)
(* the goroutines are done before a timer that waits for them, and MATLAB  *)
(* does not crash.  A goroutine may be scheduled late, the logs directory, *)
(* the pipe, the process and the display may fail, the ready file may be   *)
(* stale, and MATLAB may exit whenever it likes.                           *)
(***************************************************************************)
EXTENDS MatlabProcessProofs

Prompt ==
  /\ \A c, d \in Callers : c = d
  /\ Faults \subseteq {"setup", "launch", "staleFile", "lateSpawn"}

----------------------------------------------------------------------------
(* The inductive invariant: how the fields, the caller and the one active  *)
(* run goroutine agree.                                                    *)

\* Run goroutine r has begun and has not had its last critical section.
Active(r) == rpc[r] \notin {"unborn", "close", "exited"}

\* Before it has set the status to up; and while p.matlabCmd is its own.
Early == {"spawned", "display", "xvfb", "launch", "publish", "waitPort",
          "waitPing", "pinged"}
Known == {"waitPort", "waitPing", "pinged", "waitExit", "cleanup", "finish"}

\* A caller that is making a launch, and one inside Stop after its snapshot.
Making == {"setCancel", "setDone"}
Stopping == {"exit", "sent", "grace", "cancel", "drain", "await", "settle"}

\* A goroutine is only active while the handles are its own and the status is
\* not down: two are never active at once.
OneLaunch ==
  \A r \in Runs : Active(r) => done = r /\ cancel = r /\ status # "down"

\* What Stop read in its snapshot is the MATLAB of the current launch.
StopKnows(c) ==
  /\ done \in Runs
  /\ call[c].cmd # None => call[c].cmd = done /\ proc[done] # "none"
  /\ pc[c] \in {"grace", "await"} => call[c].wait = done
  /\ pc[c] = "settle" => call[c].cmd = None

CallerAgrees(c) ==
  /\ pc[c] \in Making => status = "starting" /\ \A r \in Runs : ~Active(r)
  /\ pc[c] = "setDone" => cancel = call[c].run
  /\ pc[c] \notin Making /\ status # "down" => done \in Runs /\ Active(done)
  /\ pc[c] \in {"relock", "settle"} => status = "down"
  /\ pc[c] \in Stopping => StopKnows(c)

RunnerAgrees(r) ==
  /\ rpc[r] \in Early => status \in {"starting", "stopping"}
  /\ rpc[r] = "xvfb" => displayMgr = r
  /\ rpc[r] \in Known => matlabCmd = r
  /\ rpc[r] \in Known \cup {"publish"} => proc[r] # "none"
  /\ rpc[r] = "pinged" => ec[r] = [port |-> r, key |-> r]
  /\ proc[r] = "failed" => r \in cancelled

FieldsAgree ==
  /\ matlabCmd # None => rpc[matlabCmd] \in Known
  /\ status = "up" => matlabCmd # None
  /\ "nilDisplay" \notin panicked

PromptInv ==
  /\ OneLaunch
  /\ \A c \in Callers : CallerAgrees(c)
  /\ \A r \in Runs : RunnerAgrees(r)
  /\ FieldsAgree
  /\ UpIsOwnMatlab

\* A run goroutine that has evaluated p.done holds its own channel; one that
\* is late will find it, for it is active and OneLaunch holds.
ChannelsAgree ==
  /\ \A r \in Runs : rpc[r] \notin {"unborn", "spawned"} => chan[r] = r
  /\ DoneMeansFinished
  /\ NoDoubleClose

\* With what holds under every fault.
FullInv == TypeInv /\ LaunchInv /\ ConnectorInv /\ ChannelsAgree /\ PromptInv

\* The types that the steps below need.
LEMMA FullTypes ==
  ASSUME FullInv
  PROVE  /\ rpc \in [Runs -> RunPcs] /\ proc \in [Runs -> ProcStates]
         /\ ec \in [Runs -> Connectors \cup {None}]
         /\ pc \in [Callers -> CallerPcs] /\ call \in [Callers -> Calls]
         /\ status \in Statuses /\ matlabCmd \in Runs \cup {None}
         /\ displayMgr \in Runs \cup {None} /\ cancel \in Runs \cup {None}
         /\ done \in Channels /\ None \notin Runs
         /\ connector \in Connectors \cup {None}
BY NoneAssumption
   DEF FullInv, TypeInv, TypeOK, FieldsTypeOK, RuntimeTypeOK, OutsideTypeOK,
       CallersTypeOK, RunnersTypeOK, Runs

LEMMA InitPromptInv == Init => PromptInv
<1> SUFFICES ASSUME Init PROVE PromptInv
  OBVIOUS
<1>1. OneLaunch
  BY DEF Init, OneLaunch, Active
<1>2. \A c \in Callers : CallerAgrees(c)
  BY DEF Init, CallerAgrees, Making, Stopping
<1>3. \A r \in Runs : RunnerAgrees(r)
  BY DEF Init, RunnerAgrees, Early, Known
<1>4. FieldsAgree /\ UpIsOwnMatlab
  BY DEF Init, FieldsAgree, UpIsOwnMatlab
<1> QED
  BY <1>1, <1>2, <1>3, <1>4 DEF PromptInv

\* Active goroutines are what can have a live MATLAB, so that there is one
\* at most and none while the status is down.
LEMMA AliveIsActive ==
  ASSUME FullInv, NEW r \in Runs, Alive(r)
  PROVE  Active(r) /\ done = r /\ cancel = r /\ status # "down"
BY DEF FullInv, LaunchInv, NoAbandonedMatlab, PromptInv, OneLaunch, Active

\* A launch whose channel is closed is over.
LEMMA ClosedIsOver ==
  ASSUME FullInv, NEW r \in Runs, r \in closed
  PROVE  ~Active(r) /\ ~Alive(r)
BY AliveIsActive DEF FullInv, ChannelsAgree, DoneMeansFinished, Active

----------------------------------------------------------------------------
(* The steps of the only caller.                                           *)

\* The critical section that begins a launch: nothing is active.
LEMMA BeginRunPrompt ==
  ASSUME Prompt, FullInv, NEW c \in Callers, NEW r \in Runs, BeginRun(c, r),
         status = "down",
         UNCHANGED <<matlabCmd, displayMgr, handles, runtime, outside, runners>>
  PROVE  PromptInv'
<1> USE FullTypes DEF FullInv, PromptInv
<1>0. \A x \in Runs : ~Active(x) /\ ~Active(x)'
  BY DEF OneLaunch, Active, runners
<1>1. OneLaunch'
  BY <1>0 DEF OneLaunch
<1>2. \A d \in Callers : CallerAgrees(d)'
  <2>1. CASE ~installed
    BY <2>1, <1>0 DEF BeginRun, Goto, CallerAgrees, Prompt, Making, Stopping
  <2>2. CASE installed
    BY <2>2, <1>0 DEF BeginRun, Goto, CallerAgrees, Prompt, Making, Stopping
  <2> QED
    BY <2>1, <2>2
<1>3. \A x \in Runs : RunnerAgrees(x)'
  BY <1>0 DEF RunnerAgrees, Early, Known, Active, outside, runtime, runners
<1>4. matlabCmd = None
  BY <1>0 DEF FieldsAgree, Active, Known
<1>5. FieldsAgree' /\ UpIsOwnMatlab'
  BY <1>4 DEF BeginRun, FieldsAgree, UpIsOwnMatlab, runtime
<1> QED
  BY <1>1, <1>2, <1>3, <1>5

LEMMA SnapshotPrompt ==
  ASSUME Prompt, FullInv, NEW c \in Callers, NEW run, NEW force \in BOOLEAN,
         Snapshot(c, run, force), pc[c] \notin Making,
         UNCHANGED <<handles, runtime, outside, runners>>
  PROVE  PromptInv'
<1> USE FullTypes DEF FullInv, PromptInv
<1>1. done \in Runs /\ Active(done)
  BY DEF Snapshot, CallerAgrees
<1>2. OneLaunch'
  BY DEF OneLaunch, Active, Snapshot, handles, runners
<1>3. /\ call'[c].cmd = matlabCmd
      /\ pc' = [pc EXCEPT ![c] = pc'[c]] /\ pc'[c] \in {"exit", "cancel"}
  BY DEF Snapshot, Goto
<1>4. matlabCmd # None => matlabCmd = done /\ proc[done] # "none"
  BY DEF FieldsAgree, OneLaunch, Active, Known, RunnerAgrees
<1>5. \A d \in Callers : CallerAgrees(d)'
  BY <1>1, <1>3, <1>4
     DEF Snapshot, CallerAgrees, StopKnows, Prompt, Making, Stopping,
         Active, handles, runners, outside
<1>6. \A x \in Runs : RunnerAgrees(x)'
  BY DEF Snapshot, RunnerAgrees, Early, Known, outside, runtime, runners
<1>7. FieldsAgree' /\ UpIsOwnMatlab'
  BY DEF Snapshot, FieldsAgree, UpIsOwnMatlab, runtime, runners
<1> QED
  BY <1>2, <1>5, <1>6, <1>7

\* Stop returns when the launch is over.
LEMMA ReturnPrompt ==
  ASSUME Prompt, FullInv, NEW c \in Callers, ReturnFromStop(c),
         status = "down", status' = "down",
         UNCHANGED <<matlabCmd, displayMgr, handles, runtime, outside, runners>>
  PROVE  PromptInv'
<1> USE FullTypes DEF FullInv, PromptInv
<1>1. OneLaunch'
  BY DEF OneLaunch, Active, handles, runners
<1>2. \A d \in Callers : CallerAgrees(d)'
  BY DEF ReturnFromStop, Goto, CallerAgrees, Prompt, Making, Stopping
<1>3. \A x \in Runs : RunnerAgrees(x)'
  BY DEF RunnerAgrees, Early, Known, OneLaunch, Active, outside, runtime, runners
<1>4. FieldsAgree' /\ UpIsOwnMatlab'
  BY DEF FieldsAgree, UpIsOwnMatlab, runtime, runners
<1> QED
  BY <1>1, <1>2, <1>3, <1>4

\* Steps of Stop that leave the fields, the handles and the goroutines alone.
LEMMA InsideStopPrompt ==
  ASSUME Prompt, FullInv, NEW c \in Callers,
         pc[c] \in Stopping, pc' = [pc EXCEPT ![c] = pc'[c]], pc'[c] \in Stopping,
         pc'[c] = "settle" => status = "down" /\ call[c].cmd = None,
         pc'[c] \in {"grace", "await"} => call'[c].wait = done,
         call'[c].cmd = call[c].cmd,
         \A x \in Runs : proc'[x] = proc[x] \/ proc'[x] = "exiting"
                           \/ (proc'[x] = "failed" /\ x \in cancelled'),
         cancelled \subseteq cancelled', panicked' = panicked,
         UNCHANGED <<fields, handles, runners>>
  PROVE  PromptInv'
<1> USE FullTypes DEF FullInv, PromptInv
<1>1. OneLaunch'
  BY DEF OneLaunch, Active, handles, runners, fields
<1>2. \A d \in Callers : CallerAgrees(d)'
  BY DEF CallerAgrees, StopKnows, Prompt, Making, Stopping, Active, handles,
         runners, fields
<1>3. \A x \in Runs : RunnerAgrees(x)'
  BY DEF RunnerAgrees, Early, Known, runners, fields
<1>4. FieldsAgree' /\ UpIsOwnMatlab'
  BY DEF FieldsAgree, UpIsOwnMatlab, runners, fields
<1> QED
  BY <1>1, <1>2, <1>3, <1>4

LEMMA CallerPrompt ==
  ASSUME Prompt, FullInv, NEW c \in Callers, CallerStep(c)
  PROVE  PromptInv'
<1> USE FullTypes
<1>0. /\ \A d \in Callers : d = c
      /\ CallerAgrees(c) /\ call[c] \in Calls
      /\ ~("stopTimeout" \in Faults)
  BY DEF Prompt, FullInv, PromptInv
<1>00. ASSUME call[c].wait \in closed, call[c].wait = done, done \in Runs,
              pc[c] \notin Making
       PROVE  status = "down"
  BY <1>0, <1>00, ClosedIsOver DEF CallerAgrees
<1>1. CASE Relock(c)
  <2>1. call[c].run \in Runs /\ status = "down"
    BY <1>0, <1>1 DEF Relock, FullInv, TypeInv, CallsHaveRuns, CallerAgrees
  <2> QED
    BY <1>1, <2>1, BeginRunPrompt DEF Relock
<1>2. CASE SetCancel(c)
  <2>1. status = "starting" /\ \A r \in Runs : ~Active(r)
    BY <1>0, <1>2 DEF SetCancel, CallerAgrees, Making
  <2> USE DEF FullInv, PromptInv
  <2>2. OneLaunch'
    BY <1>2, <2>1 DEF SetCancel, OneLaunch, Active, runners
  <2>3. CallerAgrees(c)'
    BY <1>2, <2>1 DEF SetCancel, Goto, CallerAgrees, Making, Stopping, Active,
                      runners, fields
  <2>4. \A x \in Runs : RunnerAgrees(x)'
    BY <1>2 DEF SetCancel, RunnerAgrees, Early, Known, outside, runtime,
                runners, fields
  <2>5. FieldsAgree' /\ UpIsOwnMatlab'
    BY <1>2 DEF SetCancel, FieldsAgree, UpIsOwnMatlab, runtime, runners, fields
  <2> QED
    BY <1>0, <2>2, <2>3, <2>4, <2>5
<1>3. CASE SetDone(c)
  <2>1. status = "starting" /\ \A r \in Runs : ~Active(r)
    BY <1>0, <1>3 DEF SetDone, CallerAgrees, Making
  <2>2. call[c].run \in Runs /\ cancel = call[c].run
    BY <1>0, <1>3 DEF SetDone, FullInv, TypeInv, CallsHaveRuns, CallerAgrees
  <2>3. rpc' = [rpc EXCEPT ![call[c].run] = "spawned"] /\ done' = call[c].run
    BY <1>3 DEF SetDone
  <2> USE DEF FullInv, PromptInv
  <2>4. OneLaunch'
    BY <1>3, <2>1, <2>2, <2>3 DEF SetDone, OneLaunch, Active, fields
  <2>5. CallerAgrees(c)'
    BY <1>3, <2>2, <2>3, NoneAssumption
       DEF SetDone, Goto, CallerAgrees, Making, Stopping, Active, fields
  <2>6. \A x \in Runs : RunnerAgrees(x)'
    BY <1>3, <2>1, <2>2, <2>3
       DEF SetDone, RunnerAgrees, Early, Known, outside, runtime, fields
  <2>7. matlabCmd = None
    BY <2>1 DEF FieldsAgree, Active, Known
  <2>8. FieldsAgree' /\ UpIsOwnMatlab'
    BY <1>3, <2>1, <2>7 DEF SetDone, FieldsAgree, UpIsOwnMatlab, runtime, fields
  <2> QED
    BY <1>0, <2>4, <2>5, <2>6, <2>8
<1>4. CASE RestartStop(c)
  <2>1. CASE Snapshot(c, call[c].run, call[c].force)
    BY <1>0, <1>4, <2>1, SnapshotPrompt DEF RestartStop, Making, Calls
  <2>2. CASE status = "down" /\ ReturnFromStop(c) /\ UNCHANGED fields
    BY <1>4, <2>2, ReturnPrompt DEF RestartStop, fields
  <2> QED
    BY <1>4, <2>1, <2>2 DEF RestartStop
<1>5. CASE SendExit(c)
  BY <1>0, <1>5, InsideStopPrompt
     DEF SendExit, Goto, Stopping, runtime, Answers, Listens, Calls
<1>6. CASE WaitOnDone(c, "sent", "grace") \/ WaitOnDone(c, "drain", "await")
  BY <1>0, <1>6, InsideStopPrompt
     DEF WaitOnDone, Goto, Stopping, runtime, outside, Calls
<1>7. CASE Grace(c)
  <2>1. call[c].wait \in closed /\ ReturnFromStop(c) /\ status = "down"
    BY <1>0, <1>00, <1>7
       DEF Grace, TimerFires, CallerAgrees, StopKnows, Stopping, Making
  <2> QED
    BY <1>7, <2>1, ReturnPrompt DEF Grace, fields
<1>8. CASE Cancel(c)
  <2>1. call[c].cmd # None /\ Alive(call[c].cmd) => cancel = call[c].cmd
    BY <1>0, <1>8, AliveIsActive DEF Cancel, CallerAgrees, StopKnows, Stopping
  <2> QED
    BY <1>0, <1>8, <2>1, InsideStopPrompt
       DEF Cancel, Kills, Goto, Stopping, runtime, Calls
<1>9. CASE Await(c)
  <2>1. call[c].wait \in closed /\ status = "down"
    BY <1>0, <1>00, <1>9
       DEF Await, TimerFires, CallerAgrees, StopKnows, Stopping, Making
  <2>2. CASE ReturnFromStop(c)
    BY <1>9, <2>1, <2>2, ReturnPrompt DEF Await, fields
  <2>3. CASE GotoSettle(c) /\ call[c].cmd = None
    BY <1>0, <1>9, <2>1, <2>3, InsideStopPrompt
       DEF Await, GotoSettle, Goto, Stopping, runtime, outside, Calls
  <2> QED
    BY <1>0, <1>9, <2>2, <2>3 DEF Await, TimerFires
<1>10. CASE Settle(c)
  BY <1>0, <1>10, ReturnPrompt DEF Settle, CallerAgrees
<1> QED
  BY <1>1, <1>2, <1>3, <1>4, <1>5, <1>6, <1>7, <1>8, <1>9, <1>10 DEF CallerStep

----------------------------------------------------------------------------
(* The steps of run goroutines.                                            *)

\* Only the active goroutine does more than close its channel.
LEMMA RunPrompt ==
  ASSUME Prompt, FullInv, NEW r \in Runs, RunStep(r)
  PROVE  PromptInv'
<1> USE FullTypes DEF FullInv, PromptInv
<1>0. UNCHANGED <<handles, callers, cancelled>>
  BY DEF RunStep, Begin, MakeDisplay, StartDisplay, Launch, Publish,
         ReadPort, Ping, BecomeUp, StopWaiting, StartTimeout, NoticeExit, Cleanup,
         Finish, Close, runtime
<1>1. CASE Close(r)
  <2>1. OneLaunch'
    BY <1>1 DEF Close, Advance, OneLaunch, Active, handles, fields
  <2>2. \A c \in Callers : CallerAgrees(c)'
    BY <1>0, <1>1 DEF Close, Advance, CallerAgrees, StopKnows, Active, handles,
                      callers, fields, outside
  <2>3. \A x \in Runs : RunnerAgrees(x)'
    BY <1>0, <1>1 DEF Close, Advance, RunnerAgrees, Early, Known, fields, outside
  <2>4. FieldsAgree' /\ UpIsOwnMatlab'
    BY <1>1 DEF Close, Advance, FieldsAgree, UpIsOwnMatlab, Known, fields
  <2> QED
    BY <2>1, <2>2, <2>3, <2>4
\* Every other step is one of the active goroutine.
<1>2. ASSUME Active(r)
      PROVE  /\ done = r /\ cancel = r /\ status # "down"
             /\ \A x \in Runs : Active(x) => x = r
  BY <1>2 DEF OneLaunch
\* The last critical section, and the two ways to fail before it.
<1>3. ASSUME Active(r), rpc' = [rpc EXCEPT ![r] = "close"], status' = "down",
             rpc[r] \in Known => matlabCmd' = None,
             rpc[r] \notin Known => matlabCmd' = matlabCmd,
             UNCHANGED <<proc, panicked>>
      PROVE  PromptInv'
  <2>1. \A x \in Runs : ~Active(x)'
    BY <1>2, <1>3 DEF Active
  <2>2. matlabCmd' = None
    BY <1>2, <1>3 DEF FieldsAgree, Active, Known
  <2>3. OneLaunch'
    BY <2>1 DEF OneLaunch
  <2>4. \A c \in Callers : CallerAgrees(c)'
    BY <1>0, <1>2, <1>3, <2>1 DEF CallerAgrees, StopKnows, handles, callers
  <2>5. \A x \in Runs : RunnerAgrees(x)'
    BY <1>0, <1>3, <2>1 DEF RunnerAgrees, Active, Early, Known
  <2>6. FieldsAgree' /\ UpIsOwnMatlab'
    BY <1>3, <2>2 DEF FieldsAgree, UpIsOwnMatlab
  <2> QED
    BY <2>3, <2>4, <2>5, <2>6
\* Steps that keep the goroutine active and the status from down: the caller
\* sees no difference.
<1>4. ASSUME Active(r), NEW to \in RunPcs \ {"unborn", "close", "exited"},
             rpc' = [rpc EXCEPT ![r] = to], status' # "down",
             \A x \in Runs : proc[x] # "none" => proc'[x] # "none"
      PROVE  OneLaunch' /\ \A c \in Callers : CallerAgrees(c)'
  <2>1. \A x \in Runs : Active(x)' <=> Active(x)
    BY <1>4 DEF Active
  <2>2. OneLaunch'
    BY <1>0, <1>2, <1>4, <2>1 DEF OneLaunch, handles
  <2>3. \A c \in Callers : CallerAgrees(c)'
    BY <1>0, <1>2, <1>4, <2>1 DEF CallerAgrees, StopKnows, handles, callers
  <2> QED
    BY <2>2, <2>3
<1>5. CASE Begin(r)
  <2>1. Active(r)
    BY <1>5 DEF Begin, Advance, Active
  <2>2. CASE Advance(r, "spawned", "close") /\ SetError("SetupError")
    BY <1>3, <1>5, <2>1, <2>2 DEF Begin, Advance, SetError, Known, outside, runtime
  <2>3. CASE Advance(r, "spawned", "display") /\ UNCHANGED fields
    <3>1. OneLaunch' /\ \A c \in Callers : CallerAgrees(c)'
      BY <1>2, <1>4, <1>5, <2>1, <2>3 DEF Begin, Advance, outside, fields, RunPcs
    <3>2. \A x \in Runs : RunnerAgrees(x)'
      BY <1>0, <1>5, <2>3
         DEF Begin, Advance, RunnerAgrees, Early, Known, outside, fields
    <3>3. FieldsAgree' /\ UpIsOwnMatlab'
      BY <1>5, <2>3 DEF Begin, Advance, FieldsAgree, UpIsOwnMatlab, Known, fields, runtime
    <3> QED
      BY <3>1, <3>2, <3>3
  <2> QED
    BY <1>5, <2>2, <2>3 DEF Begin
<1>6. CASE MakeDisplay(r)
  <2>1. Active(r)
    BY <1>6 DEF MakeDisplay, Advance, Active
  <2>2. OneLaunch' /\ \A c \in Callers : CallerAgrees(c)'
    BY <1>2, <1>4, <1>6, <2>1 DEF MakeDisplay, Advance, outside, RunPcs
  <2>3. \A x \in Runs : RunnerAgrees(x)'
    BY <1>0, <1>2, <1>6, <2>1
       DEF MakeDisplay, Advance, RunnerAgrees, Active, Early, Known, outside
  <2>4. FieldsAgree' /\ UpIsOwnMatlab'
    BY <1>6 DEF MakeDisplay, Advance, FieldsAgree, UpIsOwnMatlab, Known, runtime
  <2> QED
    BY <2>2, <2>3, <2>4
<1>7. CASE StartDisplay(r)
  <2>1. Active(r) /\ displayMgr = r /\ UNCHANGED panicked
    BY <1>7 DEF StartDisplay, Advance, Active, RunnerAgrees
  <2>2. OneLaunch' /\ \A c \in Callers : CallerAgrees(c)'
    BY <1>2, <1>4, <1>7, <2>1 DEF StartDisplay, Advance, fields, RunPcs
  <2>3. \A x \in Runs : RunnerAgrees(x)'
    BY <1>0, <1>7
       DEF StartDisplay, Advance, RunnerAgrees, Early, Known, fields
  <2>4. FieldsAgree' /\ UpIsOwnMatlab'
    BY <1>7, <2>1
       DEF StartDisplay, Advance, FieldsAgree, UpIsOwnMatlab, Known, fields
  <2> QED
    BY <2>2, <2>3, <2>4
<1>8. CASE Launch(r)
  <2>1. Active(r)
    BY <1>8 DEF Launch, Advance, Active
  <2>2. CASE Advance(r, "launch", "close") /\ SetError("StartupError") /\ UNCHANGED proc
    BY <1>3, <1>8, <2>1, <2>2 DEF Launch, Advance, SetError, Known, runtime
  <2>3. CASE /\ Advance(r, "launch", "publish")
             /\ proc' = [proc EXCEPT ![r] = "booting"]
             /\ UNCHANGED <<status, connector, matlabCmd, displayMgr>>
    <3>1. OneLaunch' /\ \A c \in Callers : CallerAgrees(c)'
      BY <1>2, <1>4, <2>1, <2>3 DEF Advance, RunPcs
    <3>2. \A x \in Runs : RunnerAgrees(x)'
      BY <1>0, <1>8, <2>3
         DEF Launch, Advance, RunnerAgrees, Early, Known
    <3>3. FieldsAgree' /\ UpIsOwnMatlab'
      BY <1>8, <2>3
         DEF Launch, Advance, FieldsAgree, UpIsOwnMatlab, Known, runtime
    <3> QED
      BY <3>1, <3>2, <3>3
  <2> QED
    BY <1>8, <2>2, <2>3 DEF Launch
<1>9. CASE Publish(r)
  <2>1. Active(r) /\ status # "up"
    BY <1>9 DEF Publish, Advance, Active, RunnerAgrees, Early
  <2>2. OneLaunch' /\ \A c \in Callers : CallerAgrees(c)'
    BY <1>2, <1>4, <1>9, <2>1 DEF Publish, Advance, outside, RunPcs
  <2>3. \A x \in Runs : RunnerAgrees(x)'
    BY <1>0, <1>2, <1>9, <2>1
       DEF Publish, Advance, RunnerAgrees, Active, Early, Known, outside
  <2>4. FieldsAgree' /\ UpIsOwnMatlab'
    BY <1>9, <2>1 DEF Publish, Advance, FieldsAgree, UpIsOwnMatlab, Known, runtime
  <2> QED
    BY <2>2, <2>3, <2>4
<1>10. CASE ReadPort(r)
  <2>1. Active(r)
    BY <1>10 DEF ReadPort, Advance, Active
  <2>2. OneLaunch' /\ \A c \in Callers : CallerAgrees(c)'
    BY <1>2, <1>4, <1>10, <2>1 DEF ReadPort, Advance, fields, outside, RunPcs
  <2>3. \A x \in Runs : RunnerAgrees(x)'
    BY <1>0, <1>10
       DEF ReadPort, Advance, RunnerAgrees, Early, Known, fields, outside
  <2>4. FieldsAgree' /\ UpIsOwnMatlab'
    BY <1>10
       DEF ReadPort, Advance, FieldsAgree, UpIsOwnMatlab, Known, fields, runtime
  <2> QED
    BY <2>2, <2>3, <2>4
\* The MATLAB that answers is alive, hence that of this launch.
<1>11. CASE Ping(r)
  <2>1. Active(r)
    BY <1>11 DEF Ping, Advance, Active
  <2>2. ec[r] = [port |-> r, key |-> r]
    <3>1. /\ ec[r].port \in Runs /\ Alive(ec[r].port)
          /\ ec[r].key = ec[r].port
      BY <1>11 DEF Ping, Answers, Listens, Alive
    <3>2. ec[r].port = r
      BY <1>2, <2>1, <3>1, AliveIsActive
    <3>3. ec[r] \in Connectors
      BY <1>11 DEF Ping, Advance, ConnectorInv, PortsVerified
    <3> QED
      BY <3>1, <3>2, <3>3 DEF Connectors
  <2>3. OneLaunch' /\ \A c \in Callers : CallerAgrees(c)'
    BY <1>2, <1>4, <1>11, <2>1 DEF Ping, Advance, fields, outside, RunPcs
  <2>4. \A x \in Runs : RunnerAgrees(x)'
    BY <1>0, <1>11, <2>2
       DEF Ping, Advance, RunnerAgrees, Early, Known, fields, outside
  <2>5. FieldsAgree' /\ UpIsOwnMatlab'
    BY <1>11
       DEF Ping, Advance, FieldsAgree, UpIsOwnMatlab, Known, fields, runtime
  <2> QED
    BY <2>3, <2>4, <2>5
<1>12. CASE BecomeUp(r)
  <2>1. Active(r) /\ matlabCmd = r /\ ec[r] = [port |-> r, key |-> r]
    BY <1>12 DEF BecomeUp, Advance, Active, RunnerAgrees, Known
  <2>2. OneLaunch' /\ \A c \in Callers : CallerAgrees(c)'
    BY <1>2, <1>4, <1>12, <2>1 DEF BecomeUp, Advance, outside, RunPcs
  <2>3. \A x \in Runs : RunnerAgrees(x)'
    BY <1>0, <1>2, <1>12, <2>1
       DEF BecomeUp, Advance, RunnerAgrees, Active, Early, Known, outside
  <2>4. FieldsAgree' /\ UpIsOwnMatlab'
    BY <1>12, <2>1
       DEF BecomeUp, Advance, FieldsAgree, UpIsOwnMatlab, Known, runtime
  <2> QED
    BY <2>2, <2>3, <2>4
<1>13. CASE StopWaiting(r)
  <2>1. Active(r)
    BY <1>13 DEF StopWaiting, LeaveWait, Active
  <2>2. OneLaunch' /\ \A c \in Callers : CallerAgrees(c)'
    BY <1>2, <1>4, <1>13, <2>1
       DEF StopWaiting, LeaveWait, fields, outside, RunPcs
  <2>3. \A x \in Runs : RunnerAgrees(x)'
    BY <1>0, <1>13
       DEF StopWaiting, LeaveWait, RunnerAgrees, Early, Known, fields, outside
  <2>4. FieldsAgree' /\ UpIsOwnMatlab'
    BY <1>13 DEF StopWaiting, LeaveWait, FieldsAgree, UpIsOwnMatlab, Known,
                 fields, runtime
  <2> QED
    BY <2>2, <2>3, <2>4
<1>14. CASE StartTimeout(r)
  BY <1>14 DEF StartTimeout, Prompt
\* A MATLAB that was killed has been cancelled: no error is recorded.
<1>15. CASE NoticeExit(r)
  <2>1. Active(r) /\ UNCHANGED fields
    BY <1>15 DEF NoticeExit, Advance, Active, RunnerAgrees
  <2>2. OneLaunch' /\ \A c \in Callers : CallerAgrees(c)'
    BY <1>2, <1>4, <1>15, <2>1 DEF NoticeExit, Advance, fields, outside, RunPcs
  <2>3. \A x \in Runs : RunnerAgrees(x)'
    BY <1>0, <1>15, <2>1
       DEF NoticeExit, Advance, RunnerAgrees, Early, Known, fields, outside
  <2>4. FieldsAgree' /\ UpIsOwnMatlab'
    BY <1>15, <2>1 DEF NoticeExit, Advance, FieldsAgree, UpIsOwnMatlab, Known,
                       fields, runtime
  <2> QED
    BY <2>2, <2>3, <2>4
<1>16. CASE Cleanup(r)
  <2>1. Active(r)
    BY <1>16 DEF Cleanup, Advance, Active
  <2>2. OneLaunch' /\ \A c \in Callers : CallerAgrees(c)'
    BY <1>2, <1>4, <1>16, <2>1 DEF Cleanup, Advance, fields, RunPcs
  <2>3. \A x \in Runs : RunnerAgrees(x)'
    BY <1>0, <1>16 DEF Cleanup, Advance, RunnerAgrees, Early, Known, fields
  <2>4. FieldsAgree' /\ UpIsOwnMatlab'
    BY <1>16
       DEF Cleanup, Advance, FieldsAgree, UpIsOwnMatlab, Known, fields, runtime
  <2> QED
    BY <2>2, <2>3, <2>4
<1>17. CASE Finish(r)
  <2>1. Active(r) /\ rpc[r] \in Known
    BY <1>17 DEF Finish, Advance, Active, Known
  <2> QED
    BY <1>3, <1>17, <2>1 DEF Finish, Advance, runtime
<1> QED
  BY <1>1, <1>5, <1>6, <1>7, <1>8, <1>9, <1>10, <1>11, <1>12, <1>13, <1>14,
     <1>15, <1>16, <1>17 DEF RunStep

----------------------------------------------------------------------------
(* All steps, and the theorems.                                            *)

\* MATLAB may start serving and may exit at any time; that it is killed by
\* its context means that it was cancelled.
LEMMA MatlabPrompt ==
  ASSUME Prompt, FullInv, NEW r \in Runs, MatlabStep(r)
  PROVE  PromptInv'
<1> USE FullTypes DEF FullInv, PromptInv
<1>1. UNCHANGED <<fields, handles, runtime, callers, runners>>
  BY DEF MatlabStep, Serve, Exit, Crash, ContextKill
<1>2. \A x \in Runs : /\ proc[x] # "none" => proc'[x] # "none"
                      /\ proc'[x] = "failed" => proc[x] = "failed" \/ x \in cancelled
  BY DEF MatlabStep, Serve, Exit, Crash, ContextKill, Alive, Prompt
<1>3. OneLaunch'
  BY <1>1 DEF OneLaunch, Active, fields, handles, runners
<1>4. \A c \in Callers : CallerAgrees(c)'
  BY <1>1, <1>2 DEF CallerAgrees, StopKnows, Active, fields, handles, callers,
                    runners
<1>5. \A x \in Runs : RunnerAgrees(x)'
  BY <1>1, <1>2 DEF RunnerAgrees, fields, runtime, runners
<1>6. FieldsAgree' /\ UpIsOwnMatlab'
  BY <1>1 DEF FieldsAgree, UpIsOwnMatlab, fields, runtime, runners
<1> QED
  BY <1>3, <1>4, <1>5, <1>6

\* What neither the callers, nor the goroutines of launches, nor MATLAB do.
LEMMA OtherPrompt ==
  ASSUME FullInv,
         UNCHANGED <<status, connector, matlabCmd, displayMgr, handles, runtime,
                     outside, callers, runners>>
  PROVE  PromptInv'
<1> USE DEF FullInv, PromptInv
<1>1. OneLaunch'
  BY DEF OneLaunch, Active, handles, runners
<1>2. \A c \in Callers : CallerAgrees(c)'
  BY DEF CallerAgrees, StopKnows, Active, handles, outside, callers, runners
<1>3. \A x \in Runs : RunnerAgrees(x)'
  BY DEF RunnerAgrees, outside, runtime, runners
<1>4. FieldsAgree' /\ UpIsOwnMatlab'
  BY DEF FieldsAgree, UpIsOwnMatlab, runtime, runners
<1> QED
  BY <1>1, <1>2, <1>3, <1>4

LEMMA NewCallPrompt ==
  ASSUME Prompt, FullInv, NEW c \in Callers, NewCall(c)
  PROVE  PromptInv'
<1> USE FullTypes
<1>1. CASE Stop(c)
  BY <1>1, SnapshotPrompt DEF Stop, Making
<1>2. ASSUME NEW restart \in BOOLEAN, Start(c, restart)
      PROVE  PromptInv'
  <2>1. nextRun \in Runs
    BY <1>2, NextRunType DEF Start, FullInv, TypeInv, TypeOK, CallersTypeOK
  <2>2. CASE status = "down"
    BY <1>2, <2>1, <2>2, BeginRunPrompt DEF Start
  <2>3. CASE status # "down"
    <3> USE DEF FullInv, PromptInv
    <3>1. /\ pc' = [pc EXCEPT ![c] = "stop"]
          /\ UNCHANGED <<fields, handles, runtime, outside, runners>>
      BY <1>2, <2>3 DEF Start, Goto, fields
    <3>2. OneLaunch'
      BY <3>1 DEF OneLaunch, Active, fields, handles, runners
    <3>3. \A d \in Callers : CallerAgrees(d)'
      BY <1>2, <3>1 DEF Start, CallerAgrees, Making, Stopping, Active, fields,
                        handles, runners, Prompt
    <3>4. \A x \in Runs : RunnerAgrees(x)'
      BY <3>1 DEF RunnerAgrees, fields, outside, runtime, runners
    <3>5. FieldsAgree' /\ UpIsOwnMatlab'
      BY <3>1 DEF FieldsAgree, UpIsOwnMatlab, fields, runtime, runners
    <3> QED
      BY <3>2, <3>3, <3>4, <3>5
  <2> QED
    BY <2>2, <2>3
<1>3. CASE UNCHANGED vars
  BY <1>3, OtherPrompt DEF vars, fields
<1> QED
  BY <1>1, <1>2, <1>3 DEF NewCall

\* Every step keeps the channels: only Begin reads p.done, only Close closes.
LEMMA ChannelsKept ==
  ASSUME FullInv, [Next]_vars
  PROVE  ChannelsAgree'
<1> USE FullTypes DEF FullInv, ChannelsAgree
<1>0. chan \in [Runs -> Channels]
  BY DEF TypeInv, TypeOK, RunnersTypeOK
<1>1. CASE UNCHANGED <<rpc, chan, closed, panicked>>
  BY <1>1 DEF DoneMeansFinished, NoDoubleClose
<1>2. ASSUME NEW c \in Callers, NewCall(c) \/ CallerStep(c)
      PROVE  ChannelsAgree'
  <2>1. CASE SetDone(c)
    <3>1. call[c].run \in Runs /\ rpc[call[c].run] = "unborn"
      BY <2>1 DEF SetDone, TypeInv, CallsHaveRuns, LaunchInv, RunsReserved
    <3>2. /\ rpc' = [rpc EXCEPT ![call[c].run] = "spawned"]
          /\ UNCHANGED <<chan, closed, panicked>>
      BY <2>1 DEF SetDone, runtime
    <3> QED
      BY <3>1, <3>2 DEF DoneMeansFinished, NoDoubleClose
  <2>2. CASE ~SetDone(c)
    <3>1. UNCHANGED <<rpc, chan, closed, panicked>>
      BY <1>2, <2>2
         DEF NewCall, Start, Stop, CallerStep, Relock, SetCancel, RestartStop,
             SendExit, WaitOnDone, Grace, Cancel, Await, Settle, vars, runners,
             runtime
    <3> QED
      BY <1>1, <3>1
  <2> QED
    BY <2>1, <2>2
<1>3. ASSUME NEW r \in Runs, RunStep(r) PROVE ChannelsAgree'
  <2>1. CASE Begin(r)
    <3>1. rpc[r] = "spawned" /\ done = r
      BY <2>1 DEF Begin, Advance, PromptInv, OneLaunch, Active
    <3>2. /\ chan' = [chan EXCEPT ![r] = r]
          /\ \E to \in {"display", "close"} : rpc' = [rpc EXCEPT ![r] = to]
          /\ UNCHANGED <<closed, panicked>>
      BY <2>1, <3>1 DEF Begin, Advance, runtime
    <3> QED
      BY <1>0, <3>1, <3>2 DEF DoneMeansFinished, NoDoubleClose
  <2>2. CASE Close(r)
    <3>1. r \notin closed /\ chan[r] = r
      BY <2>2 DEF Close, Advance, DoneMeansFinished
    <3>2. /\ rpc' = [rpc EXCEPT ![r] = "exited"] /\ closed' = closed \cup {r}
          /\ UNCHANGED <<chan, panicked>>
      BY <2>2, <3>1 DEF Close, Advance
    <3> QED
      BY <3>1, <3>2 DEF DoneMeansFinished, NoDoubleClose
  <2>3. CASE ~Begin(r) /\ ~Close(r)
    <3>1. UNCHANGED <<chan, closed>> /\ (NoDoubleClose => NoDoubleClose')
      BY <1>3, <2>3
         DEF RunStep, MakeDisplay, StartDisplay, Launch, Publish, ReadPort,
             Ping, BecomeUp, StopWaiting, StartTimeout, NoticeExit, Cleanup,
             Finish, NoDoubleClose, runtime
    <3>2. /\ rpc[r] \notin {"unborn", "spawned", "exited"}
          /\ \E to \in RunPcs \ {"unborn", "spawned", "exited"} :
               rpc' = [rpc EXCEPT ![r] = to]
      BY <1>3, <2>3
         DEF RunStep, MakeDisplay, StartDisplay, Launch, Publish, ReadPort,
             Ping, BecomeUp, StopWaiting, StartTimeout, NoticeExit, Cleanup,
             Finish, Advance, LeaveWait, RunPcs
    <3> QED
      BY <3>1, <3>2 DEF DoneMeansFinished
  <2> QED
    BY <2>1, <2>2, <2>3
<1>4. ASSUME NEW r \in Runs, PollStep(r) \/ MatlabStep(r)
      PROVE  UNCHANGED <<rpc, chan, closed, panicked>>
  BY <1>4 DEF PollStep, PollTick, PollReply, MatlabStep, Serve, Exit, Crash,
              ContextKill, runtime, runners
<1>5. CASE UNCHANGED vars
  BY <1>1, <1>5 DEF vars, runtime, runners
<1> QED
  BY <1>1, <1>2, <1>3, <1>4, <1>5 DEF Next

LEMMA InitFullInv == Init => FullInv
BY InitTypeInv, InitSafe, InitPromptInv
   DEF FullInv, ChannelsAgree, Init, DoneMeansFinished, NoDoubleClose

LEMMA NextFullInv ==
  ASSUME Prompt, FullInv, [Next]_vars
  PROVE  FullInv'
<1>1. TypeInv' /\ LaunchInv' /\ ConnectorInv' /\ ChannelsAgree'
  BY NextTypeInv, NextLaunchInv, NextConnectorInv, ChannelsKept DEF FullInv
<1>2. ASSUME NEW r \in Runs, PollStep(r) PROVE PromptInv'
  <2>1. UNCHANGED <<status, connector, matlabCmd, displayMgr, handles, runtime,
                    outside, callers, runners>>
    BY <1>2 DEF PollStep, PollTick, PollReply, fields
  <2> QED
    BY <2>1, OtherPrompt
<1>3. CASE UNCHANGED vars
  <2>1. UNCHANGED <<status, connector, matlabCmd, displayMgr, handles, runtime,
                    outside, callers, runners>>
    BY <1>3 DEF vars, fields
  <2> QED
    BY <1>1, <2>1, OtherPrompt DEF FullInv
<1> QED
  BY <1>1, <1>2, <1>3, NewCallPrompt, CallerPrompt, RunPrompt, MatlabPrompt
     DEF FullInv, Next

\* Prompt use: no run goroutine takes the proxy down, neither by closing a
\* channel twice nor by starting a display manager that is gone.
THEOREM PromptNoPanic == ASSUME Prompt PROVE Spec => []NoPanic
<1>1. FullInv => NoPanic
  BY DEF FullInv, TypeInv, TypeOK, RuntimeTypeOK, ChannelsAgree, NoDoubleClose,
         PromptInv, FieldsAgree, Panics, NoPanic
<1>2. FullInv /\ [Next]_vars => FullInv'
  BY Prompt, NextFullInv
<1> QED
  BY <1>1, <1>2, InitFullInv, PTL DEF Spec

\* Prompt use: requests are proxied to the MATLAB that Stop would kill,
\* although the ready file may be an old one and the key is a shared field.
THEOREM PromptOwnMatlab == ASSUME Prompt PROVE Spec => []UpIsOwnMatlab
<1>1. FullInv => UpIsOwnMatlab
  BY DEF FullInv, PromptInv
<1>2. FullInv /\ [Next]_vars => FullInv'
  BY Prompt, NextFullInv
<1> QED
  BY <1>1, <1>2, InitFullInv, PTL DEF Spec

\* Prompt use: no MATLAB runs while the status is down, so that Stop, which
\* then returns at once, leaves none behind.
THEOREM PromptDownIsQuiet == ASSUME Prompt PROVE Spec => []DownIsQuiet
<1>1. FullInv => DownIsQuiet
  BY AliveIsActive DEF DownIsQuiet
<1>2. FullInv /\ [Next]_vars => FullInv'
  BY Prompt, NextFullInv
<1> QED
  BY <1>1, <1>2, InitFullInv, PTL DEF Spec

\* When Stop leaves its wait, the launch that its process belongs to is over.
LEMMA StopStep ==
  ASSUME Prompt, FullInv, NEW c \in Callers, Next,
         pc[c] \in {"grace", "await", "settle"}, pc'[c] \in {"idle", "relock"},
         call[c].cmd # None
  PROVE  Dead(call[c].cmd)
<1> USE FullTypes
<1>1. /\ \A d \in Callers : d = c
      /\ StopKnows(c) /\ pc[c] # "settle"
      /\ ~("stopTimeout" \in Faults)
  BY DEF Prompt, FullInv, PromptInv, CallerAgrees, StopKnows, Stopping
<1>2. CallerStep(c)
  <2>1. pc'[c] # pc[c]
    OBVIOUS
  <2>2. ~UNCHANGED callers
    BY <2>1 DEF callers
  <2>3. ASSUME NEW r \in Runs, RunStep(r) \/ PollStep(r) \/ MatlabStep(r)
        PROVE  UNCHANGED callers
    BY <2>3
       DEF RunStep, Begin, MakeDisplay, StartDisplay, Launch, Publish,
           ReadPort, Ping, BecomeUp, StopWaiting, StartTimeout, NoticeExit,
           Cleanup, Finish, Close, PollStep, PollTick, PollReply, MatlabStep,
           Serve, Exit, Crash, ContextKill
  <2>4. ~NewCall(c)
    BY DEF NewCall, Start, Stop
  <2> QED
    BY <1>1, <2>2, <2>3, <2>4 DEF Next
<1>3. call[c].wait \in closed /\ call[c].wait = done /\ call[c].cmd = done
  BY <1>1, <1>2
     DEF CallerStep, Relock, SetCancel, SetDone, RestartStop, SendExit,
         WaitOnDone, Grace, Cancel, Await, Settle, TimerFires, StopKnows
<1>4. ~Alive(done) /\ proc[done] # "none" /\ done \in Runs
  BY <1>1, <1>3, ClosedIsOver DEF StopKnows
<1> QED
  BY <1>3, <1>4 DEF Alive, Dead, ProcStates

\* Prompt use: when Stop returns, the MATLAB it read in its snapshot is dead.
THEOREM PromptStop == ASSUME Prompt PROVE Spec => StopReachesMatlab
<1>1. FullInv /\ [Next]_vars
        => [\A c \in Callers :
              /\ pc[c] \in {"grace", "await", "settle"}
              /\ pc'[c] \in {"idle", "relock"}
              /\ call[c].cmd # None
              => Dead(call[c].cmd) \/ call[c].cmd \in cancelled]_vars
  BY Prompt, StopStep
<1>2. FullInv /\ [Next]_vars => FullInv'
  BY Prompt, NextFullInv
<1> QED
  BY <1>1, <1>2, InitFullInv, PTL DEF Spec, StopReachesMatlab

----------------------------------------------------------------------------
(* MatlabProcess implements the safety part of MatlabService.  What the    *)
(* service sees is the status and the set of live MATLABs.                 *)

Running == {r \in Runs : Alive(r)}

LEMMA RunningStates ==
  ASSUME FullInv
  PROVE  /\ \A r \in Runs : Alive(r) => Running = {r}
         /\ status = "down" => Running = {}
BY AliveIsActive DEF Running

ServiceStep == [Service!Next]_(Service!vars)

\* The steps of the service in terms of Running.
LEMMA ServiceSteps ==
  /\ status' = status /\ Running' = Running => ServiceStep
  /\ status = "down" /\ Running = {} /\ status' = "starting" /\ Running' = Running
       => ServiceStep
  /\ status \in {"starting", "stopping"} /\ status' = "up" /\ Running' = Running
       => ServiceStep
  /\ status \in {"starting", "up"} /\ status' = "stopping" /\ Running' = Running
       => ServiceStep
  /\ status # "down" /\ Running = {} /\ status' = "down" /\ Running' = Running
       => ServiceStep
  /\ Running # {} /\ Running' = {} /\ status' = status => ServiceStep
  /\ \A r \in Runs :
       /\ status \in {"starting", "stopping"} /\ Running = {}
       /\ status' = status /\ Running' = {r}
       => ServiceStep
BY DEF Running, ServiceStep, Service!Next, Service!vars, Service!Begin,
       Service!Spawn, Service!BecomeUp, Service!Stop, Service!End, Service!Settle

LEMMA SameProcs ==
  ASSUME proc' = proc
  PROVE  Running' = Running
BY DEF Running, Alive

\* A live MATLAB ends: it was the only one.
LEMMA MatlabEnds ==
  ASSUME FullInv, NEW r \in Runs, Alive(r), status' = status,
         NEW end \in {"exited", "failed"}, proc' = [proc EXCEPT ![r] = end]
  PROVE  ServiceStep
<1>1. Running = {r} /\ \A x \in Runs : Alive(x) => x = r
  BY RunningStates, AliveIsActive
<1>2. Running' = {}
  BY <1>1, FullTypes DEF Running, Alive
<1> QED
  BY <1>1, <1>2, ServiceSteps

LEMMA BeginRunService ==
  ASSUME FullInv, NEW c \in Callers, NEW r \in Runs, BeginRun(c, r),
         status = "down", proc' = proc
  PROVE  ServiceStep
BY RunningStates, SameProcs, ServiceSteps DEF BeginRun

LEMMA SnapshotService ==
  ASSUME FullInv, NEW c \in Callers, NEW run, NEW force, Snapshot(c, run, force),
         proc' = proc
  PROVE  ServiceStep
BY FullTypes, SameProcs, ServiceSteps DEF Snapshot, Statuses

LEMMA CallerService ==
  ASSUME Prompt, FullInv, NEW c \in Callers, CallerStep(c)
  PROVE  ServiceStep
<1> USE FullTypes
<1>0. CallerAgrees(c)
  BY DEF FullInv, PromptInv
<1>1. CASE Relock(c)
  <2>1. call[c].run \in Runs /\ status = "down"
    BY <1>0, <1>1 DEF Relock, FullInv, TypeInv, CallsHaveRuns, CallerAgrees
  <2> QED
    BY <1>1, <2>1, BeginRunService DEF Relock, outside
<1>2. CASE RestartStop(c)
  <2>1. CASE Snapshot(c, call[c].run, call[c].force)
    BY <1>2, <2>1, SnapshotService DEF RestartStop, outside
  <2> QED
    BY <1>2, <2>1, SameProcs, ServiceSteps DEF RestartStop, outside, fields
<1>3. CASE SendExit(c)
  <2>1. Running' = Running /\ status' = status
    BY <1>3 DEF SendExit, Running, Alive, Answers, Listens, fields
  <2> QED
    BY <2>1, ServiceSteps
<1>4. CASE Cancel(c)
  <2>1. CASE Kills(c) /\ Alive(call[c].cmd)
    <3>1. call[c].cmd \in Runs
      BY <2>1 DEF Kills, Calls
    <3> QED
      BY <1>4, <2>1, <3>1, MatlabEnds DEF Cancel, fields
  <2> QED
    BY <1>4, <2>1, SameProcs, ServiceSteps DEF Cancel, fields
<1>5. CASE Settle(c)
  BY <1>0, <1>5, SameProcs, ServiceSteps DEF Settle, CallerAgrees, outside
<1>6. CASE UNCHANGED <<fields, outside>>
  BY <1>6, SameProcs, ServiceSteps DEF fields, outside
<1> QED
  BY <1>1, <1>2, <1>3, <1>4, <1>5, <1>6
     DEF CallerStep, SetCancel, SetDone, WaitOnDone, Grace, Await

LEMMA RunService ==
  ASSUME Prompt, FullInv, NEW r \in Runs, RunStep(r)
  PROVE  ServiceStep
<1> USE FullTypes
<1>0. RunnerAgrees(r) /\ (Active(r) => status # "down")
  BY DEF FullInv, PromptInv, OneLaunch
<1>00. Active(r) /\ ~Alive(r) => Running = {}
  BY AliveIsActive, RunningStates DEF Running, FullInv, PromptInv, OneLaunch
<1>1. rpc[r] \in {"spawned", "launch", "cleanup", "finish"} => ~Alive(r)
  BY DEF FullInv, LaunchInv, NoAbandonedMatlab
<1>2. ASSUME rpc[r] \in {"spawned", "launch", "finish"}, status' = "down",
             proc' = proc
      PROVE  ServiceStep
  BY <1>0, <1>00, <1>1, <1>2, SameProcs, ServiceSteps DEF Active
<1>3. CASE Begin(r)
  BY <1>2, <1>3, SameProcs, ServiceSteps
     DEF Begin, Advance, SetError, outside, fields
<1>4. CASE Launch(r)
  <2>1. CASE proc' = [proc EXCEPT ![r] = "booting"] /\ UNCHANGED status
    <3>1. status \in {"starting", "stopping"} /\ Running = {}
      BY <1>0, <1>00, <1>1, <1>4 DEF Launch, Advance, RunnerAgrees, Early, Active
    <3>2. Running' = {r}
      BY <2>1, <3>1 DEF Running, Alive
    <3> QED
      BY <2>1, <3>1, <3>2, ServiceSteps
  <2> QED
    BY <1>2, <1>4, <2>1 DEF Launch, Advance, SetError
<1>5. CASE BecomeUp(r)
  BY <1>0, <1>5, SameProcs, ServiceSteps
     DEF BecomeUp, Advance, RunnerAgrees, Early, outside
<1>6. CASE NoticeExit(r)
  BY <1>0, <1>6, SameProcs, ServiceSteps
     DEF NoticeExit, RunnerAgrees, outside, fields
<1>7. CASE Finish(r)
  BY <1>2, <1>7 DEF Finish, Advance
<1>8. CASE UNCHANGED <<status, proc>>
  BY <1>8, SameProcs, ServiceSteps
<1> QED
  BY <1>3, <1>4, <1>5, <1>6, <1>7, <1>8
     DEF RunStep, MakeDisplay, StartDisplay, Publish, ReadPort, Ping,
         StopWaiting, StartTimeout, Cleanup, Close, Prompt, fields, outside

LEMMA MatlabStepService ==
  ASSUME Prompt, FullInv, NEW r \in Runs, MatlabStep(r)
  PROVE  ServiceStep
<1> USE FullTypes
<1>1. CASE Serve(r)
  <2>1. Running' = Running /\ status' = status
    BY <1>1 DEF Serve, Running, Alive, fields
  <2> QED
    BY <2>1, ServiceSteps
<1>2. CASE Exit(r) \/ ContextKill(r)
  BY <1>2, MatlabEnds DEF Exit, ContextKill, fields
<1> QED
  BY <1>1, <1>2 DEF MatlabStep, Crash, Prompt

LEMMA NextService ==
  ASSUME Prompt, FullInv, [Next]_vars
  PROVE  ServiceStep
<1>1. CASE UNCHANGED vars
  BY <1>1, SameProcs, ServiceSteps DEF vars, fields, outside
<1>2. ASSUME NEW c \in Callers, NewCall(c) PROVE ServiceStep
  <2>1. CASE Stop(c)
    BY <2>1, SnapshotService DEF Stop, outside
  <2>2. ASSUME NEW restart \in BOOLEAN, Start(c, restart) PROVE ServiceStep
    <3>1. nextRun \in Runs
      BY <2>2, NextRunType DEF Start, FullInv, TypeInv, TypeOK, CallersTypeOK
    <3>2. CASE status = "down"
      BY <2>2, <3>1, <3>2, BeginRunService DEF Start, outside
    <3>3. CASE status # "down"
      BY <2>2, <3>3, SameProcs, ServiceSteps DEF Start, outside
    <3> QED
      BY <3>2, <3>3
  <2> QED
    BY <1>1, <1>2, <2>1, <2>2 DEF NewCall
<1>3. ASSUME NEW r \in Runs, PollStep(r) PROVE ServiceStep
  BY <1>3, SameProcs, ServiceSteps
     DEF PollStep, PollTick, PollReply, fields, outside
<1> QED
  BY <1>1, <1>2, <1>3, CallerService, RunService, MatlabStepService DEF Next

\* Prompt use: the process manager is the service that the server is built
\* on.  Its status moves along the diagram, a launch begins only when the one
\* before is gone, at most one MATLAB runs, and none while the status is down.
THEOREM PromptService ==
  ASSUME Prompt
  PROVE  Spec => Service!Init /\ [][Service!Next]_(Service!vars)
<1>1. Init => Service!Init
  BY DEF Init, Service!Init, Alive
<1>2. FullInv /\ [Next]_vars => [Service!Next]_(Service!vars)
  BY Prompt, NextService DEF ServiceStep
<1>3. FullInv /\ [Next]_vars => FullInv'
  BY Prompt, NextFullInv
<1> QED
  BY <1>1, <1>2, <1>3, InitFullInv, PTL DEF Spec
=============================================================================
