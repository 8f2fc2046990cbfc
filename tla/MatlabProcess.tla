--------------------------- MODULE MatlabProcess ---------------------------
(***************************************************************************)
(* The life cycle of the MATLAB process in normal mode: type Process of    *)
(* internal/matlab/process.go, whose Start and Stop are called by request  *)
(* handlers and whose run goroutine, one per launch, spawns MATLAB, waits  *)
(* for its Embedded Connector and tidies up after it.                      *)
(*                                                                         *)
(* A launch is identified by a number in Runs.  The number also stands for *)
(* what belongs to that launch: its context, its done channel, its MATLAB  *)
(* process, the connector port and API key of that MATLAB, and its display *)
(* manager.  Channel 0 is the one NewProcess makes, which nobody closes;   *)
(* port 0 is a port left behind by a MATLAB of an earlier proxy.           *)
(*                                                                         *)
(* Every critical section of Process.mu is one step.  The fields cancel    *)
(* and done are read and written outside the lock in the code, so each of  *)
(* those accesses is a step of its own.                                    *)
(***************************************************************************)
EXTENDS Naturals, FiniteSets

CONSTANTS
  Callers,   \* goroutines that call Start and Stop; one caller = serial use
  MaxRuns,   \* bound on the number of launches
  Faults,    \* what the environment may do wrong in this instance
  Polling,   \* whether the busy status is polled: nothing else reads it
  None       \* Go's nil, and an absent file

FaultKinds ==
  { "startTimeout",  \* MATLAB needs longer than ProcessStartTimeout
    "stopTimeout",   \* the run goroutine outlives a wait of Stop
    "crash",         \* MATLAB ends with a non-zero exit status
    "setup",         \* the logs directory cannot be created
    "launch",        \* the pipe or the MATLAB process cannot be created
    "staleFile",     \* connector.securePort survives from an earlier proxy
    "lateSpawn" }    \* a goroutine is not scheduled for a long time

ASSUME MaxRunsAssumption == MaxRuns \in Nat
ASSUME FaultsAssumption == Faults \subseteq FaultKinds
ASSUME PollingAssumption == Polling \in BOOLEAN

Runs == 1..MaxRuns
Channels == 0..MaxRuns
Ports == 0..MaxRuns
Connectors == [port : Ports, key : Channels]

ASSUME NoneAssumption == None \notin Nat \cup Connectors

Statuses == {"down", "starting", "up", "stopping"}
ErrorTypes == {"MatlabInstallError", "SetupError", "StartupError",
               "TimeoutError", "MATLABError"}
Panics == {"closedTwice", "nilDisplay"}

VARIABLES
  \* the fields of Process
  status, busyStatus, connector, matlabCmd, displayMgr, errors, mwapikey,
  cancel, done,
  \* Go run time: cancelled contexts, closed channels, panics (one ends the
  \* proxy)
  cancelled, closed, panicked,
  \* outside the proxy
  installed,   \* cfg.MATLABCommand # ""
  readyFile,   \* the port recorded in connector.securePort
  proc,        \* the MATLAB processes
  xvfb,        \* launches whose Xvfb is running
  xvfbCmd,     \* the Xvfb that the display manager of a launch knows
  \* goroutines
  pc, call, nextRun,    \* callers of Start and Stop
  rpc, chan, ec,        \* run(ctx), with its deferred channel and connector
  poll                  \* pollBusyStatus(ctx)

fields   == <<status, busyStatus, connector, matlabCmd, displayMgr, errors,
              mwapikey>>
handles  == <<cancel, done>>
runtime  == <<cancelled, closed, panicked>>
displays == <<xvfb, xvfbCmd>>
outside  == <<installed, readyFile, proc, xvfb, xvfbCmd>>
callers  == <<pc, call, nextRun>>
runners  == <<rpc, chan, ec>>
vars     == <<fields, handles, runtime, outside, callers, runners, poll>>

CallerPcs == {"idle", "stop", "exit", "sent", "grace", "cancel", "drain",
              "await", "settle", "relock", "setCancel", "setDone"}
RunPcs == {"unborn", "spawned", "display", "xvfb", "launch", "publish",
           "waitPort", "waitPing", "pinged", "waitExit", "cleanup", "finish",
           "close", "exited"}
ProcStates == {"none", "booting", "serving", "exiting", "exited", "failed"}

\* The local variables of a call of Start or Stop.
Calls == [run      : Runs \cup {None},       \* the launch Start will make
          force    : BOOLEAN,                \* forceQuit
          cmd      : Runs \cup {None},       \* cmd := p.matlabCmd
          ec       : Connectors \cup {None}, \* ec := p.connector
          starting : BOOLEAN,                \* wasStarting
          wait     : Channels]               \* the channel being waited on
CallFor(run, force) ==
  [run |-> run, force |-> force, cmd |-> None, ec |-> None,
   starting |-> FALSE, wait |-> 0]
NoCall == CallFor(None, FALSE)

PollStates == [at : {"off", "tick", "reply"}, says : Ports \cup {None}]
PollAt(where) == [at |-> where, says |-> None]

FieldsTypeOK ==
  /\ status \in Statuses
  /\ busyStatus \in Ports \cup {None}
  /\ connector \in Connectors \cup {None}
  /\ matlabCmd \in Runs \cup {None}
  /\ displayMgr \in Runs \cup {None}
  /\ errors \subseteq ErrorTypes
  /\ mwapikey \in Channels

RuntimeTypeOK ==
  /\ cancel \in Runs \cup {None}
  /\ done \in Channels
  /\ cancelled \subseteq Runs
  /\ closed \subseteq Channels
  /\ panicked \subseteq Panics

OutsideTypeOK ==
  /\ installed \in BOOLEAN
  /\ readyFile \in Ports \cup {None}
  /\ proc \in [Runs -> ProcStates]
  /\ xvfb \subseteq Runs
  /\ xvfbCmd \in [Runs -> Runs \cup {None}]

CallersTypeOK ==
  /\ pc \in [Callers -> CallerPcs]
  /\ call \in [Callers -> Calls]
  /\ nextRun \in 1..(MaxRuns + 1)

RunnersTypeOK ==
  /\ rpc \in [Runs -> RunPcs]
  /\ chan \in [Runs -> Channels]
  /\ ec \in [Runs -> Connectors \cup {None}]
  /\ poll \in [Runs -> PollStates]

TypeOK ==
  /\ FieldsTypeOK
  /\ RuntimeTypeOK
  /\ OutsideTypeOK
  /\ CallersTypeOK
  /\ RunnersTypeOK

\* A fresh proxy (NewProcess) on a machine that may lack MATLAB.
Init ==
  /\ status = "down" /\ busyStatus = None /\ connector = None
  /\ matlabCmd = None /\ displayMgr = None /\ errors = {} /\ mwapikey = 0
  /\ cancel = None /\ done = 0
  /\ cancelled = {} /\ closed = {} /\ panicked = {}
  /\ installed \in BOOLEAN
  /\ readyFile \in {None} \cup (IF "staleFile" \in Faults THEN {0} ELSE {})
  /\ proc = [r \in Runs |-> "none"]
  /\ xvfb = {}
  /\ xvfbCmd = [r \in Runs |-> None]
  /\ pc = [c \in Callers |-> "idle"]
  /\ call = [c \in Callers |-> NoCall]
  /\ nextRun = 1
  /\ rpc = [r \in Runs |-> "unborn"]
  /\ chan = [r \in Runs |-> 0]
  /\ ec = [r \in Runs |-> None]
  /\ poll = [r \in Runs |-> PollAt("off")]

----------------------------------------------------------------------------
(* The MATLAB processes and their Embedded Connectors.                     *)

Alive(r) == proc[r] \in {"booting", "serving", "exiting"}
Dead(r) == proc[r] \in {"exited", "failed"}

\* Something accepts connections at the connector's port.
Listens(e) == e.port \in Runs /\ proc[e.port] = "serving"

\* A ping or status query succeeds: the MATLAB there knows the API key.
Answers(e) == Listens(e) /\ e.key = e.port

\* MATLAB has loaded its connector, recorded the port and serves requests.
Serve(r) ==
  /\ proc[r] = "booting"
  /\ proc' = [proc EXCEPT ![r] = "serving"]
  /\ readyFile' = r
  /\ UNCHANGED <<fields, handles, runtime, installed, displays, callers,
                 runners, poll>>

\* MATLAB ends by itself, on the exit command or by its user's choice.
Exit(r) ==
  /\ Alive(r)
  /\ proc' = [proc EXCEPT ![r] = "exited"]
  /\ UNCHANGED <<fields, handles, runtime, installed, readyFile, displays,
                 callers, runners, poll>>

\* MATLAB dies with an error.
Crash(r) ==
  /\ "crash" \in Faults
  /\ Alive(r)
  /\ proc' = [proc EXCEPT ![r] = "failed"]
  /\ UNCHANGED <<fields, handles, runtime, installed, readyFile, displays,
                 callers, runners, poll>>

\* exec.CommandContext kills the process whose context is cancelled.
ContextKill(r) ==
  /\ r \in cancelled
  /\ Alive(r)
  /\ proc' = [proc EXCEPT ![r] = "failed"]
  /\ UNCHANGED <<fields, handles, runtime, installed, readyFile, displays,
                 callers, runners, poll>>

----------------------------------------------------------------------------
(* Start and Stop.                                                         *)

\* Unless goroutines may be late, each has run its first statement by the
\* time the next request arrives or a timer of several seconds expires.
Scheduled == "lateSpawn" \in Faults \/ \A r \in Runs : rpc[r] # "spawned"

Goto(c, where) == pc' = [pc EXCEPT ![c] = where]

\* Stop returns: to the handler, or to the Start that is restarting.
ReturnFromStop(c) ==
  /\ Goto(c, IF call[c].run = None THEN "idle" ELSE "relock")
  /\ call' = [call EXCEPT ![c] = CallFor(call[c].run, FALSE)]

\* The second half of Start's critical section, for launch r.
BeginRun(c, r) ==
  \/ /\ ~installed
     /\ errors' = {"MatlabInstallError"}
     /\ Goto(c, "idle")
     /\ call' = [call EXCEPT ![c] = NoCall]
     /\ UNCHANGED <<status, busyStatus, connector>>
  \/ /\ installed
     /\ status' = "starting"
     /\ errors' = {}
     /\ busyStatus' = None
     /\ connector' = None
     /\ Goto(c, "setCancel")
     /\ call' = [call EXCEPT ![c] = CallFor(r, FALSE)]

\* Mutation of Start: a restart begins without stopping what is running.
StartWithoutStop(c, restart) ==
  /\ pc[c] = "idle" /\ Scheduled
  /\ nextRun <= MaxRuns
  /\ nextRun' = nextRun + 1
  /\ status = "down" \/ restart
  /\ BeginRun(c, nextRun)
  /\ UNCHANGED <<matlabCmd, displayMgr, mwapikey, handles, runtime, outside,
                 runners, poll>>

\* Start(restart) from state down, or from any other state when restarting.
\* A Start that finds MATLAB active and is not a restart returns at once.
Start(c, restart) ==
  /\ pc[c] = "idle" /\ Scheduled
  /\ nextRun <= MaxRuns
  /\ nextRun' = nextRun + 1
  /\ \/ /\ status = "down"
        /\ BeginRun(c, nextRun)
     \/ /\ status # "down"
        /\ restart
        /\ Goto(c, "stop")
        /\ call' = [call EXCEPT ![c] =
                      CallFor(nextRun, status = "stopping")]
        /\ UNCHANGED <<status, busyStatus, connector, errors>>
  /\ UNCHANGED <<matlabCmd, displayMgr, mwapikey, handles, runtime, outside,
                 runners, poll>>

\* Start again, with the lock retaken after its Stop: the status is not
\* looked at a second time.
Relock(c) ==
  /\ pc[c] = "relock"
  /\ BeginRun(c, call[c].run)
  /\ UNCHANGED <<matlabCmd, displayMgr, mwapikey, handles, runtime, outside,
                 nextRun, runners, poll>>

\* p.cancel = cancel, after the unlock.
SetCancel(c) ==
  /\ pc[c] = "setCancel"
  /\ cancel' = call[c].run
  /\ Goto(c, "setDone")
  /\ UNCHANGED <<fields, done, runtime, outside, call, nextRun, runners, poll>>

\* Mutation of SetDone: go p.run(ctx) without a fresh channel.
SetDoneNil(c) ==
  /\ pc[c] = "setDone"
  /\ done' = None
  /\ rpc' = [rpc EXCEPT ![call[c].run] = "spawned"]
  /\ Goto(c, "idle")
  /\ call' = [call EXCEPT ![c] = NoCall]
  /\ UNCHANGED <<fields, cancel, runtime, outside, nextRun, chan, ec, poll>>

\* p.done = make(chan struct{}); go p.run(ctx)
SetDone(c) ==
  /\ pc[c] = "setDone"
  /\ done' = call[c].run
  /\ rpc' = [rpc EXCEPT ![call[c].run] = "spawned"]
  /\ Goto(c, "idle")
  /\ call' = [call EXCEPT ![c] = NoCall]
  /\ UNCHANGED <<fields, cancel, runtime, outside, nextRun, chan, ec, poll>>

\* Whether Stop asks MATLAB to exit before it resorts to cancelling.
Graceful(force) ==
  /\ matlabCmd # None
  /\ ~force
  /\ status # "starting"
  /\ connector # None

\* The critical section at the top of Stop, when the status is not down.
Snapshot(c, run, force) ==
  /\ status # "down"
  /\ status' = "stopping"
  /\ Goto(c, IF Graceful(force) THEN "exit" ELSE "cancel")
  /\ call' = [call EXCEPT ![c] =
                [run |-> run, force |-> force, cmd |-> matlabCmd,
                 ec |-> IF Graceful(force) THEN connector ELSE None,
                 starting |-> (status = "starting"),
                 wait |-> 0]]
  /\ UNCHANGED <<busyStatus, connector, matlabCmd, displayMgr, errors,
                 mwapikey>>

\* Stop(false), called by a handler.
Stop(c) ==
  /\ pc[c] = "idle" /\ Scheduled
  /\ Snapshot(c, None, FALSE)
  /\ UNCHANGED <<handles, runtime, outside, nextRun, runners, poll>>

\* Stop(forceKill), called by Start.
RestartStop(c) ==
  /\ pc[c] = "stop"
  /\ \/ Snapshot(c, call[c].run, call[c].force)
     \/ status = "down" /\ ReturnFromStop(c) /\ UNCHANGED fields
  /\ UNCHANGED <<handles, runtime, outside, nextRun, runners, poll>>

\* ec.SendExit(): MATLAB obeys when the key is its own; a failure to reach
\* it makes Stop forceful.  The HTTP status of the answer is not looked at.
SendExit(c) ==
  /\ pc[c] = "exit"
  /\ LET e == call[c].ec IN
     \/ /\ Listens(e)
        /\ proc' = IF Answers(e) THEN [proc EXCEPT ![e.port] = "exiting"]
                                 ELSE proc
        /\ Goto(c, "sent")
        /\ call' = [call EXCEPT ![c].ec = None]
     \/ /\ ~Listens(e) \/ "stopTimeout" \in Faults
        /\ call' = [call EXCEPT ![c].force = TRUE, ![c].ec = None]
        /\ Goto(c, "cancel")
        /\ UNCHANGED proc
  /\ UNCHANGED <<fields, handles, runtime, installed, readyFile, displays,
                 nextRun, runners, poll>>

\* The select statement evaluates p.done when it is entered.
WaitOnDone(c, from, to) ==
  /\ pc[c] = from
  /\ call' = [call EXCEPT ![c].wait = done]
  /\ Goto(c, to)
  /\ UNCHANGED <<fields, handles, runtime, outside, nextRun, runners, poll>>

\* A timer of several seconds expires.
TimerFires == "stopTimeout" \in Faults /\ Scheduled

\* Mutation of Grace: Stop returns once MATLAB was told to exit.
GraceNothing(c) ==
  /\ pc[c] = "grace"
  /\ ReturnFromStop(c)
  /\ UNCHANGED <<fields, handles, runtime, outside, nextRun, runners, poll>>

\* Ten seconds of grace for MATLAB to exit.
Grace(c) ==
  /\ pc[c] = "grace"
  /\ \/ call[c].wait \in closed /\ ReturnFromStop(c)
     \/ /\ TimerFires
        /\ call' = [call EXCEPT ![c].force = TRUE, ![c].wait = 0]
        /\ Goto(c, "cancel")
  /\ UNCHANGED <<fields, handles, runtime, outside, nextRun, runners, poll>>

\* Stop kills the process it read in its snapshot.
Kills(c) == call[c].cmd # None /\ (call[c].force \/ call[c].starting)

\* p.cancel(), then cmd.Process.Kill().
Cancel(c) ==
  /\ pc[c] = "cancel"
  /\ cancelled' = IF cancel = None THEN cancelled ELSE cancelled \cup {cancel}
  /\ proc' = IF Kills(c) /\ Alive(call[c].cmd)
               THEN [proc EXCEPT ![call[c].cmd] = "failed"]
               ELSE proc
  /\ Goto(c, "drain")
  /\ call' = [call EXCEPT ![c].force = FALSE, ![c].starting = FALSE]
  /\ UNCHANGED <<fields, handles, closed, panicked, installed, readyFile,
                 displays, nextRun, runners, poll>>

GotoSettle(c) ==
  /\ Goto(c, "settle")
  /\ call' = [call EXCEPT ![c].wait = 0]

\* Mutation of Await: Stop does not wait for the run goroutine.
AwaitNothing(c) ==
  /\ pc[c] = "await"
  /\ GotoSettle(c)
  /\ UNCHANGED <<fields, handles, runtime, outside, nextRun, runners, poll>>

\* Mutation of Await: no timeout.
AwaitForever(c) ==
  /\ pc[c] = "await"
  /\ call[c].wait \in closed
  /\ IF call[c].cmd = None THEN GotoSettle(c) ELSE ReturnFromStop(c)
  /\ UNCHANGED <<fields, handles, runtime, outside, nextRun, runners, poll>>

\* Five seconds for the run goroutine to finish.
Await(c) ==
  /\ pc[c] = "await"
  /\ \/ /\ call[c].wait \in closed
        /\ IF call[c].cmd = None
             THEN GotoSettle(c)
             ELSE ReturnFromStop(c)
     \/ TimerFires /\ GotoSettle(c)
  /\ UNCHANGED <<fields, handles, runtime, outside, nextRun, runners, poll>>

\* Stop sets the state to down itself: always when no MATLAB command was
\* published, and after a timeout otherwise.
Settle(c) ==
  /\ pc[c] = "settle"
  /\ status' = "down"
  /\ IF call[c].cmd = None
       THEN busyStatus' = None /\ connector' = None
       ELSE UNCHANGED <<busyStatus, connector>>
  /\ ReturnFromStop(c)
  /\ UNCHANGED <<matlabCmd, displayMgr, errors, mwapikey, handles, runtime,
                 outside, nextRun, runners, poll>>

----------------------------------------------------------------------------
(* The run goroutine of launch r.                                          *)

Advance(r, from, to) ==
  /\ rpc[r] = from
  /\ rpc' = [rpc EXCEPT ![r] = to]

SetError(type) ==
  /\ errors' = errors \cup {type}
  /\ status' = "down"
  /\ UNCHANGED <<busyStatus, connector, matlabCmd, displayMgr>>

\* defer close(p.done) evaluates p.done now; then the logs directory is made.
Begin(r) ==
  /\ chan' = [chan EXCEPT ![r] = done]
  /\ \/ Advance(r, "spawned", "display") /\ UNCHANGED fields
     \/ /\ "setup" \in Faults
        /\ Advance(r, "spawned", "close")
        /\ SetError("SetupError") /\ UNCHANGED mwapikey
  /\ UNCHANGED <<handles, runtime, outside, callers, ec, poll>>

\* p.displayMgr = display.NewManager(p.logger)
MakeDisplay(r) ==
  /\ Advance(r, "display", "xvfb")
  /\ displayMgr' = r
  /\ UNCHANGED <<status, busyStatus, connector, matlabCmd, errors, mwapikey,
                 handles, runtime, outside, callers, chan, ec, poll>>

\* p.displayMgr.Start looks p.displayMgr up again, without the lock; Xvfb may
\* be missing or fail to start.
StartDisplay(r) ==
  /\ Advance(r, "xvfb", "launch")
  /\ \/ /\ displayMgr = None
        /\ panicked' = {"nilDisplay"}
        /\ UNCHANGED displays
     \/ /\ displayMgr # None
        /\ UNCHANGED <<panicked, displays>>
     \/ /\ displayMgr # None
        /\ xvfb' = xvfb \cup {r}
        /\ xvfbCmd' = [xvfbCmd EXCEPT ![displayMgr] = r]
        /\ UNCHANGED panicked
  /\ UNCHANGED <<fields, handles, cancelled, closed, installed, readyFile,
                 proc, callers, chan, ec, poll>>

\* buildMATLABEnv makes the API key; cmd.Start refuses a cancelled context.
Launch(r) ==
  /\ mwapikey' = r
  /\ \/ /\ r \in cancelled \/ "launch" \in Faults
        /\ Advance(r, "launch", "close")
        /\ SetError("StartupError")
        /\ UNCHANGED proc
     \/ /\ r \notin cancelled
        /\ Advance(r, "launch", "publish")
        /\ proc' = [proc EXCEPT ![r] = "booting"]
        /\ UNCHANGED <<status, busyStatus, connector, matlabCmd, displayMgr,
                       errors>>
  /\ UNCHANGED <<handles, runtime, installed, readyFile, displays, callers,
                 chan, ec, poll>>

\* Mutation of Publish: the command is not recorded.
PublishNothing(r) ==
  /\ Advance(r, "publish", "waitPort")
  /\ UNCHANGED <<fields, handles, runtime, outside, callers, chan, ec, poll>>

\* p.matlabCmd = cmd
Publish(r) ==
  /\ Advance(r, "publish", "waitPort")
  /\ matlabCmd' = r
  /\ UNCHANGED <<status, busyStatus, connector, displayMgr, errors, mwapikey,
                 handles, runtime, outside, callers, chan, ec, poll>>

\* waitForConnector, phase 1: the ready file holds a port.
ReadPort(r) ==
  /\ readyFile # None
  /\ Advance(r, "waitPort", "waitPing")
  /\ ec' = [ec EXCEPT ![r] = [port |-> readyFile, key |-> mwapikey]]
  /\ UNCHANGED <<fields, handles, runtime, outside, callers, chan, poll>>

\* Mutation of Ping: any HTTP answer counts, whatever its status code.
PingAnyAnswer(r) ==
  /\ Advance(r, "waitPing", "pinged")
  /\ Listens(ec[r])
  /\ UNCHANGED <<fields, handles, runtime, outside, callers, chan, ec, poll>>

\* waitForConnector, phase 2: a ping is answered.
Ping(r) ==
  /\ Advance(r, "waitPing", "pinged")
  /\ Answers(ec[r])
  /\ UNCHANGED <<fields, handles, runtime, outside, callers, chan, ec, poll>>

\* Mutation of BecomeUp: the connector is not stored.
BecomeUpOnly(r) ==
  /\ Advance(r, "pinged", "waitExit")
  /\ status' = "up"
  /\ poll' = [poll EXCEPT ![r] = PollAt(IF Polling THEN "tick" ELSE "off")]
  /\ ec' = [ec EXCEPT ![r] = None]
  /\ UNCHANGED <<busyStatus, connector, matlabCmd, displayMgr, errors,
                 mwapikey, handles, runtime, outside, callers, chan>>

\* The answer is acted upon, whatever the status is by now.
BecomeUp(r) ==
  /\ Advance(r, "pinged", "waitExit")
  /\ connector' = ec[r]
  /\ status' = "up"
  /\ poll' = [poll EXCEPT ![r] = PollAt(IF Polling THEN "tick" ELSE "off")]
  /\ ec' = [ec EXCEPT ![r] = None]
  /\ UNCHANGED <<busyStatus, matlabCmd, displayMgr, errors, mwapikey, handles,
                 runtime, outside, callers, chan>>

\* waitForConnector returns without a connector.
LeaveWait(r) ==
  /\ rpc[r] \in {"waitPort", "waitPing"}
  /\ rpc' = [rpc EXCEPT ![r] = "waitExit"]
  /\ ec' = [ec EXCEPT ![r] = None]

\* Either phase ends when the context is cancelled or MATLAB is dead.
StopWaiting(r) ==
  /\ r \in cancelled \/ Dead(r)
  /\ LeaveWait(r)
  /\ UNCHANGED <<fields, handles, runtime, outside, callers, chan, poll>>

\* Mutation of StartTimeout: only the first phase is timed.
StartTimeoutPhase1(r) ==
  /\ "startTimeout" \in Faults
  /\ rpc[r] = "waitPort"
  /\ LeaveWait(r)
  /\ SetError("TimeoutError")
  /\ UNCHANGED <<mwapikey, handles, runtime, outside, callers, chan, poll>>

\* Either phase ends after ProcessStartTimeout; MATLAB is left running.
StartTimeout(r) ==
  /\ "startTimeout" \in Faults
  /\ LeaveWait(r)
  /\ SetError("TimeoutError")
  /\ UNCHANGED <<mwapikey, handles, runtime, outside, callers, chan, poll>>

\* Mutation of NoticeExit: run does not wait for the process.
NoticeWithoutWait(r) ==
  /\ Advance(r, "waitExit", "cleanup")
  /\ UNCHANGED <<fields, handles, runtime, outside, callers, chan, ec, poll>>

\* <-processExited
NoticeExit(r) ==
  /\ Dead(r)
  /\ Advance(r, "waitExit", "cleanup")
  /\ IF proc[r] = "failed" /\ r \notin cancelled
       THEN SetError("MATLABError") /\ UNCHANGED mwapikey
       ELSE UNCHANGED fields
  /\ UNCHANGED <<handles, runtime, outside, callers, chan, ec, poll>>

\* cleanupSessionFiles
Cleanup(r) ==
  /\ Advance(r, "cleanup", "finish")
  /\ readyFile' = None
  /\ UNCHANGED <<fields, handles, runtime, installed, proc, displays, callers,
                 chan, ec, poll>>

\* The display manager stops the Xvfb it knows.  display.Stop waits for it
\* without a timer and with Process.mu held; that it ends at once when it is
\* told to is assumed.
StopDisplay ==
  xvfb' = IF displayMgr = None THEN xvfb ELSE xvfb \ {xvfbCmd[displayMgr]}

\* The critical section at the end of run.
Finish(r) ==
  /\ Advance(r, "finish", "close")
  /\ status' = "down"
  /\ busyStatus' = None
  /\ connector' = None
  /\ matlabCmd' = None
  /\ displayMgr' = None
  /\ StopDisplay
  /\ UNCHANGED <<errors, mwapikey, handles, runtime, installed, readyFile,
                 proc, xvfbCmd, callers, chan, ec, poll>>

\* Mutation of Close: p.done is looked up when run returns, as a deferred
\* function literal would.
CloseCurrent(r) ==
  /\ Advance(r, "close", "exited")
  /\ IF done \in closed
       THEN panicked' = {"closedTwice"} /\ UNCHANGED closed
       ELSE closed' = closed \cup {done} /\ UNCHANGED panicked
  /\ UNCHANGED <<fields, handles, cancelled, outside, callers, chan, ec, poll>>

\* The deferred close; closing a closed channel panics.
Close(r) ==
  /\ Advance(r, "close", "exited")
  /\ IF chan[r] \in closed
       THEN panicked' = {"closedTwice"} /\ UNCHANGED closed
       ELSE closed' = closed \cup {chan[r]} /\ UNCHANGED panicked
  /\ UNCHANGED <<fields, handles, cancelled, outside, callers, chan, ec, poll>>

----------------------------------------------------------------------------
(* pollBusyStatus, started by launch r when it came up.  The busy status   *)
(* is the number of the MATLAB it was asked of.                            *)

PollTick(r) ==
  /\ poll[r].at = "tick"
  /\ \/ /\ r \in cancelled \/ connector = None
        /\ poll' = [poll EXCEPT ![r] = PollAt("off")]
     \/ /\ connector # None
        /\ poll' = [poll EXCEPT ![r] =
                      [at |-> "reply",
                       says |-> IF Answers(connector) THEN connector.port
                                                      ELSE None]]
  /\ UNCHANGED <<fields, handles, runtime, outside, callers, runners>>

PollReply(r) ==
  /\ poll[r].at = "reply"
  /\ busyStatus' = poll[r].says
  /\ poll' = [poll EXCEPT ![r] = PollAt("tick")]
  /\ UNCHANGED <<status, connector, matlabCmd, displayMgr, errors, mwapikey,
                 handles, runtime, outside, callers, runners>>

----------------------------------------------------------------------------

\* What a caller does once it is inside Start or Stop.
CallerStep(c) ==
  \/ Relock(c) \/ SetCancel(c) \/ SetDone(c)
  \/ RestartStop(c) \/ SendExit(c)
  \/ WaitOnDone(c, "sent", "grace") \/ WaitOnDone(c, "drain", "await")
  \/ Grace(c) \/ Cancel(c) \/ Await(c) \/ Settle(c)

\* A new call; one that returns at once changes nothing.
NewCall(c) ==
  \/ \E restart \in BOOLEAN : Start(c, restart)
  \/ Stop(c)
  \/ pc[c] = "idle" /\ UNCHANGED vars

RunStep(r) ==
  \/ Begin(r) \/ MakeDisplay(r) \/ StartDisplay(r) \/ Launch(r) \/ Publish(r)
  \/ ReadPort(r) \/ Ping(r) \/ BecomeUp(r) \/ StopWaiting(r)
  \/ StartTimeout(r) \/ NoticeExit(r) \/ Cleanup(r) \/ Finish(r) \/ Close(r)

PollStep(r) == PollTick(r) \/ PollReply(r)

MatlabStep(r) == Serve(r) \/ Exit(r) \/ Crash(r) \/ ContextKill(r)

\* A panic in the run goroutine ends the proxy: nothing moves any more.
Next ==
  /\ panicked = {}
  /\ \/ \E c \in Callers : NewCall(c) \/ CallerStep(c)
     \/ \E r \in Runs : RunStep(r) \/ PollStep(r) \/ MatlabStep(r)

Spec == Init /\ [][Next]_vars
----------------------------------------------------------------------------
(* Scheduling.  Goroutines are scheduled, the HTTP client and the timers   *)
(* bound every wait, and exec.CommandContext kills on cancellation.        *)
(* MATLAB obeys an exit command unless it may outlive Stop's patience.     *)
(* Nothing is assumed of new calls, of MATLAB's start or of its faults.    *)

ObeyExit(r) ==
  /\ "stopTimeout" \notin Faults
  /\ proc[r] = "exiting"
  /\ Exit(r)

Fairness ==
  /\ \A c \in Callers : WF_vars(panicked = {} /\ CallerStep(c))
  /\ \A r \in Runs : /\ WF_vars(panicked = {} /\ RunStep(r))
                     /\ WF_vars(panicked = {} /\ ContextKill(r))
                     /\ WF_vars(panicked = {} /\ ObeyExit(r))

LiveSpec == Spec /\ Fairness

----------------------------------------------------------------------------
(* Safety under every fault and every interleaving.                        *)

\* While the status is up there is a connector to proxy requests to: the
\* proxy handler, which looks at the connector only, never answers that
\* MATLAB is not running while the status handler reports it as up.
UpHasConnector == status = "up" => connector # None

\* A published connector was verified: it is the port of a MATLAB this proxy
\* launched, with that MATLAB's own API key, whichever launch read it from
\* the shared ready file and whichever key p.mwapikey held at the time.
ConnectorVerified ==
  connector # None => connector.port \in Runs /\ connector.key = connector.port

\* A launch never leaves a live MATLAB without its run goroutine: there is
\* always one that will notice the exit and reap the process.
NoAbandonedMatlab ==
  \A r \in Runs :
    Alive(r) => rpc[r] \in {"publish", "waitPort", "waitPing", "pinged",
                            "waitExit"}

(* Safety when Start and Stop are called one at a time.                    *)

Idle(c) == pc[c] = "idle"
Quiet == \A c \in Callers : Idle(c)

\* A done channel is closed exactly when its run goroutine has finished, so
\* that waiting on p.done is waiting for the launch.
DoneMeansFinished ==
  \A r \in Runs : r \in closed <=> rpc[r] = "exited"

\* No run goroutine closes a channel twice, which would end the proxy.
NoDoubleClose == "closedTwice" \notin panicked

(* Safety when calls are made one at a time and nothing goes wrong.        *)

\* No run goroutine takes the proxy down with it: neither by closing a channel
\* twice nor by starting a display manager that an earlier launch, which was
\* thought to be over, has taken away in its last critical section.
NoPanic == panicked = {}

\* While the status is up the connector is that of the MATLAB process which
\* Stop would kill.
UpIsOwnMatlab ==
  status = "up" => connector = [port |-> matlabCmd, key |-> matlabCmd]

\* When Stop returns, the MATLAB process it read in its snapshot is dead, or
\* its context is cancelled and exec.CommandContext kills it.
StopReachesMatlab ==
  [][\A c \in Callers :
       /\ pc[c] \in {"grace", "await", "settle"}
       /\ pc'[c] \in {"idle", "relock"}
       /\ call[c].cmd # None
       => Dead(call[c].cmd) \/ call[c].cmd \in cancelled]_vars

\* MatlabProcess implements MatlabService: in every interleaving of a caller
\* with the goroutines of its launches and with MATLAB, the status moves along
\* the diagram, a launch begins only when the one before is gone, the status
\* is down only without a MATLAB, and a stop ends there (process.go:521).
Service == INSTANCE MatlabService WITH
  Launches <- Runs, status <- status, running <- {r \in Runs : Alive(r)}
ImplementsService == Service!Spec

(* Liveness.                                                               *)

\* Every call of Start or Stop returns.
CallsReturn == \A c \in Callers : ~Idle(c) ~> Idle(c) \/ panicked # {}

\* A start does not stay pending: it comes up, fails or is stopped.
StartResolves == status = "starting" ~> status # "starting" \/ panicked # {}

(* What the documentation says, which the code does not keep when a        *)
(* startup times out: see the findings in README.md.                       *)

\* "Graceful shutdown: stops MATLAB" (docs/usage.md:235): while the status is
\* down and no call is in progress no MATLAB is running, for Stop, which
\* returns at once in status down, has nothing left to stop (process.go:523).
DownIsQuiet == status = "down" /\ Quiet => \A r \in Runs : ~Alive(r)

=============================================================================
