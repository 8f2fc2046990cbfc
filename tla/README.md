# Verification of matlab-proxy-go

matlab-proxy is one Go process that launches a MATLAB process on demand, stops
and restarts it, puts its Embedded Connector (an HTTP server inside MATLAB)
behind authentication and a small web front end, and shuts itself down when
nobody uses it.  This directory holds TLA+ models of the parts whose behaviour
depends on the order of events, TLC configurations that check small instances
of them, and proofs of what holds for every instance.

    tlc -config ProcessPrompt.cfg MCMatlabProcess     # any .cfg of the table below
    tlapm PromptProcessProofs.tla                     # about a minute, as any *Proofs

## 1. The system

| Component | State | Operations | Who calls it |
|---|---|---|---|
| MATLAB process, `internal/matlab/process.go` | status, connector, command, display manager, errors, API key, cancel, done; all shared, most under `Process.mu` | `Start(restart)`, `Stop(force)`, `run` (one goroutine per launch), `waitForConnector`, `pollBusyStatus`; `Attach` and its monitor | request handlers, the server's start and shutdown; each call in a goroutine of its own |
| Embedded Connector client, `connector.go` | port and API key | ping, busy status, exit, proxying | the process manager, the HTTP proxy |
| Display manager, `internal/display` | the Xvfb and Fluxbox commands | `Start`, `Stop` | `run` |
| Session manager, `internal/session` | owner of the session and when it was last seen; remaining idle time, reset channel, ticker | `SetActiveClient`, `ClearClient`, `ResetIdleTimer`, `runIdleTimer` | `handleIndex`, `handleGetStatus`, `handleClearClientID` |
| Front end, `server/static/js/app.js` | client ID, iframe, overlay and what it shows, previous status, login listeners | token gate, poll every second, transfer, beacon at unload, start/stop/licence buttons, embedded login | the user, timers, responses |
| Terminal drawer, `app.js`, and terminal, `internal/terminal` | drawer state, the current terminal and socket; a shell on a PTY with two copying goroutines per socket | open, minimize, close, resize; `HandleWebSocket` | the user, the sockets |
| Licensing, `internal/licensing` | current licence (a shared pointer), cached file, `cfg.NLMConnStr` | `Init`, `SetLicensing`, `SetMHLMLicensing`, `UpdateEntitlement`, `ClearLicensing`, `MHLMEnvVars` | handlers, server start, the start handler |
| HTTP server, `internal/server` | the components, info file, shutdown channel | routes, `Start`, `Shutdown` | browsers, `main`, the idle watcher |
| Authentication, `internal/auth` | the token | validate, cookies | middleware |
| Proxies, `internal/proxy` | pairs of connections | two relaying goroutines | browsers |
| Main program, `cmd/matlab-proxy` | where it is between the boot and the return of `Start` | signals, `Start`, `Shutdown` | the operating system |
| Configuration, discovery, logging | none that changes after start | | |

How they interact: handlers run concurrently, one goroutine per request, and
meet in the mutexes of the process, session and licensing managers.
`handleStartMATLAB`, `handleStopMATLAB` and `handleDeleteLicensing` answer at
once and leave `Start` or `Stop` to a goroutine.  A `run` goroutine lives as long
as its MATLAB and talks to later calls through shared fields: its last critical
section resets whatever launch is current by then.  MATLAB and the proxy share a
file, `connector.securePort`.  The front end learns everything by polling.

What is hard here:

* **Overlapping launches.**  `Stop` and the startup timeout give up before the
  goroutine does, so an old launch can act in the middle of its successor.
* **Unlocked hand-over.**  `p.cancel`, `p.done`, `p.displayMgr` and `p.mwapikey`
  are used outside the lock, `p.done` is evaluated when `run` begins and again
  in every `select` of `Stop`.
* **Time.**  Seven different timeouts race with the answers they wait for.
* **An unreliable front end.**  Polls, beacons and transfers overtake one
  another or are lost, and a tab that is gone can still have a poll under way.
* **Leftovers.**  Ready files of a crashed proxy, displays, licences on disk,
  listeners and timers of a page that was started twice.
* **Three ways to end.**  A signal, the idle timeout and the shutdown button each
  run `Shutdown`, while requests may start MATLAB again; `main` returns as soon as
  the first of them has closed the HTTP server.
* **Two ends of a pipe.**  A shell, its PTY, two copying goroutines and a browser
  end in any order.

What makes the components correct: one MATLAB at a time; a status that tells the
truth about it; a connector that is the MATLAB's own; every call ends and every
launch is cleaned up after (process).  The session belongs to the tab whose
user asked for it, is released when that tab goes, and the server outlives its
users by the idle timeout and no longer (session).  The licence in use is the one
the user gave last, survives a restart, and is the one MATLAB gets (licensing).
Nothing but a valid token opens the page, what it shows catches up with MATLAB and
with the session, and the dialogs it puts up can be left (front end).
Shutdown leaves no MATLAB and no info file behind (server).  Shell, handler and
browser end together (terminal).  The hazards behind these properties are
listed, each at its line, in `PROJECT.json`.

## 2. Modules

| Module | Models | Composed with |
|---|---|---|
| `MatlabProcess` | `Process` in normal mode with MATLAB, the connector client and the display manager as far as `run` uses them | |
| `MatlabService` | the abstract specification of the process: what it promises to the rest of the proxy | `MatlabProcess` refines it (`INSTANCE ... WITH`), `ServerLifecycle` uses it |
| `MCMatlabProcess` | instances for TLC | extends `MatlabProcess` |
| `MatlabProcessProofs` | theorems for every interleaving and fault, and for calls one at a time | extends `MatlabProcess`, `TLAPS` |
| `PromptProcessProofs` | theorems for prompt use: the refinement of `MatlabService` and what goes with it | extends `MatlabProcessProofs` |
| `AttachedProcess` | `Process` in attach mode: `Attach`, `Stop`, `runAttached`, `monitorAttachedEC` | |
| `MCAttachedProcess` | instance for TLC | extends `AttachedProcess` |
| `AttachedProcessProofs` | theorems | extends `AttachedProcess`, `TLAPS` |
| `SessionManager` | `session.Manager`: the effect of each method, the steps of `runIdleTimer` | |
| `BrowserSessions` | tabs, network, the three handlers | extends `SessionManager` |
| `MCBrowserSessions` | instance for TLC | extends `BrowserSessions` |
| `BrowserSessionsProofs` | theorems | extends `BrowserSessions`, `TLAPS` |
| `Licensing` | `licensing.Manager`, the handlers that change or use the licence, the restart of the proxy, the licence variables of a launch | |
| `MCLicensing` | instances for TLC | extends `Licensing` |
| `LicensingProofs` | theorems | extends `Licensing`, `TLAPS` |
| `FrontEnd` | one page of `app.js`: token gate, overlay, buttons, embedded login, polls | |
| `MCFrontEnd` | instance for TLC | extends `FrontEnd` |
| `FrontEndProofs` | theorems | extends `FrontEnd`, `TLAPS` |
| `TerminalHandler` | `HandleWebSocket`: the handler, its two goroutines, the shell | |
| `TerminalDrawer` | the drawer of `app.js` and its sockets | extends `TerminalHandler` |
| `MCTerminalDrawer` | instance for TLC | extends `TerminalDrawer` |
| `TerminalDrawerProofs` | theorems | extends `TerminalDrawer`, `TLAPS` |
| `ServerLifecycle` | `main`, `Server.Start` and `Server.Shutdown`, the info file | instantiates `MatlabService` |
| `MCServerLifecycle` | instances for TLC | extends `ServerLifecycle` |
| `ServerLifecycleProofs` | theorems | extends `ServerLifecycle`, `TLAPS` |

### MatlabProcess

A launch is a number in `Runs`; the number also names the launch's context,
channel, MATLAB, port, API key and display manager.  So `connector.port = r` reads
"the port on which launch r's MATLAB listens" and a wrong key is a different
number.  `proc[r]` is the state of that MATLAB.

| Code | Model |
|---|---|
| fields of `Process` | `status`, `busyStatus`, `connector`, `matlabCmd`, `displayMgr`, `errors`, `mwapikey`, `cancel`, `done` |
| a call of `Start` or `Stop` | a caller `c` with `pc[c]` and its locals `call[c]`; `call[c].run # None` means that the call is a `Start` |
| `Start` up to its first unlock | `Start`; after its inner `Stop`: `Relock` |
| the three statements after the unlock | `SetCancel`, `SetDone` |
| `Stop` | `Stop` or `RestartStop`, `SendExit`, `WaitOnDone`, `Grace`, `Cancel`, `WaitOnDone`, `Await`, `Settle` |
| `run` | `Begin`, `MakeDisplay`, `StartDisplay`, `Launch`, `Publish`, the wait, `NoticeExit`, `Cleanup`, `Finish`, `Close` |
| `waitForConnector` | `ReadPort`, `Ping`, `BecomeUp`, `StopWaiting`, `StartTimeout` |
| `pollBusyStatus` | `PollTick`, `PollReply` |
| MATLAB and `os/exec` (external) | `Serve`, `Exit`, `Crash`, `ContextKill` |

Each critical section is one step; each access outside the lock is a step of its
own, so that the data races on `cancel`, `done` and `displayMgr` become orders of
steps.  A panic in `run` (closing a closed channel, a nil display manager) ends
the proxy: `panicked` records it and nothing moves afterwards.

Left out: warnings and the lines of stderr (shown to the user, read by nothing),
Fluxbox, the choice of a display number, the deletion of log files other than the
ready file.  The display's name in MATLAB's environment (`process.go:736`), where
`displayMgr` is read once more between `StartDisplay` and `Launch`, is not told
apart from the read in `StartDisplay`.  A busy query that is refused while a ping is
answered (an old MATLAB) leaves the busy status alone and is a stuttering step.

### MatlabService

The process as its callers see it: a status, and the MATLABs that run.  A launch begins
only when nothing runs and the status is down; a stop makes the status stopping and
ends there.  Three of its steps look odd and are what the code does: MATLAB may still
appear after a stop was asked for (`cmd.Start` under way), the status may go back to up
then (an answer to a ping under way), and a second stop may follow.
`MatlabProcess!ImplementsService` substitutes the set of live MATLABs for `running`; it
holds for calls made one at a time when nothing goes wrong.  With a timeout of the
startup it is false (section 6).

### AttachedProcess

The mode is chosen at start and never changes, so `Process` in attach mode is a module of
its own.  An attachment is a number, as a launch is in `MatlabProcess`; `connector`
says which attachment stored it, although all connectors have the same port and key.
The user's MATLAB is outside: it starts, answers or not, and ends.  A request of the
monitor that takes long is a state (`query`, `ping`) in which it stays while others
move; the server's shutdown is one more caller of `Stop`.

Left out: `busyStatus` and `errors`, which are shown to the user and read by nothing,
and the key and port, which are constants in this mode.

### SessionManager and BrowserSessions

Time is counted in seconds by `Second`, which happens when everything sent in the
current second has been dealt with: the network and the goroutines are fast on the
scale of the one-second poll.  Within the second every order is possible:
requests and responses form sets and are taken in any order, a tick and a reset
that are ready together are taken in either order, and `fetch` fails up to
`MaxLosses` times.  `unseen` is the age of `activeClientSeen`, counted as far as it
matters.  A client ID is a page load: a reloaded tab is a new client.

The methods of `SessionManager` hold the lock from beginning to end, so they are
operators that a handler's step applies, not steps.  `concurrencyEnabled` is true
outside unit tests and is not a parameter.

### Licensing

`Manager.info` is a pointer that handlers keep and change in place, so the model has
a small `heap`; `SetInfo` stands for `m.info = &Info{...}` and takes a place that no
handler holds.  A handler is a goroutine; its critical sections and its accesses
outside the lock are steps, and every call to the MathWorks services lies between
two of them.  Identities, entitlements and connection strings are model values; an
entitlement is known by the identity that owns it, and `Several` are the identities
with more than one, for which nothing is selected automatically.

`handleStartMATLAB` and `handleDeleteLicensing` answer before MATLAB is started or
stopped.  What they leave behind is counted, `restarts` and `stops` being the goroutines
that are still to call `Start(true)` and `Stop(false)`, and `autostart` the one of
`Server.Start`; later requests come in between, at most `MaxCalls` being outstanding.
A start that has begun is `launching` until `run` reads the licence variables (`Launch`), so
the licence may change before that too.  `overtaken` is history: the licence was changed
while a start was under way.  Of the process only so much is kept: `Start(true)` replaces
whatever is there, a `Stop` may or may not reach a start that has just begun, MATLAB may end
at any time; `MatlabProcess` has what is inside.  An update may name any entitlement,
also of a licence that has no token, as `UpdateEntitlement` does not look.

| Code | Model |
|---|---|
| `SetMHLMLicensing`, `fetchAndSetEntitlements` | `Login`, `ReadToken`, `StoreEntitlements` or `ClearMHLMTokenFields`, `PersistLogin` |
| the other licences, `handleUpdateEntitlement` | `SetNLM` and `SetConnStr`, `SetExisting`, `UpdateEntitlement` |
| `handleDeleteLicensing` | `ClearLicensing`; its goroutine: `CallStop` |
| `handleStartMATLAB`, `prepareMATLABEnv`, `MHLMEnvVars` | `CheckLicence`, `ReadType`, `ReadInfo`, `FetchAccessToken`, `SetExtraEnv`; its goroutine: `CallStart`; `run`: `Launch` |
| `Server.Start`, `Manager.Init` | `Restart`, `Initialized`, `StartWith`; its goroutine: `CallAutostart` |

A panic with the lock held sets `lockLost`, after which nobody gets the lock.  A
forgotten read lock is treated like a write lock: the first writer that queues behind
it blocks the readers too.  `Restart` ends the proxy at any point and runs
`Manager.Init` and the automatic start; `file` is what survives.  `answer` is what the
user was told of the last change, because a change that was refused or did not reach
the disk stays in memory all the same.

Left out: the format of the services' answers and of expiry dates (a cached token is
expired or it is not), `MWI_LICMODE_OVERRIDE`, which replaces the `-licmode` of a
launch, attach mode, `RefreshEntitlements`, which nothing calls, requests that `validateInfo` rejects, and
a crash in the middle of `os.WriteFile`.

### FrontEnd

One page, from its loading to the end of the proxy.  `world` is what the proxy would
answer the page's next poll: the status of MATLAB, whether there is a licence, and
whether this page is the active one.  The page's own requests, MATLAB and the other
pages change it.  A request is sent and handled in one step and its answer is applied
later: `answers` is a set, so answers overtake one another.  `body` is what the overlay
shows, `currentOverlay` the variable of that name, and they differ (hiding the panel with
the trigger, in `togglePanel`, leaves `currentOverlay` alone, as `closeOverlay` does not): which of the two a
function looks at is part of the model.

| Code | Model |
|---|---|
| `init`, `checkAuth`, `showAuthScreen`, `submitAuthToken`, `startApp` | `Init`, `InitChecked`, `SubmitAuthToken`, `SubmitChecked`, with `CheckAuth`, `ShowAuthScreen`, `StartApp` |
| `pollStatus`, `updateUI`, `updateStatusPanelContent` | `PollStatus`, `UpdateUI`, of which `UpdateInactive`, `UpdateActive`, `ConcurrencyDialog` |
| `showOverlay`, `closeOverlay`, `togglePanel`, the backdrop | `ShowOverlay`, `HideOverlay`, `CloseOverlay`, `ClickTrigger`, `ClickBackdrop` |
| the buttons and confirmations | `StartMatlab`, `AskConfirmation`, `ConfirmYes`, `Back`, `ShowLicensing` |
| `setLicensing` | `SetLicensing`, and for its answer `LicensingSet` |
| `transferSession`, `dismissConcurrentDialog` | `TransferSession`, `DismissConcurrentDialog` |
| the messages of the login iframe | `OnMHLMIframeLoaded`, `OnNonce`, `OnLogin` |

`starts` counts the calls of `startApp`: each leaves a poll timer and one listener of
every kind behind.  The authentication of the server is seen through `cookie` and
`Accepts`: a cookie before a token, and the cookie that a good token sets although its
answer may be lost.

Left out: the buttons that differ in attach mode, `showTab`, error and information texts,
the warning before an idle shutdown (no answer carries `idleTimeRemaining`), the
position of the trigger.  The session as the server and several tabs see it is in
`BrowserSessions`, the terminal drawer in `TerminalDrawer`.

### TerminalHandler and TerminalDrawer

A terminal is known by its socket; `client[s]` is the `readyState` in the browser, the
other fields of `s` belong to the handler on the server.  The handler's three
goroutines have a program counter each (`pc`, `output`, `input`); each blocking call is
a state.  `jobs` are the shells that left a process behind which has the PTY open: the
handler then waits for it.  `ConcurrentWrite` is what gorilla/websocket does when the
close message and output are written at once: it panics, in one of the two goroutines.
In the drawer a callback of a socket acts on the current terminal, whichever that is, as
in the code.  Of sizes only `stale` is kept: the PTY has not yet been told the
size of the drawer.

Left out: what is typed and shown, the colours and fonts, Windows (no PTY), the message
that the session ended.  A lost connection is `OnClose`; the server may notice later.

### ServerLifecycle

`main` is the place of the main goroutine in `Start`; `shutdown[c]` the place in
`Shutdown` of the goroutine that cause `c` has started, each cause once;
`starting[r]` a goroutine that calls `matlab.Start`, at boot or for a request: `called` until
it does so, `stopped` while its inner `Stop` waits, `relock` until it has the lock again,
`begun` until it has published `cancel` and `done`.  Requests are not held back by a
shutdown.  MATLAB is an instance of `MatlabService`, and what that promises holds as long as
calls do not overlap.  Where they do, this module has what the code does to the
status: `ReachesNothing` is a `Stop` before the publication, the second half of `Restart` a
`Start` that does not look at the status after its inner `Stop`.  Either leaves a MATLAB
that no call can reach, which this module then leaves out, and sets `raced`.  So does, for
the exit, a start that is under way when a shutdown calls `Stop` or that comes after it.
The `return` of `ListenAndServe` ends the program
(`main = "returned"`), and everything but MATLAB stops with it; `main = "failed"` is an exit
with an error.

`Faults` says what may come at a bad time: `portTaken` (the port cannot be bound),
`earlySignal` (a signal before `Start` is about to listen), `disk` (the info file cannot be
removed, which the code only logs).  With `earlySignal` or `disk` the info file may stay, so
`server` has neither; the theorem on MATLAB at the exit has all three.

## 3. Runs

The bounds are named in the modules (`MaxRuns`, `MaxLosses`, the timeouts) and given
values in the .cfg files.

| Run | Instance | Shows |
|---|---|---|
| `process_prompt` | one caller, three launches, no faults | with calls made one at a time by a user who waits for nothing but the return of a call: `MatlabService` is implemented (one MATLAB at a time, a true status, every stop ends down), the right connector, no panic |
| `process_faults` | one caller, two launches, every fault but late scheduling | what is left when launches overlap: a `done` channel still means what it says, a connector is verified, no MATLAB loses its watcher |
| `process_concurrent` | two callers, one launch, every fault, busy polling, fairness | every call returns, a start does not stay pending |
| `attached` | two callers, two attachments, two failures, a connector that may be silent or refuse its status, fairness | connects and disconnects that overlap, the properties below |
| `browser_sessions` | two page loads, one loss, expiry 2 s, idle timeout 4 s | the session properties below |
| `licensing_serial` | one handler, two outstanding calls, two identities, one connection string, every preset, services and disk that fail, restarts at any point | the licensing properties below |
| `front_end` | two answers under way, one token check, one licensing request; loaded while MATLAB is down | the gate holds; MATLAB and the session come to be shown as they are, in spite of old answers |
| `terminal` | two sockets, one change of size | shells, handlers and terminals end together, and the size arrives |
| `server` | one launch, the port may be taken, starts at any time | no exit leaves the info file, nor a MATLAB unless a start overlapped; every shutdown ends |
| `process_timeout_orphan`, `licensing_lock`, `server_late_start` | | the findings of section 6 |

Why the bounds are enough.  A launch interferes with its successor; a third launch
adds a predecessor that is still ending while the second is being restarted, which
is why `process_prompt`, whose state space permits it, has three and the run with
faults two.  In `process_concurrent` a second launch takes the liveness check out
of reach; the two callers still race as start against stop and as stop against
stop.  Two tabs are one owner and one contender.  The timeouts of the code are ten
seconds and multiples of sixty; the model's are the shortest that
`LossesAssumption` admits, and every shorter one makes the properties false: a lost
poll makes a tab skip a second, so an owner expires unless the expiry exceeds the
number of losses.  In `attached` a second attachment overlaps with the first; two failures
instead of five still need a count that survives a tick.  In `front_end` two answers are
one that overtakes another; a second check at a time, which starts the page twice, is
proved about (section 5) and was explored with one answer under way (`MaxChecks = 2`,
`MaxPolls = 1`: all four properties hold), but both together exceed the time of a
run.  Two sockets are a terminal and its successor.  In
`licensing_serial` (2.6 million states) two outstanding calls are the one that is
overtaken and the one that overtakes it, and one connection string is told apart from none;
a second one, and a second handler, are proved about or exceed the time of a run.  In
`server` MATLABs are alike and at most one can be reached, so one identity serves for all
launches.

`Faults` selects what may go wrong: a startup or stop timeout, a crash of MATLAB, a
failing set-up or launch, a ready file left by an earlier proxy, and `lateSpawn`, a
goroutine that is not scheduled for seconds (without it, each goroutine has run
its first statement by the time of the next request or of a timer).

Deadlock is checked, except where the system may stop: where a panic may end the proxy,
where all terminals have been used and closed, and where the program has returned.

**Fairness.**  Weak fairness for the steps of a call and of `run`: goroutines are
scheduled, HTTP requests to the connector have timeouts, and every wait in `process.go`
is a `select` with a timer or a context, apart from two.  `display.Stop` waits for Fluxbox
and Xvfb after a SIGTERM, without a timer and with `Process.mu` held (`display.go:88`, 93): the
model assumes of the environment that they end, and lets them do so at once.  The other is
the wait for the process, whose fairness is MATLAB's own: `ContextKill` (os/exec kills on cancellation) and
`ObeyExit` (MATLAB obeys an exit command, assumed only when `stopTimeout` is not
among the faults).  Nothing is assumed of new calls, of MATLAB coming up or of
faults.  In `AttachedProcess` likewise, and strong fairness for noticing a cancelled
context, because a `select` that finds a tick ready too chooses at random.
In `BrowserSessions`: timers fire, messages are delivered or lost, the
idle goroutine runs and time passes; nothing is assumed of users.  In `FrontEnd`: the
interval timer polls and answers go on being handled; which one is open, and an old one
may be handled after any number of newer ones.  In `TerminalDrawer`: the browser delivers the
events of a socket and of its observers, goroutines run when they are not blocked, the kernel
hangs up the shell of a closed PTY; nothing is assumed of the user, of the shell and
of the processes it leaves.  In `ServerLifecycle`: goroutines run, and a stop of MATLAB
ends with the status down, which is what `MatlabService` promises and `process_prompt`
checks of the code.

## 4. Properties

Process, under every fault and interleaving: `UpHasConnector`, `ConnectorVerified`,
`NoAbandonedMatlab`, `CallsReturn`, `StartResolves`.  With calls made one at a time:
`DoneMeansFinished`.  With calls made one at a time and no faults: `ImplementsService`,
`NoPanic`, `UpIsOwnMatlab`, `StopReachesMatlab`.  The grouping is itself a result:
each property is stated in the widest setting in which it holds.  The refinement
stands for what would otherwise be several properties: one MATLAB at a time, none
while the status is down, only the legal changes of the status, every stop ends.

Attach mode, under every fault and interleaving: `UpHasConnector`, `ConnectorWatched` (a
connector that requests are proxied to is watched by an attachment), `CallsReturn`,
`AttachResolves`, `EndNoticed` (the end of the user's MATLAB is noticed).
A late end of an old attachment can still take the status of its successor down; the
user then has to reconnect.

Session: `OwnerKept` (a tab loses the session only to a user who asked for it, whatever
overtakes whatever), `OpenTabKeepsServer` (the idle shutdown never meets an open
page), `FrameFollowsOwner` (a stale answer may show MATLAB in two tabs, but not for
good), `SessionReleased` (a closed tab does not keep the session although its last
poll may be handled after its beacon), `IdleServerStops`.

Licensing, with requests one at a time, each answered before the next while what an earlier
one has left to a goroutine may still be under way: `RestartRestores` (what the user was told
of survives a restart), `OwnEntitlement` (no step gives a licence the entitlement of
another identity, unless the user names it), `LaunchedAsLicensed` (`run` reads the variables
of the licence in use, unless it was changed after the start was prepared),
`SignedOutIsStopped` (once there is no licence and the removals' goroutines are done, MATLAB
neither runs nor is about to, unless the removal overtook a start).  The exceptions are
what the code does (section 6).  With two handlers `OwnEntitlement` (two logins under way) and
`SignedOutIsStopped` (a start and a removal under way) are false; the hazard list says where.

Front end: `GateHolds` (until a token is accepted the authentication screen stays on top,
whatever is clicked and answered), `OnePageDisplays` (an active page comes to show a
MATLAB that is up, a page that lost the session to give it away and to offer it back),
`PanelCatchesUp` (a status panel comes to show where MATLAB has settled).

Terminal: `ShellEndsWithTerminal` (no shell survives its terminal, its connection or the
proxy), `HandlerEnds` (no goroutine is left waiting for the other end),
`SizeFollows` (the shell comes to know the size of the drawer, also when that changed
while the socket was connecting).

Server: `ExitLeavesNoMatlab`, `InfoFileRemoved` (the program returns with neither behind,
with three shutdowns at once; for MATLAB unless a start has overlapped with a stop), `ShutdownEnds`.
`ShutdownStopsMatlab` is the same without the exception, and false.

Every property has a mutant: a plausible change of the code, written beside the
operation it changes, under which TLC finds the property violated.

## 5. Proofs

Each proof is the usual one: the initial states satisfy an invariant, every action
preserves it, and the property, or the property of a step, follows.  What differs is
the invariant, and under which hypotheses it is one.  TLC has checked each invariant
on a small instance before it was proved.

| Hypothesis | Says | Needed because |
|---|---|---|
| `Serial` | one caller of `Start` and `Stop`, and every fault but `lateSpawn` | two restarts hand one channel to two launches (section 6), and so does a goroutine that is late when a stop has given up on it |
| `Prompt` | one caller, and every fault but `startTimeout`, `stopTimeout` and `crash` | each of the three lets a launch outlive its status (section 6); with any one of them TLC finds one of the theorems below false |
| `OneUser` | one caller in attach mode, and a connector that answers or refuses in time | a silent connector lets an attachment outlive its `Stop` (section 6) |
| `OneHandler` | one licensing request at a time; any number of goroutines that earlier ones have left behind | two logins, or a start and a removal, break the properties (hazard list) |
| `Orderly` | no signal before the program is about to listen, the info file can be removed; only for `OrderlyInfoFile` | section 6 |

Apart from these the only assumptions are those that the modules state of their
constants.  They are as weak as the code allows: `LossesAssumption` compares the timeouts
with the calls that may be lost, `AbsenceAssumption` of `Licensing` says that an absent
file and nil differ from every licence and credential.

`MatlabProcessProofs` proves, for every set of callers, every `MaxRuns` and every
combination of faults,

* `TypeCorrect` (`TypeOK`), by `TypeInv == TypeOK /\ CallsHaveRuns`: that a call at
  `SetCancel` or `SetDone` has a launch to publish is needed for the type of
  `cancel` and `done`;
* `UpConnected` (`UpHasConnector`) and `ConnectorTrusted` (`ConnectorVerified`), by
  `ConnectorInv`: the connector that a launch holds between the answered ping and
  `BecomeUp` is verified too.  The status says nothing about a launch that has been
  overtaken, so the invariant speaks of the launch and not of the status;
* `MatlabWatched` (`NoAbandonedMatlab`), by `LaunchInv`: a launch that was not yet
  spawned, that has not launched MATLAB or that has noticed the exit has no live
  MATLAB, and two calls never hold the same launch number, so that no launch is
  spawned twice;
* `SerialDone` and `SerialClose` (`DoneMeansFinished`, `NoDoubleClose`), under `Serial`
  and every fault, by `ChannelInv`: `done` is the latest launch's channel from
  its publication until the next one's, and the launch takes it before the caller
  can replace it unless a goroutine may be late, in which case nothing is claimed.

`PromptProcessProofs` adds `ChannelsAgree` and `PromptInv` to `TypeInv`, `LaunchInv` and
`ConnectorInv` and proves, under `Prompt`,

* `PromptService`: the initial states and every step of the process map to those of
  `MatlabService` or leave it alone, which is the safety half of `ImplementsService`;
* `PromptOwnMatlab` (`UpIsOwnMatlab`), `PromptNoPanic` (`NoPanic`) and `PromptDownIsQuiet`
  (`DownIsQuiet`, which is false in the run with a startup timeout);
* `PromptStop` (`StopReachesMatlab`).  The proof shows more than the property: since
  neither timer of `Stop` fires, the MATLAB of its snapshot is dead when it returns.

`PromptInv` says that a launch is active only while `done` and `cancel` are its own and
the status is not down (`OneLaunch`); what a call at each of its places knows of the
launch it waits for (`CallerAgrees`); and how the place of `run` determines the fields
(`RunnerAgrees`, `FieldsAgree`).  A goroutine that is late still takes its own channel:
`OneLaunch` counts it as active from its spawn.  The steps map by cases: a launch that spawns MATLAB is
`Spawn` because by `OneLaunch` no other is active, and by `LaunchInv` only an active launch
has a live MATLAB; the step to down is `Settle` for the same reason.

`AttachedProcessProofs` proves, for all callers, bounds and faults,

* `AttachedTypeCorrect` (`TypeOK`), by `TypeInv`: an attachment is spawned once, by the
  call that has drawn its number, and the monitor looks at the count of failures as
  soon as it is full;
* `AttachedUpConnected` (`UpHasConnector`) and `AttachedWatched` (`ConnectorWatched`), by
  `ConnectorInv`: the connector is watched by the very attachment that stored it;

and under `OneUser`, by `UserInv` (an attachment that is active is the latest and has the
handles, its channel is its own, `Stop` waits for it, a status that is down means that
none is active),

* `AttachedNoPanic`, `AttachedDetached` and `AttachedLatest`: no channel is closed twice,
  nothing polls MATLAB once the status is down, and while it is up the connector is that
  of the latest attachment.  Together with the finding they say where attach mode can be
  relied on; under every fault none of the three holds.

`BrowserSessionsProofs` proves, for all tabs, losses and timeouts that outlast them,

* `SessionTypeCorrect` (`TypeOK`), for which the idle timer must be seen never to count on
  at zero;
* `OpenOwnerKept` (`OwnerKept`) and `OpenTabKeeps` (`OpenTabKeepsServer`), by `SessionInv`:
  `OwnerSeen` and `TimeLeft` count what an owner and an open tab have left.  Every second
  costs one unless the tab's poll of that second arrives, a poll that fails takes one of
  the losses, and the bound within a second depends on whether the tick has come, the poll
  is under way or a reset waits.  `PagesSend` says that a tab's beacon is sent after it is gone.

`LicensingProofs` proves, for all handlers, identities, connection strings, presets
and faults,

* `LicensingTypeCorrect` (`TypeOK`), by `TypeInv`: what a request carries from one
  step to the next fits the step it is about to take.  The proof needs that the
  heap has a place that no handler holds (`FreePointer`, by counting);

and under `OneHandler`

* `OwnEntitlementKept` (`OwnEntitlement`), `SignedOutStops` (`SignedOutIsStopped`),
  `LaunchedRight` (`LaunchedAsLicensed`) and `RestartKeeps` (`RestartRestores`), by
  `SerialInv`: that only a hosted licence has a token or an entitlement
  (`AllEntitled`), what each place of a handler knows of the licence and of the
  credentials it has read (`AllHeld`), what they are as long as a start is under way that no
  change has overtaken (`StartReady`), that the connection string is the licence's own unless
  it is about to be set (`ConnAgrees`), that without a licence nothing runs or is about
  to unless a removal's goroutine is still to stop it (`Stopped`), and that what a start
  of the proxy would make of the cached file is the licence in use unless a login is under
  way (`Cached`).

`FrontEndProofs` proves, for every bound and every first world,

* `FrontEndTypeCorrect` (`TypeOK`) and `GateKept` (`GateHolds`), by `PageInv`: the checks
  accepted and under way together share the bound, nothing is started and no licensing
  request is made before a token is accepted, and at the gate not only is the screen
  visible but `currentOverlay` says so too, which is what the backdrop and the
  answers look at;
* `FrameKept` and `DialogsKept`, by `ViewInv`: the iframe belongs to a page that has been
  the active one and last heard that MATLAB is up, and the two dialogs of a lost
  session tell the truth about it.  They hold although `currentOverlay` may name an overlay
  that the trigger has hidden: `OverlayNamed` says that it names what is visible.

`TerminalDrawerProofs` proves, for every number of sockets and resizes,

* `TerminalTypeCorrect` (`TypeOK`);
* `OneTerminalKept`: the page has no socket in use but that of its terminal.  The
  callbacks of `app.js` use the current socket and not the one they belong to; this
  is why those that act on an open one are right;
* `ShellsEnded`: a handler that has ended has ended its shell, unless the proxy has
  crashed.  `TerminalInv` says for each stage of a handler how far its shell and its two
  goroutines must be.

`ServerLifecycleProofs` proves, for all launches,

* `ServerTypeCorrect` (`TypeOK`), under every fault; that `httpServer` is set before the
  program listens is part of it;
* `ExitStopsMatlab` (`ExitLeavesNoMatlab`), under every fault, by `ExitInv`: a server that is
  closed was closed by a shutdown that is done (`ClosedByShutdown`), and unless a start has
  overlapped with it, a shutdown that has called `Stop` leaves no start under way
  and one whose `Stop` has returned finds the status down, where no MATLAB runs
  (`StoppedForGood`);
* `OrderlyInfoFile` (`InfoFileRemoved`), under `Orderly`, by `FileInv`: a shutdown begins after
  the file was written, and from the moment one has removed it nothing writes it again.

Every invariant and every safety action property of a passing run is a theorem.  Only
model-checked are the liveness properties, which are outside the prover's reach as they
need fairness and `ENABLED`: `CallsReturn`, `StartResolves`, `AttachResolves`, `EndNoticed`,
`FrameFollowsOwner`, `SessionReleased`, `IdleServerStops`, `OnePageDisplays`, `PanelCatchesUp`,
`ShellEndsWithTerminal`, `HandlerEnds`, `SizeFollows`, `ShutdownEnds`, and the liveness half of
`ImplementsService`.

## 6. Findings

Three are runs that TLC ends with a counterexample.

1. `process_timeout_orphan`: the startup timeout sets the status to down and leaves
   MATLAB alive; `Stop`, and with it the graceful shutdown of `docs/usage.md`, then
   does nothing.  The next start runs a second MATLAB beside the first.
2. `licensing_lock`: a licence that is removed while a login is under way makes the
   login dereference nil with the mutex held; all later licensing requests, starts
   and status polls hang.
3. `server_late_start`: a start whose goroutine comes to `matlab.Start` after `Shutdown` has
   called `Stop` launches a MATLAB that nobody stops before the program returns, be it the
   start of a request or, as in the counterexample, the automatic one.

Others show in the models, and no property that is checked depends on them.

* A launch that fails in `cmd.Start`, for instance because `Stop` cancelled its context,
  leaves the Xvfb it started (`process.go:332`).
* With two concurrent restarts a launch ends by closing the other launch's channel, and
  `Stop` returns while a launch is still running (`process.go:139`).
* After a startup timeout the late end of the old launch sets `displayMgr` to nil between
  its successor's two uses of it, and `run` dereferences nil (`process.go:281`).  So it
  does after a crash of MATLAB, when the next start comes between `setError`, which makes
  the status down, and the last critical section of the launch that crashed.
* In attach mode `Stop` gives up on a connector that is silent, and the late end of the
  old attachment then takes the status of its successor down.  A third attachment can
  share a channel with the second, and the second `close` of it panics.
* `cfg.NLMConnStr` is set by a network licence and never cleared, so a launch under an
  existing licence still gets `-licmode file` and the old `MLM_LICENSE_FILE`
  (`server.go:478`).
* A start that was answered may run after the `Stop` of a licence that was deleted since,
  the requests coming one at a time: both are goroutines (`server.go:426`, 521), MATLAB
  runs without a licence, and the comment of `server.go:520`, "Stop MATLAB since licensing is
  removed", does not hold.  A licence that is changed after a start was answered and
  before `run` reads it (`process.go:287`, 740-748) mixes the credentials of the old one with the
  connection string of the new.
* `UpdateEntitlement` stores any `entitlement_id` for any login, also for one that was refused
  and has no token: such a licence counts as one (`IsLicensed`), and every start fails.
* An attachment ends after five failed pings that need not be consecutive, as
  `docs/usage.md:67` says they are: an answered ping does not reset the count.
* A status panel opens with the status MATLAB had when the page was loaded, not with
  the last one polled (`app.js:263`): for up to a second it may offer to start a MATLAB
  that is up, and starting it restarts it, without the confirmation of a restart.
* A token that is submitted twice before the first answer starts the page twice: two
  poll timers, two listeners on every button.  The trigger then undoes itself, and one
  embedded login requests two licences (`app.js:806`).
* `ws.onclose` of an old socket writes its message into the terminal that was opened since
  (`app.js:596`), and the `ResizeObserver` of a destroyed terminal lives on (`app.js:609`).
* The handler of a terminal writes the close message while its other goroutine may be
  writing output (`handler.go:100`); gorilla allows one writer and panics.  The relay of
  `websocket.go:84` does the same.
* A signal that comes early meets a nil `httpServer`, or an info file that is written after
  it was to be removed; when the port is taken `Start` returns without stopping the MATLAB
  it launched and without removing the file (`server.go:166`).
* `/get_status` never sends `idleTimeRemaining`, so the warning of `app.js:133` cannot appear;
  `docs/architecture.md` says that any API request resets the idle counter, but only the page
  load, `/get_status`, the opening of a terminal and the requests proxied to MATLAB do
  (`server.go:285`, 298, 556, 569).  `BrowserSessions` has the first two; the others come from
  an open page, which polls anyway, and for `IdleServerStops` it is assumed that nothing else
  sends them.

## 7. Plan

In order of importance:

1. Weaker hypotheses than `Prompt` for what survives them: with a crash of MATLAB
   `MatlabService` without its assumption that a status that is down means that nothing
   runs, and `StopReachesMatlab` with timeouts.
2. The safety that liveness rests on, as theorems: in `BrowserSessions` that a beacon is
   what releases a session or time is, in `TerminalDrawer` that a handler whose socket is
   closed is never blocked for good.
3. `ServerLifecycle` composed with `MatlabProcess` for one launch, so that the exit is
   checked against the code of the process and not only against its promise, which
   `process_prompt` shows for one caller and no timeouts or crashes.

Not modelled:

* the relay of `internal/proxy/websocket.go`: two copying goroutines like those of
  `TerminalHandler`, but with no shell behind them, so that there is nothing to leave behind;
* the HTTP proxy, which keeps no state; configuration, the `list-servers` command, logging
  and version, which are input and output only; the comparison of tokens;
* the parts of `app.js` named under FrontEnd and TerminalDrawer above, and the
  vendored xterm and its addon.
