--------------------------- MODULE ServerLifecycle ---------------------------
(***************************************************************************)
(* The life of the proxy itself: main of cmd/matlab-proxy and Start and    *)
(* Shutdown of internal/server/server.go, with the info file by which      *)
(* list-servers finds it.  Shutdown is called by the goroutine of main     *)
(* that waits for a signal, by the one that waits for the idle timeout and *)
(* by the handler of the shutdown button; main ends the program as soon as *)
(* the HTTP server is closed, whatever the other goroutines are doing.     *)
(*                                                                         *)
(* MATLAB is what MatlabService promises of it, as long as no start is     *)
(* overtaken by another call; raced says whether one was.                  *)
(***************************************************************************)
CONSTANTS
  Launches,   \* the MATLAB processes, see MatlabService
  Faults      \* what may happen at a bad time in this instance

FaultKinds ==
  { "portTaken",     \* the server cannot listen
    "earlySignal",   \* a signal comes before the server is about to listen
    "disk" }         \* the info file cannot be removed

ASSUME FaultsAssumption == Faults \subseteq FaultKinds

Causes == {"signal", "idle", "button"}
Requesters == {"boot", "request"}

VARIABLES
  main,       \* main, in Start
  http,       \* s.httpServer
  infoFile,   \* mwi_server.info is there
  shutdown,   \* the calls of Shutdown
  starting,   \* the goroutines that call matlab.Start
  status, running,
  raced       \* history: a start and a Stop of Shutdown, or two starts, have
              \* overlapped, and Process.Stop may not reach every MATLAB

Matlab == INSTANCE MatlabService

matlab == <<status, running>>
vars   == <<main, http, infoFile, shutdown, starting, matlab, raced>>

TypeOK ==
  /\ main \in {"boot", "create", "write", "watch", "listen", "serving",
               "returned", "failed"}
  /\ main \in {"boot", "create", "failed"} \/ http # "nil"
  /\ http \in {"nil", "ready", "listening", "closed"}
  /\ infoFile \in BOOLEAN
  /\ shutdown \in
       [Causes -> {"none", "remove", "stop", "wait", "close", "done"}]
  /\ starting \in
       [Requesters -> {"none", "called", "stopped", "relock", "begun", "done"}]
  /\ status \in {"down", "starting", "up", "stopping"}
  /\ running \subseteq Launches
  /\ raced \in BOOLEAN

Init ==
  /\ main = "boot" /\ http = "nil" /\ infoFile = FALSE
  /\ shutdown = [c \in Causes |-> "none"]
  /\ starting = [r \in Requesters |-> "none"]
  /\ Matlab!Init /\ raced = FALSE

Exited == main \in {"returned", "failed"}

Starting(where) == \E r \in Requesters : starting[r] \in where
StartPending == Starting({"called", "stopped", "relock", "begun"})
StopCalled == \E c \in Causes : shutdown[c] \in {"wait", "close", "done"}

\* The starts and shutdowns that wait for MATLAB to be stopped go on.
ReleaseShutdowns ==
  shutdown' = [c \in Causes |->
                 IF shutdown[c] = "wait" THEN "close" ELSE shutdown[c]]
ReleaseStarts ==
  starting' = [r \in Requesters |->
                 IF starting[r] = "stopped" THEN "relock" ELSE starting[r]]

----------------------------------------------------------------------------
(* Start, called by main.                                                  *)

Goto(from, to) == main = from /\ main' = to

\* MATLAB is started if a license is known from an earlier session.
Boot ==
  /\ Goto("boot", "create")
  /\ \/ /\ starting' = [starting EXCEPT !["boot"] = "called"]
        /\ raced' = (raced \/ StopCalled)
     \/ UNCHANGED <<starting, raced>>
  /\ UNCHANGED <<http, infoFile, shutdown, matlab>>

\* Mutation of CreateServer: the server is only known to Start.
CreateLocally ==
  /\ Goto("create", "write")
  /\ UNCHANGED <<http, infoFile, shutdown, starting, matlab, raced>>

\* The server is kept where Shutdown finds it.
CreateServer ==
  /\ Goto("create", "write")
  /\ http' = "ready"
  /\ UNCHANGED <<infoFile, shutdown, starting, matlab, raced>>

\* writeServerInfoFile; a failure is only logged.
WriteInfoFile ==
  /\ Goto("write", "watch")
  /\ infoFile' \in {TRUE, infoFile}
  /\ UNCHANGED <<http, shutdown, starting, matlab, raced>>

Watch ==
  /\ Goto("watch", "listen")
  /\ UNCHANGED <<http, infoFile, shutdown, starting, matlab, raced>>

\* ListenAndServe; of a server already shut down it returns at once.
Listen ==
  /\ \/ Goto("listen", "serving") /\ http = "ready" /\ http' = "listening"
     \/ Goto("listen", "returned") /\ http = "closed" /\ UNCHANGED http
     \/ Goto("listen", "failed") /\ "portTaken" \in Faults /\ UNCHANGED http
  /\ UNCHANGED <<infoFile, shutdown, starting, matlab, raced>>

\* ListenAndServe returns, Start returns and the program ends.
Return ==
  /\ Goto("serving", "returned")
  /\ http = "closed"
  /\ UNCHANGED <<http, infoFile, shutdown, starting, matlab, raced>>

----------------------------------------------------------------------------
(* Shutdown.                                                               *)

Move(c, from, to) ==
  /\ shutdown[c] = from
  /\ shutdown' = [shutdown EXCEPT ![c] = to]

\* A signal, the idle timeout once it is watched, the shutdown button once
\* requests are served; each of them once.  A signal makes the watcher of the
\* timeout end, but the timeout may come before it does.
Occurs(c) ==
  CASE c = "signal" -> main \in {"listen", "serving"} \/ "earlySignal" \in Faults
    [] c = "idle"   -> main \in {"listen", "serving"}
    [] c = "button" -> main = "serving" /\ http = "listening"

BeginShutdown(c) ==
  /\ Occurs(c)
  /\ Move(c, "none", "remove")
  /\ UNCHANGED <<main, http, infoFile, starting, matlab, raced>>

\* Mutation of RemoveInfoFile: the file is left alone.
RemoveNothing(c) ==
  /\ Move(c, "remove", "stop")
  /\ UNCHANGED <<main, http, infoFile, starting, matlab, raced>>

\* removeServerInfoFile; a failure is only logged.
RemoveInfoFile(c) ==
  /\ Move(c, "remove", "stop")
  /\ infoFile' \in IF "disk" \in Faults THEN {FALSE, infoFile} ELSE {FALSE}
  /\ UNCHANGED <<main, http, starting, matlab, raced>>

\* A Stop between the begin of a start and the publication of its cancel
\* function reaches nothing: it makes the status down, and the MATLAB that is
\* then launched is out of reach, and out of this module.
ReachesNothing ==
  /\ status # "down" /\ Starting({"begun"})
  /\ status' = "down" /\ running' = {}
  /\ raced' = TRUE

\* Mutation of StopMatlab: the stop is not waited for.
StopMatlabBriefly(c) ==
  /\ Move(c, "stop", "close")
  /\ IF status \in {"starting", "up"} THEN Matlab!Stop ELSE UNCHANGED matlab
  /\ raced' = (raced \/ StartPending)
  /\ UNCHANGED <<main, http, infoFile, starting>>

\* matlab.Stop, which does nothing when the status is down, and otherwise
\* waits until the launch has come to its end.
StopMatlab(c) ==
  /\ \/ Move(c, "stop", "close") /\ status = "down" /\ UNCHANGED matlab
     \/ Move(c, "stop", "wait") /\ ~Starting({"begun"}) /\ Matlab!Stop
     \/ /\ Move(c, "stop", "wait") /\ ~Starting({"begun"})
        /\ status = "stopping" /\ UNCHANGED matlab
     \/ Move(c, "stop", "close") /\ ReachesNothing
  /\ raced' = (raced \/ StartPending)
  /\ UNCHANGED <<main, http, infoFile, starting>>

\* Mutation of CloseHTTP: the server is left open.
CloseNothing(c) ==
  /\ Move(c, "close", "done")
  /\ UNCHANGED <<main, http, infoFile, starting, matlab, raced>>

\* httpServer.Shutdown; a panic of the goroutine when there is no server yet.
CloseHTTP(c) ==
  /\ Move(c, "close", "done")
  /\ IF http = "nil" THEN main' = "failed" /\ UNCHANGED http
                     ELSE http' = "closed" /\ UNCHANGED main
  /\ UNCHANGED <<infoFile, starting, matlab, raced>>

ShutdownStep(c) ==
  RemoveInfoFile(c) \/ StopMatlab(c) \/ CloseHTTP(c)

----------------------------------------------------------------------------
(* Requests to start MATLAB, and MATLAB.                                   *)

\* handleStartMATLAB.  One request at a time, the next when the goroutine of
\* the one before has returned from Start.
RequestStart ==
  /\ http = "listening"
  /\ starting["request"] \in {"none", "done"}
  /\ starting' = [starting EXCEPT !["request"] = "called"]
  /\ raced' = (raced \/ StopCalled)
  /\ UNCHANGED <<main, http, infoFile, shutdown, matlab>>

Advance(r, from, to) ==
  /\ starting[r] = from
  /\ starting' = [starting EXCEPT ![r] = to]

\* The goroutine calls Start: of a MATLAB that is not down the one at boot
\* makes nothing, the one of a request stops it first.
CallStart(r) ==
  /\ \/ Advance(r, "called", "begun") /\ Matlab!Begin /\ UNCHANGED raced
     \/ /\ Advance(r, "called", "done") /\ r = "boot" /\ status # "down"
        /\ UNCHANGED <<matlab, raced>>
     \/ /\ Advance(r, "called", "stopped") /\ r = "request"
        /\ status # "down" /\ ~Starting({"begun"})
        /\ IF status = "stopping" THEN UNCHANGED matlab ELSE Matlab!Stop
        /\ UNCHANGED raced
     \/ Advance(r, "called", "relock") /\ r = "request" /\ ReachesNothing
  /\ UNCHANGED <<main, http, infoFile, shutdown>>

\* After its Stop it does not look at the status again: a launch that another
\* start has begun meanwhile is replaced, out of reach from now on.
Restart(r) ==
  /\ Advance(r, "relock", "begun")
  /\ \/ Matlab!Begin /\ UNCHANGED <<shutdown, raced>>
     \/ /\ status # "down"
        /\ status' = "starting" /\ running' = {}
        /\ raced' = TRUE
        /\ ReleaseShutdowns
  /\ UNCHANGED <<main, http, infoFile>>

\* p.cancel and p.done are set after the lock is given back, then run begins.
Publish(r) ==
  /\ Advance(r, "begun", "done")
  /\ UNCHANGED <<main, http, infoFile, shutdown, matlab, raced>>

StartStep(r) == CallStart(r) \/ Restart(r) \/ Publish(r)

\* The launch under way; MATLAB itself outlives the program.
MatlabStep ==
  /\ \/ ~Exited /\ Matlab!BecomeUp
     \/ /\ ~Exited /\ ~Starting({"begun"})
        /\ \E l \in Launches : Matlab!Spawn(l)
     \/ Matlab!End
  /\ UNCHANGED <<main, http, infoFile, shutdown, starting, raced>>

\* run has come to its end: the status is down and p.done is closed.
Settle ==
  /\ ~Exited /\ ~Starting({"begun"})
  /\ Matlab!Settle
  /\ ReleaseShutdowns /\ ReleaseStarts
  /\ UNCHANGED <<main, http, infoFile, raced>>

----------------------------------------------------------------------------
MainStep == Boot \/ CreateServer \/ WriteInfoFile \/ Watch \/ Listen \/ Return

Next ==
  \/ /\ ~Exited
     /\ \/ MainStep
        \/ \E c \in Causes : BeginShutdown(c) \/ ShutdownStep(c)
        \/ RequestStart
        \/ \E r \in Requesters : StartStep(r)
  \/ MatlabStep \/ Settle

\* Goroutines run on, and a stop of MATLAB succeeds (MatlabService).
Fairness ==
  /\ WF_vars(~Exited /\ MainStep)
  /\ \A c \in Causes : WF_vars(~Exited /\ ShutdownStep(c))
  /\ \A r \in Requesters : WF_vars(~Exited /\ StartStep(r))
  /\ Matlab!StopEndsDown

Spec == Init /\ [][Next]_vars /\ Fairness

----------------------------------------------------------------------------
(* Properties.                                                             *)

\* The program never returns with a MATLAB running: every shutdown "stops
\* MATLAB, then stops the HTTP server" (docs/usage.md:235), also when several
\* overlap and the first to close the server ends the program (server.go:198),
\* and whatever starts come before their Stop.  A start that is under way when
\* a shutdown calls Stop, or comes after that, is excepted.
ExitLeavesNoMatlab == main = "returned" /\ ~raced => running = {}

\* The program never returns with its info file in place, and several
\* shutdowns do not put it back (docs/usage.md:264, server.go:175).
InfoFileRemoved == main = "returned" => ~infoFile

\* A shutdown that has begun ends the program, whatever the others are at and
\* in whatever state MATLAB is (server.go:171, 532).
ShutdownEnds == \A c \in Causes : shutdown[c] # "none" ~> Exited

(* What the documentation says, which the code does not keep.              *)

\* "MATLAB Proxy Go stops MATLAB, then stops the HTTP server": the program
\* has not returned while MATLAB runs.
ShutdownStopsMatlab == main = "returned" => running = {}
=============================================================================
