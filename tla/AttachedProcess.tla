---------------------------- MODULE AttachedProcess ----------------------------
(***************************************************************************)
(* Attach mode of type Process, internal/matlab/process.go: the proxy does *)
(* not launch a MATLAB but connects to the Embedded Connector of one that  *)
(* the user runs.  Attach and Stop are called by the start of the server   *)
(* and by request handlers, each in a goroutine of its own; an attachment  *)
(* is a runAttached goroutine, which connects and then polls the connector *)
(* until it is cancelled or MATLAB is gone.                                *)
(*                                                                         *)
(* Attachments are numbered; the number also stands for the attachment's   *)
(* context and done channel.  As in MatlabProcess, a critical section of   *)
(* Process.mu is a step, and so is each access to cancel and done, which   *)
(* the code makes outside the lock.  busyStatus and errors, which are      *)
(* shown to the user and read by nothing else, are left out.               *)
(***************************************************************************)
EXTENDS Naturals

CONSTANTS
  Callers,       \* goroutines that call Attach and Stop
  MaxAttaches,   \* bound on the number of attachments
  MaxFailures,   \* failed pings after which the monitor gives up
  Faults,        \* how the connector may misbehave
  None           \* nil

FaultKinds ==
  { "slow",        \* the connector leaves requests without an answer
    "busyError" }  \* it answers pings, but not the query of its status

ASSUME BoundsAssumption ==
  MaxAttaches \in Nat /\ MaxFailures \in Nat \ {0}
ASSUME FaultsAssumption == Faults \subseteq FaultKinds
ASSUME NoneAssumption == None \notin Nat

Attaches == 1..MaxAttaches
Channels == 0..MaxAttaches   \* 0 is the one that NewProcess makes

VARIABLES
  \* the fields of Process
  status,
  connector,    \* nil or the attachment that stored it
  cancel, done,
  \* Go run time
  cancelled, closed, panicked,
  \* the user's MATLAB: absent, then serving, then gone
  matlab,
  \* callers of Attach and Stop
  pc, call, nextAttach,
  \* runAttached and monitorAttachedEC
  rpc, chan, consecutiveFailures

fields  == <<status, connector>>
handles == <<cancel, done>>
runtime == <<cancelled, closed, panicked>>
callers == <<pc, call, nextAttach>>
runners == <<rpc, chan, consecutiveFailures>>
vars    == <<fields, handles, runtime, matlab, callers, runners>>

CallerPcs == {"idle", "setCancel", "setDone", "cancel", "drain", "await",
              "settle"}
RunPcs == {"unborn", "spawned", "connecting", "pinged", "watch", "query",
           "ping", "silent", "close", "exited"}

TypeOK ==
  /\ status \in {"down", "starting", "up", "stopping"}
  /\ connector \in Attaches \cup {None}
  /\ cancel \in Attaches \cup {None}
  /\ done \in Channels
  /\ cancelled \subseteq Attaches
  /\ closed \subseteq Channels
  /\ panicked \in BOOLEAN
  /\ matlab \in {"absent", "serving", "gone"}
  /\ pc \in [Callers -> CallerPcs]
  /\ call \in [Callers -> Channels]
  /\ nextAttach \in 1..(MaxAttaches + 1)
  /\ rpc \in [Attaches -> RunPcs]
  /\ chan \in [Attaches -> Channels]
  /\ consecutiveFailures \in [Attaches -> 0..MaxFailures]

\* NewProcess; the user's MATLAB is ready or will be.
Init ==
  /\ status = "down" /\ connector = None
  /\ cancel = None /\ done = 0
  /\ cancelled = {} /\ closed = {} /\ panicked = FALSE
  /\ matlab \in {"absent", "serving"}
  /\ pc = [c \in Callers |-> "idle"]
  /\ call = [c \in Callers |-> 0]
  /\ nextAttach = 1
  /\ rpc = [a \in Attaches |-> "unborn"]
  /\ chan = [a \in Attaches |-> 0]
  /\ consecutiveFailures = [a \in Attaches |-> 0]

----------------------------------------------------------------------------
(* The user's MATLAB.                                                      *)

Serve ==
  /\ matlab = "absent"
  /\ matlab' = "serving"
  /\ UNCHANGED <<fields, handles, runtime, callers, runners>>

Leave ==
  /\ matlab = "serving"
  /\ matlab' = "gone"
  /\ UNCHANGED <<fields, handles, runtime, callers, runners>>

Serves == matlab = "serving"
Silent == matlab # "serving" \/ "slow" \in Faults

----------------------------------------------------------------------------
(* Attach and Stop.                                                        *)

Goto(c, where) == pc' = [pc EXCEPT ![c] = where]

\* Attach refuses every status but down, with an error for the log.
Attach(c) ==
  /\ pc[c] = "idle"
  /\ nextAttach \in Attaches
  /\ status = "down"
  /\ status' = "starting"
  /\ call' = [call EXCEPT ![c] = nextAttach]
  /\ nextAttach' = nextAttach + 1
  /\ Goto(c, "setCancel")
  /\ UNCHANGED <<connector, handles, runtime, matlab, runners>>

\* p.cancel = cancel
SetCancel(c) ==
  /\ pc[c] = "setCancel"
  /\ cancel' = call[c]
  /\ Goto(c, "setDone")
  /\ UNCHANGED <<fields, done, runtime, matlab, call, nextAttach, runners>>

\* p.done = make(chan struct{}); go p.runAttached(ctx, ...)
SetDone(c) ==
  /\ pc[c] = "setDone"
  /\ done' = call[c]
  /\ rpc' = [rpc EXCEPT ![call[c]] = "spawned"]
  /\ call' = [call EXCEPT ![c] = 0]
  /\ Goto(c, "idle")
  /\ UNCHANGED <<fields, cancel, runtime, matlab, nextAttach, chan,
                 consecutiveFailures>>

\* Stop, unless the status is down.  There is no command in attach mode.
Stop(c) ==
  /\ pc[c] = "idle"
  /\ status # "down"
  /\ status' = "stopping"
  /\ Goto(c, "cancel")
  /\ UNCHANGED <<connector, handles, runtime, matlab,
                 call, nextAttach, runners>>

\* p.cancel()
Cancel(c) ==
  /\ pc[c] = "cancel"
  /\ cancelled' = cancelled \cup ({cancel} \ {None})
  /\ Goto(c, "drain")
  /\ UNCHANGED <<fields, handles, closed, panicked, matlab, call, nextAttach,
                 runners>>

\* The select evaluates p.done when it is entered.
Drain(c) ==
  /\ pc[c] = "drain"
  /\ call' = [call EXCEPT ![c] = done]
  /\ Goto(c, "await")
  /\ UNCHANGED <<fields, handles, runtime, matlab, nextAttach, runners>>

\* Mutation of Await: no timeout.
AwaitForever(c) ==
  /\ pc[c] = "await"
  /\ call[c] \in closed
  /\ call' = [call EXCEPT ![c] = 0]
  /\ Goto(c, "settle")
  /\ UNCHANGED <<fields, handles, runtime, matlab, nextAttach, runners>>

\* Five seconds for the attachment to end.  Its requests to the connector may
\* each take as long; goroutines are scheduled sooner than that, so that only
\* a Stop that found no attachment to wait for runs out of time otherwise.
Await(c) ==
  /\ pc[c] = "await"
  /\ \/ call[c] \in closed
     \/ /\ "slow" \in Faults \/ call[c] = 0
        /\ \A a \in Attaches : rpc[a] # "spawned"
        /\ \A k \in Callers : pc[k] \notin {"setCancel", "setDone"}
  /\ call' = [call EXCEPT ![c] = 0]
  /\ Goto(c, "settle")
  /\ UNCHANGED <<fields, handles, runtime, matlab, nextAttach, runners>>

Detached == status' = "down" /\ connector' = None

Settle(c) ==
  /\ pc[c] = "settle"
  /\ Detached
  /\ Goto(c, "idle")
  /\ UNCHANGED <<handles, runtime, matlab, call, nextAttach, runners>>

----------------------------------------------------------------------------
(* runAttached, attachment a.                                              *)

Advance(a, from, to) ==
  /\ rpc[a] = from
  /\ rpc' = [rpc EXCEPT ![a] = to]

\* monitorAttachedEC returns, and runAttached with it.
EndMonitor(a, from) ==
  /\ Advance(a, from, "close")
  /\ consecutiveFailures' = [consecutiveFailures EXCEPT ![a] = 0]

\* defer close(p.done) evaluates p.done now.
Begin(a) ==
  /\ Advance(a, "spawned", "connecting")
  /\ chan' = [chan EXCEPT ![a] = done]
  /\ UNCHANGED <<fields, handles, runtime, matlab, callers,
                 consecutiveFailures>>

\* The context is cancelled before a ping was answered.
GiveUp(a) ==
  /\ a \in cancelled
  /\ Advance(a, "connecting", "close")
  /\ status' = "down"
  /\ UNCHANGED <<connector, handles, runtime, matlab,
                 callers, chan, consecutiveFailures>>

\* Mutation of AttachTimeout: no call of setError.
TimeoutUntold(a) ==
  /\ Silent
  /\ Advance(a, "connecting", "close")
  /\ UNCHANGED <<fields, handles, runtime, matlab, callers, chan,
                 consecutiveFailures>>

\* Thirty seconds without an answer: setError.
AttachTimeout(a) ==
  /\ Silent
  /\ Advance(a, "connecting", "close")
  /\ status' = "down"
  /\ UNCHANGED <<connector, handles, runtime, matlab, callers,
                 chan, consecutiveFailures>>

\* A ping is answered.
Ping(a) ==
  /\ Serves
  /\ Advance(a, "connecting", "pinged")
  /\ UNCHANGED <<fields, handles, runtime, matlab, callers, chan,
                 consecutiveFailures>>

\* Mutation of BecomeUp: the connector is not stored.
BecomeUpOnly(a) ==
  /\ Advance(a, "pinged", "watch")
  /\ status' = "up"
  /\ UNCHANGED <<connector, handles, runtime, matlab,
                 callers, chan, consecutiveFailures>>

\* The answer is acted upon, whatever the status is by now.
BecomeUp(a) ==
  /\ Advance(a, "pinged", "watch")
  /\ connector' = a
  /\ status' = "up"
  /\ UNCHANGED <<handles, runtime, matlab, callers, chan,
                 consecutiveFailures>>

----------------------------------------------------------------------------
(* monitorAttachedEC, attachment a.                                        *)

\* The context is cancelled; a tick may be ready at the same time.
NoticeCancel(a) ==
  /\ a \in cancelled
  /\ EndMonitor(a, "watch")
  /\ Detached
  /\ UNCHANGED <<handles, runtime, matlab, callers, chan>>

\* A tick: the monitor ends when there is no connector any more.
Tick(a) ==
  /\ \/ connector = None /\ EndMonitor(a, "watch")
     \/ /\ connector # None
        /\ Advance(a, "watch", "query")
        /\ UNCHANGED consecutiveFailures
  /\ UNCHANGED <<fields, handles, runtime, matlab, callers, chan>>

\* GetBusyStatus answers, or a ping is needed.
Query(a) ==
  /\ \/ /\ Serves
        /\ Advance(a, "query", "watch")
        /\ consecutiveFailures' = [consecutiveFailures EXCEPT ![a] = 0]
     \/ /\ Silent \/ "busyError" \in Faults
        /\ Advance(a, "query", "ping")
        /\ UNCHANGED consecutiveFailures
  /\ UNCHANGED <<fields, handles, runtime, matlab, callers, chan>>

\* Mutation of PingAgain: the count is declared inside the loop.
PingForgetful(a) ==
  /\ \/ Serves /\ Advance(a, "ping", "watch") /\ UNCHANGED consecutiveFailures
     \/ /\ Silent
        /\ Advance(a, "ping", "silent")
        /\ consecutiveFailures' = [consecutiveFailures EXCEPT ![a] = 1]
  /\ UNCHANGED <<fields, handles, runtime, matlab, callers, chan>>

\* A ping that is answered leaves the count of failures as it is.
PingAgain(a) ==
  /\ \/ Serves /\ Advance(a, "ping", "watch") /\ UNCHANGED consecutiveFailures
     \/ /\ Silent
        /\ Advance(a, "ping", "silent")
        /\ consecutiveFailures' = [consecutiveFailures EXCEPT ![a] = @ + 1]
  /\ UNCHANGED <<fields, handles, runtime, matlab, callers, chan>>

\* Mutation of CountSilence: the monitor ends without telling.
EndSilently(a) ==
  /\ IF consecutiveFailures[a] >= MaxFailures
       THEN EndMonitor(a, "silent")
       ELSE Advance(a, "silent", "watch") /\ UNCHANGED consecutiveFailures
  /\ UNCHANGED <<fields, handles, runtime, matlab, callers, chan>>

\* Mutation of CountSilence: one failure too many.
CountPast(a) ==
  /\ \/ /\ consecutiveFailures[a] > MaxFailures
        /\ EndMonitor(a, "silent")
        /\ Detached
     \/ /\ consecutiveFailures[a] <= MaxFailures
        /\ Advance(a, "silent", "watch")
        /\ UNCHANGED <<fields, consecutiveFailures>>
  /\ UNCHANGED <<handles, runtime, matlab, callers, chan>>

\* MaxFailures failed pings end the attachment.
CountSilence(a) ==
  /\ \/ /\ consecutiveFailures[a] >= MaxFailures
        /\ EndMonitor(a, "silent")
        /\ Detached
     \/ /\ consecutiveFailures[a] < MaxFailures
        /\ Advance(a, "silent", "watch")
        /\ UNCHANGED <<fields, consecutiveFailures>>
  /\ UNCHANGED <<handles, runtime, matlab, callers, chan>>

\* The deferred close; closing a closed channel panics.
Close(a) ==
  /\ Advance(a, "close", "exited")
  /\ closed' = closed \cup {chan[a]}
  /\ IF chan[a] \in closed THEN panicked' = TRUE ELSE UNCHANGED panicked
  /\ chan' = [chan EXCEPT ![a] = 0]
  /\ UNCHANGED <<fields, handles, cancelled, matlab, callers,
                 consecutiveFailures>>

----------------------------------------------------------------------------

CallerStep(c) ==
  \/ SetCancel(c) \/ SetDone(c)
  \/ Cancel(c) \/ Drain(c) \/ Await(c) \/ Settle(c)

\* A new call; one that returns at once changes nothing.
NewCall(c) ==
  \/ Attach(c)
  \/ Stop(c)
  \/ pc[c] = "idle" /\ UNCHANGED vars

RunStep(a) ==
  \/ Begin(a) \/ GiveUp(a) \/ AttachTimeout(a) \/ Ping(a) \/ BecomeUp(a)
  \/ NoticeCancel(a) \/ Tick(a) \/ Query(a)
  \/ PingAgain(a) \/ CountSilence(a) \/ Close(a)

\* A panic ends the proxy.
Next ==
  /\ ~panicked
  /\ \/ \E c \in Callers : NewCall(c) \/ CallerStep(c)
     \/ \E a \in Attaches : RunStep(a)
     \/ Serve \/ Leave

Spec == Init /\ [][Next]_vars

\* Goroutines run, requests and waits have timeouts, and a select that finds
\* a cancelled context and a tick ready chooses at random.
Fairness ==
  /\ \A c \in Callers : WF_vars(~panicked /\ CallerStep(c))
  /\ \A a \in Attaches : /\ WF_vars(~panicked /\ RunStep(a))
                         /\ SF_vars(~panicked /\ NoticeCancel(a))

LiveSpec == Spec /\ Fairness

----------------------------------------------------------------------------
(* Safety under every fault and every interleaving.                        *)

\* While the status is up there is a connector to proxy requests to, also
\* when one attachment ends while the next one comes up.
UpHasConnector == status = "up" => connector # None

Watching(a) == rpc[a] \in {"watch", "query", "ping", "silent"}

\* Requests are proxied to a connector only as long as an attachment watches
\* it, and will notice that MATLAB is gone or that the user disconnected.
ConnectorWatched ==
  connector # None => \E a \in Attaches : Watching(a)

(* Liveness.                                                               *)

\* Every call of Attach or Stop returns.
CallsReturn == \A c \in Callers : pc[c] # "idle" ~> pc[c] = "idle" \/ panicked

\* An attachment does not stay pending: it comes up, fails or is stopped.
AttachResolves == status = "starting" ~> status # "starting" \/ panicked

\* The end of the user's MATLAB is noticed.
EndNoticed == matlab = "gone" /\ status = "up" ~> status # "up" \/ panicked

=============================================================================
