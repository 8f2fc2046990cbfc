--------------------------- MODULE TerminalHandler ---------------------------
(***************************************************************************)
(* internal/terminal/handler.go: for every WebSocket a handler that starts *)
(* a shell on a PTY, two goroutines that copy between the two, and the     *)
(* main goroutine that waits for the shell to exit.                        *)
(*                                                                         *)
(* What the PTY and the network carry is left out; that a goroutine is in  *)
(* the middle of a write is kept, for gorilla's connections panic when two *)
(* of them write at once.  The browser's end is client, see TerminalDrawer.*)
(***************************************************************************)
CONSTANT Sockets   \* the WebSockets a browser opens, one after the other

VARIABLES
  client,   \* readyState of the WebSocket in the browser; closing is closed
  pc,       \* main goroutine of the handler
  output,   \* its goroutine from the PTY to the WebSocket
  input,    \* its goroutine from the WebSocket to the PTY
  shell,
  jobs,     \* sockets whose shell left a process that has the PTY open
  crashed   \* a goroutine has panicked and ended the proxy

handlerVars == <<pc, output, input, shell, jobs, crashed>>

Copying == {"off", "reading", "done"}

HandlerTypeOK ==
  /\ client \in [Sockets -> {"unused", "connecting", "open", "closed"}]
  /\ pc \in [Sockets -> {"idle", "waiting", "closing", "joining", "ended"}]
  /\ output \in [Sockets -> Copying \cup {"writing"}]
  /\ input \in [Sockets -> Copying]
  /\ shell \in [Sockets -> {"none", "running", "dead"}]
  /\ jobs \subseteq Sockets
  /\ crashed \in BOOLEAN

HandlerInit ==
  /\ client = [s \in Sockets |-> "unused"]
  /\ pc = [s \in Sockets |-> "idle"]
  /\ output = [s \in Sockets |-> "off"]
  /\ input = [s \in Sockets |-> "off"]
  /\ shell = [s \in Sockets |-> "none"]
  /\ jobs = {}
  /\ crashed = FALSE

\* The server's reads and writes fail, at once or after a while.
Gone(s) == client[s] = "closed"

----------------------------------------------------------------------------
\* The request is upgraded and newPTYSession starts a shell; either may fail.
Upgrade(s) ==
  /\ ~crashed
  /\ pc[s] = "idle" /\ client[s] # "unused"
  /\ \/ /\ pc' = [pc EXCEPT ![s] = "waiting"]
        /\ output' = [output EXCEPT ![s] = "reading"]
        /\ input' = [input EXCEPT ![s] = "reading"]
        /\ shell' = [shell EXCEPT ![s] = "running"]
     \/ /\ pc' = [pc EXCEPT ![s] = "ended"]
        /\ UNCHANGED <<output, input, shell>>
  /\ UNCHANGED <<jobs, crashed, client>>

\* The goroutine from the PTY to the WebSocket: it reads something to write,
\* or the end, when nobody has the PTY open or the handler closed it.
ReadOutput(s) ==
  /\ output[s] = "reading"
  /\ output' = [output EXCEPT ![s] = "writing"]
  /\ shell[s] = "running" \/ s \in jobs
  /\ pc[s] # "ended"
  /\ UNCHANGED <<pc, input, shell, jobs, crashed, client>>

ReadEnd(s) ==
  /\ output[s] = "reading"
  /\ output' = [output EXCEPT ![s] = "done"]
  /\ (shell[s] = "dead" /\ s \notin jobs) \/ pc[s] = "ended"
  /\ UNCHANGED <<pc, input, shell, jobs, crashed, client>>

\* The write returns.  To a lost connection it may still succeed.
WriteOutput(s) ==
  /\ output[s] = "writing"
  /\ \/ /\ pc[s] # "ended"
        /\ output' = [output EXCEPT ![s] = "reading"]
     \/ /\ Gone(s) \/ pc[s] = "ended"
        /\ output' = [output EXCEPT ![s] = "done"]
  /\ UNCHANGED <<pc, input, shell, jobs, crashed, client>>

\* The shell is dead, by itself or killed; a process of its may be left.
ShellDies(s) ==
  /\ shell' = [shell EXCEPT ![s] = "dead"]
  /\ \/ UNCHANGED jobs
     \/ shell[s] = "running" /\ jobs' = jobs \cup {s}

\* Mutation of ReadInput: the shell is left alone.
ReadInputKeepsShell(s) ==
  /\ input[s] = "reading"
  /\ Gone(s) \/ pc[s] = "ended"
  /\ input' = [input EXCEPT ![s] = "done"]
  /\ UNCHANGED <<pc, output, shell, jobs, crashed, client>>

\* Mutation of ReadInput: it reads on from a connection that failed.
ReadInputGoesOn(s) ==
  /\ input[s] = "reading"
  /\ Gone(s) \/ pc[s] = "ended"
  /\ ShellDies(s)
  /\ UNCHANGED <<pc, output, input, crashed, client>>

\* The goroutine from the WebSocket to the PTY kills the shell when the
\* browser is gone.
ReadInput(s) ==
  /\ input[s] = "reading"
  /\ Gone(s) \/ pc[s] = "ended"
  /\ input' = [input EXCEPT ![s] = "done"]
  /\ ShellDies(s)
  /\ UNCHANGED <<pc, output, crashed, client>>

\* The user types into the PTY of a shell that is gone: the write may fail.
WriteInputFails(s) ==
  /\ input[s] = "reading"
  /\ client[s] = "open" /\ shell[s] = "dead"
  /\ input' = [input EXCEPT ![s] = "done"]
  /\ UNCHANGED <<pc, output, shell, jobs, crashed, client>>

\* session.Wait returns.
Wait(s) ==
  /\ pc[s] = "waiting"
  /\ shell[s] = "dead"
  /\ pc' = [pc EXCEPT ![s] = "closing"]
  /\ UNCHANGED <<output, input, shell, jobs, crashed, client>>

\* The browser is sent a close message, to which it answers.
SendClose(s) ==
  /\ pc[s] = "closing"
  /\ pc' = [pc EXCEPT ![s] = "joining"]
  /\ UNCHANGED <<output, input, shell, jobs, crashed, client>>

\* Both write to the connection at once, and one of them panics: the main
\* goroutine's panic is recovered by net/http, after its deferred calls; the
\* other one's ends the proxy, and with it the handlers of all sockets.
ConcurrentWrite(s) ==
  /\ pc[s] = "closing" /\ output[s] = "writing"
  /\ \/ /\ pc' = [pc EXCEPT ![s] = "ended"]
        /\ UNCHANGED <<output, input, crashed>>
     \/ /\ crashed' = TRUE
        /\ pc' = [t \in Sockets |-> "ended"]
        /\ output' = [t \in Sockets |-> "done"]
        /\ input' = [t \in Sockets |-> "done"]
  /\ UNCHANGED <<shell, jobs, client>>

\* wg.Wait returns; the deferred calls close the PTY, for all who have it
\* open, and the connection.
Join(s) ==
  /\ pc[s] = "joining"
  /\ output[s] = "done" /\ input[s] = "done"
  /\ pc' = [pc EXCEPT ![s] = "ended"]
  /\ jobs' = jobs \ {s}
  /\ UNCHANGED <<output, input, shell, crashed, client>>

----------------------------------------------------------------------------
(* The shell and its processes.                                            *)

JobEnds(s) ==
  /\ jobs' = jobs \ {s}
  /\ UNCHANGED <<pc, output, input, shell, crashed, client>>

\* The shell exits by itself.
ShellExits(s) ==
  /\ shell[s] = "running"
  /\ ShellDies(s)
  /\ UNCHANGED <<pc, output, input, crashed, client>>

\* The kernel hangs up a shell whose PTY was closed with the proxy.
Hangup(s) == crashed /\ ShellExits(s)

HandlerNext(s) ==
  \/ Upgrade(s) \/ ReadOutput(s) \/ ReadEnd(s) \/ WriteOutput(s)
  \/ ReadInput(s) \/ WriteInputFails(s)
  \/ Wait(s) \/ SendClose(s) \/ ConcurrentWrite(s) \/ Join(s)
  \/ JobEnds(s) \/ ShellExits(s)

\* Every goroutine of a socket runs on when it can, and the kernel hangs up.
HandlerFairness(s) ==
  LET steps == <<handlerVars, client>>
  IN  /\ WF_steps(Upgrade(s) \/ Wait(s) \/ SendClose(s) \/ Join(s))
      /\ WF_steps(ReadEnd(s) \/ WriteOutput(s))
      /\ WF_steps(ReadInput(s))
      /\ WF_steps(Hangup(s))
=============================================================================
