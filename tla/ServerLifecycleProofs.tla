------------------------ MODULE ServerLifecycleProofs ------------------------
(***************************************************************************)
(* Theorems about ServerLifecycle, for every set of launches.              *)
(***************************************************************************)
EXTENDS ServerLifecycle, TLAPS

----------------------------------------------------------------------------
(* Types, under every fault.                                               *)

LEMMA InitTyped == Init => TypeOK
BY DEF Init, Matlab!Init, TypeOK, Causes, Requesters

\* The steps of main keep the types.
LEMMA MainTyped == TypeOK /\ MainStep => TypeOK'
<1>. SUFFICES ASSUME TypeOK, MainStep PROVE TypeOK'
  OBVIOUS
<1>1. CASE Boot
  BY <1>1 DEF TypeOK, Boot, Goto, matlab, Requesters, StopCalled, Causes
<1>2. CASE CreateServer
  BY <1>2 DEF TypeOK, CreateServer, Goto, matlab
<1>3. CASE WriteInfoFile
  BY <1>3 DEF TypeOK, WriteInfoFile, Goto, matlab
<1>4. CASE Watch
  BY <1>4 DEF TypeOK, Watch, Goto, matlab
<1>5. CASE Listen
  BY <1>5 DEF TypeOK, Listen, Goto, matlab
<1>6. CASE Return
  BY <1>6 DEF TypeOK, Return, Goto, matlab
<1>. QED
  BY <1>1, <1>2, <1>3, <1>4, <1>5, <1>6 DEF MainStep

\* A step of a shutdown keeps the types.
LEMMA ShutdownTyped ==
  ASSUME NEW c \in Causes, TypeOK, BeginShutdown(c) \/ ShutdownStep(c)
  PROVE  TypeOK'
<1>1. CASE BeginShutdown(c)
  BY <1>1 DEF TypeOK, BeginShutdown, Move, matlab
<1>2. CASE RemoveInfoFile(c)
  BY <1>2 DEF TypeOK, RemoveInfoFile, Move, matlab
<1>3. CASE StopMatlab(c)
  BY <1>3 DEF TypeOK, StopMatlab, ReachesNothing, Move, matlab, Matlab!Stop,
              StartPending, Starting
<1>4. CASE CloseHTTP(c)
  BY <1>4 DEF TypeOK, CloseHTTP, Move, matlab
<1>. QED
  BY <1>1, <1>2, <1>3, <1>4 DEF ShutdownStep

\* A step of a goroutine that starts MATLAB keeps the types.
LEMMA StartTyped ==
  ASSUME TypeOK, NEW r \in Requesters, StartStep(r)
  PROVE  TypeOK'
<1>1. CASE CallStart(r)
  BY <1>1 DEF TypeOK, CallStart, Advance, ReachesNothing, matlab,
              Matlab!Begin, Matlab!Stop
<1>2. CASE Restart(r)
  BY <1>2 DEF TypeOK, Restart, Advance, ReleaseShutdowns, Matlab!Begin
<1>3. CASE Publish(r)
  BY <1>3 DEF TypeOK, Publish, Advance, matlab
<1>. QED
  BY <1>1, <1>2, <1>3 DEF StartStep

\* A request, and MATLAB, keep the types.
LEMMA MatlabTyped ==
  ASSUME TypeOK, RequestStart \/ MatlabStep \/ Settle
  PROVE  TypeOK'
<1>1. CASE RequestStart
  BY <1>1 DEF TypeOK, RequestStart, matlab, Requesters, StopCalled, Causes
<1>2. CASE MatlabStep
  BY <1>2 DEF TypeOK, MatlabStep, Matlab!BecomeUp, Matlab!Spawn, Matlab!End
<1>3. CASE Settle
  BY <1>3 DEF TypeOK, Settle, ReleaseShutdowns, ReleaseStarts, Matlab!Settle
<1>. QED
  BY <1>1, <1>2, <1>3

\* Every variable keeps its type, and Shutdown finds the server from the
\* moment the program is about to listen.
THEOREM ServerTypeCorrect == Spec => []TypeOK
<1>1. TypeOK /\ [Next]_vars => TypeOK'
  <2>. SUFFICES ASSUME TypeOK, [Next]_vars PROVE TypeOK'
    OBVIOUS
  <2>1. CASE UNCHANGED vars
    BY <2>1 DEF TypeOK, vars, matlab
  <2>2. CASE Next
    BY <2>2, MainTyped, ShutdownTyped, StartTyped, MatlabTyped DEF Next
  <2>. QED
    BY <2>1, <2>2
<1>. QED
  BY InitTyped, <1>1, PTL DEF Spec

----------------------------------------------------------------------------
(* The exit, under every fault.                                            *)

\* The order of a shutdown: the program returns after the server is closed,
\* the server is closed by a shutdown that is done.
ClosedByShutdown ==
  /\ http = "closed" => \E c \in Causes : shutdown[c] = "done"
  /\ main = "returned" => http = "closed"

\* Unless a start has overlapped with it, a shutdown that has called Stop
\* leaves no start under way, and one whose Stop has returned finds MATLAB
\* down, which no start can change: a later one counts as overtaken.
StoppedForGood ==
  /\ status = "down" => running = {}
  /\ ~raced =>
       \A c \in Causes :
         /\ shutdown[c] \in {"wait", "close", "done"} => ~StartPending
         /\ shutdown[c] \in {"close", "done"} => status = "down"

ExitInv == ClosedByShutdown /\ StoppedForGood

LEMMA InitExit == Init => ExitInv
BY DEF Init, Matlab!Init, ExitInv, ClosedByShutdown, StoppedForGood

\* The steps of main; of them only Boot starts MATLAB.
LEMMA MainExit == TypeOK /\ ExitInv /\ MainStep => ExitInv'
<1>. SUFFICES ASSUME TypeOK, ExitInv, MainStep PROVE ExitInv'
  OBVIOUS
<1>. USE DEF TypeOK, ExitInv, ClosedByShutdown, StoppedForGood, StartPending,
             Starting, Goto, matlab
<1>1. CASE Boot
  BY <1>1 DEF Boot, StopCalled
<1>2. CASE CreateServer
  BY <1>2 DEF CreateServer
<1>3. CASE WriteInfoFile
  BY <1>3 DEF WriteInfoFile
<1>4. CASE Watch
  BY <1>4 DEF Watch
<1>5. CASE Listen
  BY <1>5 DEF Listen
<1>6. CASE Return
  BY <1>6 DEF Return
<1>. QED
  BY <1>1, <1>2, <1>3, <1>4, <1>5, <1>6 DEF MainStep

\* The steps of a shutdown.
LEMMA ShutdownExit ==
  ASSUME TypeOK, ExitInv,
         NEW c \in Causes, BeginShutdown(c) \/ ShutdownStep(c)
  PROVE  ExitInv'
<1>. USE DEF TypeOK, ExitInv, ClosedByShutdown, StoppedForGood, StartPending,
             Starting, Move, matlab
<1>1. CASE BeginShutdown(c)
  BY <1>1 DEF BeginShutdown
<1>2. CASE RemoveInfoFile(c)
  BY <1>2 DEF RemoveInfoFile
<1>3. CASE StopMatlab(c)
  BY <1>3 DEF StopMatlab, ReachesNothing, Matlab!Stop
<1>4. CASE CloseHTTP(c)
  BY <1>4 DEF CloseHTTP
<1>. QED
  BY <1>1, <1>2, <1>3, <1>4 DEF ShutdownStep

\* The steps of a start: it overlaps with every shutdown that has called Stop.
LEMMA StartExit ==
  ASSUME TypeOK, ExitInv, NEW r \in Requesters, StartStep(r)
  PROVE  ExitInv'
<1>. USE DEF TypeOK, ExitInv, ClosedByShutdown, StoppedForGood, StartPending,
             Starting, Advance, matlab
<1>1. CASE CallStart(r)
  BY <1>1 DEF CallStart, ReachesNothing, Matlab!Begin, Matlab!Stop
<1>2. CASE Restart(r)
  BY <1>2 DEF Restart, ReleaseShutdowns, Matlab!Begin
<1>3. CASE Publish(r)
  BY <1>3 DEF Publish
<1>. QED
  BY <1>1, <1>2, <1>3 DEF StartStep

\* The steps of requests and of MATLAB.
LEMMA MatlabExit ==
  ASSUME TypeOK, ExitInv, RequestStart \/ MatlabStep \/ Settle
  PROVE  ExitInv'
<1>. USE DEF TypeOK, ExitInv, ClosedByShutdown, StoppedForGood, StartPending,
             Starting, matlab
<1>1. CASE RequestStart
  BY <1>1 DEF RequestStart, StopCalled
<1>2. CASE MatlabStep
  BY <1>2 DEF MatlabStep, Matlab!BecomeUp, Matlab!Spawn, Matlab!End
<1>3. CASE Settle
  BY <1>3 DEF Settle, ReleaseShutdowns, ReleaseStarts, Matlab!Settle
<1>. QED
  BY <1>1, <1>2, <1>3

LEMMA ExitInvariant == Spec => []ExitInv
<1>1. TypeOK /\ ExitInv /\ [Next]_vars => ExitInv'
  <2>. SUFFICES ASSUME TypeOK, ExitInv, [Next]_vars PROVE ExitInv'
    OBVIOUS
  <2>1. CASE UNCHANGED vars
    BY <2>1 DEF ExitInv, ClosedByShutdown, StoppedForGood, StartPending,
                Starting, vars, matlab
  <2>2. CASE Next
    BY <2>2, MainExit, ShutdownExit, StartExit, MatlabExit DEF Next
  <2>. QED
    BY <2>1, <2>2
<1>. QED
  BY InitExit, <1>1, ServerTypeCorrect, PTL DEF Spec

\* Whatever the faults, three shutdowns and the starts before them: the
\* program never returns with a MATLAB running, unless a start and a Stop of
\* a shutdown have overlapped.
THEOREM ExitStopsMatlab == Spec => []ExitLeavesNoMatlab
<1>1. ExitInv => ExitLeavesNoMatlab
  BY DEF ExitInv, ClosedByShutdown, StoppedForGood, ExitLeavesNoMatlab
<1>. QED
  BY <1>1, ExitInvariant, PTL

----------------------------------------------------------------------------
(* The info file, when no signal is early and the disk does not fail.      *)

Orderly == Faults \subseteq {"portTaken"}

\* A shutdown begins after the file is written, and none that has removed it
\* can see it come back.
FileInv ==
  \A c \in Causes :
    /\ shutdown[c] # "none"
         => main \in {"listen", "serving", "returned", "failed"}
    /\ shutdown[c] \in {"stop", "wait", "close", "done"} => ~infoFile

LEMMA MainFile == TypeOK /\ FileInv /\ MainStep => FileInv'
BY DEF TypeOK, FileInv, MainStep, Boot, CreateServer, WriteInfoFile, Watch,
       Listen, Return, Goto

LEMMA ShutdownFile ==
  ASSUME Orderly, TypeOK, FileInv,
         NEW c \in Causes, BeginShutdown(c) \/ ShutdownStep(c)
  PROVE  FileInv'
<1>. USE DEF TypeOK, FileInv, Move
<1>1. CASE BeginShutdown(c)
  <2>1. main \in {"listen", "serving"}
    BY <1>1 DEF BeginShutdown, Occurs, Orderly, Causes
  <2>. QED
    BY <1>1, <2>1 DEF BeginShutdown
<1>2. CASE RemoveInfoFile(c)
  BY <1>2 DEF RemoveInfoFile, Orderly
<1>3. CASE StopMatlab(c)
  BY <1>3 DEF StopMatlab
<1>4. CASE CloseHTTP(c)
  BY <1>4 DEF CloseHTTP
<1>. QED
  BY <1>1, <1>2, <1>3, <1>4 DEF ShutdownStep

LEMMA MatlabFile ==
  ASSUME TypeOK, FileInv,
         \/ RequestStart \/ MatlabStep \/ Settle
         \/ \E r \in Requesters : StartStep(r)
  PROVE  FileInv'
BY DEF TypeOK, FileInv, RequestStart, MatlabStep, Settle, StartStep,
       CallStart, Restart, Publish, ReleaseShutdowns

LEMMA FileInvariant == ASSUME Orderly PROVE Spec => []FileInv
<1>1. Init => FileInv
  BY DEF Init, FileInv
<1>2. TypeOK /\ FileInv /\ [Next]_vars => FileInv'
  <2>. SUFFICES ASSUME TypeOK, FileInv, [Next]_vars PROVE FileInv'
    OBVIOUS
  <2>1. CASE UNCHANGED vars
    BY <2>1 DEF FileInv, vars
  <2>2. CASE Next
    BY <2>2, MainFile, ShutdownFile, MatlabFile DEF Next
  <2>. QED
    BY <2>1, <2>2
<1>. QED
  BY <1>1, <1>2, ServerTypeCorrect, PTL DEF Spec

\* When no signal comes before the program is about to listen and the file
\* can be removed, the program never returns with its info file in place.
THEOREM OrderlyInfoFile == ASSUME Orderly PROVE Spec => []InfoFileRemoved
<1>1. ClosedByShutdown /\ FileInv => InfoFileRemoved
  BY DEF ClosedByShutdown, FileInv, InfoFileRemoved
<1>2. ExitInv => ClosedByShutdown
  BY DEF ExitInv
<1>. QED
  BY <1>1, <1>2, ExitInvariant, FileInvariant, PTL
=============================================================================
