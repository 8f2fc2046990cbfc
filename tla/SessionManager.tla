--------------------------- MODULE SessionManager ---------------------------
(***************************************************************************)
(* Client concurrency control and the idle timeout: type Manager of        *)
(* internal/session/session.go.  Request handlers call SetActiveClient,    *)
(* ClearClient and ResetIdleTimer, each one critical section or one        *)
(* channel operation; the goroutine runIdleTimer selects between the reset *)
(* channel and its ticker.  Time is counted in seconds.                    *)
(***************************************************************************)
EXTENDS Integers

CONSTANTS
  Clients,              \* client IDs; every page load makes a new one
  ActiveClientTimeout,  \* seconds without a poll before the owner expires
  IdleTimeout,          \* idleTimeoutSeconds, with the timer enabled
  None                  \* the empty client ID

ASSUME TimeoutAssumption == ActiveClientTimeout \in Nat

ASSUME IdleAssumption == IdleTimeout \in Nat \ {0}

ASSUME NoneAssumption == None \notin Clients

VARIABLES
  activeClientID,
  unseen,       \* seconds since activeClientSeen, as far as they matter
  remaining,    \* idleTimeRemaining
  resetIdle,    \* a reset waits in resetIdleCh, a channel with one slot
  ticked,       \* a tick waits in ticker.C, a channel with one slot
  shutdown      \* shutdownCh is closed

ownership == <<activeClientID, unseen>>
idleTimer == <<remaining, resetIdle, ticked, shutdown>>

ManagerTypeOK ==
  /\ activeClientID \in Clients \cup {None}
  /\ unseen \in 0..(ActiveClientTimeout + 1)
  /\ remaining \in 0..IdleTimeout
  /\ resetIdle \in BOOLEAN
  /\ ticked \in BOOLEAN
  /\ shutdown \in BOOLEAN

\* NewManager
ManagerInit ==
  /\ activeClientID = None
  /\ unseen = 0
  /\ remaining = IdleTimeout
  /\ resetIdle = FALSE
  /\ ticked = FALSE
  /\ shutdown = FALSE

----------------------------------------------------------------------------
(* Ownership.                                                              *)

ActiveExpired == activeClientID # None /\ unseen > ActiveClientTimeout

\* What SetActiveClient answers the client.
IsActive(client, transferSession) ==
  \/ ActiveExpired
  \/ activeClientID \in {None, client}
  \/ transferSession

\* Mutation of SetActiveClient: a poll of the owner is not remembered.
ClaimWithoutRefresh(client, transferSession) ==
  IF IsActive(client, transferSession) /\ activeClientID # client
    THEN activeClientID' = client /\ unseen' = 0
    ELSE UNCHANGED ownership

\* Mutation of SetActiveClient: an owner never expires.
ClaimWithoutExpiry(client, transferSession) ==
  IF activeClientID \in {None, client} \/ transferSession
    THEN activeClientID' = client /\ unseen' = 0
    ELSE UNCHANGED ownership

SetActiveClient(client, transferSession) ==
  IF IsActive(client, transferSession)
    THEN activeClientID' = client /\ unseen' = 0
    ELSE UNCHANGED ownership

ClearClient(client) ==
  /\ activeClientID' = IF activeClientID = client THEN None ELSE activeClientID
  /\ UNCHANGED unseen

----------------------------------------------------------------------------
(* The idle timer.                                                         *)

\* Mutation of ResetIdleTimer: the request does not count as activity.
ResetNothing == UNCHANGED idleTimer

\* A non-blocking send.
ResetIdleTimer ==
  /\ resetIdle' = TRUE
  /\ UNCHANGED <<remaining, ticked, shutdown>>

\* runIdleTimer receives from resetIdleCh.
TimerReset ==
  /\ ~shutdown
  /\ resetIdle
  /\ resetIdle' = FALSE
  /\ remaining' = IdleTimeout
  /\ UNCHANGED <<ticked, shutdown, ownership>>

\* Mutation of TimerTick: the test comes before the count, which stops at 0.
TimerTickNeverEnds ==
  /\ ~shutdown
  /\ ticked
  /\ ticked' = FALSE
  /\ remaining' = IF remaining > 0 THEN remaining - 1 ELSE 0
  /\ shutdown' = (remaining < 0)
  /\ UNCHANGED <<resetIdle, ownership>>

\* Mutation of TimerTick: the count must fall below zero.
TimerTickPastZero ==
  /\ ~shutdown
  /\ ticked
  /\ ticked' = FALSE
  /\ remaining' = remaining - 1
  /\ shutdown' = (remaining - 1 < 0)
  /\ UNCHANGED <<resetIdle, ownership>>

\* runIdleTimer receives from ticker.C; select prefers neither channel.
TimerTick ==
  /\ ~shutdown
  /\ ticked
  /\ ticked' = FALSE
  /\ remaining' = remaining - 1
  /\ shutdown' = (remaining - 1 <= 0)
  /\ UNCHANGED <<resetIdle, ownership>>

\* One second passes; a tick that finds the channel full is dropped, and the
\* ticker is stopped when runIdleTimer returns.
ManagerSecond ==
  /\ unseen' = IF unseen > ActiveClientTimeout THEN unseen ELSE unseen + 1
  /\ ticked' = ~shutdown
  /\ UNCHANGED <<activeClientID, remaining, resetIdle, shutdown>>

=============================================================================
