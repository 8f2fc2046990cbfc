------------------------------- MODULE Licensing -------------------------------
(***************************************************************************)
(* Licensing: type Manager of internal/licensing/licensing.go, the request *)
(* handlers of internal/server/server.go that use it, and what a start of  *)
(* MATLAB takes from it.                                                   *)
(*                                                                         *)
(* A request handler is a goroutine; each of its critical sections and     *)
(* each of its accesses outside a lock is a step, and a call to the        *)
(* MathWorks services lies between two steps.  Manager.info is a pointer   *)
(* to an Info that handlers keep and mutate, so the Infos live in a heap.  *)
(*                                                                         *)
(* A request that starts or stops MATLAB is answered at once: it leaves    *)
(* the call of Process.Start or Stop to a goroutine, which later requests  *)
(* may overtake, and run reads the licence variables later still.  The     *)
(* process itself is reduced to what MatlabService promises of it, one     *)
(* MATLAB at a time; MatlabProcess says how that comes about.              *)
(***************************************************************************)
EXTENDS Naturals, FiniteSets

CONSTANTS
  Handlers,     \* request goroutines; one handler = requests one at a time
  Identities,   \* MathWorks identity tokens
  Several,      \* those whose account has more than one entitlement
  Conns,        \* connection strings of network licence managers
  Existing,     \* MWI_USE_EXISTING_LICENSE is set
  Presets,      \* licences that the environment of the proxy may prescribe
  Faults,       \* what may fail: the MathWorks services, the disk
  MaxCalls,     \* bound: no start or removal is asked for while so many
                \* calls of Start(true) and Stop(false) are outstanding
  None          \* nil, the empty string, and an absent file

ASSUME SeveralAssumption == Several \subseteq Identities
ASSUME PresetsAssumption == Presets \subseteq Conns \cup {Existing, None}
ASSUME FaultsAssumption == Faults \subseteq {"network", "disk"}
ASSUME NoneAssumption ==
  /\ None \notin Identities \cup Conns \cup Nat \cup {Existing}
  /\ Existing \notin Conns
ASSUME HandlersAssumption == IsFiniteSet(Handlers)
ASSUME MaxCallsAssumption == MaxCalls \in Nat

VARIABLES
  \* the Manager
  info,         \* nil or a pointer to the licence in use
  heap,         \* the Infos that pointers point to
  lockLost,     \* a handler has panicked while it held Manager.mu
  \* the rest of the proxy
  nlmConnStr,   \* cfg.NLMConnStr
  extraEnv,     \* Process.extraEnv
  running,      \* the proxy has been started
  answer,       \* of the last change of the licence: "error" if it was
                \* refused or did not reach the disk
  \* outside the proxy
  preset,       \* the licence the environment prescribes
  file,         \* proxy_app_config.json
  \* MATLAB, and the goroutines that requests have left behind
  restarts,     \* how many are to call Start(true)
  autostart,    \* the one of Server.Start is to call Start(false)
  stops,        \* how many a removal has left to call Stop(false)
  launching,    \* run has begun and has not read the licence variables
  matlab,       \* MATLAB is running
  \* history
  overtaken,    \* the licence was changed while a start was under way, and
                \* no start has been prepared since
  \* handlers
  pc, arg, held

manager  == <<info, heap, lockLost, overtaken>>
process  == <<restarts, autostart, stops, launching, matlab>>
world    == <<running, preset>>
handlers == <<pc, arg, held>>
vars     == <<manager, nlmConnStr, extraEnv, answer, file, process, world,
              handlers>>

\* An Info is in use by m.info or held by a handler.
Pointers == 1..(Cardinality(Handlers) + 1)

\* Entitlements are told apart by the identity they belong to.
Infos == [type  : {"nlm", "mhlm", "existing_license"},
          conn  : Conns \cup {None},        \* ConnectionStr
          token : Identities \cup {None},   \* IdentityToken and SourceID
          ents  : Identities \cup {None},   \* Entitlements
          ent   : Identities \cup {None}]   \* EntitlementID
Blank == [type |-> "existing_license", conn |-> None, token |-> None,
          ents |-> None, ent |-> None]
NLM(conn) == [Blank EXCEPT !.type = "nlm", !.conn = conn]
MHLM(token) == [Blank EXCEPT !.type = "mhlm", !.token = token]

\* MLM_WEB_USER_CRED and MLM_WEB_ID
Credentials == [cred : Identities, ent : Identities \cup {None}]
NoCredentials == [cred |-> None, ent |-> None]

\* An absent file is not a licence; nil is neither a licence nor credentials.
ASSUME AbsenceAssumption == None \notin Infos \cup Credentials

Pcs == {"idle", "login", "token", "fetch", "persist", "nlm", "connStr",
        "existing", "update", "delete",
        "start", "type", "envVars", "access", "extraEnv"}

TypeOK ==
  /\ info \in Pointers \cup {None}
  /\ heap \in [Pointers -> Infos]
  /\ lockLost \in BOOLEAN
  /\ nlmConnStr \in Conns \cup {None}
  /\ extraEnv \in Credentials \cup {None}
  /\ answer \in {"ok", "error"}
  /\ running \in BOOLEAN
  /\ preset \in Presets
  /\ file \in Infos \cup {None}
  /\ restarts \in Nat /\ stops \in Nat
  /\ autostart \in BOOLEAN /\ launching \in BOOLEAN /\ matlab \in BOOLEAN
  /\ overtaken \in BOOLEAN
  /\ pc \in [Handlers -> Pcs]
  /\ arg \in [Handlers -> Identities \cup Conns \cup {None}]
  /\ held \in [Handlers -> Pointers \cup {None}]

\* Before the first start on this machine.
Init ==
  /\ info = None /\ heap = [p \in Pointers |-> Blank] /\ lockLost = FALSE
  /\ nlmConnStr = None /\ extraEnv = None /\ answer = "ok"
  /\ running = FALSE /\ preset \in Presets
  /\ file = None /\ overtaken = FALSE
  /\ restarts = 0 /\ autostart = FALSE /\ stops = 0
  /\ launching = FALSE /\ matlab = FALSE
  /\ pc = [h \in Handlers |-> "idle"]
  /\ arg = [h \in Handlers |-> None]
  /\ held = [h \in Handlers |-> None]

----------------------------------------------------------------------------

\* IsLicensed
LicensedBy(r) ==
  \/ r.type = "existing_license"
  \/ r.type = "nlm" /\ r.conn # None
  \/ r.type = "mhlm" /\ r.ent # None
IsLicensed == info # None /\ LicensedBy(heap[info])

\* fetchAndSetEntitlements selects an entitlement that is the only one.
WithEntitlements(r, token) ==
  [r EXCEPT !.ents = token, !.ent = IF token \in Several THEN @ ELSE token]

\* clearMHLMTokenFields
WithoutToken(r) == [r EXCEPT !.token = None, !.ents = None, !.ent = None]

\* m.info = &Info{...}, in a place that no handler holds.
SetInfo(r) ==
  LET inUse == {held[h] : h \in Handlers}
      p == CHOOSE q \in Pointers \ inUse : TRUE
  IN /\ info' = p
     /\ heap' = [q \in Pointers |->
                   IF q = p THEN r ELSE IF q \in inUse THEN heap[q] ELSE Blank]

\* persistConfig.  os.WriteFile truncates the file before it writes, and an
\* empty file is read as no licence.
Persist(r) ==
  \/ file' = r /\ answer' = "ok"
  \/ "disk" \in Faults /\ file' \in {file, None} /\ answer' = "error"

\* A handler takes Manager.mu, which is free again after its critical section
\* unless a panic left it locked.  A read lock left behind is as bad as a
\* write lock: the next writer waits for it, and readers wait for the writer.
At(h, where) == pc[h] = where
Locks(h, where) == At(h, where) /\ ~lockLost

Goto(h, where) == pc' = [pc EXCEPT ![h] = where]
Return(h) ==
  /\ pc' = [pc EXCEPT ![h] = "idle"]
  /\ arg' = [arg EXCEPT ![h] = None]
  /\ held' = [held EXCEPT ![h] = None]

\* The handler panics with the lock held: net/http ends the request.
Panic(h) ==
  /\ lockLost' = TRUE
  /\ answer' = "error"
  /\ Return(h)
  /\ UNCHANGED <<info, heap, overtaken>>

\* A start of MATLAB is under way: it has yet to read what it passes on.
StartPending == restarts > 0 \/ autostart \/ launching

\* History: the licence is changed.
ChangeLicence == overtaken' = StartPending

----------------------------------------------------------------------------
(* The proxy starts.                                                       *)

\* Init: the licence it leaves in use and what it leaves of the cached one,
\* whose removal may fail.  A cached token is expired, or the services are
\* asked for its entitlements again.
NoLicence ==
  {[info |-> None, file |-> f] :
     f \in {None} \cup (IF "disk" \in Faults THEN {file} ELSE {})}
Initialized ==
  IF preset # None
    THEN {[info |-> IF preset = Existing THEN Blank ELSE NLM(preset),
           file |-> file]}
  ELSE IF file = None \/ file.type # "mhlm"
    THEN {[info |-> file, file |-> file]}
  ELSE NoLicence \cup {[info |-> WithEntitlements(file, token), file |-> file] :
                         token \in {file.token} \ {None}}

\* The credentials of the automatic start, if that licence needs any.
StartCredentials(r) ==
  IF r # None /\ r.type = "mhlm" /\ LicensedBy(r)
    THEN [cred |-> r.token, ent |-> r.ent]
    ELSE None

\* Server.Start with what Init has found: with a licence, it leaves
\* Start(false) to a goroutine; without an access token it does not.
StartWith(s) ==
  /\ file' = s.file
  /\ answer' = IF s.info = None /\ s.file # None THEN "error" ELSE "ok"
  /\ info' = IF s.info = None THEN None ELSE 1
  /\ heap' = [p \in Pointers |->
                IF p = 1 /\ s.info # None THEN s.info ELSE Blank]
  /\ nlmConnStr' = IF s.info = None THEN None ELSE s.info.conn
  /\ \/ /\ extraEnv' = StartCredentials(s.info)
        /\ autostart' = (s.info # None /\ LicensedBy(s.info))
     \/ /\ StartCredentials(s.info) # None /\ "network" \in Faults
        /\ extraEnv' = None
        /\ autostart' = FALSE

\* The proxy ends, in the middle of whatever it does, and is started again.
Restart ==
  /\ \E s \in Initialized : StartWith(s)
  /\ running' = TRUE
  /\ lockLost' = FALSE
  /\ restarts' = 0 /\ stops' = 0
  /\ launching' = FALSE /\ matlab' = FALSE
  /\ overtaken' = FALSE
  /\ pc' = [h \in Handlers |-> "idle"]
  /\ arg' = [h \in Handlers |-> None]
  /\ held' = [h \in Handlers |-> None]
  /\ UNCHANGED preset

----------------------------------------------------------------------------
(* handleSetLicensing with a MathWorks login: SetMHLMLicensing.            *)

\* Mutation of Login: the Info in use is updated in place.
LoginInPlace(h) ==
  /\ Locks(h, "login")
  /\ SetInfo(IF info = None THEN MHLM(arg[h])
             ELSE [heap[info] EXCEPT !.type = "mhlm", !.token = arg[h]])
  /\ ChangeLicence
  /\ Goto(h, "token")
  /\ UNCHANGED <<arg, held, answer, lockLost, nlmConnStr, extraEnv, file,
                 process, world>>

\* The identity token is expanded by the authentication service, or refused.
Login(h) ==
  /\ Locks(h, "login")
  /\ \/ /\ SetInfo(MHLM(arg[h]))
        /\ Goto(h, "token")
        /\ UNCHANGED <<arg, held, answer>>
     \/ /\ "network" \in Faults
        /\ SetInfo(MHLM(None))
        /\ answer' = "error"
        /\ Return(h)
  /\ ChangeLicence
  /\ UNCHANGED <<lockLost, nlmConnStr, extraEnv, file, process, world>>

\* fetchAndSetEntitlements reads the token of whatever is in use by now.
ReadToken(h) ==
  /\ Locks(h, "token")
  /\ IF info = None
       THEN Panic(h)
       ELSE /\ arg' = [arg EXCEPT ![h] = heap[info].token]
            /\ Goto(h, "fetch")
            /\ UNCHANGED <<held, answer, manager>>
  /\ UNCHANGED <<nlmConnStr, extraEnv, file, process, world>>

\* The services have answered with the entitlements of that token.
StoreEntitlements(h) ==
  /\ Locks(h, "fetch")
  /\ arg[h] # None
  /\ IF info = None
       THEN Panic(h)
       ELSE /\ heap' = [heap EXCEPT ![info] = WithEntitlements(@, arg[h])]
            /\ ChangeLicence
            /\ Goto(h, "persist")
            /\ UNCHANGED <<info, lockLost, answer, arg, held>>
  /\ UNCHANGED <<nlmConnStr, extraEnv, file, process, world>>

\* The services have refused the token or cannot be reached.
ClearMHLMTokenFields(h) ==
  /\ Locks(h, "fetch")
  /\ arg[h] = None \/ "network" \in Faults
  /\ heap' = IF info = None THEN heap
                            ELSE [heap EXCEPT ![info] = WithoutToken(@)]
  /\ ChangeLicence
  /\ answer' = "error"
  /\ Return(h)
  /\ UNCHANGED <<info, lockLost, nlmConnStr, extraEnv, file, process, world>>

\* Mutation of PersistLogin: the login is not persisted.
PersistNothing(h) ==
  /\ Locks(h, "persist")
  /\ answer' = "ok"
  /\ Return(h)
  /\ UNCHANGED <<manager, nlmConnStr, extraEnv, file, process, world>>

PersistLogin(h) ==
  /\ Locks(h, "persist")
  /\ IF info = None THEN answer' = "ok" /\ UNCHANGED file
                    ELSE Persist(heap[info])
  /\ Return(h)
  /\ UNCHANGED <<manager, nlmConnStr, extraEnv, process, world>>

----------------------------------------------------------------------------
(* The other licensing requests.                                           *)

\* handleSetLicensing with a network licence, up to SetLicensing's return.
SetNLM(h) ==
  /\ Locks(h, "nlm")
  /\ SetInfo(NLM(arg[h]))
  /\ ChangeLicence
  /\ Persist(NLM(arg[h]))
  /\ IF answer' = "ok" THEN Goto(h, "connStr") /\ UNCHANGED <<arg, held>>
                       ELSE Return(h)
  /\ UNCHANGED <<lockLost, nlmConnStr, extraEnv, process, world>>

\* s.cfg.NLMConnStr = info.ConnectionStr
SetConnStr(h) ==
  /\ At(h, "connStr")
  /\ nlmConnStr' = arg[h]
  /\ Return(h)
  /\ UNCHANGED <<manager, extraEnv, answer, file, process, world>>

\* handleSetLicensing with an existing licence
SetExisting(h) ==
  /\ Locks(h, "existing")
  /\ SetInfo(Blank)
  /\ ChangeLicence
  /\ Persist(Blank)
  /\ Return(h)
  /\ UNCHANGED <<lockLost, nlmConnStr, extraEnv, process, world>>

\* handleUpdateEntitlement
UpdateEntitlement(h) ==
  /\ Locks(h, "update")
  /\ IF info # None /\ heap[info].type = "mhlm"
       THEN /\ heap' = [heap EXCEPT ![info].ent = arg[h]]
            /\ Persist(heap'[info])
            /\ ChangeLicence
       ELSE /\ answer' = "error"
            /\ UNCHANGED <<heap, file, overtaken>>
  /\ Return(h)
  /\ UNCHANGED <<info, lockLost, nlmConnStr, extraEnv, process, world>>

\* handleDeleteLicensing: ClearLicensing, then a goroutine that stops MATLAB
ClearLicensing(h) ==
  /\ Locks(h, "delete")
  /\ info' = None
  /\ \/ file' = None /\ answer' = "ok" /\ stops' = stops + 1
     \/ "disk" \in Faults /\ UNCHANGED <<file, stops>> /\ answer' = "error"
  /\ ChangeLicence
  /\ Return(h)
  /\ UNCHANGED <<heap, lockLost, nlmConnStr, extraEnv, restarts, autostart,
                 launching, matlab, world>>

----------------------------------------------------------------------------
(* handleStartMATLAB.                                                      *)

CheckLicence(h) ==
  /\ Locks(h, "start")
  /\ IF IsLicensed THEN Goto(h, "type") /\ UNCHANGED <<arg, held>>
                   ELSE Return(h)
  /\ UNCHANGED <<manager, nlmConnStr, extraEnv, answer, file, process, world>>

\* prepareMATLABEnv: GetInfo
ReadType(h) ==
  /\ Locks(h, "type")
  /\ Goto(h, IF info # None /\ heap[info].type = "mhlm" THEN "envVars"
                                                        ELSE "extraEnv")
  /\ UNCHANGED <<arg, held, manager, nlmConnStr, extraEnv, answer, file,
                 process, world>>

\* MHLMEnvVars looks at the licence a second time.
ReadInfo(h) ==
  /\ Locks(h, "envVars")
  /\ IF info # None /\ heap[info].type = "mhlm"
       THEN /\ held' = [held EXCEPT ![h] = info]
            /\ Goto(h, "access")
            /\ UNCHANGED arg
       ELSE Return(h)
  /\ UNCHANGED <<manager, nlmConnStr, extraEnv, answer, file, process, world>>

\* Mutation of FetchAccessToken: a start goes on without an access token.
FetchOrNothing(h) ==
  /\ At(h, "access")
  /\ \/ arg' = [arg EXCEPT ![h] = heap[held[h]].token]
     \/ "network" \in Faults /\ UNCHANGED arg
  /\ Goto(h, "extraEnv")
  /\ UNCHANGED <<held, manager, nlmConnStr, extraEnv, answer, file, process,
                 world>>

\* FetchAccessToken, with the fields of the Info read without the lock.
FetchAccessToken(h) ==
  /\ At(h, "access")
  /\ \/ /\ heap[held[h]].token # None
        /\ arg' = [arg EXCEPT ![h] = heap[held[h]].token]
        /\ Goto(h, "extraEnv")
        /\ UNCHANGED held
     \/ /\ heap[held[h]].token = None \/ "network" \in Faults
        /\ Return(h)
  /\ UNCHANGED <<manager, nlmConnStr, extraEnv, answer, file, process, world>>

\* Mutation of SetExtraEnv: credentials of an earlier start are kept.
KeepExtraEnv(h) ==
  /\ At(h, "extraEnv")
  /\ extraEnv' = IF held[h] = None
                   THEN extraEnv
                   ELSE [cred |-> arg[h], ent |-> heap[held[h]].ent]
  /\ overtaken' = FALSE
  /\ restarts' = restarts + 1
  /\ Return(h)
  /\ UNCHANGED <<info, heap, lockLost, nlmConnStr, answer, file, autostart,
                 stops, launching, matlab, world>>

\* SetExtraEnv, with the entitlement or with nothing; the request leaves
\* Start(true) to a goroutine and is answered.
SetExtraEnv(h) ==
  /\ At(h, "extraEnv")
  /\ extraEnv' = IF held[h] = None
                   THEN None
                   ELSE [cred |-> arg[h], ent |-> heap[held[h]].ent]
  /\ overtaken' = FALSE
  /\ restarts' = restarts + 1
  /\ Return(h)
  /\ UNCHANGED <<info, heap, lockLost, nlmConnStr, answer, file, autostart,
                 stops, launching, matlab, world>>

----------------------------------------------------------------------------
(* The goroutines, and the process that they start and stop.               *)

\* Start(true) stops what is running, its own MATLAB or a start, and begins.
CallStart ==
  /\ restarts > 0
  /\ restarts' = restarts - 1
  /\ matlab' = FALSE
  /\ launching' = TRUE
  /\ UNCHANGED <<manager, nlmConnStr, extraEnv, answer, file, autostart, stops,
                 world, handlers>>

\* Start(false) begins unless it finds a start or a MATLAB.
CallAutostart ==
  /\ autostart
  /\ autostart' = FALSE
  /\ launching' = (launching \/ ~matlab)
  /\ UNCHANGED <<manager, nlmConnStr, extraEnv, answer, file, restarts, stops,
                 matlab, world, handlers>>

\* Mutation of CallStop: MATLAB is left alone.
StopNothing ==
  /\ stops > 0
  /\ stops' = stops - 1
  /\ UNCHANGED <<manager, nlmConnStr, extraEnv, answer, file, restarts,
                 autostart, launching, matlab, world, handlers>>

\* "Stop MATLAB since licensing is removed".  A start that has not published
\* its cancel function is not reached.
CallStop ==
  /\ stops > 0
  /\ stops' = stops - 1
  /\ matlab' = FALSE
  /\ launching' \in {launching, FALSE}
  /\ UNCHANGED <<manager, nlmConnStr, extraEnv, answer, file, restarts,
                 autostart, world, handlers>>

\* What buildMATLABArgs and buildMATLABEnv pass to MATLAB: -licmode file with
\* MLM_LICENSE_FILE, and the credentials.
Environment ==
  LET c == IF extraEnv = None THEN NoCredentials ELSE extraEnv
  IN [conn |-> nlmConnStr, cred |-> c.cred, ent |-> c.ent]

\* run reads the licence variables, the Environment, and starts MATLAB.
Launch ==
  /\ launching
  /\ launching' = FALSE
  /\ matlab' = TRUE
  /\ UNCHANGED <<manager, nlmConnStr, extraEnv, answer, file, restarts,
                 autostart, stops, world, handlers>>

\* MATLAB ends by itself, does not come up, or is stopped from the panel.
MatlabEnds ==
  /\ launching \/ matlab
  /\ launching' = FALSE
  /\ matlab' = FALSE
  /\ UNCHANGED <<manager, nlmConnStr, extraEnv, answer, file, restarts,
                 autostart, stops, world, handlers>>

----------------------------------------------------------------------------

\* A request arrives.
Request(h, where, with) ==
  /\ running
  /\ pc[h] = "idle"
  /\ Goto(h, where)
  /\ arg' = [arg EXCEPT ![h] = with]
  /\ UNCHANGED <<held, manager, nlmConnStr, extraEnv, answer, file, process,
                 world>>

\* An update may name any entitlement, or none.
Arrive(h) ==
  \/ \E i \in Identities : Request(h, "login", i)
  \/ \E i \in Identities \cup {None} : Request(h, "update", i)
  \/ \E c \in Conns : Request(h, "nlm", c)
  \/ Request(h, "existing", None)
  \/ /\ restarts + stops < MaxCalls
     /\ \E where \in {"delete", "start"} : Request(h, where, None)

HandlerStep(h) ==
  \/ Login(h) \/ ReadToken(h) \/ StoreEntitlements(h)
  \/ ClearMHLMTokenFields(h) \/ PersistLogin(h)
  \/ SetNLM(h) \/ SetConnStr(h) \/ SetExisting(h)
  \/ UpdateEntitlement(h) \/ ClearLicensing(h)
  \/ CheckLicence(h) \/ ReadType(h) \/ ReadInfo(h) \/ FetchAccessToken(h)
  \/ SetExtraEnv(h)

Background == CallStart \/ CallAutostart \/ CallStop \/ Launch

Next ==
  \/ \E h \in Handlers : Arrive(h) \/ HandlerStep(h)
  \/ Background \/ MatlabEnds
  \/ Restart

Spec == Init /\ [][Next]_vars

\* Goroutines run: the calls of the services have a timeout.
LiveSpec ==
  Spec /\ WF_vars(Background) /\ \A h \in Handlers : WF_vars(HandlerStep(h))

----------------------------------------------------------------------------
(* Properties of requests that come one at a time, each answered before    *)
(* the next; what an earlier one has left to a goroutine may still be      *)
(* under way.                                                              *)

Quiet == \A h \in Handlers : pc[h] = "idle"

\* The state that the user was told of survives a restart: the licence in use
\* if MATLAB may be started with it, with an entitlement that is the only one
\* selected again, unless a token has expired or the services are away, and
\* the absence of a licence after a sign-out.
RestartRestores ==
  [][ /\ Restart
      /\ running /\ Quiet /\ answer = "ok" /\ preset = None
      => /\ info = None => info' = None
         /\ IsLicensed =>
              LET r == heap[info] IN
              \/ info' # None /\ heap'[info'] \in {r, WithEntitlements(r, r.token)}
              \/ info' = None /\ r.type = "mhlm"]_vars

\* After a step, the entitlement of licence r is the one of the identity whose
\* token it has, or the user has named it in this very step, or it was in use,
\* or in the file that is restored, together with this token before.
Has(was, r) == was # None /\ was.token = r.token /\ was.ent = r.ent
Owns(r) ==
  \/ r.ent = r.token
  \/ \E h \in Handlers : UpdateEntitlement(h) /\ r.ent = arg[h]
  \/ info # None /\ Has(heap[info], r)
  \/ Restart /\ Has(file, r)

\* No licence inherits the entitlement of another identity, after any sequence
\* of logins that succeed and fail, changes of the licence and restarts.
OwnEntitlement ==
  [][ info' # None /\ heap'[info'].ent # None
      => heap'[info'].type = "mhlm" /\ Owns(heap'[info'])]_vars

\* MATLAB gets what the licence in use needs: the connection string of the
\* network licence, the credentials of the hosted one and no credentials
\* otherwise, whatever was changed, refused or restored before the start was
\* prepared, and however late its goroutine and run come to it.  A licence
\* that is changed after that and before run reads is excepted.
LaunchedAsLicensed ==
  [][ /\ Launch
      /\ info # None /\ answer = "ok" /\ ~overtaken
      => LET r == heap[info] IN
         /\ r.type = "nlm" => Environment.conn = r.conn
         /\ Environment.cred = r.token
         /\ r.type = "mhlm" => Environment.ent = r.ent]_vars

\* "Stop MATLAB since licensing is removed": once the goroutines that removals
\* have left are done and there is no licence, MATLAB neither runs nor is
\* about to, unless the removal overtook a start that was already answered.
SignedOutIsStopped ==
  info = None /\ answer = "ok" /\ ~overtaken /\ stops = 0
    => ~matlab /\ ~StartPending

(* What the documentation says, which the code does not keep.              *)

\* "Remove licensing": a request that removes the licence comes to its end.
RemovalEnds ==
  \A h \in Handlers : pc[h] = "delete" ~> pc[h] # "delete"

=============================================================================
