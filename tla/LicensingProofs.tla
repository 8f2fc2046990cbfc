--------------------------- MODULE LicensingProofs ---------------------------
(***************************************************************************)
(* Theorems about Licensing: its types for any number of handlers and,     *)
(* when requests come one at a time, the ownership of entitlements and the *)
(* agreement of the licence in use with its cached file, with what run     *)
(* passes to MATLAB and with what the user was told.  The goroutines that  *)
(* requests leave behind take their steps at any time after.               *)
(***************************************************************************)
EXTENDS Licensing, FiniteSetTheorems, TLAPS

----------------------------------------------------------------------------
(* Type correctness.  TypeOK is not inductive: what a handler carries from *)
(* one step to the next must fit the step it is about to take.             *)

\* The argument of each request is of the kind that its next step stores.
ArgsFit ==
  \A h \in Handlers :
    /\ pc[h] = "login" => arg[h] \in Identities
    /\ pc[h] = "update" => arg[h] \in Identities \cup {None}
    /\ pc[h] \in {"nlm", "connStr"} => arg[h] \in Conns
    /\ pc[h] = "fetch" => arg[h] \in Identities \cup {None}
    /\ pc[h] \in {"idle", "start", "type"} => held[h] = None
    /\ pc[h] = "access" => held[h] # None
    /\ pc[h] = "extraEnv" /\ held[h] # None => arg[h] \in Identities

\* The conjuncts of TypeOK by the part of the state they speak of.
ManagerTypes ==
  /\ info \in Pointers \cup {None}
  /\ heap \in [Pointers -> Infos]
LaunchTypes ==
  /\ nlmConnStr \in Conns \cup {None}
  /\ extraEnv \in Credentials \cup {None}
  /\ restarts \in Nat /\ stops \in Nat
  /\ autostart \in BOOLEAN /\ launching \in BOOLEAN /\ matlab \in BOOLEAN
CacheTypes ==
  /\ answer \in {"ok", "error"}
  /\ preset \in Presets
  /\ file \in Infos \cup {None}
FlagTypes ==
  lockLost \in BOOLEAN /\ running \in BOOLEAN /\ overtaken \in BOOLEAN
HandlerTypes ==
  /\ pc \in [Handlers -> Pcs]
  /\ arg \in [Handlers -> Identities \cup Conns \cup {None}]
  /\ held \in [Handlers -> Pointers \cup {None}]

TypeInv ==
  /\ ManagerTypes /\ LaunchTypes /\ CacheTypes /\ FlagTypes
  /\ HandlerTypes /\ ArgsFit

LEMMA TypeInvTypes == TypeInv => TypeOK
BY DEF TypeInv, TypeOK, ManagerTypes, LaunchTypes, CacheTypes, FlagTypes,
       HandlerTypes

\* The licences that the code makes are licences.
LEMMA InfoTypes ==
  /\ Blank \in Infos
  /\ \A c \in Conns : NLM(c) \in Infos
  /\ \A i \in Identities \cup {None} : MHLM(i) \in Infos
  /\ \A r \in Infos :
       /\ WithoutToken(r) \in Infos
       /\ \A i \in Identities : WithEntitlements(r, i) \in Infos
       /\ \A i \in Identities \cup {None} : [r EXCEPT !.ent = i] \in Infos
BY DEF Infos, Blank, NLM, MHLM, WithoutToken, WithEntitlements

\* There are more places than handlers.
LEMMA FreePointer ==
  ASSUME held \in [Handlers -> Pointers \cup {None}]
  PROVE  \E q \in Pointers : q \notin {held[h] : h \in Handlers}
<1> DEFINE inUse == {held[h] : h \in Handlers}
           n == Cardinality(Handlers)
<1>1. IsFiniteSet(Handlers) /\ n \in Nat
  BY HandlersAssumption, FS_CardinalityType
<1>2. held \in Surjection(Handlers, inUse)
  BY DEF Surjection
<1>3. IsFiniteSet(inUse) /\ Cardinality(inUse) <= n
  BY <1>1, <1>2, FS_Surjection
<1>4. IsFiniteSet(Pointers) /\ Cardinality(Pointers) = n + 1
  <2>1. n + 1 >= 1 /\ n + 1 \in Int /\ (n + 1) - 1 + 1 = n + 1
    BY <1>1
  <2> QED
    BY <2>1, FS_Interval DEF Pointers
<1>5. Cardinality(inUse) \in Nat
  BY <1>3, FS_CardinalityType
<1>6. ASSUME Pointers \subseteq inUse PROVE FALSE
  <2>1. Cardinality(Pointers) <= Cardinality(inUse)
    BY <1>3, <1>6, FS_Subset
  <2> HIDE DEF inUse, n
  <2> QED
    BY <1>1, <1>3, <1>4, <1>5, <2>1
<1> QED
  BY <1>6

\* A new licence is put where no handler sees it.
LEMMA SetInfoType ==
  ASSUME TypeOK, NEW r \in Infos, SetInfo(r)
  PROVE  /\ info' \in Pointers
         /\ heap' \in [Pointers -> Infos]
         /\ heap'[info'] = r
<1> DEFINE inUse == {held[h] : h \in Handlers}
<1>1. \E q : q \in Pointers \ inUse
  BY FreePointer DEF TypeOK
<1>2. info' \in Pointers \ inUse
  BY <1>1 DEF SetInfo
<1>3. heap' = [q \in Pointers |->
                 IF q = info' THEN r ELSE IF q \in inUse THEN heap[q] ELSE Blank]
  BY DEF SetInfo
<1> QED
  BY <1>2, <1>3, InfoTypes DEF TypeOK

\* What is cached or in use after Init of the Manager.
LEMMA InitializedType ==
  ASSUME TypeOK, NEW s \in Initialized
  PROVE  /\ s.info \in Infos \cup {None}
         /\ s.file \in Infos \cup {None}
         /\ s.info # None /\ s.info.type = "mhlm" => s.info.token # None
<1>1. preset \in Conns \cup {Existing, None}
  BY PresetsAssumption DEF TypeOK
<1>2. file \in Infos \cup {None}
  BY DEF TypeOK
<1>3. CASE preset # None
  <2>1. s = [info |-> IF preset = Existing THEN Blank ELSE NLM(preset),
             file |-> file]
    BY <1>3 DEF Initialized
  <2>2. Blank.type # "mhlm" /\ \A c \in Conns : NLM(c).type # "mhlm"
    BY DEF NLM, Blank
  <2> QED
    BY <1>1, <1>2, <1>3, <2>1, <2>2, InfoTypes
<1>4. CASE preset = None /\ (file = None \/ file.type # "mhlm")
  <2>1. s = [info |-> file, file |-> file]
    BY <1>4 DEF Initialized
  <2> QED
    BY <1>2, <1>4, <2>1
<1>5. CASE preset = None /\ ~(file = None \/ file.type # "mhlm")
  <2>1. s \in NoLicence \cup
          {[info |-> WithEntitlements(file, token), file |-> file] :
             token \in {file.token} \ {None}}
    BY <1>5 DEF Initialized
  <2>2. CASE s \in NoLicence
    BY <1>2, <2>2 DEF NoLicence
  <2>3. CASE s \notin NoLicence
    <3>1. file.token # None
          /\ s = [info |-> WithEntitlements(file, file.token), file |-> file]
      BY <2>1, <2>3
    <3>2. file \in Infos /\ file.token \in Identities
      BY <1>2, <1>5, <3>1 DEF Infos
    <3>3. WithEntitlements(file, file.token).token = file.token
      BY <3>2 DEF WithEntitlements, Infos
    <3> QED
      BY <3>1, <3>2, <3>3, InfoTypes
  <2> QED
    BY <2>2, <2>3
<1> QED
  BY <1>3, <1>4, <1>5

\* A handler whose request ends carries nothing.
LEMMA ReturnType ==
  ASSUME HandlerTypes, ArgsFit, NEW h \in Handlers, Return(h)
  PROVE  HandlerTypes' /\ ArgsFit'
BY DEF HandlerTypes, ArgsFit, Return, Pcs

\* A handler that goes on keeps what fits its next step.
LEMMA GotoType ==
  ASSUME HandlerTypes, ArgsFit, NEW h \in Handlers, NEW to \in Pcs,
         Goto(h, to), UNCHANGED <<arg, held>>,
         to \notin {"login", "update", "nlm", "connStr", "fetch", "access"},
         to \in {"idle", "start", "type"} => held[h] = None,
         to = "extraEnv" /\ held[h] # None => arg[h] \in Identities
  PROVE  HandlerTypes' /\ ArgsFit'
BY DEF HandlerTypes, ArgsFit, Goto

LEMMA HandlersSame ==
  ASSUME HandlerTypes, ArgsFit, UNCHANGED handlers
  PROVE  HandlerTypes' /\ ArgsFit'
BY DEF HandlerTypes, ArgsFit, handlers

LEMMA ChangeLicenceType == ChangeLicence => overtaken' \in BOOLEAN
BY DEF ChangeLicence, StartPending

LEMMA InitTypeInv == Init => TypeInv
<1> SUFFICES ASSUME Init PROVE TypeInv
  OBVIOUS
<1>1. ManagerTypes
  BY InfoTypes DEF Init, ManagerTypes
<1>2. LaunchTypes /\ CacheTypes /\ FlagTypes
  BY DEF Init, LaunchTypes, CacheTypes, FlagTypes
<1>3. HandlerTypes /\ ArgsFit
  BY DEF Init, HandlerTypes, ArgsFit, Pcs
<1> QED
  BY <1>1, <1>2, <1>3 DEF TypeInv

\* persistConfig leaves a licence or nothing on the disk.
LEMMA PersistType ==
  ASSUME CacheTypes, NEW r \in Infos, Persist(r), UNCHANGED preset
  PROVE  CacheTypes'
BY DEF CacheTypes, Persist

\* The proxy is restarted.
LEMMA RestartType ==
  ASSUME TypeInv, Restart
  PROVE  TypeInv'
<1> PICK s \in Initialized : StartWith(s)
  BY DEF Restart
<1>1. /\ s.info \in Infos \cup {None}
      /\ s.file \in Infos \cup {None}
      /\ s.info # None /\ s.info.type = "mhlm" => s.info.token # None
  BY InitializedType, TypeInvTypes
<1>2. 1 \in Pointers
  BY HandlersAssumption, FS_CardinalityType DEF Pointers
<1>3. ManagerTypes'
  BY <1>1, <1>2, InfoTypes DEF ManagerTypes, StartWith
<1>4. nlmConnStr' \in Conns \cup {None} /\ extraEnv' \in Credentials \cup {None}
  BY <1>1 DEF Infos, Credentials, StartWith, StartCredentials
<1>5. autostart' \in BOOLEAN
  BY DEF StartWith
<1>6. LaunchTypes'
  BY <1>4, <1>5 DEF LaunchTypes, Restart
<1>7. CacheTypes'
  BY <1>1 DEF CacheTypes, Restart, StartWith, TypeInv
<1>8. FlagTypes'
  BY DEF FlagTypes, Restart
<1>9. HandlerTypes' /\ ArgsFit'
  BY DEF HandlerTypes, ArgsFit, Restart, StartWith, Pcs
<1> QED
  BY <1>3, <1>6, <1>7, <1>8, <1>9 DEF TypeInv

\* The steps of a login.
LEMMA LoginType ==
  ASSUME TypeInv, NEW h \in Handlers,
         Login(h) \/ ReadToken(h) \/ StoreEntitlements(h)
           \/ ClearMHLMTokenFields(h) \/ PersistLogin(h)
  PROVE  TypeInv'
<1>1. CASE Login(h)
  <2>1. \E r \in Infos : SetInfo(r)
    <3>1. arg[h] \in Identities
      BY <1>1 DEF Login, Locks, At, TypeInv, ArgsFit
    <3> QED
      BY <1>1, <3>1, InfoTypes DEF Login
  <2>2. ManagerTypes'
    BY <2>1, SetInfoType, TypeInvTypes DEF ManagerTypes
  <2>3. LaunchTypes' /\ CacheTypes' /\ FlagTypes'
    <3>1. UNCHANGED <<lockLost, nlmConnStr, extraEnv, file, process, world>>
      BY <1>1 DEF Login
    <3>2. answer' \in {answer, "error"} /\ overtaken' \in BOOLEAN
      BY <1>1, ChangeLicenceType DEF Login
    <3>3. LaunchTypes' /\ FlagTypes'
      BY <3>1, <3>2 DEF TypeInv, LaunchTypes, FlagTypes, world, process
    <3>4. CacheTypes'
      BY <3>1, <3>2 DEF TypeInv, CacheTypes, world
    <3> QED
      BY <3>3, <3>4
  <2>4. HandlerTypes' /\ ArgsFit'
    <3>1. CASE Return(h)
      BY <3>1, ReturnType DEF TypeInv
    <3>2. CASE Goto(h, "token") /\ UNCHANGED <<arg, held>>
      BY <3>2, GotoType DEF TypeInv, Pcs
    <3> QED
      BY <1>1, <3>1, <3>2 DEF Login
  <2> QED
    BY <2>2, <2>3, <2>4 DEF TypeInv
<1>2. CASE ReadToken(h)
  <2>1. ManagerTypes' /\ LaunchTypes' /\ CacheTypes' /\ FlagTypes'
    BY <1>2 DEF ReadToken, Panic, TypeInv, ManagerTypes, LaunchTypes,
                CacheTypes, FlagTypes, world, manager, process
  <2>2. HandlerTypes' /\ ArgsFit'
    <3>1. CASE info = None
      BY <1>2, <3>1, ReturnType DEF ReadToken, Panic, TypeInv
    <3>2. CASE info # None
      <4>1. heap[info].token \in Identities \cup {None}
        BY <3>2 DEF TypeInv, ManagerTypes, Infos
      <4> QED
        BY <1>2, <3>2, <4>1
           DEF ReadToken, Goto, TypeInv, HandlerTypes, ArgsFit, Pcs
    <3> QED
      BY <3>1, <3>2
  <2> QED
    BY <2>1, <2>2 DEF TypeInv
<1>3. CASE StoreEntitlements(h)
  <2>1. arg[h] \in Identities
    BY <1>3 DEF StoreEntitlements, Locks, At, TypeInv, ArgsFit
  <2>2. ManagerTypes'
    <3>1. CASE info = None
      BY <1>3, <3>1 DEF StoreEntitlements, Panic, TypeInv, ManagerTypes
    <3>2. CASE info # None
      <4>1. /\ info' = info
            /\ heap' = [heap EXCEPT ![info] =
                           WithEntitlements(heap[info], arg[h])]
        BY <1>3, <3>2 DEF StoreEntitlements
      <4>2. info \in Pointers /\ heap \in [Pointers -> Infos]
        BY <3>2 DEF TypeInv, ManagerTypes
      <4>3. WithEntitlements(heap[info], arg[h]) \in Infos
        BY <2>1, <4>2, InfoTypes
      <4> QED
        BY <4>1, <4>2, <4>3 DEF ManagerTypes
    <3> QED
      BY <3>1, <3>2
  <2>3. LaunchTypes' /\ CacheTypes' /\ FlagTypes'
    BY <1>3, ChangeLicenceType
       DEF StoreEntitlements, Panic, TypeInv, LaunchTypes, CacheTypes,
           FlagTypes, world, process
  <2>4. HandlerTypes' /\ ArgsFit'
    <3>1. CASE info = None
      BY <1>3, <3>1, ReturnType DEF StoreEntitlements, Panic, TypeInv
    <3>2. CASE info # None
      BY <1>3, <3>2, GotoType DEF StoreEntitlements, TypeInv, Pcs
    <3> QED
      BY <3>1, <3>2
  <2> QED
    BY <2>2, <2>3, <2>4 DEF TypeInv
<1>4. CASE ClearMHLMTokenFields(h)
  <2>1. ManagerTypes'
    BY <1>4, InfoTypes DEF ClearMHLMTokenFields, TypeInv, ManagerTypes
  <2>2. LaunchTypes' /\ CacheTypes' /\ FlagTypes'
    BY <1>4, ChangeLicenceType
       DEF ClearMHLMTokenFields, TypeInv, LaunchTypes, CacheTypes, FlagTypes,
           world, process
  <2>3. HandlerTypes' /\ ArgsFit'
    BY <1>4, ReturnType DEF ClearMHLMTokenFields, TypeInv
  <2> QED
    BY <2>1, <2>2, <2>3 DEF TypeInv
<1>5. CASE PersistLogin(h)
  <2>1. ManagerTypes' /\ LaunchTypes' /\ FlagTypes'
    BY <1>5 DEF PersistLogin, TypeInv, ManagerTypes, LaunchTypes, FlagTypes,
                world, manager, process
  <2>2. CacheTypes'
    <3>1. CASE info = None
      BY <1>5, <3>1 DEF PersistLogin, TypeInv, CacheTypes, world
    <3>2. CASE info # None
      <4>1. heap[info] \in Infos /\ Persist(heap[info]) /\ preset' = preset
        BY <1>5, <3>2 DEF PersistLogin, TypeInv, ManagerTypes, world
      <4> QED
        BY <4>1, PersistType DEF TypeInv
    <3> QED
      BY <3>1, <3>2
  <2>3. HandlerTypes' /\ ArgsFit'
    BY <1>5, ReturnType DEF PersistLogin, TypeInv
  <2> QED
    BY <2>1, <2>2, <2>3 DEF TypeInv
<1> QED
  BY <1>1, <1>2, <1>3, <1>4, <1>5

\* The other licensing requests.
LEMMA RequestType ==
  ASSUME TypeInv, NEW h \in Handlers,
         SetNLM(h) \/ SetConnStr(h) \/ SetExisting(h) \/ UpdateEntitlement(h)
           \/ ClearLicensing(h)
  PROVE  TypeInv'
<1>1. CASE SetNLM(h)
  <2>1. arg[h] \in Conns /\ NLM(arg[h]) \in Infos
    BY <1>1, InfoTypes DEF SetNLM, Locks, At, TypeInv, ArgsFit
  <2>2. ManagerTypes'
    BY <1>1, <2>1, SetInfoType, TypeInvTypes DEF ManagerTypes, SetNLM
  <2>3. UNCHANGED <<lockLost, nlmConnStr, extraEnv, process, world>>
    BY <1>1 DEF SetNLM
  <2>4. LaunchTypes' /\ FlagTypes'
    BY <1>1, <2>3, ChangeLicenceType
       DEF SetNLM, TypeInv, LaunchTypes, FlagTypes, world, process
  <2>5. CacheTypes'
    BY <1>1, <2>1, <2>3, PersistType DEF SetNLM, TypeInv, world
  <2>6. HandlerTypes' /\ ArgsFit'
    <3>1. CASE Return(h)
      BY <3>1, ReturnType DEF TypeInv
    <3>2. CASE Goto(h, "connStr") /\ UNCHANGED <<arg, held>>
      BY <2>1, <3>2 DEF Goto, TypeInv, HandlerTypes, ArgsFit, Pcs
    <3> QED
      BY <1>1, <3>1, <3>2 DEF SetNLM
  <2> QED
    BY <2>2, <2>4, <2>5, <2>6 DEF TypeInv
<1>2. CASE SetConnStr(h)
  <2>1. arg[h] \in Conns
    BY <1>2 DEF SetConnStr, At, TypeInv, ArgsFit
  <2>2. ManagerTypes' /\ LaunchTypes' /\ CacheTypes' /\ FlagTypes'
    BY <1>2, <2>1 DEF SetConnStr, TypeInv, ManagerTypes, LaunchTypes,
                      CacheTypes, FlagTypes, world, manager, process
  <2>3. HandlerTypes' /\ ArgsFit'
    BY <1>2, ReturnType DEF SetConnStr, TypeInv
  <2> QED
    BY <2>2, <2>3 DEF TypeInv
<1>3. CASE SetExisting(h)
  <2>1. ManagerTypes'
    BY <1>3, InfoTypes, SetInfoType, TypeInvTypes DEF ManagerTypes, SetExisting
  <2>2. UNCHANGED <<lockLost, nlmConnStr, extraEnv, process, world>>
    BY <1>3 DEF SetExisting
  <2>3. LaunchTypes' /\ FlagTypes'
    BY <1>3, <2>2, ChangeLicenceType
       DEF SetExisting, TypeInv, LaunchTypes, FlagTypes, world, process
  <2>4. CacheTypes'
    BY <1>3, <2>2, InfoTypes, PersistType DEF SetExisting, TypeInv, world
  <2>5. HandlerTypes' /\ ArgsFit'
    BY <1>3, ReturnType DEF SetExisting, TypeInv
  <2> QED
    BY <2>1, <2>3, <2>4, <2>5 DEF TypeInv
<1>4. CASE UpdateEntitlement(h)
  <2>1. arg[h] \in Identities \cup {None}
    BY <1>4 DEF UpdateEntitlement, Locks, At, TypeInv, ArgsFit
  <2>2. UNCHANGED <<info, lockLost, nlmConnStr, extraEnv, process, world>>
    BY <1>4 DEF UpdateEntitlement
  <2>3. ManagerTypes' /\ CacheTypes'
    <3>1. CASE info # None /\ heap[info].type = "mhlm"
      <4>1. /\ heap' = [heap EXCEPT ![info].ent = arg[h]]
            /\ Persist(heap'[info])
        BY <1>4, <3>1 DEF UpdateEntitlement
      <4>2. info \in Pointers /\ heap \in [Pointers -> Infos]
        BY <3>1 DEF TypeInv, ManagerTypes
      <4>3. [heap[info] EXCEPT !.ent = arg[h]] \in Infos
        BY <2>1, <4>2, InfoTypes
      <4>4. heap' \in [Pointers -> Infos] /\ heap'[info] \in Infos
        BY <4>1, <4>2, <4>3
      <4>5. ManagerTypes'
        BY <2>2, <4>2, <4>4 DEF ManagerTypes
      <4>6. CacheTypes'
        BY <2>2, <4>1, <4>4, PersistType DEF TypeInv, world
      <4> QED
        BY <4>5, <4>6
    <3>2. CASE ~(info # None /\ heap[info].type = "mhlm")
      BY <1>4, <2>2, <3>2
         DEF UpdateEntitlement, TypeInv, ManagerTypes, CacheTypes, world
    <3> QED
      BY <3>1, <3>2
  <2>4. LaunchTypes' /\ FlagTypes'
    BY <1>4, <2>2, ChangeLicenceType
       DEF UpdateEntitlement, TypeInv, LaunchTypes, FlagTypes, world, process
  <2>5. HandlerTypes' /\ ArgsFit'
    BY <1>4, ReturnType DEF UpdateEntitlement, TypeInv
  <2> QED
    BY <2>3, <2>4, <2>5 DEF TypeInv
<1>5. CASE ClearLicensing(h)
  <2>1. UNCHANGED <<heap, lockLost, nlmConnStr, extraEnv, restarts, autostart,
                    launching, matlab, world>>
    BY <1>5 DEF ClearLicensing
  <2>2. stops' \in {stops, stops + 1} /\ overtaken' \in BOOLEAN
    BY <1>5, ChangeLicenceType DEF ClearLicensing
  <2>3. ManagerTypes' /\ LaunchTypes'
    BY <1>5, <2>1, <2>2 DEF ClearLicensing, TypeInv, ManagerTypes, LaunchTypes
  <2>4. file' \in {file, None} /\ answer' \in {"ok", "error"}
    BY <1>5 DEF ClearLicensing
  <2>5. CacheTypes' /\ FlagTypes'
    BY <2>1, <2>2, <2>4 DEF TypeInv, CacheTypes, FlagTypes, world
  <2>6. HandlerTypes' /\ ArgsFit'
    BY <1>5, ReturnType DEF ClearLicensing, TypeInv
  <2> QED
    BY <2>3, <2>5, <2>6 DEF TypeInv
<1> QED
  BY <1>1, <1>2, <1>3, <1>4, <1>5

\* The steps of a start of MATLAB.
LEMMA StartType ==
  ASSUME TypeInv, NEW h \in Handlers,
         CheckLicence(h) \/ ReadType(h) \/ ReadInfo(h) \/ FetchAccessToken(h)
           \/ SetExtraEnv(h)
  PROVE  TypeInv'
<1>1. CASE CheckLicence(h) \/ ReadType(h) \/ ReadInfo(h) \/ FetchAccessToken(h)
  <2>1. UNCHANGED <<manager, nlmConnStr, extraEnv, answer, file, process, world>>
    BY <1>1 DEF CheckLicence, ReadType, ReadInfo, FetchAccessToken
  <2>2. ManagerTypes' /\ LaunchTypes' /\ CacheTypes' /\ FlagTypes'
    BY <2>1 DEF TypeInv, ManagerTypes, LaunchTypes, CacheTypes, FlagTypes,
                world, manager, process
  <2>3. HandlerTypes' /\ ArgsFit'
    <3>1. CASE Return(h)
      BY <3>1, ReturnType DEF TypeInv
    <3>2. CASE CheckLicence(h) /\ ~Return(h)
      <4>1. Goto(h, "type") /\ UNCHANGED <<arg, held>> /\ held[h] = None
        BY <3>2 DEF CheckLicence, Locks, At, TypeInv, ArgsFit
      <4> QED
        BY <4>1, GotoType DEF TypeInv, Pcs
    <3>3. CASE ReadType(h)
      <4>1. \/ Goto(h, "envVars")
            \/ Goto(h, "extraEnv")
        BY <3>3 DEF ReadType
      <4>2. pc[h] = "type" /\ UNCHANGED <<arg, held>>
        BY <3>3 DEF ReadType, Locks, At
      <4>3. held[h] = None
        BY <4>2 DEF TypeInv, ArgsFit
      <4> QED
        BY <4>1, <4>2, <4>3, GotoType DEF TypeInv, Pcs
    <3>4. CASE ReadInfo(h) /\ ~Return(h)
      <4>1. /\ info # None /\ held' = [held EXCEPT ![h] = info]
            /\ Goto(h, "access") /\ UNCHANGED arg
        BY <3>4 DEF ReadInfo
      <4>2. info \in Pointers
        BY <4>1 DEF TypeInv, ManagerTypes
      <4> QED
        BY <4>1, <4>2 DEF Goto, TypeInv, HandlerTypes, ArgsFit, Pcs
    <3>5. CASE FetchAccessToken(h) /\ ~Return(h)
      <4>1. /\ pc[h] = "access"
            /\ heap[held[h]].token # None
            /\ arg' = [arg EXCEPT ![h] = heap[held[h]].token]
            /\ Goto(h, "extraEnv") /\ UNCHANGED held
        BY <3>5 DEF FetchAccessToken, At
      <4>2. held[h] \in Pointers
        BY <4>1 DEF TypeInv, HandlerTypes, ArgsFit
      <4>3. heap[held[h]].token \in Identities
        BY <4>1, <4>2 DEF TypeInv, ManagerTypes, Infos
      <4> QED
        BY <4>1, <4>3 DEF Goto, TypeInv, HandlerTypes, ArgsFit, Pcs
    <3> QED
      BY <1>1, <3>1, <3>2, <3>3, <3>4, <3>5
  <2> QED
    BY <2>2, <2>3 DEF TypeInv
<1>2. CASE SetExtraEnv(h)
  <2>1. /\ UNCHANGED <<info, heap, lockLost, nlmConnStr, answer, file,
                       autostart, stops, launching, matlab, world>>
        /\ overtaken' = FALSE /\ restarts' = restarts + 1
    BY <1>2 DEF SetExtraEnv
  <2>2. ManagerTypes' /\ CacheTypes' /\ FlagTypes'
    BY <2>1 DEF TypeInv, ManagerTypes, CacheTypes, FlagTypes, world
  <2>3. extraEnv' \in Credentials \cup {None}
    <3>1. CASE held[h] = None
      BY <1>2, <3>1 DEF SetExtraEnv
    <3>2. CASE held[h] # None
      <4>1. held[h] \in Pointers /\ arg[h] \in Identities
        BY <1>2, <3>2 DEF SetExtraEnv, At, TypeInv, HandlerTypes, ArgsFit
      <4>2. heap[held[h]].ent \in Identities \cup {None}
        BY <4>1 DEF TypeInv, ManagerTypes, Infos
      <4> QED
        BY <1>2, <3>2, <4>1, <4>2 DEF SetExtraEnv, Credentials
    <3> QED
      BY <3>1, <3>2
  <2>4. LaunchTypes'
    BY <2>1, <2>3 DEF TypeInv, LaunchTypes
  <2>5. HandlerTypes' /\ ArgsFit'
    BY <1>2, ReturnType DEF SetExtraEnv, TypeInv
  <2> QED
    BY <2>2, <2>4, <2>5 DEF TypeInv
<1> QED
  BY <1>1, <1>2

\* A request arrives, with what its first step needs.
LEMMA ArriveType ==
  ASSUME TypeInv, NEW h \in Handlers, Arrive(h)
  PROVE  TypeInv'
<1>1. PICK where \in Pcs, with \in Identities \cup Conns \cup {None} :
        /\ Request(h, where, with)
        /\ where = "login" => with \in Identities
        /\ where = "update" => with \in Identities \cup {None}
        /\ where = "nlm" => with \in Conns
        /\ where \notin {"connStr", "fetch", "access", "extraEnv"}
  <2>1. CASE \E i \in Identities : Request(h, "login", i)
    BY <2>1 DEF Pcs
  <2>2. CASE \E c \in Conns : Request(h, "nlm", c)
    BY <2>2 DEF Pcs
  <2>3. CASE \E w \in {"existing", "delete", "start"} : Request(h, w, None)
    BY <2>3 DEF Pcs
  <2>4. CASE \E i \in Identities \cup {None} : Request(h, "update", i)
    BY <2>4 DEF Pcs
  <2> QED
    BY <2>1, <2>2, <2>3, <2>4 DEF Arrive
<1>2. UNCHANGED <<held, manager, nlmConnStr, extraEnv, answer, file, process,
                  world>>
  BY <1>1 DEF Request
<1>3. ManagerTypes' /\ LaunchTypes' /\ CacheTypes' /\ FlagTypes'
  BY <1>2 DEF TypeInv, ManagerTypes, LaunchTypes, CacheTypes, FlagTypes, world,
              manager, process
<1>4. HandlerTypes' /\ ArgsFit'
  BY <1>1, <1>2 DEF Request, Goto, TypeInv, HandlerTypes, ArgsFit
<1> QED
  BY <1>3, <1>4 DEF TypeInv

LEMMA OneLess == \A n \in Nat : n > 0 => n - 1 \in Nat
OBVIOUS

\* The goroutines run, MATLAB ends, or nothing happens.
LEMMA OtherType ==
  ASSUME TypeInv, Background \/ MatlabEnds \/ UNCHANGED vars
  PROVE  TypeInv'
<1>1. UNCHANGED <<manager, nlmConnStr, extraEnv, answer, file, world, handlers>>
  BY DEF Background, CallStart, CallAutostart, CallStop, Launch, MatlabEnds, vars
<1>2. LaunchTypes'
  <2>1. CASE CallStart
    <3>1. restarts' \in Nat
      BY <2>1, OneLess DEF CallStart, TypeInv, LaunchTypes
    <3> QED
      BY <2>1, <3>1 DEF CallStart, TypeInv, LaunchTypes
  <2>2. CASE CallAutostart
    <3>1. launching' \in BOOLEAN
      BY <2>2 DEF CallAutostart
    <3> QED
      BY <2>2, <3>1 DEF CallAutostart, TypeInv, LaunchTypes
  <2>3. CASE CallStop
    <3>1. launching' \in BOOLEAN
      BY <2>3 DEF CallStop, TypeInv, LaunchTypes
    <3>2. stops' \in Nat
      BY <2>3, OneLess DEF CallStop, TypeInv, LaunchTypes
    <3> QED
      BY <2>3, <3>1, <3>2 DEF CallStop, TypeInv, LaunchTypes
  <2>4. CASE Launch \/ MatlabEnds
    BY <2>4 DEF Launch, MatlabEnds, TypeInv, LaunchTypes
  <2>5. CASE UNCHANGED vars
    BY <2>5 DEF TypeInv, LaunchTypes, process, vars
  <2> QED
    BY <2>1, <2>2, <2>3, <2>4, <2>5 DEF Background
<1>3. ManagerTypes' /\ CacheTypes' /\ FlagTypes'
  BY <1>1 DEF TypeInv, ManagerTypes, CacheTypes, FlagTypes, world, manager
<1>4. HandlerTypes' /\ ArgsFit'
  BY <1>1, HandlersSame DEF TypeInv
<1> QED
  BY <1>2, <1>3, <1>4 DEF TypeInv

\* TypeInv is inductive.
LEMMA NextTypeInv == TypeInv /\ [Next]_vars => TypeInv'
<1> SUFFICES ASSUME TypeInv, [Next]_vars PROVE TypeInv'
  OBVIOUS
<1>1. ASSUME NEW h \in Handlers, Arrive(h) \/ HandlerStep(h)
      PROVE  TypeInv'
  BY <1>1, ArriveType, LoginType, RequestType, StartType DEF HandlerStep
<1>2. ASSUME Background \/ MatlabEnds \/ Restart \/ UNCHANGED vars
      PROVE  TypeInv'
  BY <1>2, OtherType, RestartType
<1> QED
  BY <1>1, <1>2 DEF Next

\* The licence, the cached file, the credentials of the next launch and what
\* each request carries keep their types, for any number of handlers.
THEOREM LicensingTypeCorrect == Spec => []TypeOK
<1>1. Spec => []TypeInv
  BY InitTypeInv, NextTypeInv, PTL DEF Spec
<1> QED
  BY <1>1, TypeInvTypes, PTL

----------------------------------------------------------------------------
(* What the user was told of, the cache and what run will pass to MATLAB,  *)
(* when requests come one at a time.  The invariant says what a handler    *)
(* relies on between its steps, what a start that is under way relies on   *)
(* and how the copies of the licence agree while the last change of it has *)
(* succeeded.  With two handlers it is false: a login that replaces the    *)
(* licence between the steps of another takes over that login's            *)
(* entitlement.                                                            *)

OneHandler == \A h, k \in Handlers : h = k

\* Only a hosted licence has a token or an entitlement.
Entitled(r) == r.type # "mhlm" => r.token = None /\ r.ent = None

AllEntitled ==
  /\ info # None => Entitled(heap[info])
  /\ file # None => Entitled(file)

CredentialsOf(r) ==
  IF r.type = "mhlm" THEN [cred |-> r.token, ent |-> r.ent] ELSE None

\* The licence stays while a request works with it.
Working == {"token", "fetch", "persist", "connStr", "type", "envVars",
            "access", "extraEnv"}
LicenceHeld(h) ==
  /\ pc[h] \in Working => info # None
  /\ pc[h] \in {"token", "fetch", "persist", "access"}
       => heap[info].type = "mhlm"
  /\ pc[h] = "fetch" => arg[h] = heap[info].token
  /\ pc[h] = "connStr" => /\ heap[info].conn = arg[h]
                          /\ StartPending => overtaken
  /\ pc[h] = "access" => held[h] = info
  /\ pc[h] = "extraEnv" /\ held[h] = None => heap[info].type # "mhlm"
  /\ pc[h] = "extraEnv" /\ held[h] # None
       => /\ held[h] = info /\ heap[info].type = "mhlm"
          /\ arg[h] = heap[info].token

AllHeld == \A h \in Handlers : LicenceHeld(h)

NoneAt(where) == \A h \in Handlers : pc[h] \notin where

\* A start that no change has overtaken finds the credentials of the licence.
StartReady ==
  StartPending /\ ~overtaken /\ info # None
    => /\ extraEnv = CredentialsOf(heap[info])
       /\ heap[info].type = "mhlm" => heap[info].token # None

\* The connection string passed to MATLAB is the licence's own.
ConnAgrees ==
  /\ info # None /\ heap[info].type = "nlm"
  /\ answer = "ok" /\ NoneAt({"connStr"})
  => nlmConnStr = heap[info].conn

\* Without a licence MATLAB is stopped, or a goroutine is about to.
Stopped ==
  info = None /\ answer = "ok" /\ ~overtaken
    => ~StartPending /\ (~matlab \/ stops > 0)

\* A start of the proxy would find the licence again.
Restorable ==
  \/ heap[info] = file
  \/ /\ file.type = "mhlm" /\ file.token # None
     /\ heap[info] = WithEntitlements(file, file.token)
Cached ==
  /\ preset = None
  /\ answer = "ok" /\ NoneAt({"token", "fetch", "persist"})
  => /\ info = None => file = None
     /\ info # None => file # None /\ Restorable

SerialInv ==
  /\ AllEntitled /\ AllHeld /\ StartReady /\ ConnAgrees /\ Stopped /\ Cached

FullInv == TypeInv /\ SerialInv

\* What the steps below need of the types.
LEMMA FullFacts ==
  ASSUME FullInv
  PROVE  /\ info \in Pointers \cup {None} /\ None \notin Pointers
         /\ heap \in [Pointers -> Infos]
         /\ file \in Infos \cup {None} /\ None \notin Infos
         /\ None \notin Credentials
         /\ None \notin Identities /\ None \notin Conns
         /\ pc \in [Handlers -> Pcs]
         /\ arg \in [Handlers -> Identities \cup Conns \cup {None}]
         /\ held \in [Handlers -> Pointers \cup {None}]
<1>1. /\ None \notin Pointers /\ None \notin Identities /\ None \notin Conns
      /\ None \notin Infos /\ None \notin Credentials
  BY NoneAssumption, AbsenceAssumption DEF Pointers
<1> QED
  BY <1>1 DEF FullInv, TypeInv, ManagerTypes, CacheTypes, HandlerTypes

\* With one handler, the steps of that handler are all there is.
LEMMA OnlyHandler ==
  ASSUME OneHandler, NEW h \in Handlers
  PROVE  /\ AllHeld <=> LicenceHeld(h)
         /\ AllHeld' <=> LicenceHeld(h)'
         /\ \A where : NoneAt(where) <=> pc[h] \notin where
         /\ \A where : NoneAt(where)' <=> pc'[h] \notin where
<1>1. \A k \in Handlers : k = h
  BY DEF OneHandler
<1> QED
  BY <1>1 DEF AllHeld, NoneAt

LEMMA ReturnPc ==
  ASSUME FullInv, NEW h \in Handlers, Return(h)
  PROVE  pc'[h] = "idle"
BY FullFacts DEF Return

LEMMA GotoPc ==
  ASSUME FullInv, NEW h \in Handlers, NEW to, Goto(h, to)
  PROVE  pc'[h] = to
BY FullFacts DEF Goto

\* A request that has ended relies on nothing.
LEMMA IdleHeld ==
  ASSUME OneHandler, NEW h \in Handlers,
         pc'[h] \in {"idle", "login", "nlm", "existing", "update", "delete",
                     "start"}
  PROVE  AllHeld'
BY OnlyHandler DEF LicenceHeld, Working

\* A step that changes the licence overtakes the start under way, if any.
LEMMA Overtaking ==
  ASSUME ChangeLicence, UNCHANGED <<restarts, autostart, launching>>
  PROVE  StartReady' /\ (StartPending' => overtaken')
BY DEF ChangeLicence, StartPending, StartReady

\* A step that leaves the licence and the starts alone.
LEMMA NoOvertaking ==
  ASSUME FullInv, UNCHANGED <<info, heap, overtaken, extraEnv>>,
         StartPending' => StartPending
  PROVE  StartReady'
BY DEF FullInv, SerialInv, StartReady

LEMMA InitSerialInv == Init => SerialInv
<1> SUFFICES ASSUME Init PROVE SerialInv
  OBVIOUS
<1>1. AllEntitled /\ Stopped /\ Cached
  BY DEF Init, AllEntitled, Stopped, StartPending, Cached
<1>2. AllHeld
  BY DEF Init, AllHeld, LicenceHeld, Working
<1>3. ConnAgrees /\ StartReady
  BY DEF Init, ConnAgrees, StartReady
<1> QED
  BY <1>1, <1>2, <1>3 DEF SerialInv

\* A login, until it is persisted, answers with an error or is under way.
LEMMA LoginSerial ==
  ASSUME OneHandler, FullInv, NEW h \in Handlers, Login(h)
  PROVE  SerialInv'
<1> USE FullFacts
<1>1. arg[h] \in Identities
  BY DEF Login, Locks, At, FullInv, TypeInv, ArgsFit
<1>2. PICK i \in Identities \cup {None} : SetInfo(MHLM(i))
  BY <1>1 DEF Login
<1>3. info' \in Pointers /\ info' # None /\ heap'[info'] = MHLM(i)
  BY <1>2, InfoTypes, SetInfoType, TypeInvTypes DEF FullInv
<1>4. MHLM(i).type = "mhlm" /\ Entitled(MHLM(i))
  BY DEF MHLM, Blank, Entitled
<1>5. \/ pc'[h] = "token"
      \/ pc'[h] = "idle" /\ answer' = "error"
  BY ReturnPc, GotoPc DEF Login
<1>6. AllEntitled'
  BY <1>3, <1>4 DEF Login, FullInv, SerialInv, AllEntitled
<1>7. AllHeld'
  <2>1. CASE pc'[h] = "token"
    BY <1>3, <1>4, <2>1, OnlyHandler DEF LicenceHeld
  <2> QED
    BY <1>5, <2>1, IdleHeld
<1>8. StartReady'
  BY Overtaking DEF Login, process
<1>9. ConnAgrees' /\ Stopped'
  BY <1>3, <1>4 DEF ConnAgrees, Stopped
<1>10. Cached'
  BY <1>5, OnlyHandler DEF Cached
<1> QED
  BY <1>6, <1>7, <1>8, <1>9, <1>10 DEF SerialInv

\* The token, its entitlements and the cached file, one after another.
LEMMA ReadTokenSerial ==
  ASSUME OneHandler, FullInv, NEW h \in Handlers, ReadToken(h)
  PROVE  SerialInv'
<1> USE FullFacts
<1>1. info # None /\ heap[info].type = "mhlm"
  BY DEF ReadToken, Locks, At, FullInv, SerialInv, AllHeld, LicenceHeld, Working
<1>2. /\ Goto(h, "fetch")
      /\ arg' = [arg EXCEPT ![h] = heap[info].token]
      /\ UNCHANGED <<info, heap, answer, file, process, nlmConnStr, preset,
                     overtaken, extraEnv>>
  BY <1>1 DEF ReadToken, manager, world
<1>3. pc'[h] = "fetch" /\ arg'[h] = heap[info].token
  BY <1>2, GotoPc
<1>4. AllEntitled'
  BY <1>2 DEF FullInv, SerialInv, AllEntitled
<1>5. AllHeld'
  BY <1>1, <1>2, <1>3, OnlyHandler DEF LicenceHeld
<1>6. StartReady'
  BY <1>2, NoOvertaking DEF process, StartPending
<1>7. ConnAgrees' /\ Stopped'
  BY <1>1, <1>2 DEF ConnAgrees, Stopped
<1>8. Cached'
  BY <1>3, OnlyHandler DEF Cached
<1> QED
  BY <1>4, <1>5, <1>6, <1>7, <1>8 DEF SerialInv

LEMMA StoreSerial ==
  ASSUME OneHandler, FullInv, NEW h \in Handlers, StoreEntitlements(h)
  PROVE  SerialInv'
<1> USE FullFacts
<1>1. info # None /\ heap[info].type = "mhlm"
  BY DEF StoreEntitlements, Locks, At, FullInv, SerialInv, AllHeld,
         LicenceHeld, Working
<1>2. /\ heap' = [heap EXCEPT ![info] = WithEntitlements(heap[info], arg[h])]
      /\ Goto(h, "persist") /\ ChangeLicence
      /\ UNCHANGED <<info, answer, file, process, nlmConnStr>>
  BY <1>1 DEF StoreEntitlements
<1>3. pc'[h] = "persist"
  BY <1>2, GotoPc
<1>4. heap'[info'] = WithEntitlements(heap[info], arg[h])
  BY <1>1, <1>2
<1>5. heap'[info'].type = "mhlm"
  BY <1>1, <1>2, <1>4 DEF WithEntitlements, Infos
<1>6. AllEntitled'
  BY <1>2, <1>5 DEF FullInv, SerialInv, AllEntitled, Entitled
<1>7. AllHeld'
  BY <1>1, <1>2, <1>3, <1>5, OnlyHandler DEF LicenceHeld
<1>8. StartReady'
  BY <1>2, Overtaking DEF process
<1>9. ConnAgrees' /\ Stopped'
  BY <1>1, <1>2, <1>5 DEF ConnAgrees, Stopped
<1>10. Cached'
  BY <1>3, OnlyHandler DEF Cached
<1> QED
  BY <1>6, <1>7, <1>8, <1>9, <1>10 DEF SerialInv

LEMMA ClearTokenSerial ==
  ASSUME OneHandler, FullInv, NEW h \in Handlers, ClearMHLMTokenFields(h)
  PROVE  SerialInv'
<1> USE FullFacts
<1>1. info # None
  BY DEF ClearMHLMTokenFields, Locks, At, FullInv, SerialInv, AllHeld,
         LicenceHeld, Working
<1>2. /\ heap' = [heap EXCEPT ![info] = WithoutToken(heap[info])]
      /\ answer' = "error" /\ Return(h) /\ ChangeLicence
      /\ UNCHANGED <<info, file, process, nlmConnStr>>
  BY <1>1 DEF ClearMHLMTokenFields
<1>3. pc'[h] = "idle"
  BY <1>2, ReturnPc
<1>4. heap'[info'] = WithoutToken(heap[info])
  BY <1>1, <1>2
<1>5. AllEntitled'
  BY <1>1, <1>2, <1>4
     DEF FullInv, SerialInv, AllEntitled, Entitled, WithoutToken, Infos
<1>6. AllHeld'
  BY <1>3, IdleHeld
<1>7. StartReady'
  BY <1>2, Overtaking DEF process
<1>8. ConnAgrees' /\ Stopped' /\ Cached'
  BY <1>2 DEF ConnAgrees, Stopped, Cached
<1> QED
  BY <1>5, <1>6, <1>7, <1>8 DEF SerialInv

\* persistConfig: the cached file is the licence in use, or the answer says
\* that it is not.
LEMMA PersistSerial ==
  ASSUME NEW r \in Infos, Entitled(r), AllEntitled, Persist(r)
  PROVE  /\ file' # None => Entitled(file')
         /\ answer' = "ok" => file' = r
BY AbsenceAssumption DEF Persist, AllEntitled

LEMMA PersistLoginSerial ==
  ASSUME OneHandler, FullInv, NEW h \in Handlers, PersistLogin(h)
  PROVE  SerialInv'
<1> USE FullFacts
<1>1. info # None /\ heap[info].type = "mhlm" /\ Entitled(heap[info])
  BY DEF PersistLogin, Locks, At, FullInv, SerialInv, AllHeld, LicenceHeld,
         Working, AllEntitled
<1>2. /\ Persist(heap[info]) /\ Return(h)
      /\ UNCHANGED <<info, heap, overtaken, extraEnv, process, nlmConnStr>>
  BY <1>1 DEF PersistLogin, manager
<1>3. pc'[h] = "idle"
  BY <1>2, ReturnPc
<1>4. /\ file' # None => Entitled(file')
      /\ answer' = "ok" => file' = heap[info]
  BY <1>1, <1>2, PersistSerial DEF FullInv, SerialInv
<1>5. AllEntitled'
  BY <1>1, <1>2, <1>4 DEF AllEntitled
<1>6. AllHeld'
  BY <1>3, IdleHeld
<1>7. StartReady'
  BY <1>2, NoOvertaking DEF process, StartPending
<1>8. ConnAgrees' /\ Stopped'
  BY <1>1, <1>2 DEF ConnAgrees, Stopped
<1>9. Cached'
  BY <1>1, <1>2, <1>4 DEF Cached, Restorable
<1> QED
  BY <1>5, <1>6, <1>7, <1>8, <1>9 DEF SerialInv

\* The other licensing requests.
LEMMA SetNLMSerial ==
  ASSUME OneHandler, FullInv, NEW h \in Handlers, SetNLM(h)
  PROVE  SerialInv'
<1> USE FullFacts
<1> DEFINE r == NLM(arg[h])
<1>1. arg[h] \in Conns /\ r \in Infos
  BY InfoTypes DEF SetNLM, Locks, At, FullInv, TypeInv, ArgsFit
<1>2. r.type = "nlm" /\ r.conn = arg[h] /\ Entitled(r)
  BY <1>1 DEF NLM, Blank, Entitled
<1> HIDE DEF r
<1>3. /\ SetInfo(r) /\ Persist(r) /\ ChangeLicence
      /\ UNCHANGED <<process, nlmConnStr>>
  BY DEF SetNLM, r
<1>4. info' \in Pointers /\ info' # None /\ heap'[info'] = r
  BY <1>1, <1>3, SetInfoType, TypeInvTypes DEF FullInv
<1>5. /\ file' # None => Entitled(file')
      /\ answer' = "ok" => file' = r
  BY <1>1, <1>2, <1>3, PersistSerial DEF FullInv, SerialInv
<1>6. AllEntitled'
  BY <1>2, <1>4, <1>5 DEF AllEntitled
<1>7. \/ pc'[h] = "connStr" /\ arg' = arg
      \/ pc'[h] = "idle" /\ answer' # "ok"
  BY ReturnPc, GotoPc DEF SetNLM
<1>8. StartReady' /\ (StartPending' => overtaken')
  BY <1>3, Overtaking DEF process
<1>9. AllHeld'
  <2>1. CASE pc'[h] = "connStr" /\ arg' = arg
    BY <1>2, <1>4, <1>8, <2>1, OnlyHandler DEF LicenceHeld
  <2>2. CASE pc'[h] = "idle"
    BY <2>2, IdleHeld
  <2> QED
    BY <1>7, <2>1, <2>2
<1>10. ConnAgrees' /\ Stopped'
  BY <1>4, <1>7, OnlyHandler DEF ConnAgrees, Stopped
<1>11. Cached'
  BY <1>1, <1>4, <1>5 DEF Cached, Restorable
<1> QED
  BY <1>6, <1>8, <1>9, <1>10, <1>11 DEF SerialInv

LEMMA SetExistingSerial ==
  ASSUME OneHandler, FullInv, NEW h \in Handlers, SetExisting(h)
  PROVE  SerialInv'
<1> USE FullFacts
<1>1. Blank \in Infos /\ Blank.type = "existing_license" /\ Entitled(Blank)
  BY InfoTypes DEF Blank, Entitled
<1>2. /\ SetInfo(Blank) /\ Persist(Blank) /\ Return(h)
      /\ ChangeLicence /\ UNCHANGED process
  BY DEF SetExisting
<1>3. info' \in Pointers /\ info' # None /\ heap'[info'] = Blank
  BY <1>1, <1>2, SetInfoType, TypeInvTypes DEF FullInv
<1>4. /\ file' # None => Entitled(file')
      /\ answer' = "ok" => file' = Blank
  BY <1>1, <1>2, PersistSerial DEF FullInv, SerialInv
<1>5. AllEntitled'
  BY <1>1, <1>3, <1>4 DEF AllEntitled
<1>6. AllHeld'
  BY <1>2, ReturnPc, IdleHeld
<1>7. StartReady'
  BY <1>2, Overtaking DEF process
<1>8. ConnAgrees' /\ Stopped'
  BY <1>1, <1>3 DEF ConnAgrees, Stopped
<1>9. Cached'
  BY <1>1, <1>3, <1>4 DEF Cached, Restorable
<1> QED
  BY <1>5, <1>6, <1>7, <1>8, <1>9 DEF SerialInv

LEMMA SetConnStrSerial ==
  ASSUME OneHandler, FullInv, NEW h \in Handlers, SetConnStr(h)
  PROVE  SerialInv'
<1> USE FullFacts
<1>1. /\ info # None /\ heap[info].conn = arg[h] /\ pc[h] = "connStr"
  BY DEF SetConnStr, At, FullInv, SerialInv, AllHeld, LicenceHeld, Working
<1>2. /\ nlmConnStr' = arg[h] /\ Return(h)
      /\ UNCHANGED <<info, heap, answer, file, process, preset, overtaken,
                     extraEnv>>
  BY DEF SetConnStr, manager, world
<1>3. AllEntitled'
  BY <1>2 DEF FullInv, SerialInv, AllEntitled
<1>4. AllHeld'
  BY <1>2, ReturnPc, IdleHeld
<1>5. StartReady'
  BY <1>2, NoOvertaking DEF process, StartPending
<1>6. ConnAgrees' /\ Stopped'
  BY <1>1, <1>2 DEF ConnAgrees, Stopped
<1>7. Cached'
  BY <1>1, <1>2, OnlyHandler DEF FullInv, SerialInv, Cached, Restorable
<1> QED
  BY <1>3, <1>4, <1>5, <1>6, <1>7 DEF SerialInv

\* An update is refused unless the licence is a hosted one.
LEMMA UpdateSerial ==
  ASSUME OneHandler, FullInv, NEW h \in Handlers, UpdateEntitlement(h)
  PROVE  SerialInv'
<1> USE FullFacts
<1>1. /\ arg[h] \in Identities \cup {None}
      /\ Return(h) /\ UNCHANGED <<info, extraEnv, process, nlmConnStr>>
  BY DEF UpdateEntitlement, Locks, At, FullInv, TypeInv, ArgsFit
<1>2. AllHeld'
  BY <1>1, ReturnPc, IdleHeld
<1>3. CASE info # None /\ heap[info].type = "mhlm"
  <2>1. /\ heap' = [heap EXCEPT ![info].ent = arg[h]]
        /\ Persist(heap'[info]) /\ ChangeLicence
    BY <1>3 DEF UpdateEntitlement
  <2>2. heap'[info'] = [heap[info] EXCEPT !.ent = arg[h]]
    BY <1>1, <1>3, <2>1
  <2>3. heap'[info'] \in Infos
    BY <1>1, <1>3, <2>2, InfoTypes
  <2>4. heap'[info'].type = "mhlm" /\ Entitled(heap'[info'])
    BY <1>3, <2>2 DEF Entitled, Infos
  <2>5. /\ file' # None => Entitled(file')
        /\ answer' = "ok" => file' = heap'[info']
    BY <1>1, <2>1, <2>3, <2>4, PersistSerial DEF FullInv, SerialInv
  <2>6. AllEntitled' /\ StartReady'
    BY <1>1, <2>1, <2>4, <2>5, Overtaking DEF AllEntitled, process
  <2>7. ConnAgrees' /\ Stopped'
    BY <1>1, <1>3, <2>4 DEF ConnAgrees, Stopped
  <2>8. Cached'
    BY <1>1, <1>3, <2>3, <2>5 DEF Cached, Restorable
  <2> QED
    BY <1>2, <2>6, <2>7, <2>8 DEF SerialInv
<1>4. CASE ~(info # None /\ heap[info].type = "mhlm")
  <2>1. answer' = "error" /\ UNCHANGED <<heap, file, overtaken>>
    BY <1>4 DEF UpdateEntitlement
  <2>2. AllEntitled'
    BY <1>1, <2>1 DEF FullInv, SerialInv, AllEntitled
  <2>3. StartReady'
    BY <1>1, <2>1, NoOvertaking DEF process, StartPending
  <2>4. ConnAgrees' /\ Stopped' /\ Cached'
    BY <2>1 DEF ConnAgrees, Stopped, Cached
  <2> QED
    BY <1>2, <2>2, <2>3, <2>4 DEF SerialInv
<1> QED
  BY <1>3, <1>4

\* A sign-out that has succeeded leaves a goroutine that stops MATLAB.
LEMMA ClearLicensingSerial ==
  ASSUME OneHandler, FullInv, NEW h \in Handlers, ClearLicensing(h)
  PROVE  SerialInv'
<1> USE FullFacts
<1>1. /\ info' = None /\ file' \in {file, None}
      /\ \/ file' = None /\ stops' = stops + 1
         \/ answer' = "error"
      /\ Return(h) /\ ChangeLicence
      /\ UNCHANGED <<restarts, autostart, launching>>
  BY DEF ClearLicensing
<1>2. AllEntitled'
  BY <1>1 DEF FullInv, SerialInv, AllEntitled
<1>3. AllHeld'
  BY <1>1, ReturnPc, IdleHeld
<1>4. StartReady' /\ (StartPending' => overtaken')
  BY <1>1, Overtaking
<1>5. Stopped'
  <2>1. stops + 1 > 0
    BY DEF FullInv, TypeInv, LaunchTypes
  <2> QED
    BY <1>1, <1>4, <2>1 DEF Stopped
<1>6. ConnAgrees' /\ Cached'
  BY <1>1 DEF ConnAgrees, Cached
<1> QED
  BY <1>2, <1>3, <1>4, <1>5, <1>6 DEF SerialInv

\* A step of a start leaves the licence alone: its copies agree as before.
LEMMA SameCopies ==
  ASSUME OneHandler, FullInv, NEW h \in Handlers,
         pc[h] \notin {"connStr", "token", "fetch", "persist"},
         UNCHANGED <<info, heap, answer, file, nlmConnStr, preset>>,
         info # None \/ UNCHANGED <<process, overtaken>>
  PROVE  AllEntitled' /\ ConnAgrees' /\ Stopped' /\ Cached'
<1>1. AllEntitled'
  BY DEF FullInv, SerialInv, AllEntitled
<1>2. ConnAgrees'
  BY OnlyHandler DEF FullInv, SerialInv, ConnAgrees
<1>3. Stopped'
  BY DEF FullInv, SerialInv, Stopped, StartPending, process
<1>4. Cached'
  BY OnlyHandler DEF FullInv, SerialInv, Cached, Restorable
<1> QED
  BY <1>1, <1>2, <1>3, <1>4

\* A start, until its credentials are fetched.
LEMMA StartSerial ==
  ASSUME OneHandler, FullInv, NEW h \in Handlers,
         CheckLicence(h) \/ ReadType(h) \/ ReadInfo(h) \/ FetchAccessToken(h)
  PROVE  SerialInv'
<1> USE FullFacts
<1>1. LicenceHeld(h)
  BY DEF FullInv, SerialInv, AllHeld
<1>2. UNCHANGED <<info, heap, answer, file, nlmConnStr, preset, overtaken,
                  extraEnv, process>>
  BY DEF CheckLicence, ReadType, ReadInfo, FetchAccessToken, manager, world
<1>3. pc[h] \in {"start", "type", "envVars", "access"}
  BY DEF CheckLicence, ReadType, ReadInfo, FetchAccessToken, At, Locks
<1>4. StartReady'
  BY <1>2, NoOvertaking DEF process, StartPending
<1>5. AllEntitled' /\ ConnAgrees' /\ Stopped' /\ Cached'
  BY <1>2, <1>3, SameCopies
<1>6. LicenceHeld(h)'
  <2>1. ASSUME Return(h) PROVE LicenceHeld(h)'
    BY <2>1, ReturnPc, IdleHeld, OnlyHandler
  <2>2. CASE CheckLicence(h)
    <3>1. CASE info # None /\ Goto(h, "type") /\ UNCHANGED <<arg, held>>
      BY <1>2, <3>1, GotoPc DEF LicenceHeld
    <3> QED
      BY <2>1, <2>2, <3>1 DEF CheckLicence, IsLicensed
  <2>3. CASE ReadType(h)
    <3>1. info # None /\ held[h] = None
      BY <1>1, <2>3
         DEF ReadType, Locks, At, LicenceHeld, Working, FullInv, TypeInv, ArgsFit
    <3>2. UNCHANGED <<arg, held>>
      BY <2>3 DEF ReadType
    <3>3. CASE heap[info].type = "mhlm"
      <4>1. pc'[h] = "envVars"
        BY <2>3, <3>1, <3>3, GotoPc DEF ReadType
      <4> QED
        BY <1>2, <3>1, <3>2, <4>1 DEF LicenceHeld
    <3>4. CASE heap[info].type # "mhlm"
      <4>1. pc'[h] = "extraEnv"
        BY <2>3, <3>1, <3>4, GotoPc DEF ReadType
      <4> QED
        BY <1>2, <3>1, <3>2, <3>4, <4>1 DEF LicenceHeld
    <3> QED
      BY <3>3, <3>4
  <2>4. CASE ReadInfo(h)
    <3>1. CASE /\ info # None /\ heap[info].type = "mhlm"
               /\ held' = [held EXCEPT ![h] = info]
               /\ Goto(h, "access")
      <4>1. pc'[h] = "access" /\ held'[h] = info
        BY <3>1, GotoPc
      <4> QED
        BY <1>2, <3>1, <4>1 DEF LicenceHeld
    <3> QED
      BY <2>1, <2>4, <3>1 DEF ReadInfo
  <2>5. CASE FetchAccessToken(h)
    <3>1. info # None /\ held[h] = info /\ heap[info].type = "mhlm"
      BY <1>1, <2>5 DEF FetchAccessToken, At, LicenceHeld, Working
    <3>2. CASE /\ arg' = [arg EXCEPT ![h] = heap[held[h]].token]
               /\ Goto(h, "extraEnv")
               /\ UNCHANGED held
      <4>1. pc'[h] = "extraEnv" /\ arg'[h] = heap[info].token
        BY <3>1, <3>2, GotoPc
      <4> QED
        BY <1>2, <3>1, <3>2, <4>1 DEF LicenceHeld
    <3> QED
      BY <2>1, <2>5, <3>2 DEF FetchAccessToken
  <2> QED
    BY <2>2, <2>3, <2>4, <2>5
<1> QED
  BY <1>4, <1>5, <1>6, OnlyHandler DEF SerialInv

\* The credentials of the licence in use are set, for a start that nothing
\* has overtaken yet.
LEMMA SetExtraEnvSerial ==
  ASSUME OneHandler, FullInv, NEW h \in Handlers, SetExtraEnv(h)
  PROVE  SerialInv'
<1> USE FullFacts
<1>1. pc[h] = "extraEnv" /\ LicenceHeld(h)
  BY DEF SetExtraEnv, At, FullInv, SerialInv, AllHeld
<1>2. /\ info # None
      /\ held[h] = None => heap[info].type # "mhlm"
      /\ held[h] # None => /\ held[h] = info /\ heap[info].type = "mhlm"
                           /\ arg[h] = heap[info].token
      /\ held[h] # None => arg[h] \in Identities
  BY <1>1 DEF LicenceHeld, Working, FullInv, TypeInv, ArgsFit
<1>3. /\ UNCHANGED <<info, heap, answer, file, nlmConnStr, preset>>
      /\ Return(h)
  BY DEF SetExtraEnv, world
<1>4. StartReady'
  <2>1. extraEnv' = CredentialsOf(heap[info])
    BY <1>2 DEF SetExtraEnv, CredentialsOf
  <2> QED
    BY <1>2, <1>3, <2>1 DEF StartReady
<1>5. AllEntitled' /\ ConnAgrees' /\ Stopped' /\ Cached'
  BY <1>1, <1>2, <1>3, SameCopies
<1>6. AllHeld'
  BY <1>3, ReturnPc, IdleHeld
<1> QED
  BY <1>4, <1>5, <1>6 DEF SerialInv

LEMMA ArriveSerial ==
  ASSUME OneHandler, FullInv, NEW h \in Handlers, Arrive(h)
  PROVE  SerialInv'
<1> USE FullFacts
<1>1. /\ pc[h] = "idle"
      /\ UNCHANGED <<info, heap, answer, file, nlmConnStr, preset, overtaken,
                     extraEnv, process>>
  BY DEF Arrive, Request, manager, world
<1>2. AllEntitled' /\ ConnAgrees' /\ Stopped' /\ Cached'
  BY <1>1, SameCopies
<1>3. StartReady'
  BY <1>1, NoOvertaking DEF process, StartPending
<1>4. AllHeld'
  BY GotoPc, IdleHeld DEF Arrive, Request
<1> QED
  BY <1>2, <1>3, <1>4 DEF SerialInv

\* The goroutines run when they like: none begins a start that no request
\* has left, and the last one to stop leaves MATLAB stopped.
LEMMA OtherSerial ==
  ASSUME FullInv, Background \/ MatlabEnds \/ UNCHANGED vars
  PROVE  SerialInv'
<1>1. /\ UNCHANGED <<info, heap, nlmConnStr, extraEnv, answer, file, preset>>
      /\ UNCHANGED <<overtaken, pc, arg, held>>
  BY DEF Background, CallStart, CallAutostart, CallStop, Launch, MatlabEnds,
         vars, manager, world, handlers
<1>2. StartPending' => StartPending
  <2>1. CASE CallStart
    BY <2>1 DEF CallStart, StartPending
  <2>2. CASE CallAutostart
    BY <2>2 DEF CallAutostart, StartPending
  <2>3. CASE CallStop \/ Launch \/ MatlabEnds
    BY <2>3 DEF CallStop, Launch, MatlabEnds, StartPending
  <2>4. CASE UNCHANGED vars
    BY <2>4 DEF vars, process, StartPending
  <2> QED
    BY <2>1, <2>2, <2>3, <2>4 DEF Background
<1>3. \/ matlab' \in {matlab, FALSE} /\ stops' = stops
      \/ ~matlab'
      \/ StartPending
  BY DEF Background, CallStart, CallAutostart, CallStop, Launch, MatlabEnds,
         vars, process, StartPending
<1>4. AllEntitled' /\ AllHeld'
  BY <1>1, <1>2 DEF FullInv, SerialInv, AllEntitled, AllHeld, LicenceHeld
<1>5. StartReady'
  BY <1>1, <1>2, NoOvertaking
<1>6. Stopped'
  BY <1>1, <1>2, <1>3 DEF FullInv, SerialInv, Stopped
<1>7. ConnAgrees' /\ Cached'
  BY <1>1 DEF FullInv, SerialInv, ConnAgrees, Cached, Restorable, NoneAt
<1> QED
  BY <1>4, <1>5, <1>6, <1>7 DEF SerialInv

\* What a start of the proxy finds in the cache.
LEMMA InitializedSerial ==
  ASSUME FullInv, NEW s \in Initialized
  PROVE  /\ s.info # None => Entitled(s.info)
         /\ s.file # None => Entitled(s.file)
         /\ preset = None /\ s.info = None => s.file = None \/ s.file = file
         /\ preset = None /\ s.info # None
              => /\ s.file # None
                 /\ \/ s.info = s.file
                    \/ /\ s.file.type = "mhlm" /\ s.file.token # None
                       /\ s.info = WithEntitlements(s.file, s.file.token)
<1> USE FullFacts
<1>1. file # None => Entitled(file)
  BY DEF FullInv, SerialInv, AllEntitled
<1>2. CASE preset # None
  <2>1. Entitled(Blank) /\ Entitled(NLM(preset))
    BY DEF Blank, NLM, Entitled
  <2> QED
    BY <1>1, <1>2, <2>1 DEF Initialized
<1>3. CASE preset = None /\ (file = None \/ file.type # "mhlm")
  BY <1>1, <1>3 DEF Initialized
<1>4. CASE preset = None /\ ~(file = None \/ file.type # "mhlm")
  <2>1. s \in NoLicence \cup
          {[info |-> WithEntitlements(file, token), file |-> file] :
             token \in {file.token} \ {None}}
    BY <1>4 DEF Initialized
  <2>2. CASE s \in NoLicence
    BY <1>1, <1>4, <2>2 DEF NoLicence
  <2>3. CASE s \notin NoLicence
    <3>1. file.token # None
          /\ s = [info |-> WithEntitlements(file, file.token), file |-> file]
      BY <2>1, <2>3
    <3>2. Entitled(WithEntitlements(file, file.token))
      BY <1>4, <3>1 DEF WithEntitlements, Infos, Entitled
    <3> QED
      BY <1>1, <1>4, <3>1, <3>2
  <2> QED
    BY <2>2, <2>3
<1> QED
  BY <1>2, <1>3, <1>4

LEMMA RestartSerial ==
  ASSUME OneHandler, FullInv, Restart
  PROVE  SerialInv'
<1> USE FullFacts
<1> PICK s \in Initialized : StartWith(s)
  BY DEF Restart
<1>1. 1 \in Pointers /\ 1 # None
  BY HandlersAssumption, FS_CardinalityType DEF Pointers
<1>2. /\ file' = s.file /\ preset' = preset
      /\ answer' = IF s.info = None /\ s.file # None THEN "error" ELSE "ok"
      /\ s.info = None => info' = None
      /\ s.info # None => /\ info' # None /\ heap'[info'] = s.info
                          /\ nlmConnStr' = s.info.conn
  BY <1>1 DEF Restart, StartWith
<1>3. /\ matlab' = FALSE /\ restarts' = 0 /\ launching' = FALSE
      /\ \A h \in Handlers : pc'[h] = "idle"
  BY DEF Restart
<1>4. AllEntitled'
  BY <1>2, InitializedSerial DEF AllEntitled
<1>5. AllHeld'
  BY <1>3 DEF AllHeld, LicenceHeld, Working
<1>6. autostart' => /\ s.info # None
                    /\ extraEnv' = StartCredentials(s.info)
                    /\ LicensedBy(s.info)
  BY DEF StartWith
<1>7. StartReady'
  <2>1. CASE autostart'
    <3>1. extraEnv' = CredentialsOf(heap'[info'])
      BY <1>2, <1>6, <2>1 DEF StartCredentials, CredentialsOf
    <3>2. s.info.type = "mhlm" => s.info.token # None
      BY <1>6, <2>1, InitializedType, TypeInvTypes DEF FullInv
    <3> QED
      BY <1>2, <1>6, <2>1, <3>1, <3>2 DEF StartReady
  <2>2. CASE ~autostart'
    BY <1>3, <2>2 DEF StartReady, StartPending
  <2> QED
    BY <2>1, <2>2
<1>8. ConnAgrees'
  BY <1>2 DEF ConnAgrees
<1>9. Stopped'
  BY <1>2, <1>3, <1>6 DEF Stopped, StartPending
<1>10. Cached'
  BY <1>2, InitializedSerial DEF Cached, Restorable
<1> QED
  BY <1>4, <1>5, <1>7, <1>8, <1>9, <1>10 DEF SerialInv

LEMMA InitFullInv == Init => FullInv
BY InitTypeInv, InitSerialInv DEF FullInv

\* FullInv is inductive.
LEMMA NextFullInv ==
  ASSUME OneHandler
  PROVE  FullInv /\ [Next]_vars => FullInv'
<1> SUFFICES ASSUME FullInv, [Next]_vars PROVE FullInv'
  OBVIOUS
<1>1. TypeInv'
  BY NextTypeInv DEF FullInv
<1>2. ASSUME NEW h \in Handlers, HandlerStep(h) PROVE SerialInv'
  BY <1>2, LoginSerial, ReadTokenSerial, StoreSerial, ClearTokenSerial,
     PersistLoginSerial, SetNLMSerial, SetConnStrSerial, SetExistingSerial,
     UpdateSerial, ClearLicensingSerial, StartSerial, SetExtraEnvSerial
     DEF HandlerStep
<1>3. SerialInv'
  BY <1>2, ArriveSerial, RestartSerial, OtherSerial DEF Next
<1> QED
  BY <1>1, <1>3 DEF FullInv

\* No step gives the licence in use an entitlement that is not its own.
LEMMA StepOwns ==
  ASSUME OneHandler, FullInv, Next, info' # None, heap'[info'].ent # None
  PROVE  heap'[info'].type = "mhlm" /\ Owns(heap'[info'])
<1> USE FullFacts
<1>1. heap'[info'].type = "mhlm"
  BY NextFullInv DEF FullInv, SerialInv, AllEntitled, Entitled
<1>2. ASSUME UNCHANGED <<info, heap>> PROVE Owns(heap'[info'])
  BY <1>2 DEF Owns, Has
<1>3. ASSUME NEW h \in Handlers, HandlerStep(h) PROVE Owns(heap'[info'])
  <2>1. LicenceHeld(h)
    BY <1>3 DEF FullInv, SerialInv, AllHeld
  <2>2. CASE Login(h)
    <3>1. arg[h] \in Identities
      BY <2>2 DEF Login, Locks, At, FullInv, TypeInv, ArgsFit
    <3>2. PICK i \in Identities \cup {None} : SetInfo(MHLM(i))
      BY <2>2, <3>1 DEF Login
    <3>3. heap'[info'] = MHLM(i)
      BY <3>2, InfoTypes, SetInfoType, TypeInvTypes DEF FullInv
    <3> QED
      BY <1>3, <3>3 DEF MHLM, Blank
  <2>3. CASE StoreEntitlements(h)
    <3>1. info # None /\ arg[h] = heap[info].token
      BY <2>1, <2>3 DEF StoreEntitlements, Locks, At, LicenceHeld, Working
    <3>2. /\ heap' = [heap EXCEPT ![info] = WithEntitlements(heap[info], arg[h])]
          /\ info' = info
      BY <2>3, <3>1 DEF StoreEntitlements
    <3>3. heap'[info'] = WithEntitlements(heap[info], heap[info].token)
      BY <3>1, <3>2
    <3>4. /\ heap'[info'].token = heap[info].token
          /\ heap'[info'].ent \in {heap[info].ent, heap[info].token}
      BY <3>1, <3>3 DEF WithEntitlements, Infos
    <3> QED
      BY <3>1, <3>4, AbsenceAssumption DEF Owns, Has
  <2>4. CASE ClearMHLMTokenFields(h)
    <3>1. info # None
      BY <2>1, <2>4 DEF ClearMHLMTokenFields, Locks, At, LicenceHeld, Working
    <3>2. heap'[info'] = WithoutToken(heap[info])
      BY <2>4, <3>1 DEF ClearMHLMTokenFields
    <3> QED
      BY <1>3, <3>1, <3>2 DEF WithoutToken, Infos
  <2>5. CASE SetNLM(h)
    <3>1. arg[h] \in Conns
      BY <2>5 DEF SetNLM, Locks, At, FullInv, TypeInv, ArgsFit
    <3>2. heap'[info'] = NLM(arg[h])
      BY <2>5, <3>1, InfoTypes, SetInfoType, TypeInvTypes DEF SetNLM, FullInv
    <3> QED
      BY <1>3, <3>2 DEF NLM, Blank
  <2>6. CASE SetExisting(h)
    <3>1. heap'[info'] = Blank
      BY <2>6, InfoTypes, SetInfoType, TypeInvTypes DEF SetExisting, FullInv
    <3> QED
      BY <1>3, <3>1 DEF Blank
  <2>7. CASE UpdateEntitlement(h)
    <3>1. CASE info # None /\ heap[info].type = "mhlm"
      <4>1. info' = info /\ heap'[info'] = [heap[info] EXCEPT !.ent = arg[h]]
        BY <2>7, <3>1 DEF UpdateEntitlement
      <4>2. heap'[info'].ent = arg[h]
        BY <3>1, <4>1 DEF Infos
      <4> QED
        BY <2>7, <4>2 DEF Owns
    <3>2. CASE ~(info # None /\ heap[info].type = "mhlm")
      BY <1>2, <2>7, <3>2 DEF UpdateEntitlement
    <3> QED
      BY <3>1, <3>2
  <2>8. CASE ClearLicensing(h)
    BY <1>3, <2>8 DEF ClearLicensing
  <2>9. CASE \/ (ReadToken(h) /\ info # None) \/ PersistLogin(h) \/ SetConnStr(h)
             \/ CheckLicence(h) \/ ReadType(h) \/ ReadInfo(h)
             \/ FetchAccessToken(h) \/ SetExtraEnv(h)
    BY <1>2, <2>9 DEF ReadToken, PersistLogin, SetConnStr, CheckLicence, ReadType,
                      ReadInfo, FetchAccessToken, SetExtraEnv, manager
  <2>10. ReadToken(h) => info # None
    BY <2>1 DEF ReadToken, Locks, At, LicenceHeld, Working
  <2> QED
    BY <1>3, <2>2, <2>3, <2>4, <2>5, <2>6, <2>7, <2>8, <2>9, <2>10
       DEF HandlerStep
<1>4. CASE Restart
  <2> PICK s \in Initialized : StartWith(s)
    BY <1>4 DEF Restart
  <2>1. s.info # None /\ heap'[info'] = s.info
    <3>1. 1 \in Pointers
      BY HandlersAssumption, FS_CardinalityType DEF Pointers
    <3> QED
      BY <3>1 DEF StartWith
  <2>2. s.info.type = "mhlm"
    BY <1>1, <2>1
  <2>3. CASE preset # None
    <3>1. s.info \in {Blank, NLM(preset)}
      BY <2>3 DEF Initialized
    <3>2. Blank.type # "mhlm" /\ NLM(preset).type # "mhlm"
      BY DEF Blank, NLM
    <3> QED
      BY <2>2, <3>1, <3>2
  <2>4. CASE preset = None
    <3>1. file # None /\ file.type = "mhlm"
          /\ s.info = WithEntitlements(file, file.token)
      BY <2>1, <2>2, <2>4 DEF Initialized, NoLicence
    <3>2. file \in Infos
      BY <3>1
    <3>3. s.info.token = file.token /\ s.info.ent \in {file.ent, file.token}
      BY <3>1, <3>2 DEF WithEntitlements, Infos
    <3> QED
      BY <1>1, <1>4, <2>1, <3>1, <3>3 DEF Owns, Has
  <2> QED
    BY <2>3, <2>4
<1>5. CASE \E h \in Handlers : Arrive(h)
  <2>1. UNCHANGED <<info, heap>>
    BY <1>5 DEF Arrive, Request, manager
  <2> QED
    BY <1>1, <1>2, <2>1
<1>6. CASE Background \/ MatlabEnds
  <2>1. UNCHANGED <<info, heap>>
    BY <1>6 DEF Background, CallStart, CallAutostart, CallStop, Launch,
                MatlabEnds, manager
  <2> QED
    BY <1>1, <1>2, <2>1
<1> QED
  BY <1>1, <1>3, <1>4, <1>5, <1>6 DEF Next

\* With requests one at a time, no licence inherits the entitlement of another
\* identity, for any numbers of identities and licences, whatever entitlement
\* an update names, whatever fails and whenever the proxy is restarted.
THEOREM OwnEntitlementKept ==
  ASSUME OneHandler
  PROVE  Spec => OwnEntitlement
<1>1. FullInv /\ [Next]_vars => FullInv'
  BY NextFullInv
<1>2. FullInv /\ Next /\ info' # None /\ heap'[info'].ent # None
        => heap'[info'].type = "mhlm" /\ Owns(heap'[info'])
  BY StepOwns
<1> QED
  BY <1>1, <1>2, InitFullInv, PTL DEF Spec, OwnEntitlement

\* With requests one at a time, MATLAB neither runs nor is about to once the
\* goroutines of the removals are done and there is no licence, or after a
\* start of the proxy that has found none: no step of an earlier start that was
\* not overtaken, of a login that was refused or of the automatic start brings
\* one back.
THEOREM SignedOutStops ==
  ASSUME OneHandler
  PROVE  Spec => []SignedOutIsStopped
<1>1. FullInv => SignedOutIsStopped
  BY DEF FullInv, SerialInv, Stopped, SignedOutIsStopped
<1>2. FullInv /\ [Next]_vars => FullInv'
  BY NextFullInv
<1> QED
  BY <1>1, <1>2, InitFullInv, PTL DEF Spec

\* With requests one at a time, run passes MATLAB what its licence needs and no
\* other credentials, for any number of changes of the licence before the start
\* was prepared, of starts and removals that are still outstanding and of
\* restarts of the proxy.
THEOREM LaunchedRight ==
  ASSUME OneHandler
  PROVE  Spec => LaunchedAsLicensed
<1>1. ASSUME FullInv, Launch, info # None, answer = "ok", ~overtaken
      PROVE  /\ heap[info].type = "nlm" => Environment.conn = heap[info].conn
             /\ Environment.cred = heap[info].token
             /\ heap[info].type = "mhlm" => Environment.ent = heap[info].ent
  <2> USE FullFacts
  <2>1. /\ extraEnv = CredentialsOf(heap[info])
        /\ heap[info].type = "mhlm" => heap[info].token # None
        /\ Entitled(heap[info])
    BY <1>1 DEF Launch, StartPending, FullInv, SerialInv, StartReady, AllEntitled
  <2>2. heap[info].type = "nlm" => nlmConnStr = heap[info].conn
    <3>1. NoneAt({"connStr"})
      BY <1>1 DEF Launch, StartPending, FullInv, SerialInv, AllHeld,
                  LicenceHeld, NoneAt
    <3> QED
      BY <1>1, <3>1 DEF FullInv, SerialInv, ConnAgrees
  <2>3. extraEnv \in Credentials \cup {None}
    BY <1>1 DEF FullInv, TypeInv, LaunchTypes
  <2>4. CASE heap[info].type = "mhlm"
    <3>1. extraEnv = [cred |-> heap[info].token, ent |-> heap[info].ent]
      BY <2>1, <2>4 DEF CredentialsOf
    <3>2. extraEnv # None
      <4>1. heap[info] \in Infos
        BY <1>1
      <4> QED
        BY <1>1, <2>1, <2>4, <3>1, <4>1 DEF Infos, Credentials
    <3> QED
      BY <2>4, <3>1, <3>2 DEF Environment
  <2>5. CASE heap[info].type # "mhlm"
    BY <2>1, <2>2, <2>5 DEF Environment, CredentialsOf, NoCredentials, Entitled
  <2> QED
    BY <2>4, <2>5
<1>2. FullInv /\ [Next]_vars => FullInv'
  BY NextFullInv
<1>3. FullInv /\ Launch /\ info # None /\ answer = "ok" /\ ~overtaken
        => LET r == heap[info] IN
           /\ r.type = "nlm" => Environment.conn = r.conn
           /\ Environment.cred = r.token
           /\ r.type = "mhlm" => Environment.ent = r.ent
  BY <1>1
<1> QED
  BY <1>2, <1>3, InitFullInv, PTL DEF Spec, LaunchedAsLicensed

\* With requests one at a time, a restart of the proxy finds the licence that
\* the user was told of, or none if there was none.
THEOREM RestartKeeps ==
  ASSUME OneHandler
  PROVE  Spec => RestartRestores
<1> DEFINE Restored ==
      /\ info = None => info' = None
      /\ IsLicensed =>
           LET r == heap[info] IN
           \/ info' # None /\ heap'[info'] \in {r, WithEntitlements(r, r.token)}
           \/ info' = None /\ r.type = "mhlm"
<1>1. ASSUME FullInv, Restart, Quiet, answer = "ok", preset = None
      PROVE  Restored
  <2> USE FullFacts
  <2>1. /\ info = None => file = None
        /\ info # None => file # None /\ Restorable
    BY <1>1 DEF FullInv, SerialInv, Cached, Quiet, NoneAt
  <2> PICK s \in Initialized : StartWith(s)
    BY <1>1 DEF Restart
  <2>2. /\ s.info = None => info' = None
        /\ s.info # None => info' # None /\ heap'[info'] = s.info
    <3>1. 1 \in Pointers /\ 1 # None
      BY <1>1, HandlersAssumption, FS_CardinalityType DEF Pointers
    <3> QED
      BY <3>1 DEF StartWith
  <2>3. CASE info = None
    BY <1>1, <2>1, <2>2, <2>3 DEF Initialized, IsLicensed
  <2>4. CASE info # None /\ file.type # "mhlm"
    BY <1>1, <2>1, <2>2, <2>4 DEF Initialized, Restorable
  <2>5. CASE info # None /\ file.type = "mhlm"
    <3>1. file \in Infos /\ heap[info] \in Infos
      BY <1>1, <2>1, <2>5
    <3>2. s.info = None \/ s.info = WithEntitlements(file, file.token)
      BY <1>1, <2>1, <2>5 DEF Initialized, NoLicence
    <3>3. heap[info].type = "mhlm"
      BY <2>1, <2>5, <3>1 DEF Restorable, WithEntitlements, Infos
    <3> QED
      BY <2>1, <2>2, <2>5, <3>2, <3>3 DEF Restorable
  <2> QED
    BY <2>3, <2>4, <2>5
<1>2. FullInv /\ [Next]_vars => FullInv'
  BY NextFullInv
<1>3. FullInv /\ Restart /\ running /\ Quiet /\ answer = "ok" /\ preset = None
        => Restored
  BY <1>1
<1> QED
  BY <1>2, <1>3, InitFullInv, PTL DEF Spec, RestartRestores
=============================================================================
