------------------------ MODULE VpnConnectionManager ------------------------
(***************************************************************************)
(* VpnConnectionManager (vpn/VpnConnectionManager.kt): the coroutines that *)
(* connect, fall back, disconnect and reconnect, and the state they share. *)
(*                                                                         *)
(* All of them run on the main thread, so that a step is what runs between *)
(* two suspension points; between two steps any other coroutine, a report  *)
(* of a backend or a command of the user may run.                          *)
(*                                                                         *)
(*   - the connect job and the fallback job are tracked (ongoingConnect,   *)
(*     ongoingFallback) and cancelled by clearOngoingConnection; a job     *)
(*     cancelled at a suspension point executes nothing more, with one     *)
(*     exception: CertificateRepository.getCertificateWithoutRefresh runs  *)
(*     in the scope of the repository (withContext(mainScope...)), is not  *)
(*     cancelled with its caller and returns to it;                        *)
(*   - disconnect, reconnect and reconnectWithCurrentParams run in         *)
(*     coroutines that nothing cancels, and so does the collector of       *)
(*     vpnErrorHandler.switchConnectionFlow.                               *)
(*                                                                         *)
(* The backends are seen through their selfState: what they report is      *)
(* posted to the main thread (LiveData.postValue, one pending value per    *)
(* backend) and delivered later.  Servers, protocols, permissions and the  *)
(* answers of VpnConnectionErrorHandler are nondeterministic.  Telemetry   *)
(* (see VpnConnectionTelemetry), wake locks and logs are written and never *)
(* read here: they are left out.                                           *)
(***************************************************************************)
EXTENDS Naturals

CONSTANTS
    Profiles,           \* profiles to connect to
    WireGuard, OpenVpn, \* the two backends
    Coroutines,         \* identities of the untracked coroutines
    ReportedStates,     \* the states that backends report
    None,
    ColdCertPrefs,      \* the certificate preferences are still being opened
    MaxCommands,        \* bound on commands of the user and of other components
    MaxReports,         \* bound on reports of backends
    MaxRestarts         \* bound on restarts of the process

Backends == {WireGuard, OpenVpn}

\* ErrorTypes.  AUTH_FAILED_INTERNAL stands for every recoverable error without
\* a minimum interval, GENERIC_ERROR for every final error that is not
\* MAX_SESSIONS, LOCAL_AGENT_ERROR for those that are neither final nor recoverable.
RecoverableErrors == {"AUTH_FAILED_INTERNAL", "UNREACHABLE_INTERNAL"}
OtherErrors == {"MAX_SESSIONS", "GENERIC_ERROR", "LOCAL_AGENT_ERROR"}
VpnState == {"Disabled", "ScanningPorts", "CheckingAvailability", "WaitingForNetwork",
             "Connecting", "Reconnecting", "Connected", "Disconnecting"}
            \cup RecoverableErrors \cup OtherErrors

\* What the manager itself enters (also Disconnecting, but not past a step).
SelfStates == {"Disabled", "ScanningPorts", "CheckingAvailability", "GENERIC_ERROR", "LOCAL_AGENT_ERROR"}

\* The states that need a backend and its parameters (the assertion of the observer).
UpStates == {"Connecting", "Connected", "Reconnecting"}

ConnectionParams == [profile : Profiles, backend : Backends \cup {None}]

ASSUME NoneAssumption == None \notin Backends /\ None \notin Profiles /\ None \notin ConnectionParams
ASSUME ConfigAssumption ==
    /\ WireGuard # OpenVpn
    /\ ReportedStates \subseteq VpnState \ {"ScanningPorts", "CheckingAvailability"}
    /\ ColdCertPrefs \in BOOLEAN
    /\ MaxCommands \in Nat /\ MaxReports \in Nat /\ MaxRestarts \in Nat

VARIABLES
    \* the manager
    selfState,          \* selfStateObservable of the manager
    activeBackend,      \* activeBackendObservable.value
    connectionParams,
    lastProfile,
    \* its coroutines
    connect,            \* the job ongoingConnect points to
    orphans,            \* cancelled connect jobs that wait for the certificate
    lastRequest,        \* history: what the last executed request asked for
    fallback,           \* the job ongoingFallback points to
    coroutine,          \* the untracked coroutines
    switching,          \* the switch the collector of switchConnectionFlow performs
    \* the backends
    backendState,       \* selfStateObservable of the backends
    posted,             \* its pending postValue, or None
    lastParams,         \* lastConnectionParams of the backends
    \* what others see, and what survives the process
    status,             \* vpnStateMonitor.status
    savedState,         \* STORAGE_KEY_STATE
    recentUnreachable,  \* lastUnreachable is less than UNREACHABLE_MIN_INTERVAL ago
    savedParams,        \* ConnectionParams in Storage
    \* the environment
    commands, reports, restarts

managerVars == <<selfState, activeBackend, connectionParams, lastProfile>>
connectVars == <<connect, orphans, lastRequest>>
backendVars == <<backendState, posted, lastParams>>
seenVars == <<status, savedState, recentUnreachable>>
envVars == <<commands, reports, restarts>>
vars == <<managerVars, connectVars, fallback, coroutine, switching, backendVars, seenVars,
          savedParams, envVars>>

\* The coroutines and their suspension points.
NoConnect == [pc |-> "none", profile |-> None, target |-> None, closing |-> None]
ConnectJob == [pc : {"none", "start", "announce", "oldDown", "scan", "prepared", "swapDown",
                     "session", "up"},
               profile : Profiles \cup {None},
               target : Backends \cup {None},       \* preparedConnection.backend
               closing : Backends \cup {None}]      \* the backend it disconnects
NoFallback == [pc |-> "none", error |-> "Disabled"]
FallbackJob == [pc : {"none", "recover", "handler", "unrecover", "notAvailable"}, error : VpnState]
NoCoroutine == [kind |-> "none", pc |-> "none", backend |-> None, params |-> None]
Coroutine == [kind : {"none", "disconnect", "reconnect", "reconnectParams"},
              pc : {"none", "queued", "down", "up"},
              backend : Backends \cup {None},
              params : ConnectionParams \cup {None}]
\* VpnFallbackResult.Switch; "abort": a delinquent user or an incompatible protocol.
Switch == [kind : {"profile", "server", "abort"}, profile : Profiles, backend : Backends]

TypeOK ==
    /\ selfState \in SelfStates
    /\ activeBackend \in Backends \cup {None}
    /\ connectionParams \in ConnectionParams \cup {None}
    /\ lastProfile \in Profiles \cup {None}
    /\ connect \in ConnectJob
    /\ orphans \subseteq ConnectJob
    /\ lastRequest \in {"connect", "disconnect"}
    /\ fallback \in FallbackJob
    /\ coroutine \in [Coroutines -> Coroutine]
    /\ switching \in Switch \cup {None}
    /\ backendState \in [Backends -> VpnState]
    /\ posted \in [Backends -> VpnState \cup {None}]
    /\ lastParams \in [Backends -> ConnectionParams \cup {None}]
    /\ status \in [state : VpnState, params : ConnectionParams \cup {None}]
    /\ savedState \in VpnState
    /\ recentUnreachable \in BOOLEAN
    /\ savedParams \in ConnectionParams \cup {None}
    /\ commands \in Nat /\ reports \in Nat /\ restarts \in Nat

Init ==
    /\ selfState = "Disabled"
    /\ activeBackend = None /\ connectionParams = None /\ lastProfile = None
    /\ connect = NoConnect /\ orphans = {} /\ lastRequest = "disconnect"
    /\ fallback = NoFallback
    /\ coroutine = [c \in Coroutines |-> NoCoroutine]
    /\ switching = None
    /\ backendState = [b \in Backends |-> "Disabled"]
    /\ posted = [b \in Backends |-> None]
    /\ lastParams = [b \in Backends |-> None]
    /\ status = [state |-> "Disabled", params |-> None]
    /\ savedState = "Disabled" /\ recentUnreachable = FALSE /\ savedParams = None
    /\ commands = 0 /\ reports = 0 /\ restarts = 0

-----------------------------------------------------------------------------
(***************************************************************************)
(* The state and its observer.                                             *)
(***************************************************************************)

\* stateInternal: the state of the active backend, or of the manager without one.
StateInternal == IF activeBackend = None THEN selfState ELSE backendState[activeBackend]

SkipFallback(st) == st = "UNREACHABLE_INTERNAL" /\ recentUnreachable

\* The fallback job after the observer has seen state st, given the job fb before.
FallbackAfter(st, fb) ==
    CASE st \in RecoverableErrors /\ fb.pc = "none" /\ ~SkipFallback(st) ->
            [pc |-> "recover", error |-> st]
      [] st \in OtherErrors /\ fb.pc = "none" -> [pc |-> "unrecover", error |-> st]
      [] st = "Connected" -> NoFallback
      [] OTHER -> fb

\* Mutant: a state that a fallback deals with is not saved.
PublishWithoutSaving(st, p) ==
    /\ savedState' = IF st \in RecoverableErrors THEN savedState ELSE st
    /\ status' = IF st \in RecoverableErrors THEN status ELSE [state |-> st, params |-> p]

\* The observer of stateInternal, which runs as soon as the value is set: the
\* state is saved, and published with params p unless a fallback deals with it.
Publish(st, p) ==
    /\ savedState' = st
    /\ status' = IF st \in RecoverableErrors THEN status ELSE [state |-> st, params |-> p]

Observe(st, fb, p) ==
    /\ Publish(st, p)
    /\ fallback' = FallbackAfter(st, fb)
    /\ recentUnreachable' = (recentUnreachable \/ (st = "UNREACHABLE_INTERNAL" /\ fb.pc = "none"))

NotObserved(fb) == fallback' = fb /\ UNCHANGED seenVars

\* setSelfState of the manager, visible only without an active backend.
SetSelfState(st, p) ==
    /\ selfState' = st
    /\ IF activeBackend = None THEN Observe(st, fallback, p) ELSE NotObserved(fallback)

\* A backend enters a state: it is visible if the backend is the active one.
BackendEnters(b, st) ==
    /\ backendState' = [backendState EXCEPT ![b] = st]
    /\ IF activeBackend = b THEN Observe(st, fallback, connectionParams) ELSE NotObserved(fallback)

-----------------------------------------------------------------------------
(***************************************************************************)
(* The backends.                                                           *)
(***************************************************************************)

\* The start of VpnBackend.disconnect(): a protocol state other than Disabled is
\* left, which posts Disconnecting and, for WireGuard, Disabled right away.
StartDown(b) ==
    \E st \in {posted[b], IF b = OpenVpn THEN "Disconnecting" ELSE "Disabled"} :
        posted' = [posted EXCEPT ![b] = st]

\* The end of VpnBackend.disconnect(): OpenVPN's waitForDisconnect gives up
\* waiting after a timeout and then leaves Disconnecting itself.
TimedOut(b) == b = OpenVpn /\ backendState[b] = "Disconnecting"
AfterDown(b) == IF TimedOut(b) THEN [backendState EXCEPT ![b] = "Disabled"] ELSE backendState

\* VpnBackend.connect(p): WireGuard enters and posts Connecting.
BackendConnect(b, p) ==
    /\ lastParams' = [lastParams EXCEPT ![b] = p]
    /\ \E st \in {posted[b]} \cup (IF b = WireGuard THEN {"Connecting"} ELSE {}) :
          posted' = [posted EXCEPT ![b] = st]

\* The end of WireguardBackend.connect: the tunnel is up, or an exception sets a final error.
TunnelEnds(b) ==
    \/ NotObserved(fallback) /\ UNCHANGED backendState
    \/ BackendEnters(b, "GENERIC_ERROR")

\* A backend that was started reports a state of its protocol or local agent.
Report(b, st) ==
    /\ reports < MaxReports
    /\ reports' = reports + 1
    /\ lastParams[b] # None
    /\ posted' = [posted EXCEPT ![b] = st]
    /\ UNCHANGED <<managerVars, connectVars, fallback, coroutine, switching, backendState,
                   lastParams, seenVars, savedParams, commands, restarts>>

\* setError: an error that the local agent or the protocol raises is not posted but set.
SetError(b, st) ==
    /\ reports < MaxReports
    /\ reports' = reports + 1
    /\ lastParams[b] # None
    /\ st \in RecoverableErrors \cup OtherErrors
    /\ BackendEnters(b, st)
    /\ UNCHANGED <<managerVars, connectVars, coroutine, switching, posted, lastParams, savedParams,
                   commands, restarts>>

\* The main thread delivers the posted state.
Deliver(b) ==
    /\ posted[b] # None
    /\ posted' = [posted EXCEPT ![b] = None]
    /\ BackendEnters(b, posted[b])
    /\ UNCHANGED <<managerVars, connectVars, coroutine, switching, lastParams, savedParams, envVars>>

\* UNREACHABLE_MIN_INTERVAL has passed since the last fallback from unreachable.
MinIntervalPasses ==
    /\ recentUnreachable
    /\ recentUnreachable' = FALSE
    /\ UNCHANGED <<managerVars, connectVars, fallback, coroutine, switching, backendVars,
                   status, savedState, savedParams, envVars>>

-----------------------------------------------------------------------------
(***************************************************************************)
(* The connect job.                                                        *)
(***************************************************************************)

\* clearOngoingConnection: the job is cancelled, unless it is OpenVPN's and waits for
\* the certificate (its suspension in currentUser.sessionId() comes just before).
CancelConnect ==
    \/ orphans' = orphans
    \/ /\ ColdCertPrefs /\ connect.pc = "session" /\ connect.target = OpenVpn
       /\ orphans' = orphans \cup {connect}

\* The main thread runs launched coroutines in their order: a connect or fallback job
\* beside a disconnect that has not started was launched after it.
DisconnectStarted ==
    \A c \in Coroutines : coroutine[c].pc = "queued" => coroutine[c].kind # "disconnect"

\* Where the connect and the fallback job are suspended, and may go on.
ConnectAt(pc) == connect.pc = pc /\ DisconnectStarted
FallbackAt(pc) == fallback.pc = pc /\ DisconnectStarted

StartJob(p) == [NoConnect EXCEPT !.pc = "start", !.profile = p]
PreparedJob(p, b) == [NoConnect EXCEPT !.pc = "prepared", !.profile = p, !.target = b]

\* connectWithPermission and switchServerConnect: clearOngoingConnection, launchConnect.
LaunchConnect(job) ==
    /\ CancelConnect
    /\ connect' = job
    /\ lastRequest' = "connect"

\* Mutant: the manager stays in Disconnecting.
DisconnectOnly(p) ==
    /\ savedParams' = None
    /\ activeBackend # None
    /\ activeBackend' = None
    /\ selfState' = "Disconnecting"
    /\ Observe("Disconnecting", fallback, p)
    /\ StartDown(activeBackend)
    /\ connect' = [connect EXCEPT !.pc = "oldDown", !.closing = activeBackend]

\* disconnectForNewConnection after the reconnection was announced: the state goes
\* through Disconnecting to CheckingAvailability, without a backend if there was one.
DisconnectForNewConnection(p) ==
    /\ savedParams' = None
    /\ activeBackend' = None
    /\ \/ /\ activeBackend = None
          /\ SetSelfState("ScanningPorts", p)
          /\ connect' = [connect EXCEPT !.pc = "scan"]
          /\ UNCHANGED posted
       \/ /\ activeBackend # None
          /\ selfState' = "CheckingAvailability"
          /\ Observe("CheckingAvailability", fallback, p)
          /\ StartDown(activeBackend)
          /\ connect' = [connect EXCEPT !.pc = "oldDown", !.closing = activeBackend]

\* connectWithPermissionSync accepts the server and the protocol: smartConnect up to its
\* first suspension, in emit(onDisconnectedByReconnection) or later.
SmartConnect ==
    LET p == [profile |-> connect.profile, backend |-> None] IN
    /\ ConnectAt("start")
    /\ connectionParams' = p
    /\ \/ /\ activeBackend = None
          /\ SetSelfState("ScanningPorts", p)
          /\ connect' = [connect EXCEPT !.pc = "scan"]
          /\ UNCHANGED <<activeBackend, posted, savedParams>>
       \/ /\ activeBackend # None
          /\ DisconnectForNewConnection(p)
       \/ /\ activeBackend # None
          /\ connect' = [connect EXCEPT !.pc = "announce"]
          /\ NotObserved(fallback)
          /\ UNCHANGED <<selfState, activeBackend, posted, savedParams>>
    /\ UNCHANGED <<lastProfile, orphans, lastRequest, coroutine, switching, backendState,
                   lastParams, envVars>>

\* The subscribers of onDisconnectedByReconnection have been served.
Announced ==
    /\ ConnectAt("announce")
    /\ DisconnectForNewConnection(connectionParams)
    /\ UNCHANGED <<connectionParams, lastProfile, orphans, lastRequest, coroutine, switching,
                   backendState, lastParams, envVars>>

\* connectWithPermissionSync refuses the server or the protocol, and tells the user.
ConnectAborted ==
    /\ ConnectAt("start")
    /\ connect' = NoConnect
    /\ UNCHANGED <<managerVars, orphans, lastRequest, fallback, coroutine, switching, backendVars,
                   seenVars, savedParams, envVars>>

\* ... or needs another one: launchFallback, which refuses a second job.
ServerNotAvailable ==
    /\ ConnectAt("start")
    /\ connect' = NoConnect
    /\ fallback' = IF fallback.pc = "none" THEN [NoFallback EXCEPT !.pc = "notAvailable"] ELSE fallback
    /\ UNCHANGED <<managerVars, orphans, lastRequest, coroutine, switching, backendVars, seenVars,
                   savedParams, envVars>>

\* The previous backend is down, smartConnect goes on.  (The backend may be active
\* again: the observer sees its state and not the manager's.)
OldBackendDown ==
    LET b == connect.closing IN
    /\ ConnectAt("oldDown")
    /\ backendState' = AfterDown(b)
    /\ selfState' = "ScanningPorts"
    /\ connect' = [connect EXCEPT !.pc = "scan", !.closing = None]
    /\ CASE activeBackend = None              -> Observe("ScanningPorts", fallback, connectionParams)
         [] activeBackend = b /\ TimedOut(b)  -> Observe("Disabled", fallback, connectionParams)
         [] OTHER                             -> NotObserved(fallback)
    /\ UNCHANGED <<activeBackend, connectionParams, lastProfile, orphans, lastRequest, coroutine,
                   switching, posted, lastParams, savedParams, envVars>>

\* prepareConnection finds nothing, nor does a second one without scanning.
NothingPrepared ==
    /\ ConnectAt("scan")
    /\ SetSelfState("GENERIC_ERROR", connectionParams)
    /\ connect' = NoConnect
    /\ UNCHANGED <<activeBackend, connectionParams, lastProfile, orphans, lastRequest, coroutine,
                   switching, backendVars, savedParams, envVars>>

\* The start of disconnectBlocking with an active backend, up to its disconnect().
StartDisconnect ==
    /\ savedParams' = None
    /\ selfState' = "Disabled"
    /\ StartDown(activeBackend)

\* Mutants: the parameters are forgotten but not the backend, or without the observer.
ForgetOnlyParams(closing, fb) ==
    /\ backendState' = AfterDown(closing)
    /\ connectionParams' = None
    /\ NotObserved(fb)
    /\ UNCHANGED activeBackend
ForgetSilently(closing, fb) ==
    /\ backendState' = AfterDown(closing)
    /\ activeBackend' = None
    /\ connectionParams' = None
    /\ NotObserved(fb)

\* Its end: whatever backend is active now, it is forgotten.
ForgetBackend(closing, fb) ==
    /\ backendState' = AfterDown(closing)
    /\ activeBackend' = None
    /\ connectionParams' = None
    /\ IF activeBackend # None THEN Observe(selfState, fb, connectionParams) ELSE NotObserved(fb)

\* Mutant: the other backend is not disconnected.
PreparedWithoutDisconnect(b) ==
    /\ ConnectAt("scan") \/ (ConnectAt("prepared") /\ connect.target = b)
    /\ lastProfile' = connect.profile
    /\ connect' = [connect EXCEPT !.pc = "session", !.target = b]
    /\ UNCHANGED <<selfState, activeBackend, connectionParams, orphans, lastRequest, fallback, coroutine,
                   switching, backendVars, seenVars, savedParams, envVars>>

\* The first part of preparedConnect: another backend is disconnected first.
PreparedConnect(b) ==
    /\ ConnectAt("scan") \/ (ConnectAt("prepared") /\ connect.target = b)
    /\ lastProfile' = connect.profile
    /\ \/ /\ activeBackend \in {None, b}
          /\ connect' = [connect EXCEPT !.pc = "session", !.target = b]
          /\ UNCHANGED <<selfState, posted, savedParams>>
       \/ /\ activeBackend \notin {None, b}
          /\ StartDisconnect
          /\ connect' = [connect EXCEPT !.pc = "swapDown", !.target = b, !.closing = activeBackend]
    /\ UNCHANGED <<activeBackend, connectionParams, orphans, lastRequest, fallback, coroutine,
                   switching, backendState, lastParams, seenVars, envVars>>

OtherBackendDown ==
    /\ ConnectAt("swapDown")
    /\ ForgetBackend(connect.closing, fallback)
    /\ connect' = [connect EXCEPT !.pc = "session", !.closing = None]
    /\ UNCHANGED <<selfState, lastProfile, orphans, lastRequest, coroutine, switching, posted,
                   lastParams, savedParams, envVars>>

\* The last part of preparedConnect, with the parameters of job: activateBackend,
\* then the call of backend.connect.
ActivateBackend(job) ==
    LET b == job.target
        p == [profile |-> job.profile, backend |-> b]
    IN
    /\ connectionParams' = p
    /\ savedParams' = p
    /\ activeBackend' = b
    /\ \/ /\ activeBackend # b
          /\ backendState' = [backendState EXCEPT ![b] = "Connecting"]
          /\ selfState' = "Disabled"
          /\ Observe("Connecting", fallback, p)
       \/ /\ activeBackend = b
          /\ NotObserved(fallback)
          /\ UNCHANGED <<backendState, selfState>>
    /\ BackendConnect(b, p)

\* There is no certificate for OpenVPN: a non-final error, and no connection.
NoCertificate(job) ==
    /\ job.target = OpenVpn
    /\ SetSelfState("LOCAL_AGENT_ERROR", connectionParams)
    /\ UNCHANGED <<activeBackend, connectionParams, backendVars, savedParams>>

\* The job has its session and, for OpenVPN, the certificate.  OpenVPN is then
\* started by an intent, while WireGuard's connect goes on in the job.
BackendActivated ==
    /\ ConnectAt("session")
    /\ \/ /\ ActivateBackend(connect)
          /\ connect' = IF connect.target = WireGuard THEN [connect EXCEPT !.pc = "up"] ELSE NoConnect
       \/ NoCertificate(connect) /\ connect' = NoConnect
    /\ UNCHANGED <<lastProfile, orphans, lastRequest, coroutine, switching, envVars>>

\* A cancelled job returns from getCertificateWithoutRefresh and goes on until its
\* next suspension point: there is none.
OrphanActivated(job) ==
    /\ ActivateBackend(job) \/ NoCertificate(job)
    /\ orphans' = orphans \ {job}
    /\ UNCHANGED <<lastProfile, connect, lastRequest, coroutine, switching, envVars>>

TunnelConnected ==
    /\ ConnectAt("up")
    /\ TunnelEnds(connect.target)
    /\ connect' = NoConnect
    /\ UNCHANGED <<managerVars, orphans, lastRequest, coroutine, switching, posted, lastParams,
                   savedParams, envVars>>

-----------------------------------------------------------------------------
(***************************************************************************)
(* The untracked coroutines: disconnect, reconnect and                     *)
(* reconnectWithCurrentParams.                                             *)
(***************************************************************************)

Launch(kind) ==
    \E c \in Coroutines :
        /\ coroutine[c] = NoCoroutine
        /\ coroutine' = [coroutine EXCEPT ![c] = [NoCoroutine EXCEPT !.kind = kind, !.pc = "queued"]]

\* Mutant: disconnect does not cancel the connect job.
DisconnectWithoutCancel ==
    /\ lastRequest' = "disconnect"
    /\ fallback' = NoFallback
    /\ Launch("disconnect")
    /\ UNCHANGED <<connect, orphans>>

\* disconnect (and disconnectSync, whose caller waits): the jobs are cancelled
\* now, the backend is disconnected later.
LaunchDisconnect ==
    /\ CancelConnect
    /\ connect' = NoConnect
    /\ lastRequest' = "disconnect"
    /\ fallback' = NoFallback
    /\ Launch("disconnect")

\* What follows disconnectBlocking: disconnect ends, reconnect connects again and
\* cancels the fallback.
ConnectsAgain(c) == coroutine[c].kind = "reconnect" /\ lastProfile # None
AfterDisconnect(c) ==
    /\ coroutine' = [coroutine EXCEPT ![c] = NoCoroutine]
    /\ IF ConnectsAgain(c) THEN LaunchConnect(StartJob(lastProfile)) ELSE UNCHANGED connectVars
FallbackLeft(c) == IF ConnectsAgain(c) THEN NoFallback ELSE fallback

\* disconnectBlocking up to the suspension in activeBackend.disconnect().
DisconnectBlocking(c) ==
    /\ coroutine[c].pc = "queued"
    /\ coroutine[c].kind \in {"disconnect", "reconnect"}
    /\ \/ /\ activeBackend = None
          /\ savedParams' = None
          /\ selfState' = "Disabled"
          /\ connectionParams' = None
          /\ Observe("Disabled", FallbackLeft(c), connectionParams)
          /\ AfterDisconnect(c)
          /\ UNCHANGED posted
       \/ /\ activeBackend # None
          /\ StartDisconnect
          /\ coroutine' = [coroutine EXCEPT ![c].pc = "down", ![c].backend = activeBackend]
          /\ NotObserved(fallback)
          /\ UNCHANGED <<connectionParams, connectVars>>
    /\ UNCHANGED <<activeBackend, lastProfile, switching, backendState, lastParams, envVars>>

\* disconnectBlocking after it.
Disconnected(c) ==
    /\ coroutine[c].pc = "down"
    /\ coroutine[c].kind \in {"disconnect", "reconnect"}
    /\ ForgetBackend(coroutine[c].backend, FallbackLeft(c))
    /\ AfterDisconnect(c)
    /\ UNCHANGED <<selfState, lastProfile, switching, posted, lastParams, savedParams, envVars>>

\* reconnectWithCurrentParams: the active backend restarts, or the last profile is connected.
ReconnectWithCurrentParams(c) ==
    /\ coroutine[c].pc = "queued"
    /\ coroutine[c].kind = "reconnectParams"
    /\ fallback' = NoFallback
    /\ \/ /\ activeBackend # None
          /\ CancelConnect
          /\ connect' = NoConnect
          /\ StartDown(activeBackend)
          /\ coroutine' = [coroutine EXCEPT ![c].pc = "down", ![c].backend = activeBackend,
                                            ![c].params = lastParams[activeBackend]]
          /\ UNCHANGED lastRequest
       \/ /\ activeBackend = None
          /\ CancelConnect
          /\ connect' = IF lastProfile = None THEN NoConnect ELSE StartJob(lastProfile)
          /\ lastRequest' = IF lastProfile = None THEN lastRequest ELSE "connect"
          /\ coroutine' = [coroutine EXCEPT ![c] = NoCoroutine]
          /\ UNCHANGED posted
    /\ UNCHANGED <<managerVars, switching, backendState, lastParams, seenVars, savedParams, envVars>>

\* VpnBackend.reconnect after its disconnect(): the parameters are saved again,
\* as VpnService may have deleted them, and the backend connects with them.
BackendRestarts(c) ==
    LET b == coroutine[c].backend IN
    /\ coroutine[c].pc = "down"
    /\ coroutine[c].kind = "reconnectParams"
    /\ IF TimedOut(b) THEN BackendEnters(b, "Disabled")
                      ELSE NotObserved(fallback) /\ UNCHANGED backendState
    /\ savedParams' = lastParams[b]
    /\ BackendConnect(b, coroutine[c].params)
    /\ coroutine' = [coroutine EXCEPT ![c] =
                        IF b = WireGuard THEN [@ EXCEPT !.pc = "up"] ELSE NoCoroutine]
    /\ UNCHANGED <<managerVars, connectVars, switching, envVars>>

TunnelRestarted(c) ==
    /\ coroutine[c].pc = "up"
    /\ TunnelEnds(coroutine[c].backend)
    /\ coroutine' = [coroutine EXCEPT ![c] = NoCoroutine]
    /\ UNCHANGED <<managerVars, connectVars, switching, posted, lastParams, savedParams, envVars>>

-----------------------------------------------------------------------------
(***************************************************************************)
(* The fallback job and the switches that the error handler orders.        *)
(***************************************************************************)

\* fallbackConnect: fb is the fallback job that is left when nothing is switched.
FallbackConnect(sw, fb) ==
    /\ fallback' = IF sw.kind = "abort" THEN fb ELSE NoFallback
    /\ CASE sw.kind = "profile" -> LaunchConnect(StartJob(sw.profile))
         [] sw.kind = "server"  -> LaunchConnect(PreparedJob(sw.profile, sw.backend))
         [] sw.kind = "abort"   -> UNCHANGED connectVars

\* handleRecoverableError starts, with connectionParams!! as they are by now.
HandleRecoverableError ==
    /\ FallbackAt("recover")
    /\ connectionParams # None
    /\ status' = [state |-> "CheckingAvailability", params |-> connectionParams]
    /\ fallback' = [fallback EXCEPT !.pc = "handler"]
    /\ UNCHANGED <<managerVars, connectVars, coroutine, switching, backendVars, savedState,
                   recentUnreachable, savedParams, envVars>>

\* The error handler answers handleRecoverableError or onServerNotAvailable with a switch.
FallbackSwitches(sw) ==
    /\ FallbackAt("handler") \/ FallbackAt("notAvailable")
    /\ FallbackConnect(sw, NoFallback)
    /\ UNCHANGED <<managerVars, coroutine, switching, backendVars, seenVars, savedParams, envVars>>

\* ... or has nothing for onServerNotAvailable; there is nothing to do for most errors.
FallbackEnds ==
    /\ \/ FallbackAt("notAvailable")
       \/ FallbackAt("unrecover") /\ fallback.error # "MAX_SESSIONS"
    /\ fallback' = NoFallback
    /\ UNCHANGED <<managerVars, connectVars, coroutine, switching, backendVars, seenVars,
                   savedParams, envVars>>

\* MAX_SESSIONS, reported by the backend or found by the error handler.
FallbackDisconnects ==
    /\ \/ FallbackAt("unrecover") /\ fallback.error = "MAX_SESSIONS"
       \/ FallbackAt("handler") /\ fallback.error # "UNREACHABLE_INTERNAL"
    /\ LaunchDisconnect
    /\ UNCHANGED <<managerVars, switching, backendVars, seenVars, savedParams, envVars>>

\* The error handler gives up: the active backend enters a final error (and the
\* observer starts no fallback, as this one is still running).
FallbackFails ==
    /\ FallbackAt("handler")
    /\ fallback' = NoFallback
    /\ \/ /\ activeBackend = None
          /\ UNCHANGED <<backendState, status, savedState>>
       \/ /\ activeBackend # None
          /\ backendState' = [backendState EXCEPT ![activeBackend] = "GENERIC_ERROR"]
          /\ Publish("GENERIC_ERROR", connectionParams)
    /\ UNCHANGED <<managerVars, connectVars, coroutine, switching, posted, lastParams,
                   recentUnreachable, savedParams, envVars>>

\* VpnStatusProvider.isEstablishingOrConnected
IsEstablishing(st) ==
    st \in {"ScanningPorts", "CheckingAvailability", "WaitingForNetwork", "Connecting", "Reconnecting",
            "LOCAL_AGENT_ERROR"} \cup RecoverableErrors
IsEstablishingOrConnected ==
    \/ status.state = "Connected" /\ status.params # None
    \/ IsEstablishing(status.state)

Command ==
    /\ commands < MaxCommands
    /\ commands' = commands + 1
    /\ UNCHANGED <<reports, restarts>>

\* A switch from switchConnectionFlow: the VPN must be in use; the user is notified.
SwitchOrdered(sw) ==
    /\ Command
    /\ switching = None
    /\ IsEstablishingOrConnected
    /\ switching' = sw
    /\ UNCHANGED <<managerVars, connectVars, fallback, coroutine, backendVars, seenVars, savedParams>>

\* ... and performed after the notification.
SwitchPerformed ==
    /\ switching # None
    /\ switching' = None
    /\ FallbackConnect(switching, fallback)
    /\ UNCHANGED <<managerVars, coroutine, backendVars, seenVars, savedParams, envVars>>

-----------------------------------------------------------------------------
(***************************************************************************)
(* Commands and the life of the process.                                   *)
(***************************************************************************)

\* connect, connectInBackground: with the permission of the user.
Connect(p) ==
    /\ Command
    /\ LaunchConnect(StartJob(p))
    /\ fallback' = NoFallback
    /\ UNCHANGED <<managerVars, coroutine, switching, backendVars, seenVars, savedParams>>

Disconnect ==
    /\ Command
    /\ LaunchDisconnect
    /\ UNCHANGED <<managerVars, switching, backendVars, seenVars, savedParams>>

\* reconnect and reconnectWithCurrentParams do everything in their coroutine.
Reconnect(kind) ==
    /\ Command
    /\ Launch(kind)
    /\ UNCHANGED <<managerVars, connectVars, fallback, switching, backendVars, seenVars, savedParams>>

\* onRestoreProcess: the saved state says that the VPN was in use.
OnRestoreProcess ==
    /\ savedParams # None
    /\ savedState \notin {"Disabled", "Disconnecting"}
    /\ StateInternal = "Disabled"
    /\ Connect(savedParams.profile)

\* onVpnServiceDestroyed: the parameters of the current connection are deleted.
OnVpnServiceDestroyed ==
    /\ savedParams # None
    /\ savedParams = connectionParams
    /\ savedParams' = None
    /\ UNCHANGED <<managerVars, connectVars, fallback, coroutine, switching, backendVars, seenVars,
                   envVars>>

\* The process dies, by the system or by a NullPointerException (connectionParams!!)
\* in the fallback job: only what is stored survives.
ProcessDies ==
    /\ \/ restarts < MaxRestarts
       \/ FallbackAt("recover") /\ connectionParams = None
    /\ selfState' = "Disabled"
    /\ activeBackend' = None /\ connectionParams' = None /\ lastProfile' = None
    /\ connect' = NoConnect /\ orphans' = {} /\ lastRequest' = "disconnect"
    /\ fallback' = NoFallback
    /\ coroutine' = [c \in Coroutines |-> NoCoroutine]
    /\ switching' = None
    /\ backendState' = [b \in Backends |-> "Disabled"]
    /\ posted' = [b \in Backends |-> None]
    /\ lastParams' = [b \in Backends |-> None]
    /\ status' = [state |-> "Disabled", params |-> None]
    /\ recentUnreachable' = FALSE
    /\ restarts' = restarts + 1
    /\ UNCHANGED <<savedState, savedParams, commands, reports>>

ConnectStep ==
    \/ SmartConnect \/ Announced \/ ConnectAborted \/ ServerNotAvailable
    \/ OldBackendDown \/ NothingPrepared
    \/ \E b \in Backends : PreparedConnect(b)
    \/ OtherBackendDown \/ BackendActivated \/ TunnelConnected
FallbackStep ==
    \/ HandleRecoverableError \/ FallbackEnds \/ FallbackDisconnects \/ FallbackFails
    \/ \E sw \in Switch : FallbackSwitches(sw)
CoroutineStep(c) ==
    \/ DisconnectBlocking(c) \/ Disconnected(c)
    \/ ReconnectWithCurrentParams(c) \/ BackendRestarts(c) \/ TunnelRestarted(c)

Next ==
    \/ \E p \in Profiles : Connect(p)
    \/ Disconnect
    \/ \E kind \in {"reconnect", "reconnectParams"} : Reconnect(kind)
    \/ OnRestoreProcess
    \/ OnVpnServiceDestroyed
    \/ ProcessDies
    \/ \E sw \in Switch : SwitchOrdered(sw)
    \/ SwitchPerformed
    \/ ConnectStep
    \/ FallbackStep
    \/ \E job \in orphans : OrphanActivated(job)
    \/ \E c \in Coroutines : CoroutineStep(c)
    \/ \E b \in Backends : Deliver(b) \/ \E st \in ReportedStates : Report(b, st) \/ SetError(b, st)
    \/ MinIntervalPasses

Spec == Init /\ [][Next]_vars

-----------------------------------------------------------------------------
(***************************************************************************)
(* Properties                                                              *)
(***************************************************************************)

\* The assertion of the observer (VpnConnectionManager.kt:170-177): a state that
\* says that the VPN is up or coming up needs an active backend and parameters.
UpHasBackend ==
    StateInternal \in UpStates => activeBackend # None /\ connectionParams # None

\* What the rest of the application sees: a status that says that the VPN is up or
\* coming up has parameters, and a backend is active.  No coroutine may forget
\* the backend without publishing it.
StatusHasBackend ==
    status.state \in UpStates => activeBackend # None /\ status.params # None

\* The state that onRestoreProcess reads after the death of the process is the one
\* the process was in: every change of it is saved in the same step.
StateIsSaved ==
    [][StateInternal' # StateInternal /\ restarts' = restarts => savedState' = StateInternal']_vars

Quiescent ==
    /\ connect = NoConnect /\ fallback = NoFallback /\ orphans = {} /\ switching = None
    /\ \A c \in Coroutines : coroutine[c] = NoCoroutine

\* disconnect wins: when it was the last request to run and everything has come to
\* rest, no backend is active and the VPN is shown as disabled.
DisconnectSettles ==
    Quiescent /\ lastRequest = "disconnect" => activeBackend = None /\ status.state = "Disabled"

\* activateBackend's assertion (VpnConnectionManager.kt:209): "activeBackend ==
\* null || activeBackend == newBackend".
NoBackendReplaced ==
    [][activeBackend # None => activeBackend' \in {None, activeBackend}]_vars

\* launchFallback (VpnConnectionManager.kt:607) fails in debug builds: "Trying to start
\* fallback job while previous is still running".  A connect job that has not found its
\* server yet may have to call it, so no fallback job may run beside it.  The
\* code does not keep this (README, section 6).
FallbackNeverRefused == connect.pc = "start" => fallback.pc = "none"

\* The observer (VpnConnectionManager.kt:147) asserts that there are parameters to
\* recover with: "handleRecoverableError(errorType, connectionParams!!)".  The code
\* does not keep this (README, section 6).
RecoverHasParams == fallback.pc = "recover" => connectionParams # None

\* VpnConnectionTests.kt:613: "whenErrorHandlerEmitsServerSwitchWhileDisconnectedThen
\* DontConnectToNewServer": a switch connects only when the VPN is not disabled.
\* The code does not keep this (README, section 6).
NoSwitchWhileDisconnected ==
    [][SwitchPerformed /\ switching.kind # "abort" => status.state # "Disabled"]_vars
=============================================================================
