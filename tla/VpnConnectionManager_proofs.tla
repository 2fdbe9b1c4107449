--------------------- MODULE VpnConnectionManager_proofs ---------------------
(***************************************************************************)
(* Proofs about VpnConnectionManager, for any profiles, number of untracked *)
(* coroutines, reported states and bounds: type correctness, the assertion *)
(* of the observer, what the application is shown, what is saved, that no  *)
(* backend replaces another one, and that a disconnect wins.               *)
(***************************************************************************)
EXTENDS VpnConnectionManager, TLAPS

\* A connect job that has a profile, and from preparedConnect on a backend.
GoodJob(job) ==
    /\ job \in ConnectJob
    /\ job.pc # "none" => job.profile \in Profiles
    /\ job.pc \in {"prepared", "swapDown", "session", "up"} => job.target \in Backends

\* The parts of the inductive invariant.
ManagerInv ==
    /\ selfState \in SelfStates
    /\ activeBackend \in Backends \cup {None}
    /\ connectionParams \in ConnectionParams \cup {None}
    /\ lastProfile \in Profiles \cup {None}
    /\ activeBackend # None => connectionParams # None
JobInv ==
    /\ GoodJob(connect)
    /\ orphans \subseteq ConnectJob
    /\ \A job \in orphans : job.profile \in Profiles /\ job.target \in Backends
    /\ lastRequest \in {"connect", "disconnect"}
CoroutineInv ==
    /\ coroutine \in [Coroutines -> Coroutine]
    /\ \A c \in Coroutines : coroutine[c].pc \in {"down", "up"} => coroutine[c].backend \in Backends
    /\ switching \in Switch \cup {None}
BackendInv ==
    /\ backendState \in [Backends -> VpnState]
    /\ posted \in [Backends -> VpnState \cup {None}]
    /\ lastParams \in [Backends -> ConnectionParams \cup {None}]
SeenTyped ==
    /\ fallback \in FallbackJob
    /\ status \in [state : VpnState, params : ConnectionParams \cup {None}]
    /\ savedState \in VpnState
    /\ recentUnreachable \in BOOLEAN
EnvInv ==
    /\ savedParams \in ConnectionParams \cup {None}
    /\ commands \in Nat /\ reports \in Nat /\ restarts \in Nat

\* The inductive invariant: StatusHasBackend is preserved because an active backend
\* has parameters and because the manager's own state never says that the VPN is up.
IInv == ManagerInv /\ JobInv /\ CoroutineInv /\ BackendInv /\ SeenTyped /\ EnvInv /\ StatusHasBackend

-----------------------------------------------------------------------------
(***************************************************************************)
(* Lemmas about the operators.                                             *)
(***************************************************************************)

\* The states that the manager itself enters are VPN states, none of them says that
\* the VPN is up, and none is one that a fallback deals with.
LEMMA SelfStatesLemma ==
  /\ SelfStates \subseteq VpnState
  /\ SelfStates \cap UpStates = {}
  /\ SelfStates \cap RecoverableErrors = {}
  /\ UpStates \cap RecoverableErrors = {}
  BY DEF SelfStates, VpnState, UpStates, RecoverableErrors, OtherErrors

\* The empty jobs and the new jobs are well typed.
LEMMA JobsTyped ==
  /\ GoodJob(NoConnect) /\ NoConnect.pc = "none"
  /\ NoFallback \in FallbackJob /\ NoFallback.pc = "none"
  /\ NoCoroutine \in Coroutine /\ NoCoroutine.pc = "none"
  /\ \A p \in Profiles : GoodJob(StartJob(p)) /\ StartJob(p).pc = "start"
  /\ \A p \in Profiles, b \in Backends : GoodJob(PreparedJob(p, b)) /\ PreparedJob(p, b).pc = "prepared"
<1>1. GoodJob(NoConnect) /\ NoConnect.pc = "none"
  BY DEF GoodJob, NoConnect, ConnectJob
<1>2. NoFallback \in FallbackJob /\ NoFallback.pc = "none"
  BY DEF NoFallback, FallbackJob, VpnState
<1>3. NoCoroutine \in Coroutine /\ NoCoroutine.pc = "none"
  BY DEF NoCoroutine, Coroutine
<1>4. \A p \in Profiles : GoodJob(StartJob(p)) /\ StartJob(p).pc = "start"
  BY DEF GoodJob, NoConnect, ConnectJob, StartJob
<1>5. \A p \in Profiles, b \in Backends : GoodJob(PreparedJob(p, b)) /\ PreparedJob(p, b).pc = "prepared"
  BY DEF GoodJob, NoConnect, ConnectJob, PreparedJob
<1> QED
  BY <1>1, <1>2, <1>3, <1>4, <1>5

\* The observer of stateInternal saves the state and publishes it with its parameters.
LEMMA Observing ==
  ASSUME NEW STATE st, st \in VpnState, NEW STATE fb, fb \in FallbackJob,
         NEW STATE p, p \in ConnectionParams \cup {None}, SeenTyped, Observe(st, fb, p)
  PROVE  /\ SeenTyped'
         /\ savedState' = st
         /\ status' = IF st \in RecoverableErrors THEN status ELSE [state |-> st, params |-> p]
<1>1. savedState' = st /\ status' = IF st \in RecoverableErrors THEN status ELSE [state |-> st, params |-> p]
  BY DEF Observe, Publish
<1>2. status' \in [state : VpnState, params : ConnectionParams \cup {None}]
  BY <1>1 DEF SeenTyped
<1>3. fallback' \in FallbackJob
  <2>1. fallback' = FallbackAfter(st, fb)
    BY DEF Observe
  <2>2. FallbackAfter(st, fb) \in FallbackJob
    <3>1. [pc |-> "recover", error |-> st] \in FallbackJob /\ [pc |-> "unrecover", error |-> st] \in FallbackJob
      BY DEF FallbackJob
    <3>2. FallbackAfter(st, fb) \in {[pc |-> "recover", error |-> st], [pc |-> "unrecover", error |-> st],
                                     NoFallback, fb}
      BY DEF FallbackAfter
    <3> QED
      BY <3>1, <3>2, JobsTyped
  <2> QED
    BY <2>1, <2>2
<1>4. recentUnreachable' \in BOOLEAN
  BY DEF Observe
<1> QED
  BY <1>1, <1>2, <1>3, <1>4 DEF SeenTyped

\* What a step does to the saved state.
Saved == StateInternal' # StateInternal => savedState' = StateInternal'

\* Parameters are never None.
LEMMA ParamsLemma ==
  ASSUME NEW p \in Profiles, NEW b \in Backends \cup {None}
  PROVE  /\ [profile |-> p, backend |-> b] \in ConnectionParams
         /\ [profile |-> p, backend |-> b] # None
<1>1. [profile |-> p, backend |-> b] \in ConnectionParams
  BY DEF ConnectionParams
<1> QED
  BY <1>1, NoneAssumption

\* The state is not seen to change.
LEMMA NotObserving ==
  ASSUME NEW STATE fb, fb \in FallbackJob, SeenTyped, NotObserved(fb)
  PROVE  SeenTyped' /\ status' = status /\ savedState' = savedState
  BY DEF NotObserved, SeenTyped, seenVars

\* The manager enters a state of its own while the active backend does not change.
LEMMA SettingSelfState ==
  ASSUME NEW STATE st, st \in SelfStates, NEW STATE p, p \in ConnectionParams \cup {None}, IInv,
         SetSelfState(st, p), UNCHANGED <<activeBackend, backendState>>
  PROVE  SeenTyped' /\ StatusHasBackend' /\ Saved /\ selfState' = st
<1>1. st \in VpnState /\ st \notin UpStates /\ st \notin RecoverableErrors
  BY SelfStatesLemma
<1>2. SeenTyped /\ fallback \in FallbackJob /\ StatusHasBackend
  BY DEF IInv, SeenTyped
<1>3. CASE activeBackend = None
  <2>1. Observe(st, fallback, p) /\ selfState' = st
    BY <1>3 DEF SetSelfState
  <2>2. SeenTyped' /\ savedState' = st /\ status' = [state |-> st, params |-> p]
    BY <1>1, <1>2, <2>1, Observing
  <2> QED
    BY <1>1, <1>3, <2>1, <2>2 DEF StatusHasBackend, Saved, StateInternal
<1>4. CASE activeBackend # None
  <2>1. NotObserved(fallback) /\ selfState' = st
    BY <1>4 DEF SetSelfState
  <2>2. SeenTyped' /\ status' = status
    BY <1>2, <2>1, NotObserving
  <2> QED
    BY <1>2, <1>4, <2>1, <2>2 DEF StatusHasBackend, Saved, StateInternal
<1> QED
  BY <1>3, <1>4

\* A backend enters a state while the manager does not change.
LEMMA Entering ==
  ASSUME NEW STATE b, b \in Backends, NEW STATE st, st \in VpnState, IInv,
         BackendEnters(b, st), UNCHANGED managerVars
  PROVE  SeenTyped' /\ StatusHasBackend' /\ Saved /\ backendState' \in [Backends -> VpnState]
<1>1. SeenTyped /\ fallback \in FallbackJob /\ StatusHasBackend /\ ManagerInv
  BY DEF IInv, SeenTyped
<1>2. /\ backendState' = [backendState EXCEPT ![b] = st]
      /\ backendState \in [Backends -> VpnState]
      /\ UNCHANGED <<selfState, activeBackend, connectionParams>>
  BY DEF BackendEnters, IInv, BackendInv, managerVars
<1>3. CASE activeBackend = b
  <2>1. Observe(st, fallback, connectionParams)
    BY <1>3 DEF BackendEnters
  <2>2. connectionParams \in ConnectionParams \cup {None} /\ b # None /\ connectionParams # None
    BY <1>1, <1>3, NoneAssumption DEF ManagerInv
  <2>3. /\ SeenTyped' /\ savedState' = st
        /\ status' = IF st \in RecoverableErrors THEN status ELSE [state |-> st, params |-> connectionParams]
    BY <1>1, <2>1, <2>2, Observing
  <2> QED
    BY <1>1, <1>2, <1>3, <2>2, <2>3 DEF StatusHasBackend, Saved, StateInternal
<1>4. CASE activeBackend # b
  <2>1. SeenTyped' /\ status' = status
    BY <1>1, <1>4, NotObserving DEF BackendEnters
  <2>2. Saved
    BY <1>1, <1>2, <1>4 DEF Saved, StateInternal, ManagerInv
  <2> QED
    BY <1>1, <1>2, <2>1, <2>2 DEF StatusHasBackend
<1> QED
  BY <1>3, <1>4

\* Neither the manager nor a backend changes its state.
LEMMA NothingSeen ==
  ASSUME NEW STATE fb, fb \in FallbackJob, IInv, NotObserved(fb),
         UNCHANGED <<activeBackend, backendState>>,
         activeBackend = None => selfState' = selfState
  PROVE  SeenTyped' /\ StatusHasBackend' /\ Saved
<1>1. SeenTyped' /\ status' = status
  BY NotObserving DEF IInv
<1> QED
  BY <1>1 DEF IInv, StatusHasBackend, Saved, StateInternal

\* The end of disconnectBlocking: no backend is active, and this is published.
LEMMA Forgetting ==
  ASSUME NEW STATE b, NEW STATE fb, fb \in FallbackJob, IInv, ForgetBackend(b, fb), UNCHANGED selfState
  PROVE  /\ SeenTyped' /\ StatusHasBackend' /\ Saved
         /\ backendState' \in [Backends -> VpnState]
         /\ activeBackend' = None /\ connectionParams' = None
<1>1. SeenTyped /\ StatusHasBackend /\ ManagerInv /\ backendState \in [Backends -> VpnState]
  BY DEF IInv, BackendInv
<1>2. activeBackend' = None /\ connectionParams' = None /\ backendState' = AfterDown(b)
  BY DEF ForgetBackend
<1>3. backendState' \in [Backends -> VpnState]
  BY <1>1, <1>2 DEF AfterDown, TimedOut, Backends, VpnState
<1>4. selfState \in VpnState /\ selfState \notin UpStates /\ selfState \notin RecoverableErrors
  BY <1>1, SelfStatesLemma DEF ManagerInv
<1>5. CASE activeBackend # None
  <2>1. Observe(selfState, fb, connectionParams)
    BY <1>5 DEF ForgetBackend
  <2>2. connectionParams \in ConnectionParams \cup {None}
    BY <1>1 DEF ManagerInv
  <2>3. SeenTyped' /\ savedState' = selfState /\ status' = [state |-> selfState, params |-> connectionParams]
    BY <1>1, <1>4, <2>1, <2>2, Observing
  <2> QED
    BY <1>2, <1>3, <1>4, <2>3 DEF StatusHasBackend, Saved, StateInternal
<1>6. CASE activeBackend = None
  <2>1. SeenTyped' /\ status' = status
    BY <1>1, <1>6, NotObserving DEF ForgetBackend
  <2> QED
    BY <1>1, <1>2, <1>3, <1>6, <2>1 DEF StatusHasBackend, Saved, StateInternal
<1> QED
  BY <1>5, <1>6

\* What is posted by a backend that is disconnected or connected.
LEMMA Posting ==
  ASSUME NEW STATE b, b \in Backends, BackendInv
  PROVE  /\ StartDown(b) => posted' \in [Backends -> VpnState \cup {None}]
         /\ \A p \in ConnectionParams \cup {None} : BackendConnect(b, p) =>
               /\ posted' \in [Backends -> VpnState \cup {None}]
               /\ lastParams' \in [Backends -> ConnectionParams \cup {None}]
<1>1. "Disconnecting" \in VpnState /\ "Disabled" \in VpnState /\ "Connecting" \in VpnState
  BY DEF VpnState
<1> QED
  BY <1>1 DEF BackendInv, StartDown, BackendConnect

\* A cancelled connect job disappears or joins the orphans.
LEMMA CancelKeepsJobs ==
  ASSUME JobInv, CancelConnect, GoodJob(connect'), lastRequest' \in {"connect", "disconnect"}
  PROVE  JobInv'
<1>1. connect.pc = "session" => connect \in ConnectJob /\ connect.profile \in Profiles /\ connect.target \in Backends
  BY DEF JobInv, GoodJob
<1>2. orphans' = orphans \/ (connect.pc = "session" /\ orphans' = orphans \cup {connect})
  BY DEF CancelConnect
<1> QED
  BY <1>1, <1>2 DEF JobInv

\* launchConnect
LEMMA LaunchKeepsJobs ==
  ASSUME JobInv, NEW STATE job, GoodJob(job), LaunchConnect(job)
  PROVE  JobInv'
<1>1. CancelConnect /\ connect' = job /\ lastRequest' = "connect"
  BY DEF LaunchConnect
<1> QED
  BY <1>1, CancelKeepsJobs

\* A coroutine is launched.
LEMMA LaunchKeepsCoroutines ==
  ASSUME CoroutineInv, NEW kind \in {"disconnect", "reconnect", "reconnectParams"}, Launch(kind),
         UNCHANGED switching
  PROVE  CoroutineInv'
<1>1. PICK c \in Coroutines :
         coroutine' = [coroutine EXCEPT ![c] = [NoCoroutine EXCEPT !.kind = kind, !.pc = "queued"]]
  BY DEF Launch
<1>2. [NoCoroutine EXCEPT !.kind = kind, !.pc = "queued"] \in Coroutine
      /\ [NoCoroutine EXCEPT !.kind = kind, !.pc = "queued"].pc = "queued"
  BY DEF NoCoroutine, Coroutine
<1> QED
  BY <1>1, <1>2 DEF CoroutineInv

\* A coroutine is over.
LEMMA CoroutineEnds ==
  ASSUME CoroutineInv, NEW c \in Coroutines, coroutine' = [coroutine EXCEPT ![c] = NoCoroutine],
         UNCHANGED switching
  PROVE  CoroutineInv'
  BY JobsTyped DEF CoroutineInv

\* Groups of variables that a step leaves alone.
LEMMA Kept ==
  /\ ManagerInv /\ UNCHANGED managerVars => ManagerInv'
  /\ JobInv /\ UNCHANGED connectVars => JobInv'
  /\ CoroutineInv /\ UNCHANGED <<coroutine, switching>> => CoroutineInv'
  /\ BackendInv /\ UNCHANGED backendVars => BackendInv'
  /\ EnvInv /\ UNCHANGED <<savedParams, envVars>> => EnvInv'
<1>1. ManagerInv /\ UNCHANGED managerVars => ManagerInv'
  BY DEF managerVars, ManagerInv
<1>2. JobInv /\ UNCHANGED connectVars => JobInv'
  BY DEF connectVars, JobInv
<1>3. CoroutineInv /\ UNCHANGED <<coroutine, switching>> => CoroutineInv'
  BY DEF CoroutineInv
<1>4. BackendInv /\ UNCHANGED backendVars => BackendInv'
  BY DEF backendVars, BackendInv
<1>5. EnvInv /\ UNCHANGED <<savedParams, envVars>> => EnvInv'
  BY DEF envVars, EnvInv
<1> QED
  BY <1>1, <1>2, <1>3, <1>4, <1>5

-----------------------------------------------------------------------------
(***************************************************************************)
(* The steps of the backends.                                              *)
(***************************************************************************)

\* States of the backends are posted, set and delivered.
LEMMA BackendSteps ==
  ASSUME IInv,
         \/ \E b \in Backends : Deliver(b) \/ \E st \in ReportedStates : Report(b, st) \/ SetError(b, st)
         \/ MinIntervalPasses
  PROVE  IInv' /\ Saved
<1> USE DEF IInv
<1>1. ASSUME NEW b \in Backends, NEW st \in ReportedStates, Report(b, st) PROVE IInv' /\ Saved
  <2>1. st \in VpnState
    BY ConfigAssumption
  <2>2. BackendInv' /\ EnvInv'
    BY <1>1, <2>1 DEF Report, BackendInv, EnvInv
  <2>3. ManagerInv' /\ JobInv' /\ CoroutineInv'
    BY <1>1, Kept DEF Report
  <2>4. SeenTyped' /\ StatusHasBackend' /\ Saved
    BY <1>1 DEF Report, managerVars, seenVars, SeenTyped, StatusHasBackend, Saved, StateInternal
  <2> QED
    BY <2>2, <2>3, <2>4
<1>2. ASSUME NEW b \in Backends, NEW st \in ReportedStates, SetError(b, st) PROVE IInv' /\ Saved
  <2>1. st \in VpnState
    BY ConfigAssumption
  <2>2. SeenTyped' /\ StatusHasBackend' /\ Saved /\ backendState' \in [Backends -> VpnState]
    BY <1>2, <2>1, Entering DEF SetError
  <2>3. BackendInv' /\ EnvInv'
    BY <1>2, <2>2 DEF SetError, BackendInv, EnvInv
  <2>4. ManagerInv' /\ JobInv' /\ CoroutineInv'
    BY <1>2, Kept DEF SetError
  <2> QED
    BY <2>2, <2>3, <2>4
<1>3. ASSUME NEW b \in Backends, Deliver(b) PROVE IInv' /\ Saved
  <2>1. posted[b] \in VpnState
    BY <1>3 DEF Deliver, BackendInv
  <2>2. SeenTyped' /\ StatusHasBackend' /\ Saved /\ backendState' \in [Backends -> VpnState]
    BY <1>3, <2>1, Entering DEF Deliver
  <2>3. BackendInv' /\ EnvInv'
    BY <1>3, <2>2 DEF Deliver, BackendInv, EnvInv, envVars
  <2>4. ManagerInv' /\ JobInv' /\ CoroutineInv'
    BY <1>3, Kept DEF Deliver
  <2> QED
    BY <2>2, <2>3, <2>4
<1>4. CASE MinIntervalPasses
  <2>1. ManagerInv' /\ JobInv' /\ CoroutineInv' /\ BackendInv' /\ EnvInv'
    BY <1>4, Kept DEF MinIntervalPasses
  <2>2. SeenTyped' /\ StatusHasBackend' /\ Saved
    BY <1>4 DEF MinIntervalPasses, managerVars, backendVars, SeenTyped, StatusHasBackend, Saved, StateInternal
  <2> QED
    BY <2>1, <2>2
<1> QED
  BY <1>1, <1>2, <1>3, <1>4

\* The tunnel of WireGuard is up or has failed.
LEMMA TunnelEnding ==
  ASSUME IInv, NEW STATE b, b \in Backends, TunnelEnds(b), UNCHANGED <<managerVars, posted, lastParams>>
  PROVE  SeenTyped' /\ StatusHasBackend' /\ Saved /\ BackendInv'
<1>1. CASE NotObserved(fallback) /\ UNCHANGED backendState
  <2>1. fallback \in FallbackJob /\ UNCHANGED <<activeBackend, selfState>>
    BY DEF IInv, SeenTyped, managerVars
  <2>2. SeenTyped' /\ StatusHasBackend' /\ Saved
    BY <1>1, <2>1, NothingSeen
  <2> QED
    BY <1>1, <2>2 DEF IInv, BackendInv
<1>2. CASE BackendEnters(b, "GENERIC_ERROR")
  <2>1. "GENERIC_ERROR" \in VpnState
    BY DEF VpnState, OtherErrors
  <2>2. SeenTyped' /\ StatusHasBackend' /\ Saved /\ backendState' \in [Backends -> VpnState]
    BY <1>2, <2>1, Entering
  <2> QED
    BY <2>2 DEF IInv, BackendInv
<1> QED
  BY <1>1, <1>2 DEF TunnelEnds

-----------------------------------------------------------------------------
(***************************************************************************)
(* The steps of the connect job.                                           *)
(***************************************************************************)

\* disconnectForNewConnection leaves the manager without a backend.
LEMMA DisconnectingForNew ==
  ASSUME IInv, NEW STATE p, p \in ConnectionParams \cup {None},
         connectionParams' \in ConnectionParams \cup {None},
         connect.pc # "none", DisconnectForNewConnection(p),
         UNCHANGED <<lastProfile, orphans, lastRequest, backendState, lastParams, envVars>>
  PROVE  ManagerInv' /\ JobInv' /\ BackendInv' /\ SeenTyped' /\ StatusHasBackend' /\ EnvInv' /\ Saved
<1> USE DEF IInv
<1>1. activeBackend' = None /\ savedParams' = None
  BY DEF DisconnectForNewConnection
<1>2. EnvInv'
  BY <1>1 DEF EnvInv, envVars
<1>3. CASE activeBackend = None
  <2>1. /\ SetSelfState("ScanningPorts", p) /\ UNCHANGED <<posted, activeBackend>>
        /\ connect' = [connect EXCEPT !.pc = "scan"]
    BY <1>1, <1>3 DEF DisconnectForNewConnection
  <2>2. "ScanningPorts" \in SelfStates
    BY DEF SelfStates
  <2>3. SeenTyped' /\ StatusHasBackend' /\ Saved /\ selfState' = "ScanningPorts"
    BY <2>1, <2>2, SettingSelfState
  <2>4. ManagerInv' /\ BackendInv'
    BY <1>1, <2>1, <2>2, <2>3 DEF ManagerInv, BackendInv
  <2>5. JobInv'
    BY <2>1 DEF JobInv, GoodJob, ConnectJob
  <2> QED
    BY <1>2, <2>3, <2>4, <2>5
<1>4. CASE activeBackend # None
  <2>1. /\ selfState' = "CheckingAvailability"
        /\ Observe("CheckingAvailability", fallback, p)
        /\ StartDown(activeBackend)
        /\ connect' = [connect EXCEPT !.pc = "oldDown", !.closing = activeBackend]
    BY <1>4 DEF DisconnectForNewConnection
  <2>2. activeBackend \in Backends /\ "CheckingAvailability" \in SelfStates
    BY <1>4 DEF ManagerInv, SelfStates
  <2>3. "CheckingAvailability" \in VpnState /\ "CheckingAvailability" \notin UpStates \cup RecoverableErrors
    BY <2>2, SelfStatesLemma
  <2>4. /\ SeenTyped' /\ savedState' = "CheckingAvailability"
        /\ status' = [state |-> "CheckingAvailability", params |-> p]
    BY <2>1, <2>3, Observing DEF SeenTyped
  <2>5. StatusHasBackend' /\ Saved
    BY <1>1, <2>1, <2>3, <2>4 DEF StatusHasBackend, Saved, StateInternal
  <2>6. ManagerInv'
    BY <1>1, <2>1, <2>2 DEF ManagerInv
  <2>7. BackendInv'
    BY <2>1, <2>2, Posting DEF BackendInv
  <2>8. JobInv'
    BY <2>1, <2>2 DEF JobInv, GoodJob, ConnectJob
  <2> QED
    BY <1>2, <2>4, <2>5, <2>6, <2>7, <2>8
<1> QED
  BY <1>3, <1>4

\* The connect job until the old backend is down.
LEMMA FirstConnectSteps ==
  ASSUME IInv, SmartConnect \/ Announced \/ ConnectAborted \/ ServerNotAvailable
  PROVE  IInv' /\ Saved
<1> USE DEF IInv
<1>1. CASE SmartConnect
  <2> DEFINE p == [profile |-> connect.profile, backend |-> None]
  <2>1. connect.pc = "start" /\ connect.profile \in Profiles
    BY <1>1 DEF SmartConnect, ConnectAt, JobInv, GoodJob
  <2>2. p \in ConnectionParams /\ p # None /\ connectionParams' = p
    BY <1>1, <2>1, ParamsLemma DEF SmartConnect
  <2>3. CoroutineInv'
    BY <1>1, Kept DEF SmartConnect
  <2>4. UNCHANGED <<lastProfile, orphans, lastRequest, backendState, lastParams, envVars>>
    BY <1>1 DEF SmartConnect
  <2>5. CASE activeBackend = None /\ SetSelfState("ScanningPorts", p)
             /\ connect' = [connect EXCEPT !.pc = "scan"]
             /\ UNCHANGED <<activeBackend, posted, savedParams>>
    <3> HIDE DEF p
    <3>1. "ScanningPorts" \in SelfStates
      BY DEF SelfStates
    <3>2. SeenTyped' /\ StatusHasBackend' /\ Saved /\ selfState' = "ScanningPorts"
      BY <2>2, <2>4, <2>5, <3>1, SettingSelfState
    <3>3. ManagerInv' /\ BackendInv'
      BY <2>2, <2>4, <2>5, <3>1, <3>2 DEF ManagerInv, BackendInv
    <3>4. JobInv'
      BY <2>1, <2>4, <2>5 DEF JobInv, GoodJob, ConnectJob
    <3>5. EnvInv'
      BY <2>4, <2>5 DEF EnvInv, envVars
    <3> QED
      BY <2>3, <3>2, <3>3, <3>4, <3>5
  <2>6. CASE DisconnectForNewConnection(p)
    <3> HIDE DEF p
    <3> QED
      BY <2>1, <2>2, <2>3, <2>4, <2>6, DisconnectingForNew
  <2>7. CASE /\ connect' = [connect EXCEPT !.pc = "announce"]
             /\ NotObserved(fallback)
             /\ UNCHANGED <<selfState, activeBackend, posted, savedParams>>
    <3> HIDE DEF p
    <3>1. fallback \in FallbackJob
      BY DEF SeenTyped
    <3>2. SeenTyped' /\ StatusHasBackend' /\ Saved
      BY <2>4, <2>7, <3>1, NothingSeen
    <3>3. ManagerInv' /\ BackendInv'
      BY <2>2, <2>4, <2>7 DEF ManagerInv, BackendInv
    <3>4. JobInv'
      BY <2>1, <2>4, <2>7 DEF JobInv, GoodJob, ConnectJob
    <3>5. EnvInv'
      BY <2>4, <2>7 DEF EnvInv, envVars
    <3> QED
      BY <2>3, <3>2, <3>3, <3>4, <3>5
  <2> QED
    BY <1>1, <2>5, <2>6, <2>7 DEF SmartConnect
<1>2. CASE Announced
  <2>1. connect.pc = "announce" /\ DisconnectForNewConnection(connectionParams)
    BY <1>2 DEF Announced, ConnectAt
  <2>2. UNCHANGED <<connectionParams, lastProfile, orphans, lastRequest, backendState, lastParams, envVars>>
    BY <1>2 DEF Announced
  <2>3. CoroutineInv'
    BY <1>2, Kept DEF Announced
  <2>4. connectionParams \in ConnectionParams \cup {None}
    BY DEF ManagerInv
  <2> QED
    BY <2>1, <2>2, <2>3, <2>4, DisconnectingForNew
<1>3. CASE ConnectAborted \/ ServerNotAvailable
  <2>1. connect' = NoConnect /\ UNCHANGED <<orphans, lastRequest, managerVars, backendVars, seenVars>>
    BY <1>3 DEF ConnectAborted, ServerNotAvailable
  <2>2. ManagerInv' /\ CoroutineInv' /\ BackendInv' /\ EnvInv'
    BY <1>3, Kept DEF ConnectAborted, ServerNotAvailable
  <2>3. JobInv'
    BY <2>1, JobsTyped DEF JobInv
  <2>4. fallback' \in FallbackJob
    <3>1. [NoFallback EXCEPT !.pc = "notAvailable"] \in FallbackJob
      BY JobsTyped DEF FallbackJob
    <3> QED
      BY <1>3, <3>1 DEF ConnectAborted, ServerNotAvailable, SeenTyped
  <2>5. SeenTyped' /\ StatusHasBackend' /\ Saved
    BY <2>1, <2>4 DEF managerVars, backendVars, seenVars, SeenTyped, StatusHasBackend, Saved, StateInternal
  <2> QED
    BY <2>2, <2>3, <2>5
<1> QED
  BY <1>1, <1>2, <1>3

\* The connect job looks for a server and a backend.
LEMMA PreparingSteps ==
  ASSUME IInv, OldBackendDown \/ NothingPrepared \/ OtherBackendDown
               \/ \E b \in Backends : PreparedConnect(b)
  PROVE  IInv' /\ Saved
<1> USE DEF IInv
<1>1. CASE OldBackendDown
  <2> DEFINE b == connect.closing
  <2>1. connect.pc = "oldDown" /\ selfState' = "ScanningPorts" /\ backendState' = AfterDown(b)
        /\ UNCHANGED <<activeBackend, connectionParams, lastProfile>>
    BY <1>1 DEF OldBackendDown, ConnectAt
  <2>2. CoroutineInv' /\ EnvInv'
    BY <1>1, Kept DEF OldBackendDown
  <2>3. JobInv'
    BY <1>1, <2>1 DEF OldBackendDown, JobInv, GoodJob, ConnectJob
  <2>4. "ScanningPorts" \in SelfStates /\ "Disabled" \in SelfStates
    BY DEF SelfStates
  <2>5. {"ScanningPorts", "Disabled"} \cap (UpStates \cup RecoverableErrors) = {}
        /\ {"ScanningPorts", "Disabled"} \subseteq VpnState
    BY <2>4, SelfStatesLemma
  <2>6. ManagerInv'
    BY <2>1, <2>4 DEF ManagerInv
  <2>7. /\ BackendInv'
        /\ activeBackend \in Backends /\ ~(activeBackend = b /\ TimedOut(b)) =>
              backendState'[activeBackend] = backendState[activeBackend]
        /\ activeBackend = b /\ TimedOut(b) => activeBackend \in Backends /\ backendState'[activeBackend] = "Disabled"
    BY <1>1, <2>1, <2>5 DEF OldBackendDown, BackendInv, AfterDown, TimedOut, Backends
  <2>8. connectionParams \in ConnectionParams \cup {None} /\ fallback \in FallbackJob
    BY DEF ManagerInv, SeenTyped
  <2> HIDE DEF b
  <2>9. CASE activeBackend = None
    <3>1. Observe("ScanningPorts", fallback, connectionParams)
      BY <1>1, <2>9, NoneAssumption DEF OldBackendDown, TimedOut, Backends
    <3>2. SeenTyped' /\ savedState' = "ScanningPorts" /\ status' = [state |-> "ScanningPorts", params |-> connectionParams]
      BY <2>5, <2>8, <3>1, Observing
    <3>3. StatusHasBackend' /\ Saved
      BY <2>1, <2>5, <2>9, <3>2 DEF StatusHasBackend, Saved, StateInternal
    <3> QED
      BY <2>2, <2>3, <2>6, <2>7, <3>2, <3>3
  <2>10. CASE activeBackend # None /\ activeBackend = b /\ TimedOut(b)
    <3>1. Observe("Disabled", fallback, connectionParams)
      BY <1>1, <2>10 DEF OldBackendDown, b
    <3>2. SeenTyped' /\ savedState' = "Disabled" /\ status' = [state |-> "Disabled", params |-> connectionParams]
      BY <2>5, <2>8, <3>1, Observing
    <3>3. StatusHasBackend' /\ Saved
      BY <2>1, <2>5, <2>7, <2>10, <3>2 DEF StatusHasBackend, Saved, StateInternal
    <3> QED
      BY <2>2, <2>3, <2>6, <2>7, <3>2, <3>3
  <2>11. CASE activeBackend # None /\ ~(activeBackend = b /\ TimedOut(b))
    <3>1. NotObserved(fallback)
      BY <1>1, <2>11 DEF OldBackendDown, b
    <3>2. SeenTyped' /\ status' = status
      BY <2>8, <3>1, NotObserving
    <3>3. StatusHasBackend' /\ Saved
      BY <2>1, <2>7, <2>11, <3>2 DEF StatusHasBackend, Saved, StateInternal, ManagerInv
    <3> QED
      BY <2>2, <2>3, <2>6, <2>7, <3>2, <3>3
  <2> QED
    BY <2>9, <2>10, <2>11
<1>2. CASE NothingPrepared
  <2>1. "GENERIC_ERROR" \in SelfStates /\ connectionParams \in ConnectionParams \cup {None}
    BY DEF SelfStates, ManagerInv
  <2>2. SetSelfState("GENERIC_ERROR", connectionParams) /\ UNCHANGED <<activeBackend, backendState>>
    BY <1>2 DEF NothingPrepared, backendVars
  <2>3. SeenTyped' /\ StatusHasBackend' /\ Saved /\ selfState' = "GENERIC_ERROR"
    <3> HIDE DEF IInv
    <3> QED
      BY <2>1, <2>2, SettingSelfState
  <2>4. ManagerInv'
    BY <1>2, <2>1, <2>3 DEF NothingPrepared, ManagerInv
  <2>5. JobInv'
    BY <1>2, JobsTyped DEF NothingPrepared, JobInv
  <2>6. CoroutineInv' /\ BackendInv' /\ EnvInv'
    BY <1>2, Kept DEF NothingPrepared
  <2> QED
    BY <2>3, <2>4, <2>5, <2>6
<1>3. CASE OtherBackendDown
  <2>1. connect.pc = "swapDown" /\ connect' = [connect EXCEPT !.pc = "session", !.closing = None]
    BY <1>3 DEF OtherBackendDown, ConnectAt
  <2>2. /\ SeenTyped' /\ StatusHasBackend' /\ Saved
        /\ backendState' \in [Backends -> VpnState]
        /\ activeBackend' = None /\ connectionParams' = None
    <3>1. fallback \in FallbackJob /\ ForgetBackend(connect.closing, fallback) /\ UNCHANGED selfState
      BY <1>3 DEF OtherBackendDown, SeenTyped
    <3> HIDE DEF IInv
    <3> QED
      BY <3>1, Forgetting
  <2>3. ManagerInv' /\ BackendInv'
    BY <1>3, <2>2 DEF OtherBackendDown, ManagerInv, BackendInv
  <2>4. JobInv'
    BY <1>3, <2>1 DEF OtherBackendDown, JobInv, GoodJob, ConnectJob
  <2>5. CoroutineInv' /\ EnvInv'
    BY <1>3, Kept DEF OtherBackendDown
  <2> QED
    BY <2>2, <2>3, <2>4, <2>5
<1>4. ASSUME NEW b \in Backends, PreparedConnect(b) PROVE IInv' /\ Saved
  <2>1. connect.pc \in {"scan", "prepared"} /\ connect.profile \in Profiles
    BY <1>4 DEF PreparedConnect, ConnectAt, JobInv, GoodJob
  <2>2. /\ UNCHANGED <<activeBackend, connectionParams, orphans, lastRequest, fallback, coroutine,
                       switching, backendState, lastParams, seenVars, envVars>>
        /\ lastProfile' = connect.profile
    BY <1>4 DEF PreparedConnect
  <2>3. CoroutineInv'
    BY <2>2 DEF CoroutineInv
  <2>4. CASE connect' = [connect EXCEPT !.pc = "session", !.target = b]
             /\ UNCHANGED <<selfState, posted, savedParams>>
    <3>1. ManagerInv' /\ BackendInv' /\ EnvInv'
      BY <2>1, <2>2, <2>4 DEF ManagerInv, BackendInv, EnvInv, envVars
    <3>2. JobInv'
      BY <2>1, <2>2, <2>4 DEF JobInv, GoodJob, ConnectJob
    <3>3. SeenTyped' /\ StatusHasBackend' /\ Saved
      BY <2>2, <2>4 DEF seenVars, SeenTyped, StatusHasBackend, Saved, StateInternal
    <3> QED
      BY <2>3, <3>1, <3>2, <3>3
  <2>5. CASE activeBackend \notin {None, b} /\ StartDisconnect
             /\ connect' = [connect EXCEPT !.pc = "swapDown", !.target = b, !.closing = activeBackend]
    <3>1. activeBackend \in Backends /\ savedParams' = None /\ selfState' = "Disabled" /\ StartDown(activeBackend)
      BY <2>5 DEF ManagerInv, StartDisconnect
    <3>2. ManagerInv' /\ EnvInv'
      BY <2>1, <2>2, <3>1 DEF ManagerInv, EnvInv, envVars, SelfStates
    <3>3. BackendInv'
      BY <2>2, <3>1, Posting DEF BackendInv
    <3>4. JobInv'
      BY <2>1, <2>2, <2>5, <3>1 DEF JobInv, GoodJob, ConnectJob
    <3>5. SeenTyped' /\ StatusHasBackend' /\ Saved
      BY <2>2, <2>5 DEF seenVars, SeenTyped, StatusHasBackend, Saved, StateInternal
    <3> QED
      BY <2>3, <3>2, <3>3, <3>4, <3>5
  <2> QED
    BY <1>4, <2>4, <2>5 DEF PreparedConnect
<1> QED
  BY <1>1, <1>2, <1>3, <1>4

\* preparedConnect activates its backend, with parameters, or has no certificate.
LEMMA Activating ==
  ASSUME IInv, NEW STATE job, job.profile \in Profiles, job.target \in Backends,
         ActivateBackend(job) \/ NoCertificate(job), UNCHANGED <<lastProfile, envVars>>
  PROVE  ManagerInv' /\ BackendInv' /\ SeenTyped' /\ StatusHasBackend' /\ Saved /\ EnvInv'
<1> USE DEF IInv
<1>1. CASE ActivateBackend(job)
  <2> DEFINE b == job.target
             p == [profile |-> job.profile, backend |-> b]
  <2>1. p \in ConnectionParams /\ p # None /\ b \in Backends /\ b # None
    BY ParamsLemma, NoneAssumption
  <2>2. /\ connectionParams' = p /\ savedParams' = p /\ activeBackend' = b
        /\ BackendConnect(b, p)
    BY <1>1 DEF ActivateBackend
  <2>3. /\ posted' \in [Backends -> VpnState \cup {None}]
        /\ lastParams' \in [Backends -> ConnectionParams \cup {None}]
    BY <2>1, <2>2, Posting
  <2>4. EnvInv'
    BY <2>1, <2>2 DEF EnvInv, envVars
  <2>5. CASE activeBackend # b
    <3>1. /\ backendState' = [backendState EXCEPT ![b] = "Connecting"]
          /\ selfState' = "Disabled" /\ Observe("Connecting", fallback, p)
      BY <1>1, <2>5 DEF ActivateBackend
    <3> HIDE DEF b, p
    <3>2. "Connecting" \in VpnState /\ "Connecting" \notin RecoverableErrors /\ "Disabled" \in SelfStates
      BY DEF VpnState, RecoverableErrors, SelfStates
    <3>3. SeenTyped' /\ savedState' = "Connecting" /\ status' = [state |-> "Connecting", params |-> p]
      BY <2>1, <3>1, <3>2, Observing DEF SeenTyped
    <3>4. StatusHasBackend' /\ Saved
      BY <2>1, <2>2, <3>1, <3>3 DEF StatusHasBackend, Saved, StateInternal, BackendInv
    <3>5. ManagerInv'
      BY <2>1, <2>2, <3>1, <3>2 DEF ManagerInv
    <3>6. BackendInv'
      BY <2>1, <2>3, <3>1, <3>2 DEF BackendInv
    <3> QED
      BY <2>4, <3>3, <3>4, <3>5, <3>6
  <2>6. CASE activeBackend = b
    <3>1. NotObserved(fallback) /\ UNCHANGED <<backendState, selfState>>
      BY <1>1, <2>6 DEF ActivateBackend
    <3> HIDE DEF b, p
    <3>2. SeenTyped' /\ status' = status
      BY <3>1, NotObserving DEF SeenTyped
    <3>3. StatusHasBackend' /\ Saved
      BY <2>1, <2>2, <2>6, <3>1, <3>2 DEF StatusHasBackend, Saved, StateInternal
    <3>4. ManagerInv' /\ BackendInv'
      BY <2>1, <2>2, <2>3, <3>1 DEF ManagerInv, BackendInv
    <3> QED
      BY <2>4, <3>2, <3>3, <3>4
  <2> QED
    BY <2>5, <2>6
<1>2. CASE NoCertificate(job)
  <2>1. /\ SetSelfState("LOCAL_AGENT_ERROR", connectionParams)
        /\ UNCHANGED <<activeBackend, connectionParams, backendVars, savedParams>>
    BY <1>2 DEF NoCertificate
  <2>2. "LOCAL_AGENT_ERROR" \in SelfStates /\ connectionParams \in ConnectionParams \cup {None}
    BY DEF SelfStates, ManagerInv
  <2>3. SeenTyped' /\ StatusHasBackend' /\ Saved /\ selfState' = "LOCAL_AGENT_ERROR"
    <3>1. UNCHANGED <<activeBackend, backendState>>
      BY <2>1 DEF backendVars
    <3> HIDE DEF IInv
    <3> QED
      BY <2>1, <2>2, <3>1, SettingSelfState
  <2>4. ManagerInv'
    BY <2>1, <2>2, <2>3 DEF ManagerInv
  <2>5. BackendInv' /\ EnvInv'
    BY <2>1, Kept
  <2> QED
    BY <2>3, <2>4, <2>5
<1> QED
  BY <1>1, <1>2

\* The end of the connect job, also of a cancelled one.
LEMMA LastConnectSteps ==
  ASSUME IInv, BackendActivated \/ TunnelConnected \/ \E job \in orphans : OrphanActivated(job)
  PROVE  IInv' /\ Saved
<1>1. CASE BackendActivated
  <2>1. connect.pc = "session" /\ GoodJob(connect) /\ connect.profile \in Profiles /\ connect.target \in Backends
    BY <1>1 DEF BackendActivated, ConnectAt, IInv, JobInv, GoodJob
  <2>2. ActivateBackend(connect) \/ NoCertificate(connect)
    BY <1>1 DEF BackendActivated
  <2>3. UNCHANGED <<lastProfile, orphans, lastRequest, coroutine, switching, envVars>>
    BY <1>1 DEF BackendActivated
  <2>4. ManagerInv' /\ BackendInv' /\ SeenTyped' /\ StatusHasBackend' /\ Saved /\ EnvInv'
    BY <2>1, <2>2, <2>3, Activating
  <2>5. GoodJob(connect')
    <3>1. connect' \in {[connect EXCEPT !.pc = "up"], NoConnect}
      BY <1>1 DEF BackendActivated
    <3>2. GoodJob([connect EXCEPT !.pc = "up"])
      BY <2>1 DEF GoodJob, ConnectJob
    <3> QED
      BY <3>1, <3>2, JobsTyped
  <2>6. JobInv' /\ CoroutineInv'
    BY <2>3, <2>5 DEF IInv, JobInv, CoroutineInv
  <2> QED
    BY <2>4, <2>6 DEF IInv
<1>2. CASE TunnelConnected
  <2>1. connect.target \in Backends
    BY <1>2 DEF TunnelConnected, ConnectAt, IInv, JobInv, GoodJob
  <2>2. SeenTyped' /\ StatusHasBackend' /\ Saved /\ BackendInv'
    BY <1>2, <2>1, TunnelEnding DEF TunnelConnected
  <2>3. JobInv'
    BY <1>2, JobsTyped DEF TunnelConnected, IInv, JobInv
  <2>4. ManagerInv' /\ CoroutineInv' /\ EnvInv'
    BY <1>2, Kept DEF TunnelConnected, IInv
  <2> QED
    BY <2>2, <2>3, <2>4 DEF IInv
<1>3. ASSUME NEW job \in orphans, OrphanActivated(job) PROVE IInv' /\ Saved
  <2>1. job.profile \in Profiles /\ job.target \in Backends
    BY DEF IInv, JobInv
  <2>2. /\ ActivateBackend(job) \/ NoCertificate(job)
        /\ UNCHANGED <<lastProfile, connect, lastRequest, coroutine, switching, envVars>>
        /\ orphans' = orphans \ {job}
    BY <1>3 DEF OrphanActivated
  <2>3. ManagerInv' /\ BackendInv' /\ SeenTyped' /\ StatusHasBackend' /\ Saved /\ EnvInv'
    BY <2>1, <2>2, Activating
  <2>4. JobInv' /\ CoroutineInv'
    BY <2>2 DEF IInv, JobInv, CoroutineInv
  <2> QED
    BY <2>3, <2>4 DEF IInv
<1> QED
  BY <1>1, <1>2, <1>3

-----------------------------------------------------------------------------
(***************************************************************************)
(* The steps of the untracked coroutines.                                  *)
(***************************************************************************)

\* What follows disconnectBlocking.
LEMMA Following ==
  ASSUME IInv, NEW c \in Coroutines, AfterDisconnect(c), UNCHANGED switching
  PROVE  JobInv' /\ CoroutineInv' /\ FallbackLeft(c) \in FallbackJob
<1> USE DEF IInv
<1>1. CoroutineInv'
  BY CoroutineEnds DEF AfterDisconnect
<1>2. CASE ConnectsAgain(c)
  <2>1. lastProfile \in Profiles /\ LaunchConnect(StartJob(lastProfile))
    BY <1>2 DEF ConnectsAgain, ManagerInv, AfterDisconnect
  <2>2. GoodJob(StartJob(lastProfile))
    BY <2>1, JobsTyped
  <2>3. JobInv'
    BY <2>1, <2>2, LaunchKeepsJobs
  <2> QED
    BY <1>1, <1>2, <2>3, JobsTyped DEF FallbackLeft
<1>3. CASE ~ConnectsAgain(c)
  BY <1>1, <1>3, Kept DEF AfterDisconnect, FallbackLeft, SeenTyped
<1> QED
  BY <1>2, <1>3

\* disconnectBlocking before and after the backend is down.
LEMMA DisconnectSteps ==
  ASSUME IInv, NEW c \in Coroutines, DisconnectBlocking(c) \/ Disconnected(c)
  PROVE  IInv' /\ Saved
<1> USE DEF IInv
<1>1. UNCHANGED <<switching, lastProfile, lastParams, envVars>>
  BY DEF DisconnectBlocking, Disconnected
<1>2. CASE DisconnectBlocking(c) /\ activeBackend = None
  <2>1. /\ savedParams' = None /\ selfState' = "Disabled" /\ connectionParams' = None
        /\ Observe("Disabled", FallbackLeft(c), connectionParams)
        /\ AfterDisconnect(c) /\ UNCHANGED <<posted, activeBackend, backendState>>
    BY <1>2 DEF DisconnectBlocking
  <2>2. JobInv' /\ CoroutineInv' /\ FallbackLeft(c) \in FallbackJob
    BY <1>1, <2>1, Following
  <2>3. "Disabled" \in VpnState /\ "Disabled" \notin RecoverableErrors \cup UpStates /\ "Disabled" \in SelfStates
    BY DEF VpnState, RecoverableErrors, UpStates, SelfStates
  <2>4. connectionParams \in ConnectionParams \cup {None}
    BY DEF ManagerInv
  <2>5. SeenTyped' /\ savedState' = "Disabled" /\ status' = [state |-> "Disabled", params |-> connectionParams]
    BY <2>1, <2>2, <2>3, <2>4, Observing
  <2>6. StatusHasBackend' /\ Saved
    BY <1>2, <2>1, <2>3, <2>5 DEF StatusHasBackend, Saved, StateInternal
  <2>7. ManagerInv'
    BY <1>1, <1>2, <2>1, <2>3 DEF ManagerInv
  <2>8. BackendInv' /\ EnvInv'
    BY <1>1, <2>1 DEF BackendInv, EnvInv, envVars
  <2> QED
    BY <2>2, <2>5, <2>6, <2>7, <2>8
<1>3. CASE DisconnectBlocking(c) /\ activeBackend # None
  <2>1. /\ StartDisconnect /\ NotObserved(fallback)
        /\ coroutine' = [coroutine EXCEPT ![c].pc = "down", ![c].backend = activeBackend]
        /\ UNCHANGED <<connectionParams, connectVars, activeBackend, backendState>>
    BY <1>3 DEF DisconnectBlocking
  <2>2. /\ activeBackend \in Backends /\ savedParams' = None /\ selfState' = "Disabled"
        /\ StartDown(activeBackend)
    BY <1>3, <2>1 DEF ManagerInv, StartDisconnect
  <2>3. ManagerInv'
    BY <1>1, <2>1, <2>2 DEF ManagerInv, SelfStates
  <2>4. BackendInv'
    BY <1>1, <2>1, <2>2, Posting DEF BackendInv
  <2>5. EnvInv'
    BY <1>1, <2>2 DEF EnvInv, envVars
  <2>6. JobInv'
    BY <2>1, Kept
  <2>7. CoroutineInv'
    BY <1>1, <2>1, <2>2, ZenonT(40) DEF CoroutineInv, Coroutine
  <2>8. SeenTyped' /\ StatusHasBackend' /\ Saved
    <3>1. fallback \in FallbackJob
      BY DEF SeenTyped
    <3> HIDE DEF IInv
    <3> QED
      BY <1>3, <2>1, <3>1, NothingSeen
  <2> QED
    BY <2>3, <2>4, <2>5, <2>6, <2>7, <2>8
<1>4. CASE Disconnected(c)
  <2>1. /\ ForgetBackend(coroutine[c].backend, FallbackLeft(c)) /\ AfterDisconnect(c)
        /\ UNCHANGED <<selfState, posted, savedParams>>
    BY <1>4 DEF Disconnected
  <2>2. JobInv' /\ CoroutineInv' /\ FallbackLeft(c) \in FallbackJob
    BY <1>1, <2>1, Following
  <2>3. /\ SeenTyped' /\ StatusHasBackend' /\ Saved
        /\ backendState' \in [Backends -> VpnState]
        /\ activeBackend' = None /\ connectionParams' = None
    <3> HIDE DEF IInv
    <3> QED
      BY <2>1, <2>2, Forgetting
  <2>4. ManagerInv' /\ BackendInv' /\ EnvInv'
    BY <1>1, <2>1, <2>3 DEF ManagerInv, BackendInv, EnvInv, envVars
  <2> QED
    BY <2>2, <2>3, <2>4
<1> QED
  BY <1>2, <1>3, <1>4

\* reconnectWithCurrentParams.
LEMMA ReconnectSteps ==
  ASSUME IInv, NEW c \in Coroutines,
         ReconnectWithCurrentParams(c) \/ BackendRestarts(c) \/ TunnelRestarted(c)
  PROVE  IInv' /\ Saved
<1> USE DEF IInv
<1>1. CASE ReconnectWithCurrentParams(c)
  <2>1. /\ UNCHANGED <<managerVars, switching, backendState, lastParams, seenVars, savedParams, envVars>>
        /\ fallback' = NoFallback /\ CancelConnect
    BY <1>1 DEF ReconnectWithCurrentParams
  <2>2. ManagerInv' /\ EnvInv'
    BY <2>1, Kept
  <2>3. SeenTyped' /\ StatusHasBackend' /\ Saved
    BY <2>1, JobsTyped DEF seenVars, managerVars, SeenTyped, StatusHasBackend, Saved, StateInternal
  <2>4. CASE activeBackend # None
    <3>1. /\ connect' = NoConnect /\ UNCHANGED lastRequest /\ StartDown(activeBackend)
          /\ coroutine' = [coroutine EXCEPT ![c].pc = "down", ![c].backend = activeBackend,
                                            ![c].params = lastParams[activeBackend]]
      BY <1>1, <2>4 DEF ReconnectWithCurrentParams
    <3>2. activeBackend \in Backends /\ lastParams[activeBackend] \in ConnectionParams \cup {None}
      BY <2>4 DEF ManagerInv, BackendInv
    <3>3. JobInv'
      BY <2>1, <3>1, JobsTyped, CancelKeepsJobs DEF JobInv
    <3>4. CoroutineInv'
      <4> DEFINE d == [coroutine[c] EXCEPT !.pc = "down", !.backend = activeBackend,
                                           !.params = lastParams[activeBackend]]
      <4>1. coroutine[c] \in Coroutine
        BY DEF CoroutineInv
      <4>2. d \in Coroutine /\ d.backend \in Backends
        BY <3>2, <4>1 DEF Coroutine
      <4>3. coroutine' = [coroutine EXCEPT ![c] = d]
        BY <3>1
      <4> HIDE DEF d
      <4> QED
        BY <2>1, <4>2, <4>3 DEF CoroutineInv
    <3>5. BackendInv'
      BY <2>1, <3>1, <3>2, Posting DEF BackendInv
    <3> QED
      BY <2>2, <2>3, <3>3, <3>4, <3>5
  <2>5. CASE activeBackend = None
    <3>1. /\ connect' = IF lastProfile = None THEN NoConnect ELSE StartJob(lastProfile)
          /\ lastRequest' = IF lastProfile = None THEN lastRequest ELSE "connect"
          /\ coroutine' = [coroutine EXCEPT ![c] = NoCoroutine]
          /\ UNCHANGED posted
      BY <1>1, <2>5 DEF ReconnectWithCurrentParams
    <3>2. GoodJob(connect')
      BY <3>1, JobsTyped DEF ManagerInv
    <3>3. lastRequest' \in {"connect", "disconnect"}
      BY <3>1 DEF JobInv
    <3>4. JobInv'
      BY <2>1, <3>2, <3>3, CancelKeepsJobs
    <3>5. CoroutineInv'
      BY <2>1, <3>1, CoroutineEnds
    <3>6. BackendInv'
      BY <2>1, <3>1 DEF BackendInv
    <3> QED
      BY <2>2, <2>3, <3>4, <3>5, <3>6
  <2> QED
    BY <2>4, <2>5
<1>2. CASE BackendRestarts(c)
  <2> DEFINE b == coroutine[c].backend
  <2>1. b \in Backends /\ coroutine[c] \in Coroutine /\ coroutine[c].params \in ConnectionParams \cup {None}
    BY <1>2 DEF BackendRestarts, CoroutineInv, Coroutine
  <2>2. /\ IF TimedOut(b) THEN BackendEnters(b, "Disabled") ELSE NotObserved(fallback) /\ UNCHANGED backendState
        /\ savedParams' = lastParams[b]
        /\ BackendConnect(b, coroutine[c].params)
        /\ coroutine' = [coroutine EXCEPT ![c] = IF b = WireGuard THEN [@ EXCEPT !.pc = "up"] ELSE NoCoroutine]
        /\ UNCHANGED <<managerVars, connectVars, switching, envVars>>
    BY <1>2 DEF BackendRestarts
  <2>3. ManagerInv' /\ JobInv'
    BY <2>2, Kept
  <2>4. CoroutineInv'
    <3>1. [coroutine[c] EXCEPT !.pc = "up"] \in Coroutine /\ [coroutine[c] EXCEPT !.pc = "up"].backend = b
      BY <2>1 DEF Coroutine
    <3> HIDE DEF b
    <3> QED
      BY <2>1, <2>2, <3>1, JobsTyped DEF CoroutineInv
  <2> HIDE DEF b
  <2>5. EnvInv'
    BY <2>1, <2>2 DEF EnvInv, BackendInv, envVars
  <2>6. /\ posted' \in [Backends -> VpnState \cup {None}]
        /\ lastParams' \in [Backends -> ConnectionParams \cup {None}]
    BY <2>1, <2>2, Posting
  <2>7. SeenTyped' /\ StatusHasBackend' /\ Saved /\ backendState' \in [Backends -> VpnState]
    <3>1. fallback \in FallbackJob /\ "Disabled" \in VpnState /\ backendState \in [Backends -> VpnState]
      BY DEF SeenTyped, VpnState, BackendInv
    <3>2. UNCHANGED <<activeBackend, selfState>>
      BY <2>2 DEF managerVars
    <3> HIDE DEF IInv
    <3>3. CASE TimedOut(b)
      BY <2>1, <2>2, <3>1, <3>3, Entering
    <3>4. CASE ~TimedOut(b)
      BY <2>2, <3>1, <3>2, <3>4, NothingSeen
    <3> QED
      BY <3>3, <3>4
  <2>8. BackendInv'
    BY <2>6, <2>7 DEF BackendInv
  <2> QED
    BY <2>3, <2>4, <2>5, <2>7, <2>8
<1>3. CASE TunnelRestarted(c)
  <2>1. coroutine[c].backend \in Backends
    BY <1>3 DEF TunnelRestarted, CoroutineInv
  <2>2. SeenTyped' /\ StatusHasBackend' /\ Saved /\ BackendInv'
    <3>1. TunnelEnds(coroutine[c].backend) /\ UNCHANGED <<managerVars, posted, lastParams>>
      BY <1>3 DEF TunnelRestarted
    <3> HIDE DEF IInv
    <3> QED
      BY <2>1, <3>1, TunnelEnding
  <2>3. CoroutineInv'
    BY <1>3, CoroutineEnds DEF TunnelRestarted
  <2>4. ManagerInv' /\ JobInv' /\ EnvInv'
    BY <1>3, Kept DEF TunnelRestarted
  <2> QED
    BY <2>2, <2>3, <2>4
<1> QED
  BY <1>1, <1>2, <1>3

-----------------------------------------------------------------------------
(***************************************************************************)
(* The fallback job, the switches, the commands and the process.           *)
(***************************************************************************)

\* fallbackConnect launches a connect job or leaves everything alone.
LEMMA Switching ==
  ASSUME IInv, NEW STATE sw, sw \in Switch, NEW STATE fb, fb \in FallbackJob, FallbackConnect(sw, fb)
  PROVE  JobInv' /\ fallback' \in FallbackJob
<1> USE DEF IInv
<1>1. sw.kind \in {"profile", "server", "abort"} /\ sw.profile \in Profiles /\ sw.backend \in Backends
  BY DEF Switch
<1>2. fallback' \in FallbackJob
  BY JobsTyped DEF FallbackConnect
<1>3. CASE sw.kind = "profile"
  <2>1. LaunchConnect(StartJob(sw.profile))
    BY <1>3 DEF FallbackConnect
  <2>2. GoodJob(StartJob(sw.profile))
    BY <1>1, JobsTyped
  <2> QED
    BY <1>2, <2>1, <2>2, LaunchKeepsJobs
<1>4. CASE sw.kind = "server"
  <2>1. LaunchConnect(PreparedJob(sw.profile, sw.backend))
    BY <1>4 DEF FallbackConnect
  <2>2. GoodJob(PreparedJob(sw.profile, sw.backend))
    BY <1>1, JobsTyped
  <2> QED
    BY <1>2, <2>1, <2>2, LaunchKeepsJobs
<1>5. CASE sw.kind = "abort"
  BY <1>2, <1>5, Kept DEF FallbackConnect
<1> QED
  BY <1>1, <1>3, <1>4, <1>5

\* A step that at most replaces the fallback job, as far as states are concerned.
LEMMA OnlyFallback ==
  ASSUME IInv, fallback' \in FallbackJob, UNCHANGED <<managerVars, backendVars, seenVars>>
  PROVE  ManagerInv' /\ BackendInv' /\ SeenTyped' /\ StatusHasBackend' /\ Saved
<1>1. ManagerInv' /\ BackendInv'
  BY Kept DEF IInv
<1>2. SeenTyped' /\ StatusHasBackend' /\ Saved
  BY DEF IInv, managerVars, backendVars, seenVars, SeenTyped, StatusHasBackend, Saved, StateInternal
<1> QED
  BY <1>1, <1>2

\* disconnect: the jobs are cancelled and a coroutine is launched.
LEMMA LaunchingDisconnect ==
  ASSUME IInv, LaunchDisconnect, UNCHANGED switching
  PROVE  JobInv' /\ CoroutineInv' /\ fallback' \in FallbackJob
<1>1. /\ CancelConnect /\ connect' = NoConnect /\ lastRequest' = "disconnect"
      /\ fallback' = NoFallback /\ Launch("disconnect")
  BY DEF LaunchDisconnect
<1>2. JobInv'
  BY <1>1, JobsTyped, CancelKeepsJobs DEF IInv
<1>3. CoroutineInv'
  BY <1>1, LaunchKeepsCoroutines DEF IInv
<1> QED
  BY <1>1, <1>2, <1>3, JobsTyped

\* The fallback job.
LEMMA FallbackSteps ==
  ASSUME IInv, FallbackStep
  PROVE  IInv' /\ Saved
<1>1. CASE HandleRecoverableError
  <2>1. /\ status' = [state |-> "CheckingAvailability", params |-> connectionParams]
        /\ fallback' = [fallback EXCEPT !.pc = "handler"]
        /\ UNCHANGED <<savedState, recentUnreachable>>
    BY <1>1 DEF HandleRecoverableError
  <2>2. ManagerInv' /\ JobInv' /\ CoroutineInv' /\ BackendInv' /\ EnvInv'
    BY <1>1, Kept DEF HandleRecoverableError, IInv
  <2>3. "CheckingAvailability" \in VpnState /\ "CheckingAvailability" \notin UpStates
    BY DEF VpnState, UpStates
  <2>4. fallback' \in FallbackJob
    BY <2>1 DEF IInv, SeenTyped, FallbackJob
  <2>5. connectionParams \in ConnectionParams \cup {None}
    BY DEF IInv, ManagerInv
  <2>6. SeenTyped' /\ StatusHasBackend'
    BY <2>1, <2>3, <2>4, <2>5 DEF IInv, SeenTyped, StatusHasBackend
  <2>7. Saved
    BY <1>1 DEF HandleRecoverableError, managerVars, backendVars, Saved, StateInternal
  <2> QED
    BY <2>2, <2>6, <2>7 DEF IInv
<1>2. CASE FallbackEnds
  <2>1. fallback' \in FallbackJob /\ UNCHANGED <<managerVars, backendVars, seenVars>>
    BY <1>2, JobsTyped DEF FallbackEnds
  <2>2. JobInv' /\ CoroutineInv' /\ EnvInv'
    BY <1>2, Kept DEF FallbackEnds, IInv
  <2> QED
    BY <2>1, <2>2, OnlyFallback DEF IInv
<1>3. CASE FallbackDisconnects
  <2>1. /\ LaunchDisconnect
        /\ UNCHANGED <<managerVars, switching, backendVars, seenVars, savedParams, envVars>>
    BY <1>3 DEF FallbackDisconnects
  <2>2. JobInv' /\ CoroutineInv' /\ fallback' \in FallbackJob
    BY <2>1, LaunchingDisconnect
  <2>3. EnvInv'
    BY <2>1, Kept DEF IInv
  <2> QED
    BY <2>1, <2>2, <2>3, OnlyFallback DEF IInv
<1>4. CASE FallbackFails
  <2>1. ManagerInv' /\ JobInv' /\ CoroutineInv' /\ EnvInv'
    BY <1>4, Kept DEF FallbackFails, IInv
  <2>2. fallback' = NoFallback /\ UNCHANGED <<managerVars, posted, lastParams, recentUnreachable>>
    BY <1>4 DEF FallbackFails
  <2>3. UNCHANGED <<selfState, activeBackend, connectionParams>>
    BY <2>2 DEF managerVars
  <2>4. CASE activeBackend = None
    <3>1. UNCHANGED <<backendState, status, savedState>>
      BY <1>4, <2>4 DEF FallbackFails
    <3>2. SeenTyped' /\ StatusHasBackend' /\ Saved /\ BackendInv'
      BY <2>2, <2>3, <3>1, JobsTyped DEF IInv, SeenTyped, StatusHasBackend, Saved, StateInternal, BackendInv
    <3> QED
      BY <2>1, <3>2 DEF IInv
  <2>5. CASE activeBackend # None
    <3>1. /\ backendState' = [backendState EXCEPT ![activeBackend] = "GENERIC_ERROR"]
          /\ Publish("GENERIC_ERROR", connectionParams)
      BY <1>4, <2>5 DEF FallbackFails
    <3>2. "GENERIC_ERROR" \in VpnState /\ "GENERIC_ERROR" \notin UpStates \cup RecoverableErrors
      BY DEF VpnState, OtherErrors, UpStates, RecoverableErrors
    <3>3. savedState' = "GENERIC_ERROR" /\ status' = [state |-> "GENERIC_ERROR", params |-> connectionParams]
      BY <3>1, <3>2 DEF Publish
    <3>4. activeBackend \in Backends /\ connectionParams \in ConnectionParams \cup {None}
      BY <2>5 DEF IInv, ManagerInv
    <3>5. BackendInv'
      BY <2>2, <3>1, <3>2, <3>4 DEF IInv, BackendInv
    <3>6. SeenTyped' /\ StatusHasBackend'
      BY <2>2, <3>2, <3>3, <3>4, JobsTyped DEF IInv, SeenTyped, StatusHasBackend
    <3>7. Saved
      BY <2>3, <2>5, <3>1, <3>3, <3>4 DEF Saved, StateInternal, IInv, BackendInv
    <3> QED
      BY <2>1, <3>5, <3>6, <3>7 DEF IInv
  <2> QED
    BY <2>4, <2>5
<1>5. ASSUME NEW sw \in Switch, FallbackSwitches(sw) PROVE IInv' /\ Saved
  <2>1. /\ FallbackConnect(sw, NoFallback)
        /\ UNCHANGED <<managerVars, coroutine, switching, backendVars, seenVars, savedParams, envVars>>
    BY <1>5 DEF FallbackSwitches
  <2>2. JobInv' /\ fallback' \in FallbackJob
    BY <2>1, JobsTyped, Switching
  <2>3. CoroutineInv' /\ EnvInv'
    BY <2>1, Kept DEF IInv
  <2> QED
    BY <2>1, <2>2, <2>3, OnlyFallback DEF IInv
<1> QED
  BY <1>1, <1>2, <1>3, <1>4, <1>5 DEF FallbackStep

\* connect, as the user's command and on the restoration of the process.
LEMMA ConnectCommand ==
  ASSUME IInv, NEW STATE p, p \in Profiles, Connect(p)
  PROVE  IInv' /\ Saved
<1>1. /\ LaunchConnect(StartJob(p)) /\ fallback' = NoFallback /\ Command
      /\ UNCHANGED <<managerVars, coroutine, switching, backendVars, seenVars, savedParams>>
  BY DEF Connect
<1>2. JobInv'
  <2>1. GoodJob(StartJob(p))
    BY JobsTyped
  <2> QED
    BY <1>1, <2>1, LaunchKeepsJobs DEF IInv
<1>3. CoroutineInv' /\ EnvInv'
  BY <1>1 DEF IInv, CoroutineInv, EnvInv, Command
<1> QED
  BY <1>1, <1>2, <1>3, JobsTyped, OnlyFallback DEF IInv

\* The commands, the switches and the service.
LEMMA CommandSteps ==
  ASSUME IInv,
         \/ \E p \in Profiles : Connect(p)
         \/ Disconnect
         \/ \E kind \in {"reconnect", "reconnectParams"} : Reconnect(kind)
         \/ OnRestoreProcess \/ OnVpnServiceDestroyed
         \/ \E sw \in Switch : SwitchOrdered(sw)
         \/ SwitchPerformed
  PROVE  IInv' /\ Saved
<1>1. CASE \E p \in Profiles : Connect(p)
  BY <1>1, ConnectCommand
<1>2. CASE Disconnect
  <2>1. /\ LaunchDisconnect /\ Command
        /\ UNCHANGED <<managerVars, switching, backendVars, seenVars, savedParams>>
    BY <1>2 DEF Disconnect
  <2>2. JobInv' /\ CoroutineInv' /\ fallback' \in FallbackJob
    BY <2>1, LaunchingDisconnect
  <2>3. EnvInv'
    BY <2>1 DEF IInv, EnvInv, Command
  <2> QED
    BY <2>1, <2>2, <2>3, OnlyFallback DEF IInv
<1>3. ASSUME NEW kind \in {"reconnect", "reconnectParams"}, Reconnect(kind) PROVE IInv' /\ Saved
  <2>1. /\ Launch(kind) /\ Command
        /\ UNCHANGED <<managerVars, connectVars, fallback, switching, backendVars, seenVars, savedParams>>
    BY <1>3 DEF Reconnect
  <2>2. CoroutineInv'
    BY <2>1, LaunchKeepsCoroutines DEF IInv
  <2>3. JobInv' /\ EnvInv' /\ fallback' \in FallbackJob
    BY <2>1, Kept DEF IInv, EnvInv, Command, SeenTyped
  <2> QED
    BY <2>1, <2>2, <2>3, OnlyFallback DEF IInv
<1>4. CASE OnRestoreProcess
  <2>1. savedParams.profile \in Profiles /\ Connect(savedParams.profile)
    BY <1>4 DEF OnRestoreProcess, IInv, EnvInv, ConnectionParams
  <2> QED
    BY <2>1, ConnectCommand
<1>5. CASE OnVpnServiceDestroyed
  <2>1. /\ savedParams' = None
        /\ UNCHANGED <<managerVars, connectVars, fallback, coroutine, switching, backendVars, seenVars, envVars>>
    BY <1>5 DEF OnVpnServiceDestroyed
  <2>2. JobInv' /\ CoroutineInv' /\ EnvInv' /\ fallback' \in FallbackJob
    BY <2>1, Kept DEF IInv, EnvInv, envVars, SeenTyped
  <2> QED
    BY <2>1, <2>2, OnlyFallback DEF IInv
<1>6. ASSUME NEW sw \in Switch, SwitchOrdered(sw) PROVE IInv' /\ Saved
  <2>1. /\ Command /\ switching' = sw
        /\ UNCHANGED <<managerVars, connectVars, fallback, coroutine, backendVars, seenVars, savedParams>>
    BY <1>6 DEF SwitchOrdered
  <2>2. JobInv' /\ CoroutineInv' /\ EnvInv' /\ fallback' \in FallbackJob
    BY <2>1, Kept DEF IInv, CoroutineInv, EnvInv, Command, SeenTyped
  <2> QED
    BY <2>1, <2>2, OnlyFallback DEF IInv
<1>7. CASE SwitchPerformed
  <2>1. /\ switching \in Switch /\ switching' = None /\ FallbackConnect(switching, fallback)
        /\ UNCHANGED <<managerVars, coroutine, backendVars, seenVars, savedParams, envVars>>
    BY <1>7 DEF SwitchPerformed, IInv, CoroutineInv
  <2>2. fallback \in FallbackJob
    BY DEF IInv, SeenTyped
  <2>3. JobInv' /\ fallback' \in FallbackJob
    BY <2>1, <2>2, Switching
  <2>4. CoroutineInv' /\ EnvInv'
    BY <2>1, Kept DEF IInv, CoroutineInv
  <2> QED
    BY <2>1, <2>3, <2>4, OnlyFallback DEF IInv
<1> QED
  BY <1>1, <1>2, <1>3, <1>4, <1>5, <1>6, <1>7

\* What a process starts with is well typed.
LEMMA FreshTyped ==
  /\ "Disabled" \in VpnState /\ "Disabled" \in SelfStates /\ "Disabled" \notin UpStates
  /\ [c \in Coroutines |-> NoCoroutine] \in [Coroutines -> Coroutine]
  /\ [b \in Backends |-> "Disabled"] \in [Backends -> VpnState]
  /\ [b \in Backends |-> None] \in [Backends -> VpnState \cup {None}]
  /\ [b \in Backends |-> None] \in [Backends -> ConnectionParams \cup {None}]
  /\ [state |-> "Disabled", params |-> None] \in [state : VpnState, params : ConnectionParams \cup {None}]
<1>1. "Disabled" \in VpnState /\ "Disabled" \in SelfStates /\ "Disabled" \notin UpStates
  BY DEF VpnState, SelfStates, UpStates
<1> QED
  BY <1>1, JobsTyped

\* The first process starts in the inductive invariant.
LEMMA InitIInv ==
  Init => IInv
<1> SUFFICES ASSUME Init PROVE IInv
  OBVIOUS
<1>1. ManagerInv
  BY FreshTyped DEF Init, ManagerInv
<1>2. JobInv
  BY JobsTyped DEF Init, JobInv
<1>3. CoroutineInv
  BY FreshTyped, JobsTyped DEF Init, CoroutineInv
<1>4. BackendInv
  BY FreshTyped DEF Init, BackendInv
<1>5. SeenTyped
  BY FreshTyped, JobsTyped DEF Init, SeenTyped
<1>6. EnvInv
  BY DEF Init, EnvInv
<1>7. StatusHasBackend
  BY FreshTyped DEF Init, StatusHasBackend
<1> QED
  BY <1>1, <1>2, <1>3, <1>4, <1>5, <1>6, <1>7 DEF IInv

\* The next process starts in it, with the state and the parameters that were stored.
LEMMA ProcessDiesIInv ==
  ASSUME IInv, ProcessDies
  PROVE  IInv'
<1>1. ManagerInv'
  BY FreshTyped DEF ProcessDies, ManagerInv
<1>2. JobInv'
  BY JobsTyped DEF ProcessDies, JobInv
<1>3. CoroutineInv'
  BY FreshTyped, JobsTyped DEF ProcessDies, CoroutineInv
<1>4. BackendInv'
  BY FreshTyped DEF ProcessDies, BackendInv
<1>5. SeenTyped'
  BY FreshTyped, JobsTyped DEF ProcessDies, IInv, SeenTyped
<1>6. EnvInv'
  BY DEF ProcessDies, IInv, EnvInv
<1>7. StatusHasBackend'
  BY FreshTyped DEF ProcessDies, StatusHasBackend
<1> QED
  BY <1>1, <1>2, <1>3, <1>4, <1>5, <1>6, <1>7 DEF IInv

\* Every step keeps the inductive invariant, and saves the state it leads to unless
\* the process dies.
LEMMA NextIInv ==
  ASSUME IInv, [Next]_vars
  PROVE  IInv' /\ (restarts' = restarts => Saved)
<1>1. CASE UNCHANGED vars
  <2>1. /\ UNCHANGED <<managerVars, connectVars, coroutine, switching, backendVars, savedParams, envVars>>
        /\ UNCHANGED <<seenVars, fallback>>
    BY <1>1 DEF vars
  <2>2. JobInv' /\ CoroutineInv' /\ EnvInv'
    BY <2>1, Kept DEF IInv
  <2>3. fallback' \in FallbackJob
    BY <2>1 DEF IInv, SeenTyped
  <2> QED
    BY <2>1, <2>2, <2>3, OnlyFallback DEF IInv
<1>2. CASE ProcessDies
  <2>1. restarts' = restarts + 1 /\ restarts \in Nat
    BY <1>2 DEF ProcessDies, IInv, EnvInv
  <2>2. restarts' # restarts
    BY <2>1
  <2> QED
    BY <1>2, <2>2, ProcessDiesIInv
<1>3. CASE ConnectStep \/ \E job \in orphans : OrphanActivated(job)
  BY <1>3, FirstConnectSteps, PreparingSteps, LastConnectSteps DEF ConnectStep
<1>4. CASE \E c \in Coroutines : CoroutineStep(c)
  BY <1>4, DisconnectSteps, ReconnectSteps DEF CoroutineStep
<1>5. CASE FallbackStep
  BY <1>5, FallbackSteps
<1>6. CASE \/ \E b \in Backends : Deliver(b) \/ \E st \in ReportedStates : Report(b, st) \/ SetError(b, st)
           \/ MinIntervalPasses
  BY <1>6, BackendSteps
<1>7. CASE \/ \E p \in Profiles : Connect(p)
           \/ Disconnect
           \/ \E kind \in {"reconnect", "reconnectParams"} : Reconnect(kind)
           \/ OnRestoreProcess \/ OnVpnServiceDestroyed
           \/ \E sw \in Switch : SwitchOrdered(sw)
           \/ SwitchPerformed
  BY <1>7, CommandSteps
<1> QED
  BY <1>1, <1>2, <1>3, <1>4, <1>5, <1>6, <1>7 DEF Next

-----------------------------------------------------------------------------
(***************************************************************************)
(* No backend is replaced once the certificate preferences are open.       *)
(***************************************************************************)

\* No connect job outlives its cancellation, and the one that is about to activate its
\* backend finds no other backend active.
Warm ==
    /\ orphans = {}
    /\ connect.pc = "session" => activeBackend \in {None, connect.target}

\* What a step does to an active backend.
Replaces == activeBackend # None /\ activeBackend' \notin {None, activeBackend}

\* A step that activates no backend, and leaves no other one to a job about to activate its own.
LEMMA NotActivating ==
  ASSUME ColdCertPrefs = FALSE, Warm, CancelConnect,
         activeBackend' \in {None, activeBackend},
         \/ connect' = connect
         \/ connect'.pc # "session"
         \/ activeBackend' \in {None, connect'.target}
  PROVE  Warm' /\ ~Replaces
<1>1. orphans' = {}
  BY DEF Warm, CancelConnect
<1> QED
  BY <1>1 DEF Warm, Replaces

\* The steps of the connect job.
LEMMA ConnectWarm ==
  ASSUME IInv, ColdCertPrefs = FALSE, Warm, ConnectStep
  PROVE  Warm' /\ ~Replaces
<1>1. connect \in ConnectJob
  BY DEF IInv, JobInv, GoodJob
<1>2. CASE SmartConnect \/ Announced
  <2>1. orphans' = orphans /\ activeBackend' \in {None, activeBackend}
    BY <1>2 DEF SmartConnect, Announced, DisconnectForNewConnection
  <2>2. connect'.pc \in {"scan", "oldDown", "announce"}
    BY <1>1, <1>2 DEF SmartConnect, Announced, DisconnectForNewConnection, ConnectJob
  <2> QED
    BY <2>1, <2>2, NotActivating DEF CancelConnect
<1>3. CASE ConnectAborted \/ ServerNotAvailable \/ NothingPrepared \/ TunnelConnected
  <2>1. orphans' = orphans /\ activeBackend' = activeBackend /\ connect' = NoConnect
    BY <1>3 DEF ConnectAborted, ServerNotAvailable, NothingPrepared, TunnelConnected, managerVars
  <2>2. connect'.pc # "session"
    BY <2>1, JobsTyped
  <2> QED
    BY <2>1, <2>2, NotActivating DEF CancelConnect
<1>4. CASE OldBackendDown
  <2>1. orphans' = orphans /\ activeBackend' = activeBackend /\ connect'.pc = "scan"
    BY <1>1, <1>4 DEF OldBackendDown, ConnectJob
  <2> QED
    BY <2>1, NotActivating DEF CancelConnect
<1>5. ASSUME NEW b \in Backends, PreparedConnect(b) PROVE Warm' /\ ~Replaces
  <2>1. orphans' = orphans /\ activeBackend' = activeBackend
    BY <1>5 DEF PreparedConnect
  <2>2. CASE activeBackend \in {None, b}
    <3>1. connect'.target = b
      BY <1>1, <1>5, <2>2 DEF PreparedConnect, ConnectJob
    <3> QED
      BY <2>1, <2>2, <3>1, NotActivating DEF CancelConnect
  <2>3. CASE activeBackend \notin {None, b}
    <3>1. connect'.pc = "swapDown"
      BY <1>1, <1>5, <2>3 DEF PreparedConnect, ConnectJob
    <3> QED
      BY <2>1, <3>1, NotActivating DEF CancelConnect
  <2> QED
    BY <2>2, <2>3
<1>6. CASE OtherBackendDown
  <2>1. orphans' = orphans /\ activeBackend' = None
    BY <1>6 DEF OtherBackendDown, ForgetBackend
  <2> QED
    BY <2>1, NotActivating DEF CancelConnect
<1>7. CASE BackendActivated
  <2>1. orphans' = {} /\ activeBackend \in {None, connect.target}
    BY <1>7 DEF BackendActivated, ConnectAt, Warm
  <2>2. connect'.pc # "session"
    BY <1>1, <1>7, JobsTyped DEF BackendActivated, ConnectJob
  <2>3. activeBackend' \in {activeBackend, connect.target}
    BY <1>7 DEF BackendActivated, ActivateBackend, NoCertificate
  <2> QED
    BY <2>1, <2>2, <2>3 DEF Warm, Replaces
<1> QED
  BY <1>2, <1>3, <1>4, <1>5, <1>6, <1>7 DEF ConnectStep

\* The steps of the untracked coroutines.
LEMMA CoroutineWarm ==
  ASSUME IInv, ColdCertPrefs = FALSE, Warm, NEW c \in Coroutines, CoroutineStep(c)
  PROVE  Warm' /\ ~Replaces
<1>1. \A p \in Profiles : StartJob(p).pc = "start"
  BY JobsTyped
<1>2. lastProfile \in Profiles \cup {None}
  BY DEF IInv, ManagerInv
<1>3. CASE DisconnectBlocking(c) \/ Disconnected(c)
  <2>1. activeBackend' \in {None, activeBackend}
    BY <1>3 DEF DisconnectBlocking, Disconnected, ForgetBackend
  <2>2. \/ UNCHANGED connectVars
        \/ lastProfile # None /\ LaunchConnect(StartJob(lastProfile))
    BY <1>3 DEF DisconnectBlocking, Disconnected, AfterDisconnect, ConnectsAgain
  <2>3. CancelConnect /\ (connect' = connect \/ connect'.pc # "session")
    BY <1>1, <1>2, <2>2 DEF connectVars, LaunchConnect, CancelConnect
  <2> QED
    BY <2>1, <2>3, NotActivating
<1>4. CASE ReconnectWithCurrentParams(c)
  <2>1. activeBackend' = activeBackend /\ CancelConnect
    BY <1>4 DEF ReconnectWithCurrentParams, managerVars
  <2>2. connect' = NoConnect \/ (lastProfile # None /\ connect' = StartJob(lastProfile))
    BY <1>4 DEF ReconnectWithCurrentParams
  <2>3. connect'.pc # "session"
    BY <1>1, <1>2, <2>2, JobsTyped
  <2> QED
    BY <2>1, <2>3, NotActivating
<1>5. CASE BackendRestarts(c) \/ TunnelRestarted(c)
  <2>1. activeBackend' = activeBackend /\ connect' = connect /\ orphans' = orphans
    BY <1>5 DEF BackendRestarts, TunnelRestarted, managerVars, connectVars
  <2> QED
    BY <2>1, NotActivating DEF CancelConnect
<1> QED
  BY <1>3, <1>4, <1>5 DEF CoroutineStep

\* The fallback job, the switches and the commands.
LEMMA CommandWarm ==
  ASSUME IInv, ColdCertPrefs = FALSE, Warm,
         \/ FallbackStep
         \/ \E p \in Profiles : Connect(p)
         \/ Disconnect
         \/ \E kind \in {"reconnect", "reconnectParams"} : Reconnect(kind)
         \/ OnRestoreProcess \/ OnVpnServiceDestroyed
         \/ \E sw \in Switch : SwitchOrdered(sw)
         \/ SwitchPerformed
  PROVE  Warm' /\ ~Replaces
<1>1. ASSUME activeBackend' = activeBackend, UNCHANGED connectVars PROVE Warm' /\ ~Replaces
  BY <1>1, NotActivating DEF connectVars, CancelConnect
<1>2. ASSUME activeBackend' = activeBackend, NEW STATE job, job.pc # "session", LaunchConnect(job)
      PROVE  Warm' /\ ~Replaces
  BY <1>2, NotActivating DEF LaunchConnect
<1>3. ASSUME activeBackend' = activeBackend, LaunchDisconnect PROVE Warm' /\ ~Replaces
  BY <1>3, NotActivating, JobsTyped DEF LaunchDisconnect
<1>4. ASSUME activeBackend' = activeBackend, NEW STATE p, p \in Profiles, LaunchConnect(StartJob(p))
      PROVE  Warm' /\ ~Replaces
  <2>1. StartJob(p).pc # "session"
    BY <1>4, JobsTyped
  <2> QED
    BY <1>2, <1>4, <2>1
<1>5. ASSUME activeBackend' = activeBackend, NEW STATE sw, sw \in Switch, NEW STATE fb, FallbackConnect(sw, fb)
      PROVE  Warm' /\ ~Replaces
  <2>1. sw.kind \in {"profile", "server", "abort"} /\ sw.profile \in Profiles /\ sw.backend \in Backends
    BY <1>5 DEF Switch
  <2>2. CASE sw.kind = "profile"
    BY <1>4, <1>5, <2>1, <2>2 DEF FallbackConnect
  <2>3. CASE sw.kind = "server"
    <3>1. PreparedJob(sw.profile, sw.backend).pc # "session"
      BY <2>1, JobsTyped
    <3>2. LaunchConnect(PreparedJob(sw.profile, sw.backend))
      BY <1>5, <2>3 DEF FallbackConnect
    <3> QED
      BY <1>2, <1>5, <3>1, <3>2
  <2>4. CASE sw.kind = "abort"
    BY <1>1, <1>5, <2>4 DEF FallbackConnect
  <2> QED
    BY <2>1, <2>2, <2>3, <2>4
<1>6. CASE HandleRecoverableError \/ FallbackEnds \/ FallbackFails \/ OnVpnServiceDestroyed
           \/ (\E kind \in {"reconnect", "reconnectParams"} : Reconnect(kind))
           \/ \E sw \in Switch : SwitchOrdered(sw)
  <2>1. activeBackend' = activeBackend /\ UNCHANGED connectVars
    BY <1>6 DEF HandleRecoverableError, FallbackEnds, FallbackFails, OnVpnServiceDestroyed, Reconnect,
                SwitchOrdered, managerVars
  <2> QED
    BY <1>1, <2>1
<1>7. CASE FallbackDisconnects \/ Disconnect
  BY <1>3, <1>7 DEF FallbackDisconnects, Disconnect, managerVars
<1>8. ASSUME NEW sw \in Switch, FallbackSwitches(sw) PROVE Warm' /\ ~Replaces
  BY <1>5, <1>8 DEF FallbackSwitches, managerVars
<1>9. CASE SwitchPerformed
  <2>1. switching \in Switch /\ FallbackConnect(switching, fallback) /\ activeBackend' = activeBackend
    BY <1>9 DEF SwitchPerformed, managerVars, IInv, CoroutineInv
  <2> QED
    BY <1>5, <2>1
<1>10. ASSUME NEW p \in Profiles, Connect(p) PROVE Warm' /\ ~Replaces
  BY <1>4, <1>10 DEF Connect, managerVars
<1>11. CASE OnRestoreProcess
  <2>1. savedParams.profile \in Profiles /\ Connect(savedParams.profile)
    BY <1>11 DEF OnRestoreProcess, IInv, EnvInv, ConnectionParams
  <2> QED
    BY <1>10, <2>1
<1> QED
  BY <1>6, <1>7, <1>8, <1>9, <1>10, <1>11 DEF FallbackStep

\* Every step keeps Warm and replaces no backend.
LEMMA NextWarm ==
  ASSUME IInv, ColdCertPrefs = FALSE, Warm, [Next]_vars
  PROVE  Warm' /\ ~Replaces
<1>1. CASE \/ UNCHANGED vars \/ MinIntervalPasses
           \/ \E b \in Backends : Deliver(b) \/ \E st \in ReportedStates : Report(b, st) \/ SetError(b, st)
  <2>1. activeBackend' = activeBackend /\ connect' = connect /\ orphans' = orphans
    BY <1>1 DEF vars, MinIntervalPasses, Deliver, Report, SetError, managerVars, connectVars
  <2> QED
    BY <2>1, NotActivating DEF CancelConnect
<1>2. CASE ProcessDies
  <2>1. activeBackend' = None /\ orphans' = {}
    BY <1>2 DEF ProcessDies
  <2> QED
    BY <2>1 DEF Warm, Replaces
<1>3. CASE \E job \in orphans : OrphanActivated(job)
  BY <1>3 DEF Warm
<1>4. CASE ConnectStep
  BY <1>4, ConnectWarm
<1>5. CASE \E c \in Coroutines : CoroutineStep(c)
  BY <1>5, CoroutineWarm
<1>6. CASE \/ FallbackStep
           \/ \E p \in Profiles : Connect(p)
           \/ Disconnect
           \/ \E kind \in {"reconnect", "reconnectParams"} : Reconnect(kind)
           \/ OnRestoreProcess \/ OnVpnServiceDestroyed
           \/ \E sw \in Switch : SwitchOrdered(sw)
           \/ SwitchPerformed
  BY <1>6, CommandWarm
<1> QED
  BY <1>1, <1>2, <1>3, <1>4, <1>5, <1>6 DEF Next

-----------------------------------------------------------------------------
(***************************************************************************)
(* A disconnect wins once the certificate preferences are open.            *)
(***************************************************************************)

\* What the disconnect coroutines leave once they have all begun: the manager's
\* own state is Disabled, it is published when no backend is active, and an active
\* backend will be forgotten by a coroutine that waits for it to go down.
Settled ==
    /\ selfState = "Disabled"
    /\ activeBackend = None => connectionParams = None /\ status.state = "Disabled"
    /\ activeBackend # None =>
          \E c \in Coroutines : coroutine[c].kind = "disconnect" /\ coroutine[c].pc = "down"

\* Since a disconnect was requested no connect job exists, and nothing but the
\* disconnect coroutine that has yet to begin stands against Settled.
Settling ==
    lastRequest = "disconnect" => connect = NoConnect /\ (DisconnectStarted => Settled)

\* A new request to connect.
LEMMA RequestUnsettles ==
  ASSUME lastRequest' = "connect"
  PROVE  Settling'
  BY DEF Settling

\* A step that leaves the requests and the manager alone and publishes nothing
\* while no backend is active.
LEMMA StillSettling ==
  ASSUME Settling, UNCHANGED <<managerVars, connect, lastRequest, coroutine>>,
         activeBackend = None => status' = status
  PROVE  Settling'
  BY DEF Settling, Settled, DisconnectStarted, managerVars

\* A backend enters a state: the application sees it only if it is the active one.
LEMMA EnteringSettling ==
  ASSUME IInv, NEW STATE b, b \in Backends, NEW STATE st,
         BackendEnters(b, st) \/ TunnelEnds(b) \/ NotObserved(fallback)
  PROVE  activeBackend = None => status' = status
<1>1. b # None
  BY NoneAssumption
<1> QED
  BY <1>1 DEF BackendEnters, TunnelEnds, NotObserved, seenVars

\* The connect job runs only on behalf of a request to connect.
LEMMA ConnectSettling ==
  ASSUME Settling, ConnectStep
  PROVE  Settling'
<1>1. connect.pc # "none" /\ lastRequest' = lastRequest
  BY DEF ConnectStep, SmartConnect, Announced, ConnectAborted, ServerNotAvailable, OldBackendDown,
         NothingPrepared, PreparedConnect, OtherBackendDown, BackendActivated, TunnelConnected, ConnectAt
<1>2. lastRequest # "disconnect"
  BY <1>1, JobsTyped DEF Settling
<1> QED
  BY <1>1, <1>2 DEF Settling

\* disconnect: what its coroutine has to do is still to be done.
LEMMA DisconnectSettling ==
  ASSUME IInv, LaunchDisconnect
  PROVE  Settling'
<1> DEFINE new == [NoCoroutine EXCEPT !.kind = "disconnect", !.pc = "queued"]
<1>1. PICK c \in Coroutines : coroutine' = [coroutine EXCEPT ![c] = new]
  BY DEF LaunchDisconnect, Launch
<1>2. new.kind = "disconnect" /\ new.pc = "queued"
  BY DEF NoCoroutine
<1>3. coroutine'[c] = new
  BY <1>1 DEF IInv, CoroutineInv
<1>4. ~DisconnectStarted'
  BY <1>2, <1>3 DEF DisconnectStarted
<1>5. connect' = NoConnect
  BY DEF LaunchDisconnect
<1> QED
  BY <1>4, <1>5 DEF Settling

\* A coroutine that is no disconnect goes on.
LEMMA OtherCoroutineSettling ==
  ASSUME Settling, NEW c \in Coroutines,
         coroutine[c].kind # "disconnect" \/ coroutine[c].pc \notin {"queued", "down"},
         \A d \in Coroutines \ {c} : coroutine'[d] = coroutine[d],
         UNCHANGED <<managerVars, lastRequest>>,
         connect' \in {connect, NoConnect},
         activeBackend = None => status' = status
  PROVE  Settling'
<1>1. DisconnectStarted' => DisconnectStarted
  BY DEF DisconnectStarted
<1>2. /\ selfState' = selfState /\ activeBackend' = activeBackend
      /\ connectionParams' = connectionParams
  BY DEF managerVars
<1>3. Settled => Settled'
  BY <1>2 DEF Settled
<1> QED
  BY <1>1, <1>3 DEF Settling

\* disconnectBlocking up to the suspension in activeBackend.disconnect().
LEMMA BlockingSettling ==
  ASSUME IInv, Settling, NEW c \in Coroutines, DisconnectBlocking(c)
  PROVE  Settling'
<1>1. coroutine \in [Coroutines -> Coroutine]
  BY DEF IInv, CoroutineInv
<1>2. CASE activeBackend = None
  <2>1. /\ selfState' = "Disabled" /\ connectionParams' = None /\ activeBackend' = None
        /\ Observe("Disabled", FallbackLeft(c), connectionParams)
        /\ AfterDisconnect(c)
    BY <1>2 DEF DisconnectBlocking
  <2>2. status' = [state |-> "Disabled", params |-> connectionParams]
    BY <2>1 DEF Observe, Publish, RecoverableErrors
  <2>3. Settled'
    BY <2>1, <2>2 DEF Settled
  <2>4. CASE ConnectsAgain(c)
    BY <2>1, <2>4, RequestUnsettles DEF AfterDisconnect, LaunchConnect
  <2>5. CASE ~ConnectsAgain(c)
    <3>1. connect' = connect /\ lastRequest' = lastRequest
      BY <2>1, <2>5 DEF AfterDisconnect, connectVars
    <3> QED
      BY <2>3, <3>1 DEF Settling
  <2> QED
    BY <2>4, <2>5
<1>3. CASE activeBackend # None
  <2> DEFINE new == [coroutine[c] EXCEPT !.pc = "down", !.backend = activeBackend]
  <2>1. /\ selfState' = "Disabled" /\ coroutine[c].pc = "queued"
        /\ coroutine' = [coroutine EXCEPT ![c] = new]
        /\ UNCHANGED <<activeBackend, connectionParams, connect, lastRequest>>
    BY <1>1, <1>3 DEF DisconnectBlocking, StartDisconnect, connectVars
  <2>2. coroutine'[c] = new /\ \A d \in Coroutines \ {c} : coroutine'[d] = coroutine[d]
    BY <1>1, <2>1
  <2>3. new.kind = coroutine[c].kind /\ new.pc = "down"
    BY <1>1 DEF Coroutine
  <2>4. CASE coroutine[c].kind = "disconnect"
    <3>1. Settled'
      BY <1>3, <2>1, <2>2, <2>3, <2>4 DEF Settled
    <3> QED
      BY <2>1, <3>1 DEF Settling
  <2>5. CASE coroutine[c].kind # "disconnect"
    <3>1. DisconnectStarted' => DisconnectStarted
      BY <2>2, <2>5 DEF DisconnectStarted
    <3>2. Settled => Settled'
      BY <1>3, <2>1, <2>2, <2>5 DEF Settled
    <3> QED
      BY <2>1, <3>1, <3>2 DEF Settling
  <2> QED
    BY <2>4, <2>5
<1> QED
  BY <1>2, <1>3

\* The end of disconnectBlocking forgets the backend, whichever it is by then.
LEMMA DisconnectedSettling ==
  ASSUME IInv, Settling, NEW c \in Coroutines, Disconnected(c)
  PROVE  Settling'
<1>1. coroutine \in [Coroutines -> Coroutine]
  BY DEF IInv, CoroutineInv
<1>2. /\ activeBackend' = None /\ connectionParams' = None /\ selfState' = selfState
      /\ AfterDisconnect(c) /\ coroutine[c].pc = "down"
      /\ IF activeBackend # None THEN Observe(selfState, FallbackLeft(c), connectionParams)
                                 ELSE NotObserved(FallbackLeft(c))
  BY DEF Disconnected, ForgetBackend
<1>3. CASE ConnectsAgain(c)
  BY <1>2, <1>3, RequestUnsettles DEF AfterDisconnect, LaunchConnect
<1>4. CASE ~ConnectsAgain(c)
  <2>1. connect' = connect /\ lastRequest' = lastRequest
    BY <1>2, <1>4 DEF AfterDisconnect, connectVars
  <2>2. \A d \in Coroutines \ {c} : coroutine'[d] = coroutine[d]
    BY <1>1, <1>2 DEF AfterDisconnect
  <2>3. DisconnectStarted' => DisconnectStarted
    BY <1>2, <2>2 DEF DisconnectStarted
  <2>4. ASSUME Settled PROVE Settled'
    <3>1. selfState = "Disabled"
      BY <2>4 DEF Settled
    <3>2. CASE activeBackend # None
      <4>1. status' = [state |-> "Disabled", params |-> connectionParams]
        BY <1>2, <3>1, <3>2 DEF Observe, Publish, RecoverableErrors
      <4> QED
        BY <1>2, <3>1, <4>1 DEF Settled
    <3>3. CASE activeBackend = None
      BY <1>2, <2>4, <3>1, <3>3 DEF Settled, NotObserved, seenVars
    <3> QED
      BY <3>2, <3>3
  <2> QED
    BY <2>1, <2>3, <2>4 DEF Settling
<1> QED
  BY <1>3, <1>4

\* The steps of the untracked coroutines.
LEMMA CoroutineSettling ==
  ASSUME IInv, Settling, NEW c \in Coroutines, CoroutineStep(c)
  PROVE  Settling'
<1>1. coroutine \in [Coroutines -> Coroutine]
  BY DEF IInv, CoroutineInv
<1>2. CASE ReconnectWithCurrentParams(c)
  <2>1. CASE lastRequest' = "connect"
    BY <2>1, RequestUnsettles
  <2>2. CASE lastRequest' # "connect"
    <3>1. lastRequest' = lastRequest /\ connect' = NoConnect
      BY <1>2, <2>2 DEF ReconnectWithCurrentParams
    <3>2. \A d \in Coroutines \ {c} : coroutine'[d] = coroutine[d]
      BY <1>1, <1>2 DEF ReconnectWithCurrentParams
    <3>3. coroutine[c].kind # "disconnect" /\ UNCHANGED <<managerVars, status>>
      BY <1>2 DEF ReconnectWithCurrentParams, seenVars
    <3> QED
      BY <3>1, <3>2, <3>3, OtherCoroutineSettling
  <2> QED
    BY <2>1, <2>2
<1>3. CASE BackendRestarts(c) \/ TunnelRestarted(c)
  <2>1. UNCHANGED <<managerVars, lastRequest, connect>>
    BY <1>3 DEF BackendRestarts, TunnelRestarted, connectVars
  <2>2. \A d \in Coroutines \ {c} : coroutine'[d] = coroutine[d]
    BY <1>1, <1>3 DEF BackendRestarts, TunnelRestarted
  <2>3. /\ coroutine[c].kind # "disconnect" \/ coroutine[c].pc \notin {"queued", "down"}
        /\ coroutine[c].pc \in {"down", "up"}
    BY <1>3 DEF BackendRestarts, TunnelRestarted
  <2>4. coroutine[c].backend \in Backends
    BY <2>3 DEF IInv, CoroutineInv
  <2>5. \/ BackendEnters(coroutine[c].backend, "Disabled")
        \/ TunnelEnds(coroutine[c].backend) \/ NotObserved(fallback)
    BY <1>3 DEF BackendRestarts, TunnelRestarted
  <2>6. activeBackend = None => status' = status
    BY <2>4, <2>5, EnteringSettling
  <2> QED
    BY <2>1, <2>2, <2>3, <2>6, OtherCoroutineSettling
<1> QED
  BY <1>2, <1>3, BlockingSettling, DisconnectedSettling DEF CoroutineStep

\* The switches that the fallback job and the error handler order.
LEMMA SwitchSettling ==
  ASSUME Settling, NEW STATE sw, sw \in Switch, NEW STATE fb, FallbackConnect(sw, fb),
         UNCHANGED <<managerVars, coroutine, status>>
  PROVE  Settling'
<1>1. sw.kind \in {"profile", "server", "abort"}
  BY DEF Switch
<1>2. lastRequest' = "connect" \/ UNCHANGED connectVars
  BY <1>1 DEF FallbackConnect, LaunchConnect
<1> QED
  BY <1>2, RequestUnsettles, StillSettling DEF connectVars

\* The steps of the fallback job: it recovers only with the parameters of an
\* active backend.
LEMMA FallbackSettling ==
  ASSUME IInv, Settling, FallbackStep
  PROVE  Settling'
<1>1. CASE HandleRecoverableError
  <2>1. /\ DisconnectStarted /\ connectionParams # None
        /\ UNCHANGED <<managerVars, connectVars, coroutine>>
    BY <1>1 DEF HandleRecoverableError, FallbackAt
  <2>2. CASE lastRequest = "disconnect"
    <3>1. activeBackend # None
      BY <2>1, <2>2 DEF Settling, Settled
    <3> QED
      BY <2>1, <3>1, StillSettling DEF connectVars
  <2>3. CASE lastRequest # "disconnect"
    BY <2>1, <2>3 DEF Settling, connectVars
  <2> QED
    BY <2>2, <2>3
<1>2. CASE FallbackEnds \/ FallbackFails
  <2>1. UNCHANGED <<managerVars, connectVars, coroutine>> /\ (activeBackend = None => status' = status)
    BY <1>2 DEF FallbackEnds, FallbackFails, seenVars
  <2> QED
    BY <2>1, StillSettling DEF connectVars
<1>3. CASE FallbackDisconnects
  BY <1>3, DisconnectSettling DEF FallbackDisconnects
<1>4. ASSUME NEW sw \in Switch, FallbackSwitches(sw) PROVE Settling'
  BY <1>4, SwitchSettling DEF FallbackSwitches, seenVars
<1> QED
  BY <1>1, <1>2, <1>3, <1>4 DEF FallbackStep

\* The commands and the switches of the error handler.
LEMMA CommandSettling ==
  ASSUME IInv, Settling,
         \/ \E p \in Profiles : Connect(p)
         \/ Disconnect
         \/ \E kind \in {"reconnect", "reconnectParams"} : Reconnect(kind)
         \/ OnRestoreProcess \/ OnVpnServiceDestroyed
         \/ \E sw \in Switch : SwitchOrdered(sw)
         \/ SwitchPerformed
  PROVE  Settling'
<1>1. CASE (\E p \in Profiles : Connect(p)) \/ OnRestoreProcess
  BY <1>1, RequestUnsettles DEF Connect, OnRestoreProcess, LaunchConnect
<1>2. CASE Disconnect
  BY <1>2, DisconnectSettling DEF Disconnect
<1>3. ASSUME NEW kind \in {"reconnect", "reconnectParams"}, Reconnect(kind) PROVE Settling'
  <2>1. PICK c \in Coroutines :
          /\ coroutine[c] = NoCoroutine
          /\ coroutine' = [coroutine EXCEPT ![c] = [NoCoroutine EXCEPT !.kind = kind, !.pc = "queued"]]
    BY <1>3 DEF Reconnect, Launch
  <2>2. \A d \in Coroutines \ {c} : coroutine'[d] = coroutine[d]
    BY <2>1 DEF IInv, CoroutineInv
  <2>3. coroutine[c].pc = "none"
    BY <2>1, JobsTyped
  <2>4. UNCHANGED <<managerVars, connect, lastRequest, status>>
    BY <1>3 DEF Reconnect, connectVars, seenVars
  <2> QED
    BY <2>2, <2>3, <2>4, OtherCoroutineSettling
<1>4. CASE OnVpnServiceDestroyed \/ \E sw \in Switch : SwitchOrdered(sw)
  <2>1. UNCHANGED <<managerVars, connect, lastRequest, coroutine, status>>
    BY <1>4 DEF OnVpnServiceDestroyed, SwitchOrdered, connectVars, seenVars
  <2> QED
    BY <2>1, StillSettling
<1>5. CASE SwitchPerformed
  <2>1. switching \in Switch /\ FallbackConnect(switching, fallback)
    BY <1>5 DEF SwitchPerformed, IInv, CoroutineInv
  <2>2. UNCHANGED <<managerVars, coroutine, status>>
    BY <1>5 DEF SwitchPerformed, seenVars
  <2> QED
    BY <2>1, <2>2, SwitchSettling
<1> QED
  BY <1>1, <1>2, <1>3, <1>4, <1>5

\* Every step keeps Settling as long as no cancelled job goes on.
LEMMA NextSettling ==
  ASSUME IInv, Warm, Settling, [Next]_vars
  PROVE  Settling'
<1>1. CASE UNCHANGED vars \/ MinIntervalPasses
  <2>1. UNCHANGED <<managerVars, connect, lastRequest, coroutine, status>>
    BY <1>1 DEF vars, MinIntervalPasses, connectVars, seenVars
  <2> QED
    BY <2>1, StillSettling
<1>2. ASSUME NEW b \in Backends,
             Deliver(b) \/ \E st \in ReportedStates : Report(b, st) \/ SetError(b, st)
      PROVE  Settling'
  <2>1. UNCHANGED <<managerVars, connect, lastRequest, coroutine>>
    BY <1>2 DEF Deliver, Report, SetError, connectVars
  <2>2. \/ BackendEnters(b, posted[b]) \/ (\E st \in ReportedStates : BackendEnters(b, st))
        \/ UNCHANGED status
    BY <1>2 DEF Deliver, Report, SetError, seenVars
  <2>3. activeBackend = None => status' = status
    <3>1. b # None
      BY NoneAssumption
    <3> QED
      BY <2>2, <3>1 DEF BackendEnters, NotObserved, seenVars
  <2> QED
    BY <2>1, <2>3, StillSettling
<1>3. CASE ProcessDies
  BY <1>3 DEF ProcessDies, Settling, Settled
<1>4. CASE \E job \in orphans : OrphanActivated(job)
  BY <1>4 DEF Warm
<1>5. CASE ConnectStep
  BY <1>5, ConnectSettling
<1>6. CASE \E c \in Coroutines : CoroutineStep(c)
  BY <1>6, CoroutineSettling
<1>7. CASE FallbackStep
  BY <1>7, FallbackSettling
<1>8. CASE \/ \E p \in Profiles : Connect(p)
           \/ Disconnect
           \/ \E kind \in {"reconnect", "reconnectParams"} : Reconnect(kind)
           \/ OnRestoreProcess \/ OnVpnServiceDestroyed
           \/ \E sw \in Switch : SwitchOrdered(sw)
           \/ SwitchPerformed
  BY <1>8, CommandSettling
<1> QED
  BY <1>1, <1>2, <1>3, <1>4, <1>5, <1>6, <1>7, <1>8 DEF Next

-----------------------------------------------------------------------------
(***************************************************************************)
(* Theorems                                                                *)
(***************************************************************************)

\* The inductive invariant holds in every reachable state.
THEOREM Invariance == Spec => []IInv
<1>1. Init => IInv
  BY InitIInv
<1>2. IInv /\ [Next]_vars => IInv'
  BY NextIInv
<1> QED
  BY <1>1, <1>2, PTL DEF Spec

\* Type correctness of the manager, its coroutines and the backends.
THEOREM TypeCorrect == Spec => []TypeOK
<1>1. IInv => TypeOK
  BY DEF IInv, ManagerInv, JobInv, GoodJob, CoroutineInv, BackendInv, SeenTyped, EnvInv, TypeOK
<1> QED
  BY <1>1, Invariance, PTL

\* The assertion of the observer (VpnConnectionManager.kt:170-177) never fails: a state
\* that says that the VPN is up or coming up has an active backend and parameters.
THEOREM UpStatesHaveBackend == Spec => []UpHasBackend
<1>1. IInv => UpHasBackend
  BY SelfStatesLemma DEF IInv, ManagerInv, UpHasBackend, StateInternal
<1> QED
  BY <1>1, Invariance, PTL

\* The application is never shown a VPN that is up or coming up without parameters
\* or without an active backend.
THEOREM StatusesHaveBackend == Spec => []StatusHasBackend
<1>1. IInv => StatusHasBackend
  BY DEF IInv
<1> QED
  BY <1>1, Invariance, PTL

\* Every change of the state is saved in the step that makes it, for onRestoreProcess.
THEOREM StatesAreSaved == Spec => StateIsSaved
<1>1. IInv /\ [Next]_vars =>
        [StateInternal' # StateInternal /\ restarts' = restarts => savedState' = StateInternal']_vars
  BY NextIInv DEF Saved
<1> QED
  BY <1>1, Invariance, PTL DEF Spec, StateIsSaved

\* With open certificate preferences the assertion of activateBackend
\* (VpnConnectionManager.kt:209) never fails: the active backend is replaced only after
\* it was disconnected and forgotten, whatever the coroutines interleave.
THEOREM BackendsAreNotReplaced ==
  ColdCertPrefs = FALSE => (Spec => NoBackendReplaced)
<1> SUFFICES ASSUME ColdCertPrefs = FALSE PROVE Spec => NoBackendReplaced
  OBVIOUS
<1>1. Init => Warm
  BY JobsTyped DEF Init, Warm
<1>2. IInv /\ Warm /\ [Next]_vars =>
        Warm' /\ [activeBackend # None => activeBackend' \in {None, activeBackend}]_vars
  BY NextWarm DEF Replaces
<1> QED
  BY <1>1, <1>2, Invariance, PTL DEF Spec, NoBackendReplaced

\* With open certificate preferences disconnect wins: when it was the last request
\* to be executed and every coroutine has ended, no backend is active and the VPN is
\* shown as disabled, whatever errors, fallbacks and reconnections met it.
THEOREM DisconnectsSettle ==
  ColdCertPrefs = FALSE => (Spec => []DisconnectSettles)
<1> SUFFICES ASSUME ColdCertPrefs = FALSE PROVE Spec => []DisconnectSettles
  OBVIOUS
<1>1. Init => Warm /\ Settling
  <2> SUFFICES ASSUME Init PROVE Warm /\ Settling
    OBVIOUS
  <2>1. Warm
    BY JobsTyped DEF Init, Warm
  <2>2. Settled
    BY DEF Init, Settled
  <2> QED
    BY <2>1, <2>2 DEF Init, Settling
<1>2. IInv /\ Warm /\ Settling /\ [Next]_vars => Warm' /\ Settling'
  BY NextWarm, NextSettling
<1>3. Settling => DisconnectSettles
  <2> SUFFICES ASSUME Settling, Quiescent, lastRequest = "disconnect"
               PROVE  activeBackend = None /\ status.state = "Disabled"
    BY DEF DisconnectSettles
  <2>1. \A c \in Coroutines : coroutine[c].pc = "none"
    BY JobsTyped DEF Quiescent
  <2>2. Settled
    BY <2>1 DEF Settling, DisconnectStarted
  <2> QED
    BY <2>1, <2>2 DEF Settled
<1> QED
  BY <1>1, <1>2, <1>3, Invariance, PTL DEF Spec
=============================================================================
