----------------------------- MODULE VpnBackend -----------------------------
(***************************************************************************)
(* VpnBackend and WireguardBackend: the tunnel, the local agent connection  *)
(* inside it, and the coroutines that open, close and reconnect them.      *)
(*                                                                         *)
(* The backend's coroutines run on the main thread; a step is what runs    *)
(* between two suspensions.  The tunnel's operations run one by one on     *)
(* wireGuardIo, and its states come back through the monitoring job.  The  *)
(* callbacks of an agent run on a thread of the agent's library and work   *)
(* on the same fields without a lock: the main thread may run between what *)
(* a callback reads and what it does.                                      *)
(* VpnConnectionManager appears as the three commands that reach a backend: *)
(* a connect job that the next command cancels, and the untracked          *)
(* coroutines of disconnect and reconnectWithCurrentParams.                *)
(*                                                                         *)
(* The session is signed in and the local agent enabled.  No callback of   *)
(* an agent begins after its close(), but one that has begun goes on; there *)
(* is one at a time.                                                       *)
(***************************************************************************)
EXTENDS Naturals, Sequences, FiniteSets

CONSTANTS MaxJobs,      \* coroutines at one time
          MaxCommands,  \* commands of the manager
          MaxInputs,    \* commands and changes of the tunnel, the agent and the
                        \* certificate together
          Commands,     \* those the manager gives
          AgentErrors,  \* what an agent may report besides its states
          Flaps         \* may a connected tunnel connect again by itself

ASSUME BackendAssumption ==
    /\ MaxJobs \in Nat /\ MaxCommands \in Nat /\ MaxInputs \in Nat
    /\ Commands \subseteq {"connect", "disconnect", "reconnect"}
    /\ AgentErrors \subseteq {"expired", "unknownCA", "revoked", "fatal"}
    /\ Flaps \in BOOLEAN

VARIABLES
    b,        \* the fields of the backend and its coroutines
    callback, \* the callback of an agent that is under way, and whether one ever did
              \* something after the main thread had changed what it had read
    manager,  \* activeBackend, lastProfile, ongoingConnect, the last command, and
              \* whether a disconnect found a backend
    cert,     \* the certificate and the request for one, of CertificateRepository
    wg,       \* the tunnel: its state, its key, whose coroutine opened it, what the
              \* monitoring job has read, and whether it ever changed when connected
    count     \* commands given and events so far

vars == <<b, callback, manager, cert, wg, count>>

Job == 1..MaxJobs

MoreInputs == count.commands + count.events < MaxInputs

VpnStates == {"Disabled", "Disconnecting", "Connecting", "Connected", "Error"}

JobRecord ==
    [kind : {"none", "agent", "expired", "unknownCA", "revoked", "fail",
             "connect", "disconnect", "reconnect"},
     phase : {"ended", "ready", "session", "await", "got", "refused", "yield",
              "delay", "down", "prepare", "up", "run"},
     cancelled : BOOLEAN, key : Nat]

\* A coroutine at one of its suspension points, or while it runs.
JobAt(kind, phase) == [kind |-> kind, phase |-> phase, cancelled |-> FALSE, key |-> 0]

NoJob == JobAt("none", "ended")

\* key counts the keys generated so far; a tunnel keeps the one it was opened with.
BackendRecord ==
    [vpnProtocolState : VpnStates, selfState : VpnStates \cup {"Failed"},
     posted : VpnStates \cup {"none"},
     agent : {"null", "Connecting", "Connected", "Unreachable", "expired", "unknownCA"},
     strays : Nat, late : BOOLEAN,
     agentConnectionJob : Job \cup {0}, reconnectionJob : Job \cup {0},
     evicting : Nat, jobs : [Job -> JobRecord],
     ready : Seq(Job), delays : Seq(Job), wireGuardIo : Seq(Job)]

\* A callback and what it does next.  vpnState is the vpnProtocolState that onState
\* has read; onError reads none.
CallbackRecord ==
    [step : {"idle", "read", "connect", "act", "post"},
     report : {"none", "Connected", "Unreachable", "expired", "unknownCA", "revoked", "fatal"},
     vpnState : VpnStates \cup {"none"}, raced : BOOLEAN]

CallbackAt(step, report, vpnState, raced) ==
    [step |-> step, report |-> report, vpnState |-> vpnState, raced |-> raced]

\* Coroutines of the given phases wait in the queue, each in one place.
Waiting(queue, jobs, phases) ==
    /\ \A k \in DOMAIN queue : jobs[queue[k]].phase \in phases
    /\ \A k, l \in DOMAIN queue : queue[k] = queue[l] => k = l

\* Between two steps no coroutine runs.  A final error is set, never posted: what is
\* posted may be replaced before it is seen.
TypeOK ==
    /\ b \in BackendRecord
    /\ callback \in CallbackRecord
    /\ Waiting(b.ready, b.jobs, {"ready"})
    /\ Waiting(b.delays, b.jobs, {"delay"})
    /\ Waiting(b.wireGuardIo, b.jobs, {"down", "up"})
    /\ \A i \in Job : b.jobs[i].phase # "run"
    /\ manager \in [active : BOOLEAN, lastProfile : BOOLEAN, ongoingConnect : Job \cup {0},
                    asked : Commands \cup {"none"}, reached : BOOLEAN]
    /\ cert \in [valid : BOOLEAN, request : BOOLEAN, key : Nat]
    /\ wg \in [state : {"closed", "Connecting", "Connected", "Error"}, key : Nat,
               by : {"connect", "revoked", "reconnect"}, reports : Seq(VpnStates),
               flapped : BOOLEAN]
    /\ count \in [commands : 0..MaxCommands, events : 0..MaxInputs]

Init ==
    /\ b = [vpnProtocolState |-> "Disabled", selfState |-> "Disabled", posted |-> "none",
            agent |-> "null", strays |-> 0, late |-> FALSE, agentConnectionJob |-> 0, reconnectionJob |-> 0,
            evicting |-> 0, jobs |-> [i \in Job |-> NoJob],
            ready |-> <<>>, delays |-> <<>>, wireGuardIo |-> <<>>]
    /\ callback = CallbackAt("idle", "none", "none", FALSE)
    /\ manager = [active |-> FALSE, lastProfile |-> FALSE, ongoingConnect |-> 0,
                  asked |-> "none", reached |-> FALSE]
    /\ cert = [valid |-> TRUE, request |-> FALSE, key |-> 0]
    /\ wg = [state |-> "closed", key |-> 0, by |-> "connect", reports |-> <<>>, flapped |-> FALSE]
    /\ count = [commands |-> 0, events |-> 0]

----------------------------------------------------------------------------
\* Coroutines.  Each operator takes the backend s and returns it changed.

Free(s) == {i \in Job : /\ s.jobs[i].phase = "ended"
                        /\ i \notin {s.agentConnectionJob, s.reconnectionJob,
                                     manager.ongoingConnect}}

NextJob(s) == CHOOSE i \in Free(s) : TRUE

\* Another coroutine may be launched.
Room == Free(b) # {}

\* mainScope.launch of a coroutine that first asks for the session.
Launch(s, kind) ==
    [s EXCEPT !.jobs[NextJob(s)] = JobAt(kind, "session")]

\* scope.launch of a coroutine that runs when the main thread comes to it.
LaunchReady(s, kind) ==
    [s EXCEPT !.jobs[NextJob(s)] = JobAt(kind, "ready"),
              !.ready = Append(@, NextJob(s))]

\* A coroutine leaves the place where it waits.
Without(queue, i) ==
    IF \E k \in DOMAIN queue : queue[k] = i
    THEN LET place == CHOOSE k \in DOMAIN queue : queue[k] = i
         IN  [k \in 1..Len(queue) - 1 |-> IF k < place THEN queue[k] ELSE queue[k + 1]]
    ELSE queue

End(s, i) ==
    [s EXCEPT !.jobs[i] = NoJob, !.ready = Without(@, i),
              !.delays = Without(@, i), !.wireGuardIo = Without(@, i)]

\* Job.cancel: a suspended coroutine ends, except that the calls of
\* CertificateRepository run in its own scope and return to their caller all
\* the same; one that is running ends when it next suspends.
Cancel(s, i) ==
    IF i = 0 \/ s.jobs[i].phase = "ended" THEN s
    ELSE IF s.jobs[i].phase \in {"await", "got", "refused", "run"}
         THEN [s EXCEPT !.jobs[i].cancelled = TRUE]
         ELSE End(s, i)

\* The running coroutine suspends: in delay, or in withContext(wireGuardIo).
Suspend(s, i, phase) ==
    IF s.jobs[i].cancelled THEN End(s, i)
    ELSE IF phase = "delay"
         THEN [s EXCEPT !.jobs[i].phase = phase, !.delays = Append(@, i)]
         ELSE [s EXCEPT !.jobs[i].phase = phase, !.wireGuardIo = Append(@, i)]

----------------------------------------------------------------------------
\* The local agent.

\* Mutant: a connection job that is still waiting for a certificate is ignored.
ConnectToLocalAgentTwice(s) ==
    IF s.agent = "null"
    THEN [Launch(s, "agent") EXCEPT !.agentConnectionJob = NextJob(s)]
    ELSE s

ConnectToLocalAgent(s) ==
    IF s.agent = "null" /\ s.agentConnectionJob = 0
    THEN [Launch(s, "agent") EXCEPT !.agentConnectionJob = NextJob(s)]
    ELSE s

CloseAgentConnection(s) ==
    IF s.agent # "null" \/ s.agentConnectionJob # 0
    THEN [Cancel(Cancel(s, s.reconnectionJob), s.agentConnectionJob)
              EXCEPT !.reconnectionJob = 0, !.agentConnectionJob = 0, !.agent = "null"]
    ELSE s

\* setError: a coroutine that closes everything and publishes a final error.
SetError(s) == LaunchReady(s, "fail")

\* reconnectLocalAgent and revokeCertificateAndReconnect.
LaunchReconnection(s, kind) ==
    LET closed == [CloseAgentConnection(s) EXCEPT !.posted = "Connecting"]
    IN  [Launch(closed, kind) EXCEPT !.reconnectionJob = NextJob(closed)]

\* What is shown while the protocol is connected depends on the agent.
AgentView(agentState) ==
    CASE agentState = "Connected" -> "Connected"
      [] agentState = "Unreachable" -> "Error"
      [] OTHER -> "Connecting"

HandleLocalAgentStates(s, agentState) ==
    LET open == ConnectToLocalAgent(s)
    IN  IF agentState \in {"expired", "unknownCA"}
        THEN LaunchReconnection(open, agentState)
        ELSE [open EXCEPT !.posted = AgentView(agentState)]

\* Mutant: the state of the agent alone decides what is shown.
ProcessAgentState(s, vpnState, agentState) ==
    IF vpnState = "Connected" \/ agentState = "Connected"
    THEN HandleLocalAgentStates(s, agentState)
    ELSE [CloseAgentConnection(s) EXCEPT !.posted = vpnState]

ProcessCombinedState(s, vpnState, agentState) ==
    IF vpnState = "Connected"
    THEN HandleLocalAgentStates(s, agentState)
    ELSE [CloseAgentConnection(s) EXCEPT !.posted = vpnState]

\* The setter of vpnProtocolState and onVpnProtocolStateChange, which suspends
\* to evict the pooled HTTP connections once the tunnel is connected.
SetVpnProtocolState(s, value) ==
    LET t == [s EXCEPT !.vpnProtocolState = value]
    IN  IF value = s.vpnProtocolState THEN s
        ELSE IF value = "Connected" THEN [t EXCEPT !.evicting = @ + 1]
             ELSE ProcessCombinedState(t, value, t.agent)

----------------------------------------------------------------------------
\* Opening and closing.

\* Mutant: only a tunnel that is connected is closed.
DisconnectConnected(s, i) ==
    LET running == [s EXCEPT !.jobs[i].phase = "run"]
        left == SetVpnProtocolState(CloseAgentConnection(running), "Disabled")
    IN  IF s.vpnProtocolState = "Connected" THEN Suspend(left, i, "delay") ELSE End(left, i)

\* VpnBackend.disconnect by coroutine i up to the delay of closeVpnTunnel.
Disconnect(s, i) ==
    LET running == [s EXCEPT !.jobs[i].phase = "run"]
        leaving == IF s.vpnProtocolState # "Disabled"
                   THEN SetVpnProtocolState(running, "Disconnecting")
                   ELSE running
    IN  Suspend(SetVpnProtocolState(CloseAgentConnection(leaving), "Disabled"), i, "delay")

\* WireguardBackend.connect by coroutine i up to withContext(wireGuardIo); the
\* configuration holds the key of that moment.
Connect(s, i) ==
    LET closed == CloseAgentConnection([s EXCEPT !.jobs[i].phase = "run"])
        keyed == [SetVpnProtocolState(closed, "Connecting") EXCEPT !.jobs[i].key = cert.key]
    IN  Suspend(keyed, i, "up")

\* Mutant: the error is posted, where another state can take its place.
PostFinalError(s) == [s EXCEPT !.posted = "Failed"]

\* A final error is published at once, and not with postValue.
SetFinalError(s) == [s EXCEPT !.selfState = "Failed"]

\* A suspended delay(10) ends.
DelayEnds ==
    /\ b.delays # <<>>
    /\ b' = [b EXCEPT !.delays = Tail(@),
                      !.jobs[Head(b.delays)].phase = "down",
                      !.wireGuardIo = Append(@, Head(b.delays))]
    /\ UNCHANGED <<callback, manager, cert, wg, count>>

\* backend.setState(DOWN), which ends the monitoring job with a last state, and
\* what the coroutine does after it.
TunnelDown ==
    /\ b.wireGuardIo # <<>> /\ b.jobs[Head(b.wireGuardIo)].phase = "down"
    /\ wg' = [wg EXCEPT !.state = "closed",
                        !.reports = IF wg.state = "closed" THEN @ ELSE Append(@, "Disabled")]
    /\ LET i == Head(b.wireGuardIo)
           s == [b EXCEPT !.wireGuardIo = Tail(@)]
       IN  CASE s.jobs[i].kind = "fail" ->
                    b' = SetFinalError(End(s, i)) /\ UNCHANGED manager
             [] s.jobs[i].kind = "disconnect" ->
                    b' = End(s, i) /\ manager' = [manager EXCEPT !.active = FALSE]
             [] s.jobs[i].kind = "connect" ->
                    b' = [s EXCEPT !.jobs[i].phase = "prepare"] /\ UNCHANGED manager
             [] OTHER ->
                    b' = Connect(s, i) /\ UNCHANGED manager
    /\ UNCHANGED <<callback, cert, count>>

\* backend.setState(UP) and startMonitoringJob, or an exception.
TunnelUp ==
    /\ b.wireGuardIo # <<>> /\ b.jobs[Head(b.wireGuardIo)].phase = "up"
    /\ LET i == Head(b.wireGuardIo)
       IN  \/ /\ wg' = [wg EXCEPT !.state = "Connecting", !.key = b.jobs[i].key,
                                  !.by = b.jobs[i].kind,
                                  !.reports = Append(@, "Connecting")]
              /\ b' = End(b, i)
           \/ /\ wg.state = "closed"
              /\ b' = SetFinalError(End(b, i))
              /\ UNCHANGED wg
    /\ UNCHANGED <<callback, manager, cert, count>>

----------------------------------------------------------------------------
\* The manager.

Command(c) ==
    /\ c \in Commands /\ count.commands < MaxCommands /\ MoreInputs
    /\ LET s == IF c = "reconnect" THEN b ELSE Cancel(b, manager.ongoingConnect)
       IN  /\ b' = LaunchReady(s, c)
           /\ manager' = [manager EXCEPT
                  !.asked = c, !.reached = FALSE,
                  !.ongoingConnect = CASE c = "connect" -> NextJob(s)
                                       [] c = "disconnect" -> 0
                                       [] OTHER -> @]
    /\ count' = [count EXCEPT !.commands = @ + 1]
    /\ UNCHANGED <<callback, cert, wg>>

\* The coroutine of a command, or of setError, runs.  connect forgets the
\* backend before it closes it; disconnect forgets it afterwards; reconnect
\* without a backend connects with the last profile.
RunReady ==
    /\ b.ready # <<>>
    /\ LET i == Head(b.ready)
           s == [b EXCEPT !.ready = Tail(@)]
           kind == b.jobs[i].kind
       IN  CASE kind = "fail" ->
                    /\ b' = Suspend(CloseAgentConnection(s), i, "down")
                    /\ UNCHANGED manager
             [] kind = "connect" ->
                    /\ b' = IF manager.active THEN Disconnect(s, i)
                            ELSE [s EXCEPT !.jobs[i].phase = "prepare"]
                    /\ manager' = [manager EXCEPT !.active = FALSE]
             [] kind = "disconnect" ->
                    /\ b' = IF manager.active THEN Disconnect(s, i) ELSE End(s, i)
                    /\ manager' = [manager EXCEPT !.reached = manager.active]
             [] kind = "reconnect" ->
                    LET t == Cancel(s, manager.ongoingConnect)
                        connects == ~manager.active /\ manager.lastProfile
                    IN  /\ b' = CASE manager.active -> Disconnect(t, i)
                                  [] connects -> LaunchReady(End(t, i), "connect")
                                  [] OTHER -> End(t, i)
                        /\ manager' = [manager EXCEPT
                               !.ongoingConnect = IF connects THEN NextJob(End(t, i)) ELSE 0]
    /\ UNCHANGED <<callback, cert, wg, count>>

\* preparedConnect: the servers have been scanned.  A backend that is made the
\* active one shows Connecting at once.
Prepared(i) ==
    /\ b.jobs[i].phase = "prepare"
    /\ b' = Connect(IF manager.active THEN b ELSE [b EXCEPT !.selfState = "Connecting"], i)
    /\ manager' = [manager EXCEPT !.active = TRUE, !.lastProfile = TRUE]
    /\ UNCHANGED <<callback, cert, wg, count>>

----------------------------------------------------------------------------
\* The backend's own coroutines.

\* CertificateRepository cancels the request: those who wait for it get an error.
Refuse(s) ==
    [s EXCEPT !.jobs = [i \in Job |-> IF @[i].phase = "await"
                                      THEN [@[i] EXCEPT !.phase = "refused"] ELSE @[i]]]

\* An agent is created by coroutine i; the one it replaces, if any, is never
\* closed.  late: a coroutine has done so after it was cancelled (see also
\* CallbackConnects).
CreateAgent(s, i) ==
    [End(s, i) EXCEPT !.agent = "Connecting",
                      !.strays = IF s.agent = "null" THEN @ ELSE @ + 1,
                      !.late = @ \/ s.jobs[i].cancelled]

\* The session is known.
AskCertificate(i) ==
    /\ b.jobs[i].phase = "session"
    /\ LET kind == b.jobs[i].kind
           waiting(s) == [s EXCEPT !.jobs[i].phase = "await"]
       IN  CASE kind = "agent" /\ cert.valid ->
                    b' = CreateAgent(b, i) /\ UNCHANGED cert
             [] kind = "expired" ->
                    b' = ConnectToLocalAgent(End(b, i)) /\ UNCHANGED cert
             [] kind = "revoked" ->
                    /\ b' = waiting(Refuse(b))
                    /\ cert' = [valid |-> FALSE, request |-> TRUE, key |-> cert.key + 1]
             [] OTHER ->
                    b' = waiting(b) /\ cert' = [cert EXCEPT !.request = TRUE]
    /\ UNCHANGED <<callback, manager, wg, count>>

\* The API answers.  currentCertUpdateFlow is collected before the request ends.
RequestEnds ==
    /\ cert.request
    /\ \/ /\ cert' = [cert EXCEPT !.valid = TRUE, !.request = FALSE]
          /\ LET s == IF b.agent = "null" THEN b
                      ELSE ConnectToLocalAgent(CloseAgentConnection(b))
             IN  b' = [s EXCEPT !.jobs = [i \in Job |->
                            IF @[i].phase = "await" THEN [@[i] EXCEPT !.phase = "got"]
                            ELSE @[i]]]
       \/ /\ cert' = [cert EXCEPT !.request = FALSE]
          /\ b' = Refuse(b)
    /\ UNCHANGED <<callback, manager, wg, count>>

\* Mutant: after a revocation only the agent is connected again.
AnsweredAgentOnly(i) ==
    /\ b.jobs[i].phase \in {"got", "refused"}
    /\ LET kind == b.jobs[i].kind
       IN  CASE kind \in {"unknownCA", "revoked"} -> b' = ConnectToLocalAgent(End(b, i))
             [] kind = "agent" /\ b.jobs[i].phase = "refused" -> b' = SetError(End(b, i))
             [] kind = "agent" /\ b.jobs[i].phase = "got" -> b' = CreateAgent(b, i)
    /\ UNCHANGED <<callback, manager, cert, wg, count>>

\* The coroutine goes on with its certificate or without.  An agent is created
\* and an error published even if the coroutine was cancelled meanwhile; only
\* yield, before reconnect, notices that.
Answered(i) ==
    /\ b.jobs[i].phase \in {"got", "refused"}
    /\ LET kind == b.jobs[i].kind
       IN  CASE kind = "unknownCA" -> b' = ConnectToLocalAgent(End(b, i))
             [] kind # "unknownCA" /\ b.jobs[i].phase = "refused" -> b' = SetError(End(b, i))
             [] kind = "agent" /\ b.jobs[i].phase = "got" -> b' = CreateAgent(b, i)
             [] kind = "revoked" /\ b.jobs[i].phase = "got" ->
                    b' = IF b.jobs[i].cancelled THEN End(b, i)
                         ELSE [b EXCEPT !.jobs[i].phase = "yield"]
    /\ UNCHANGED <<callback, manager, cert, wg, count>>

\* reconnect() with the new key.
Yielded(i) ==
    /\ b.jobs[i].phase = "yield"
    /\ b' = Disconnect(b, i)
    /\ UNCHANGED <<callback, manager, cert, wg, count>>

----------------------------------------------------------------------------
\* What comes from the tunnel, the agents and the certificate.

Event ==
    /\ MoreInputs
    /\ count' = [count EXCEPT !.events = @ + 1]

\* The tunnel changes and the monitoring job reads it: five failures in a row
\* are an error, fewer are reported as connecting.
TunnelChanges(state) ==
    /\ Event
    /\ wg.state \notin {"closed", state}
    /\ wg.state # "Connected" \/ Flaps
    /\ wg' = [wg EXCEPT !.state = state, !.reports = Append(@, state),
                        !.flapped = @ \/ wg.state = "Connected"]
    /\ UNCHANGED <<b, callback, manager, cert>>

\* What the monitoring job launched on the main thread.
ApplyReport ==
    /\ wg.reports # <<>>
    /\ b' = SetVpnProtocolState(b, Head(wg.reports))
    /\ wg' = [wg EXCEPT !.reports = Tail(@)]
    /\ UNCHANGED <<callback, manager, cert, count>>

\* withContext(Io) has returned; the state is the one from before.
Evicted ==
    /\ b.evicting > 0
    /\ b' = ProcessCombinedState([b EXCEPT !.evicting = @ - 1], "Connected", b.agent)
    /\ UNCHANGED <<callback, manager, cert, wg, count>>

\* The main thread delivers what postValue left.
DeliverPosted ==
    /\ b.posted # "none"
    /\ b' = [b EXCEPT !.selfState = b.posted, !.posted = "none"]
    /\ UNCHANGED <<callback, manager, cert, wg, count>>

\* An agent that is open reports its states at any time, late ones included;
\* the server refuses a certificate or a session through the tunnel.
Answers(state) == state \in {"Connected", "Unreachable"} \/ wg.state = "Connected"

\* A callback begins: onState reads vpnProtocolState.
Begin(step, report, vpnState) ==
    /\ callback.step = "idle"
    /\ callback' = CallbackAt(step, report, vpnState, callback.raced)

\* onState of the agent, whose state it is from now on.
AgentState(state) ==
    /\ Event
    /\ Answers(state)
    /\ b.agent # "null" /\ state \in {"Connected", "Unreachable"} \cup AgentErrors
    /\ state \notin {"revoked", "fatal", b.agent}
    /\ Begin("read", state, b.vpnProtocolState)
    /\ b' = [b EXCEPT !.agent = state]
    /\ UNCHANGED <<manager, cert, wg>>

\* onState of an agent that was replaced and not closed.
StrayState(state) ==
    /\ b.strays > 0 /\ state \in {"Connected", "Unreachable"}
    /\ Begin("read", state, b.vpnProtocolState)
    /\ UNCHANGED <<b, manager, cert, wg, count>>

\* onError of the agent: the certificate has expired or is revoked, or there is no
\* way to go on.
AgentError(error) ==
    /\ Event
    /\ b.agent # "null" /\ error \in AgentErrors \ {"unknownCA"} /\ Answers(error)
    /\ Begin("act", error, "none")
    /\ UNCHANGED <<b, manager, cert, wg>>

----------------------------------------------------------------------------
\* What a callback does, a step at a time.

\* What the callback read, or what called it, is no longer so.
Stale ==
    \/ callback.vpnState \notin {"none", b.vpnProtocolState}
    \/ callback.step = "connect"
    \/ callback.step = "act" /\ b.agent = "null"

\* The callback has done something; it goes on or returns.
Does(step) ==
    callback' = IF step = "idle" THEN CallbackAt("idle", "none", "none", callback.raced \/ Stale)
                ELSE [callback EXCEPT !.step = step, !.raced = @ \/ Stale]

\* After connectToLocalAgent.
Handles == IF callback.report \in {"expired", "unknownCA"} THEN "act" ELSE "post"

\* processCombinedState closes the agent, or connectToLocalAgent looks for one and
\* for a connection job.
CallbackReads ==
    /\ callback.step = "read"
    /\ \/ /\ callback.vpnState # "Connected"
          /\ b' = CloseAgentConnection(b) /\ Does("post")
       \/ /\ callback.vpnState = "Connected"
          /\ callback' = [callback EXCEPT !.step =
                             IF b.agent = "null" /\ b.agentConnectionJob = 0
                             THEN "connect" ELSE Handles]
          /\ UNCHANGED b
    /\ UNCHANGED <<manager, cert, wg, count>>

\* connectToLocalAgent found neither, and launches a connection job.  late: there is
\* one by now, which the backend no longer knows.
CallbackConnects ==
    /\ callback.step = "connect"
    /\ b' = [Launch(b, "agent") EXCEPT
                !.agentConnectionJob = NextJob(b),
                !.late = @ \/ b.agent # "null" \/ b.agentConnectionJob # 0]
    /\ Does(Handles)
    /\ UNCHANGED <<manager, cert, wg, count>>

\* reconnectLocalAgent, revokeCertificateAndReconnect or setError; onState returns
\* to processCombinedState.
CallbackActs ==
    /\ callback.step = "act"
    /\ b' = IF callback.report = "fatal" THEN SetError(b)
            ELSE LaunchReconnection(b, callback.report)
    /\ Does(IF callback.vpnState = "none" THEN "idle" ELSE "post")
    /\ UNCHANGED <<manager, cert, wg, count>>

\* postValue of processCombinedState.
CallbackPosts ==
    /\ callback.step = "post"
    /\ b' = [b EXCEPT !.posted = IF callback.vpnState = "Connected"
                                 THEN AgentView(callback.report) ELSE callback.vpnState]
    /\ Does("idle")
    /\ UNCHANGED <<manager, cert, wg, count>>

----------------------------------------------------------------------------
\* The certificate.

\* The certificate expires, or another part of the application renews it.
CertificateChanges ==
    /\ "expired" \in AgentErrors
    /\ Event
    /\ \/ cert.valid /\ cert' = [cert EXCEPT !.valid = FALSE]
       \/ ~cert.request /\ cert' = [cert EXCEPT !.request = TRUE]
    /\ UNCHANGED <<b, callback, manager, wg>>

----------------------------------------------------------------------------
Main ==
    /\ Room
    /\ \/ RunReady \/ DelayEnds \/ TunnelDown \/ TunnelUp \/ ApplyReport \/ Evicted \/ DeliverPosted
       \/ RequestEnds
       \/ \E i \in Job : Prepared(i) \/ AskCertificate(i) \/ Answered(i) \/ Yielded(i)

Environment ==
    /\ Room
    /\ \/ \E c \in Commands : Command(c)
       \/ \E state \in {"Connecting", "Connected", "Error"} : TunnelChanges(state)
       \/ \E state \in {"Connected", "Unreachable", "expired", "unknownCA"} :
               AgentState(state) \/ StrayState(state)
       \/ \E error \in AgentErrors : AgentError(error)
       \/ CertificateChanges

Callback ==
    Room /\ (CallbackReads \/ CallbackConnects \/ CallbackActs \/ CallbackPosts)

Next == Main \/ Environment \/ Callback

Safety == Init /\ [][Next]_vars

\* The main thread runs what is ready, a delay ends, and wireGuardIo does what waits
\* for it; the API, the environment and the threads of the agents owe nothing.
Runs == Room /\ (RunReady \/ DelayEnds \/ TunnelDown \/ TunnelUp)

Spec == Safety /\ WF_vars(Runs)

----------------------------------------------------------------------------
AtRest ==
    /\ \A i \in Job : b.jobs[i].phase = "ended"
    /\ wg.reports = <<>> /\ b.evicting = 0 /\ b.posted = "none"
    /\ callback.step = "idle"

\* The application never comes to rest showing Connected without a tunnel that
\* is connected: processCombinedState takes both states into account, although
\* states are posted, delayed by the eviction and reported late, and although an
\* agent's callback runs beside the main thread.  The exception is a callback that
\* went on with what the main thread had changed: its state may be posted last.
ShownConnected ==
    AtRest /\ b.selfState = "Connected" /\ ~callback.raced =>
        wg.state = "Connected" /\ b.vpnProtocolState = "Connected"

\* When everything has come to rest after the user's disconnect the tunnel is
\* closed, whatever the connect job and the local agent were doing.
DisconnectHolds ==
    AtRest /\ manager.asked = "disconnect" => wg.state = "closed"

\* The last command is a disconnect that found an active backend.
Reached == manager.asked = "disconnect" /\ manager.reached

\* A disconnect that finds an active backend beats every connect job: a tunnel
\* that is open all the same was opened by reconnect().
ReachedDisconnectHolds ==
    AtRest /\ Reached => wg.state = "closed" \/ wg.by # "connect"

\* A revoked certificate gets a new key, and the tunnel is opened again with it,
\* unless the tunnel flaps, or another command or a callback that has become stale
\* interferes meanwhile.
KeyInUse ==
    AtRest /\ wg.state # "closed" /\ ~wg.flapped /\ count.commands = 1 /\ ~callback.raced =>
        wg.key = cert.key

\* The backend loses track of an agent connection, and never closes it, only if a
\* connection job has gone on after it was cancelled, or a callback has launched one
\* beside another that the main thread launched after the callback had looked.
OneAgent == b.strays > 0 => b.late

\* A disconnect that finds an active backend gets to close the tunnel, unless
\* reconnect() opens it again.
DisconnectCloses ==
    Reached ~> (wg.state = "closed" \/ wg.by # "connect" \/ ~Reached)

=============================================================================
