----------------------------- MODULE GuestHole -----------------------------
(***************************************************************************)
(* The class GuestHole: API calls that are blocked on the user's network   *)
(* are made through a VPN connection that is opened for them and closed    *)
(* after them.                                                             *)
(*                                                                         *)
(* A call that failed is unblocked: the guest hole connects to one of a    *)
(* few servers, makes the call again and closes the connection, unless     *)
(* somebody holds a lock because more calls are to come.  All coroutines   *)
(* run on the main thread; a step is what runs between two suspensions.    *)
(*                                                                         *)
(* Of VpnConnectionManager the module keeps what GuestHole can see: connect *)
(* replaces the connection job and returns before that job has run; status *)
(* is the last published state with the owner that connectionParams had    *)
(* when it was published.  connectionParams are forgotten after the last   *)
(* state of a disconnection is published, so that this status goes on to   *)
(* name the owner.  A connection that is asked for during a disconnection  *)
(* begins when that is over.                                               *)
(***************************************************************************)
EXTENDS Naturals, FiniteSets

CONSTANTS Call,         \* API calls that may need the guest hole
          Locker,       \* holders of a lock
          NoCall,
          MaxServers,   \* number of servers the guest hole tries
          Interference  \* what else happens: "user" actions, "cancel"led callers

ASSUME GuestHoleAssumption ==
    /\ NoCall \notin Call
    /\ MaxServers \in Nat \ {0}
    /\ Interference \subseteq {"user", "cancel"}

VARIABLES
    status,            \* vpnMonitor.status: a state and the owner of the connection
    request,           \* the connection job the manager has yet to run
    params,            \* connectionParams: the owner of the manager's connection
    backend,           \* is there an activeBackend, or a job that is scanning for it
    leaving,           \* the user's disconnection: under way, or done but not emitted
    locks,             \* guestHoleLocks
    waitingForUnblock, \* the field of that name
    job,               \* the field of that name
    timeoutCloseJob,   \* is it waiting
    calls,             \* the coroutines in unblock
    lockers,           \* who is in runWithGuestHoleFallback
    disturbed          \* history: a user has acted or a caller was cancelled
                       \* ("outside"), a call began during another ("overlap")

manager == <<status, request, params, backend>>
hole == <<locks, waitingForUnblock, job, timeoutCloseJob>>
vars == <<manager, leaving, hole, calls, lockers, disturbed>>

Owner == {"none", "guest", "user"}

StatusRecord ==
    [owner : Owner,
     state : {"Disabled", "Connecting", "Connected", "Error", "Disconnecting"}]

\* left counts the servers still to be tried; skipped: the call gave up counting
\* servers as failed although the manager had not run the job for any of them.
CallRecord ==
    [pc : {"idle", "asking", "waiting", "delay", "call", "closing"}, invokes : BOOLEAN,
     left : 0..MaxServers - 1, skipped : BOOLEAN]

\* A call that tries no servers.
CallAt(pc, invokes, skipped) ==
    [pc |-> pc, invokes |-> invokes, left |-> 0, skipped |-> skipped]

Idle == CallAt("idle", FALSE, FALSE)

TypeOK ==
    /\ status \in StatusRecord
    /\ request \in Owner /\ params \in Owner
    /\ backend \in {"none", "scanning", "active"}
    /\ leaving \in {"no", "under way", "done"}
    /\ locks \subseteq Locker
    /\ waitingForUnblock \in BOOLEAN
    /\ job \in Call \cup {NoCall}
    /\ timeoutCloseJob \in BOOLEAN
    /\ calls \in [Call -> CallRecord]
    /\ lockers \in [Locker -> {"out", "in"}]
    /\ disturbed \subseteq {"outside", "overlap"}

Init ==
    /\ status = [owner |-> "none", state |-> "Disabled"]
    /\ request = "none" /\ params = "none" /\ backend = "none" /\ leaving = "no"
    /\ locks = {} /\ waitingForUnblock = FALSE /\ job = NoCall /\ timeoutCloseJob = FALSE
    /\ calls = [c \in Call |-> Idle]
    /\ lockers = [l \in Locker |-> "out"]
    /\ disturbed = {}

IsGuestHoleActive == status.owner = "guest"

IsConnected == status.state = "Connected"

\* A call between the permission and its finally block; its userActionJob runs.
Unblocking(c) == calls[c].pc \in {"waiting", "delay", "call"}

----------------------------------------------------------------------------
\* Publishing a state shows the parameters that the manager has at the time.
Publish(state) == status' = [owner |-> params, state |-> state]

\* disconnectSync up to a suspension: the connection job is cancelled.  Without
\* an active backend there is nothing to wait for.
DisconnectSync ==
    /\ request' = "none"
    /\ \/ /\ backend = "active"
          /\ Publish("Disconnecting")
          /\ UNCHANGED <<params, backend>>
       \/ /\ backend # "active"
          /\ Publish("Disabled")
          /\ params' = "none" /\ backend' = "none"

\* closeGuestHole, when asked is the job the manager has yet to run.
CloseGuestHole(asked) ==
    IF IsGuestHoleActive
    THEN DisconnectSync
    ELSE request' = asked /\ UNCHANGED <<status, params, backend>>

\* Mutant: the guest hole is left open without a timeout.
LeaveOpen(timeout) ==
    /\ timeoutCloseJob' = timeout
    /\ UNCHANGED manager

\* The lock keeps the guest hole open, but not for ever.
KeepOpen(timeout) ==
    /\ timeoutCloseJob' = TRUE
    /\ UNCHANGED manager

\* The finally block of unblockWithPermission: a guest hole that is not
\* connected is not needed by the holders of locks either.
Finally(c, asked, timeout, skipped) ==
    LET kept == IF IsGuestHoleActive /\ IsConnected THEN locks ELSE {}
        pc   == IF kept = {} /\ IsGuestHoleActive /\ backend = "active"
                THEN "closing" ELSE "idle"
    IN  /\ waitingForUnblock' = FALSE
        /\ locks' = kept
        /\ IF kept = {}
           THEN CloseGuestHole(asked) /\ timeoutCloseJob' = timeout
           ELSE KeepOpen(timeout)
        /\ calls' = [calls EXCEPT ![c] = CallAt(pc, FALSE, skipped)]

\* connect: the job that is replaced is cancelled, wherever it is.
ConnectWithPermission(owner) ==
    /\ request' = owner
    /\ backend' = IF backend = "scanning" THEN "none" ELSE backend
    /\ UNCHANGED <<status, params>>

\* getGuestHoleServers().any { executeConnected(...) } up to a suspension, with
\* the given number of servers left.  A connection that exists is used.  Else
\* the manager is asked to connect, and first {...} looks at the published
\* state: if that is an error the server counts as failed, and so do all the
\* servers after it.  (At an error no job is scanning.)
TryServers(c, left, waiting, timeout) ==
    \/ /\ left > 0 /\ IsConnected
       /\ calls' = [calls EXCEPT ![c].pc = "delay", ![c].left = left - 1]
       /\ waitingForUnblock' = waiting /\ timeoutCloseJob' = timeout
       /\ UNCHANGED <<manager, locks>>
    \/ /\ left > 0 /\ status.state \notin {"Connected", "Error"}
       /\ ConnectWithPermission("guest")
       /\ calls' = [calls EXCEPT ![c].pc = "waiting", ![c].left = left - 1]
       /\ waitingForUnblock' = waiting /\ timeoutCloseJob' = timeout
       /\ UNCHANGED locks
    \/ /\ left > 0 /\ status.state = "Error"
       /\ Finally(c, "guest", timeout, TRUE)
    \/ /\ left = 0
       /\ Finally(c, request, timeout, FALSE)

----------------------------------------------------------------------------
\* Calls.

\* onAlternativesUnblock, with the call to be made again, or onProxiesFailed and
\* onBeforeHumanVerification, without it but only while a lock is held.
Unblock(c, invokes) ==
    /\ calls[c].pc = "idle"
    /\ invokes \/ locks # {}
    /\ status.state = "Disabled"
    /\ job' = c
    /\ calls' = [calls EXCEPT ![c] = CallAt("asking", invokes, FALSE)]
    /\ disturbed' = IF \A other \in Call : calls[other].pc = "idle"
                    THEN disturbed ELSE disturbed \cup {"overlap"}
    /\ UNCHANGED <<manager, leaving, locks, waitingForUnblock, timeoutCloseJob, lockers>>

\* There is no activity in the foreground, or the caller is cancelled.
NoActivity(c) ==
    /\ calls[c].pc = "asking"
    /\ calls' = [calls EXCEPT ![c] = Idle]
    /\ UNCHANGED <<manager, leaving, hole, lockers, disturbed>>

PermissionDenied(c) ==
    /\ calls[c].pc = "asking"
    /\ locks' = {}
    /\ calls' = [calls EXCEPT ![c] = Idle]
    /\ UNCHANGED <<manager, leaving, waitingForUnblock, job, timeoutCloseJob, lockers, disturbed>>

\* Mutant: the server that was successful last time is not taken out of the others.
PermissionGrantedTwice(c) ==
    /\ calls[c].pc = "asking"
    /\ TryServers(c, MaxServers + 1, calls[c].invokes, FALSE)
    /\ UNCHANGED <<leaving, job, lockers, disturbed>>

\* unblockWithPermission.
PermissionGranted(c) ==
    /\ calls[c].pc = "asking"
    /\ TryServers(c, MaxServers, calls[c].invokes, FALSE)
    /\ UNCHANGED <<leaving, job, lockers, disturbed>>

\* first {...} has seen the connection.
ServerConnected(c) ==
    /\ calls[c].pc = "waiting" /\ IsConnected
    /\ calls' = [calls EXCEPT ![c].pc = "delay"]
    /\ UNCHANGED <<manager, leaving, hole, lockers, disturbed>>

\* first {...} has seen an error, or GUEST_HOLE_SERVER_TIMEOUT is over; by then
\* the manager has run the job.
ServerFailed(c) ==
    /\ calls[c].pc = "waiting" /\ request # "guest" /\ ~IsConnected
    /\ TryServers(c, calls[c].left, waitingForUnblock, timeoutCloseJob)
    /\ UNCHANGED <<leaving, job, lockers, disturbed>>

\* The slight delay is over: the call is made again, if there is one.
Invoke(c) ==
    /\ calls[c].pc = "delay"
    /\ IF calls[c].invokes
       THEN /\ calls' = [calls EXCEPT ![c].pc = "call"]
            /\ UNCHANGED <<manager, locks, waitingForUnblock, timeoutCloseJob>>
       ELSE Finally(c, request, timeoutCloseJob, FALSE)
    /\ UNCHANGED <<leaving, job, lockers, disturbed>>

CallReturns(c) ==
    /\ calls[c].pc = "call"
    /\ Finally(c, request, timeoutCloseJob, FALSE)
    /\ UNCHANGED <<leaving, job, lockers, disturbed>>

\* GUEST_HOLE_ATTEMPT_TIMEOUT is over (by then the manager has run the job).
AttemptTimeout(c) ==
    /\ Unblocking(c) /\ request = "none"
    /\ Finally(c, request, timeoutCloseJob, FALSE)
    /\ UNCHANGED <<leaving, job, lockers, disturbed>>

\* The coroutine that made the API call is cancelled.
CancelCall(c) ==
    /\ "cancel" \in Interference
    /\ Unblocking(c)
    /\ Finally(c, request, timeoutCloseJob, FALSE)
    /\ disturbed' = disturbed \cup {"outside"}
    /\ UNCHANGED <<leaving, job, lockers>>

\* disconnectSync returns to the finally block.
Closed(c) ==
    /\ calls[c].pc = "closing" /\ status.state # "Disconnecting"
    /\ calls' = [calls EXCEPT ![c].pc = "idle"]
    /\ UNCHANGED <<manager, leaving, hole, lockers, disturbed>>

----------------------------------------------------------------------------
\* Locks and the timeout.

AcquireNeedGuestHole(l) ==
    /\ lockers[l] = "out"
    /\ locks' = locks \cup {l}
    /\ lockers' = [lockers EXCEPT ![l] = "in"]
    /\ UNCHANGED <<manager, leaving, waitingForUnblock, job, timeoutCloseJob, calls, disturbed>>

\* Mutant: a call that is being unblocked is not waited for.
CloseWithLastLock(l) ==
    /\ lockers[l] = "in"
    /\ locks' = locks \ {l}
    /\ IF locks' = {} THEN CloseGuestHole(request) ELSE UNCHANGED manager
    /\ lockers' = [lockers EXCEPT ![l] = "out"]
    /\ UNCHANGED <<leaving, waitingForUnblock, job, timeoutCloseJob, calls, disturbed>>

\* The last lock closes the guest hole, unless a call is being unblocked, which
\* will do it.
ReleaseNeedGuestHole(l) ==
    /\ lockers[l] = "in"
    /\ locks' = locks \ {l}
    /\ IF locks' = {} /\ ~waitingForUnblock
       THEN CloseGuestHole(request)
       ELSE UNCHANGED manager
    /\ lockers' = [lockers EXCEPT ![l] = "out"]
    /\ UNCHANGED <<leaving, waitingForUnblock, job, timeoutCloseJob, calls, disturbed>>

TimeoutClose ==
    /\ timeoutCloseJob
    /\ timeoutCloseJob' = FALSE
    /\ CloseGuestHole(request)
    /\ UNCHANGED <<leaving, locks, waitingForUnblock, job, calls, lockers, disturbed>>

----------------------------------------------------------------------------
\* The manager and the user.

\* smartConnect of the guest hole's job, up to the scan of the server's ports.  A
\* backend that is active is given up.
GuestConnecting ==
    /\ request = "guest" /\ status.state # "Disconnecting"
    /\ request' = "none" /\ params' = "guest" /\ backend' = "scanning"
    /\ status' = [owner |-> "guest", state |-> "Connecting"]
    /\ UNCHANGED <<leaving, hole, calls, lockers, disturbed>>

\* connectWithPermissionSync may end without a connection: the server is not
\* available or does not support the protocol.
NotConnecting ==
    /\ request # "none"
    /\ request' = "none"
    /\ UNCHANGED <<status, params, backend, leaving, hole, calls, lockers, disturbed>>

\* preparedConnect.
Prepared ==
    /\ backend = "scanning"
    /\ backend' = "active"
    /\ UNCHANGED <<status, request, params, leaving, hole, calls, lockers, disturbed>>

Established ==
    /\ backend = "active" /\ status.state = "Connecting"
    /\ Publish("Connected")
    /\ UNCHANGED <<request, params, backend, leaving, hole, calls, lockers, disturbed>>

\* The scan fails, which ends the job, or the backend does.
Failed ==
    /\ backend # "none" /\ status.state = "Connecting"
    /\ Publish("Error")
    /\ backend' = IF backend = "scanning" THEN "none" ELSE backend
    /\ UNCHANGED <<request, params, leaving, hole, calls, lockers, disturbed>>

\* The userActionJob of a call cancels the coroutine that job refers to.
Cancelled(c) ==
    /\ job = c /\ calls[c].pc \notin {"idle", "closing"}
    /\ \E other \in Call : calls[other].pc \notin {"idle", "asking"}

\* The user connects: the manager's job is replaced ...
UserConnect ==
    /\ "user" \in Interference
    /\ request # "user"
    /\ ConnectWithPermission("user")
    /\ disturbed' = disturbed \cup {"outside"}
    /\ UNCHANGED <<leaving, hole, calls, lockers>>

\* ... and, run, gives up the backend that is active, if there is one.  The calls
\* see onDisconnectedByReconnection then; by the time the finally block of the
\* call that is cancelled runs, the status is the user's.
UserConnecting ==
    LET cancelled  == {c \in Call : backend = "active" /\ Cancelled(c)}
        unblocking == \E c \in cancelled : Unblocking(c)
    IN  /\ request = "user" /\ status.state # "Disconnecting"
        /\ request' = "none" /\ params' = "user" /\ backend' = "scanning"
        /\ status' = [owner |-> "user", state |-> "Connecting"]
        /\ waitingForUnblock' = (waitingForUnblock /\ ~unblocking)
        /\ locks' = IF unblocking THEN {} ELSE locks
        /\ calls' = [c \in Call |-> IF c \in cancelled THEN Idle ELSE calls[c]]
        /\ UNCHANGED <<leaving, job, timeoutCloseJob, lockers, disturbed>>

\* The user disconnects ...
UserDisconnect ==
    /\ "user" \in Interference
    /\ leaving = "no" /\ status.state \notin {"Disabled", "Disconnecting"}
    /\ DisconnectSync
    /\ leaving' = IF backend = "active" THEN "under way" ELSE "done"
    /\ disturbed' = disturbed \cup {"outside"}
    /\ UNCHANGED <<hole, calls, lockers>>

\* The end of disconnectBlocking: the parameters are forgotten after the states of
\* the backend and of the manager without a backend are published.
Disconnected ==
    /\ status.state = "Disconnecting"
    /\ Publish("Disabled")
    /\ params' = "none" /\ backend' = "none"
    /\ leaving' = IF leaving = "under way" THEN "done" ELSE leaving
    /\ UNCHANGED <<request, hole, calls, lockers, disturbed>>

\* ... and onDisconnectedByUser is emitted.
UserLeft ==
    /\ leaving = "done"
    /\ leaving' = "no"
    /\ \/ \E c \in Call :
            /\ Cancelled(c) /\ Unblocking(c)
            /\ Finally(c, request, timeoutCloseJob, FALSE)
       \/ /\ ~\E c \in Call : Cancelled(c) /\ Unblocking(c)
          /\ calls' = [c \in Call |-> IF Cancelled(c) THEN Idle ELSE calls[c]]
          /\ UNCHANGED <<manager, locks, waitingForUnblock, timeoutCloseJob>>
    /\ UNCHANGED <<job, lockers, disturbed>>

CallStep(c) ==
    \/ PermissionGranted(c) \/ ServerConnected(c) \/ ServerFailed(c)
    \/ Invoke(c) \/ CallReturns(c) \/ Closed(c)

\* The steps of the manager's connection job before it scans.
ConnectJob == GuestConnecting \/ UserConnecting \/ NotConnecting

Next ==
    \/ \E c \in Call :
        \/ \E invokes \in BOOLEAN : Unblock(c, invokes)
        \/ NoActivity(c) \/ PermissionDenied(c)
        \/ CallStep(c) \/ AttemptTimeout(c) \/ CancelCall(c)
    \/ \E l \in Locker : AcquireNeedGuestHole(l) \/ ReleaseNeedGuestHole(l)
    \/ TimeoutClose
    \/ ConnectJob \/ Prepared \/ Established \/ Failed
    \/ UserConnect \/ UserDisconnect \/ Disconnected \/ UserLeft

\* Coroutines go on, calls end (they have timeouts), the backend disconnects, and
\* the timer of timeoutCloseJob fires.  Connections need not be established, and
\* holders of locks may keep them.
Fairness ==
    /\ \A c \in Call : WF_vars(CallStep(c))
    /\ WF_vars(TimeoutClose)
    /\ WF_vars(ConnectJob) /\ WF_vars(Disconnected)

Safety == Init /\ [][Next]_vars

Spec == Safety /\ Fairness

----------------------------------------------------------------------------
\* The last status of a closed guest hole still names it, so that alone does not
\* make it open.
HoleOpen == IsGuestHoleActive /\ status.state # "Disabled"

\* A guest hole that is or is about to be open has somebody who will close it:
\* a call that is being unblocked, or the timeout ("VpnConnectionIsEstablished-
\* OnlyForTheCall"), as long as no user acts and no caller is cancelled.
HoleHasCloser ==
    /\ "outside" \notin disturbed
    /\ \/ HoleOpen /\ status.state # "Disconnecting"
       \/ request = "guest" \/ backend = "scanning"
    => timeoutCloseJob \/ \E c \in Call : Unblocking(c)

\* Undisturbed, the guest hole does not stay open, whatever becomes of the calls
\* and however long the locks are held.
HoleCloses == HoleOpen ~> ~HoleOpen \/ "outside" \in disturbed

\* Nobody but the user closes the guest hole under a call that is being made
\* through it (the test's call asserts that it is connected), as long as calls do
\* not overlap: neither a lock that is released nor the timeout of an earlier
\* guest hole.
NotClosedUnderCall ==
    [][\A c \in Call :
        /\ calls[c].pc = "call" /\ calls'[c].pc = "call"
        /\ "overlap" \notin disturbed
        /\ IsGuestHoleActive /\ IsConnected
        => status'.state \notin {"Disconnecting", "Disabled"} \/ leaving' = "under way"]_vars

\* "If scanning failed for GH, just try another server": a server counts as failed
\* only after the manager has run the job that connects to it.
NextServerTried == \A c \in Call : ~calls[c].skipped
=============================================================================
