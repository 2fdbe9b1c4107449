------------------------- MODULE ServerListUpdater -------------------------
(***************************************************************************)
(* The class ServerListUpdater: it keeps the user's location, the server   *)
(* list and the loads of the servers fresh.                                *)
(*                                                                         *)
(* A recurring task (module ReschedulableTask) does the work while the     *)
(* home screen is in the foreground; the list is also requested by other   *)
(* coroutines, so that several requests may be under way and be answered   *)
(* in any order.  The location may only be asked for, and only be believed, *)
(* while the VPN is off: through a tunnel the API sees the VPN server.     *)
(* The published state Disabled does not mean that the tunnel is closed:   *)
(* WireguardBackend publishes it first and takes the tunnel down later.    *)
(*                                                                         *)
(* A network zone stands for the truncated public address; the zone the    *)
(* device is in may change at any time.  Ages count clock ticks and stop   *)
(* at the age at which the data is due.                                    *)
(***************************************************************************)
EXTENDS ReschedulableTask

CONSTANTS Zone,          \* the networks the device moves between
          ExitZone,      \* the zone of the VPN server
          NoZone,        \* no address is known
          ListCaller,    \* coroutines other than the task that request the list
          MinDelay,      \* MIN_CALL_DELAY, in ticks
          LocationDelay, \* LOCATION_CALL_DELAY
          LoadsDelay,    \* LOADS_CALL_DELAY
          ListDelay      \* LIST_CALL_DELAY

ASSUME UpdaterAssumption ==
    /\ {MinDelay, LocationDelay, LoadsDelay, ListDelay} \subseteq Nat \ {0}
    /\ {0, MinDelay} \subseteq Delays
    /\ NoZone \notin Zone /\ ExitZone \notin Zone \cup {NoZone}
    /\ {"none", "experiment"} \cap (Zone \cup {ExitZone, NoZone}) = {}
    /\ "task" \notin ListCaller

VARIABLES
    inForeground,  \* the field of that name
    loggedIn,      \* CurrentUser.isLoggedIn()
    vpn,           \* the published VPN state, and what is left of a tunnel
    step,          \* what updateTask waits for
    seen,          \* the collector of updateLocationIfVpnOff is up to date
    tunnelled,     \* what the location request has to do with a tunnel
    located,       \* the result of updateLocationIfVpnOff, NoZone for null
    zone,          \* where the device is
    ip,            \* prefs.ipAddress
    listZone,      \* prefs.lastNetzoneForLogicals
    servers,       \* the zone that the stored server list was computed for
    requests,      \* the netzone that each running updateServerList has read
    age            \* of the location, the loads and the server list

updaterVars == <<inForeground, loggedIn, vpn, step, seen, tunnelled,
                 located, zone, ip, listZone, servers, requests, age>>

vars == <<taskVars, updaterVars>>

Caller == ListCaller \cup {"task"}

\* No updateServerList of this caller is running.
NoRequest == "none"

\* updateServerList is in fetchExperiment and has not read the netzone yet.
Experiment == "experiment"

TypeOK ==
    /\ TaskTypeOK
    /\ inForeground \in BOOLEAN /\ loggedIn \in BOOLEAN
    /\ vpn \in {"off",        \* Disabled is published, no tunnel is open
               "closing",    \* Disabled is published, a tunnel is still open
               "on"}         \* another state is published
    /\ step \in {"none", "loggedOut", "location", "located", "zoneList", "list", "loads"}
    /\ seen \in BOOLEAN
    /\ tunnelled \in {"no",       \* the tunnel has been closed all the time
                     "asked",    \* the tunnel was open when the location was asked for
                     "opened"}   \* the tunnel was opened since
    /\ located \in Zone \cup {ExitZone, NoZone}
    /\ zone \in Zone
    /\ ip \in Zone \cup {ExitZone, NoZone}
    /\ listZone \in Zone \cup {ExitZone, NoZone}
    /\ servers \in Zone \cup {ExitZone, NoZone}
    /\ requests \in [Caller -> Zone \cup {ExitZone, NoZone, NoRequest, Experiment}]
    /\ age \in [location : 0..LocationDelay, loads : 0..LoadsDelay, list : 0..ListDelay]

\* A fresh installation; ServerManager.isOutdated holds without a list.
Init ==
    /\ TaskInit
    /\ inForeground = FALSE /\ loggedIn = FALSE
    /\ vpn = "off"
    /\ step = "none" /\ seen = TRUE /\ tunnelled = "no" /\ located = NoZone
    /\ zone \in Zone
    /\ ip = NoZone /\ listZone = NoZone /\ servers = NoZone
    /\ requests = [c \in Caller |-> NoRequest]
    /\ age = [location |-> LocationDelay, loads |-> LoadsDelay, list |-> ListDelay]

\* vpnStateMonitor.isDisabled, which does not tell "closing" from "off".
IsDisabled == vpn # "on"

----------------------------------------------------------------------------
\* Calls that schedule the task.

OnAppStart ==
    /\ ScheduleIn(0)
    /\ UNCHANGED updaterVars

\* startSchedule by the home screen that is being created.
StartSchedule ==
    /\ age.list = ListDelay
    /\ ScheduleIn(0)
    /\ UNCHANGED updaterVars

OnResume ==
    /\ ~inForeground
    /\ inForeground' = TRUE
    /\ ScheduleIn(0)
    /\ UNCHANGED <<loggedIn, vpn, step, seen, tunnelled, located, zone, ip,
                   listZone, servers, requests, age>>

OnPause ==
    /\ inForeground
    /\ inForeground' = FALSE
    /\ CancelSchedule
    /\ UNCHANGED <<loggedIn, vpn, step, seen, tunnelled, located, zone, ip,
                   listZone, servers, requests, age>>

\* The collector of vpnStateMonitor.onDisconnectedByUser runs.  The manager emits
\* when its disconnection is over, by which time the user may have connected again.
OnDisconnectedByUser ==
    /\ ScheduleIn(0)
    /\ UNCHANGED updaterVars

----------------------------------------------------------------------------
\* updateTask, from one suspension to the next.

\* updateServerList begins with fetchExperiment, which suspends.
RequestList(c) == requests' = [requests EXCEPT ![c] = Experiment]

\* Mutant: the delay depends on the list.
NextDelayWithList == IF inForeground /\ servers # NoZone THEN MinDelay ELSE Never

\* The task ends; in the foreground it asks for its next execution.
NextDelay == IF inForeground THEN MinDelay ELSE Never

\* Mutant: the action does not check the result of updateTask before it calls
\* scheduleIn with it.
ReturnUnchecked(j, nextDelay) ==
    /\ jobs[j].at = "action"
    /\ LaunchIn(nextDelay, [jobs EXCEPT ![j] = Ended])
    /\ step' = "none"

\* updateTask returns nextDelay.
Return(j, nextDelay) ==
    /\ EndAction(j, nextDelay)
    /\ step' = "none"

\* The second half of updateTask: the list if it is outdated, else the loads.
\* Whether the list is due in the foreground and whether it is outdated are
\* decided by the same age.
UpdateListOrLoads(j) ==
    \/ /\ age.list = ListDelay
       /\ RequestList("task")
       /\ step' = "list"
       /\ UNCHANGED taskVars
    \/ /\ age.list < ListDelay /\ inForeground /\ age.loads = LoadsDelay
       /\ step' = "loads"
       /\ UNCHANGED <<taskVars, requests>>
    \/ /\ age.list < ListDelay /\ ~(inForeground /\ age.loads = LoadsDelay)
       /\ Return(j, NextDelay)
       /\ UNCHANGED requests

\* The action begins: it asks for the location if that is due and the VPN is
\* off.  The collector of the VPN state is launched with the request.
UpdateTask(j) ==
    /\ BeginAction(j)
    /\ \/ /\ ~loggedIn
          /\ step' = "loggedOut"
          /\ UNCHANGED <<seen, tunnelled>>
       \/ /\ loggedIn /\ age.location = LocationDelay /\ IsDisabled
          /\ step' = "location" /\ seen' = FALSE
          /\ tunnelled' = IF vpn = "closing" THEN "asked" ELSE "no"
       \/ /\ loggedIn /\ ~(age.location = LocationDelay /\ IsDisabled)
          /\ step' = "located"
          /\ UNCHANGED <<seen, tunnelled>>
    /\ UNCHANGED <<inForeground, loggedIn, vpn, located, zone, ip,
                   listZone, servers, requests, age>>

\* Mutant: the collector does not cancel the request.
IgnoreVpnState ==
    /\ step = "location" /\ ~seen
    /\ seen' = TRUE
    /\ UNCHANGED <<taskVars, inForeground, loggedIn, vpn, step,
                   tunnelled, located, zone, ip, listZone, servers, requests, age>>

\* The collector of updateLocationIfVpnOff sees the state and cancels the
\* request when the VPN is not off.
MonitorVpnState ==
    /\ step = "location" /\ ~seen
    /\ seen' = TRUE
    /\ step' = IF IsDisabled THEN "location" ELSE "located"
    /\ tunnelled' = IF IsDisabled THEN tunnelled ELSE "no"
    /\ UNCHANGED <<taskVars, inForeground, loggedIn, vpn, located, zone,
                   ip, listZone, servers, requests, age>>

\* The API sees the address that the request, or its answer, came through.
SeenByApi == IF tunnelled = "no" THEN {zone} ELSE {zone, ExitZone}

\* Mutant: an address that is known is not replaced.
LocationAnswerKeepsAddress(ok) ==
    /\ step = "location"
    /\ step' = "located" /\ seen' = TRUE /\ tunnelled' = "no"
    /\ IF ok /\ IsDisabled /\ ip = NoZone
       THEN /\ ip' \in SeenByApi /\ located' = ip'
            /\ age' = [age EXCEPT !.location = 0]
       ELSE UNCHANGED <<ip, located, age>>
    /\ UNCHANGED <<taskVars, inForeground, loggedIn, vpn, zone, listZone,
                   servers, requests>>

\* updateLocationFromApi is answered.  The result counts only while the VPN is
\* (still) off.
LocationAnswer(ok) ==
    /\ step = "location"
    /\ step' = "located" /\ seen' = TRUE /\ tunnelled' = "no"
    /\ IF ok /\ IsDisabled
       THEN /\ ip' \in SeenByApi /\ located' = ip'
            /\ age' = [age EXCEPT !.location = 0]
       ELSE /\ located' = NoZone
            /\ UNCHANGED <<ip, age>>
    /\ UNCHANGED <<taskVars, inForeground, loggedIn, vpn, zone, listZone,
                   servers, requests>>

\* updateTask returns -1 to a user who is not logged in.
NotLoggedIn(j) ==
    /\ step = "loggedOut"
    /\ Return(j, Never)
    /\ UNCHANGED <<inForeground, loggedIn, vpn, seen, tunnelled, located,
                   zone, ip, listZone, servers, requests, age>>

\* updateTask goes on after the location: a new zone needs a new list.
AfterLocation(j) ==
    /\ step = "located" /\ jobs[j].at = "action"
    /\ IF located \notin {NoZone, listZone}
       THEN /\ RequestList("task")
            /\ step' = "zoneList"
            /\ UNCHANGED taskVars
       ELSE UpdateListOrLoads(j)
    /\ located' = NoZone
    /\ UNCHANGED <<inForeground, loggedIn, vpn, seen, tunnelled, zone, ip,
                   listZone, servers, age>>

----------------------------------------------------------------------------
\* updateServerList, by the task and by other coroutines.

\* The plan changed, the user asked for a refresh, a login or an error of the
\* connection needs the list.
UpdateServerList(c) ==
    /\ requests[c] = NoRequest
    /\ RequestList(c)
    /\ UNCHANGED <<taskVars, inForeground, loggedIn, vpn, step, seen,
                   tunnelled, located, zone, ip, listZone, servers, age>>

\* fetchExperiment returns, and updateServerList reads the netzone.
ReadNetZone(c) ==
    /\ requests[c] = Experiment
    /\ requests' = [requests EXCEPT ![c] = ip]
    /\ UNCHANGED <<taskVars, inForeground, loggedIn, vpn, step, seen,
                   tunnelled, located, zone, ip, listZone, servers, age>>

\* Mutant: the zone is read again when the list has arrived.
StoreListRereadsZone(c, ok) ==
    /\ servers' = IF ok THEN requests[c] ELSE servers
    /\ listZone' = IF ok THEN ip ELSE listZone
    /\ age' = IF ok THEN [age EXCEPT !.list = 0, !.loads = 0] ELSE age

\* The list is stored with the zone it was requested for; it brings the loads.
StoreList(c, ok) ==
    /\ servers' = IF ok THEN requests[c] ELSE servers
    /\ listZone' = IF ok THEN requests[c] ELSE listZone
    /\ age' = IF ok THEN [age EXCEPT !.list = 0, !.loads = 0] ELSE age

\* The list requested by a coroutine other than the task arrives, or the
\* request fails.
ListAnswer(c, ok) ==
    /\ requests[c] \notin {NoRequest, Experiment}
    /\ requests' = [requests EXCEPT ![c] = NoRequest]
    /\ StoreList(c, ok)
    /\ UNCHANGED <<taskVars, inForeground, loggedIn, vpn, step, seen,
                   tunnelled, located, zone, ip>>

\* The task's list arrives, or the request fails.  After the list for a new
\* zone updateTask goes on to check the age of the list.
TaskListAnswer(j, ok) ==
    /\ step \in {"zoneList", "list"} /\ jobs[j].at = "action"
    /\ requests["task"] # Experiment
    /\ StoreList("task", ok)
    /\ IF step = "zoneList"
       THEN /\ step' = "located"
            /\ UNCHANGED taskVars
       ELSE Return(j, NextDelay)
    /\ requests' = [requests EXCEPT !["task"] = NoRequest]
    /\ UNCHANGED <<inForeground, loggedIn, vpn, seen, tunnelled, located,
                   zone, ip>>

\* updateLoads is answered and the task ends.
LoadsAnswer(j, ok) ==
    /\ step = "loads"
    /\ Return(j, NextDelay)
    /\ age' = IF ok THEN [age EXCEPT !.loads = 0] ELSE age
    /\ UNCHANGED <<inForeground, loggedIn, vpn, seen, tunnelled, located,
                   zone, ip, listZone, servers, requests>>

----------------------------------------------------------------------------
\* What happens around the updater.

\* Login and logout replace the home screen.
Login ==
    /\ ~loggedIn /\ ~inForeground
    /\ loggedIn' = TRUE
    /\ UNCHANGED <<taskVars, inForeground, vpn, step, seen, tunnelled,
                   located, zone, ip, listZone, servers, requests, age>>

Logout ==
    /\ loggedIn
    /\ loggedIn' = FALSE
    /\ UNCHANGED <<taskVars, inForeground, vpn, step, seen, tunnelled,
                   located, zone, ip, listZone, servers, requests, age>>

\* The device moves to another network.
Move ==
    /\ zone' \in Zone \ {zone}
    /\ UNCHANGED <<taskVars, inForeground, loggedIn, vpn, step, seen,
                   tunnelled, located, ip, listZone, servers, requests, age>>

\* A connection begins, and a state other than Disabled is published.
VpnConnecting ==
    /\ IsDisabled
    /\ vpn' = "on"
    /\ seen' = (step # "location")
    /\ UNCHANGED <<taskVars, inForeground, loggedIn, step, tunnelled, located, zone, ip,
                   listZone, servers, requests, age>>

\* The tunnel is opened, and the local agent tells the device's address, except
\* through secure core.  The message of the connection attempt that opens it is
\* posted after the one that resumes the collector of the first state.
VpnConnected ==
    /\ vpn = "on"
    /\ step = "location" => seen
    /\ tunnelled' = IF step = "location" THEN "opened" ELSE tunnelled
    /\ ip' \in {ip, zone}
    /\ UNCHANGED <<taskVars, inForeground, loggedIn, vpn, step, seen, located, zone,
                   listZone, servers, requests, age>>

\* Disabled is published; a tunnel that was opened stays open for now.
VpnDisconnected ==
    /\ vpn = "on"
    /\ vpn' \in {"off", "closing"}
    /\ seen' = (step # "location")
    /\ UNCHANGED <<taskVars, inForeground, loggedIn, step, tunnelled, located, zone, ip,
                   listZone, servers, requests, age>>

\* WireguardBackend.disconnect goes on after its delay and takes the tunnel down.
TunnelDown ==
    /\ vpn = "closing"
    /\ vpn' = "off"
    /\ UNCHANGED <<taskVars, inForeground, loggedIn, step, seen, tunnelled, located, zone,
                   ip, listZone, servers, requests, age>>

\* The age of data in ticks, as far as the comparison of its timestamp with the
\* clock tells ages apart.
Older(a, limit) == IF a < limit THEN a + 1 ELSE a

Tick ==
    /\ TaskTick
    /\ age' = [location |-> Older(age.location, LocationDelay),
               loads    |-> Older(age.loads, LoadsDelay),
               list     |-> Older(age.list, ListDelay)]
    /\ UNCHANGED <<inForeground, loggedIn, vpn, step, seen, tunnelled,
                   located, zone, ip, listZone, servers, requests>>

WakeTask(j) ==
    /\ Wake(j)
    /\ UNCHANGED updaterVars

Next ==
    \/ OnAppStart \/ StartSchedule \/ OnResume \/ OnPause \/ OnDisconnectedByUser
    \/ \E j \in Job : \/ WakeTask(j) \/ UpdateTask(j) \/ NotLoggedIn(j) \/ AfterLocation(j)
                     \/ \E ok \in BOOLEAN : TaskListAnswer(j, ok) \/ LoadsAnswer(j, ok)
    \/ MonitorVpnState
    \/ \E ok \in BOOLEAN : LocationAnswer(ok)
    \/ \E c \in Caller : ReadNetZone(c)
    \/ \E c \in ListCaller : UpdateServerList(c) \/ \E ok \in BOOLEAN : ListAnswer(c, ok)
    \/ Login \/ Logout \/ Move
    \/ VpnConnecting \/ VpnConnected \/ VpnDisconnected
    \/ TunnelDown
    \/ Tick

\* A step of the coroutine j of the task, of which at most one is possible at a
\* time except while the location is being asked for.
TaskGoesOn(j) ==
    \/ WakeTask(j) \/ UpdateTask(j) \/ NotLoggedIn(j) \/ AfterLocation(j)
    \/ MonitorVpnState \/ ReadNetZone("task")
    \/ \E ok \in BOOLEAN : LocationAnswer(ok) \/ TaskListAnswer(j, ok) \/ LoadsAnswer(j, ok)

\* The main thread serves its messages, the task's requests are answered (the API
\* client has timeouts), time passes, and the network is good often enough: a
\* request that is repeated for ever succeeds in the end.
Fairness ==
    /\ WF_vars(Tick)
    /\ WF_vars(\E j \in Job : TaskGoesOn(j))
    /\ SF_vars(LocationAnswer(TRUE))
    /\ SF_vars(\E j \in Job : TaskListAnswer(j, TRUE))

Safety == Init /\ [][Next]_vars

Spec == Safety /\ Fairness

----------------------------------------------------------------------------
\* The address of a VPN server is never taken for the user's own because the VPN
\* connects, or connects and disconnects, while the location is being asked for
\* ("location result is ignored if VPN connects during update"): it is stored only
\* if the tunnel was open when the request was made, under a published Disabled.
OwnAddress == [][ip # ExitZone /\ ip' = ExitZone => tunnelled = "asked"]_vars

\* lastNetzoneForLogicals is the zone that the stored list was computed for,
\* although the address changes while lists are under way and the answers to
\* several requests arrive in any order.
ListZoneKnown == listZone = servers

\* On the home screen of a logged-in user the task is executing or scheduled:
\* no order of screens coming and going, of requests and of failing calls lets
\* the updates stop.
UpdatesGoOn == inForeground /\ loggedIn => isExecuting \/ scheduledTo # Never

\* A user who stays on the home screen with the VPN off, its tunnel closed, gets
\* the list for the zone of the device in the end, and keeps it: neither the
\* answers to older requests nor the address of a VPN server that was believed
\* nor addresses learnt from the local agent prevent it.
ListFollowsZone ==
    /\ <>[](inForeground /\ loggedIn /\ vpn = "off")
    /\ <>[][UNCHANGED zone]_zone
    => <>[](servers = zone)
=============================================================================
