---------------------- MODULE ServerListUpdater_proofs ----------------------
(***************************************************************************)
(* The reschedulable task inside the updater of the server list: whatever  *)
(* the updater does, its task keeps TaskInv and implements the safety part *)
(* of RecurringTask, and the updater's own invariants hold, for any        *)
(* delays, zones, callers and coroutines.                                  *)
(***************************************************************************)
EXTENDS ServerListUpdater, TLAPS

\* What one step of the task keeps: its fields have their types and agree with
\* the coroutines.
TaskIInv == TaskTypeOK /\ TaskInv

\* A coroutine is launched while no other is left: TaskInv holds again.
LEMMA Launching ==
    ASSUME TaskTypeOK, NEW d \in Nat, NEW js,
           js \in [Job -> [at : {"ended", "delay", "yield", "action"}, left : Nat]],
           \A j \in Job : js[j].at = "ended",
           LaunchIn(d, js)
    PROVE  TaskIInv'
<1>1. PICK j \in Job :
        /\ jobs' = [js EXCEPT ![j] = Launched(d)]
        /\ currentJob' = j
        /\ isExecuting' = (d = 0)
        /\ scheduledTo' = IF d = 0 THEN Never ELSE d
  BY DEF LaunchIn
<1>2. /\ Launched(d) \in [at : {"ended", "delay", "yield", "action"}, left : Nat]
      /\ Launched(d).at = IF d = 0 THEN "yield" ELSE "delay"
      /\ Launched(d).left = d
  BY DEF Launched
<1>3. jobs' \in [Job -> [at : {"ended", "delay", "yield", "action"}, left : Nat]]
  BY <1>1, <1>2
<1>4. /\ jobs'[j] = Launched(d)
      /\ \A i \in Job : i # j => jobs'[i].at = "ended"
  BY <1>1
<1>5. TaskTypeOK'
  BY <1>1, <1>3 DEF TaskTypeOK
<1>6. TaskInv'
  BY <1>1, <1>2, <1>4 DEF TaskInv, Never
<1> QED BY <1>5, <1>6 DEF TaskIInv

\* The coroutines that live on once the current one is cancelled: none, if the
\* action is at rest.
LEMMA Cancelling ==
    ASSUME TaskIInv
    PROVE  /\ Cancelled \in [Job -> [at : {"ended", "delay", "yield", "action"}, left : Nat]]
           /\ \A j \in Job : Cancelled[j].at = "ended"
  BY DEF TaskIInv, TaskTypeOK, TaskInv, Cancelled, Ended

\* Every step of the task keeps its invariant.
LEMMA TaskStep ==
    ASSUME TaskIInv, TaskNext
    PROVE  TaskIInv'
<1> USE TaskAssumption DEF TaskIInv
<1>1. ASSUME NEW d \in Delays, ScheduleIn(d) PROVE TaskIInv'
  <2>1. CASE isExecuting
    BY <1>1, <2>1 DEF ScheduleIn, TaskTypeOK, TaskInv
  <2>2. CASE ~isExecuting
    <3>1. LaunchIn(d, Cancelled) BY <1>1, <2>2 DEF ScheduleIn
    <3> HIDE DEF TaskIInv
    <3>2. TaskTypeOK BY DEF TaskIInv
    <3> QED BY <3>1, <3>2, Launching, Cancelling
  <2> QED BY <2>1, <2>2
<1>2. ASSUME CancelSchedule PROVE TaskIInv'
  <2>1. CASE isExecuting
    BY <1>2, <2>1 DEF CancelSchedule, TaskTypeOK, TaskInv, Never
  <2>2. CASE ~isExecuting
    <3>1. jobs' = Cancelled /\ scheduledTo' = Never /\ UNCHANGED <<currentJob, isExecuting>>
      BY <1>2, <2>2 DEF CancelSchedule
    <3> QED BY <2>2, <3>1, Cancelling DEF TaskTypeOK, TaskInv, Never
  <2> QED BY <2>1, <2>2
<1>3. ASSUME NEW j \in Job, Wake(j) PROVE TaskIInv'
  BY <1>3 DEF Wake, TaskTypeOK, TaskInv, Never
<1>4. ASSUME NEW j \in Job, BeginAction(j) PROVE TaskIInv'
  BY <1>4 DEF BeginAction, TaskTypeOK, TaskInv, Never
<1>5. ASSUME NEW j \in Job, NEW own \in Delays \cup {Never}, EndAction(j, own) PROVE TaskIInv'
  <2> DEFINE pending == IF own = Never THEN scheduledTo ELSE own
             others == [jobs EXCEPT ![j] = Ended]
  <2>1. /\ others \in [Job -> [at : {"ended", "delay", "yield", "action"}, left : Nat]]
        /\ \A i \in Job : others[i].at = "ended"
    BY <1>5 DEF EndAction, TaskTypeOK, TaskInv, Ended
  <2>2. CASE pending = Never
    <3>1. /\ jobs' = others /\ currentJob' = NoJob
          /\ isExecuting' = FALSE /\ scheduledTo' = Never
      BY <1>5, <2>2 DEF EndAction
    <3> QED BY <2>1, <3>1 DEF TaskTypeOK, TaskInv, Never
  <2>3. CASE pending # Never
    <3>1. LaunchIn(pending, others) BY <1>5, <2>3 DEF EndAction
    <3>2. pending \in Nat BY <2>3 DEF TaskTypeOK, Never
    <3>3. TaskTypeOK OBVIOUS
    <3> HIDE DEF pending, others, TaskIInv
    <3> QED BY <2>1, <3>1, <3>2, <3>3, Launching
  <2> QED BY <2>2, <2>3
<1>6. ASSUME TaskTick PROVE TaskIInv'
  <2>1. \A t \in Nat : Sooner(t) \in Nat
    BY DEF Sooner
  <2>2. Sooner(Never) = Never
    BY DEF Sooner, Never
  <2>3. \A t \in Nat \cup {Never} : Sooner(t) \in Nat \cup {Never}
                                     /\ (Sooner(t) = Never <=> t = Never)
    BY DEF Sooner, Never
  <2>4. /\ jobs' \in [Job -> [at : {"ended", "delay", "yield", "action"}, left : Nat]]
        /\ \A j \in Job : /\ jobs'[j].at = jobs[j].at
                          /\ jobs'[j].left = Sooner(jobs[j].left)
    BY <1>6, <2>1 DEF TaskTick, TaskTypeOK
  <2>5. /\ scheduledTo' = Sooner(scheduledTo)
        /\ UNCHANGED <<currentJob, isExecuting>>
    BY <1>6 DEF TaskTick
  <2>6. TaskTypeOK'
    BY <2>3, <2>4, <2>5 DEF TaskTypeOK
  <2>7. TaskInv'
    BY <2>2, <2>4, <2>5 DEF TaskTypeOK, TaskInv
  <2> QED BY <2>6, <2>7
<1> QED BY <1>1, <1>2, <1>3, <1>4, <1>5, <1>6 DEF TaskNext

-----------------------------------------------------------------------------
\* Every step of the updater is a step of its task or leaves the task alone.
LEMMA UpdaterStep ==
    ASSUME Next
    PROVE  TaskNext \/ UNCHANGED taskVars
<1> USE UpdaterAssumption
<1>1. /\ 0 \in Delays
      /\ NextDelay \in Delays \cup {Never}
  BY DEF NextDelay
<1>2. CASE OnAppStart \/ StartSchedule \/ OnResume \/ OnPause \/ OnDisconnectedByUser
  BY <1>1, <1>2 DEF TaskNext, OnAppStart, StartSchedule, OnResume, OnPause, OnDisconnectedByUser
<1>3. ASSUME NEW j \in Job, WakeTask(j) \/ UpdateTask(j) PROVE TaskNext
  BY <1>3 DEF TaskNext, WakeTask, UpdateTask
<1>4. ASSUME NEW j \in Job, NEW d \in Delays \cup {Never}, Return(j, d) PROVE TaskNext
  BY <1>4 DEF TaskNext, Return
<1>5. ASSUME NEW j \in Job, NotLoggedIn(j) PROVE TaskNext
  BY <1>4, <1>5 DEF NotLoggedIn
<1>6. ASSUME NEW j \in Job, AfterLocation(j) PROVE TaskNext \/ UNCHANGED taskVars
  BY <1>1, <1>4, <1>6 DEF AfterLocation, UpdateListOrLoads
<1>7. ASSUME NEW j \in Job, NEW ok \in BOOLEAN, TaskListAnswer(j, ok) \/ LoadsAnswer(j, ok)
      PROVE  TaskNext \/ UNCHANGED taskVars
  BY <1>1, <1>4, <1>7 DEF TaskListAnswer, LoadsAnswer
<1>8. CASE MonitorVpnState \/ \E ok \in BOOLEAN : LocationAnswer(ok)
  BY <1>8 DEF MonitorVpnState, LocationAnswer
<1>9. CASE \E c \in ListCaller : UpdateServerList(c) \/ \E ok \in BOOLEAN : ListAnswer(c, ok)
  BY <1>9 DEF UpdateServerList, ListAnswer
<1>9a. CASE \E c \in Caller : ReadNetZone(c)
  BY <1>9a DEF ReadNetZone
<1>10. CASE \/ Login \/ Logout \/ Move
            \/ VpnConnecting \/ VpnConnected \/ VpnDisconnected \/ TunnelDown
  BY <1>10 DEF Login, Logout, Move, VpnConnecting, VpnConnected, VpnDisconnected, TunnelDown
<1>11. CASE Tick
  BY <1>11 DEF TaskNext, Tick
<1> QED BY <1>2, <1>3, <1>5, <1>6, <1>7, <1>8, <1>9, <1>9a, <1>10, <1>11 DEF Next

\* The task starts with its invariant.
LEMMA TaskStarts ==
    ASSUME TaskInit
    PROVE  TaskIInv
<1>1. /\ jobs \in [Job -> [at : {"ended", "delay", "yield", "action"}, left : Nat]]
      /\ \A j \in Job : jobs[j].at = "ended"
  BY DEF TaskInit, Ended
<1>2. TaskTypeOK
  BY <1>1 DEF TaskInit, TaskTypeOK
<1>3. TaskInv
  BY <1>1 DEF TaskInit, TaskInv
<1> QED BY <1>2, <1>3 DEF TaskIInv

\* A step of the updater, or a stuttering one, keeps the invariant of the task.
LEMMA TaskKept ==
    ASSUME TaskIInv, [Next]_vars
    PROVE  TaskIInv'
<1>1. CASE UNCHANGED taskVars
  BY <1>1 DEF taskVars, TaskIInv, TaskTypeOK, TaskInv
<1>2. CASE TaskNext
  BY <1>2, TaskStep
<1>3. UNCHANGED vars => UNCHANGED taskVars
  BY DEF vars
<1> QED BY <1>1, <1>2, <1>3, UpdaterStep

\* The fields of the task describe its coroutines, whatever the updater asks for
\* (ReschedulableTask.kt).
THEOREM TaskIsConsistent == Safety => []TaskInv
<1>1. Init => TaskIInv
  BY TaskStarts DEF Init
<1>2. TaskIInv /\ [Next]_vars => TaskIInv'
  BY TaskKept
<1>3. TaskIInv => TaskInv
  BY DEF TaskIInv
<1> QED BY <1>1, <1>2, <1>3, PTL DEF Safety

-----------------------------------------------------------------------------
\* The phase of the task in terms of its coroutines, when at most one is alive.
LEMMA Phases ==
    ASSUME TaskIInv
    PROVE  /\ ~isExecuting <=> taskPhase = "idle"
           /\ \A j \in Job : /\ jobs[j].at = "yield" => taskPhase = "started"
                             /\ jobs[j].at = "action" => taskPhase = "running"
                             /\ jobs[j].at = "delay" => taskPhase = "idle"
           /\ (\A j \in Job : jobs[j].at = "ended") => taskPhase = "idle"
  BY DEF TaskIInv, TaskInv, taskPhase, InAction, InYield

\* After a launch the task is due, or has started.
LEMMA LaunchedPhase ==
    ASSUME TaskIInv', NEW d \in Nat, NEW js,
           js \in [Job -> [at : {"ended", "delay", "yield", "action"}, left : Nat]],
           LaunchIn(d, js)
    PROVE  /\ d = 0 => taskPhase' = "started" /\ scheduledTo' = Never
           /\ d # 0 => taskPhase' = "idle" /\ scheduledTo' = d
<1>1. PICK j \in Job :
        /\ jobs' = [js EXCEPT ![j] = Launched(d)]
        /\ isExecuting' = (d = 0)
        /\ scheduledTo' = IF d = 0 THEN Never ELSE d
  BY DEF LaunchIn
<1>2. jobs'[j].at = IF d = 0 THEN "yield" ELSE "delay"
  BY <1>1 DEF Launched
<1>3. /\ jobs'[j].at = "yield" => taskPhase' = "started"
      /\ jobs'[j].at = "delay" => taskPhase' = "idle"
  BY DEF TaskIInv, TaskInv, taskPhase, InAction, InYield
<1> QED BY <1>1, <1>2, <1>3

\* Every step of the task is a step of RecurringTask, or changes nothing of it.
LEMMA TaskSimulates ==
    ASSUME TaskIInv, TaskIInv', TaskNext
    PROVE  Task!AbstractNext \/ UNCHANGED <<scheduledTo, taskPhase>>
<1> USE TaskAssumption
<1>a. TaskTypeOK /\ TaskTypeOK' /\ TaskInv /\ TaskInv'
  BY DEF TaskIInv
<1>1. ASSUME NEW d \in Delays, ScheduleIn(d) PROVE Task!Request(d)
  <2>1. CASE isExecuting
    <3>1. UNCHANGED <<jobs, isExecuting>> /\ scheduledTo' = d
      BY <1>1, <2>1 DEF ScheduleIn
    <3>2. UNCHANGED taskPhase /\ taskPhase # "idle"
      BY <2>1, <3>1, Phases DEF taskPhase, InAction, InYield
    <3> QED BY <3>1, <3>2 DEF Task!Request
  <2>2. CASE ~isExecuting
    <3>1. LaunchIn(d, Cancelled) /\ d \in Nat
      BY <1>1, <2>2 DEF ScheduleIn
    <3>2. taskPhase = "idle"
      BY <2>2, Phases
    <3>3. /\ d = 0 => taskPhase' = "started" /\ scheduledTo' = Never
          /\ d # 0 => taskPhase' = "idle" /\ scheduledTo' = d
      BY <3>1, Cancelling, LaunchedPhase
    <3> QED BY <3>2, <3>3 DEF Task!Request, Task!Never, Never
  <2> QED BY <1>a, <2>1, <2>2 DEF TaskTypeOK
<1>2. ASSUME CancelSchedule PROVE Task!Cancel \/ UNCHANGED <<scheduledTo, taskPhase>>
  <2>1. scheduledTo' = Never
    BY <1>2 DEF CancelSchedule
  <2>2. UNCHANGED taskPhase
    <3>1. CASE isExecuting
      BY <1>2, <3>1 DEF CancelSchedule, taskPhase, InAction, InYield
    <3>2. CASE ~isExecuting
      <4>1. UNCHANGED isExecuting BY <1>2 DEF CancelSchedule
      <4>2. taskPhase = "idle" /\ taskPhase' = "idle"
        BY <3>2, <4>1, <1>a DEF TaskInv, taskPhase, InAction, InYield
      <4> QED BY <4>2
    <3> QED BY <3>1, <3>2
  <2> QED BY <2>1, <2>2 DEF Task!Cancel, Task!Never, Never
<1>3. ASSUME NEW j \in Job, Wake(j) PROVE Task!Expire
  <2>1. ~isExecuting /\ scheduledTo = 0
    BY <1>3, <1>a DEF Wake, TaskInv, Never
  <2>2. taskPhase = "idle"
    BY <2>1, Phases
  <2>3. jobs'[j].at = "yield" /\ scheduledTo' = Never
    BY <1>3, <1>a DEF Wake, TaskTypeOK
  <2>4. taskPhase' = "started"
    BY <2>3, <1>a DEF TaskInv, taskPhase, InAction, InYield
  <2> QED BY <2>1, <2>2, <2>3, <2>4 DEF Task!Expire, Task!Never, Never
<1>4. ASSUME NEW j \in Job, BeginAction(j) PROVE Task!Begin
  <2>1. taskPhase = "started"
    BY <1>4, Phases DEF BeginAction
  <2>2. jobs'[j].at = "action" /\ UNCHANGED scheduledTo
    BY <1>4, <1>a DEF BeginAction, TaskTypeOK
  <2>3. taskPhase' = "running"
    BY <2>2 DEF taskPhase, InAction
  <2> QED BY <2>1, <2>2, <2>3 DEF Task!Begin
<1>5. ASSUME NEW j \in Job, NEW own \in Delays \cup {Never}, EndAction(j, own) PROVE Task!End
  <2> DEFINE pending == IF own = Never THEN scheduledTo ELSE own
             others == [jobs EXCEPT ![j] = Ended]
  <2>1. /\ others \in [Job -> [at : {"ended", "delay", "yield", "action"}, left : Nat]]
        /\ \A i \in Job : others[i].at = "ended"
    BY <1>5, <1>a DEF EndAction, TaskTypeOK, TaskInv, Ended
  <2>2. taskPhase = "running"
    BY <1>5, Phases DEF EndAction
  <2>3. pending \in Delays \cup {scheduledTo}
    OBVIOUS
  <2>4. CASE pending = Never
    <3>1. jobs' = others /\ scheduledTo' = pending
      BY <1>5, <2>4 DEF EndAction
    <3>2. taskPhase' = "idle"
      BY <2>1, <3>1 DEF taskPhase, InAction, InYield
    <3>3. pending # 0
      BY <2>4 DEF Never
    <3> HIDE DEF pending, others
    <3> QED BY <2>2, <2>3, <3>1, <3>2, <3>3 DEF Task!End
  <2>5. CASE pending # Never
    <3>1. LaunchIn(pending, others) BY <1>5, <2>5 DEF EndAction
    <3>2. pending \in Nat BY <2>5, <1>a DEF TaskTypeOK, Never
    <3> HIDE DEF pending, others
    <3>3. /\ pending = 0 => taskPhase' = "started" /\ scheduledTo' = Never
          /\ pending # 0 => taskPhase' = "idle" /\ scheduledTo' = pending
      BY <2>1, <3>1, <3>2, LaunchedPhase
    <3> QED BY <2>2, <2>3, <3>3 DEF Task!End, Task!Never, Never
  <2> QED BY <2>4, <2>5
<1>6. ASSUME TaskTick PROVE Task!Pass \/ UNCHANGED <<scheduledTo, taskPhase>>
  <2>1. \A j \in Job : jobs'[j].at = jobs[j].at
    BY <1>6, <1>a DEF TaskTick, TaskTypeOK
  <2>2. UNCHANGED taskPhase
    BY <2>1 DEF taskPhase, InAction, InYield
  <2>3. scheduledTo' = IF scheduledTo > 0 THEN scheduledTo - 1 ELSE scheduledTo
    BY <1>6 DEF TaskTick, Sooner
  <2> QED BY <2>2, <2>3 DEF Task!Pass, Task!Earlier
<1> QED BY <1>1, <1>2, <1>3, <1>4, <1>5, <1>6 DEF TaskNext, Task!AbstractNext

\* The task of the updater implements RecurringTask as far as safety goes: its
\* executions never overlap, the last request is the one that is served, and
\* nothing disturbs an execution that has started.  (Fairness: TaskRefines, by TLC.)
THEOREM TaskImplementsRecurringTask == Safety => Task!AbstractSafety
<1>1. Init => TaskIInv /\ Task!AbstractInit
  <2> SUFFICES ASSUME Init PROVE TaskIInv /\ Task!AbstractInit
    OBVIOUS
  <2>1. TaskInit /\ TaskIInv
    BY TaskStarts DEF Init
  <2>2. \A j \in Job : jobs[j].at = "ended"
    BY <2>1 DEF TaskInit, Ended
  <2>3. taskPhase = "idle" /\ scheduledTo = Never
    BY <2>1, <2>2, Phases DEF TaskInit
  <2> QED BY <2>1, <2>3 DEF Task!AbstractInit, Task!Never, Never
<1>2. TaskIInv /\ [Next]_vars => TaskIInv'
  BY TaskKept
<1>3. TaskIInv /\ TaskIInv' /\ [Next]_vars => [Task!AbstractNext]_(Task!abstractVars)
  <2> SUFFICES ASSUME TaskIInv, TaskIInv', [Next]_vars
               PROVE  Task!AbstractNext \/ UNCHANGED <<scheduledTo, taskPhase>>
    BY DEF Task!abstractVars
  <2>1. CASE TaskNext
    BY <2>1, TaskSimulates
  <2>2. CASE UNCHANGED taskVars
    BY <2>2 DEF taskVars, taskPhase, InAction, InYield
  <2>3. UNCHANGED vars => UNCHANGED taskVars
    BY DEF vars
  <2> QED BY <2>1, <2>2, <2>3, UpdaterStep
<1> QED BY <1>1, <1>2, <1>3, PTL DEF Safety, Task!AbstractSafety

-----------------------------------------------------------------------------
\* updateTask waits for something only while the action runs.
StepRuns == step # "none" => InAction

\* A location request whose collector is up to date is made with the VPN off, so
\* that the tunnel is never opened while one is under way.
NotTunnelled == tunnelled # "opened" /\ (step = "location" /\ seen => IsDisabled)

\* An execution that found nobody logged in will be followed by another one if a
\* logged-in user is on the home screen by now.
LateLogin == step = "loggedOut" /\ inForeground /\ loggedIn => scheduledTo # Never

\* While the task waits for a list, its request for it is noted.
TaskRequest == step \in {"zoneList", "list"} => requests["task"] # NoRequest

UpdaterInv ==
    /\ TaskRequest /\ TypeOK /\ TaskInv /\ StepRuns /\ NotTunnelled
    /\ ListZoneKnown /\ LateLogin /\ UpdatesGoOn

\* scheduleIn(0) starts the task or leaves a request for the running execution.
LEMMA ScheduledNow ==
    ASSUME TaskTypeOK, TaskInv, ScheduleIn(0)
    PROVE  /\ isExecuting' /\ (InAction => InAction' /\ scheduledTo' # Never)
<1>1. CASE isExecuting
  BY <1>1 DEF ScheduleIn, InAction, Never
<1>2. CASE ~isExecuting
  BY <1>2 DEF ScheduleIn, LaunchIn, InAction, TaskInv
<1> QED BY <1>1, <1>2 DEF TaskTypeOK

\* The end of an execution: a request of its own or one that is pending is kept.
LEMMA EndKeepsRequest ==
    ASSUME TaskTypeOK, NEW j \in Job, NEW own \in Nat \cup {Never}, EndAction(j, own),
           own # Never \/ scheduledTo # Never
    PROVE  isExecuting' \/ scheduledTo' # Never
<1> DEFINE pending == IF own = Never THEN scheduledTo ELSE own
<1>1. pending # Never /\ pending \in Nat
  BY DEF TaskTypeOK
<1>2. LaunchIn(pending, [jobs EXCEPT ![j] = Ended])
  BY <1>1 DEF EndAction
<1> QED BY <1>1, <1>2 DEF LaunchIn, Never

\* What every step of the updater leaves of the task, used for the types.
LEMMA TaskTypeKept ==
    ASSUME UpdaterInv, [Next]_vars
    PROVE  TaskTypeOK' /\ TaskInv'
  BY TaskKept DEF UpdaterInv, TypeOK, TaskIInv

\* Calls that schedule or cancel the task.
LEMMA SchedulingKept ==
    ASSUME UpdaterInv, Next,
           OnAppStart \/ StartSchedule \/ OnResume \/ OnPause \/ OnDisconnectedByUser
    PROVE  UpdaterInv'
<1>1. TaskTypeOK' /\ TaskInv'
  BY TaskTypeKept
<1>2. CASE OnPause
  <2>1. InAction => InAction'
    <3>1. InAction => isExecuting
      BY DEF UpdaterInv, TaskInv, InAction
    <3>2. isExecuting => jobs' = jobs
      BY <1>2 DEF OnPause, CancelSchedule
    <3> QED BY <3>1, <3>2 DEF InAction
  <2>2. UNCHANGED <<loggedIn, vpn, step, seen, tunnelled, located, zone, ip,
                    listZone, servers, requests, age>> /\ inForeground' = FALSE
    BY <1>2 DEF OnPause
  <2>3. TypeOK'
    <3>1. inForeground' \in BOOLEAN
      BY <2>2
    <3> QED BY <1>1, <2>2, <3>1 DEF UpdaterInv, TypeOK
  <2>4. StepRuns' /\ LateLogin' /\ UpdatesGoOn'
    BY <2>1, <2>2 DEF UpdaterInv, StepRuns, LateLogin, UpdatesGoOn
  <2>5. NotTunnelled' /\ ListZoneKnown' /\ TaskRequest'
    BY <2>2 DEF UpdaterInv, NotTunnelled, IsDisabled, ListZoneKnown, TaskRequest
  <2> QED BY <1>1, <2>3, <2>4, <2>5 DEF UpdaterInv
<1>3. CASE OnAppStart \/ StartSchedule \/ OnResume \/ OnDisconnectedByUser
  <2>1. isExecuting' /\ (InAction => InAction' /\ scheduledTo' # Never)
    BY <1>3, ScheduledNow DEF OnAppStart, StartSchedule, OnResume, OnDisconnectedByUser,
                              UpdaterInv, TypeOK
  <2>2. UNCHANGED <<loggedIn, vpn, step, seen, tunnelled, located, zone, ip, listZone,
                    servers, requests, age>>
    BY <1>3 DEF OnAppStart, StartSchedule, OnResume, OnDisconnectedByUser, updaterVars
  <2>3. inForeground' \in BOOLEAN
    BY <1>3 DEF OnAppStart, StartSchedule, OnResume, OnDisconnectedByUser, updaterVars,
                UpdaterInv, TypeOK
  <2>4. TypeOK'
    BY <1>1, <2>2, <2>3 DEF UpdaterInv, TypeOK
  <2>5. StepRuns' /\ LateLogin' /\ UpdatesGoOn'
    BY <2>1, <2>2 DEF UpdaterInv, StepRuns, LateLogin, UpdatesGoOn
  <2>6. NotTunnelled' /\ ListZoneKnown' /\ TaskRequest'
    BY <2>2 DEF UpdaterInv, NotTunnelled, IsDisabled, ListZoneKnown, TaskRequest
  <2> QED BY <1>1, <2>4, <2>5, <2>6 DEF UpdaterInv
<1> QED BY <1>2, <1>3

\* Steps that leave the task alone and change only what is around it.
LEMMA SurroundingsKept ==
    ASSUME UpdaterInv, Next,
           \/ Login \/ Logout \/ Move
           \/ VpnConnecting \/ VpnConnected \/ VpnDisconnected \/ TunnelDown
           \/ MonitorVpnState
    PROVE  UpdaterInv'
<1> USE UpdaterAssumption
<1>1. TaskTypeOK' /\ TaskInv'
  BY TaskTypeKept
<1>2. UNCHANGED taskVars
  BY DEF Login, Logout, Move, VpnConnecting, VpnConnected, VpnDisconnected, TunnelDown,
         MonitorVpnState
<1>3. UNCHANGED <<scheduledTo, isExecuting, InAction>>
  BY <1>2 DEF taskVars, InAction
<1>4. CASE Login \/ Logout \/ Move
  <2>1. UNCHANGED <<inForeground, vpn, step, seen, tunnelled, located, ip,
                    listZone, servers, requests, age>>
    BY <1>4 DEF Login, Logout, Move
  <2>2. loggedIn' \in BOOLEAN /\ zone' \in Zone
    BY <1>4 DEF Login, Logout, Move, UpdaterInv, TypeOK
  <2>3. TypeOK'
    BY <1>1, <2>1, <2>2 DEF UpdaterInv, TypeOK
  <2>4. inForeground' /\ loggedIn' => loggedIn
    BY <1>4, <2>1 DEF Login, Logout, Move
  <2>5. StepRuns' /\ LateLogin' /\ UpdatesGoOn'
    BY <1>3, <2>1, <2>4 DEF UpdaterInv, StepRuns, LateLogin, UpdatesGoOn
  <2>6. NotTunnelled' /\ ListZoneKnown' /\ TaskRequest'
    BY <2>1 DEF UpdaterInv, NotTunnelled, IsDisabled, ListZoneKnown, TaskRequest
  <2> QED BY <1>1, <2>3, <2>5, <2>6 DEF UpdaterInv
<1>5. CASE VpnConnecting \/ VpnConnected \/ VpnDisconnected \/ TunnelDown
  <2>1. UNCHANGED <<inForeground, loggedIn, step, located, zone, listZone, servers, requests, age>>
    BY <1>5 DEF VpnConnecting, VpnConnected, VpnDisconnected, TunnelDown
  <2>2. seen' \in BOOLEAN /\ vpn' \in {"off", "closing", "on"} /\ ip' \in {ip, zone}
    BY <1>5 DEF VpnConnecting, VpnConnected, VpnDisconnected, TunnelDown, UpdaterInv, TypeOK
  <2>3. UNCHANGED tunnelled
    <3>1. VpnConnected => step # "location"
      BY DEF VpnConnected, UpdaterInv, NotTunnelled, IsDisabled
    <3> QED BY <1>5, <3>1 DEF VpnConnecting, VpnConnected, VpnDisconnected, TunnelDown
  <2>4. step' = "location" /\ seen' => IsDisabled'
    BY <1>5, <2>1 DEF VpnConnecting, VpnConnected, VpnDisconnected, TunnelDown, UpdaterInv,
                      NotTunnelled, IsDisabled
  <2>5. TypeOK'
    BY <1>1, <2>1, <2>2, <2>3 DEF UpdaterInv, TypeOK
  <2>6. StepRuns' /\ LateLogin' /\ UpdatesGoOn'
    BY <1>3, <2>1 DEF UpdaterInv, StepRuns, LateLogin, UpdatesGoOn
  <2>7. NotTunnelled' /\ ListZoneKnown' /\ TaskRequest'
    BY <2>1, <2>3, <2>4 DEF UpdaterInv, NotTunnelled, IsDisabled, ListZoneKnown, TaskRequest
  <2> QED BY <1>1, <2>5, <2>6, <2>7 DEF UpdaterInv
<1>6. CASE MonitorVpnState
  BY <1>1, <1>3, <1>6 DEF MonitorVpnState, UpdaterInv, TypeOK, StepRuns,
              NotTunnelled, IsDisabled, ListZoneKnown, LateLogin, UpdatesGoOn,
              TaskRequest
<1> QED BY <1>4, <1>5, <1>6

\* A list is stored with the zone of its request.
LEMMA Storing ==
    ASSUME UpdaterInv, NEW c \in Caller, NEW ok \in BOOLEAN, StoreList(c, ok),
           requests[c] \notin {NoRequest, Experiment}
    PROVE  /\ servers' \in Zone \cup {ExitZone, NoZone}
           /\ listZone' = servers'
           /\ age' \in [location : 0..LocationDelay, loads : 0..LoadsDelay, list : 0..ListDelay]
<1> USE UpdaterAssumption
<1>1. requests[c] \in Zone \cup {ExitZone, NoZone}
  BY DEF UpdaterInv, TypeOK
<1>2. age \in [location : 0..LocationDelay, loads : 0..LoadsDelay, list : 0..ListDelay]
  BY DEF UpdaterInv, TypeOK
<1>3. /\ servers \in Zone \cup {ExitZone, NoZone} /\ listZone = servers
  BY DEF UpdaterInv, TypeOK, ListZoneKnown
<1>4. 0 \in 0..LoadsDelay /\ 0 \in 0..ListDelay
  OBVIOUS
<1>5. [age EXCEPT !.list = 0, !.loads = 0]
        \in [location : 0..LocationDelay, loads : 0..LoadsDelay, list : 0..ListDelay]
  BY <1>2, <1>4
<1> QED BY <1>1, <1>2, <1>3, <1>5 DEF StoreList

\* Requests for the list by coroutines other than the task, and their answers.
LEMMA ListRequestsKept ==
    ASSUME UpdaterInv, Next,
           \E c \in ListCaller : UpdateServerList(c) \/ \E ok \in BOOLEAN : ListAnswer(c, ok)
    PROVE  UpdaterInv'
<1> USE UpdaterAssumption
<1>1. TaskTypeOK' /\ TaskInv'
  BY TaskTypeKept
<1>2. PICK c \in ListCaller : UpdateServerList(c) \/ \E ok \in BOOLEAN : ListAnswer(c, ok)
  OBVIOUS
<1>3. c \in Caller /\ c # "task"
  BY DEF Caller
<1>4. UNCHANGED <<taskVars, inForeground, loggedIn, vpn, step, seen,
                  tunnelled, located, zone, ip>>
  BY <1>2 DEF UpdateServerList, ListAnswer
<1>5. UNCHANGED <<scheduledTo, isExecuting, InAction>>
  BY <1>4 DEF taskVars, InAction
<1>6. StepRuns' /\ LateLogin' /\ UpdatesGoOn' /\ NotTunnelled'
  BY <1>4, <1>5 DEF UpdaterInv, StepRuns, LateLogin, UpdatesGoOn, NotTunnelled, IsDisabled
<1>7. CASE UpdateServerList(c)
  <2>1. requests' = [requests EXCEPT ![c] = Experiment] /\ UNCHANGED <<listZone, servers, age>>
    BY <1>7 DEF UpdateServerList, RequestList
  <2>2. TypeOK'
    BY <1>1, <1>3, <1>4, <2>1 DEF UpdaterInv, TypeOK
  <2>3. ListZoneKnown' /\ TaskRequest'
    BY <1>3, <1>4, <2>1 DEF UpdaterInv, TypeOK, ListZoneKnown,
                            TaskRequest, Caller
  <2> QED BY <1>1, <1>6, <2>2, <2>3 DEF UpdaterInv
<1>8. ASSUME NEW ok \in BOOLEAN, ListAnswer(c, ok) PROVE UpdaterInv'
  <2>1. /\ requests[c] \notin {NoRequest, Experiment}
        /\ requests' = [requests EXCEPT ![c] = NoRequest]
        /\ StoreList(c, ok)
    BY <1>8 DEF ListAnswer
  <2>a. /\ servers' \in Zone \cup {ExitZone, NoZone}
        /\ listZone' = servers'
        /\ age' \in [location : 0..LocationDelay, loads : 0..LoadsDelay, list : 0..ListDelay]
    BY <1>3, <2>1, Storing
  <2>2. TypeOK' /\ ListZoneKnown'
    BY <1>1, <1>3, <1>4, <2>1, <2>a DEF UpdaterInv, TypeOK, ListZoneKnown
  <2>3. TaskRequest'
    BY <1>3, <1>4, <2>1, <2>a DEF UpdaterInv, TypeOK,
                                  TaskRequest, NoRequest, Experiment, Caller
  <2> QED BY <1>1, <1>6, <2>2, <2>3 DEF UpdaterInv
<1> QED BY <1>2, <1>7, <1>8

\* updateServerList reads the zone.
LEMMA ReadNetZoneKept ==
    ASSUME UpdaterInv, Next, NEW c \in Caller, ReadNetZone(c)
    PROVE  UpdaterInv'
<1> USE UpdaterAssumption
<1>1. TaskTypeOK' /\ TaskInv'
  BY TaskTypeKept
<1>2. /\ requests' = [requests EXCEPT ![c] = ip]
      /\ UNCHANGED <<taskVars, inForeground, loggedIn, vpn, step, seen, tunnelled, located,
                     zone, ip, listZone, servers, age>>
  BY DEF ReadNetZone
<1>3. UNCHANGED <<scheduledTo, isExecuting, InAction>>
  BY <1>2 DEF taskVars, InAction
<1>4. TypeOK'
  BY <1>1, <1>2 DEF UpdaterInv, TypeOK
<1>5. StepRuns' /\ LateLogin' /\ UpdatesGoOn' /\ NotTunnelled' /\ ListZoneKnown'
  BY <1>2, <1>3 DEF UpdaterInv, StepRuns, LateLogin, UpdatesGoOn, NotTunnelled, IsDisabled,
                    ListZoneKnown
<1>6. TaskRequest'
  BY <1>2 DEF UpdaterInv, TypeOK, TaskRequest, NoRequest, Caller
<1> QED BY <1>1, <1>4, <1>5, <1>6 DEF UpdaterInv

\* updateTask returns: the updates go on.
LEMMA Returning ==
    ASSUME UpdaterInv, NEW j \in Job, NEW own \in Nat \cup {Never}, Return(j, own),
           inForeground /\ loggedIn => own # Never \/ scheduledTo # Never,
           UNCHANGED <<inForeground, loggedIn>>
    PROVE  UpdatesGoOn' /\ step' = "none"
<1>1. EndAction(j, own) /\ step' = "none"
  BY DEF Return
<1>2. TaskTypeOK
  BY DEF UpdaterInv, TypeOK
<1>3. inForeground /\ loggedIn => isExecuting' \/ scheduledTo' # Never
  BY <1>1, <1>2, EndKeepsRequest
<1> QED BY <1>1, <1>3 DEF UpdatesGoOn

\* NextDelay keeps the updates going on the home screen.
LEMMA NextDelayGoesOn ==
    /\ NextDelay \in Nat \cup {Never}
    /\ inForeground => NextDelay # Never
  BY UpdaterAssumption DEF NextDelay, Never

\* updateTask returns; a list may have been stored.
LEMMA ListStoredKept ==
    ASSUME UpdaterInv, Next, UpdatesGoOn', step' = "none",
           UNCHANGED <<inForeground, loggedIn, vpn, seen, tunnelled, zone, ip>>,
           servers' \in Zone \cup {ExitZone, NoZone}, listZone' = servers',
           located' \in {located, NoZone},
           requests' \in {requests, [requests EXCEPT !["task"] = NoRequest]},
           age' \in [location : 0..LocationDelay, loads : 0..LoadsDelay, list : 0..ListDelay]
    PROVE  UpdaterInv'
<1> USE UpdaterAssumption
<1>1. TaskTypeOK' /\ TaskInv'
  BY TaskTypeKept
<1>2. "task" \in Caller
  BY DEF Caller
<1>3. requests' \in [Caller -> Zone \cup {ExitZone, NoZone, NoRequest, Experiment}]
  BY <1>2 DEF UpdaterInv, TypeOK
<1>4. TypeOK'
  BY <1>1, <1>3 DEF UpdaterInv, TypeOK
<1>6. ListZoneKnown'
  BY DEF ListZoneKnown
<1>7. StepRuns' /\ LateLogin' /\ TaskRequest' /\ NotTunnelled'
  BY DEF UpdaterInv, StepRuns, LateLogin, TaskRequest, NotTunnelled, IsDisabled
<1> QED BY <1>1, <1>4, <1>6, <1>7 DEF UpdaterInv

\* updateTask returns, and the list is the same.
LEMMA ReturnKept ==
    ASSUME UpdaterInv, Next, UpdatesGoOn', step' = "none",
           UNCHANGED <<inForeground, loggedIn, vpn, seen, tunnelled, zone, ip,
                       listZone, servers>>,
           located' \in {located, NoZone},
           requests' \in {requests, [requests EXCEPT !["task"] = NoRequest]},
           age' \in [location : 0..LocationDelay, loads : 0..LoadsDelay, list : 0..ListDelay]
    PROVE  UpdaterInv'
<1>1. servers \in Zone \cup {ExitZone, NoZone} /\ listZone = servers
  BY DEF UpdaterInv, TypeOK, ListZoneKnown
<1> QED BY <1>1, ListStoredKept

\* The task wakes, begins, or finds nobody logged in.
LEMMA TaskBeginKept ==
    ASSUME UpdaterInv, Next, NEW j \in Job,
           WakeTask(j) \/ UpdateTask(j) \/ NotLoggedIn(j)
    PROVE  UpdaterInv'
<1> USE UpdaterAssumption
<1>1. TaskTypeOK' /\ TaskInv'
  BY TaskTypeKept
<1>2. CASE WakeTask(j)
  <2>1. ~isExecuting
    BY <1>2 DEF WakeTask, Wake, UpdaterInv, TaskInv
  <2>2. step = "none"
    BY <2>1 DEF UpdaterInv, StepRuns, TaskInv, InAction
  <2>3. isExecuting'
    BY <1>2 DEF WakeTask, Wake
  <2>4. UNCHANGED updaterVars
    BY <1>2 DEF WakeTask
  <2>5. UpdatesGoOn'
    BY <2>3 DEF UpdatesGoOn
  <2> QED BY <2>2, <2>4, <2>5, ReturnKept DEF updaterVars, UpdaterInv, TypeOK
<1>3. CASE UpdateTask(j)
  <2>1. /\ UNCHANGED <<isExecuting, scheduledTo>>
        /\ InAction'
    BY <1>3 DEF UpdateTask, BeginAction, InAction, UpdaterInv, TypeOK, TaskTypeOK
  <2>2. /\ step' \in {"loggedOut", "location", "located"} /\ seen' \in BOOLEAN
        /\ step' = "loggedOut" => ~loggedIn
        /\ step' = "location" => IsDisabled
    BY <1>3 DEF UpdateTask, UpdaterInv, TypeOK
  <2>3. /\ UNCHANGED <<inForeground, loggedIn, vpn, located, zone, ip, listZone, servers,
                        requests, age>>
        /\ tunnelled' \in {tunnelled, "no", "asked"}
    BY <1>3 DEF UpdateTask
  <2>4. TypeOK'
    BY <1>1, <2>2, <2>3 DEF UpdaterInv, TypeOK
  <2>5. StepRuns' /\ LateLogin' /\ UpdatesGoOn'
    BY <2>1, <2>2, <2>3 DEF UpdaterInv, StepRuns, LateLogin, UpdatesGoOn
  <2>6. NotTunnelled' /\ TaskRequest'
    BY <2>2, <2>3 DEF UpdaterInv, NotTunnelled, IsDisabled, TaskRequest
  <2>7. ListZoneKnown'
    BY <2>3 DEF UpdaterInv, ListZoneKnown
  <2> QED BY <1>1, <2>4, <2>5, <2>6, <2>7 DEF UpdaterInv
<1>4. CASE NotLoggedIn(j)
  <2>1. inForeground /\ loggedIn => scheduledTo # Never
    BY <1>4 DEF NotLoggedIn, UpdaterInv, LateLogin
  <2>2. Return(j, Never) /\ UNCHANGED <<inForeground, loggedIn, vpn, seen, tunnelled,
                    located, zone, ip, listZone, servers, requests, age>>
    BY <1>4 DEF NotLoggedIn
  <2>3. UpdatesGoOn' /\ step' = "none"
    BY <2>1, <2>2, Returning
  <2> QED BY <2>2, <2>3, ReturnKept DEF UpdaterInv, TypeOK
<1> QED BY <1>2, <1>3, <1>4

\* The location is answered.
LEMMA LocationKept ==
    ASSUME UpdaterInv, Next, NEW ok \in BOOLEAN, LocationAnswer(ok)
    PROVE  UpdaterInv'
<1> USE UpdaterAssumption
<1>1. TaskTypeOK' /\ TaskInv'
  BY TaskTypeKept
<1>2. UNCHANGED <<taskVars, inForeground, loggedIn, vpn, zone, listZone,
                  servers, requests>>
  BY DEF LocationAnswer
<1>3. UNCHANGED <<scheduledTo, isExecuting, InAction>>
  BY <1>2 DEF taskVars, InAction
<1>4. step = "location" /\ step' = "located" /\ seen' = TRUE /\ tunnelled' = "no"
  BY DEF LocationAnswer
<1>5. ip' \in {ip, zone, ExitZone} /\ located' \in {zone, ExitZone, NoZone}
  BY DEF LocationAnswer, SeenByApi
<1>6. age' \in [location : 0..LocationDelay, loads : 0..LoadsDelay, list : 0..ListDelay]
  <2>1. age \in [location : 0..LocationDelay, loads : 0..LoadsDelay, list : 0..ListDelay]
    BY DEF UpdaterInv, TypeOK
  <2>2. 0 \in 0..LocationDelay
    OBVIOUS
  <2>3. [age EXCEPT !.location = 0]
          \in [location : 0..LocationDelay, loads : 0..LoadsDelay, list : 0..ListDelay]
    BY <2>1, <2>2
  <2> QED BY <2>1, <2>3 DEF LocationAnswer
<1>7. seen' \in BOOLEAN
  BY <1>4
<1>8. TypeOK'
  BY <1>1, <1>2, <1>4, <1>5, <1>6, <1>7 DEF UpdaterInv, TypeOK
<1>9. StepRuns' /\ LateLogin' /\ UpdatesGoOn' /\ TaskRequest'
  BY <1>2, <1>3, <1>4 DEF UpdaterInv, StepRuns, LateLogin, UpdatesGoOn, TaskRequest
<1>10. NotTunnelled'
  BY <1>4 DEF NotTunnelled, IsDisabled
<1>11. ListZoneKnown'
  BY <1>2, <1>5 DEF UpdaterInv, TypeOK, ListZoneKnown
<1> QED BY <1>1, <1>8, <1>9, <1>10, <1>11 DEF UpdaterInv

\* The task waits for a list, for the loads, or checks the age of its list: the
\* execution goes on and its request, if any, has read the stored address.
LEMMA TaskProceeds ==
    ASSUME UpdaterInv, Next,
           UNCHANGED <<taskVars, inForeground, loggedIn, vpn, seen, tunnelled, zone, ip>>,
           step # "none", step' \in {"located", "zoneList", "list", "loads"},
           located' \in {located, NoZone},
           \/ step' \in {"located", "loads"} /\ requests' = requests
           \/ step' = "located" /\ requests' = [requests EXCEPT !["task"] = NoRequest]
           \/ requests' = [requests EXCEPT !["task"] = Experiment],
           servers' \in Zone \cup {ExitZone, NoZone}, listZone' = servers',
           age' \in [location : 0..LocationDelay, loads : 0..LoadsDelay, list : 0..ListDelay]
    PROVE  UpdaterInv'
<1> USE UpdaterAssumption
<1>1. TaskTypeOK' /\ TaskInv'
  BY TaskTypeKept
<1>2. UNCHANGED <<scheduledTo, isExecuting, InAction>>
  BY DEF taskVars, InAction
<1>3. "task" \in Caller
  BY DEF Caller
<1>4. requests' \in [Caller -> Zone \cup {ExitZone, NoZone, NoRequest, Experiment}]
  BY <1>3 DEF UpdaterInv, TypeOK
<1>5. TypeOK'
  BY <1>1, <1>4 DEF UpdaterInv, TypeOK
<1>7. ListZoneKnown'
  BY DEF ListZoneKnown
<1>8. TaskRequest'
  BY <1>3 DEF UpdaterInv, TypeOK, TaskRequest, NoRequest, Experiment
<1>9. StepRuns' /\ LateLogin' /\ UpdatesGoOn' /\ NotTunnelled'
  BY <1>2 DEF UpdaterInv, StepRuns, LateLogin, UpdatesGoOn, NotTunnelled, IsDisabled
<1> QED BY <1>1, <1>5, <1>7, <1>8, <1>9 DEF UpdaterInv

\* updateTask after the location.
LEMMA AfterLocationKept ==
    ASSUME UpdaterInv, Next, NEW j \in Job, AfterLocation(j)
    PROVE  UpdaterInv'
<1>1. /\ step = "located" /\ located' = NoZone
      /\ UNCHANGED <<inForeground, loggedIn, vpn, seen, tunnelled, zone, ip,
                     listZone, servers, age>>
  BY DEF AfterLocation
<1>2. /\ servers \in Zone \cup {ExitZone, NoZone} /\ listZone = servers
      /\ age \in [location : 0..LocationDelay, loads : 0..LoadsDelay, list : 0..ListDelay]
  BY DEF UpdaterInv, TypeOK, ListZoneKnown
<1>3. CASE /\ UNCHANGED taskVars
           /\ \/ /\ step' \in {"zoneList", "list"}
                 /\ requests' = [requests EXCEPT !["task"] = Experiment]
              \/ step' = "loads" /\ requests' = requests
  BY <1>1, <1>2, <1>3, TaskProceeds
<1>4. CASE Return(j, NextDelay) /\ UNCHANGED requests
  <2>1. UpdatesGoOn' /\ step' = "none"
    BY <1>1, <1>4, NextDelayGoesOn, Returning
  <2> QED BY <1>1, <1>2, <1>4, <2>1, ReturnKept
<1> QED BY <1>3, <1>4 DEF AfterLocation, UpdateListOrLoads, RequestList

\* The list or the loads of the task are answered.
LEMMA TaskAnswerKept ==
    ASSUME UpdaterInv, Next, NEW j \in Job, NEW ok \in BOOLEAN,
           TaskListAnswer(j, ok) \/ LoadsAnswer(j, ok)
    PROVE  UpdaterInv'
<1> USE UpdaterAssumption
<1>1. CASE TaskListAnswer(j, ok)
  <2>1. /\ step \in {"zoneList", "list"} /\ requests["task"] # Experiment
        /\ StoreList("task", ok)
        /\ requests' = [requests EXCEPT !["task"] = NoRequest]
        /\ UNCHANGED <<inForeground, loggedIn, vpn, seen, tunnelled, located, zone, ip>>
    BY <1>1 DEF TaskListAnswer
  <2>2. /\ servers' \in Zone \cup {ExitZone, NoZone}
        /\ listZone' = servers'
        /\ age' \in [location : 0..LocationDelay, loads : 0..LoadsDelay, list : 0..ListDelay]
    BY <2>1, Storing DEF Caller, UpdaterInv, TaskRequest
  <2>3. CASE step = "zoneList"
    <3>1. step' = "located" /\ UNCHANGED taskVars
      BY <1>1, <2>3 DEF TaskListAnswer
    <3> QED BY <2>1, <2>2, <2>3, <3>1, TaskProceeds
  <2>4. CASE step # "zoneList"
    <3>1. Return(j, NextDelay)
      BY <1>1, <2>4 DEF TaskListAnswer
    <3>2. UpdatesGoOn' /\ step' = "none"
      BY <2>1, <3>1, NextDelayGoesOn, Returning
    <3> QED BY <2>1, <2>2, <3>2, ListStoredKept
  <2> QED BY <2>3, <2>4
<1>2. CASE LoadsAnswer(j, ok)
  <2>1. /\ Return(j, NextDelay)
        /\ age' = IF ok THEN [age EXCEPT !.loads = 0] ELSE age
        /\ UNCHANGED <<inForeground, loggedIn, vpn, seen, tunnelled, located, zone,
                       ip, listZone, servers, requests>>
    BY <1>2 DEF LoadsAnswer
  <2>2. age' \in [location : 0..LocationDelay, loads : 0..LoadsDelay, list : 0..ListDelay]
    <3>1. age \in [location : 0..LocationDelay, loads : 0..LoadsDelay, list : 0..ListDelay]
      BY DEF UpdaterInv, TypeOK
    <3>2. 0 \in 0..LoadsDelay
      OBVIOUS
    <3> QED BY <2>1, <3>1, <3>2
  <2>3. UpdatesGoOn' /\ step' = "none"
    BY <2>1, NextDelayGoesOn, Returning
  <2> QED BY <2>1, <2>2, <2>3, ReturnKept
<1> QED BY <1>1, <1>2

\* Time passes.
LEMMA TickKept ==
    ASSUME UpdaterInv, Next, Tick
    PROVE  UpdaterInv'
<1> USE UpdaterAssumption
<1>1. TaskTypeOK' /\ TaskInv'
  BY TaskTypeKept
<1>2. UNCHANGED <<inForeground, loggedIn, vpn, step, seen, tunnelled,
                  located, zone, ip, listZone, servers, requests>>
  BY DEF Tick
<1>3. \A limit \in Nat : \A a \in 0..limit : Older(a, limit) \in 0..limit
  BY DEF Older
<1>4. age' \in [location : 0..LocationDelay, loads : 0..LoadsDelay, list : 0..ListDelay]
  <2>1. /\ age.location \in 0..LocationDelay /\ age.loads \in 0..LoadsDelay
        /\ age.list \in 0..ListDelay
    BY DEF UpdaterInv, TypeOK
  <2> QED BY <1>3, <2>1 DEF Tick
<1>5. /\ UNCHANGED isExecuting
      /\ scheduledTo # Never => scheduledTo' # Never
      /\ InAction => InAction'
  <2>1. TaskTypeOK
    BY DEF UpdaterInv, TypeOK
  <2> QED BY <2>1 DEF Tick, TaskTick, TaskTypeOK, Sooner, Never, InAction
<1>6. TypeOK'
  BY <1>1, <1>2, <1>4 DEF UpdaterInv, TypeOK
<1>7. StepRuns' /\ LateLogin' /\ UpdatesGoOn' /\ NotTunnelled'
  BY <1>2, <1>5 DEF UpdaterInv, StepRuns, LateLogin, UpdatesGoOn, NotTunnelled, IsDisabled
<1>8. ListZoneKnown' /\ TaskRequest'
  BY <1>2 DEF UpdaterInv, ListZoneKnown, TaskRequest
<1> QED BY <1>1, <1>6, <1>7, <1>8 DEF UpdaterInv

-----------------------------------------------------------------------------
\* UpdaterInv is inductive.
LEMMA UpdaterInvariant == Safety => []UpdaterInv
<1>1. Init => UpdaterInv
  <2> SUFFICES ASSUME Init PROVE UpdaterInv
    OBVIOUS
  <2>1. TaskTypeOK /\ TaskInv /\ scheduledTo = Never
    BY TaskStarts DEF Init, TaskIInv, TaskInit
  <2>2. TypeOK
    <3>1. /\ inForeground \in BOOLEAN /\ loggedIn \in BOOLEAN /\ seen \in BOOLEAN
      BY DEF Init
    <3>2. /\ vpn \in {"off", "closing", "on"} /\ tunnelled \in {"no", "asked", "opened"}
          /\ step \in {"none", "loggedOut", "location", "located", "zoneList", "list", "loads"}
      BY DEF Init
    <3>3. /\ located \in Zone \cup {ExitZone, NoZone} /\ zone \in Zone
          /\ ip \in Zone \cup {ExitZone, NoZone}
          /\ listZone \in Zone \cup {ExitZone, NoZone}
          /\ servers \in Zone \cup {ExitZone, NoZone}
      BY DEF Init
    <3>4. requests \in [Caller -> Zone \cup {ExitZone, NoZone, NoRequest, Experiment}]
      BY DEF Init
    <3>5. age \in [location : 0..LocationDelay, loads : 0..LoadsDelay, list : 0..ListDelay]
      <4>1. /\ LocationDelay \in 0..LocationDelay
            /\ LoadsDelay \in 0..LoadsDelay
            /\ ListDelay \in 0..ListDelay
        BY UpdaterAssumption
      <4> QED BY <4>1 DEF Init
    <3> QED BY <2>1, <3>1, <3>2, <3>3, <3>4, <3>5 DEF TypeOK
  <2>3. StepRuns /\ NotTunnelled /\ ListZoneKnown /\ LateLogin /\ UpdatesGoOn /\ TaskRequest
    BY DEF Init, StepRuns, NotTunnelled, IsDisabled, ListZoneKnown, LateLogin,
           UpdatesGoOn, TaskRequest
  <2> QED BY <2>1, <2>2, <2>3 DEF UpdaterInv
<1>2. UpdaterInv /\ [Next]_vars => UpdaterInv'
  <2> SUFFICES ASSUME UpdaterInv, [Next]_vars PROVE UpdaterInv'
    OBVIOUS
  <2>1. CASE Next
    <3>1. CASE OnAppStart \/ StartSchedule \/ OnResume \/ OnPause \/ OnDisconnectedByUser
      BY <2>1, <3>1, SchedulingKept
    <3>2. CASE \/ Login \/ Logout \/ Move
               \/ VpnConnecting \/ VpnConnected \/ VpnDisconnected \/ TunnelDown
               \/ MonitorVpnState
      BY <2>1, <3>2, SurroundingsKept
    <3>3. CASE \E c \in ListCaller :
                  UpdateServerList(c) \/ \E ok \in BOOLEAN : ListAnswer(c, ok)
      BY <2>1, <3>3, ListRequestsKept
    <3>3a. CASE \E c \in Caller : ReadNetZone(c)
      BY <2>1, <3>3a, ReadNetZoneKept
    <3>4. ASSUME NEW j \in Job, WakeTask(j) \/ UpdateTask(j) \/ NotLoggedIn(j) PROVE UpdaterInv'
      BY <2>1, <3>4, TaskBeginKept
    <3>5. ASSUME NEW j \in Job, AfterLocation(j) PROVE UpdaterInv'
      BY <2>1, <3>5, AfterLocationKept
    <3>6. ASSUME NEW j \in Job, NEW ok \in BOOLEAN, TaskListAnswer(j, ok) \/ LoadsAnswer(j, ok)
          PROVE  UpdaterInv'
      BY <2>1, <3>6, TaskAnswerKept
    <3>7. ASSUME NEW ok \in BOOLEAN, LocationAnswer(ok) PROVE UpdaterInv'
      BY <2>1, <3>7, LocationKept
    <3>8. CASE Tick
      BY <2>1, <3>8, TickKept
    <3> QED BY <2>1, <3>1, <3>2, <3>3, <3>3a, <3>4, <3>5, <3>6, <3>7, <3>8 DEF Next
  <2>2. CASE UNCHANGED vars
    BY <2>2 DEF vars, taskVars, updaterVars, UpdaterInv, TypeOK, TaskTypeOK, TaskInv, StepRuns,
       InAction, NotTunnelled, IsDisabled, ListZoneKnown, LateLogin, UpdatesGoOn,
       TaskRequest
  <2> QED BY <2>1, <2>2
<1> QED BY <1>1, <1>2, PTL DEF Safety

\* Type correctness of the updater: the delay of a coroutine is never negative
\* (updateTask's -1 is not scheduled), and a request holds a zone once it has read it.
THEOREM UpdaterTypeCorrect == Safety => []TypeOK
<1>1. UpdaterInv => TypeOK BY DEF UpdaterInv
<1> QED BY <1>1, UpdaterInvariant, PTL

\* updateLocationIfVpnOff does not store the address of a VPN server because the VPN
\* connects while the location is being asked for: whenever it stores one, the tunnel
\* was open when the request was made.
THEOREM AddressIsOwn == Safety => OwnAddress
<1>1. UpdaterInv /\ [Next]_vars => [ip # ExitZone /\ ip' = ExitZone => tunnelled = "asked"]_vars
  <2> SUFFICES ASSUME UpdaterInv, Next, ip # ExitZone, ip' = ExitZone
               PROVE  tunnelled = "asked"
    BY DEF vars, updaterVars
  <2> USE UpdaterAssumption
  <2>1. zone # ExitZone /\ tunnelled \in {"no", "asked"}
    BY DEF UpdaterInv, TypeOK, NotTunnelled, IsDisabled
  <2>2. ASSUME NEW ok \in BOOLEAN, LocationAnswer(ok) PROVE tunnelled = "asked"
    BY <2>1, <2>2 DEF LocationAnswer, SeenByApi
  <2>3. ~(ip' \in {ip, zone})
    BY <2>1
  <2>4. CASE OnAppStart \/ StartSchedule \/ OnResume \/ OnPause \/ OnDisconnectedByUser
    BY <2>3, <2>4 DEF OnAppStart, StartSchedule, OnResume, OnPause, OnDisconnectedByUser,
                      updaterVars
  <2>5. ASSUME NEW j \in Job,
               WakeTask(j) \/ UpdateTask(j) \/ NotLoggedIn(j) \/ AfterLocation(j)
        PROVE  FALSE
    BY <2>3, <2>5 DEF WakeTask, UpdateTask, NotLoggedIn, AfterLocation, updaterVars
  <2>6. ASSUME NEW j \in Job, NEW ok \in BOOLEAN, TaskListAnswer(j, ok) \/ LoadsAnswer(j, ok)
        PROVE  FALSE
    BY <2>3, <2>6 DEF TaskListAnswer, LoadsAnswer
  <2>7. CASE \/ MonitorVpnState \/ (\E c \in Caller : ReadNetZone(c))
             \/ \E c \in ListCaller : UpdateServerList(c) \/ \E ok \in BOOLEAN : ListAnswer(c, ok)
    BY <2>3, <2>7 DEF MonitorVpnState, ReadNetZone, UpdateServerList, ListAnswer
  <2>8. CASE \/ Login \/ Logout \/ Move \/ Tick
             \/ VpnConnecting \/ VpnConnected \/ VpnDisconnected \/ TunnelDown
    BY <2>3, <2>8 DEF Login, Logout, Move, Tick, VpnConnecting, VpnConnected, VpnDisconnected,
                      TunnelDown
  <2> QED BY <2>2, <2>4, <2>5, <2>6, <2>7, <2>8 DEF Next
<1> QED BY <1>1, UpdaterInvariant, PTL DEF Safety, OwnAddress

\* lastNetzoneForLogicals is the zone of the stored list, in whatever order
\* updateServerList's requests are answered.
THEOREM ZoneOfListIsKnown == Safety => []ListZoneKnown
<1>1. UpdaterInv => ListZoneKnown BY DEF UpdaterInv
<1> QED BY <1>1, UpdaterInvariant, PTL

\* On the home screen of a logged-in user the task always executes or is scheduled.
THEOREM UpdatesNeverStop == Safety => []UpdatesGoOn
<1>1. UpdaterInv => UpdatesGoOn BY DEF UpdaterInv
<1> QED BY <1>1, UpdaterInvariant, PTL
=============================================================================
