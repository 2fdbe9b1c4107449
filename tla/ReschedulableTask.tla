------------------------- MODULE ReschedulableTask -------------------------
(***************************************************************************)
(* The class ReschedulableTask: an action that is scheduled, rescheduled   *)
(* and cancelled by code of the main thread, and that the class carries    *)
(* out in coroutines of the same thread.                                   *)
(*                                                                         *)
(* A coroutine is launched for every request that finds the action at      *)
(* rest.  It waits (delay), gives the thread away once (yield) and runs    *)
(* the action.  What the class knows about its coroutines is kept in three *)
(* fields that the coroutines and the callers change.  Times are relative  *)
(* to the clock: a job has left units to wait, scheduledTo is the time     *)
(* from now to the requested execution.                                    *)
(***************************************************************************)
EXTENDS Integers, FiniteSets

CONSTANTS Delays,   \* the delays its users ask for
          Job,      \* identities of coroutines
          NoJob

ASSUME TaskAssumption == Delays \subseteq Nat /\ NoJob \notin Job

VARIABLES jobs,         \* the coroutines of the task
          currentJob,   \* the field of that name
          isExecuting,  \* the field of that name
          scheduledTo   \* the field of that name, Never for null

taskVars == <<jobs, currentJob, isExecuting, scheduledTo>>

Never == -1

\* A coroutine that has ended, was cancelled or was not launched yet.
Ended == [at |-> "ended", left |-> 0]

TaskTypeOK ==
    /\ jobs \in [Job -> [at : {"ended", "delay", "yield", "action"}, left : Nat]]
    /\ currentJob \in Job \cup {NoJob}
    /\ isExecuting \in BOOLEAN
    /\ scheduledTo \in Nat \cup {Never}

TaskInit ==
    /\ jobs = [j \in Job |-> Ended]
    /\ currentJob = NoJob
    /\ isExecuting = FALSE
    /\ scheduledTo = Never

\* delay(0) does not suspend: the coroutine, which launch starts undispatched,
\* runs on to its yield.
Launched(d) == [at |-> IF d = 0 THEN "yield" ELSE "delay", left |-> d]

\* currentJob?.cancel(); both callers have made sure that it is not executing.
Cancelled == [j \in Job |-> IF j = currentJob THEN Ended ELSE jobs[j]]

\* The rest of scheduleTo when the action is at rest, with the coroutines js
\* that live on: a new coroutine runs up to its first suspension.
LaunchIn(d, js) ==
    \E j \in Job :
        /\ js[j].at = "ended"
        /\ jobs' = [js EXCEPT ![j] = Launched(d)]
        /\ currentJob' = j
        /\ isExecuting' = (d = 0)
        /\ scheduledTo' = IF d = 0 THEN Never ELSE d

ScheduleIn(d) ==
    IF isExecuting
    THEN /\ scheduledTo' = d
         /\ UNCHANGED <<jobs, currentJob, isExecuting>>
    ELSE LaunchIn(d, Cancelled)

\* Mutant: the waiting coroutine is not cancelled.
ForgetSchedule ==
    /\ scheduledTo' = Never
    /\ UNCHANGED <<jobs, currentJob, isExecuting>>

CancelSchedule ==
    /\ scheduledTo' = Never
    /\ jobs' = IF isExecuting THEN jobs ELSE Cancelled
    /\ UNCHANGED <<currentJob, isExecuting>>

\* The delay is over.
Wake(j) ==
    /\ jobs[j].at = "delay" /\ jobs[j].left = 0
    /\ jobs' = [jobs EXCEPT ![j].at = "yield"]
    /\ isExecuting' = TRUE
    /\ scheduledTo' = Never
    /\ UNCHANGED currentJob

\* yield() returns and the action begins.
BeginAction(j) ==
    /\ jobs[j].at = "yield"
    /\ jobs' = [jobs EXCEPT ![j].at = "action"]
    /\ UNCHANGED <<currentJob, isExecuting, scheduledTo>>

\* Mutant: the request made during an execution is forgotten when it ends.
EndActionForgets(j, own) ==
    /\ jobs[j].at = "action"
    /\ jobs' = [jobs EXCEPT ![j] = Ended]
    /\ currentJob' = NoJob
    /\ isExecuting' = FALSE
    /\ scheduledTo' = Never

\* The action returns, its last call being scheduleIn(own) unless own is Never;
\* then the coroutine's finally block carries out the request that is pending.
EndAction(j, own) ==
    LET pending == IF own = Never THEN scheduledTo ELSE own
        others  == [jobs EXCEPT ![j] = Ended]
    IN  /\ jobs[j].at = "action"
        /\ IF pending = Never
           THEN /\ jobs' = others
                /\ currentJob' = NoJob
                /\ isExecuting' = FALSE
                /\ scheduledTo' = Never
           ELSE LaunchIn(pending, others)

Sooner(t) == IF t > 0 THEN t - 1 ELSE t

\* Time passes, also while a coroutine that is due waits for the thread.
TaskTick ==
    /\ jobs' = [j \in Job |-> [jobs[j] EXCEPT !.left = Sooner(@)]]
    /\ scheduledTo' = Sooner(scheduledTo)
    /\ UNCHANGED <<currentJob, isExecuting>>

TaskNext ==
    \/ \E d \in Delays : ScheduleIn(d)
    \/ CancelSchedule
    \/ \E j \in Job : Wake(j)
    \/ \E j \in Job : BeginAction(j)
    \/ \E j \in Job, own \in Delays \cup {Never} : EndAction(j, own)
    \/ TaskTick

\* The main thread serves every message it is posted; the action, which is
\* made of calls that time out, returns; time passes.
TaskFairness ==
    /\ WF_taskVars(\E j \in Job : Wake(j))
    /\ WF_taskVars(\E j \in Job : BeginAction(j))
    /\ WF_taskVars(\E j \in Job, own \in Delays \cup {Never} : EndAction(j, own))
    /\ WF_taskVars(TaskTick)

TaskSafety == TaskInit /\ [][TaskNext]_taskVars

TaskSpec == TaskSafety /\ TaskFairness

----------------------------------------------------------------------------
(***************************************************************************)
(* The promise of a recurring task, read off the coroutines rather than    *)
(* off the fields that are meant to describe them.                         *)
(***************************************************************************)
InAction == \E j \in Job : jobs[j].at = "action"

InYield == \E j \in Job : jobs[j].at = "yield"

taskPhase == IF InAction THEN "running" ELSE IF InYield THEN "started" ELSE "idle"

Task == INSTANCE RecurringTask WITH due <- scheduledTo, phase <- taskPhase

\* ReschedulableTask implements the recurring task: what the coroutines do is
\* what the fields say, executions never overlap, the last request is the one
\* that is served, and a request or a cancellation never disturbs an execution
\* that has started ("If action is currently executing it'll let it finish").
\* With the fairness of the main thread every request that is not replaced or
\* cancelled is served.
TaskRefines == Task!AbstractSpec

\* The field isExecuting and the request agree with the coroutines: at most one
\* coroutine is alive, isExecuting is TRUE exactly while it executes, and at
\* rest it waits exactly as long as scheduledTo says.
TaskInv ==
    /\ \A i, j \in Job : jobs[i].at # "ended" /\ jobs[j].at # "ended" => i = j
    /\ isExecuting <=> \E j \in Job : jobs[j].at \in {"yield", "action"}
    /\ \A j \in Job : jobs[j].at # "ended" => j = currentJob
    /\ ~isExecuting => \/ scheduledTo = Never /\ \A j \in Job : jobs[j].at = "ended"
                       \/ \E j \in Job : /\ jobs[j].at = "delay"
                                         /\ jobs[j].left = scheduledTo
=============================================================================
