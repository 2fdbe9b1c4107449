--------------------------- MODULE RecurringTask ---------------------------
(***************************************************************************)
(* What a recurring task promises its users: an action that runs at most   *)
(* once at a time, at the time of the last request, and that a            *)
(* cancellation can no longer stop once it has started.                   *)
(*                                                                         *)
(* Times are relative: due is the time left until the requested execution, *)
(* 0 when it is overdue.  This is the abstract specification implemented   *)
(* by module ReschedulableTask.                                            *)
(***************************************************************************)
EXTENDS Integers

CONSTANT Delays     \* the delays its users ask for

VARIABLES due,      \* time left until the requested execution, or Never
          phase     \* of the execution: idle, started or running

abstractVars == <<due, phase>>

\* No execution is requested (scheduledTo = null).
Never == -1

\* The clock ticks: one unit less until the requested execution.
Earlier(t) == IF t > 0 THEN t - 1 ELSE t

AbstractInit == due = Never /\ phase = "idle"

\* The request replaces the previous one; an idle task that is asked to run at
\* once starts.
Request(d) ==
    \/ /\ phase = "idle" /\ d = 0
       /\ phase' = "started" /\ due' = Never
    \/ /\ phase = "idle" => d # 0
       /\ due' = d
       /\ UNCHANGED phase

\* Forgets the request, never the execution that has started.
Cancel ==
    /\ due # Never
    /\ due' = Never
    /\ UNCHANGED phase

Expire ==
    /\ phase = "idle" /\ due = 0
    /\ phase' = "started" /\ due' = Never

Begin ==
    /\ phase = "started"
    /\ phase' = "running"
    /\ UNCHANGED due

\* The action ends; it may end with a request of its own.  A request that is
\* overdue by then starts the next execution.
End ==
    /\ phase = "running"
    /\ \E d \in Delays \cup {due} :
          \/ d = 0 /\ phase' = "started" /\ due' = Never
          \/ d # 0 /\ phase' = "idle" /\ due' = d

Pass ==
    /\ due > 0
    /\ due' = Earlier(due)
    /\ UNCHANGED phase

AbstractNext ==
    \/ \E d \in Delays : Request(d)
    \/ Cancel \/ Expire \/ Begin \/ End \/ Pass

\* Every execution that starts is carried out and ends; time passes; what is
\* due is started.
AbstractFairness ==
    /\ WF_abstractVars(Pass)
    /\ WF_abstractVars(Expire \/ Begin \/ End)

AbstractSafety == AbstractInit /\ [][AbstractNext]_abstractVars

AbstractSpec == AbstractSafety /\ AbstractFairness
=============================================================================
