----------------------- MODULE VpnConnectionTelemetry -----------------------
(***************************************************************************)
(* Connection statistics (telemetry/VpnConnectionTelemetry.kt): which      *)
(* "vpn_connection" and "vpn_disconnection" events are sent, given the     *)
(* calls of VpnConnectionManager and the states of VpnStateMonitor.        *)
(*                                                                         *)
(* The calls come in any order: VpnConnectionManager makes them from       *)
(* several coroutines.  The states come through a StateFlow: the collector *)
(* runs some time after a change and sees only the latest value.           *)
(* Timestamps are reduced to their presence, dimensions are left out.      *)
(***************************************************************************)
EXTENDS Naturals

CONSTANT MaxStarts      \* bound on the calls of onConnectionStart

ASSUME MaxStartsAssumption == MaxStarts \in Nat

\* Triggers, as far as the code tells them apart.
ConnectTrigger == {"Fallback", "Other"}
DisconnectTrigger == {"NewConnection", "Fallback", "Success", "Error"}
States == {"Connected", "FinalError", "Other"}

VARIABLES
    connectionInProgress,   \* there is a ConnectionInitInfo
    lastConnect,            \* lastConnectTimestampMs != null
    status,                 \* vpnStateMonitor.status.value
    collected,              \* the collector has seen this status
    starts,                 \* calls of onConnectionStart, bounded by MaxStarts
    attempts,               \* history: ConnectionInitInfos created
    connectEvents,          \* history: vpn_connection events sent
    disconnectEvents,       \* history: vpn_disconnection events sent
    succeeded,              \* history: a success was sent since the last disconnection event
    spurious                \* history: a disconnection event was sent without one

vars == <<connectionInProgress, lastConnect, status, collected, starts, attempts,
          connectEvents, disconnectEvents, succeeded, spurious>>

TypeOK ==
    /\ connectionInProgress \in BOOLEAN
    /\ lastConnect \in BOOLEAN
    /\ status \in States
    /\ collected \in BOOLEAN
    /\ starts \in 0 .. MaxStarts
    /\ attempts \in 0 .. MaxStarts
    /\ connectEvents \in 0 .. MaxStarts
    /\ disconnectEvents \in 0 .. MaxStarts
    /\ succeeded \in BOOLEAN
    /\ spurious \in BOOLEAN

Init ==
    /\ connectionInProgress = FALSE
    /\ lastConnect = FALSE
    /\ status = "Other"
    /\ collected = FALSE
    /\ starts = 0
    /\ attempts = 0
    /\ connectEvents = 0
    /\ disconnectEvents = 0
    /\ succeeded = FALSE
    /\ spurious = FALSE

-----------------------------------------------------------------------------

\* sendConnectionEvent stamps lastConnectTimestampMs whatever the outcome.
SendConnectionEvent(outcome) ==
    /\ connectEvents' = connectEvents + 1
    /\ lastConnect' = TRUE
    /\ succeeded' = (succeeded \/ outcome = "success")

NoConnectionEvent == UNCHANGED <<connectEvents, lastConnect, succeeded>>

\* Mutant: lastConnectTimestampMs is not reset.
SendDisconnectWithoutReset ==
    /\ disconnectEvents' = disconnectEvents + 1
    /\ spurious' = (spurious \/ ~succeeded)
    /\ succeeded' = FALSE
    /\ UNCHANGED lastConnect

\* sendDisconnectEvent and the reset of lastConnectTimestampMs after it.
SendDisconnectEvent ==
    /\ disconnectEvents' = disconnectEvents + 1
    /\ lastConnect' = FALSE
    /\ spurious' = (spurious \/ ~succeeded)
    /\ succeeded' = FALSE

\* Mutant: the attempt in progress is replaced without an event.
StartSilently(trigger) ==
    /\ starts < MaxStarts
    /\ starts' = starts + 1
    /\ connectionInProgress' = TRUE
    /\ attempts' = attempts + 1
    /\ NoConnectionEvent
    /\ UNCHANGED <<status, collected, disconnectEvents, spurious>>

\* onConnectionStart: a fallback continues the attempt in progress; any other
\* trigger aborts it and starts a new one.
OnConnectionStart(trigger) ==
    /\ starts < MaxStarts
    /\ starts' = starts + 1
    /\ \/ /\ trigger # "Fallback" \/ ~connectionInProgress
          /\ IF connectionInProgress THEN SendConnectionEvent("aborted") ELSE NoConnectionEvent
          /\ connectionInProgress' = TRUE
          /\ attempts' = attempts + 1
       \/ /\ trigger = "Fallback" /\ connectionInProgress
          /\ NoConnectionEvent
          /\ UNCHANGED <<connectionInProgress, attempts>>
    /\ UNCHANGED <<status, collected, disconnectEvents, spurious>>

\* Mutant: the attempt stays in progress after its event.
FinishWithoutReset(outcome) ==
    /\ IF connectionInProgress THEN SendConnectionEvent(outcome) ELSE NoConnectionEvent
    /\ UNCHANGED connectionInProgress

\* onConnectingFinished
OnConnectingFinished(outcome) ==
    /\ IF connectionInProgress THEN SendConnectionEvent(outcome) ELSE NoConnectionEvent
    /\ connectionInProgress' = FALSE

\* onConnectionAbort
OnConnectionAbort(isFailure) ==
    /\ OnConnectingFinished(IF isFailure THEN "failure" ELSE "aborted")
    /\ UNCHANGED <<status, collected, starts, attempts, disconnectEvents, spurious>>

\* The collector of vpnStateMonitor.status.
CollectStatus ==
    /\ ~collected
    /\ collected' = TRUE
    /\ CASE status = "Connected"  -> OnConnectingFinished("success")
         [] status = "FinalError" -> OnConnectingFinished("failure")
         [] OTHER                 -> NoConnectionEvent /\ UNCHANGED connectionInProgress
    /\ UNCHANGED <<status, starts, attempts, disconnectEvents, spurious>>

\* onDisconnectionTrigger: either ends the attempt in progress or reports the end of a session.
OnDisconnectionTrigger(trigger) ==
    /\ \/ /\ connectionInProgress
          /\ trigger \notin {"NewConnection", "Fallback"}
          /\ OnConnectingFinished(IF trigger = "Error" THEN "failure" ELSE "aborted")
          /\ UNCHANGED <<disconnectEvents, spurious>>
       \/ /\ ~connectionInProgress \/ trigger \in {"NewConnection", "Fallback"}
          /\ lastConnect
          /\ SendDisconnectEvent
          /\ UNCHANGED <<connectionInProgress, connectEvents>>
    /\ UNCHANGED <<status, collected, starts, attempts>>

\* vpnStateMonitor.updateStatus: the StateFlow drops what the collector has not seen yet.
UpdateStatus(s) ==
    /\ s # status
    /\ status' = s
    /\ collected' = FALSE
    /\ UNCHANGED <<connectionInProgress, lastConnect, starts, attempts, connectEvents,
                   disconnectEvents, succeeded, spurious>>

Next ==
    \/ \E t \in ConnectTrigger : OnConnectionStart(t)
    \/ \E f \in BOOLEAN : OnConnectionAbort(f)
    \/ \E t \in DisconnectTrigger : OnDisconnectionTrigger(t)
    \/ \E s \in States : UpdateStatus(s)
    \/ CollectStatus

Spec == Init /\ [][Next]_vars

-----------------------------------------------------------------------------

\* Every attempt is reported exactly once: those that are over have one
\* vpn_connection event each, whatever aborted, replaced, continued or finished
\* them, and the one in progress has none.
OneEventPerAttempt ==
    attempts = connectEvents + (IF connectionInProgress THEN 1 ELSE 0)

\* A vpn_disconnection event consumes a vpn_connection event sent before it: two
\* disconnect triggers in a row (disconnectBlocking and then onVpnServiceDestroyed)
\* never report the end of one session twice.
DisconnectsArePaired ==
    disconnectEvents + (IF lastConnect THEN 1 ELSE 0) <= connectEvents

\* VpnConnectionTelemetry.kt:114: "Only log events when previously connected."
\* The code does not keep this (README, section 6).
DisconnectOnlyAfterConnect == ~spurious
=============================================================================
