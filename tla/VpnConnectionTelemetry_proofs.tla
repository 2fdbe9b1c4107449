-------------------- MODULE VpnConnectionTelemetry_proofs --------------------
(***************************************************************************)
(* Proofs that VpnConnectionTelemetry reports every attempt once and no    *)
(* session's end twice, for every number of starts.                        *)
(***************************************************************************)
EXTENDS VpnConnectionTelemetry, TLAPS

\* TypeOK in the parts that the provers deal with one at a time.
FlagsOK == /\ connectionInProgress \in BOOLEAN /\ lastConnect \in BOOLEAN /\ collected \in BOOLEAN
           /\ succeeded \in BOOLEAN /\ spurious \in BOOLEAN
CountsOK == /\ starts \in 0 .. MaxStarts /\ attempts \in 0 .. MaxStarts
            /\ connectEvents \in 0 .. MaxStarts /\ disconnectEvents \in 0 .. MaxStarts

\* What onConnectionStart, onConnectingFinished and onDisconnectionTrigger count.  The
\* bounds on the events follow from the bound on the starts only together with the two
\* counting invariants.
Counting ==
    /\ CountsOK
    /\ attempts <= starts
    /\ OneEventPerAttempt
    /\ DisconnectsArePaired

\* The inductive invariant.
IInv == FlagsOK /\ status \in States /\ Counting

\* It is stronger than the type invariant.
LEMMA IInvType == IInv => TypeOK
  BY DEF IInv, FlagsOK, CountsOK, Counting, TypeOK

\* The initial state has no attempt and no event.
LEMMA InitIInv == Init => IInv
<1> SUFFICES ASSUME Init PROVE IInv
  OBVIOUS
<1>1. FlagsOK
  BY DEF Init, FlagsOK
<1>2. status \in States
  BY DEF Init, States
<1>3. Counting
  BY MaxStartsAssumption DEF Init, Counting, CountsOK, OneEventPerAttempt, DisconnectsArePaired
<1> QED
  BY <1>1, <1>2, <1>3 DEF IInv

\* The flags and the status keep their types.
LEMMA NextFlags == IInv /\ [Next]_vars => FlagsOK' /\ (status \in States)'
<1> SUFFICES ASSUME IInv, [Next]_vars PROVE FlagsOK' /\ (status \in States)'
  OBVIOUS
<1> USE DEF IInv, FlagsOK, SendConnectionEvent, NoConnectionEvent, OnConnectingFinished
<1>1. ASSUME NEW t \in ConnectTrigger, OnConnectionStart(t) PROVE FlagsOK' /\ (status \in States)'
  BY <1>1 DEF OnConnectionStart
<1>2. ASSUME NEW f \in BOOLEAN, OnConnectionAbort(f) PROVE FlagsOK' /\ (status \in States)'
  BY <1>2 DEF OnConnectionAbort
<1>3. ASSUME NEW t \in DisconnectTrigger, OnDisconnectionTrigger(t)
      PROVE  FlagsOK' /\ (status \in States)'
  BY <1>3 DEF OnDisconnectionTrigger, SendDisconnectEvent
<1>4. ASSUME NEW s \in States, UpdateStatus(s) PROVE FlagsOK' /\ (status \in States)'
  BY <1>4 DEF UpdateStatus
<1>5. CASE CollectStatus
  BY <1>5 DEF CollectStatus
<1>6. CASE UNCHANGED vars
  BY <1>6 DEF vars
<1> QED
  BY <1>1, <1>2, <1>3, <1>4, <1>5, <1>6 DEF Next

\* Every call of the manager and every run of the collector preserves the counts.
LEMMA NextCounting == IInv /\ [Next]_vars => Counting'
<1> SUFFICES ASSUME IInv, [Next]_vars PROVE Counting'
  OBVIOUS
<1> USE MaxStartsAssumption
    DEF IInv, FlagsOK, Counting, CountsOK, OneEventPerAttempt, DisconnectsArePaired,
        SendConnectionEvent, NoConnectionEvent, OnConnectingFinished
<1>1. ASSUME NEW t \in ConnectTrigger, OnConnectionStart(t) PROVE Counting'
  <2>1. CASE connectionInProgress
    <3>1. CASE t = "Fallback"
      BY <1>1, <2>1, <3>1 DEF OnConnectionStart
    <3>2. CASE t # "Fallback"
      <4>1. /\ connectionInProgress' /\ lastConnect'
            /\ connectEvents' = connectEvents + 1 /\ attempts' = attempts + 1
            /\ starts' = starts + 1 /\ starts < MaxStarts /\ disconnectEvents' = disconnectEvents
        BY <1>1, <2>1, <3>2 DEF OnConnectionStart
      <4> QED
        BY <2>1, <4>1
    <3> QED
      BY <3>1, <3>2
  <2>2. CASE ~connectionInProgress
    BY <1>1, <2>2 DEF OnConnectionStart
  <2> QED
    BY <2>1, <2>2
<1>2. ASSUME NEW f \in BOOLEAN, OnConnectionAbort(f) PROVE Counting'
  BY <1>2 DEF OnConnectionAbort
<1>3. ASSUME NEW t \in DisconnectTrigger, OnDisconnectionTrigger(t) PROVE Counting'
  BY <1>3 DEF OnDisconnectionTrigger, SendDisconnectEvent
<1>4. ASSUME NEW s \in States, UpdateStatus(s) PROVE Counting'
  BY <1>4 DEF UpdateStatus
<1>5. CASE CollectStatus
  BY <1>5 DEF CollectStatus
<1>6. CASE UNCHANGED vars
  BY <1>6 DEF vars
<1> QED
  BY <1>1, <1>2, <1>3, <1>4, <1>5, <1>6 DEF Next

\* The inductive invariant holds in every state of the specification.
THEOREM Invariance == Spec => []IInv
<1>1. IInv /\ [Next]_vars => IInv'
  BY NextFlags, NextCounting DEF IInv
<1> QED
  BY InitIInv, <1>1, PTL DEF Spec

\* Type correctness: in particular, never more events than attempts were started.
THEOREM TypeCorrect == Spec => []TypeOK
  BY IInvType, Invariance, PTL

\* Every attempt that is over was reported exactly once (onConnectionStart,
\* onConnectingFinished, onDisconnectionTrigger).
THEOREM EventPerAttempt == Spec => []OneEventPerAttempt
<1>1. IInv => OneEventPerAttempt
  BY DEF IInv, Counting
<1> QED
  BY <1>1, Invariance, PTL

\* Two disconnect triggers never report the end of one session twice
\* (lastConnectTimestampMs is consumed).
THEOREM DisconnectsPaired == Spec => []DisconnectsArePaired
<1>1. IInv => DisconnectsArePaired
  BY DEF IInv, Counting
<1> QED
  BY <1>1, Invariance, PTL
=============================================================================
