-------------------------- MODULE GuestHole_proofs --------------------------
(***************************************************************************)
(* The guest hole has somebody who will close it, and nobody closes it     *)
(* under a call, for any calls, holders of locks and number of servers.    *)
(***************************************************************************)
EXTENDS GuestHole, TLAPS

\* The parts of TypeOK that closing and retrying concern.
ManagerTyped ==
    /\ status \in StatusRecord
    /\ request \in Owner /\ params \in Owner
    /\ backend \in {"none", "scanning", "active"}

\* What is published is typed.
LEMMA PublishTyped ==
    ASSUME ManagerTyped,
           NEW state \in {"Disabled", "Connecting", "Connected", "Error", "Disconnecting"},
           Publish(state)
    PROVE  status' \in StatusRecord /\ status'.owner = params /\ status'.state = state
  BY DEF ManagerTyped, StatusRecord, Publish

\* What a disconnection leaves is typed.
LEMMA DisconnectTyped ==
    ASSUME ManagerTyped, DisconnectSync
    PROVE  ManagerTyped'
<1>1. status' \in StatusRecord
  BY PublishTyped DEF DisconnectSync
<1> QED BY <1>1 DEF ManagerTyped, DisconnectSync, Owner

\* So is what CloseGuestHole leaves.
LEMMA ClosingTyped ==
    ASSUME ManagerTyped, NEW asked \in Owner, CloseGuestHole(asked)
    PROVE  ManagerTyped'
<1>1. CASE IsGuestHoleActive
  BY <1>1, DisconnectTyped DEF CloseGuestHole
<1>2. CASE ~IsGuestHoleActive
  BY <1>2 DEF ManagerTyped, CloseGuestHole
<1> QED BY <1>1, <1>2

\* A call that tries no servers is a call.
LEMMA CallAtTyped ==
    ASSUME NEW pc \in {"idle", "asking", "closing"}, NEW invokes \in BOOLEAN,
           NEW skipped \in BOOLEAN
    PROVE  CallAt(pc, invokes, skipped) \in CallRecord
  BY GuestHoleAssumption DEF CallAt, CallRecord

\* So does the finally block.
LEMMA FinallyTyped ==
    ASSUME TypeOK, NEW c \in Call, NEW asked \in Owner,
           NEW timeout \in BOOLEAN, NEW skipped \in BOOLEAN,
           Finally(c, asked, timeout, skipped)
    PROVE  /\ ManagerTyped'
           /\ locks' \subseteq Locker /\ waitingForUnblock' \in BOOLEAN
           /\ timeoutCloseJob' \in BOOLEAN
           /\ calls' \in [Call -> CallRecord]
<1> DEFINE kept == IF IsGuestHoleActive /\ IsConnected THEN locks ELSE {}
           pc   == IF kept = {} /\ IsGuestHoleActive /\ backend = "active"
                   THEN "closing" ELSE "idle"
<1>1. /\ waitingForUnblock' = FALSE /\ locks' = kept
      /\ calls' = [calls EXCEPT ![c] = CallAt(pc, FALSE, skipped)]
  BY DEF Finally
<1>2. CallAt(pc, FALSE, skipped) \in CallRecord
  BY CallAtTyped
<1> HIDE DEF pc
<1>3. calls' \in [Call -> CallRecord] /\ kept \subseteq Locker
  BY <1>1, <1>2 DEF TypeOK
<1>4. /\ timeoutCloseJob' \in BOOLEAN
      /\ CloseGuestHole(asked) \/ UNCHANGED manager
  BY DEF Finally, KeepOpen
<1>5. ManagerTyped
  BY DEF TypeOK, ManagerTyped
<1>6. ManagerTyped'
  BY <1>4, <1>5, ClosingTyped DEF manager, ManagerTyped
<1> QED BY <1>1, <1>3, <1>4, <1>6

\* A call that waits for its next server or for the delay.
LEMMA TryingTyped ==
    ASSUME calls \in [Call -> CallRecord], NEW c \in Call, NEW pc \in {"waiting", "delay"},
           NEW left \in 0..MaxServers, left > 0
    PROVE  [calls EXCEPT ![c].pc = pc, ![c].left = left - 1] \in [Call -> CallRecord]
<1>1. left - 1 \in 0..MaxServers - 1
  BY GuestHoleAssumption
<1>2. [calls EXCEPT ![c].pc = pc] \in [Call -> CallRecord]
  BY DEF CallRecord
<1>3. ASSUME NEW f \in [Call -> CallRecord], NEW n \in 0..MaxServers - 1
      PROVE  [f EXCEPT ![c].left = n] \in [Call -> CallRecord]
  BY <1>3 DEF CallRecord
<1> QED BY <1>1, <1>2, <1>3

\* So does the search for a server.
LEMMA TryServersTyped ==
    ASSUME TypeOK, NEW c \in Call, NEW left \in 0..MaxServers, NEW waiting \in BOOLEAN,
           NEW timeout \in BOOLEAN, TryServers(c, left, waiting, timeout)
    PROVE  /\ ManagerTyped'
           /\ locks' \subseteq Locker /\ waitingForUnblock' \in BOOLEAN
           /\ timeoutCloseJob' \in BOOLEAN
           /\ calls' \in [Call -> CallRecord]
<1>0. ManagerTyped
  BY DEF TypeOK, ManagerTyped
<1>1. CASE /\ left > 0 /\ IsConnected
           /\ calls' = [calls EXCEPT ![c].pc = "delay", ![c].left = left - 1]
           /\ waitingForUnblock' = waiting /\ timeoutCloseJob' = timeout
           /\ UNCHANGED <<manager, locks>>
  <2>1. calls' \in [Call -> CallRecord]
    BY <1>1, TryingTyped DEF TypeOK
  <2> QED BY <1>0, <1>1, <2>1 DEF TypeOK, ManagerTyped, manager
<1>2. CASE /\ left > 0 /\ status.state \notin {"Connected", "Error"}
           /\ ConnectWithPermission("guest")
           /\ calls' = [calls EXCEPT ![c].pc = "waiting", ![c].left = left - 1]
           /\ waitingForUnblock' = waiting /\ timeoutCloseJob' = timeout
           /\ UNCHANGED locks
  <2>1. calls' \in [Call -> CallRecord]
    BY <1>2, TryingTyped DEF TypeOK
  <2> QED BY <1>0, <1>2, <2>1 DEF TypeOK, ManagerTyped, ConnectWithPermission, Owner
<1>3. CASE Finally(c, "guest", timeout, TRUE) \/ Finally(c, request, timeout, FALSE)
  BY <1>0, <1>3, FinallyTyped DEF ManagerTyped, Owner
<1> QED BY <1>1, <1>2, <1>3 DEF TryServers

\* Steps of a call keep the types.
LEMMA CallTyped ==
    ASSUME TypeOK, NEW c \in Call,
           \/ \E invokes \in BOOLEAN : Unblock(c, invokes)
           \/ NoActivity(c) \/ PermissionDenied(c)
           \/ CallStep(c) \/ AttemptTimeout(c) \/ CancelCall(c)
    PROVE  TypeOK'
<1>0. ManagerTyped /\ Idle \in CallRecord /\ calls \in [Call -> CallRecord]
  BY CallAtTyped DEF TypeOK, ManagerTyped, Idle
<1>1. ASSUME NEW invokes \in BOOLEAN, Unblock(c, invokes) PROVE TypeOK'
  <2>1. CallAt("asking", invokes, FALSE) \in CallRecord
    BY CallAtTyped
  <2>2. calls' \in [Call -> CallRecord]
    BY <1>1, <2>1 DEF Unblock, TypeOK
  <2> QED BY <1>1, <2>2 DEF Unblock, TypeOK, manager
<1>2. ASSUME NoActivity(c) \/ PermissionDenied(c) PROVE TypeOK'
  <2>1. calls' \in [Call -> CallRecord]
    BY <1>0, <1>2 DEF NoActivity, PermissionDenied, TypeOK
  <2> QED BY <1>2, <2>1 DEF NoActivity, PermissionDenied, TypeOK, manager, hole
<1>3. ASSUME PermissionGranted(c) PROVE TypeOK'
  <2>1. MaxServers \in 0..MaxServers /\ calls[c].invokes \in BOOLEAN
    BY <1>0, GuestHoleAssumption DEF CallRecord
  <2> QED BY <1>3, <2>1, TryServersTyped DEF PermissionGranted, TypeOK, ManagerTyped
<1>4. ASSUME ServerConnected(c) \/ Closed(c) PROVE TypeOK'
  <2>1. calls' \in [Call -> CallRecord]
    BY <1>0, <1>4 DEF ServerConnected, Closed, CallRecord
  <2> QED BY <1>4, <2>1 DEF ServerConnected, Closed, TypeOK, manager, hole
<1>5. ASSUME ServerFailed(c) PROVE TypeOK'
  <2>1. calls[c].left \in 0..MaxServers
    BY <1>0, GuestHoleAssumption DEF CallRecord
  <2> QED BY <1>5, <2>1, TryServersTyped DEF ServerFailed, TypeOK, ManagerTyped
<1>6. ASSUME Finally(c, request, timeoutCloseJob, FALSE), UNCHANGED <<leaving, job, lockers>>,
             disturbed' \subseteq {"outside", "overlap"}
      PROVE  TypeOK'
  BY <1>6, FinallyTyped DEF TypeOK, ManagerTyped
<1>7. ASSUME Invoke(c) PROVE TypeOK'
  <2>1. CASE calls[c].invokes
    <3>1. calls' \in [Call -> CallRecord]
      BY <1>0, <1>7, <2>1 DEF Invoke, CallRecord
    <3> QED BY <1>7, <2>1, <3>1 DEF Invoke, TypeOK, manager
  <2>2. CASE ~calls[c].invokes
    BY <1>6, <1>7, <2>2 DEF Invoke, TypeOK
  <2> QED BY <2>1, <2>2
<1>8. ASSUME CallReturns(c) \/ AttemptTimeout(c) \/ CancelCall(c) PROVE TypeOK'
  BY <1>6, <1>8 DEF CallReturns, AttemptTimeout, CancelCall, TypeOK
<1> QED BY <1>1, <1>2, <1>3, <1>4, <1>5, <1>7, <1>8 DEF CallStep

\* Locks, the timeout, the manager and the user keep the types.
LEMMA OthersTyped ==
    ASSUME TypeOK,
           \/ \E l \in Locker : AcquireNeedGuestHole(l) \/ ReleaseNeedGuestHole(l)
           \/ TimeoutClose \/ ConnectJob \/ Prepared \/ Established \/ Failed
           \/ UserConnect \/ UserDisconnect \/ Disconnected \/ UserLeft
    PROVE  TypeOK'
<1>0. ManagerTyped /\ Idle \in CallRecord
  BY CallAtTyped DEF TypeOK, ManagerTyped, Idle
<1>1. ASSUME NEW l \in Locker, AcquireNeedGuestHole(l) PROVE TypeOK'
  BY <1>1 DEF AcquireNeedGuestHole, TypeOK, manager
<1>2. ASSUME NEW l \in Locker, ReleaseNeedGuestHole(l) PROVE TypeOK'
  <2>1. ManagerTyped'
    BY <1>0, <1>2, ClosingTyped DEF ReleaseNeedGuestHole, ManagerTyped, manager
  <2>2. /\ locks' \subseteq Locker /\ lockers' \in [Locker -> {"out", "in"}]
        /\ UNCHANGED <<leaving, waitingForUnblock, job, timeoutCloseJob, calls, disturbed>>
    BY <1>2 DEF ReleaseNeedGuestHole, TypeOK
  <2> QED BY <2>1, <2>2 DEF TypeOK, ManagerTyped
<1>3. ASSUME TimeoutClose PROVE TypeOK'
  BY <1>0, <1>3, ClosingTyped DEF TimeoutClose, TypeOK, ManagerTyped
<1>4. ASSUME GuestConnecting \/ NotConnecting \/ Prepared PROVE TypeOK'
  <2>1. [owner |-> "guest", state |-> "Connecting"] \in StatusRecord
    BY DEF StatusRecord, Owner
  <2> QED BY <1>4, <2>1 DEF GuestConnecting, NotConnecting, Prepared, TypeOK, hole, Owner
<1>5. ASSUME Established \/ Failed PROVE TypeOK'
  <2>1. status' \in StatusRecord
    BY <1>0, <1>5, PublishTyped DEF Established, Failed
  <2> QED BY <1>5, <2>1 DEF Established, Failed, TypeOK, hole
<1>6. ASSUME UserConnect PROVE TypeOK'
  BY <1>6 DEF UserConnect, ConnectWithPermission, TypeOK, hole, Owner
<1>7. ASSUME UserConnecting PROVE TypeOK'
  <2>1. calls' \in [Call -> CallRecord]
    BY <1>0, <1>7 DEF UserConnecting, TypeOK
  <2>2. locks' \subseteq Locker /\ waitingForUnblock' \in BOOLEAN
    BY <1>7 DEF UserConnecting, TypeOK
  <2> QED BY <1>7, <2>1, <2>2 DEF UserConnecting, TypeOK, StatusRecord, Owner
<1>8. ASSUME UserDisconnect PROVE TypeOK'
  BY <1>0, <1>8, DisconnectTyped DEF UserDisconnect, TypeOK, ManagerTyped, hole
<1>9. ASSUME Disconnected PROVE TypeOK'
  <2>1. status' \in StatusRecord
    BY <1>0, <1>9, PublishTyped DEF Disconnected
  <2> QED BY <1>9, <2>1 DEF Disconnected, TypeOK, hole, Owner
<1>10. ASSUME UserLeft PROVE TypeOK'
  <2>1. CASE \E c \in Call : Finally(c, request, timeoutCloseJob, FALSE)
    BY <1>10, <2>1, FinallyTyped DEF UserLeft, TypeOK, ManagerTyped
  <2>2. CASE /\ calls' = [c \in Call |-> IF Cancelled(c) THEN Idle ELSE calls[c]]
             /\ UNCHANGED <<manager, locks, waitingForUnblock, timeoutCloseJob>>
    <3>1. calls' \in [Call -> CallRecord]
      BY <1>0, <2>2 DEF TypeOK
    <3> QED BY <1>10, <2>2, <3>1 DEF UserLeft, TypeOK, manager
  <2> QED BY <1>10, <2>1, <2>2 DEF UserLeft
<1> QED BY <1>1, <1>2, <1>3, <1>4, <1>5, <1>6, <1>7, <1>8, <1>9, <1>10 DEF ConnectJob

\* The guest hole starts typed.
LEMMA InitTyped == Init => TypeOK
<1>1. Idle \in CallRecord
  BY CallAtTyped DEF Idle
<1>2. status = [owner |-> "none", state |-> "Disabled"] => status \in StatusRecord
  BY DEF StatusRecord, Owner
<1> QED BY <1>1, <1>2 DEF Init, TypeOK, Owner

\* Type correctness of the guest hole: a call never has more servers left than the
\* list holds after the one it has asked for.
THEOREM GuestHoleTypeCorrect == Safety => []TypeOK
<1>1. Init => TypeOK
  BY InitTyped
<1>2. TypeOK /\ [Next]_vars => TypeOK'
  <2> SUFFICES ASSUME TypeOK, [Next]_vars PROVE TypeOK'
    OBVIOUS
  <2>1. CASE Next
    BY <2>1, CallTyped, OthersTyped DEF Next
  <2>2. CASE UNCHANGED vars
    BY <2>2 DEF vars, manager, hole, TypeOK
  <2> QED BY <2>1, <2>2
<1> QED BY <1>1, <1>2, PTL DEF Safety

-----------------------------------------------------------------------------
\* The status that is shown and what the manager has: parameters exist as long as
\* it is not Disabled, and then the status names their owner.
Consistent ==
    /\ status.state = "Disabled" => params = "none" /\ backend = "none"
    /\ status.state # "Disabled" => params = status.owner /\ params # "none"
    /\ status.state \in {"Connected", "Disconnecting"} => backend = "active"
    /\ backend = "scanning" => status.state = "Connecting"

\* A disconnection keeps them consistent.
LEMMA DisconnectConsistent ==
    ASSUME TypeOK, Consistent, DisconnectSync
    PROVE  Consistent'
<1>1. ManagerTyped
  BY DEF TypeOK, ManagerTyped
<1>2. CASE backend = "active"
  <2>1. status'.owner = params /\ status'.state = "Disconnecting" /\ UNCHANGED <<params, backend>>
    BY <1>1, <1>2, PublishTyped DEF DisconnectSync
  <2> QED BY <1>2, <2>1 DEF Consistent
<1>3. CASE backend # "active"
  <2>1. status'.state = "Disabled" /\ params' = "none" /\ backend' = "none"
    BY <1>1, <1>3, PublishTyped DEF DisconnectSync
  <2> QED BY <2>1 DEF Consistent
<1> QED BY <1>2, <1>3

\* So does closing the guest hole.
LEMMA ClosingConsistent ==
    ASSUME TypeOK, Consistent, NEW asked, CloseGuestHole(asked)
    PROVE  Consistent'
  BY DisconnectConsistent DEF CloseGuestHole, Consistent

\* So does the finally block.
LEMMA FinallyConsistent ==
    ASSUME TypeOK, Consistent, NEW c \in Call, NEW asked, NEW timeout, NEW skipped,
           Finally(c, asked, timeout, skipped)
    PROVE  Consistent'
<1>1. CloseGuestHole(asked) \/ UNCHANGED manager
  BY DEF Finally, KeepOpen
<1> QED BY <1>1, ClosingConsistent DEF Consistent, manager

\* Asking for a connection does not disturb a status without a scan.
LEMMA TryServersConsistent ==
    ASSUME TypeOK, Consistent, NEW c \in Call, NEW left, NEW waiting, NEW timeout,
           TryServers(c, left, waiting, timeout)
    PROVE  Consistent'
<1>1. CASE UNCHANGED manager
  BY <1>1 DEF Consistent, manager
<1>2. CASE ConnectWithPermission("guest")
  BY <1>2 DEF Consistent, ConnectWithPermission
<1> QED BY <1>1, <1>2, FinallyConsistent DEF TryServers

\* Every step keeps the manager consistent.
LEMMA StepConsistent ==
    ASSUME TypeOK, Consistent, Next
    PROVE  Consistent'
<1>0. ManagerTyped
  BY DEF TypeOK, ManagerTyped
<1>1. ASSUME UNCHANGED manager PROVE Consistent'
  BY <1>1 DEF Consistent, manager
<1>2. ASSUME NEW c \in Call,
             \/ \E invokes \in BOOLEAN : Unblock(c, invokes)
             \/ NoActivity(c) \/ PermissionDenied(c)
             \/ CallStep(c) \/ AttemptTimeout(c) \/ CancelCall(c)
      PROVE  Consistent'
  BY <1>1, <1>2, TryServersConsistent, FinallyConsistent
     DEF CallStep, Unblock, NoActivity, PermissionDenied, PermissionGranted, ServerConnected,
         ServerFailed, Invoke, CallReturns, Closed, AttemptTimeout, CancelCall
<1>3. ASSUME NEW l \in Locker, AcquireNeedGuestHole(l) \/ ReleaseNeedGuestHole(l)
      PROVE  Consistent'
  BY <1>1, <1>3, ClosingConsistent DEF AcquireNeedGuestHole, ReleaseNeedGuestHole
<1>4. ASSUME TimeoutClose PROVE Consistent'
  BY <1>4, ClosingConsistent DEF TimeoutClose
<1>5. ASSUME GuestConnecting \/ UserConnecting \/ NotConnecting \/ Prepared PROVE Consistent'
  BY <1>5 DEF GuestConnecting, UserConnecting, NotConnecting, Prepared, Consistent
<1>6. ASSUME Established \/ Failed PROVE Consistent'
  <2>1. status'.owner = params /\ status'.state \in {"Connected", "Error"}
    BY <1>0, <1>6, PublishTyped DEF Established, Failed
  <2>2. CASE Established
    <3>1. status'.state = "Connected"
      BY <1>0, <2>2, PublishTyped DEF Established
    <3> QED BY <2>1, <2>2, <3>1 DEF Established, Consistent
  <2>3. CASE Failed
    <3>1. status'.state = "Error"
      BY <1>0, <2>3, PublishTyped DEF Failed
    <3> QED BY <2>1, <2>3, <3>1 DEF Failed, Consistent
  <2> QED BY <1>6, <2>2, <2>3
<1>7. ASSUME UserConnect PROVE Consistent'
  BY <1>7 DEF UserConnect, ConnectWithPermission, Consistent
<1>8. ASSUME UserDisconnect PROVE Consistent'
  BY <1>8, DisconnectConsistent DEF UserDisconnect
<1>9. ASSUME Disconnected PROVE Consistent'
  <2>1. status'.state = "Disabled"
    BY <1>0, <1>9, PublishTyped DEF Disconnected
  <2> QED BY <1>9, <2>1 DEF Disconnected, Consistent
<1>10. ASSUME UserLeft PROVE Consistent'
  BY <1>1, <1>10, FinallyConsistent DEF UserLeft
<1> QED BY <1>2, <1>3, <1>4, <1>5, <1>6, <1>7, <1>8, <1>9, <1>10 DEF Next, ConnectJob

\* The status is consistent with what the manager has.
LEMMA StatusConsistent == Safety => []Consistent
<1>1. Init => Consistent
  BY DEF Init, Consistent
<1>2. TypeOK /\ Consistent /\ [Next]_vars => Consistent'
  BY StepConsistent DEF vars, manager, Consistent
<1> QED BY <1>1, <1>2, GuestHoleTypeCorrect, PTL DEF Safety

-----------------------------------------------------------------------------
\* Undisturbed, nothing in the manager is the user's.
OnlyGuest ==
    "outside" \notin disturbed =>
        status.owner # "user" /\ request # "user" /\ params # "user" /\ leaving = "no"

\* Undisturbed, somebody waits for the connection that was asked for, unless an
\* earlier one is there already.
RequestAwaited ==
    "outside" \notin disturbed /\ request = "guest" /\ status.state # "Connected"
        => \E c \in Call : calls[c].pc = "waiting"

CloserInv == TypeOK /\ Consistent /\ OnlyGuest /\ RequestAwaited /\ HoleHasCloser

\* Calls that do not overlap: one at most is not idle.
Alone ==
    "overlap" \notin disturbed =>
        \A c, d \in Call : c # d /\ calls[c].pc # "idle" => calls[d].pc = "idle"

\* While a call is being unblocked no timeout of an earlier guest hole is left,
\* and a lock that is released finds waitingForUnblock.
Protected ==
    "overlap" \notin disturbed =>
        \A c \in Call : Unblocking(c) =>
            ~timeoutCloseJob /\ (calls[c].invokes => waitingForUnblock)

\* Only a call that is to be made again is made.
InvokesItsCall == \A c \in Call : calls[c].pc = "call" => calls[c].invokes

CallInv == TypeOK /\ Alone /\ Protected /\ InvokesItsCall

-----------------------------------------------------------------------------
\* A disconnection forgets what was asked for and leaves nothing open.
LEMMA Disconnecting ==
    ASSUME TypeOK, DisconnectSync
    PROVE  /\ status'.owner = params /\ status'.state \in {"Disconnecting", "Disabled"}
           /\ request' = "none" /\ params' \in {params, "none"} /\ backend' # "scanning"
<1>1. ManagerTyped
  BY DEF TypeOK, ManagerTyped
<1>2. CASE backend = "active"
  BY <1>1, <1>2, PublishTyped DEF DisconnectSync
<1>3. CASE backend # "active"
  BY <1>1, <1>3, PublishTyped DEF DisconnectSync
<1> QED BY <1>2, <1>3

\* So does closeGuestHole, if the guest hole is active.
LEMMA Closing ==
    ASSUME TypeOK, NEW asked, CloseGuestHole(asked)
    PROVE  /\ IsGuestHoleActive =>
                /\ status'.owner = params /\ status'.state \in {"Disconnecting", "Disabled"}
                /\ request' = "none" /\ params' \in {params, "none"} /\ backend' # "scanning"
           /\ ~IsGuestHoleActive => request' = asked /\ UNCHANGED <<status, params, backend>>
  BY Disconnecting DEF CloseGuestHole

\* The finally block ends its own call only, and closes the guest hole or leaves
\* it to the timeout.
LEMMA FinallyLeaves ==
    ASSUME TypeOK, NEW c \in Call, NEW asked, NEW timeout, NEW skipped,
           Finally(c, asked, timeout, skipped)
    PROVE  /\ \A d \in Call \ {c} : calls'[d] = calls[d]
           /\ calls'[c].pc \in {"idle", "closing"}
           /\ \/ IsGuestHoleActive /\ IsConnected /\ timeoutCloseJob' /\ UNCHANGED manager
              \/ CloseGuestHole(asked)
<1>1. PICK pc \in {"idle", "closing"} :
        \E k : calls' = [calls EXCEPT ![c] = CallAt(pc, FALSE, k)]
  BY DEF Finally
<1>2. \A k : CallAt(pc, FALSE, k).pc = pc
  BY DEF CallAt
<1>3. /\ \A d \in Call \ {c} : calls'[d] = calls[d]
      /\ calls'[c].pc = pc
  BY <1>1, <1>2 DEF TypeOK
<1>4. \/ IsGuestHoleActive /\ IsConnected /\ timeoutCloseJob' /\ UNCHANGED manager
      \/ CloseGuestHole(asked)
  BY DEF Finally, KeepOpen
<1> QED BY <1>3, <1>4

\* After a user action or a cancelled caller nothing is promised.
LEMMA Disturbed ==
    ASSUME TypeOK', Consistent', "outside" \in disturbed'
    PROVE  CloserInv'
  BY DEF CloserInv, OnlyGuest, RequestAwaited, HoleHasCloser

\* The finally block keeps the invariant, unless its call is the one that waits
\* for the connection that was asked for.
LEMMA FinallyCloser ==
    ASSUME CloserInv, TypeOK', Consistent', UNCHANGED <<disturbed, leaving>>,
           NEW c \in Call, NEW asked, NEW timeout, NEW skipped, Finally(c, asked, timeout, skipped),
           asked = request \/ status.state = "Error",
           request # "guest" \/ calls[c].pc # "waiting"
    PROVE  CloserInv'
<1>1. CASE "outside" \in disturbed
  BY <1>1, Disturbed
<1>2. CASE "outside" \notin disturbed
  <2>1. TypeOK /\ Consistent /\ OnlyGuest /\ RequestAwaited /\ HoleHasCloser
    BY DEF CloserInv
  <2>2. /\ \A d \in Call \ {c} : calls'[d] = calls[d]
        /\ \/ IsGuestHoleActive /\ IsConnected /\ timeoutCloseJob' /\ UNCHANGED manager
           \/ CloseGuestHole(asked)
    BY <2>1, FinallyLeaves
  <2>3. CASE IsGuestHoleActive /\ IsConnected /\ timeoutCloseJob' /\ UNCHANGED manager
    BY <2>1, <2>3 DEF CloserInv, OnlyGuest, RequestAwaited, HoleHasCloser, manager, IsConnected
  <2>4. CASE CloseGuestHole(asked) /\ IsGuestHoleActive
    <3>1. /\ status'.owner = params /\ status'.state \in {"Disconnecting", "Disabled"}
          /\ request' = "none" /\ params' \in {params, "none"} /\ backend' # "scanning"
      BY <2>1, <2>4, Closing
    <3> QED BY <1>2, <2>1, <3>1 DEF CloserInv, OnlyGuest, RequestAwaited, HoleHasCloser, HoleOpen
  <2>5. CASE CloseGuestHole(asked) /\ ~IsGuestHoleActive
    <3>1. status.owner = "none" /\ status.state = "Disabled" /\ backend = "none"
      BY <1>2, <2>1, <2>5 DEF OnlyGuest, Consistent, TypeOK, StatusRecord, IsGuestHoleActive, Owner
    <3>2. request' = request /\ UNCHANGED <<status, params, backend>>
      BY <2>1, <2>5, <3>1, Closing
    <3>3. request = "guest" => \E d \in Call \ {c} : calls'[d].pc = "waiting"
      BY <1>2, <2>1, <2>2, <3>1 DEF RequestAwaited
    <3> QED BY <1>2, <2>1, <3>1, <3>2, <3>3
            DEF CloserInv, OnlyGuest, RequestAwaited, HoleHasCloser, HoleOpen, Unblocking
  <2> QED BY <2>2, <2>3, <2>4, <2>5
<1> QED BY <1>1, <1>2

\* A call that goes on with its next server is there to close the guest hole.
LEMMA Trying ==
    ASSUME TypeOK, NEW c \in Call, NEW pc \in {"waiting", "delay"}, NEW left,
           calls' = [calls EXCEPT ![c].pc = pc, ![c].left = left]
    PROVE  /\ \A d \in Call \ {c} : calls'[d] = calls[d]
           /\ calls'[c].pc = pc /\ calls'[c].invokes = calls[c].invokes
  BY DEF TypeOK, CallRecord

\* Trying the next server keeps the invariant.
LEMMA TryServersCloser ==
    ASSUME CloserInv, TypeOK', Consistent', UNCHANGED <<disturbed, leaving>>,
           NEW c \in Call, NEW left, NEW waiting, NEW timeout, TryServers(c, left, waiting, timeout),
           request # "guest" \/ calls[c].pc # "waiting"
    PROVE  CloserInv'
<1>0. TypeOK /\ OnlyGuest /\ RequestAwaited
  BY DEF CloserInv
<1>1. CASE /\ IsConnected
           /\ calls' = [calls EXCEPT ![c].pc = "delay", ![c].left = left - 1]
           /\ UNCHANGED manager
  <2>1. calls'[c].pc = "delay"
    BY <1>0, <1>1, Trying
  <2> QED BY <1>0, <1>1, <2>1
          DEF CloserInv, OnlyGuest, RequestAwaited, HoleHasCloser, IsConnected, Unblocking, manager
<1>2. CASE /\ ConnectWithPermission("guest")
           /\ calls' = [calls EXCEPT ![c].pc = "waiting", ![c].left = left - 1]
  <2>1. calls'[c].pc = "waiting"
    BY <1>0, <1>2, Trying
  <2> QED BY <1>0, <1>2, <2>1 DEF CloserInv, OnlyGuest, RequestAwaited, HoleHasCloser, Unblocking,
                                  ConnectWithPermission
<1>3. CASE status.state = "Error" /\ Finally(c, "guest", timeout, TRUE)
  BY <1>3, FinallyCloser
<1>4. CASE Finally(c, request, timeout, FALSE)
  BY <1>4, FinallyCloser
<1> QED BY <1>1, <1>2, <1>3, <1>4 DEF TryServers

\* Steps of a call keep the invariant.
LEMMA CallCloser ==
    ASSUME CloserInv, TypeOK', Consistent', NEW c \in Call,
           \/ \E invokes \in BOOLEAN : Unblock(c, invokes)
           \/ NoActivity(c) \/ PermissionDenied(c)
           \/ CallStep(c) \/ AttemptTimeout(c) \/ CancelCall(c)
    PROVE  CloserInv'
<1>0. TypeOK /\ OnlyGuest /\ RequestAwaited /\ HoleHasCloser
  BY DEF CloserInv
<1>1. ASSUME UNCHANGED <<manager, leaving, timeoutCloseJob>>,
             "outside" \in disturbed => "outside" \in disturbed',
             \A d \in Call : calls[d].pc = "waiting" => calls'[d].pc = "waiting" \/ IsConnected,
             \A d \in Call : Unblocking(d) => calls'[d].pc \in {"waiting", "delay", "call"}
      PROVE  CloserInv'
  BY <1>0, <1>1 DEF CloserInv, OnlyGuest, RequestAwaited, HoleHasCloser, HoleOpen,
     IsGuestHoleActive, IsConnected, Unblocking, manager
<1>2. ASSUME NEW invokes \in BOOLEAN, Unblock(c, invokes) PROVE CloserInv'
  <2>1. \A d \in Call \ {c} : calls'[d] = calls[d]
    BY <1>0, <1>2 DEF Unblock, TypeOK
  <2> QED BY <1>1, <1>2, <2>1 DEF Unblock, Unblocking
<1>3. ASSUME NoActivity(c) \/ PermissionDenied(c) PROVE CloserInv'
  <2>1. \A d \in Call \ {c} : calls'[d] = calls[d]
    BY <1>0, <1>3 DEF NoActivity, PermissionDenied, TypeOK
  <2> QED BY <1>1, <1>3, <2>1 DEF NoActivity, PermissionDenied, Unblocking, hole
<1>4. ASSUME PermissionGranted(c) PROVE CloserInv'
  BY <1>4, TryServersCloser DEF PermissionGranted
<1>5. ASSUME ServerConnected(c) PROVE CloserInv'
  <2>1. \A d \in Call : d # c => calls'[d] = calls[d]
    BY <1>0, <1>5 DEF ServerConnected, TypeOK
  <2>2. calls'[c].pc = "delay"
    BY <1>0, <1>5 DEF ServerConnected, TypeOK, CallRecord
  <2> QED BY <1>1, <1>5, <2>1, <2>2 DEF ServerConnected, Unblocking, hole
<1>6. ASSUME ServerFailed(c) PROVE CloserInv'
  BY <1>6, TryServersCloser DEF ServerFailed
<1>7. ASSUME Invoke(c) PROVE CloserInv'
  <2>1. CASE calls[c].invokes
    <3>1. \A d \in Call : d # c => calls'[d] = calls[d]
      BY <1>0, <1>7, <2>1 DEF Invoke, TypeOK
    <3>2. calls'[c].pc = "call"
      <4>1. calls \in [Call -> CallRecord]
        BY <1>0 DEF TypeOK
      <4> QED BY <1>7, <2>1, <4>1 DEF Invoke, CallRecord
    <3> QED BY <1>1, <1>7, <2>1, <3>1, <3>2 DEF Invoke, Unblocking
  <2>2. CASE ~calls[c].invokes
    BY <1>7, <2>2, FinallyCloser DEF Invoke
  <2> QED BY <2>1, <2>2
<1>8. ASSUME CallReturns(c) \/ AttemptTimeout(c) PROVE CloserInv'
  BY <1>8, FinallyCloser DEF CallReturns, AttemptTimeout
<1>9. ASSUME CancelCall(c) PROVE CloserInv'
  BY <1>9, Disturbed DEF CancelCall
<1>10. ASSUME Closed(c) PROVE CloserInv'
  <2>1. \A d \in Call : d # c => calls'[d] = calls[d]
    BY <1>0, <1>10 DEF Closed, TypeOK
  <2> QED BY <1>1, <1>10, <2>1 DEF Closed, Unblocking, hole
<1> QED BY <1>2, <1>3, <1>4, <1>5, <1>6, <1>7, <1>8, <1>9, <1>10 DEF CallStep

\* Locks, the timeout, the manager and the user keep the invariant.
LEMMA OthersCloser ==
    ASSUME CloserInv, TypeOK', Consistent',
           \/ \E l \in Locker : AcquireNeedGuestHole(l) \/ ReleaseNeedGuestHole(l)
           \/ TimeoutClose \/ ConnectJob \/ Prepared \/ Established \/ Failed
           \/ UserConnect \/ UserDisconnect \/ Disconnected \/ UserLeft
    PROVE  CloserInv'
<1>0. TypeOK /\ Consistent /\ OnlyGuest /\ RequestAwaited /\ HoleHasCloser /\ ManagerTyped
  BY DEF CloserInv, TypeOK, ManagerTyped
<1> USE DEF CloserInv, OnlyGuest, RequestAwaited, HoleHasCloser, HoleOpen, IsGuestHoleActive,
            Unblocking
<1>1. ASSUME NEW l \in Locker, AcquireNeedGuestHole(l) PROVE CloserInv'
  BY <1>0, <1>1 DEF AcquireNeedGuestHole, manager
<1>2. ASSUME CloseGuestHole(request), UNCHANGED <<leaving, calls, disturbed>> PROVE CloserInv'
  <2>1. CASE "outside" \in disturbed
    BY <1>2, <2>1, Disturbed
  <2>2. CASE "outside" \notin disturbed /\ IsGuestHoleActive
    <3>1. /\ status'.owner = params /\ status'.state \in {"Disconnecting", "Disabled"}
          /\ request' = "none" /\ params' \in {params, "none"} /\ backend' # "scanning"
      BY <1>0, <1>2, <2>2, Closing
    <3> QED BY <1>0, <1>2, <2>2, <3>1
  <2>3. CASE "outside" \notin disturbed /\ ~IsGuestHoleActive
    <3>1. status.owner = "none" /\ status.state = "Disabled" /\ backend = "none"
      BY <1>0, <2>3 DEF TypeOK, StatusRecord, Owner, Consistent
    <3>2. request' = request /\ UNCHANGED <<status, params, backend>>
      BY <1>0, <1>2, <2>3, Closing
    <3> QED BY <1>0, <1>2, <2>3, <3>1, <3>2
  <2> QED BY <2>1, <2>2, <2>3
<1>3. ASSUME NEW l \in Locker, ReleaseNeedGuestHole(l) PROVE CloserInv'
  <2>1. CASE CloseGuestHole(request)
    BY <1>2, <1>3, <2>1 DEF ReleaseNeedGuestHole
  <2>2. CASE UNCHANGED manager
    BY <1>0, <1>3, <2>2 DEF ReleaseNeedGuestHole, manager
  <2> QED BY <1>3, <2>1, <2>2 DEF ReleaseNeedGuestHole
<1>4. ASSUME TimeoutClose PROVE CloserInv'
  BY <1>2, <1>4 DEF TimeoutClose
<1>5. ASSUME GuestConnecting \/ NotConnecting \/ Prepared PROVE CloserInv'
  BY <1>0, <1>5 DEF GuestConnecting, NotConnecting, Prepared, hole
<1>6. ASSUME Established \/ Failed PROVE CloserInv'
  <2>1. status'.owner = params /\ status'.state \in {"Connected", "Error"}
    BY <1>0, <1>6, PublishTyped DEF Established, Failed
  <2>2. params = status.owner /\ status.state = "Connecting"
    BY <1>0, <1>6 DEF Established, Failed, Consistent
  <2>3. /\ UNCHANGED <<request, params, leaving, timeoutCloseJob, calls, disturbed>>
        /\ backend' = "scanning" => backend = "scanning"
    BY <1>6 DEF Established, Failed, hole
  <2> QED BY <1>0, <2>1, <2>2, <2>3
<1>7. ASSUME UserConnect \/ UserDisconnect PROVE CloserInv'
  BY <1>7, Disturbed DEF UserConnect, UserDisconnect
<1>8. ASSUME UserConnecting PROVE CloserInv'
  BY <1>0, <1>8, Disturbed DEF UserConnecting
<1>9. ASSUME Disconnected PROVE CloserInv'
  <2>1. CASE "outside" \in disturbed
    BY <1>9, <2>1, Disturbed DEF Disconnected
  <2>2. CASE "outside" \notin disturbed
    <3>1. status'.owner = params /\ status'.state = "Disabled"
      BY <1>0, <1>9, PublishTyped DEF Disconnected
    <3> QED BY <1>0, <1>9, <2>2, <3>1 DEF Disconnected, hole
  <2> QED BY <2>1, <2>2
<1>10. ASSUME UserLeft PROVE CloserInv'
  BY <1>0, <1>10, Disturbed DEF UserLeft
<1> QED BY <1>1, <1>3, <1>4, <1>5, <1>6, <1>7, <1>8, <1>9, <1>10 DEF ConnectJob

\* A guest hole that is or is about to be open has a call or the timeout to close
\* it, as long as no user acts and no caller is cancelled.
THEOREM GuestHoleHasCloser == Safety => []HoleHasCloser
<1>1. Init => CloserInv
  <2> SUFFICES ASSUME Init PROVE CloserInv
    OBVIOUS
  <2>1. TypeOK
    BY InitTyped
  <2> QED BY <2>1 DEF Init, CloserInv, Consistent, OnlyGuest, RequestAwaited, HoleHasCloser,
                      HoleOpen, IsGuestHoleActive
<1>2. CloserInv /\ TypeOK' /\ Consistent' /\ [Next]_vars => CloserInv'
  <2> SUFFICES ASSUME CloserInv, TypeOK', Consistent', [Next]_vars PROVE CloserInv'
    OBVIOUS
  <2>1. CASE Next
    BY <2>1, CallCloser, OthersCloser DEF Next
  <2>2. CASE UNCHANGED vars
    BY <2>2 DEF vars, manager, hole, CloserInv, OnlyGuest, RequestAwaited, HoleHasCloser,
       HoleOpen, IsGuestHoleActive, Unblocking
  <2> QED BY <2>1, <2>2
<1>3. CloserInv => HoleHasCloser
  BY DEF CloserInv
<1> QED BY <1>1, <1>2, <1>3, GuestHoleTypeCorrect, StatusConsistent, PTL DEF Safety

-----------------------------------------------------------------------------
\* A call that has come to its end leaves the others alone, and keeps CallInv.
LEMMA CallEnds ==
    ASSUME CallInv, TypeOK', NEW c \in Call,
           \A d \in Call \ {c} : calls'[d] = calls[d],
           calls'[c].pc \in {"idle", "closing"}, calls[c].pc # "idle",
           "overlap" \notin disturbed' => "overlap" \notin disturbed
    PROVE  CallInv'
  BY DEF CallInv, Alone, Protected, InvokesItsCall, Unblocking

\* A call that goes on to try its next server keeps CallInv, given that the timeout
\* is not left running and waitingForUnblock is set for a call to be made again.
LEMMA TryServersCall ==
    ASSUME CallInv, TypeOK', disturbed' = disturbed, NEW c \in Call, NEW left, NEW waiting,
           NEW timeout, TryServers(c, left, waiting, timeout), calls[c].pc # "idle",
           "overlap" \notin disturbed => ~timeout /\ (calls[c].invokes => waiting)
    PROVE  CallInv'
<1>0. TypeOK /\ Alone /\ Protected /\ InvokesItsCall
  BY DEF CallInv
<1>1. ASSUME NEW pc \in {"waiting", "delay"},
             calls' = [calls EXCEPT ![c].pc = pc, ![c].left = left - 1],
             waitingForUnblock' = waiting /\ timeoutCloseJob' = timeout
      PROVE  CallInv'
  <2>1. /\ \A d \in Call \ {c} : calls'[d] = calls[d]
        /\ calls'[c].pc = pc /\ calls'[c].invokes = calls[c].invokes
    BY <1>0, <1>1, Trying
  <2>2. Alone'
    BY <1>0, <2>1 DEF Alone
  <2>3. Protected'
    BY <1>0, <1>1, <2>1, <2>2 DEF Alone, Protected, Unblocking
  <2>4. InvokesItsCall'
    BY <1>0, <1>1, <2>1 DEF InvokesItsCall
  <2> QED BY <2>2, <2>3, <2>4 DEF CallInv
<1>2. ASSUME NEW asked, NEW skipped, Finally(c, asked, timeout, skipped) PROVE CallInv'
  BY <1>0, <1>2, FinallyLeaves, CallEnds
<1> QED BY <1>1, <1>2 DEF TryServers

\* Steps of a call keep CallInv.
LEMMA CallKept ==
    ASSUME CallInv, TypeOK', NEW c \in Call,
           \/ \E invokes \in BOOLEAN : Unblock(c, invokes)
           \/ NoActivity(c) \/ PermissionDenied(c)
           \/ CallStep(c) \/ AttemptTimeout(c) \/ CancelCall(c)
    PROVE  CallInv'
<1>0. TypeOK /\ Alone /\ Protected /\ InvokesItsCall
  BY DEF CallInv
<1>1. ASSUME NEW invokes \in BOOLEAN, Unblock(c, invokes) PROVE CallInv'
  <2>1. /\ \A d \in Call \ {c} : calls'[d] = calls[d]
        /\ calls'[c].pc = "asking"
    BY <1>0, <1>1 DEF Unblock, TypeOK, CallAt
  <2>2. "overlap" \notin disturbed' =>
            /\ "overlap" \notin disturbed
            /\ \A d \in Call : calls[d].pc = "idle"
    BY <1>1 DEF Unblock
  <2> QED BY <1>0, <1>1, <2>1, <2>2 DEF CallInv, Alone, Protected, InvokesItsCall, Unblocking
<1>2. ASSUME NoActivity(c) \/ PermissionDenied(c) PROVE CallInv'
  <2>1. /\ \A d \in Call \ {c} : calls'[d] = calls[d]
        /\ calls'[c].pc = "idle"
    <3>1. calls \in [Call -> CallRecord] /\ Idle.pc = "idle"
      BY <1>0 DEF TypeOK, Idle, CallAt
    <3> QED BY <1>2, <3>1 DEF NoActivity, PermissionDenied
  <2> QED BY <1>2, <2>1, CallEnds DEF NoActivity, PermissionDenied
<1>3. ASSUME PermissionGranted(c) PROVE CallInv'
  BY <1>3, TryServersCall DEF PermissionGranted
<1>4. ASSUME ServerFailed(c) PROVE CallInv'
  BY <1>0, <1>4, TryServersCall DEF ServerFailed, Protected, Unblocking
<1>5. ASSUME Finally(c, request, timeoutCloseJob, FALSE), calls[c].pc # "idle",
             "overlap" \notin disturbed' => "overlap" \notin disturbed
      PROVE  CallInv'
  BY <1>0, <1>5, FinallyLeaves, CallEnds
<1>6. ASSUME ServerConnected(c) PROVE CallInv'
  <2>1. /\ \A d \in Call \ {c} : calls'[d] = calls[d]
        /\ calls'[c].pc = "delay" /\ calls'[c].invokes = calls[c].invokes
    BY <1>0, <1>6, ZenonT(30) DEF ServerConnected, TypeOK, CallRecord
  <2> QED BY <1>0, <1>6, <2>1
          DEF CallInv, ServerConnected, Alone, Protected, InvokesItsCall, Unblocking, hole
<1>7. ASSUME Invoke(c) PROVE CallInv'
  <2>1. CASE calls[c].invokes
    <3>1. /\ calls' = [calls EXCEPT ![c].pc = "call"]
          /\ UNCHANGED <<waitingForUnblock, timeoutCloseJob, disturbed>>
          /\ calls[c].pc = "delay"
      BY <1>7, <2>1 DEF Invoke
    <3>2. /\ \A d \in Call \ {c} : calls'[d] = calls[d]
          /\ calls'[c].pc = "call" /\ calls'[c].invokes = calls[c].invokes
      BY <1>0, <3>1, ZenonT(30) DEF TypeOK, CallRecord
    <3>3. Alone' /\ InvokesItsCall'
      BY <1>0, <2>1, <3>1, <3>2 DEF Alone, InvokesItsCall
    <3>4. Protected'
      BY <1>0, <3>1, <3>2 DEF Protected, Unblocking
    <3> QED BY <3>3, <3>4 DEF CallInv
  <2>2. CASE ~calls[c].invokes
    BY <1>5, <1>7, <2>2 DEF Invoke
  <2> QED BY <2>1, <2>2
<1>8. ASSUME CallReturns(c) \/ AttemptTimeout(c) \/ CancelCall(c) PROVE CallInv'
  BY <1>5, <1>8 DEF CallReturns, AttemptTimeout, CancelCall, Unblocking
<1>9. ASSUME Closed(c) PROVE CallInv'
  <2>1. /\ \A d \in Call \ {c} : calls'[d] = calls[d]
        /\ calls'[c].pc = "idle"
    BY <1>0, <1>9 DEF Closed, TypeOK, CallRecord
  <2> QED BY <1>9, <2>1, CallEnds DEF Closed
<1> QED BY <1>1, <1>2, <1>3, <1>4, <1>6, <1>7, <1>8, <1>9 DEF CallStep

\* A user action ends the calls it cancels and protects the others no less.
LEMMA UserActionKept ==
    ASSUME CallInv, TypeOK', NEW cancelled \in SUBSET Call,
           \A c \in cancelled : Cancelled(c),
           calls' = [c \in Call |-> IF c \in cancelled THEN Idle ELSE calls[c]],
           waitingForUnblock /\ ~(\E c \in cancelled : Unblocking(c)) => waitingForUnblock',
           UNCHANGED <<timeoutCloseJob, disturbed>>
    PROVE  CallInv'
<1>0. TypeOK /\ Alone /\ Protected /\ InvokesItsCall
  BY DEF CallInv
<1>1. Idle.pc = "idle"
  BY DEF Idle, CallAt
<1>2. \A d \in Call : calls'[d] = IF d \in cancelled THEN Idle ELSE calls[d]
  OBVIOUS
<1>3. Alone' /\ InvokesItsCall'
  BY <1>0, <1>1, <1>2 DEF Alone, InvokesItsCall
<1>4. Protected'
  <2> SUFFICES ASSUME "overlap" \notin disturbed, NEW c \in Call, Unblocking(c)'
               PROVE  ~timeoutCloseJob /\ (calls'[c].invokes => waitingForUnblock')
    BY DEF Protected
  <2>1. calls'[c] = calls[c] /\ c \notin cancelled /\ Unblocking(c)
    BY <1>1, <1>2 DEF Unblocking
  <2>2. ~\E d \in cancelled : Unblocking(d)
    BY <1>0, <2>1 DEF Alone, Unblocking
  <2>3. ~timeoutCloseJob /\ (calls[c].invokes => waitingForUnblock)
    BY <1>0, <2>1 DEF Protected
  <2> QED BY <2>1, <2>2, <2>3
<1> QED BY <1>3, <1>4 DEF CallInv

\* Locks, the timeout, the manager and the user keep CallInv.
LEMMA OthersKept ==
    ASSUME CallInv, TypeOK',
           \/ \E l \in Locker : AcquireNeedGuestHole(l) \/ ReleaseNeedGuestHole(l)
           \/ TimeoutClose \/ ConnectJob \/ Prepared \/ Established \/ Failed
           \/ UserConnect \/ UserDisconnect \/ Disconnected \/ UserLeft
    PROVE  CallInv'
<1>0. TypeOK /\ Alone /\ Protected /\ InvokesItsCall
  BY DEF CallInv
<1>1. ASSUME calls' = calls,
             timeoutCloseJob' => timeoutCloseJob, waitingForUnblock' = waitingForUnblock,
             "overlap" \notin disturbed' => "overlap" \notin disturbed
      PROVE  CallInv'
  BY <1>0, <1>1 DEF CallInv, Alone, Protected, InvokesItsCall, Unblocking
<1>2. ASSUME NEW l \in Locker, AcquireNeedGuestHole(l) \/ ReleaseNeedGuestHole(l) PROVE CallInv'
  BY <1>1, <1>2 DEF AcquireNeedGuestHole, ReleaseNeedGuestHole
<1>3. ASSUME \/ TimeoutClose \/ GuestConnecting \/ NotConnecting \/ Prepared \/ Established
             \/ Failed \/ UserConnect \/ UserDisconnect \/ Disconnected
      PROVE  CallInv'
  BY <1>1, <1>3 DEF TimeoutClose, GuestConnecting, NotConnecting, Prepared, Established, Failed,
     UserConnect, UserDisconnect, Disconnected, hole
<1>4. ASSUME UserConnecting PROVE CallInv'
  <2> DEFINE cancelled == {c \in Call : backend = "active" /\ Cancelled(c)}
  <2>1. /\ calls' = [c \in Call |-> IF c \in cancelled THEN Idle ELSE calls[c]]
        /\ waitingForUnblock /\ ~(\E c \in cancelled : Unblocking(c)) => waitingForUnblock'
        /\ UNCHANGED <<timeoutCloseJob, disturbed>>
    BY <1>4 DEF UserConnecting
  <2>2. cancelled \in SUBSET Call /\ \A c \in cancelled : Cancelled(c)
    OBVIOUS
  <2> HIDE DEF cancelled
  <2> QED BY <2>1, <2>2, UserActionKept
<1>5. ASSUME UserLeft PROVE CallInv'
  <2>1. ASSUME NEW c \in Call, Unblocking(c), Finally(c, request, timeoutCloseJob, FALSE)
        PROVE  CallInv'
    BY <1>0, <1>5, <2>1, FinallyLeaves, CallEnds DEF UserLeft, Unblocking
  <2>2. ASSUME calls' = [c \in Call |-> IF Cancelled(c) THEN Idle ELSE calls[c]],
               UNCHANGED <<waitingForUnblock, timeoutCloseJob>>
        PROVE  CallInv'
    <3> DEFINE cancelled == {c \in Call : Cancelled(c)}
    <3>1. calls' = [c \in Call |-> IF c \in cancelled THEN Idle ELSE calls[c]]
      BY <2>2
    <3>2. cancelled \in SUBSET Call /\ \A c \in cancelled : Cancelled(c)
      OBVIOUS
    <3> HIDE DEF cancelled
    <3> QED BY <1>5, <2>2, <3>1, <3>2, UserActionKept DEF UserLeft
  <2> QED BY <1>5, <2>1, <2>2 DEF UserLeft
<1> QED BY <1>2, <1>3, <1>4, <1>5 DEF ConnectJob

\* CallInv is an invariant.
LEMMA CallInvariant == Safety => []CallInv
<1>1. Init => CallInv
  <2> SUFFICES ASSUME Init PROVE CallInv
    OBVIOUS
  <2>1. TypeOK /\ Idle.pc = "idle"
    BY InitTyped DEF Idle, CallAt
  <2> QED BY <2>1 DEF Init, CallInv, Alone, Protected, InvokesItsCall, Unblocking
<1>2. CallInv /\ TypeOK' /\ [Next]_vars => CallInv'
  <2> SUFFICES ASSUME CallInv, TypeOK', [Next]_vars PROVE CallInv'
    OBVIOUS
  <2>1. CASE Next
    BY <2>1, CallKept, OthersKept DEF Next
  <2>2. CASE UNCHANGED vars
    BY <2>2 DEF vars, manager, hole, CallInv, Alone, Protected, InvokesItsCall, Unblocking
  <2> QED BY <2>1, <2>2
<1> QED BY <1>1, <1>2, GuestHoleTypeCorrect, PTL DEF Safety

\* A step that closes a connected guest hole while a call is made through it,
\* without another call having begun, is the user's.
LEMMA ClosedByUser ==
    ASSUME CallInv, Consistent, Next, NEW c \in Call, calls[c].pc = "call", calls'[c].pc = "call",
           "overlap" \notin disturbed, IsConnected
    PROVE  status'.state \notin {"Disconnecting", "Disabled"} \/ leaving' = "under way"
<1>0. /\ TypeOK /\ status.state = "Connected" /\ backend = "active"
      /\ ~timeoutCloseJob /\ waitingForUnblock
      /\ \A d \in Call \ {c} : calls[d].pc = "idle"
  BY DEF CallInv, Consistent, Alone, Protected, InvokesItsCall, Unblocking, IsConnected
<1> DEFINE Open == status'.state \notin {"Disconnecting", "Disabled"}
<1>1. ASSUME UNCHANGED status PROVE Open
  BY <1>0, <1>1
<1>2. ASSUME NEW d \in Call,
             \/ \E invokes \in BOOLEAN : Unblock(d, invokes)
             \/ NoActivity(d) \/ PermissionDenied(d)
             \/ CallStep(d) \/ AttemptTimeout(d) \/ CancelCall(d)
      PROVE  Open
  <2>1. ASSUME NEW asked, NEW timeout, NEW skipped, Finally(d, asked, timeout, skipped)
        PROVE  d # c
    BY <1>0, <2>1, FinallyLeaves
  <2>2. CASE d # c
    BY <1>0, <1>1, <1>2, <2>2 DEF CallStep, Unblock, NoActivity, PermissionDenied, PermissionGranted,
       ServerConnected, ServerFailed, Invoke, CallReturns, Closed, AttemptTimeout, CancelCall,
       Unblocking, manager
  <2>3. CASE d = c
    BY <1>0, <1>1, <1>2, <2>1, <2>3 DEF CallStep, Unblock, NoActivity, PermissionDenied,
       PermissionGranted, ServerConnected, ServerFailed, Invoke, CallReturns, Closed,
       AttemptTimeout, CancelCall
  <2> QED BY <2>2, <2>3
<1>3. ASSUME NEW l \in Locker, AcquireNeedGuestHole(l) \/ ReleaseNeedGuestHole(l)
      PROVE  Open
  BY <1>0, <1>1, <1>3 DEF AcquireNeedGuestHole, ReleaseNeedGuestHole, manager
<1>4. ASSUME \/ TimeoutClose \/ NotConnecting \/ Prepared \/ Established \/ Failed
             \/ UserConnect \/ Disconnected
      PROVE  Open
  BY <1>0, <1>1, <1>4 DEF TimeoutClose, NotConnecting, Prepared, Established, Failed, UserConnect,
     ConnectWithPermission, Disconnected
<1>5. ASSUME GuestConnecting \/ UserConnecting PROVE Open
  BY <1>5 DEF GuestConnecting, UserConnecting
<1>6. ASSUME UserDisconnect PROVE leaving' = "under way"
  BY <1>0, <1>6 DEF UserDisconnect
<1>7. ASSUME UserLeft PROVE Open
  <2>1. ASSUME NEW d \in Call, Unblocking(d), Finally(d, request, timeoutCloseJob, FALSE)
        PROVE  FALSE
    BY <1>0, <2>1, FinallyLeaves DEF Unblocking
  <2> QED BY <1>1, <1>7, <2>1 DEF UserLeft, manager
<1> QED BY <1>2, <1>3, <1>4, <1>5, <1>6, <1>7 DEF Next, ConnectJob

\* Nobody but the user closes the guest hole under a call that is made through it,
\* as long as calls do not overlap: neither a lock that is released nor the timeout
\* of an earlier guest hole.
THEOREM OnlyUserClosesUnderCall == Safety => NotClosedUnderCall
<1>1. CallInv /\ Consistent /\ [Next]_vars =>
        [\A c \in Call :
            /\ calls[c].pc = "call" /\ calls'[c].pc = "call"
            /\ "overlap" \notin disturbed
            /\ IsGuestHoleActive /\ IsConnected
            => status'.state \notin {"Disconnecting", "Disabled"} \/ leaving' = "under way"]_vars
  BY ClosedByUser
<1> QED BY <1>1, CallInvariant, StatusConsistent, PTL DEF Safety, NotClosedUnderCall
=============================================================================
