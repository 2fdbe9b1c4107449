-------------------- MODULE CertificateRepository_proofs --------------------
(***************************************************************************)
(* Proofs about CertificateRepository, for any sessions, requests, number  *)
(* of retries and of keys: a certificate always belongs to the stored key, *)
(* a session never has two requests, no answer of the API brings back a    *)
(* replaced key.                                                           *)
(***************************************************************************)
EXTENDS CertificateRepository, TLAPS

\* The parts of the invariant, for the coroutines rq, the registrations reg and the
\* storage st that a step has reached so far.
Typed(rq, reg) ==
    /\ rq \in [Requests -> Coroutine]
    /\ reg \in [Sessions -> Requests \cup {NoRequest}]
Registered(rq, reg) ==
    /\ \A r \in Requests : rq[r].pc # "idle" => /\ rq[r].session \in Sessions
                                                /\ reg[rq[r].session] = r
    /\ \A s \in Sessions : reg[s] # NoRequest => /\ rq[reg[s]].pc # "idle"
                                                 /\ rq[reg[s]].session = s
Current(rq, st) == \A r \in Requests : rq[r].pc = "api" => st[rq[r].session] = rq[r].info
Quiet(s, rq) == \A r \in Requests : rq[r].pc # "idle" => rq[r].session # s
Matching(st) == \A s \in Sessions : st[s].cert \in {0, st[s].key}

\* The inductive invariant.  CertMatchesKey alone is not inductive: that an answer
\* belongs to the stored key needs that its request is current, which needs that
\* replacing a key cancels every request of its session, and thus the registrations.
IInv ==
    /\ TypeOK
    /\ Registered(request, certRequests)
    /\ Current(request, storage)
    /\ Matching(storage)

\* The idle coroutine and the empty CertInfo are well typed.
LEMMA IdleTyped == NoInfo \in CertInfo /\ Idle \in Coroutine /\ Idle.pc = "idle"
  BY BoundAssumption DEF NoInfo, CertInfo, Idle, Coroutine

\* certRequests.remove(s)?.cancel(): the session has no request left, the others are
\* what they were.
LEMMA Cancelling ==
  ASSUME NEW s \in Sessions, NEW rq, NEW reg, Typed(rq, reg), Registered(rq, reg)
  PROVE  /\ Typed(CancelRequest(s, rq, reg), Unregister(s, reg))
         /\ Registered(CancelRequest(s, rq, reg), Unregister(s, reg))
         /\ Quiet(s, CancelRequest(s, rq, reg))
         /\ \A r \in Requests : CancelRequest(s, rq, reg)[r] \in {rq[r], Idle}
         /\ Unregister(s, reg)[s] = NoRequest
<1> DEFINE c == CancelRequest(s, rq, reg)
           u == Unregister(s, reg)
<1> USE NoneAssumption, IdleTyped DEF Typed, CancelRequest, Unregister
<1>1. Typed(c, u)
  OBVIOUS
<1>2. \A r \in Requests : c[r] \in {rq[r], Idle}
  OBVIOUS
<1>3. u[s] = NoRequest /\ \A t \in Sessions \ {s} : u[t] = reg[t]
  OBVIOUS
<1>4. \A r \in Requests : c[r].pc # "idle" => c[r] = rq[r] /\ rq[r].session # s
  BY DEF Registered
<1>5. Quiet(s, c)
  BY <1>4 DEF Quiet
<1>6. Registered(c, u)
  <2>1. ASSUME NEW r \in Requests, c[r].pc # "idle"
        PROVE  c[r].session \in Sessions /\ u[c[r].session] = r
    BY <1>3, <1>4, <2>1 DEF Registered
  <2>2. ASSUME NEW t \in Sessions, u[t] # NoRequest
        PROVE  c[u[t]].pc # "idle" /\ c[u[t]].session = t
    <3>1. t # s /\ u[t] = reg[t] /\ reg[t] \in Requests
      BY <1>3, <2>2
    <3>2. rq[reg[t]].pc # "idle" /\ rq[reg[t]].session = t
      BY <3>1, <2>2 DEF Registered
    <3>3. reg[s] # reg[t]
      BY <3>1, <3>2 DEF Registered
    <3>4. c[reg[t]] = rq[reg[t]]
      BY <3>1, <3>3
    <3> QED
      BY <3>1, <3>2, <3>4
  <2> QED
    BY <2>1, <2>2 DEF Registered
<1> QED
  BY <1>1, <1>2, <1>3, <1>5, <1>6

\* updateCertificate: the registrations agree with the coroutines again, and a request
\* that was not there before is queued.
LEMMA Updating ==
  ASSUME NEW STATE s, s \in Sessions, NEW co \in BOOLEAN, NEW STATE rq, NEW STATE reg,
         TypeOK, Typed(rq, reg), Registered(rq, reg),
         \A r \in Requests : rq[r] \in {request[r], Idle},
         UpdateCertificate(s, co, rq, reg)
  PROVE  /\ Typed(request', certRequests')
         /\ Registered(request', certRequests')
         /\ \A r \in Requests : \/ request'[r] \in {rq[r], Idle}
                                \/ request'[r].pc = "queued" /\ request'[r].session = s
<1> DEFINE rq1 == IF co THEN CancelRequest(s, rq, reg) ELSE rq
           reg1 == IF co THEN Unregister(s, reg) ELSE reg
<1>1. /\ Typed(rq1, reg1) /\ Registered(rq1, reg1)
      /\ \A r \in Requests : rq1[r] \in {rq[r], Idle}
  BY Cancelling
<1>2. \/ reg1[s] # NoRequest /\ request' = rq1 /\ certRequests' = reg1
      \/ /\ reg1[s] = NoRequest
         /\ \E r \in Requests :
               /\ request[r].pc = "idle"
               /\ request' = [rq1 EXCEPT ![r] = [pc |-> "queued", session |-> s, info |-> NoInfo]]
               /\ certRequests' = [reg1 EXCEPT ![s] = r]
  BY DEF UpdateCertificate
<1> HIDE DEF rq1, reg1
<1>3. CASE request' = rq1 /\ certRequests' = reg1
  BY <1>1, <1>3
<1>4. ASSUME reg1[s] = NoRequest, NEW r \in Requests, request[r].pc = "idle",
             request' = [rq1 EXCEPT ![r] = [pc |-> "queued", session |-> s, info |-> NoInfo]],
             certRequests' = [reg1 EXCEPT ![s] = r]
      PROVE  /\ Typed(request', certRequests')
             /\ Registered(request', certRequests')
             /\ \A q \in Requests : \/ request'[q] \in {rq[q], Idle}
                                    \/ request'[q].pc = "queued" /\ request'[q].session = s
  <2> DEFINE new == [pc |-> "queued", session |-> s, info |-> NoInfo]
  <2>1. new \in Coroutine /\ new.pc = "queued" /\ new.session = s
    BY IdleTyped DEF Coroutine
  <2>2. rq1[r].pc = "idle"
    BY <1>1, <1>4, IdleTyped
  <2>3. /\ request' \in [Requests -> Coroutine] /\ request'[r] = new
        /\ \A q \in Requests \ {r} : request'[q] = rq1[q]
    BY <1>1, <1>4, <2>1 DEF Typed
  <2>4. /\ certRequests' \in [Sessions -> Requests \cup {NoRequest}] /\ certRequests'[s] = r
        /\ \A t \in Sessions \ {s} : certRequests'[t] = reg1[t]
    BY <1>1, <1>4 DEF Typed
  <2> HIDE DEF new
  <2>5. ASSUME NEW q \in Requests, request'[q].pc # "idle"
        PROVE  request'[q].session \in Sessions /\ certRequests'[request'[q].session] = q
    <3>1. CASE q = r
      BY <2>1, <2>3, <2>4, <3>1
    <3>2. CASE q # r
      <4>1. rq1[q].session \in Sessions /\ reg1[rq1[q].session] = q
        BY <1>1, <2>3, <2>5, <3>2 DEF Registered
      <4>2. rq1[q].session # s
        BY <1>4, <4>1, NoneAssumption
      <4> QED
        BY <2>3, <2>4, <3>2, <4>1, <4>2
    <3> QED
      BY <3>1, <3>2
  <2>6. ASSUME NEW t \in Sessions, certRequests'[t] # NoRequest
        PROVE  request'[certRequests'[t]].pc # "idle" /\ request'[certRequests'[t]].session = t
    <3>1. CASE t = s
      BY <2>1, <2>3, <2>4, <3>1
    <3>2. CASE t # s
      <4>1. certRequests'[t] = reg1[t] /\ reg1[t] \in Requests
        BY <1>1, <2>4, <2>6, <3>2 DEF Typed
      <4>2. rq1[reg1[t]].pc # "idle" /\ rq1[reg1[t]].session = t
        BY <1>1, <2>6, <4>1 DEF Registered
      <4> QED
        BY <2>2, <2>3, <4>1, <4>2
    <3> QED
      BY <3>1, <3>2
  <2> QED
    BY <1>1, <2>1, <2>3, <2>4, <2>5, <2>6 DEF Typed, Registered
<1> QED
  BY <1>2, <1>3, <1>4

\* After a session was quiet and asked for a certificate, the waiting requests are current
\* whatever its CertInfo has become.
LEMMA StaysCurrent ==
  ASSUME NEW STATE s, s \in Sessions, NEW STATE rq, Typed(rq, certRequests),
         Current(request, storage),
         \A r \in Requests : rq[r] \in {request[r], Idle},
         Quiet(s, rq) \/ storage'[s] = storage[s],
         \A t \in Sessions \ {s} : storage'[t] = storage[t],
         \A r \in Requests : rq[r].pc # "idle" => rq[r].session \in Sessions,
         \A r \in Requests : \/ request'[r] \in {rq[r], Idle}
                             \/ request'[r].pc = "queued" /\ request'[r].session = s
  PROVE  Current(request', storage')
<1> SUFFICES ASSUME NEW r \in Requests, request'[r].pc = "api"
             PROVE  storage'[request'[r].session] = request'[r].info
  BY DEF Current
<1>1. request'[r] = rq[r] /\ rq[r] = request[r]
  BY IdleTyped
<1>2. storage[request[r].session] = request[r].info
  BY <1>1 DEF Current
<1>3. storage'[request[r].session] = storage[request[r].session]
  BY <1>1 DEF Quiet
<1> QED
  BY <1>1, <1>2, <1>3

-----------------------------------------------------------------------------
(***************************************************************************)
(* The invariant is inductive.                                             *)
(***************************************************************************)

\* The variables that the registrations do not speak about.
RestTyped ==
    /\ age \in [Sessions -> {"fresh", "due", "expired"}]
    /\ current \in Sessions \cup {NoSession}
    /\ isInUse \in BOOLEAN
    /\ scheduled \in BOOLEAN
    /\ worker \in Requests \cup {NoRequest}
    /\ planChange \in [Sessions -> PlanStates]
StorageTyped == storage \in [Sessions -> CertInfo] /\ lastKey \in Nat

\* TypeOK in three parts.
LEMMA TypeParts == TypeOK <=> StorageTyped /\ Typed(request, certRequests) /\ RestTyped
  BY DEF TypeOK, StorageTyped, Typed, RestTyped

\* generateNewKey stores a new key without a certificate.
LEMMA NewKeyStored ==
  ASSUME NEW STATE s, s \in Sessions, StorageTyped, Matching(storage), GenerateNewKey(s)
  PROVE  /\ StorageTyped' /\ Matching(storage')
         /\ \A t \in Sessions \ {s} : storage'[t] = storage[t]
<1> DEFINE info == [key |-> lastKey + 1, cert |-> 0, refreshCount |-> 0]
<1>1. info \in CertInfo /\ info.cert = 0
  BY BoundAssumption DEF StorageTyped, CertInfo
<1>2. storage' = [storage EXCEPT ![s] = info] /\ lastKey' = lastKey + 1
  BY DEF GenerateNewKey, NewKey
<1> HIDE DEF info
<1> QED
  BY <1>1, <1>2 DEF StorageTyped, Matching

\* What an operation preserves: everything but the rest of the variables.
Core == StorageTyped /\ Typed(request, certRequests) /\ Registered(request, certRequests)
        /\ Current(request, storage) /\ Matching(storage)

\* The inductive invariant in two parts.
LEMMA CoreRest == IInv <=> Core /\ RestTyped
  BY TypeParts DEF IInv, Core

\* A new key for a session, its requests cancelled, and perhaps a new request.
LEMMA KeyReplaced ==
  ASSUME NEW STATE s, s \in Sessions, NEW co \in BOOLEAN, IInv,
         StorageTyped', Matching(storage'),
         \A t \in Sessions \ {s} : storage'[t] = storage[t],
         \/ UpdateCertificate(s, co, CancelRequest(s, request, certRequests),
                                     Unregister(s, certRequests))
         \/ /\ request' = CancelRequest(s, request, certRequests)
            /\ certRequests' = Unregister(s, certRequests)
  PROVE  Core'
<1> DEFINE rq == CancelRequest(s, request, certRequests)
           reg == Unregister(s, certRequests)
<1>1. /\ Typed(rq, reg) /\ Registered(rq, reg) /\ Quiet(s, rq)
      /\ \A r \in Requests : rq[r] \in {request[r], Idle}
  BY Cancelling, TypeParts DEF IInv
<1>2. /\ Typed(request', certRequests') /\ Registered(request', certRequests')
      /\ \A r \in Requests : \/ request'[r] \in {rq[r], Idle}
                             \/ request'[r].pc = "queued" /\ request'[r].session = s
  <2>1. CASE UpdateCertificate(s, co, rq, reg)
    <3> HIDE DEF rq, reg
    <3> QED
      BY <1>1, <2>1, Updating DEF IInv
  <2>2. CASE request' = rq /\ certRequests' = reg
    BY <1>1, <2>2
  <2> QED
    BY <2>1, <2>2
<1>3. Typed(rq, certRequests) /\ \A r \in Requests : rq[r].pc # "idle" => rq[r].session \in Sessions
  BY <1>1, TypeParts DEF IInv, Typed, Registered
<1> HIDE DEF rq, reg
<1>4. Current(request', storage')
  BY <1>1, <1>2, <1>3, StaysCurrent DEF IInv
<1> QED
  BY <1>2, <1>4 DEF Core

\* A request of a session whose CertInfo does not change.
LEMMA KeyKept ==
  ASSUME NEW STATE s, s \in Sessions, NEW co \in BOOLEAN, IInv, UNCHANGED <<storage, lastKey>>,
         \/ UpdateCertificate(s, co, request, certRequests)
         \/ UNCHANGED <<request, certRequests>>
  PROVE  Core'
<1>1. StorageTyped' /\ Matching(storage')
  BY TypeParts DEF IInv, StorageTyped, Matching
<1>2. Typed(request, certRequests) /\ Registered(request, certRequests)
  BY TypeParts DEF IInv
<1>3. /\ Typed(request', certRequests') /\ Registered(request', certRequests')
      /\ \A r \in Requests : \/ request'[r] \in {request[r], Idle}
                             \/ request'[r].pc = "queued" /\ request'[r].session = s
  <2>1. CASE UpdateCertificate(s, co, request, certRequests)
    BY <1>2, <2>1, Updating DEF IInv
  <2>2. CASE UNCHANGED <<request, certRequests>>
    BY <1>2, <2>2
  <2> QED
    BY <2>1, <2>2
<1>4. Current(request', storage')
  BY <1>2, <1>3, StaysCurrent DEF IInv, Registered
<1> QED
  BY <1>1, <1>3, <1>4 DEF Core

\* getCertInfo, then perhaps updateCertificate.
LEMMA GotCertInfo ==
  ASSUME NEW STATE s, s \in Sessions, NEW STATE needed, needed \in BOOLEAN, IInv, GetCertInfoAndUpdate(s, needed)
  PROVE  Core'
<1>1. CASE storage[s].key = 0
  <2>1. GenerateNewKey(s) /\ UpdateCertificate(s, FALSE, CancelRequest(s, request, certRequests),
                                                Unregister(s, certRequests))
    BY <1>1 DEF GetCertInfoAndUpdate
  <2> QED
    BY <2>1, NewKeyStored, KeyReplaced, TypeParts DEF IInv
<1>2. CASE storage[s].key # 0
  BY <1>2, KeyKept DEF GetCertInfoAndUpdate
<1> QED
  BY <1>1, <1>2

\* The worker either awaits a request or nothing.
LEMMA WorkerTyped == RestTyped => \A rq : WorkerAfter(rq) \in Requests \cup {NoRequest}
  BY DEF RestTyped, WorkerAfter

\* A request that is over, by itself or because generateNewKey cancels it, is what
\* certRequests.remove(session)?.cancel() leaves.
LEMMA Ending ==
  ASSUME IInv, NEW r \in Requests, request[r].pc # "idle"
  PROVE  /\ request[r].session \in Sessions
         /\ certRequests[request[r].session] = r
         /\ CancelRequest(request[r].session, request, certRequests) = [request EXCEPT ![r] = Idle]
<1>1. request[r].session \in Sessions /\ certRequests[request[r].session] = r
  BY DEF IInv, Registered
<1> QED
  BY <1>1, NoneAssumption DEF CancelRequest

\* A request that moves on to another suspension point stays registered.
LEMMA RelabelRegistered ==
  ASSUME NEW STATE r, r \in Requests, Typed(request, certRequests),
         Registered(request, certRequests), request[r].pc # "idle",
         request'[r].pc # "idle", request'[r].session = request[r].session,
         \A q \in Requests \ {r} : request'[q] = request[q], UNCHANGED certRequests
  PROVE  Registered(request', certRequests')
<1>1. ASSUME NEW q \in Requests, request'[q].pc # "idle"
      PROVE  request'[q].session \in Sessions /\ certRequests[request'[q].session] = q
  BY <1>1 DEF Registered
<1>2. ASSUME NEW t \in Sessions, certRequests[t] # NoRequest
      PROVE  request'[certRequests[t]].pc # "idle" /\ request'[certRequests[t]].session = t
  <2>1. /\ certRequests[t] \in Requests
        /\ request[certRequests[t]].pc # "idle" /\ request[certRequests[t]].session = t
    BY <1>2 DEF Registered, Typed
  <2> QED
    BY <2>1
<1> QED
  BY <1>1, <1>2 DEF Registered

\* Every session starts without a CertInfo and without a request.
LEMMA InitIInv == Init => IInv
<1> SUFFICES ASSUME Init PROVE IInv
  OBVIOUS
<1> USE IdleTyped, NoneAssumption DEF Init
<1>1. StorageTyped /\ Matching(storage)
  BY DEF StorageTyped, Matching, NoInfo
<1>2. Typed(request, certRequests) /\ Registered(request, certRequests) /\ Current(request, storage)
  BY DEF Typed, Registered, Current
<1>3. RestTyped
  BY DEF RestTyped, PlanStates
<1> QED
  BY <1>1, <1>2, <1>3, CoreRest DEF Core

\* A request is dispatched: it carries the stored CertInfo, or it is the request that
\* generateNewKey cancels.
LEMMA SendIInv == ASSUME IInv, NEW r \in Requests, SendRequest(r) PROVE IInv'
<1> DEFINE s == request[r].session
<1>1. /\ request[r].pc = "queued" /\ s \in Sessions /\ certRequests[s] = r
      /\ CancelRequest(s, request, certRequests) = [request EXCEPT ![r] = Idle]
  BY Ending DEF SendRequest
<1>2. StorageTyped /\ Typed(request, certRequests) /\ RestTyped
  BY TypeParts DEF IInv
<1>3. ASSUME storage[s].key # 0 PROVE Core'
  <2>1. /\ UNCHANGED <<storage, lastKey, certRequests>>
        /\ request' = [request EXCEPT ![r].pc = "api", ![r].info = storage[s]]
    BY <1>3 DEF SendRequest
  <2>2. storage[s] \in CertInfo
    BY <1>1, <1>2 DEF StorageTyped
  <2>3. /\ request' \in [Requests -> Coroutine]
        /\ request'[r].pc = "api" /\ request'[r].session = s /\ request'[r].info = storage[s]
        /\ \A q \in Requests \ {r} : request'[q] = request[q]
    BY <1>1, <1>2, <2>1, <2>2 DEF Typed, Coroutine
  <2> HIDE DEF s
  <2>4. Typed(request', certRequests') /\ StorageTyped' /\ Matching(storage')
    BY <1>2, <2>1, <2>3 DEF Typed, StorageTyped, IInv, Matching
  <2>5. Registered(request', certRequests')
    BY <1>1, <1>2, <2>1, <2>3, RelabelRegistered DEF IInv, s
  <2>6. Current(request', storage')
    BY <2>1, <2>3 DEF IInv, Current
  <2> QED
    BY <2>4, <2>5, <2>6 DEF Core
<1>4. ASSUME storage[s].key = 0 PROVE Core'
  <2>1. ([request EXCEPT ![r] = Idle])[r].pc = "idle"
    BY <1>2, IdleTyped DEF Typed
  <2>2. /\ GenerateNewKey(s)
        /\ certRequests' = Unregister(s, certRequests)
        /\ request' = CancelRequest(s, request, certRequests)
    BY <1>1, <1>4, <2>1 DEF SendRequest
  <2> HIDE DEF s
  <2> QED
    BY <1>1, <1>2, <2>2, NewKeyStored, KeyReplaced DEF IInv
<1>5. Core'
  BY <1>3, <1>4
<1>6. RestTyped'
  <2>1. planChange' \in [Sessions -> PlanStates]
    BY <1>1, <1>2 DEF SendRequest, RestTyped, PlanStates
  <2> QED
    BY <1>2, <2>1, WorkerTyped DEF SendRequest, RestTyped
<1> QED
  BY <1>5, <1>6, CoreRest, PTL

\* The API answers: the certificate is stored for the key that is still stored.
LEMMA SuccessIInv == ASSUME IInv, NEW r \in Requests, ApiSuccess(r) PROVE IInv'
<1> DEFINE s == request[r].session
           info == [key |-> request[r].info.key, cert |-> request[r].info.key, refreshCount |-> 0]
<1>1. /\ request[r].pc = "api" /\ s \in Sessions /\ certRequests[s] = r
  BY Ending DEF ApiSuccess
<1>2. StorageTyped /\ Typed(request, certRequests) /\ RestTyped
  BY TypeParts DEF IInv
<1>3. info \in CertInfo /\ info.cert = info.key
  BY <1>2, BoundAssumption DEF Typed, Coroutine, CertInfo
<1>4. /\ storage' = [storage EXCEPT ![s] = info]
      /\ request' = [request EXCEPT ![r].pc = "stored"]
      /\ UNCHANGED <<lastKey, certRequests>>
  BY DEF ApiSuccess
<1>5. /\ request' \in [Requests -> Coroutine]
      /\ request'[r].pc = "stored" /\ request'[r].session = s
      /\ \A q \in Requests \ {r} : request'[q] = request[q]
  BY <1>2, <1>4 DEF Typed, Coroutine
<1> HIDE DEF s, info
<1>6. /\ StorageTyped' /\ Matching(storage')
      /\ \A t \in Sessions \ {s} : storage'[t] = storage[t]
  BY <1>1, <1>2, <1>3, <1>4 DEF StorageTyped, IInv, Matching
<1>7. Typed(request', certRequests')
  BY <1>2, <1>4, <1>5 DEF Typed
<1>8. Registered(request', certRequests')
  BY <1>1, <1>2, <1>4, <1>5, RelabelRegistered DEF IInv, s
<1>9. Current(request', storage')
  BY <1>1, <1>5, <1>6 DEF IInv, Current, Registered
<1>10. Core'
  BY <1>6, <1>7, <1>8, <1>9 DEF Core
<1>11. RestTyped'
  BY <1>1, <1>2 DEF ApiSuccess, RestTyped, s
<1> QED
  BY <1>10, <1>11, CoreRest, PTL

\* A request passes from the storage to the subscribers.
LEMMA ScheduleIInv == ASSUME IInv, NEW r \in Requests, ScheduleNext(r) PROVE IInv'
<1>1. request[r].pc = "stored" /\ request[r].session \in Sessions
  BY Ending DEF ScheduleNext
<1>2. StorageTyped /\ Typed(request, certRequests) /\ RestTyped
  BY TypeParts DEF IInv
<1>3. request' = [request EXCEPT ![r].pc = "emit"] /\ UNCHANGED <<storage, lastKey, certRequests>>
  BY DEF ScheduleNext
<1>4. /\ request' \in [Requests -> Coroutine]
      /\ request'[r].pc = "emit" /\ request'[r].session = request[r].session
      /\ \A q \in Requests \ {r} : request'[q] = request[q]
  BY <1>2, <1>3 DEF Typed, Coroutine
<1>5. Typed(request', certRequests') /\ StorageTyped' /\ Matching(storage')
  BY <1>2, <1>3, <1>4 DEF Typed, StorageTyped, IInv, Matching
<1>6. Registered(request', certRequests')
  BY <1>1, <1>2, <1>3, <1>4, RelabelRegistered DEF IInv
<1>7. Current(request', storage')
  BY <1>3, <1>4 DEF IInv, Current
<1>8. Core'
  BY <1>5, <1>6, <1>7 DEF Core
<1>9. RestTyped'
  BY <1>2 DEF ScheduleNext, RestTyped
<1> QED
  BY <1>8, <1>9, CoreRest, PTL

\* The API fails: the retry is counted for the key that is still stored.
LEMMA ErrorIInv == ASSUME IInv, NEW r \in Requests, ApiError(r) PROVE IInv'
<1> DEFINE s == request[r].session
           retry == [request[r].info EXCEPT !.refreshCount = @ + 1]
<1>1. /\ request[r].pc = "api" /\ s \in Sessions
      /\ CancelRequest(s, request, certRequests) = [request EXCEPT ![r] = Idle]
  BY Ending DEF ApiError
<1>2. StorageTyped /\ RestTyped /\ Matching(storage)
  BY TypeParts DEF IInv
<1>3. request[r].info = storage[s] /\ storage[s] \in CertInfo
  BY <1>1, <1>2 DEF IInv, Current, StorageTyped
<1>4. /\ request' = CancelRequest(s, request, certRequests)
      /\ certRequests' = Unregister(s, certRequests)
      /\ storage' = IF ShouldRetry(request[r].info) THEN [storage EXCEPT ![s] = retry] ELSE storage
      /\ lastKey' = lastKey
  BY <1>1 DEF ApiError, EndRequest
<1>5. ShouldRetry(request[r].info) =>
         /\ retry \in CertInfo /\ retry.key = storage[s].key /\ retry.cert = storage[s].cert
  BY <1>3, BoundAssumption DEF ShouldRetry, CertInfo
<1> HIDE DEF s, retry
<1>6. /\ StorageTyped' /\ Matching(storage')
      /\ \A t \in Sessions \ {s} : storage'[t] = storage[t]
  BY <1>1, <1>2, <1>4, <1>5 DEF StorageTyped, Matching
<1>7. Core'
  BY <1>1, <1>4, <1>6, KeyReplaced
<1>8. RestTyped'
  BY <1>2, WorkerTyped DEF ApiError, EndRequest, RestTyped, ShouldRetry
<1> QED
  BY <1>7, <1>8, CoreRest, PTL

\* The subscribers have the result: the request is over.
LEMMA FinishIInv == ASSUME IInv, NEW r \in Requests, FinishRequest(r) PROVE IInv'
<1> DEFINE s == request[r].session
<1>1. /\ s \in Sessions
      /\ CancelRequest(s, request, certRequests) = [request EXCEPT ![r] = Idle]
  BY Ending DEF FinishRequest
<1>2. StorageTyped /\ RestTyped /\ Matching(storage)
  BY TypeParts DEF IInv
<1>3. /\ request' = CancelRequest(s, request, certRequests)
      /\ certRequests' = Unregister(s, certRequests)
      /\ UNCHANGED <<storage, lastKey>>
  BY <1>1 DEF FinishRequest, EndRequest
<1> HIDE DEF s
<1>4. Core'
  <2>1. StorageTyped' /\ Matching(storage') /\ \A t \in Sessions \ {s} : storage'[t] = storage[t]
    BY <1>2, <1>3 DEF StorageTyped, Matching
  <2> QED
    BY <1>1, <1>3, <2>1, KeyReplaced
<1>5. RestTyped'
  BY <1>2, WorkerTyped DEF FinishRequest, EndRequest, RestTyped
<1> QED
  BY <1>4, <1>5, CoreRest, PTL

\* The operations that find or generate a key and perhaps ask for a certificate.
LEMMA CertInfoSteps ==
  ASSUME IInv, UpdateCertificateIfNeeded \/ RunWorker \/ OnAppInUse
               \/ \E s \in Sessions : GetCertificate(s)
  PROVE  IInv'
<1>1. RestTyped /\ Core
  BY CoreRest
<1>2. NeedsUpdate(current) \in BOOLEAN
  BY DEF NeedsUpdate
<1>3. CASE UpdateCertificateIfNeeded
  <2>1. current \in Sessions /\ GetCertInfoAndUpdate(current, NeedsUpdate(current))
    BY <1>1, <1>3 DEF UpdateCertificateIfNeeded, RestTyped
  <2>2. Core'
    BY <1>2, <2>1, GotCertInfo
  <2>3. RestTyped'
    BY <1>1, <1>3, WorkerTyped DEF UpdateCertificateIfNeeded, RestTyped
  <2> QED
    BY <2>2, <2>3, CoreRest, PTL
<1>4. CASE RunWorker
  <2>1. CASE worker' = NoRequest /\ UNCHANGED <<storage, lastKey, request, certRequests>>
    <3>1. Core'
      BY <1>1, <2>1 DEF Core, StorageTyped, Typed, Registered, Current, Matching
    <3>2. RestTyped'
      BY <1>1, <1>4, <2>1 DEF RunWorker, RestTyped
    <3> QED
      BY <3>1, <3>2, CoreRest, PTL
  <2>2. CASE /\ current # NoSession
             /\ GetCertInfoAndUpdate(current, NeedsUpdate(current))
             /\ worker' = IF storage[current].key = 0 \/ NeedsUpdate(current)
                          THEN certRequests'[current] ELSE NoRequest
    <3>1. current \in Sessions
      BY <1>1, <2>2 DEF RestTyped
    <3>2. Core'
      BY <1>2, <2>2, <3>1, GotCertInfo
    <3>3. worker' \in Requests \cup {NoRequest}
      BY <2>2, <3>1, <3>2 DEF Core, Typed
    <3>4. RestTyped'
      BY <1>1, <1>4, <3>3 DEF RunWorker, RestTyped
    <3> QED
      BY <3>2, <3>4, CoreRest, PTL
  <2> QED
    BY <1>4, <2>1, <2>2 DEF RunWorker
<1>5. CASE OnAppInUse
  <2>1. current \in Sessions /\ GetCertInfoAndUpdate(current, NeedsUpdate(current))
    BY <1>1, <1>5 DEF OnAppInUse, RestTyped
  <2>2. Core'
    BY <1>2, <2>1, GotCertInfo
  <2>3. RestTyped'
    BY <1>1, <1>5, WorkerTyped DEF OnAppInUse, RestTyped
  <2> QED
    BY <2>2, <2>3, CoreRest, PTL
<1>6. CASE \E s \in Sessions : GetCertificate(s)
  <2>1. PICK s \in Sessions : GetCertificate(s)
    BY <1>6
  <2>2. Core'
    BY <2>1, GotCertInfo DEF GetCertificate
  <2>3. RestTyped'
    BY <1>1, <2>1, WorkerTyped DEF GetCertificate, RestTyped
  <2> QED
    BY <2>2, <2>3, CoreRest, PTL
<1> QED
  BY <1>3, <1>4, <1>5, <1>6

\* The operations that replace or clear the key of a session.
LEMMA KeySteps ==
  ASSUME IInv, \/ PlanChange
               \/ \E s \in Sessions : \/ GetCertificateWithoutRefresh(s)
                                      \/ \E cancelOngoing \in BOOLEAN : RenewKey(s, cancelOngoing)
                                      \/ Clear(s)
  PROVE  IInv'
<1>1. RestTyped /\ Core
  BY CoreRest
<1>2. ASSUME NEW STATE s, s \in Sessions, storage' = [storage EXCEPT ![s] = NoInfo], lastKey' = lastKey
      PROVE  /\ StorageTyped' /\ Matching(storage')
             /\ \A t \in Sessions \ {s} : storage'[t] = storage[t]
  <2>1. NoInfo.cert = 0
    BY DEF NoInfo
  <2> QED
    BY <1>1, <1>2, <2>1, IdleTyped DEF Core, StorageTyped, Matching
<1>3. CASE PlanChange
  <2>1. current \in Sessions
    BY <1>1, <1>3 DEF PlanChange, RestTyped
  <2>2. Core'
    BY <1>2, <1>3, <2>1, KeyReplaced DEF PlanChange
  <2>3. RestTyped'
    BY <1>1, <1>3, <2>1, WorkerTyped DEF PlanChange, RestTyped, PlanStates
  <2> QED
    BY <2>2, <2>3, CoreRest, PTL
<1>4. ASSUME NEW s \in Sessions, GetCertificateWithoutRefresh(s) PROVE IInv'
  <2>1. Core'
    BY <1>1, <1>4, NewKeyStored, KeyReplaced DEF GetCertificateWithoutRefresh, Core
  <2>2. RestTyped'
    BY <1>1, <1>4, WorkerTyped DEF GetCertificateWithoutRefresh, RestTyped
  <2> QED
    BY <2>1, <2>2, CoreRest, PTL
<1>5. ASSUME NEW s \in Sessions, NEW co \in BOOLEAN, RenewKey(s, co) PROVE IInv'
  <2>1. Core'
    BY <1>1, <1>5, NewKeyStored, KeyReplaced DEF RenewKey, Core
  <2>2. RestTyped'
    BY <1>1, <1>5, WorkerTyped DEF RenewKey, RestTyped
  <2> QED
    BY <2>1, <2>2, CoreRest, PTL
<1>6. ASSUME NEW s \in Sessions, Clear(s) PROVE IInv'
  <2>1. Core'
    BY <1>2, <1>6, KeyReplaced DEF Clear
  <2>2. RestTyped'
    BY <1>1, <1>6, WorkerTyped DEF Clear, RestTyped
  <2> QED
    BY <2>1, <2>2, CoreRest, PTL
<1> QED
  BY <1>3, <1>4, <1>5, <1>6

\* The steps that change neither a CertInfo nor, a restart apart, a request.
LEMMA OtherSteps ==
  ASSUME IInv, \/ RefreshCertificate \/ RemoveAccount \/ SetInUse \/ ProcessRestart \/ UNCHANGED vars
               \/ \E s \in Sessions : TimePasses(s) \/ Login(s)
  PROVE  IInv'
<1>1. RestTyped /\ Core
  BY CoreRest
<1>2. CASE RefreshCertificate
  <2>1. current \in Sessions
    BY <1>1, <1>2 DEF RefreshCertificate, RestTyped
  <2>2. Core'
    BY <1>2, <2>1, KeyKept DEF RefreshCertificate
  <2>3. RestTyped'
    BY <1>1, <1>2 DEF RefreshCertificate, RestTyped
  <2> QED
    BY <2>2, <2>3, CoreRest, PTL
<1>3. CASE ProcessRestart
  <2>1. Core'
    BY <1>1, <1>3, IdleTyped, NoneAssumption
       DEF ProcessRestart, Core, StorageTyped, Typed, Registered, Current, Matching
  <2>2. RestTyped'
    BY <1>1, <1>3 DEF ProcessRestart, RestTyped, PlanStates
  <2> QED
    BY <2>1, <2>2, CoreRest, PTL
<1>4. ASSUME UNCHANGED <<storage, lastKey, certRequests, request>> PROVE Core'
  BY <1>1, <1>4 DEF Core, StorageTyped, Typed, Registered, Current, Matching
<1>5. CASE RemoveAccount
  <2>1. RestTyped'
    BY <1>1, <1>5 DEF RemoveAccount, RestTyped, PlanStates
  <2>2. Core'
    BY <1>4, <1>5 DEF RemoveAccount
  <2> QED
    BY <2>1, <2>2, CoreRest, PTL
<1>6. CASE SetInUse \/ UNCHANGED vars
  <2>1. RestTyped'
    BY <1>1, <1>6 DEF SetInUse, RestTyped, vars
  <2>2. Core'
    BY <1>4, <1>6 DEF SetInUse, vars
  <2> QED
    BY <2>1, <2>2, CoreRest, PTL
<1>7. ASSUME NEW s \in Sessions, TimePasses(s) \/ Login(s) PROVE IInv'
  <2>1. RestTyped'
    BY <1>1, <1>7 DEF TimePasses, Login, RestTyped
  <2>2. Core'
    BY <1>4, <1>7 DEF TimePasses, Login
  <2> QED
    BY <2>1, <2>2, CoreRest, PTL
<1> QED
  BY <1>2, <1>3, <1>5, <1>6, <1>7

\* No step of the repository, the worker, the user or Android breaks the invariant.
LEMMA NextIInv == IInv /\ [Next]_vars => IInv'
<1> SUFFICES ASSUME IInv, [Next]_vars PROVE IInv'
  OBVIOUS
<1>1. CASE UpdateCertificateIfNeeded \/ RunWorker \/ OnAppInUse
           \/ \E s \in Sessions : GetCertificate(s)
  BY <1>1, CertInfoSteps
<1>2. CASE \/ PlanChange
           \/ \E s \in Sessions : \/ GetCertificateWithoutRefresh(s)
                                  \/ \E cancelOngoing \in BOOLEAN : RenewKey(s, cancelOngoing)
                                  \/ Clear(s)
  BY <1>2, KeySteps
<1>3. CASE \/ RefreshCertificate \/ RemoveAccount \/ SetInUse \/ ProcessRestart \/ UNCHANGED vars
           \/ \E s \in Sessions : TimePasses(s) \/ Login(s)
  BY <1>3, OtherSteps
<1>4. CASE \E r \in Requests : RequestStep(r)
  BY <1>4, SendIInv, SuccessIInv, ErrorIInv, ScheduleIInv, FinishIInv DEF RequestStep
<1> QED
  BY <1>1, <1>2, <1>3, <1>4 DEF Next

-----------------------------------------------------------------------------
(***************************************************************************)
(* The theorems.                                                           *)
(***************************************************************************)

\* IInv holds in every reachable state.
THEOREM Invariance == Spec => []IInv
  BY InitIInv, NextIInv, PTL DEF Spec

\* The repository is type correct; in particular a refresh is retried at most
\* MAX_REFRESH_COUNT times.
THEOREM TypeCorrect == Spec => []TypeOK
<1>1. IInv => TypeOK
  BY DEF IInv
<1> QED
  BY <1>1, Invariance, PTL

\* The stored certificate belongs to the stored key.
THEOREM CertificateMatchesKey == Spec => []CertMatchesKey
<1>1. IInv => CertMatchesKey
  BY DEF IInv, Matching, CertMatchesKey
<1> QED
  BY <1>1, Invariance, PTL

\* A session never has two requests, and nobody waits for a request that is gone.
THEOREM OneRequestPerSession == Spec => []RequestRegistered
<1>1. IInv => RequestRegistered
  BY DEF IInv, Registered, RequestRegistered
<1> QED
  BY <1>1, Invariance, PTL

\* An answer of the API is for the CertInfo that is still stored.
THEOREM AnswersAreCurrent == Spec => []AnswerIsCurrent
<1>1. IInv => AnswerIsCurrent
  BY DEF IInv, Current, AnswerIsCurrent
<1> QED
  BY <1>1, Invariance, PTL

\* What one step does to the keys.
LEMMA NextKeys ==
  ASSUME IInv, [Next]_vars, NEW s \in Sessions
  PROVE  storage'[s].key \in {0, storage[s].key, lastKey + 1}
<1>1. StorageTyped
  BY TypeParts DEF IInv
<1>2. ASSUME NEW STATE t, t \in Sessions, GenerateNewKey(t)
      PROVE  storage'[s].key \in {storage[s].key, lastKey + 1}
  BY <1>1, <1>2 DEF GenerateNewKey, NewKey, StorageTyped
<1>3. ASSUME NEW STATE t, t \in Sessions, storage' = [storage EXCEPT ![t] = NoInfo]
      PROVE  storage'[s].key \in {0, storage[s].key}
  BY <1>1, <1>3 DEF NoInfo, StorageTyped
<1>4. ASSUME NEW STATE t, t \in Sessions, NEW STATE needed, GetCertInfoAndUpdate(t, needed)
      PROVE  storage'[s].key \in {storage[s].key, lastKey + 1}
  BY <1>2, <1>4 DEF GetCertInfoAndUpdate
<1>5. current \in Sessions \/ current = NoSession
  BY DEF IInv, TypeOK
<1>6. CASE UpdateCertificateIfNeeded \/ RunWorker \/ OnAppInUse
  BY <1>4, <1>5, <1>6 DEF UpdateCertificateIfNeeded, RunWorker, OnAppInUse
<1>7. CASE PlanChange
  BY <1>3, <1>5, <1>7 DEF PlanChange
<1>8. ASSUME NEW t \in Sessions,
             \/ GetCertificate(t) \/ GetCertificateWithoutRefresh(t)
             \/ \E cancelOngoing \in BOOLEAN : RenewKey(t, cancelOngoing)
             \/ Clear(t)
      PROVE  storage'[s].key \in {0, storage[s].key, lastKey + 1}
  BY <1>2, <1>3, <1>4, <1>8 DEF GetCertificate, GetCertificateWithoutRefresh, RenewKey, Clear
<1>9. CASE \/ RefreshCertificate \/ RemoveAccount \/ SetInUse \/ ProcessRestart \/ UNCHANGED vars
           \/ \E t \in Sessions : TimePasses(t) \/ Login(t)
  BY <1>9 DEF RefreshCertificate, RemoveAccount, SetInUse, ProcessRestart, vars, TimePasses, Login
<1>10. ASSUME NEW r \in Requests, RequestStep(r)
       PROVE  storage'[s].key \in {0, storage[s].key, lastKey + 1}
  <2>1. request[r].session \in Sessions
    BY <1>10, Ending DEF RequestStep, SendRequest, ApiSuccess, ApiError, ScheduleNext, FinishRequest
  <2>2. CASE SendRequest(r)
    BY <1>2, <2>1, <2>2 DEF SendRequest
  <2>3. ASSUME request[r].pc = "api"
        PROVE  request[r].info = storage[request[r].session] /\ request[r].info \in CertInfo
    BY <1>1, <2>1, <2>3 DEF IInv, Current, StorageTyped
  <2>4. CASE ApiSuccess(r)
    BY <1>1, <2>1, <2>3, <2>4 DEF ApiSuccess, StorageTyped
  <2>5. CASE ApiError(r)
    <3>1. \/ storage' = storage
          \/ storage' = [storage EXCEPT ![request[r].session] =
                            [request[r].info EXCEPT !.refreshCount = @ + 1]]
      BY <2>5 DEF ApiError
    <3>2. [request[r].info EXCEPT !.refreshCount = @ + 1].key = storage[request[r].session].key
      BY <2>3, <2>5 DEF ApiError, CertInfo
    <3> QED
      BY <1>1, <2>1, <3>1, <3>2 DEF StorageTyped
  <2>6. CASE ScheduleNext(r) \/ FinishRequest(r)
    BY <2>6 DEF ScheduleNext, FinishRequest
  <2> QED
    BY <1>10, <2>2, <2>4, <2>5, <2>6 DEF RequestStep
<1> QED
  BY <1>6, <1>7, <1>8, <1>9, <1>10 DEF Next

\* A key that was replaced or cleared never comes back to the storage.
THEOREM KeysAdvance == Spec => KeysOnlyAdvance
<1>1. IInv /\ [Next]_vars => [\A s \in Sessions : storage'[s].key \in {0, storage[s].key, lastKey + 1}]_vars
  BY NextKeys
<1> QED
  BY <1>1, Invariance, PTL DEF Spec, KeysOnlyAdvance
=============================================================================
