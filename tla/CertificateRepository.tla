----------------------- MODULE CertificateRepository -----------------------
(***************************************************************************)
(* The client certificate of a VPN session: CertificateStorage and         *)
(* CertificateRepository (vpn/CertificateRepository.kt) with the worker    *)
(* that refreshes it (vpn/CertRefreshScheduler.kt).                        *)
(*                                                                         *)
(* Everything runs on the main thread (mainScope), so a step is what runs  *)
(* between two suspension points.  A certificate request is a coroutine    *)
(* (`async`) that suspends while it waits to be dispatched ("queued"), for *)
(* the API ("api"), for currentUser.sessionId() after the certificate is   *)
(* stored ("stored") and for the subscribers of currentCertUpdateFlow      *)
(* ("emit").  A request that is cancelled at one of these points executes  *)
(* nothing more.                                                           *)
(*                                                                         *)
(* Data: a key pair is the number of its generation (0: no key), a         *)
(* certificate the key it was issued for (0: none); expiresAt and          *)
(* refreshAt, which the code only compares with the clock, are the age of  *)
(* the stored certificate.                                                 *)
(***************************************************************************)
EXTENDS Naturals

CONSTANTS
    Sessions,           \* session ids
    Requests,           \* identities of the request coroutines
    NoSession,          \* no user is logged in
    NoRequest,          \* nothing registered in certRequests
    MAX_REFRESH_COUNT,  \* retries of a failing refresh, 4 in the code
    MaxKeys             \* bound on the number of keys generated

ASSUME NoneAssumption == NoSession \notin Sessions /\ NoRequest \notin Requests
ASSUME BoundAssumption == MAX_REFRESH_COUNT \in Nat /\ MaxKeys \in Nat

VARIABLES
    storage,        \* CertificateStorage: the CertInfo of every session
    age,            \* the stored certificate: "fresh", "due" (refreshAt has passed) or "expired"
    lastKey,        \* the last key that CertificateKeyProvider generated
    certRequests,   \* certRequests: the request registered for a session
    request,        \* the request coroutines
    current,        \* currentUser.sessionId()
    isInUse,        \* appInUseMonitor.isInUse
    scheduled,      \* the CertRefreshWorker is enqueued
    worker,         \* CertRefreshWorker: the request it awaits
    planChange      \* history: the request that a plan change asked for (PlanStates)

vars == <<storage, age, lastKey, certRequests, request, current, isInUse,
          scheduled, worker, planChange>>

\* The CertInfo of a session; key = 0 is `certificateStorage.get(sessionId) == null`.
CertInfo == [key : Nat, cert : Nat, refreshCount : 0 .. MAX_REFRESH_COUNT]
NoInfo == [key |-> 0, cert |-> 0, refreshCount |-> 0]

\* "pending": a plan change asks for a certificate; "dropped": the request
\* ended by itself before it called the API.
PlanStates == {"none", "pending", "dropped"}

\* A request coroutine: where it is suspended, its session, and `info`.
Idle == [pc |-> "idle", session |-> NoSession, info |-> NoInfo]
Coroutine == [pc : {"idle", "queued", "api", "stored", "emit"},
              session : Sessions \cup {NoSession},
              info : CertInfo]

TypeOK ==
    /\ storage \in [Sessions -> CertInfo]
    /\ age \in [Sessions -> {"fresh", "due", "expired"}]
    /\ lastKey \in Nat
    /\ certRequests \in [Sessions -> Requests \cup {NoRequest}]
    /\ request \in [Requests -> Coroutine]
    /\ current \in Sessions \cup {NoSession}
    /\ isInUse \in BOOLEAN
    /\ scheduled \in BOOLEAN
    /\ worker \in Requests \cup {NoRequest}
    /\ planChange \in [Sessions -> PlanStates]

Init ==
    /\ storage = [s \in Sessions |-> NoInfo]
    /\ age = [s \in Sessions |-> "fresh"]
    /\ lastKey = 0
    /\ certRequests = [s \in Sessions |-> NoRequest]
    /\ request = [r \in Requests |-> Idle]
    /\ current = NoSession
    /\ isInUse = FALSE
    /\ scheduled = FALSE
    /\ worker = NoRequest
    /\ planChange = [s \in Sessions |-> "none"]

-----------------------------------------------------------------------------
(***************************************************************************)
(* Helpers.  rq and reg are the coroutines and certRequests a step has     *)
(* reached so far: one step may cancel a request, generate a key and       *)
(* launch another request.                                                 *)
(***************************************************************************)

\* Mutant: the request is removed but not cancelled.
RemoveWithoutCancel(s, rq, reg) == rq

\* certRequests.remove(sessionId)?.cancel()
CancelRequest(s, rq, reg) ==
    IF reg[s] = NoRequest THEN rq ELSE [rq EXCEPT ![reg[s]] = Idle]
Unregister(s, reg) == [reg EXCEPT ![s] = NoRequest]

\* The worker that awaits a request returns when the request is over.
WorkerAfter(rq) ==
    IF worker \in Requests /\ rq[worker].pc = "idle" THEN NoRequest ELSE worker

\* Mutant: the certificate of the previous key is kept.
NewKeyOldCert(s) == [storage EXCEPT ![s].key = lastKey + 1]

\* keyProvider.generateCertInfo() stored for the session: no certificate yet.
NewKey(s) == [storage EXCEPT ![s] = [key |-> lastKey + 1, cert |-> 0, refreshCount |-> 0]]

NeedsUpdate(s) == storage[s].cert = 0 \/ age[s] # "fresh"

\* generateNewKey: the ongoing request is cancelled, the new key replaces the CertInfo.
GenerateNewKey(s) ==
    /\ lastKey < MaxKeys
    /\ lastKey' = lastKey + 1
    /\ storage' = NewKey(s)

\* updateCertificate: join the registered request or launch one.
UpdateCertificate(s, cancelOngoing, rq, reg) ==
    LET rq1  == IF cancelOngoing THEN CancelRequest(s, rq, reg) ELSE rq
        reg1 == IF cancelOngoing THEN Unregister(s, reg) ELSE reg
    IN  \/ /\ reg1[s] # NoRequest
           /\ request' = rq1
           /\ certRequests' = reg1
        \/ /\ reg1[s] = NoRequest
           /\ \E r \in Requests :
                 /\ request[r].pc = "idle"
                 /\ request' = [rq1 EXCEPT ![r] = [pc |-> "queued", session |-> s, info |-> NoInfo]]
                 /\ certRequests' = [reg1 EXCEPT ![s] = r]

\* getCertInfo, then updateCertificate if the CertInfo it found asks for it.
GetCertInfoAndUpdate(s, needed) ==
    \/ /\ storage[s].key = 0
       /\ GenerateNewKey(s)
       /\ UpdateCertificate(s, FALSE, CancelRequest(s, request, certRequests),
                            Unregister(s, certRequests))
    \/ /\ storage[s].key # 0
       /\ UNCHANGED <<storage, lastKey>>
       /\ IF needed THEN UpdateCertificate(s, FALSE, request, certRequests)
                    ELSE UNCHANGED <<request, certRequests>>

-----------------------------------------------------------------------------
(***************************************************************************)
(* What the rest of the application asks of the repository.                *)
(***************************************************************************)

\* updateCertificateIfNeeded: called when the network is back and by the TV screen.
UpdateCertificateIfNeeded ==
    /\ current # NoSession
    /\ GetCertInfoAndUpdate(current, NeedsUpdate(current))
    /\ worker' = WorkerAfter(request')
    /\ UNCHANGED <<age, current, isInUse, scheduled, planChange>>

\* CertRefreshWorker.doWork: fails without network, otherwise updates and waits for the result.
RunWorker ==
    /\ scheduled
    /\ worker \notin Requests
    /\ scheduled' = FALSE
    /\ \/ /\ worker' = NoRequest    \* no network, or no session
          /\ UNCHANGED <<storage, lastKey, request, certRequests>>
       \/ /\ current # NoSession
          /\ GetCertInfoAndUpdate(current, NeedsUpdate(current))
          /\ worker' = IF storage[current].key = 0 \/ NeedsUpdate(current)
                       THEN certRequests'[current] ELSE NoRequest
    /\ UNCHANGED <<age, current, isInUse, planChange>>

\* onAppInUse: refresh now, or make sure that the refresh is scheduled.
OnAppInUse ==
    /\ isInUse
    /\ current # NoSession
    /\ GetCertInfoAndUpdate(current, NeedsUpdate(current))
    /\ scheduled' = (scheduled \/ (storage[current].key # 0 /\ ~NeedsUpdate(current)))
    /\ worker' = WorkerAfter(request')
    /\ UNCHANGED <<age, current, isInUse, planChange>>

\* getCertificate: the stored certificate unless there is none or it has expired.
GetCertificate(s) ==
    /\ GetCertInfoAndUpdate(s, storage[s].cert = 0 \/ age[s] = "expired")
    /\ worker' = WorkerAfter(request')
    /\ UNCHANGED <<age, current, isInUse, scheduled, planChange>>

\* getCertificateWithoutRefresh and getX25519Key: at most a new key.
GetCertificateWithoutRefresh(s) ==
    /\ storage[s].key = 0
    /\ GenerateNewKey(s)
    /\ request' = CancelRequest(s, request, certRequests)
    /\ certRequests' = Unregister(s, certRequests)
    /\ worker' = WorkerAfter(request')
    /\ UNCHANGED <<age, current, isInUse, scheduled, planChange>>

\* A new key and its certificate: VpnLogin (cancelOngoing = false) and
\* VpnBackend.revokeCertificateAndReconnect (cancelOngoing = true).
RenewKey(s, cancelOngoing) ==
    /\ GenerateNewKey(s)
    /\ UpdateCertificate(s, cancelOngoing, CancelRequest(s, request, certRequests),
                         Unregister(s, certRequests))
    /\ worker' = WorkerAfter(request')
    /\ UNCHANGED <<age, current, isInUse, scheduled, planChange>>

\* VpnBackend.reconnectLocalAgent: a certificate for the key that is stored, if any.
RefreshCertificate ==
    /\ current # NoSession
    /\ UpdateCertificate(current, FALSE, request, certRequests)
    /\ UNCHANGED <<storage, age, lastKey, current, isInUse, scheduled, worker, planChange>>

\* The collector of infoChangeFlow: clear(sessionId), then updateCertificate(sessionId, true).
PlanChange ==
    /\ current # NoSession
    /\ storage' = [storage EXCEPT ![current] = NoInfo]
    /\ UpdateCertificate(current, TRUE, CancelRequest(current, request, certRequests),
                         Unregister(current, certRequests))
    /\ planChange' = [planChange EXCEPT ![current] = "pending"]
    /\ worker' = WorkerAfter(request')
    /\ UNCHANGED <<age, lastKey, current, isInUse, scheduled>>

\* OnSessionClosed: the account is removed first, the session's CertInfo cleared afterwards.
RemoveAccount ==
    /\ current # NoSession
    /\ current' = NoSession
    /\ planChange' = [planChange EXCEPT ![current] = "none"]
    /\ UNCHANGED <<storage, age, lastKey, certRequests, request, isInUse, scheduled, worker>>

Clear(s) ==
    /\ s # current
    /\ storage' = [storage EXCEPT ![s] = NoInfo]
    /\ request' = CancelRequest(s, request, certRequests)
    /\ certRequests' = Unregister(s, certRequests)
    /\ worker' = WorkerAfter(request')
    /\ UNCHANGED <<age, lastKey, current, isInUse, scheduled, planChange>>

-----------------------------------------------------------------------------
(***************************************************************************)
(* A request: updateCertificateInternal and what updateCertificate does    *)
(* when it ends.                                                           *)
(***************************************************************************)

\* Mutant: the finished request stays registered.
EndWithoutUnregister(r) ==
    /\ request' = [request EXCEPT ![r] = Idle]
    /\ worker' = WorkerAfter(request')
    /\ UNCHANGED certRequests

\* `.apply { certRequests.remove(sessionId) }`: whatever is registered then.
EndRequest(r) ==
    /\ request' = [request EXCEPT ![r] = Idle]
    /\ certRequests' = Unregister(request[r].session, certRequests)
    /\ worker' = WorkerAfter(request')

\* The request is dispatched: getCertInfo, then the call of the API.  When
\* there is no CertInfo, getCertInfo generates a key, and generateNewKey
\* cancels the registered request.  If that is the very request that asks for
\* the key, it ends there: the call is not made.
SendRequest(r) ==
    LET s       == request[r].session
        rq      == CancelRequest(s, request, certRequests)
        Send(q) == [q EXCEPT ![r].pc = "api", ![r].info = storage'[s]]
    IN
    /\ request[r].pc = "queued"
    /\ \/ /\ storage[s].key # 0
          /\ UNCHANGED <<storage, lastKey, certRequests>>
          /\ request' = Send(request)
       \/ /\ storage[s].key = 0
          /\ GenerateNewKey(s)
          /\ certRequests' = Unregister(s, certRequests)
          /\ request' = IF rq[r].pc = "idle" THEN rq ELSE Send(rq)
    /\ planChange' = [planChange EXCEPT ![s] =
                      IF request'[r].pc = "api" THEN "none"
                      ELSE IF @ = "pending" THEN "dropped" ELSE @]
    /\ worker' = WorkerAfter(request')
    /\ UNCHANGED <<age, current, isInUse, scheduled>>

\* ApiResult.Success: the certificate is stored with the key it was requested for.
ApiSuccess(r) ==
    LET s == request[r].session IN
    /\ request[r].pc = "api"
    /\ storage' = [storage EXCEPT ![s] = [key |-> request[r].info.key,
                                          cert |-> request[r].info.key,
                                          refreshCount |-> 0]]
    /\ age' = [age EXCEPT ![s] = "fresh"]
    /\ request' = [request EXCEPT ![r].pc = "stored"]
    /\ UNCHANGED <<lastKey, certRequests, current, isInUse, scheduled, worker, planChange>>

\* The next refresh is scheduled for the current session of an application in use.
ScheduleNext(r) ==
    /\ request[r].pc = "stored"
    /\ scheduled' = (scheduled \/ (request[r].session = current /\ isInUse))
    /\ request' = [request EXCEPT ![r].pc = "emit"]
    /\ UNCHANGED <<storage, age, lastKey, certRequests, current, isInUse, worker, planChange>>

\* currentCertUpdateFlow has emitted the result (if the session is current).
FinishRequest(r) ==
    /\ request[r].pc = "emit"
    /\ EndRequest(r)
    /\ UNCHANGED <<storage, age, lastKey, current, isInUse, scheduled, planChange>>

\* Mutant: one retry too many.
RetryOnceMore(info) == info.refreshCount <= MAX_REFRESH_COUNT /\ isInUse

\* handleRefreshError gives up after MAX_REFRESH_COUNT retries or when nobody uses the application.
ShouldRetry(info) == info.refreshCount < MAX_REFRESH_COUNT /\ isInUse

\* ApiResult.Error: handleRefreshError counts the retry and schedules it.
ApiError(r) ==
    LET s    == request[r].session
        info == request[r].info
    IN
    /\ request[r].pc = "api"
    /\ storage' = IF ShouldRetry(info)
                  THEN [storage EXCEPT ![s] = [info EXCEPT !.refreshCount = @ + 1]]
                  ELSE storage
    /\ scheduled' = (scheduled \/ ShouldRetry(info))
    /\ EndRequest(r)
    /\ UNCHANGED <<age, lastKey, current, isInUse, planChange>>

-----------------------------------------------------------------------------
(***************************************************************************)
(* The environment: time, the user, the application's visibility.          *)
(***************************************************************************)

TimePasses(s) ==
    /\ storage[s].cert # 0
    /\ age[s] # "expired"
    /\ age' = [age EXCEPT ![s] = IF @ = "fresh" THEN "due" ELSE "expired"]
    /\ UNCHANGED <<storage, lastKey, certRequests, request, current, isInUse,
                   scheduled, worker, planChange>>

SetInUse ==
    /\ isInUse' = ~isInUse
    /\ UNCHANGED <<storage, age, lastKey, certRequests, request, current,
                   scheduled, worker, planChange>>

Login(s) ==
    /\ current = NoSession
    /\ current' = s
    /\ UNCHANGED <<storage, age, lastKey, certRequests, request, isInUse,
                   scheduled, worker, planChange>>

\* The process dies and starts again: preferences and WorkManager's queue survive.
ProcessRestart ==
    /\ certRequests' = [s \in Sessions |-> NoRequest]
    /\ request' = [r \in Requests |-> Idle]
    /\ isInUse' = FALSE
    /\ worker' = NoRequest
    /\ planChange' = [s \in Sessions |-> "none"]
    /\ UNCHANGED <<storage, age, lastKey, current, scheduled>>

RequestStep(r) == SendRequest(r) \/ ApiSuccess(r) \/ ApiError(r) \/ ScheduleNext(r) \/ FinishRequest(r)

Next ==
    \/ UpdateCertificateIfNeeded
    \/ RunWorker
    \/ OnAppInUse
    \/ RefreshCertificate
    \/ PlanChange
    \/ RemoveAccount
    \/ SetInUse
    \/ ProcessRestart
    \/ \E s \in Sessions :
          \/ GetCertificate(s)
          \/ GetCertificateWithoutRefresh(s)
          \/ \E cancelOngoing \in BOOLEAN : RenewKey(s, cancelOngoing)
          \/ Clear(s)
          \/ TimePasses(s)
          \/ Login(s)
    \/ \E r \in Requests : RequestStep(r)

Spec == Init /\ [][Next]_vars

-----------------------------------------------------------------------------
(***************************************************************************)
(* Properties                                                              *)
(***************************************************************************)

\* The stored certificate was issued for the stored key, whatever key
\* generations, cancellations and late answers of the API came in between:
\* the local agent would refuse any other pair.
CertMatchesKey ==
    \A s \in Sessions : storage[s].cert \in {0, storage[s].key}

\* certRequests and the coroutines agree: a running request is the one that is
\* registered for its session (so that a session never has two of them) and a
\* registered one is running (so that nobody awaits a request that is gone).
RequestRegistered ==
    /\ \A r \in Requests : request[r].pc # "idle" => certRequests[request[r].session] = r
    /\ \A s \in Sessions : certRequests[s] # NoRequest =>
          request[certRequests[s]].pc # "idle" /\ request[certRequests[s]].session = s

\* A request that waits for the API was sent with the CertInfo that is still
\* stored: its answer never brings back a key that was replaced meanwhile.
AnswerIsCurrent ==
    \A r \in Requests : request[r].pc = "api" => storage[request[r].session] = request[r].info

\* A key that was replaced or cleared never comes back to the storage.
KeysOnlyAdvance ==
    [][\A s \in Sessions : storage'[s].key \in {0, storage[s].key, lastKey + 1}]_vars

\* CertificateRefreshTests.kt, "certificateRepository_refreshes_valid_certificate_
\* when_plan_changes": the request that a plan change launches calls the API (unless
\* another operation cancels it); it does not end by itself before that.
PlanChangeRefreshes == \A s \in Sessions : planChange[s] # "dropped"

\* CertRefreshScheduler.kt:80: "CertificateRepository will schedule another
\* refresh itself, also in case of failure."  Stated for an application in use.
\* The code does not keep this (README, section 6).
WorkerReschedules ==
    [][\A r \in Requests : ApiError(r) /\ worker = r /\ isInUse => scheduled']_vars
=============================================================================
