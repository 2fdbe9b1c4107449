------------------------- MODULE VpnBackend_proofs -------------------------
(***************************************************************************)
(* What is shown, whom a disconnect beats, which agents are lost and which *)
(* key is in use, for any number of coroutines, commands and events.       *)
(*                                                                         *)
(* Most operators of VpnBackend map a backend to a backend, so most lemmas *)
(* say what such an operator keeps of Sound, of what is shown and of the   *)
(* coroutines of commands (Kept, KeptBut).  The invariant follows them.    *)
(***************************************************************************)
EXTENDS VpnBackend, TLAPS

\* What each kind of coroutine may be doing.
Fits(kind, phase) ==
    /\ phase = "ended" => kind = "none"
    /\ phase = "ready" => kind \in {"connect", "disconnect", "reconnect", "fail"}
    /\ phase = "session" => kind \in {"agent", "expired", "unknownCA", "revoked"}
    /\ phase \in {"await", "got", "refused"} => kind \in {"agent", "unknownCA", "revoked"}
    /\ phase = "yield" => kind = "revoked"
    /\ phase \in {"run", "delay"} => kind \in {"connect", "disconnect", "reconnect", "revoked"}
    /\ phase = "down" => kind \in {"connect", "disconnect", "reconnect", "revoked", "fail"}
    /\ phase = "prepare" => kind = "connect"
    /\ phase = "up" => kind \in {"connect", "reconnect", "revoked"}

Consistent(job) == Fits(job.kind, job.phase)

\* The three queues: the main thread's, the delays and wireGuardIo.
Queues(s) ==
    /\ Waiting(s.ready, s.jobs, {"ready"})
    /\ Waiting(s.delays, s.jobs, {"delay"})
    /\ Waiting(s.wireGuardIo, s.jobs, {"down", "up"})

\* The fields that hold a job hold one of the right kind, or one that has ended.
Pointers(s) ==
    /\ s.agentConnectionJob # 0 => s.jobs[s.agentConnectionJob].kind \in {"none", "agent"}
    /\ s.reconnectionJob # 0 =>
            s.jobs[s.reconnectionJob].kind \in {"none", "expired", "unknownCA", "revoked"}

\* The backend knows the connection job that may still create an agent, and only a
\* cancelled one can create an agent beside another, unless late.
Tracked(s) ==
    /\ ~s.late =>
            /\ \A i \in Job : s.jobs[i].kind = "agent" /\ ~s.jobs[i].cancelled => i = s.agentConnectionJob
            /\ s.agent # "null" => \A i \in Job : s.jobs[i].kind = "agent" => s.jobs[i].cancelled
    /\ s.strays > 0 => s.late

\* What every operator on the backend keeps.
Sound(s) ==
    /\ s \in BackendRecord
    /\ Queues(s)
    /\ \A i \in Job : Consistent(s.jobs[i])
    /\ Pointers(s)
    /\ Tracked(s)

CommandKinds == {"connect", "disconnect", "reconnect", "fail"}

\* The coroutine waits in no queue.
Unqueued(s, i) ==
    /\ \A k \in DOMAIN s.ready : s.ready[k] # i
    /\ \A k \in DOMAIN s.delays : s.delays[k] # i
    /\ \A k \in DOMAIN s.wireGuardIo : s.wireGuardIo[k] # i

\* What t keeps of s: the coroutines of commands, the one that runs, and the
\* order in which the main thread comes to them.
Kept(s, t) ==
    /\ t.ready = s.ready
    /\ \A i \in Job : s.jobs[i].kind \in CommandKinds \/ t.jobs[i].kind \in CommandKinds
                        => /\ t.jobs[i].kind = s.jobs[i].kind
                           /\ t.jobs[i].phase = s.jobs[i].phase
                           /\ t.jobs[i].cancelled = s.jobs[i].cancelled
    /\ \A i \in Job : s.jobs[i].phase = "run" \/ t.jobs[i].phase = "run"
                        => /\ t.jobs[i].phase = s.jobs[i].phase
                           /\ t.jobs[i].kind = s.jobs[i].kind

\* The fields that belong to the local agent.
SameAgent(s, t) ==
    /\ t.agent = s.agent /\ t.strays = s.strays /\ t.late = s.late
    /\ t.agentConnectionJob = s.agentConnectionJob
    /\ t.reconnectionJob = s.reconnectionJob

\* The fields that are shown or decide what is shown.
SameShown(s, t) ==
    /\ t.vpnProtocolState = s.vpnProtocolState
    /\ t.selfState = s.selfState
    /\ t.posted = s.posted

\* A place for a coroutine that holds none.
LEMMA NoJobTyped == NoJob \in JobRecord /\ NoJob.phase = "ended" /\ NoJob.kind = "none" /\ ~NoJob.cancelled
BY DEF NoJob, JobAt, JobRecord

\* What is left of a queue.
LEMMA WithoutProperties ==
    ASSUME NEW queue \in Seq(Job), \A k, l \in DOMAIN queue : queue[k] = queue[l] => k = l, NEW i
    PROVE  /\ Without(queue, i) \in Seq(Job)
           /\ \A k \in DOMAIN Without(queue, i) :
                 \E m \in DOMAIN queue : Without(queue, i)[k] = queue[m] /\ queue[m] # i
           /\ \A k, l \in DOMAIN Without(queue, i) : Without(queue, i)[k] = Without(queue, i)[l] => k = l
<1>1. CASE ~ \E k \in DOMAIN queue : queue[k] = i
  BY <1>1 DEF Without
<1>2. CASE \E k \in DOMAIN queue : queue[k] = i
  <2> DEFINE place == CHOOSE k \in DOMAIN queue : queue[k] = i
             result == [k \in 1..Len(queue) - 1 |-> IF k < place THEN queue[k] ELSE queue[k + 1]]
  <2>1. place \in 1..Len(queue) /\ queue[place] = i
    BY <1>2
  <2>2. Without(queue, i) = result
    BY <1>2 DEF Without
  <2> HIDE DEF place
  <2>3. \A k \in 1..Len(queue) - 1 :
          \E m \in 1..Len(queue) : result[k] = queue[m] /\ m # place /\ (k < place => m = k) /\ (~(k < place) => m = k + 1)
    <3> SUFFICES ASSUME NEW k \in 1..Len(queue) - 1
                 PROVE \E m \in 1..Len(queue) : result[k] = queue[m] /\ m # place /\ (k < place => m = k) /\ (~(k < place) => m = k + 1)
      OBVIOUS
    <3>1. CASE k < place
      <4>1. result[k] = queue[k] /\ k \in 1..Len(queue) /\ k # place
        BY <2>1, <3>1
      <4> QED BY <3>1, <4>1
    <3>2. CASE ~(k < place)
      <4>1. result[k] = queue[k + 1] /\ k + 1 \in 1..Len(queue) /\ k + 1 # place
        BY <2>1, <3>2
      <4> QED BY <3>2, <4>1
    <3> QED BY <3>1, <3>2
  <2>4. result \in Seq(Job) /\ DOMAIN result = 1..Len(queue) - 1
    <3>1. Len(queue) - 1 \in Nat
      BY <2>1
    <3>2. \A k \in 1..Len(queue) - 1 : result[k] \in Job
      BY <2>3
    <3>3. result \in [1..Len(queue) - 1 -> Job]
      BY <3>2
    <3> QED BY <3>1, <3>3
  <2> HIDE DEF result
  <2>5. \A k, l \in 1..Len(queue) - 1 : result[k] = result[l] => k = l
    <3> SUFFICES ASSUME NEW k \in 1..Len(queue) - 1, NEW l \in 1..Len(queue) - 1, result[k] = result[l]
                 PROVE  k = l
      OBVIOUS
    <3>1. PICK m \in 1..Len(queue) : result[k] = queue[m] /\ m # place /\ (k < place => m = k) /\ (~(k < place) => m = k + 1)
      BY <2>3
    <3>2. PICK n \in 1..Len(queue) : result[l] = queue[n] /\ n # place /\ (l < place => n = l) /\ (~(l < place) => n = l + 1)
      BY <2>3
    <3>3. m = n
      <4>1. queue[m] = queue[n]
        BY <3>1, <3>2
      <4>2. m \in DOMAIN queue /\ n \in DOMAIN queue
        OBVIOUS
      <4> QED BY <4>1, <4>2
    <3>4. CASE k < place
      BY <2>1, <3>1, <3>2, <3>3, <3>4
    <3>5. CASE ~(k < place)
      BY <2>1, <3>1, <3>2, <3>3, <3>5
    <3> QED BY <3>4, <3>5
  <2>6. \A m \in 1..Len(queue) : m # place => queue[m] # i
    BY <2>1
  <2> QED BY <2>2, <2>3, <2>4, <2>5, <2>6
<1> QED BY <1>1, <1>2

\* What is left of a queue when its first element was taken.
LEMMA TailProperties ==
    ASSUME NEW queue \in Seq(Job), queue # <<>>,
           \A k, l \in DOMAIN queue : queue[k] = queue[l] => k = l
    PROVE  /\ Tail(queue) \in Seq(Job) /\ Head(queue) \in Job
           /\ \A k \in DOMAIN Tail(queue) :
                 /\ k + 1 \in DOMAIN queue /\ Tail(queue)[k] = queue[k + 1]
                 /\ queue[k + 1] # Head(queue)
           /\ \A k, l \in DOMAIN Tail(queue) : Tail(queue)[k] = Tail(queue)[l] => k = l
           /\ 1 \in DOMAIN queue /\ Head(queue) = queue[1]
<1>1. Tail(queue) \in Seq(Job) /\ Head(queue) \in Job /\ Head(queue) = queue[1]
  OBVIOUS
<1>2. 1 \in DOMAIN queue
  OBVIOUS
<1>3. \A k \in DOMAIN Tail(queue) : k + 1 \in DOMAIN queue /\ Tail(queue)[k] = queue[k + 1] /\ k + 1 # 1 /\ k \in Nat
  OBVIOUS
<1>4. \A k \in DOMAIN Tail(queue) : queue[k + 1] # Head(queue)
  BY <1>1, <1>2, <1>3
<1>5. ASSUME NEW k \in DOMAIN Tail(queue), NEW l \in DOMAIN Tail(queue), Tail(queue)[k] = Tail(queue)[l]
      PROVE  k = l
  <2>1. k + 1 = l + 1
    BY <1>3, <1>5
  <2> QED BY <1>3, <2>1
<1> QED BY <1>1, <1>2, <1>3, <1>4, <1>5

\* A queue with one more element.
LEMMA AppendProperties ==
    ASSUME NEW queue \in Seq(Job), NEW i \in Job
    PROVE  /\ Append(queue, i) \in Seq(Job)
           /\ DOMAIN Append(queue, i) = 1..Len(queue) + 1
           /\ DOMAIN queue = 1..Len(queue) /\ Len(queue) \in Nat
           /\ \A k \in DOMAIN queue : Append(queue, i)[k] = queue[k]
           /\ Append(queue, i)[Len(queue) + 1] = i
OBVIOUS

\* A coroutine that waits nowhere may begin to wait.
LEMMA WaitingAppended ==
    ASSUME NEW queue \in Seq(Job), NEW i \in Job, NEW jobs, NEW phases,
           Waiting(queue, jobs, phases), jobs[i].phase \in phases,
           \A k \in DOMAIN queue : queue[k] # i
    PROVE  Waiting(Append(queue, i), jobs, phases)
<1> DEFINE longer == Append(queue, i)
<1>1. \A k \in DOMAIN longer : (k \in DOMAIN queue /\ longer[k] = queue[k]) \/ (k = Len(queue) + 1 /\ longer[k] = i)
  BY AppendProperties
<1> HIDE DEF longer
<1>2. Waiting(longer, jobs, phases)
  BY <1>1 DEF Waiting
<1> QED BY <1>2 DEF longer

\* A coroutine that ends leaves every queue and disturbs nothing else.
LEMMA Ending ==
    ASSUME NEW s, Sound(s), NEW i \in Job
    PROVE  /\ Sound(End(s, i))
           /\ End(s, i).jobs = [s.jobs EXCEPT ![i] = NoJob]
           /\ (\A k \in DOMAIN s.ready : s.ready[k] # i) => End(s, i).ready = s.ready
           /\ SameShown(s, End(s, i)) /\ SameAgent(s, End(s, i))
           /\ Free(s) \subseteq Free(End(s, i))
           /\ End(s, i).ready = Without(s.ready, i)
           /\ \A j \in Job : Unqueued(s, j) => Unqueued(End(s, i), j)
<1> DEFINE t == End(s, i)
<1>1. /\ s.jobs \in [Job -> JobRecord] /\ s.ready \in Seq(Job) /\ s.delays \in Seq(Job)
      /\ s.wireGuardIo \in Seq(Job)
  BY DEF Sound, BackendRecord
<1>2. /\ t.jobs = [s.jobs EXCEPT ![i] = NoJob] /\ t.ready = Without(s.ready, i)
      /\ t.delays = Without(s.delays, i) /\ t.wireGuardIo = Without(s.wireGuardIo, i)
      /\ t.agentConnectionJob = s.agentConnectionJob /\ t.reconnectionJob = s.reconnectionJob
  BY DEF End, Sound, BackendRecord
<1>3. t.jobs \in [Job -> JobRecord]
  BY <1>1, <1>2, NoJobTyped
<1>4. /\ t.ready \in Seq(Job) /\ t.delays \in Seq(Job) /\ t.wireGuardIo \in Seq(Job)
  <2>1. ASSUME NEW q \in Seq(Job), NEW phases, Waiting(q, s.jobs, phases)
        PROVE  Without(q, i) \in Seq(Job)
    BY <2>1, WithoutProperties DEF Waiting
  <2> QED BY <1>1, <1>2, <2>1 DEF Sound, Queues
<1>5. t \in BackendRecord
  BY <1>2, <1>3, <1>4 DEF End, Sound, BackendRecord
<1>6. ASSUME NEW q \in Seq(Job), NEW phases, Waiting(q, s.jobs, phases)
      PROVE  Waiting(Without(q, i), t.jobs, phases)
  <2>1. \A j \in Job : j # i => t.jobs[j] = s.jobs[j]
    BY <1>1, <1>2
  <2>2. \A k \in DOMAIN Without(q, i) : \E m \in DOMAIN q : Without(q, i)[k] = q[m] /\ q[m] # i
    BY <1>6, WithoutProperties DEF Waiting
  <2>3. \A k, l \in DOMAIN Without(q, i) : Without(q, i)[k] = Without(q, i)[l] => k = l
    BY <1>6, WithoutProperties DEF Waiting
  <2>4. \A m \in DOMAIN q : q[m] \in Job /\ s.jobs[q[m]].phase \in phases
    BY <1>6 DEF Waiting
  <2> QED BY <2>1, <2>2, <2>3, <2>4 DEF Waiting
<1>7. Queues(t)
  BY <1>1, <1>2, <1>6 DEF Sound, Queues
<1>8. \A j \in Job : Consistent(t.jobs[j])
  <2> SUFFICES ASSUME NEW j \in Job PROVE Consistent(t.jobs[j])
    OBVIOUS
  <2>1. CASE j = i
    BY <1>1, <1>2, <2>1, NoJobTyped DEF Consistent, Fits
  <2>2. CASE j # i
    BY <1>1, <1>2, <2>2 DEF Sound
  <2> QED BY <2>1, <2>2
<1>9. Pointers(t)
  BY <1>1, <1>2, NoJobTyped DEF Pointers, Sound, BackendRecord
<1>11. Tracked(t)
  <2>1. t.agent = s.agent /\ t.late = s.late /\ t.strays = s.strays
    BY DEF End, Sound, BackendRecord
  <2>2. \A j \in Job : t.jobs[j].kind = "agent" => j # i /\ t.jobs[j] = s.jobs[j]
    BY <1>1, <1>2, NoJobTyped
  <2> QED BY <1>2, <2>1, <2>2 DEF Tracked, Sound
<1>10. (\A k \in DOMAIN s.ready : s.ready[k] # i) => t.ready = s.ready
  BY <1>2 DEF Without
<1>12. SameShown(s, t) /\ SameAgent(s, t)
  BY DEF End, Sound, BackendRecord, SameShown, SameAgent
<1>13. Free(s) \subseteq Free(t)
  BY <1>1, <1>2, NoJobTyped DEF Free
<1>14. \A j \in Job : Unqueued(s, j) => Unqueued(t, j)
  <2>1. ASSUME NEW q \in Seq(Job), NEW phases, Waiting(q, s.jobs, phases), NEW j \in Job,
               \A k \in DOMAIN q : q[k] # j
        PROVE  \A k \in DOMAIN Without(q, i) : Without(q, i)[k] # j
    <3>1. \A k \in DOMAIN Without(q, i) : \E m \in DOMAIN q : Without(q, i)[k] = q[m] /\ q[m] # i
      BY <2>1, WithoutProperties DEF Waiting
    <3> QED BY <2>1, <3>1
  <2>2. /\ Waiting(s.ready, s.jobs, {"ready"}) /\ Waiting(s.delays, s.jobs, {"delay"})
        /\ Waiting(s.wireGuardIo, s.jobs, {"down", "up"})
    BY DEF Sound, Queues
  <2> SUFFICES ASSUME NEW j \in Job, Unqueued(s, j) PROVE Unqueued(t, j)
    OBVIOUS
  <2> HIDE DEF t
  <2>3. \A k \in DOMAIN t.ready : t.ready[k] # j
    BY <1>1, <1>2, <2>1, <2>2 DEF Unqueued
  <2>4. \A k \in DOMAIN t.delays : t.delays[k] # j
    BY <1>1, <1>2, <2>1, <2>2 DEF Unqueued
  <2>5. \A k \in DOMAIN t.wireGuardIo : t.wireGuardIo[k] # j
    BY <1>1, <1>2, <2>1, <2>2 DEF Unqueued
  <2> QED BY <2>3, <2>4, <2>5 DEF Unqueued
<1> QED BY <1>2, <1>5, <1>7, <1>8, <1>9, <1>10, <1>11, <1>12, <1>13, <1>14 DEF Sound

\* A cancelled coroutine, and only that one, ends or is marked.
LEMMA Cancelling ==
    ASSUME NEW s, Sound(s), NEW i \in Job \cup {0}
    PROVE  /\ Sound(Cancel(s, i))
           /\ SameShown(s, Cancel(s, i)) /\ SameAgent(s, Cancel(s, i))
           /\ Free(s) \subseteq Free(Cancel(s, i))
           /\ \A j \in Job : j # i => Cancel(s, i).jobs[j] = s.jobs[j]
           /\ i # 0 => \/ Cancel(s, i).jobs[i].phase = "ended" /\ Cancel(s, i).jobs[i].kind = "none"
                      \/ /\ Cancel(s, i).jobs[i] = [s.jobs[i] EXCEPT !.cancelled = TRUE]
                         /\ s.jobs[i].phase \in {"await", "got", "refused", "run"}
           /\ (i # 0 => s.jobs[i].kind \notin CommandKinds) => Kept(s, Cancel(s, i))
           /\ Cancel(s, i).ready \in {s.ready, Without(s.ready, i)}
           /\ \A j \in Job : Unqueued(s, j) => Unqueued(Cancel(s, i), j)
<1> DEFINE t == Cancel(s, i)
<1>1. CASE i = 0 \/ s.jobs[i].phase = "ended"
  <2>1. t = s
    BY <1>1 DEF Cancel
  <2>2. i # 0 => s.jobs[i].phase = "ended"
    BY <1>1
  <2>3. Consistent(s.jobs[i]) \/ i = 0
    BY DEF Sound
  <2>4. i # 0 => s.jobs[i].kind = "none"
    BY <2>2, <2>3 DEF Consistent, Fits
  <2> QED BY <2>1, <2>2, <2>4 DEF SameShown, SameAgent, Kept
<1>2. CASE i \in Job /\ s.jobs[i].phase \in {"await", "got", "refused", "run"}
  <2> USE <1>2
  <2> DEFINE job == [s.jobs[i] EXCEPT !.cancelled = TRUE]
  <2>1. t = [s EXCEPT !.jobs[i].cancelled = TRUE]
    BY DEF Cancel, Job
  <2>2. s.jobs \in [Job -> JobRecord] /\ s.jobs[i] \in JobRecord
    BY DEF Sound, BackendRecord
  <2>3. job \in JobRecord /\ job.kind = s.jobs[i].kind /\ job.phase = s.jobs[i].phase /\ job.cancelled
    BY <2>2 DEF JobRecord
  <2>4. t.jobs = [s.jobs EXCEPT ![i] = job]
    BY <2>1 DEF Sound, BackendRecord
  <2> HIDE DEF job
  <2>5. t.jobs \in [Job -> JobRecord] /\ t.jobs[i] = job /\ \A j \in Job : j # i => t.jobs[j] = s.jobs[j]
    BY <2>2, <2>3, <2>4
  <2>6. /\ SameShown(s, t) /\ SameAgent(s, t) /\ t.ready = s.ready
        /\ t.delays = s.delays /\ t.wireGuardIo = s.wireGuardIo
    BY <2>1 DEF Sound, BackendRecord, SameShown, SameAgent
  <2>7. t \in BackendRecord
    BY <2>1, <2>5 DEF Sound, BackendRecord
  <2>8. \A j \in Job : t.jobs[j].kind = s.jobs[j].kind /\ t.jobs[j].phase = s.jobs[j].phase
    BY <2>3, <2>5
  <2>9. Queues(t)
    <3>1. ASSUME NEW q \in Seq(Job), NEW phases, Waiting(q, s.jobs, phases)
          PROVE  Waiting(q, t.jobs, phases)
      <4>1. \A k \in DOMAIN q : q[k] \in Job
        OBVIOUS
      <4> QED BY <2>8, <3>1, <4>1 DEF Waiting
    <3> QED BY <2>6, <3>1 DEF Sound, Queues, BackendRecord
  <2>10. \A j \in Job : Consistent(t.jobs[j])
    BY <2>8 DEF Sound, Consistent, Fits
  <2>11. Pointers(t)
    BY <2>6, <2>8 DEF Sound, Pointers, SameAgent, BackendRecord
  <2>12. Tracked(t)
    <3>1. \A j \in Job : s.jobs[j].cancelled => t.jobs[j].cancelled
      BY <2>3, <2>5
    <3> QED BY <2>6, <2>8, <3>1 DEF Sound, Tracked, SameAgent
  <2>13. Free(s) \subseteq Free(t)
    BY <2>6, <2>8 DEF Free, SameAgent
  <2>14. s.jobs[i].kind \notin CommandKinds => Kept(s, t)
    BY <2>5, <2>6, <2>8, <2>3 DEF Kept
  <2>15. \A j \in Job : Unqueued(s, j) => Unqueued(t, j)
    BY <2>6 DEF Unqueued
  <2> QED BY <2>5, <2>6, <2>7, <2>9, <2>10, <2>11, <2>12, <2>13, <2>14, <2>15 DEF Sound, job, Job
<1>3. CASE i \in Job /\ s.jobs[i].phase \notin {"ended", "await", "got", "refused", "run"}
  <2> USE <1>3
  <2>1. t = End(s, i)
    BY DEF Cancel, Job
  <2>2. s.jobs \in [Job -> JobRecord]
    BY DEF Sound, BackendRecord
  <2>3. t.jobs[i] = NoJob /\ \A j \in Job : j # i => t.jobs[j] = s.jobs[j]
    <3>1. t.jobs = [s.jobs EXCEPT ![i] = NoJob]
      BY <2>1, Ending
    <3> QED BY <2>2, <3>1
  <2>4. s.jobs[i].kind \notin CommandKinds => Kept(s, t)
    <3> SUFFICES ASSUME s.jobs[i].kind \notin CommandKinds
                 PROVE  Kept(s, t)
      OBVIOUS
    <3>1. s.jobs[i].phase # "ready"
      BY DEF Sound, Consistent, Fits, CommandKinds
    <3>2. \A k \in DOMAIN s.ready : s.ready[k] # i
      BY <3>1 DEF Sound, Queues, Waiting
    <3>3. t.ready = s.ready
      BY <2>1, <3>2, Ending
    <3> QED BY <2>3, <3>3, NoJobTyped DEF Kept, CommandKinds
  <2>5. Sound(t) /\ SameShown(s, t) /\ SameAgent(s, t) /\ Free(s) \subseteq Free(t)
    <3> HIDE DEF t
    <3>1. /\ Sound(End(s, i)) /\ SameShown(s, End(s, i)) /\ SameAgent(s, End(s, i))
          /\ Free(s) \subseteq Free(End(s, i))
      BY Ending, Zenon
    <3> QED BY <2>1, <3>1
  <2>8. t.ready = Without(s.ready, i) /\ \A j \in Job : Unqueued(s, j) => Unqueued(t, j)
    <3> HIDE DEF t
    <3>1. /\ End(s, i).ready = Without(s.ready, i)
          /\ \A j \in Job : Unqueued(s, j) => Unqueued(End(s, i), j)
      BY Ending, Zenon
    <3> QED BY <2>1, <3>1
  <2>6. i # 0
    BY DEF Job
  <2>7. t.jobs[i].phase = "ended" /\ t.jobs[i].kind = "none"
    BY <2>3, NoJobTyped
  <2> QED BY <2>3, <2>4, <2>5, <2>6, <2>7, <2>8
<1> QED BY <1>1, <1>2, <1>3

\* What two steps keep each, they keep together.
LEMMA KeptTransitive ==
    ASSUME NEW r, NEW s, NEW t, Kept(r, s), Kept(s, t)
    PROVE  Kept(r, t)
BY DEF Kept

\* A closed agent leaves no connection job that would go on unnoticed.
LEMMA Closing ==
    ASSUME NEW s, Sound(s)
    PROVE  /\ Sound(CloseAgentConnection(s))
           /\ SameShown(s, CloseAgentConnection(s)) /\ Kept(s, CloseAgentConnection(s))
           /\ Free(s) \subseteq Free(CloseAgentConnection(s))
           /\ CloseAgentConnection(s).agent = "null"
<1> DEFINE t == CloseAgentConnection(s)
           u == Cancel(s, s.reconnectionJob)
           v == Cancel(u, s.agentConnectionJob)
<1>1. CASE ~(s.agent # "null" \/ s.agentConnectionJob # 0)
  <2>1. t = s /\ s.agent = "null"
    BY <1>1 DEF CloseAgentConnection
  <2> QED BY <2>1 DEF SameShown, Kept
<1>2. CASE s.agent # "null" \/ s.agentConnectionJob # 0
  <2>1. t = [v EXCEPT !.reconnectionJob = 0, !.agentConnectionJob = 0, !.agent = "null"]
    BY <1>2 DEF CloseAgentConnection
  <2>2. s.reconnectionJob \in Job \cup {0} /\ s.agentConnectionJob \in Job \cup {0}
    BY DEF Sound, BackendRecord
  <2>3. /\ Sound(u) /\ SameShown(s, u) /\ SameAgent(s, u) /\ Free(s) \subseteq Free(u)
    BY <2>2, Cancelling, Zenon
  <2>4. Kept(s, u)
    <3>1. s.reconnectionJob # 0 => s.jobs[s.reconnectionJob].kind \notin CommandKinds
      BY DEF Sound, Pointers, CommandKinds
    <3> QED BY <2>2, <3>1, Cancelling, Zenon
  <2> HIDE DEF u
  <2>5. /\ Sound(v) /\ SameShown(u, v) /\ SameAgent(u, v) /\ Free(u) \subseteq Free(v)
    BY <2>2, <2>3, Cancelling, Zenon
  <2>6. Kept(u, v)
    <3>1. s.agentConnectionJob # 0 => u.jobs[s.agentConnectionJob].kind \notin CommandKinds
      BY <2>3 DEF Sound, Pointers, CommandKinds, SameAgent
    <3> QED BY <2>2, <2>3, <3>1, Cancelling, Zenon
  <2>7. ~v.late => \A i \in Job : v.jobs[i].kind = "agent" => v.jobs[i].cancelled
    <3> SUFFICES ASSUME ~v.late, NEW i \in Job, v.jobs[i].kind = "agent", ~v.jobs[i].cancelled
                 PROVE  FALSE
      OBVIOUS
    <3>1. i = s.agentConnectionJob /\ i # 0
      BY <2>3, <2>5 DEF Sound, Tracked, SameAgent, Job
    <3>2. v.jobs[i].kind = "none" \/ v.jobs[i] = [u.jobs[i] EXCEPT !.cancelled = TRUE]
      <4> DEFINE w == Cancel(u, i)
      <4>1. i # 0 => \/ w.jobs[i].phase = "ended" /\ w.jobs[i].kind = "none"
                     \/ /\ w.jobs[i] = [u.jobs[i] EXCEPT !.cancelled = TRUE]
                        /\ u.jobs[i].phase \in {"await", "got", "refused", "run"}
        BY <2>3, Cancelling, Zenon
      <4>2. w = v
        BY <3>1
      <4> HIDE DEF w, v
      <4> QED BY <3>1, <4>1, <4>2
    <3>3. u.jobs[i] \in JobRecord
      BY <2>3 DEF Sound, BackendRecord
    <3> QED BY <3>2, <3>3 DEF JobRecord
  <2> HIDE DEF v
  <2>8. v \in BackendRecord
    BY <2>5 DEF Sound
  <2>9. /\ t.jobs = v.jobs /\ t.ready = v.ready /\ t.delays = v.delays /\ t.wireGuardIo = v.wireGuardIo
        /\ SameShown(v, t) /\ t.late = v.late /\ t.strays = v.strays
        /\ t.agent = "null" /\ t.agentConnectionJob = 0 /\ t.reconnectionJob = 0
    BY <2>1, <2>8 DEF BackendRecord, SameShown
  <2>10. t \in BackendRecord
    BY <2>1, <2>8 DEF BackendRecord
  <2>11. Tracked(t)
    BY <2>5, <2>7, <2>9 DEF Sound, Tracked
  <2>12. Sound(t)
    BY <2>5, <2>9, <2>10, <2>11 DEF Sound, Queues, Pointers
  <2>13. Free(v) \subseteq Free(t)
    BY <2>9 DEF Free, Job
  <2>14. Kept(v, t)
    BY <2>9 DEF Kept
  <2>15. Kept(s, t)
    BY <2>4, <2>6, <2>14, KeptTransitive
  <2>16. SameShown(s, t)
    BY <2>3, <2>5, <2>9 DEF SameShown
  <2> QED BY <2>3, <2>5, <2>9, <2>12, <2>13, <2>15, <2>16
<1> QED BY <1>1, <1>2

\* A change of one coroutine that waits in no queue disturbs no other.
LEMMA Updating ==
    ASSUME NEW s, Sound(s), NEW t \in BackendRecord, NEW i \in Job, Unqueued(s, i),
           t.ready = s.ready, t.delays = s.delays, t.wireGuardIo = s.wireGuardIo,
           \A j \in Job : j # i => t.jobs[j] = s.jobs[j], Consistent(t.jobs[i])
    PROVE  Queues(t) /\ \A j \in Job : Consistent(t.jobs[j])
<1>1. ASSUME NEW q \in Seq(Job), NEW phases, Waiting(q, s.jobs, phases),
             \A k \in DOMAIN q : q[k] # i
      PROVE  Waiting(q, t.jobs, phases)
  <2>1. \A k \in DOMAIN q : q[k] \in Job
    OBVIOUS
  <2> QED BY <1>1, <2>1 DEF Waiting
<1>2. Queues(t)
  BY <1>1 DEF Sound, Queues, BackendRecord, Unqueued
<1> QED BY <1>2 DEF Sound

\* A new coroutine gets a number that no coroutine, queue or field uses.
LEMMA FreeJob ==
    ASSUME NEW s, Sound(s), Free(s) # {}
    PROVE  /\ NextJob(s) \in Job
           /\ s.jobs[NextJob(s)].phase = "ended" /\ s.jobs[NextJob(s)].kind = "none"
           /\ NextJob(s) # s.agentConnectionJob /\ NextJob(s) # s.reconnectionJob
           /\ NextJob(s) # manager.ongoingConnect
           /\ Unqueued(s, NextJob(s))
<1>1. NextJob(s) \in Free(s)
  BY DEF NextJob
<1>2. /\ NextJob(s) \in Job /\ s.jobs[NextJob(s)].phase = "ended"
      /\ NextJob(s) # s.agentConnectionJob /\ NextJob(s) # s.reconnectionJob
      /\ NextJob(s) # manager.ongoingConnect
  BY <1>1 DEF Free
<1>3. s.jobs[NextJob(s)].kind = "none"
  BY <1>2 DEF Sound, Consistent, Fits
<1>4. Unqueued(s, NextJob(s))
  <2> HIDE DEF NextJob
  <2> QED BY <1>2 DEF Sound, Queues, Waiting, Unqueued
<1> QED BY <1>2, <1>3, <1>4

\* A coroutine is launched.
LEMMA Launched ==
    ASSUME NEW s, Sound(s), Free(s) # {},
           NEW kind \in {"agent", "expired", "unknownCA", "revoked"}
    PROVE  LET t == Launch(s, kind) IN
           /\ t \in BackendRecord /\ Queues(t) /\ \A i \in Job : Consistent(t.jobs[i])
           /\ t.jobs[NextJob(s)] = JobAt(kind, "session")
           /\ \A j \in Job : j # NextJob(s) => t.jobs[j] = s.jobs[j]
           /\ SameShown(s, t) /\ SameAgent(s, t) /\ Kept(s, t)
<1> DEFINE n == NextJob(s)
           t == Launch(s, kind)
<1>1. /\ n \in Job /\ s.jobs[n].phase = "ended" /\ s.jobs[n].kind = "none" /\ Unqueued(s, n)
  BY FreeJob, Zenon
<1>2. t = [s EXCEPT !.jobs[n] = JobAt(kind, "session")]
  BY DEF Launch
<1> HIDE DEF t, n
<1>3. s \in BackendRecord /\ s.jobs \in [Job -> JobRecord]
  BY DEF Sound, BackendRecord
<1>4. JobAt(kind, "session") \in JobRecord
  BY DEF JobAt, JobRecord
<1>5. t.jobs = [s.jobs EXCEPT ![n] = JobAt(kind, "session")]
  BY <1>2, <1>3 DEF BackendRecord
<1>6. t.jobs \in [Job -> JobRecord] /\ t.jobs[n] = JobAt(kind, "session") /\ \A j \in Job : j # n => t.jobs[j] = s.jobs[j]
  BY <1>1, <1>3, <1>4, <1>5
<1>7. t \in BackendRecord
  BY <1>2, <1>3, <1>6 DEF BackendRecord
<1>8. /\ t.ready = s.ready /\ t.delays = s.delays /\ t.wireGuardIo = s.wireGuardIo
      /\ SameShown(s, t) /\ SameAgent(s, t)
  BY <1>2, <1>3 DEF BackendRecord, SameShown, SameAgent
<1>9. Consistent(t.jobs[n])
  BY <1>6 DEF Consistent, Fits, JobAt
<1>10. Queues(t) /\ \A j \in Job : Consistent(t.jobs[j])
  BY <1>1, <1>6, <1>7, <1>8, <1>9, Updating
<1>11. Kept(s, t)
  BY <1>1, <1>6, <1>8 DEF Kept, CommandKinds, JobAt
<1> QED BY <1>6, <1>7, <1>8, <1>10, <1>11 DEF t, n

\* There is one connection job, and it is launched when there is no agent.
LEMMA AgentOpened ==
    ASSUME NEW s, Sound(s), Free(s) # {}
    PROVE  LET t == ConnectToLocalAgent(s) IN
           Sound(t) /\ SameShown(s, t) /\ Kept(s, t) /\ t.agent = s.agent
<1> DEFINE t == ConnectToLocalAgent(s)
           n == NextJob(s)
           u == Launch(s, "agent")
<1>1. CASE ~(s.agent = "null" /\ s.agentConnectionJob = 0)
  <2>1. t = s
    BY <1>1 DEF ConnectToLocalAgent
  <2> QED BY <2>1 DEF SameShown, Kept
<1>2. CASE s.agent = "null" /\ s.agentConnectionJob = 0
  <2>1. t = [u EXCEPT !.agentConnectionJob = n]
    BY <1>2 DEF ConnectToLocalAgent
  <2>2. n \in Job /\ n # s.reconnectionJob
    BY FreeJob, Zenon
  <2>3. /\ u \in BackendRecord /\ Queues(u) /\ \A i \in Job : Consistent(u.jobs[i])
        /\ u.jobs[n] = JobAt("agent", "session")
        /\ \A j \in Job : j # n => u.jobs[j] = s.jobs[j]
        /\ SameShown(s, u) /\ SameAgent(s, u) /\ Kept(s, u)
    BY Launched
  <2> HIDE DEF t, n, u
  <2>4. /\ t \in BackendRecord /\ t.jobs = u.jobs /\ t.ready = u.ready /\ t.delays = u.delays
        /\ t.wireGuardIo = u.wireGuardIo /\ SameShown(u, t) /\ t.agent = u.agent
        /\ t.late = u.late /\ t.strays = u.strays /\ t.reconnectionJob = u.reconnectionJob
        /\ t.agentConnectionJob = n
    BY <2>1, <2>2, <2>3 DEF BackendRecord, SameShown
  <2>5. Queues(t) /\ \A i \in Job : Consistent(t.jobs[i])
    BY <2>3, <2>4 DEF Queues
  <2>6. Pointers(t)
    <3>1. t.jobs[n].kind = "agent"
      BY <2>3, <2>4 DEF JobAt
    <3>2. s.reconnectionJob # 0 => t.jobs[s.reconnectionJob] = s.jobs[s.reconnectionJob]
      BY <2>2, <2>3, <2>4 DEF Sound, BackendRecord
    <3> QED BY <2>3, <2>4, <3>1, <3>2 DEF Pointers, Sound, SameAgent
  <2>7. Tracked(t)
    <3>1. ~s.late => \A i \in Job : s.jobs[i].kind = "agent" => s.jobs[i].cancelled
      BY <1>2 DEF Sound, Tracked, Job
    <3>2. t.agent = "null" /\ t.late = s.late /\ t.strays = s.strays
      BY <1>2, <2>3, <2>4 DEF SameAgent
    <3>3. \A i \in Job : i # n => t.jobs[i] = s.jobs[i]
      BY <2>3, <2>4
    <3> QED BY <2>4, <3>1, <3>2, <3>3 DEF Sound, Tracked
  <2>8. SameShown(s, t) /\ Kept(s, t) /\ t.agent = s.agent
    BY <2>3, <2>4 DEF SameShown, Kept, SameAgent
  <2> QED BY <2>4, <2>5, <2>6, <2>7, <2>8 DEF Sound, t
<1> QED BY <1>1, <1>2

\* The agent is closed and another coroutine will open it again.
LEMMA Reconnecting ==
    ASSUME NEW s, Sound(s), Free(s) # {}, NEW kind \in {"expired", "unknownCA", "revoked"}
    PROVE  LET t == LaunchReconnection(s, kind) IN
           /\ Sound(t) /\ Kept(s, t) /\ t.agent = "null" /\ t.posted = "Connecting"
           /\ t.vpnProtocolState = s.vpnProtocolState /\ t.selfState = s.selfState
<1> DEFINE c == CloseAgentConnection(s)
           d == [c EXCEPT !.posted = "Connecting"]
           n == NextJob(d)
           u == Launch(d, kind)
           t == LaunchReconnection(s, kind)
<1>1. t = [u EXCEPT !.reconnectionJob = n]
  BY DEF LaunchReconnection
<1>2. /\ Sound(c) /\ SameShown(s, c) /\ Kept(s, c) /\ Free(s) \subseteq Free(c) /\ c.agent = "null"
  BY Closing, Zenon
<1> HIDE DEF c
<1>3. /\ d \in BackendRecord /\ d.jobs = c.jobs /\ d.ready = c.ready /\ d.delays = c.delays
      /\ d.wireGuardIo = c.wireGuardIo /\ SameAgent(c, d) /\ d.posted = "Connecting"
      /\ d.selfState = c.selfState /\ d.vpnProtocolState = c.vpnProtocolState
  BY <1>2, ZenonT(60) DEF Sound, BackendRecord, VpnStates, SameAgent
<1> HIDE DEF d
<1>4. Sound(d)
  BY <1>2, <1>3 DEF Sound, Queues, Pointers, Tracked, SameAgent
<1>5. Free(d) # {}
  BY <1>2, <1>3 DEF Free, SameAgent
<1>6. /\ n \in Job /\ n # d.agentConnectionJob
  BY <1>4, <1>5, FreeJob, Zenon
<1>7. /\ u \in BackendRecord /\ Queues(u) /\ \A i \in Job : Consistent(u.jobs[i])
      /\ u.jobs[n] = JobAt(kind, "session")
      /\ \A j \in Job : j # n => u.jobs[j] = d.jobs[j]
      /\ SameShown(d, u) /\ SameAgent(d, u) /\ Kept(d, u)
  BY <1>4, <1>5, Launched
<1> HIDE DEF t, n, u
<1>8. /\ t \in BackendRecord /\ t.jobs = u.jobs /\ t.ready = u.ready /\ t.delays = u.delays
      /\ t.wireGuardIo = u.wireGuardIo /\ SameShown(u, t) /\ t.agent = u.agent
      /\ t.late = u.late /\ t.strays = u.strays /\ t.reconnectionJob = n
      /\ t.agentConnectionJob = u.agentConnectionJob
  BY <1>1, <1>6, <1>7 DEF BackendRecord, SameShown
<1>9. Queues(t) /\ \A i \in Job : Consistent(t.jobs[i])
  BY <1>7, <1>8 DEF Queues
<1>10. Pointers(t)
  <2>1. t.jobs[n].kind = kind
    BY <1>7, <1>8 DEF JobAt
  <2>2. d.agentConnectionJob # 0 => t.jobs[d.agentConnectionJob] = d.jobs[d.agentConnectionJob]
    BY <1>4, <1>6, <1>7, <1>8 DEF Sound, BackendRecord
  <2> QED BY <1>4, <1>7, <1>8, <2>1, <2>2 DEF Pointers, Sound, SameAgent
<1>11. Tracked(t)
  <2>1. \A i \in Job : t.jobs[i].kind = "agent" => t.jobs[i] = d.jobs[i]
    BY <1>7, <1>8 DEF JobAt
  <2>2. /\ t.agent = d.agent /\ t.late = d.late /\ t.strays = d.strays
        /\ t.agentConnectionJob = d.agentConnectionJob
    BY <1>7, <1>8 DEF SameAgent
  <2> QED BY <1>4, <2>1, <2>2 DEF Sound, Tracked
<1>12. Kept(s, t)
  <2>1. Kept(c, d) /\ Kept(u, t)
    BY <1>3, <1>8 DEF Kept
  <2> QED BY <1>2, <1>7, <2>1, KeptTransitive
<1>13. /\ t.agent = "null" /\ t.posted = "Connecting"
       /\ t.vpnProtocolState = s.vpnProtocolState /\ t.selfState = s.selfState
  BY <1>2, <1>3, <1>7, <1>8 DEF SameShown, SameAgent
<1> QED BY <1>8, <1>9, <1>10, <1>11, <1>12, <1>13 DEF Sound, t

\* Fields other than those of the coroutines and of the agent do not matter here.
LEMMA Unrelated ==
    ASSUME NEW s, Sound(s), NEW t \in BackendRecord, SameAgent(s, t), t.jobs = s.jobs,
           t.ready = s.ready, t.delays = s.delays, t.wireGuardIo = s.wireGuardIo
    PROVE  Sound(t) /\ Kept(s, t) /\ Free(t) = Free(s)
<1>1. Sound(t)
  BY DEF Sound, Queues, Pointers, Tracked, SameAgent
<1>2. Kept(s, t)
  BY DEF Kept
<1>3. Free(t) = Free(s)
  BY DEF Free, SameAgent
<1> QED BY <1>1, <1>2, <1>3

\* Posting a state disturbs no coroutine.
LEMMA Posting ==
    ASSUME NEW s, Sound(s), NEW value \in VpnStates
    PROVE  LET t == [s EXCEPT !.posted = value] IN
           /\ Sound(t) /\ Kept(s, t) /\ Free(t) = Free(s) /\ SameAgent(s, t)
           /\ t.posted = value /\ t.selfState = s.selfState
           /\ t.vpnProtocolState = s.vpnProtocolState
<1> DEFINE t == [s EXCEPT !.posted = value]
<1>1. /\ t \in BackendRecord /\ SameAgent(s, t) /\ t.jobs = s.jobs /\ t.ready = s.ready
      /\ t.delays = s.delays /\ t.wireGuardIo = s.wireGuardIo /\ t.posted = value
      /\ t.selfState = s.selfState /\ t.vpnProtocolState = s.vpnProtocolState
  BY DEF Sound, BackendRecord, SameAgent
<1> HIDE DEF t
<1>2. Sound(t) /\ Kept(s, t) /\ Free(t) = Free(s)
  BY <1>1, Unrelated
<1> QED BY <1>1, <1>2 DEF t

\* What is shown, or will be when the posted state is delivered.
View(s) == IF s.posted = "none" THEN s.selfState ELSE s.posted

Shown(s) ==
    /\ View(s) = "Connected" => s.vpnProtocolState = "Connected"
    /\ s.agent = "Connected" => s.vpnProtocolState = "Connected"

\* A callback c is about to close the agent and to show the state of the protocol.
Correcting(s, c) ==
    /\ c.vpnState \notin {"Connected", "none"} /\ c.vpnState = s.vpnProtocolState
    /\ c.step = "read" \/ (c.step = "post" /\ s.agent # "Connected")

\* Connected is shown for a protocol that is connected, or a callback sees to it,
\* or one has gone on with what it should have read again.
Settled(s, c) == c.raced \/ Shown(s) \/ Correcting(s, c)

\* A step that shows the same and does not connect the agent leaves it at that.
LEMMA StillSettled ==
    ASSUME NEW c, NEW s, NEW t, Settled(s, c), SameShown(s, t),
           t.agent = "Connected" => s.agent = "Connected"
    PROVE  Settled(t, c)
BY DEF Settled, Correcting, Shown, View, SameShown

\* What handleLocalAgentStates posts and opens.
LEMMA Handling ==
    ASSUME NEW s, Sound(s), Settled(s, callback), Free(s) # {}
    PROVE  LET t == HandleLocalAgentStates(s, s.agent) IN
           Sound(t) /\ Kept(s, t) /\ Settled(t, callback) /\ t.vpnProtocolState = s.vpnProtocolState
<1> DEFINE open == ConnectToLocalAgent(s)
           t == HandleLocalAgentStates(s, s.agent)
<1>1. Sound(open) /\ SameShown(s, open) /\ Kept(s, open) /\ open.agent = s.agent
  BY AgentOpened
<1>2. CASE s.agent \in {"expired", "unknownCA"}
  <2>1. open = s
    BY <1>2 DEF ConnectToLocalAgent
  <2>2. t = LaunchReconnection(s, s.agent)
    BY <1>2, <2>1 DEF HandleLocalAgentStates
  <2> HIDE DEF t
  <2>3. /\ Sound(t) /\ Kept(s, t) /\ t.agent = "null" /\ t.posted = "Connecting"
        /\ t.vpnProtocolState = s.vpnProtocolState /\ t.selfState = s.selfState
    BY <1>2, <2>2, Reconnecting
  <2>4. Shown(t)
    BY <2>3 DEF Shown, View
  <2> QED BY <2>3, <2>4 DEF Settled, t
<1>3. CASE s.agent \notin {"expired", "unknownCA"}
  <2> DEFINE value == AgentView(s.agent)
  <2>1. t = [open EXCEPT !.posted = value]
    BY <1>3 DEF HandleLocalAgentStates
  <2>2. value \in VpnStates /\ (value = "Connected" => s.agent = "Connected")
    BY DEF VpnStates, AgentView
  <2> HIDE DEF t, value, open
  <2>3. /\ Sound(t) /\ Kept(open, t) /\ SameAgent(open, t) /\ t.posted = value
        /\ t.vpnProtocolState = open.vpnProtocolState
    BY <1>1, <2>1, <2>2, Posting
  <2>4. Kept(s, t)
    BY <1>1, <2>3, KeptTransitive
  <2>5. value # "none"
    BY <2>2 DEF VpnStates
  <2>6. t.agent = s.agent /\ t.vpnProtocolState = s.vpnProtocolState
    BY <1>1, <2>3 DEF SameAgent, SameShown
  <2>7. Settled(t, callback)
    BY <2>2, <2>3, <2>5, <2>6 DEF Settled, Correcting, Shown, View
  <2> QED BY <2>3, <2>4, <2>6, <2>7 DEF t
<1> QED BY <1>2, <1>3

\* Any other state of the protocol closes the agent and is shown itself.
LEMMA NotConnected ==
    ASSUME NEW s, Sound(s), NEW agentState, NEW vpnState \in VpnStates \ {"Connected"}
    PROVE  LET t == ProcessCombinedState(s, vpnState, agentState) IN
           /\ Sound(t) /\ Kept(s, t) /\ Shown(t) /\ Free(s) \subseteq Free(t)
           /\ t.vpnProtocolState = s.vpnProtocolState /\ t.agent = "null"
<1> DEFINE c == CloseAgentConnection(s)
           t == ProcessCombinedState(s, vpnState, agentState)
<1>1. t = [c EXCEPT !.posted = vpnState]
  BY DEF ProcessCombinedState
<1>2. /\ Sound(c) /\ SameShown(s, c) /\ Kept(s, c) /\ Free(s) \subseteq Free(c) /\ c.agent = "null"
  BY Closing, Zenon
<1> HIDE DEF c, t
<1>3. /\ Sound(t) /\ Kept(c, t) /\ SameAgent(c, t) /\ t.posted = vpnState /\ Free(t) = Free(c)
      /\ t.vpnProtocolState = c.vpnProtocolState
  BY <1>1, <1>2, Posting
<1>4. Kept(s, t)
  BY <1>2, <1>3, KeptTransitive
<1>5. Shown(t)
  BY <1>2, <1>3 DEF Shown, View, SameAgent, VpnStates
<1> QED BY <1>2, <1>3, <1>4, <1>5 DEF t, SameShown, SameAgent

\* The setter of vpnProtocolState.
LEMMA Setting ==
    ASSUME NEW s, Sound(s), Settled(s, callback), NEW value \in VpnStates
    PROVE  LET t == SetVpnProtocolState(s, value) IN
           /\ Sound(t) /\ Kept(s, t) /\ Settled(t, callback) /\ Free(s) \subseteq Free(t)
           /\ t.vpnProtocolState = value
<1> DEFINE t == SetVpnProtocolState(s, value)
           u == [s EXCEPT !.vpnProtocolState = value]
<1>1. CASE value = s.vpnProtocolState
  <2>1. t = s
    BY <1>1 DEF SetVpnProtocolState
  <2> QED BY <1>1, <2>1 DEF Kept
<1>2. CASE value # s.vpnProtocolState /\ value = "Connected"
  <2>1. t = [u EXCEPT !.evicting = @ + 1]
    BY <1>2 DEF SetVpnProtocolState
  <2>2. /\ t \in BackendRecord /\ SameAgent(s, t) /\ t.jobs = s.jobs /\ t.ready = s.ready
        /\ t.delays = s.delays /\ t.wireGuardIo = s.wireGuardIo /\ t.vpnProtocolState = value
    <3>1. /\ u \in BackendRecord /\ SameAgent(s, u) /\ u.jobs = s.jobs /\ u.ready = s.ready
          /\ u.delays = s.delays /\ u.wireGuardIo = s.wireGuardIo /\ u.vpnProtocolState = value
      BY DEF Sound, BackendRecord, SameAgent
    <3> HIDE DEF t, u
    <3>2. u.evicting + 1 \in Nat
      BY <3>1 DEF BackendRecord
    <3> QED BY <2>1, <3>1, <3>2 DEF BackendRecord, SameAgent
  <2> HIDE DEF t
  <2>3. Sound(t) /\ Kept(s, t) /\ Free(t) = Free(s)
    BY <2>2, Unrelated
  <2> QED BY <1>2, <2>2, <2>3 DEF Settled, Shown, t
<1>3. CASE value # s.vpnProtocolState /\ value # "Connected"
  <2>1. t = ProcessCombinedState(u, value, u.agent)
    BY <1>3 DEF SetVpnProtocolState
  <2>2. /\ u \in BackendRecord /\ SameAgent(s, u) /\ u.jobs = s.jobs /\ u.ready = s.ready
        /\ u.delays = s.delays /\ u.wireGuardIo = s.wireGuardIo /\ u.vpnProtocolState = value
    BY DEF Sound, BackendRecord, SameAgent
  <2> HIDE DEF t, u
  <2>3. Sound(u) /\ Kept(s, u) /\ Free(u) = Free(s)
    BY <2>2, Unrelated
  <2>4. /\ Sound(t) /\ Kept(u, t) /\ Shown(t) /\ Free(u) \subseteq Free(t)
        /\ t.vpnProtocolState = u.vpnProtocolState
    BY <1>3, <2>1, <2>3, NotConnected
  <2>5. Kept(s, t)
    BY <2>3, <2>4, KeptTransitive
  <2> QED BY <2>2, <2>3, <2>4, <2>5 DEF Settled, t
<1> QED BY <1>1, <1>2, <1>3

\* A coroutine that waits in no queue goes on to another phase.
Moved(s, i, phase) == [s EXCEPT !.jobs[i].phase = phase]

\* A coroutine that waits in no queue goes on to another point.
LEMMA Moving ==
    ASSUME NEW s, Sound(s), NEW i \in Job, Unqueued(s, i), s.jobs[i].phase # "ended",
           NEW phase \in {"session", "await", "yield", "delay", "down", "prepare", "up", "run"},
           Fits(s.jobs[i].kind, phase)
    PROVE  LET t == Moved(s, i, phase) IN
           /\ Sound(t) /\ SameShown(s, t) /\ SameAgent(s, t) /\ Unqueued(t, i)
           /\ Free(s) \subseteq Free(t) /\ t.ready = s.ready
           /\ t.delays = s.delays /\ t.wireGuardIo = s.wireGuardIo
           /\ t.jobs[i].phase = phase /\ t.jobs[i].kind = s.jobs[i].kind
           /\ t.jobs[i].cancelled = s.jobs[i].cancelled
           /\ \A j \in Job : j # i => t.jobs[j] = s.jobs[j]
<1> DEFINE t == Moved(s, i, phase)
           job == [s.jobs[i] EXCEPT !.phase = phase]
<1>1. s \in BackendRecord /\ s.jobs \in [Job -> JobRecord] /\ s.jobs[i] \in JobRecord
  BY DEF Sound, BackendRecord
<1>2. /\ job \in JobRecord /\ job.kind = s.jobs[i].kind /\ job.phase = phase
      /\ job.cancelled = s.jobs[i].cancelled
  BY <1>1 DEF JobRecord
<1>3. t.jobs = [s.jobs EXCEPT ![i] = job]
  BY <1>1 DEF BackendRecord, Moved
<1> HIDE DEF job
<1>4. t.jobs \in [Job -> JobRecord] /\ t.jobs[i] = job /\ \A j \in Job : j # i => t.jobs[j] = s.jobs[j]
  BY <1>1, <1>2, <1>3
<1>5. t \in BackendRecord
  BY <1>1, <1>4 DEF BackendRecord, Moved
<1>6. /\ t.ready = s.ready /\ t.delays = s.delays /\ t.wireGuardIo = s.wireGuardIo
      /\ SameShown(s, t) /\ SameAgent(s, t)
  BY <1>1 DEF BackendRecord, SameShown, SameAgent, Moved
<1> HIDE DEF t
<1>7. Queues(t) /\ \A j \in Job : Consistent(t.jobs[j])
  <2>1. Consistent(t.jobs[i])
    BY <1>2, <1>4 DEF Consistent
  <2> QED BY <1>4, <1>5, <1>6, <2>1, Updating
<1>8. \A j \in Job : t.jobs[j].kind = s.jobs[j].kind /\ t.jobs[j].cancelled = s.jobs[j].cancelled
  BY <1>2, <1>4
<1>9. Pointers(t)
  BY <1>6, <1>8 DEF Sound, Pointers, SameAgent, BackendRecord
<1>10. Tracked(t)
  BY <1>6, <1>8 DEF Sound, Tracked, SameAgent
<1>11. Free(s) \subseteq Free(t)
  BY <1>4, <1>6 DEF Free, SameAgent
<1>12. Unqueued(t, i)
  BY <1>6 DEF Unqueued
<1> QED BY <1>2, <1>4, <1>5, <1>6, <1>7, <1>9, <1>10, <1>11, <1>12 DEF Sound, t

\* The coroutine waits in one of the queues of the tunnel.
LEMMA Queueing ==
    ASSUME NEW s, Sound(s), NEW i \in Job, Unqueued(s, i),
           NEW t \in BackendRecord, SameAgent(s, t), t.jobs = s.jobs, t.ready = s.ready,
           \/ /\ t.delays = Append(s.delays, i) /\ t.wireGuardIo = s.wireGuardIo
              /\ s.jobs[i].phase = "delay"
           \/ /\ t.delays = s.delays /\ t.wireGuardIo = Append(s.wireGuardIo, i)
              /\ s.jobs[i].phase \in {"down", "up"}
    PROVE  Sound(t) /\ Free(t) = Free(s)
<1>1. s.delays \in Seq(Job) /\ s.wireGuardIo \in Seq(Job)
  BY DEF Sound, BackendRecord
<1>2. Queues(t)
  <2>1. Waiting(t.ready, t.jobs, {"ready"})
    BY DEF Sound, Queues
  <2>2. Waiting(t.delays, t.jobs, {"delay"})
    BY <1>1, WaitingAppended DEF Sound, Queues, Unqueued
  <2>3. Waiting(t.wireGuardIo, t.jobs, {"down", "up"})
    BY <1>1, WaitingAppended DEF Sound, Queues, Unqueued
  <2> QED BY <2>1, <2>2, <2>3 DEF Queues
<1>3. Sound(t)
  BY <1>2 DEF Sound, Pointers, Tracked, SameAgent
<1>4. Free(t) = Free(s)
  BY DEF Free, SameAgent
<1> QED BY <1>3, <1>4

\* A coroutine suspends, or ends there if it was cancelled.
LEMMA Suspending ==
    ASSUME NEW s, Sound(s), NEW i \in Job, Unqueued(s, i), s.jobs[i].phase # "ended",
           NEW phase \in {"delay", "down", "up"}, Fits(s.jobs[i].kind, phase)
    PROVE  LET t == Suspend(s, i, phase) IN
           /\ Sound(t) /\ SameShown(s, t) /\ SameAgent(s, t)
           /\ Free(s) \subseteq Free(t) /\ t.ready = s.ready
           /\ \A j \in Job : j # i => t.jobs[j] = s.jobs[j]
           /\ s.jobs[i].cancelled => t.jobs[i] = NoJob
           /\ ~s.jobs[i].cancelled => /\ t.jobs[i].phase = phase /\ ~t.jobs[i].cancelled
                                      /\ t.jobs[i].kind = s.jobs[i].kind
<1> DEFINE t == Suspend(s, i, phase)
<1>1. CASE s.jobs[i].cancelled
  <2>1. t = End(s, i)
    BY <1>1 DEF Suspend
  <2>2. /\ Sound(End(s, i)) /\ End(s, i).jobs = [s.jobs EXCEPT ![i] = NoJob]
        /\ SameShown(s, End(s, i)) /\ SameAgent(s, End(s, i))
        /\ Free(s) \subseteq Free(End(s, i)) /\ End(s, i).ready = s.ready
    BY Ending DEF Unqueued
  <2>3. s.jobs \in [Job -> JobRecord]
    BY DEF Sound, BackendRecord
  <2> HIDE DEF t
  <2>4. t.jobs[i] = NoJob /\ \A j \in Job : j # i => t.jobs[j] = s.jobs[j]
    BY <2>1, <2>2, <2>3
  <2> QED BY <1>1, <2>1, <2>2, <2>4 DEF t
<1>2. CASE ~s.jobs[i].cancelled
  <2> DEFINE u == Moved(s, i, phase)
  <2>1. t = IF phase = "delay" THEN [u EXCEPT !.delays = Append(@, i)]
            ELSE [u EXCEPT !.wireGuardIo = Append(@, i)]
    BY <1>2 DEF Suspend, Sound, BackendRecord, Moved
  <2>2. /\ Sound(u) /\ SameShown(s, u) /\ SameAgent(s, u) /\ Unqueued(u, i)
        /\ Free(s) \subseteq Free(u) /\ u.ready = s.ready
        /\ u.jobs[i].phase = phase /\ u.jobs[i].kind = s.jobs[i].kind
        /\ u.jobs[i].cancelled = s.jobs[i].cancelled
        /\ \A j \in Job : j # i => u.jobs[j] = s.jobs[j]
    BY Moving
  <2> HIDE DEF u, t
  <2>3. Append(u.delays, i) \in Seq(Job) /\ Append(u.wireGuardIo, i) \in Seq(Job)
    BY <2>2 DEF Sound, BackendRecord
  <2>4. /\ t \in BackendRecord /\ SameAgent(u, t) /\ SameShown(u, t) /\ t.jobs = u.jobs /\ t.ready = u.ready
        /\ phase = "delay" => t.delays = Append(u.delays, i) /\ t.wireGuardIo = u.wireGuardIo
        /\ phase # "delay" => t.delays = u.delays /\ t.wireGuardIo = Append(u.wireGuardIo, i)
    BY <2>1, <2>2, <2>3, ZenonT(60) DEF Sound, BackendRecord, SameAgent, SameShown
  <2>5. Sound(t) /\ Free(t) = Free(u)
    BY <2>2, <2>4, Queueing
  <2>6. SameShown(s, t) /\ SameAgent(s, t)
    BY <2>2, <2>4 DEF SameShown, SameAgent
  <2> QED BY <1>2, <2>2, <2>4, <2>5, <2>6 DEF t
<1> QED BY <1>1, <1>2

\* What t keeps of s when coroutine i runs.
KeptBut(s, t, i) ==
    /\ t.ready = s.ready
    /\ \A j \in Job \ {i} : s.jobs[j].kind \in CommandKinds \/ t.jobs[j].kind \in CommandKinds
                              => /\ t.jobs[j].kind = s.jobs[j].kind
                                 /\ t.jobs[j].phase = s.jobs[j].phase
                                 /\ t.jobs[j].cancelled = s.jobs[j].cancelled
    /\ \A j \in Job \ {i} : t.jobs[j].phase = "run" => s.jobs[j].phase = "run"
    /\ t.jobs[i].phase # "run"

\* Coroutine i has got as far as the given phase, unless it was cancelled.
Reaches(s, t, i, phase) ==
    \/ t.jobs[i] = NoJob
    \/ t.jobs[i].phase = phase /\ t.jobs[i].kind = s.jobs[i].kind /\ ~t.jobs[i].cancelled

\* The running coroutine waits in no queue.
LEMMA RunsUnqueued ==
    ASSUME NEW s, Sound(s), NEW i \in Job, s.jobs[i].phase = "run"
    PROVE  Unqueued(s, i)
BY DEF Sound, Queues, Waiting, Unqueued

\* Coroutine i runs from s on, by steps that keep the others, and suspends.
LEMMA RunAndSuspend ==
    ASSUME NEW s, Sound(s), NEW i \in Job, Unqueued(s, i), s.jobs[i].phase # "ended",
           Fits(s.jobs[i].kind, "run"), NEW d, Sound(d), Kept(Moved(s, i, "run"), d),
           Free(Moved(s, i, "run")) \subseteq Free(d),
           NEW phase \in {"delay", "down", "up"}, Fits(s.jobs[i].kind, phase)
    PROVE  LET t == Suspend(d, i, phase) IN
           /\ Sound(t) /\ SameShown(d, t) /\ SameAgent(d, t) /\ Free(s) \subseteq Free(t)
           /\ KeptBut(s, t, i) /\ Reaches(s, t, i, phase)
           /\ s.jobs[i].kind \in CommandKinds /\ ~s.jobs[i].cancelled => t.jobs[i].phase = phase
<1> DEFINE t == Suspend(d, i, phase)
           r == Moved(s, i, "run")
<1>1. /\ Sound(r) /\ Free(s) \subseteq Free(r) /\ r.ready = s.ready
      /\ r.jobs[i].phase = "run" /\ r.jobs[i].kind = s.jobs[i].kind
      /\ r.jobs[i].cancelled = s.jobs[i].cancelled
      /\ \A j \in Job : j # i => r.jobs[j] = s.jobs[j]
  BY Moving
<1> HIDE DEF r
<1>2. d.jobs[i].phase = "run" /\ d.jobs[i].kind = s.jobs[i].kind /\ d.ready = s.ready
  BY <1>1 DEF Kept, r
<1>3. s.jobs[i].kind \in CommandKinds => d.jobs[i].cancelled = s.jobs[i].cancelled
  BY <1>1 DEF Kept, r
<1>4. Unqueued(d, i)
  BY <1>2, RunsUnqueued
<1>5. Fits(d.jobs[i].kind, phase) /\ d.jobs[i].phase # "ended"
  BY <1>2
<1>6. /\ Sound(t) /\ SameShown(d, t) /\ SameAgent(d, t)
      /\ Free(d) \subseteq Free(t) /\ t.ready = d.ready
      /\ \A j \in Job : j # i => t.jobs[j] = d.jobs[j]
      /\ d.jobs[i].cancelled => t.jobs[i] = NoJob
      /\ ~d.jobs[i].cancelled => /\ t.jobs[i].phase = phase /\ ~t.jobs[i].cancelled
                                 /\ t.jobs[i].kind = d.jobs[i].kind
  BY <1>4, <1>5, Suspending
<1> HIDE DEF t
<1>7. \A j \in Job \ {i} : r.jobs[j] = s.jobs[j] /\ t.jobs[j] = d.jobs[j]
  BY <1>1, <1>6
<1>8. KeptBut(s, t, i)
  <2>1. t.jobs[i].phase # "run"
    BY <1>6, NoJobTyped
  <2> QED BY <1>2, <1>6, <1>7, <2>1 DEF KeptBut, Kept, r
<1>9. Reaches(s, t, i, phase)
  BY <1>2, <1>6 DEF Reaches
<1>10. Free(s) \subseteq Free(t)
  BY <1>1, <1>6 DEF r
<1> QED BY <1>3, <1>6, <1>8, <1>9, <1>10 DEF t

\* disconnect closes the agent and leaves the coroutine in its delay.
LEMMA Disconnecting ==
    ASSUME NEW s, Sound(s), Settled(s, callback), NEW i \in Job, Unqueued(s, i), s.jobs[i].phase # "ended",
           s.jobs[i].kind \in {"connect", "disconnect", "reconnect", "revoked"}
    PROVE  LET t == Disconnect(s, i) IN
           /\ Sound(t) /\ Settled(t, callback) /\ Free(s) \subseteq Free(t)
           /\ KeptBut(s, t, i) /\ Reaches(s, t, i, "delay") /\ t.vpnProtocolState = "Disabled"
           /\ s.jobs[i].kind \in CommandKinds /\ ~s.jobs[i].cancelled => t.jobs[i].phase = "delay"
<1> DEFINE r == Moved(s, i, "run")
           l == IF s.vpnProtocolState # "Disabled" THEN SetVpnProtocolState(r, "Disconnecting") ELSE r
           c == CloseAgentConnection(l)
           d == SetVpnProtocolState(c, "Disabled")
           t == Suspend(d, i, "delay")
<1>1. Disconnect(s, i) = t
  BY DEF Disconnect, Moved
<1>2. Fits(s.jobs[i].kind, "run") /\ Fits(s.jobs[i].kind, "delay")
  BY DEF Fits
<1>3. Sound(r) /\ SameShown(s, r) /\ SameAgent(s, r)
  BY <1>2, Moving
<1> HIDE DEF r
<1>4. Settled(r, callback)
  BY <1>3 DEF Settled, Correcting, Shown, View, SameShown, SameAgent
<1>5. "Disconnecting" \in VpnStates /\ "Disabled" \in VpnStates
  BY DEF VpnStates
<1>6. Sound(l) /\ Settled(l, callback) /\ Kept(r, l) /\ Free(r) \subseteq Free(l)
  <2>1. Kept(r, r)
    BY DEF Kept
  <2> QED BY <1>3, <1>4, <1>5, <2>1, Setting
<1> HIDE DEF l
<1>7. Sound(c) /\ Settled(c, callback) /\ Kept(l, c) /\ Free(l) \subseteq Free(c)
  <2>1. /\ Sound(c) /\ SameShown(l, c) /\ Kept(l, c)
        /\ Free(l) \subseteq Free(c) /\ c.agent = "null"
    BY <1>6, Closing, Zenon
  <2> HIDE DEF c
  <2> QED BY <1>6, <2>1 DEF Settled, Correcting, Shown, View, SameShown
<1> HIDE DEF c
<1>8. Sound(d) /\ Settled(d, callback) /\ Kept(c, d) /\ Free(c) \subseteq Free(d) /\ d.vpnProtocolState = "Disabled"
  BY <1>5, <1>7, Setting
<1> HIDE DEF d
<1>9. Kept(r, d) /\ Free(r) \subseteq Free(d)
  BY <1>6, <1>7, <1>8, KeptTransitive
<1>10. /\ Sound(t) /\ SameShown(d, t) /\ SameAgent(d, t) /\ Free(s) \subseteq Free(t)
       /\ KeptBut(s, t, i) /\ Reaches(s, t, i, "delay")
       /\ s.jobs[i].kind \in CommandKinds /\ ~s.jobs[i].cancelled => t.jobs[i].phase = "delay"
  <2> HIDE DEF t
  <2> QED BY <1>2, <1>8, <1>9, RunAndSuspend DEF r, t
<1> HIDE DEF t
<1>11. Settled(t, callback) /\ t.vpnProtocolState = "Disabled"
  BY <1>8, <1>10 DEF Settled, Correcting, Shown, View, SameShown, SameAgent
<1> QED BY <1>1, <1>10, <1>11

\* The configuration of the tunnel is made.
Keyed(s, i, key) == [s EXCEPT !.jobs[i].key = key]

\* The key a coroutine will open the tunnel with.
LEMMA Keying ==
    ASSUME NEW s, Sound(s), NEW i \in Job, s.jobs[i].phase = "run", NEW key \in Nat
    PROVE  LET t == Keyed(s, i, key) IN
           Sound(t) /\ SameShown(s, t) /\ SameAgent(s, t) /\ Free(s) \subseteq Free(t) /\ Kept(s, t)
<1> DEFINE t == Keyed(s, i, key)
           job == [s.jobs[i] EXCEPT !.key = key]
<1>1. s \in BackendRecord /\ s.jobs \in [Job -> JobRecord] /\ s.jobs[i] \in JobRecord
  BY DEF Sound, BackendRecord
<1>2. /\ job \in JobRecord /\ job.kind = s.jobs[i].kind /\ job.phase = s.jobs[i].phase
      /\ job.cancelled = s.jobs[i].cancelled
  BY <1>1 DEF JobRecord
<1>3. t.jobs = [s.jobs EXCEPT ![i] = job]
  BY <1>1 DEF BackendRecord, Keyed
<1> HIDE DEF job
<1>4. t.jobs \in [Job -> JobRecord] /\ t.jobs[i] = job /\ \A j \in Job : j # i => t.jobs[j] = s.jobs[j]
  BY <1>1, <1>2, <1>3
<1>5. t \in BackendRecord
  BY <1>1, <1>4 DEF BackendRecord, Keyed
<1>6. /\ t.ready = s.ready /\ t.delays = s.delays /\ t.wireGuardIo = s.wireGuardIo
      /\ SameShown(s, t) /\ SameAgent(s, t)
  BY <1>1 DEF BackendRecord, SameShown, SameAgent, Keyed
<1> HIDE DEF t
<1>7. \A j \in Job : /\ t.jobs[j].kind = s.jobs[j].kind /\ t.jobs[j].phase = s.jobs[j].phase
                     /\ t.jobs[j].cancelled = s.jobs[j].cancelled
  BY <1>2, <1>4
<1>8. Queues(t) /\ \A j \in Job : Consistent(t.jobs[j])
  <2>1. Consistent(t.jobs[i])
    BY <1>7 DEF Consistent, Sound
  <2>2. Unqueued(s, i)
    BY RunsUnqueued
  <2> QED BY <1>4, <1>5, <1>6, <2>1, <2>2, Updating
<1>9. Pointers(t)
  BY <1>6, <1>7 DEF Sound, Pointers, SameAgent, BackendRecord
<1>10. Tracked(t)
  BY <1>6, <1>7 DEF Sound, Tracked, SameAgent
<1>11. Free(s) \subseteq Free(t)
  BY <1>6, <1>7 DEF Free, SameAgent
<1>12. Kept(s, t)
  BY <1>6, <1>7 DEF Kept
<1> QED BY <1>5, <1>6, <1>8, <1>9, <1>10, <1>11, <1>12 DEF Sound, t

\* connect closes the agent and leaves the coroutine queued for the tunnel.
LEMMA Connecting ==
    ASSUME NEW s, Sound(s), Settled(s, callback), NEW i \in Job, Unqueued(s, i), s.jobs[i].phase # "ended",
           s.jobs[i].kind \in {"connect", "reconnect", "revoked"}, cert.key \in Nat
    PROVE  LET t == Connect(s, i) IN
           /\ Sound(t) /\ Settled(t, callback) /\ Free(s) \subseteq Free(t)
           /\ KeptBut(s, t, i) /\ Reaches(s, t, i, "up") /\ t.vpnProtocolState = "Connecting"
           /\ s.jobs[i].kind \in CommandKinds /\ ~s.jobs[i].cancelled => t.jobs[i].phase = "up"
<1> DEFINE r == Moved(s, i, "run")
           c == CloseAgentConnection(r)
           v == SetVpnProtocolState(c, "Connecting")
           d == Keyed(v, i, cert.key)
           t == Suspend(d, i, "up")
<1>1. Connect(s, i) = t
  BY DEF Connect, Moved, Keyed
<1>2. Fits(s.jobs[i].kind, "run") /\ Fits(s.jobs[i].kind, "up")
  BY DEF Fits
<1>3. Sound(r) /\ SameShown(s, r) /\ SameAgent(s, r) /\ r.jobs[i].phase = "run"
  BY <1>2, Moving
<1> HIDE DEF r
<1>4. Settled(r, callback)
  BY <1>3 DEF Settled, Correcting, Shown, View, SameShown, SameAgent
<1>5. "Connecting" \in VpnStates
  BY DEF VpnStates
<1>6. Sound(c) /\ Settled(c, callback) /\ Kept(r, c) /\ Free(r) \subseteq Free(c)
  <2>1. /\ Sound(c) /\ SameShown(r, c) /\ Kept(r, c)
        /\ Free(r) \subseteq Free(c) /\ c.agent = "null"
    BY <1>3, Closing, Zenon
  <2> HIDE DEF c
  <2> QED BY <1>4, <2>1 DEF Settled, Correcting, Shown, View, SameShown
<1> HIDE DEF c
<1>7. Sound(v) /\ Settled(v, callback) /\ Kept(c, v) /\ Free(c) \subseteq Free(v) /\ v.vpnProtocolState = "Connecting"
  BY <1>5, <1>6, Setting
<1> HIDE DEF v
<1>8. v.jobs[i].phase = "run"
  BY <1>3, <1>6, <1>7 DEF Kept
<1>9. Sound(d) /\ SameShown(v, d) /\ SameAgent(v, d) /\ Free(v) \subseteq Free(d) /\ Kept(v, d)
  BY <1>7, <1>8, Keying
<1> HIDE DEF d
<1>10. Kept(r, d) /\ Free(r) \subseteq Free(d)
  BY <1>6, <1>7, <1>9, KeptTransitive
<1>11. /\ Sound(t) /\ SameShown(d, t) /\ SameAgent(d, t) /\ Free(s) \subseteq Free(t)
       /\ KeptBut(s, t, i) /\ Reaches(s, t, i, "up")
       /\ s.jobs[i].kind \in CommandKinds /\ ~s.jobs[i].cancelled => t.jobs[i].phase = "up"
  <2> HIDE DEF t
  <2> QED BY <1>2, <1>9, <1>10, RunAndSuspend DEF r, t
<1> HIDE DEF t
<1>12. Settled(t, callback) /\ t.vpnProtocolState = "Connecting"
  BY <1>7, <1>9, <1>11 DEF Settled, Correcting, Shown, View, SameShown, SameAgent
<1> QED BY <1>1, <1>11, <1>12

\* The first of a queue leaves it.
LEMMA Heading ==
    ASSUME NEW q \in Seq(Job), q # <<>>, NEW jobs, NEW phases, Waiting(q, jobs, phases)
    PROVE  /\ Waiting(Tail(q), jobs, phases) /\ Tail(q) \in Seq(Job)
           /\ Head(q) \in Job /\ jobs[Head(q)].phase \in phases
           /\ \A k \in DOMAIN Tail(q) : Tail(q)[k] # Head(q)
<1>1. /\ Tail(q) \in Seq(Job) /\ Head(q) \in Job
      /\ \A k \in DOMAIN Tail(q) : /\ k + 1 \in DOMAIN q /\ Tail(q)[k] = q[k + 1]
                                   /\ q[k + 1] # Head(q)
      /\ \A k, l \in DOMAIN Tail(q) : Tail(q)[k] = Tail(q)[l] => k = l
      /\ 1 \in DOMAIN q /\ Head(q) = q[1]
  BY TailProperties DEF Waiting
<1> QED BY <1>1 DEF Waiting

WithReady(s, queue) == [s EXCEPT !.ready = queue]
WithDelays(s, queue) == [s EXCEPT !.delays = queue]
WithIo(s, queue) == [s EXCEPT !.wireGuardIo = queue]

\* The first of the main thread's queue is taken.
LEMMA ReadyTaken ==
    ASSUME NEW s, Sound(s), s.ready # <<>>
    PROVE  LET t == WithReady(s, Tail(s.ready))
               i == Head(s.ready) IN
           /\ Sound(t) /\ SameShown(s, t) /\ SameAgent(s, t) /\ Free(t) = Free(s)
           /\ t.jobs = s.jobs /\ t.ready = Tail(s.ready)
           /\ i \in Job /\ s.jobs[i].phase = "ready" /\ Unqueued(t, i)
<1> DEFINE t == WithReady(s, Tail(s.ready))
           i == Head(s.ready)
<1>1. /\ s.ready \in Seq(Job) /\ s.delays \in Seq(Job) /\ s.wireGuardIo \in Seq(Job)
  BY DEF Sound, BackendRecord
<1>2. /\ Waiting(Tail(s.ready), s.jobs, {"ready"}) /\ Tail(s.ready) \in Seq(Job)
      /\ i \in Job /\ s.jobs[i].phase \in {"ready"}
      /\ \A k \in DOMAIN Tail(s.ready) : Tail(s.ready)[k] # i
  BY <1>1, Heading DEF Sound, Queues
<1>3. /\ t \in BackendRecord /\ SameShown(s, t) /\ SameAgent(s, t) /\ t.jobs = s.jobs
      /\ t.ready = Tail(s.ready) /\ t.delays = s.delays /\ t.wireGuardIo = s.wireGuardIo
  BY <1>2 DEF Sound, BackendRecord, WithReady, SameShown, SameAgent
<1> HIDE DEF t, i
<1>4. Queues(t)
  BY <1>2, <1>3 DEF Sound, Queues
<1>5. Sound(t)
  BY <1>3, <1>4 DEF Sound, Pointers, Tracked, SameAgent
<1>6. Free(t) = Free(s)
  BY <1>3 DEF Free, SameAgent
<1>7. Unqueued(t, i)
  BY <1>2, <1>3 DEF Unqueued, Sound, Queues, Waiting
<1> QED BY <1>2, <1>3, <1>5, <1>6, <1>7 DEF t, i

\* The first of those in a delay is taken.
LEMMA DelayTaken ==
    ASSUME NEW s, Sound(s), s.delays # <<>>
    PROVE  LET t == WithDelays(s, Tail(s.delays))
               i == Head(s.delays) IN
           /\ Sound(t) /\ SameShown(s, t) /\ SameAgent(s, t) /\ Free(t) = Free(s)
           /\ t.jobs = s.jobs /\ t.ready = s.ready /\ t.wireGuardIo = s.wireGuardIo
           /\ i \in Job /\ s.jobs[i].phase = "delay" /\ Unqueued(t, i)
<1> DEFINE t == WithDelays(s, Tail(s.delays))
           i == Head(s.delays)
<1>1. /\ s.ready \in Seq(Job) /\ s.delays \in Seq(Job) /\ s.wireGuardIo \in Seq(Job)
  BY DEF Sound, BackendRecord
<1>2. /\ Waiting(Tail(s.delays), s.jobs, {"delay"}) /\ Tail(s.delays) \in Seq(Job)
      /\ i \in Job /\ s.jobs[i].phase \in {"delay"}
      /\ \A k \in DOMAIN Tail(s.delays) : Tail(s.delays)[k] # i
  BY <1>1, Heading DEF Sound, Queues
<1>3. /\ t \in BackendRecord /\ SameShown(s, t) /\ SameAgent(s, t) /\ t.jobs = s.jobs
      /\ t.ready = s.ready /\ t.delays = Tail(s.delays) /\ t.wireGuardIo = s.wireGuardIo
  BY <1>2 DEF Sound, BackendRecord, WithDelays, SameShown, SameAgent
<1> HIDE DEF t, i
<1>4. Queues(t)
  BY <1>2, <1>3 DEF Sound, Queues
<1>5. Sound(t)
  BY <1>3, <1>4 DEF Sound, Pointers, Tracked, SameAgent
<1>6. Free(t) = Free(s)
  BY <1>3 DEF Free, SameAgent
<1>7. Unqueued(t, i)
  BY <1>2, <1>3 DEF Unqueued, Sound, Queues, Waiting
<1> QED BY <1>2, <1>3, <1>5, <1>6, <1>7 DEF t, i

\* The first of the tunnel's queue is taken.
LEMMA IoTaken ==
    ASSUME NEW s, Sound(s), s.wireGuardIo # <<>>
    PROVE  LET t == WithIo(s, Tail(s.wireGuardIo))
               i == Head(s.wireGuardIo) IN
           /\ Sound(t) /\ SameShown(s, t) /\ SameAgent(s, t) /\ Free(t) = Free(s)
           /\ t.jobs = s.jobs /\ t.ready = s.ready
           /\ i \in Job /\ s.jobs[i].phase \in {"down", "up"} /\ Unqueued(t, i)
<1> DEFINE t == WithIo(s, Tail(s.wireGuardIo))
           i == Head(s.wireGuardIo)
<1>1. /\ s.ready \in Seq(Job) /\ s.delays \in Seq(Job) /\ s.wireGuardIo \in Seq(Job)
  BY DEF Sound, BackendRecord
<1>2. /\ Waiting(Tail(s.wireGuardIo), s.jobs, {"down", "up"}) /\ Tail(s.wireGuardIo) \in Seq(Job)
      /\ i \in Job /\ s.jobs[i].phase \in {"down", "up"}
      /\ \A k \in DOMAIN Tail(s.wireGuardIo) : Tail(s.wireGuardIo)[k] # i
  BY <1>1, Heading DEF Sound, Queues
<1>3. /\ t \in BackendRecord /\ SameShown(s, t) /\ SameAgent(s, t) /\ t.jobs = s.jobs
      /\ t.ready = s.ready /\ t.delays = s.delays /\ t.wireGuardIo = Tail(s.wireGuardIo)
  BY <1>2 DEF Sound, BackendRecord, WithIo, SameShown, SameAgent
<1> HIDE DEF t, i
<1>4. Queues(t)
  BY <1>2, <1>3 DEF Sound, Queues
<1>5. Sound(t)
  BY <1>3, <1>4 DEF Sound, Pointers, Tracked, SameAgent
<1>6. Free(t) = Free(s)
  BY <1>3 DEF Free, SameAgent
<1>7. Unqueued(t, i)
  BY <1>2, <1>3 DEF Unqueued, Sound, Queues, Waiting
<1> QED BY <1>2, <1>3, <1>5, <1>6, <1>7 DEF t, i

\* A command, or the error that ends a connection, is launched.
LEMMA ReadyLaunched ==
    ASSUME NEW s, Sound(s), Free(s) # {}, NEW kind \in CommandKinds
    PROVE  LET t == LaunchReady(s, kind)
               n == NextJob(s) IN
           /\ Sound(t) /\ SameShown(s, t) /\ SameAgent(s, t)
           /\ n \in Job /\ t.jobs[n] = JobAt(kind, "ready") /\ t.ready = Append(s.ready, n)
           /\ \A j \in Job : j # n => t.jobs[j] = s.jobs[j]
           /\ s.jobs[n].phase = "ended" /\ s.jobs[n].kind = "none" /\ n # manager.ongoingConnect
<1> DEFINE n == NextJob(s)
           t == LaunchReady(s, kind)
           u == [s EXCEPT !.jobs[n] = JobAt(kind, "ready")]
<1>1. /\ n \in Job /\ s.jobs[n].phase = "ended" /\ s.jobs[n].kind = "none" /\ Unqueued(s, n)
      /\ n # s.agentConnectionJob /\ n # s.reconnectionJob /\ n # manager.ongoingConnect
  BY FreeJob, Zenon
<1>2. s \in BackendRecord /\ s.jobs \in [Job -> JobRecord] /\ s.ready \in Seq(Job)
  BY DEF Sound, BackendRecord
<1>3. JobAt(kind, "ready") \in JobRecord
  BY DEF JobAt, JobRecord, CommandKinds
<1> HIDE DEF n
<1>4. u.jobs = [s.jobs EXCEPT ![n] = JobAt(kind, "ready")]
  BY <1>2 DEF BackendRecord
<1>5. u.jobs \in [Job -> JobRecord] /\ u.jobs[n] = JobAt(kind, "ready") /\ \A j \in Job : j # n => u.jobs[j] = s.jobs[j]
  BY <1>1, <1>2, <1>3, <1>4
<1>6. u \in BackendRecord
  BY <1>2, <1>5 DEF BackendRecord
<1>7. /\ u.ready = s.ready /\ u.delays = s.delays /\ u.wireGuardIo = s.wireGuardIo
      /\ SameShown(s, u) /\ SameAgent(s, u)
  BY <1>2 DEF BackendRecord, SameShown, SameAgent
<1>8. t = [u EXCEPT !.ready = Append(@, n)]
  BY <1>2 DEF LaunchReady, n, BackendRecord
<1> HIDE DEF u, t
<1>9. Queues(u) /\ \A j \in Job : Consistent(u.jobs[j])
  <2>1. Consistent(u.jobs[n])
    BY <1>5 DEF Consistent, Fits, JobAt, CommandKinds
  <2> QED BY <1>1, <1>5, <1>6, <1>7, <2>1, Updating
<1>10. Append(u.ready, n) \in Seq(Job)
  BY <1>1, <1>2, <1>7
<1>11. /\ t \in BackendRecord /\ SameShown(u, t) /\ SameAgent(u, t) /\ t.jobs = u.jobs
       /\ t.ready = Append(u.ready, n) /\ t.delays = u.delays /\ t.wireGuardIo = u.wireGuardIo
  BY <1>6, <1>8, <1>10 DEF BackendRecord, SameShown, SameAgent
<1>12. Queues(t)
  <2>1. u.jobs[n].phase \in {"ready"}
    BY <1>5 DEF JobAt
  <2>2. Waiting(Append(u.ready, n), u.jobs, {"ready"})
    BY <1>1, <1>2, <1>7, <1>9, <2>1, WaitingAppended DEF Queues, Unqueued
  <2> QED BY <1>9, <1>11, <2>2 DEF Queues
<1>13. Pointers(t)
  <2>1. s.reconnectionJob # 0 => t.jobs[s.reconnectionJob] = s.jobs[s.reconnectionJob]
    BY <1>1, <1>2, <1>5, <1>11 DEF BackendRecord
  <2>2. s.agentConnectionJob # 0 => t.jobs[s.agentConnectionJob] = s.jobs[s.agentConnectionJob]
    BY <1>1, <1>2, <1>5, <1>11 DEF BackendRecord
  <2> QED BY <1>7, <1>11, <2>1, <2>2 DEF Sound, Pointers, SameAgent
<1>14. Tracked(t)
  <2>1. \A j \in Job : t.jobs[j].kind = "agent" => t.jobs[j] = s.jobs[j]
    BY <1>5, <1>11 DEF JobAt, CommandKinds
  <2> QED BY <1>7, <1>11, <2>1 DEF Sound, Tracked, SameAgent
<1>15. SameShown(s, t) /\ SameAgent(s, t)
  BY <1>7, <1>11 DEF SameShown, SameAgent
<1> QED BY <1>1, <1>5, <1>7, <1>9, <1>11, <1>12, <1>13, <1>14, <1>15 DEF Sound, t, n

\* A coroutine of the backend's own ends.
LEMMA OwnEnding ==
    ASSUME NEW s, Sound(s), NEW i \in Job, s.jobs[i].kind \notin CommandKinds, s.jobs[i].phase # "run"
    PROVE  Kept(s, End(s, i))
<1> DEFINE t == End(s, i)
<1>1. /\ Sound(t) /\ t.jobs = [s.jobs EXCEPT ![i] = NoJob]
      /\ (\A k \in DOMAIN s.ready : s.ready[k] # i) => t.ready = s.ready
  BY Ending, Zenon
<1>2. s.jobs \in [Job -> JobRecord]
  BY DEF Sound, BackendRecord
<1>3. s.jobs[i].phase # "ready"
  BY DEF Sound, Consistent, Fits, CommandKinds
<1>4. \A k \in DOMAIN s.ready : s.ready[k] # i
  BY <1>3 DEF Sound, Queues, Waiting
<1> HIDE DEF t
<1>5. t.jobs[i] = NoJob /\ \A j \in Job : j # i => t.jobs[j] = s.jobs[j]
  BY <1>1, <1>2
<1>6. Kept(s, t)
  BY <1>1, <1>4, <1>5, NoJobTyped DEF Kept, CommandKinds
<1> QED BY <1>6 DEF t

\* Those who wait for a certificate get an answer.
Replied(s, phase) ==
    [s EXCEPT !.jobs = [i \in Job |-> IF @[i].phase = "await"
                                      THEN [@[i] EXCEPT !.phase = phase] ELSE @[i]]]

\* An answer moves on those who wait for a certificate, and no others.
LEMMA Replying ==
    ASSUME NEW s, Sound(s), NEW phase \in {"got", "refused"}
    PROVE  LET t == Replied(s, phase) IN
           /\ Sound(t) /\ SameShown(s, t) /\ SameAgent(s, t) /\ Kept(s, t)
           /\ Free(t) = Free(s)
           /\ \A j \in Job : s.jobs[j].phase # "await" => t.jobs[j] = s.jobs[j]
           /\ \A j \in Job : Unqueued(s, j) => Unqueued(t, j)
<1> DEFINE t == Replied(s, phase)
           moved(i) == [s.jobs[i] EXCEPT !.phase = phase]
           answered == [i \in Job |-> IF s.jobs[i].phase = "await" THEN moved(i) ELSE s.jobs[i]]
<1>1. s \in BackendRecord /\ s.jobs \in [Job -> JobRecord]
  BY DEF Sound, BackendRecord
<1>2. \A i \in Job : /\ moved(i) \in JobRecord /\ moved(i).kind = s.jobs[i].kind
                     /\ moved(i).phase = phase /\ moved(i).cancelled = s.jobs[i].cancelled
  BY <1>1 DEF JobRecord
<1>3. t.jobs = answered
  BY <1>1 DEF BackendRecord, Replied
<1> HIDE DEF moved
<1>4. t.jobs \in [Job -> JobRecord]
  BY <1>1, <1>2, <1>3
<1>5. \A i \in Job : /\ t.jobs[i].kind = s.jobs[i].kind /\ t.jobs[i].cancelled = s.jobs[i].cancelled
                     /\ s.jobs[i].phase = "await" => t.jobs[i].phase = phase
                     /\ s.jobs[i].phase # "await" => t.jobs[i] = s.jobs[i]
  BY <1>2, <1>3
<1>6. /\ SameShown(s, t) /\ SameAgent(s, t) /\ t.ready = s.ready
      /\ t.delays = s.delays /\ t.wireGuardIo = s.wireGuardIo
  BY <1>1 DEF BackendRecord, Replied, SameShown, SameAgent
<1>7. t \in BackendRecord
  BY <1>1, <1>4 DEF BackendRecord, Replied
<1> HIDE DEF t
<1>8. Queues(t)
  <2>1. ASSUME NEW q \in Seq(Job), NEW phases, Waiting(q, s.jobs, phases), "await" \notin phases
        PROVE  Waiting(q, t.jobs, phases)
    <3>1. \A k \in DOMAIN q : q[k] \in Job
      OBVIOUS
    <3> QED BY <1>5, <2>1, <3>1 DEF Waiting
  <2>2. s.ready \in Seq(Job) /\ s.delays \in Seq(Job) /\ s.wireGuardIo \in Seq(Job)
    BY <1>1 DEF BackendRecord
  <2>3. /\ Waiting(s.ready, s.jobs, {"ready"}) /\ Waiting(s.delays, s.jobs, {"delay"})
        /\ Waiting(s.wireGuardIo, s.jobs, {"down", "up"})
    BY DEF Sound, Queues
  <2>4. "await" \notin {"ready"} /\ "await" \notin {"delay"} /\ "await" \notin {"down", "up"}
    OBVIOUS
  <2>5. /\ Waiting(s.ready, t.jobs, {"ready"}) /\ Waiting(s.delays, t.jobs, {"delay"})
        /\ Waiting(s.wireGuardIo, t.jobs, {"down", "up"})
    BY <2>1, <2>2, <2>3, <2>4
  <2> QED BY <1>6, <2>5 DEF Queues
<1>9. \A i \in Job : Consistent(t.jobs[i])
  BY <1>5 DEF Sound, Consistent, Fits
<1>10. Pointers(t)
  BY <1>1, <1>5, <1>6 DEF Sound, Pointers, SameAgent, BackendRecord
<1>11. Tracked(t)
  BY <1>5, <1>6 DEF Sound, Tracked, SameAgent
<1>12. Free(t) = Free(s)
  BY <1>5, <1>6 DEF Free, SameAgent
<1>13. Kept(s, t)
  <2>1. \A i \in Job : s.jobs[i].kind \in CommandKinds => s.jobs[i].phase # "await"
    BY DEF Sound, Consistent, Fits, CommandKinds
  <2> QED BY <1>5, <1>6, <2>1 DEF Kept
<1>14. \A j \in Job : Unqueued(s, j) => Unqueued(t, j)
  BY <1>6 DEF Unqueued
<1> QED BY <1>5, <1>6, <1>7, <1>8, <1>9, <1>10, <1>11, <1>12, <1>13, <1>14 DEF Sound, t

\* An agent that is created by a job that was not cancelled replaces no other.
LEMMA Creating ==
    ASSUME NEW s, Sound(s), Settled(s, callback), NEW i \in Job, s.jobs[i].kind = "agent"
    PROVE  LET t == CreateAgent(s, i) IN Sound(t) /\ Kept(s, t) /\ Settled(t, callback)
              /\ t.vpnProtocolState = s.vpnProtocolState
<1> DEFINE t == CreateAgent(s, i)
           e == End(s, i)
<1>1. s.jobs[i].phase # "run" /\ s.jobs[i].kind \notin CommandKinds
  BY DEF Sound, Consistent, Fits, CommandKinds
<1>2. /\ Sound(e) /\ e.jobs = [s.jobs EXCEPT ![i] = NoJob] /\ SameShown(s, e) /\ SameAgent(s, e)
  BY Ending, Zenon
<1>3. Kept(s, e)
  BY <1>1, OwnEnding
<1>4. s \in BackendRecord /\ s.jobs \in [Job -> JobRecord] /\ s.strays \in Nat /\ s.late \in BOOLEAN
      /\ s.jobs[i].cancelled \in BOOLEAN
  BY DEF Sound, BackendRecord, JobRecord
<1>5. t = [e EXCEPT !.agent = "Connecting",
                    !.strays = IF s.agent = "null" THEN @ ELSE @ + 1,
                    !.late = @ \/ s.jobs[i].cancelled]
  BY DEF CreateAgent
<1> HIDE DEF e, t
<1>6. e \in BackendRecord /\ e.strays = s.strays /\ e.late = s.late
  BY <1>2 DEF Sound, SameAgent
<1>7. /\ t \in BackendRecord /\ t.jobs = e.jobs /\ t.ready = e.ready /\ t.delays = e.delays
      /\ t.wireGuardIo = e.wireGuardIo /\ SameShown(e, t)
      /\ t.agentConnectionJob = e.agentConnectionJob /\ t.reconnectionJob = e.reconnectionJob
      /\ t.agent = "Connecting" /\ t.late = (s.late \/ s.jobs[i].cancelled)
      /\ t.strays = IF s.agent = "null" THEN s.strays ELSE s.strays + 1
  <2> DEFINE strays == IF s.agent = "null" THEN s.strays ELSE s.strays + 1
             late == s.late \/ s.jobs[i].cancelled
  <2>1. e.strays = s.strays /\ e.late = s.late
    BY <1>6
  <2>2. t = [e EXCEPT !.agent = "Connecting", !.strays = strays, !.late = late]
    BY <1>5, <1>6 DEF BackendRecord
  <2>3. strays \in Nat /\ late \in BOOLEAN
    BY <1>4
  <2> HIDE DEF strays, late
  <2>4. /\ t \in BackendRecord /\ t.jobs = e.jobs /\ t.ready = e.ready /\ t.delays = e.delays
        /\ t.wireGuardIo = e.wireGuardIo /\ SameShown(e, t)
        /\ t.agentConnectionJob = e.agentConnectionJob /\ t.reconnectionJob = e.reconnectionJob
        /\ t.agent = "Connecting" /\ t.late = late /\ t.strays = strays
    BY <1>6, <2>2, <2>3 DEF BackendRecord, SameShown
  <2> QED BY <2>4 DEF strays, late
<1>8. \A j \in Job : t.jobs[j].kind = "agent" => j # i /\ t.jobs[j] = s.jobs[j]
  BY <1>2, <1>4, <1>7, NoJobTyped
<1>9. Tracked(t)
  <2>1. ASSUME ~t.late, NEW j \in Job, t.jobs[j].kind = "agent", ~t.jobs[j].cancelled
        PROVE  FALSE
    <3>1. j # i /\ s.jobs[j].kind = "agent" /\ ~s.jobs[j].cancelled
      BY <1>8, <2>1
    <3>2. ~s.late /\ ~s.jobs[i].cancelled
      BY <1>4, <1>7, <2>1
    <3> QED BY <3>1, <3>2 DEF Sound, Tracked
  <2>2. t.strays > 0 => t.late
    <3>1. CASE s.agent = "null"
      BY <1>7, <3>1 DEF Sound, Tracked
    <3>2. CASE s.agent # "null"
      <4>1. s.late \/ s.jobs[i].cancelled
        BY <3>2 DEF Sound, Tracked
      <4> QED BY <1>7, <4>1
    <3> QED BY <3>1, <3>2
  <2> QED BY <2>1, <2>2 DEF Tracked
<1>10. Sound(t)
  BY <1>2, <1>7, <1>9 DEF Sound, Queues, Pointers
<1>11. Kept(s, t)
  <2>1. Kept(e, t)
    BY <1>7 DEF Kept
  <2> QED BY <1>3, <2>1, KeptTransitive
<1>12. Settled(t, callback) /\ t.vpnProtocolState = s.vpnProtocolState
  BY <1>2, <1>7 DEF Settled, Correcting, Shown, View, SameShown
<1> QED BY <1>10, <1>11, <1>12 DEF t

----------------------------------------------------------------------------
\* The inductive invariant.

\* No coroutine runs.
Idle(s) == \A i \in Job : s.jobs[i].phase # "run"

\* onState has read the state of the protocol; what is acted on is an error.
CallbackFits(c) ==
    /\ c.step \in {"read", "post"} => c.vpnState # "none"
    /\ c.step = "connect" => c.vpnState # "none"
    /\ c.step = "act" => c.report \in {"expired", "unknownCA", "revoked", "fatal"}

\* The types of the variables other than b.
Typed ==
    /\ callback \in CallbackRecord /\ CallbackFits(callback)
    /\ manager \in [active : BOOLEAN, lastProfile : BOOLEAN, ongoingConnect : Job \cup {0},
                    asked : Commands \cup {"none"}, reached : BOOLEAN]
    /\ cert \in [valid : BOOLEAN, request : BOOLEAN, key : Nat]
    /\ wg \in [state : {"closed", "Connecting", "Connected", "Error"}, key : Nat,
               by : {"connect", "revoked", "reconnect"}, reports : Seq(VpnStates),
               flapped : BOOLEAN]
    /\ count \in [commands : 0..MaxCommands, events : 0..MaxInputs]

\* The last report tells the state of the tunnel; without reports the state of
\* the protocol is not ahead of it.
Reported(s, tunnel) ==
    /\ Len(tunnel.reports) # 0 =>
            tunnel.reports[Len(tunnel.reports)] =
                IF tunnel.state = "closed" THEN "Disabled" ELSE tunnel.state
    /\ Len(tunnel.reports) = 0 /\ s.vpnProtocolState = "Connected" => tunnel.state = "Connected"

\* The manager knows the one connect job, and nothing cancels another command.
Commanded(s, m) ==
    /\ m.ongoingConnect # 0 =>
            s.jobs[m.ongoingConnect].kind \notin {"disconnect", "reconnect", "fail"}
    /\ \A i \in Job : s.jobs[i].kind = "connect" => i = m.ongoingConnect
    /\ \A i \in Job : s.jobs[i].kind \in CommandKinds => ~s.jobs[i].cancelled

IsReady(s, k, kind) == k \in DOMAIN s.ready /\ s.jobs[s.ready[k]].kind = kind

\* After a disconnect: every reconnect that has not run is followed by a
\* disconnect, ...
Followed(s) ==
    \A k \in DOMAIN s.ready : IsReady(s, k, "reconnect") =>
        \E l \in DOMAIN s.ready : k < l /\ IsReady(s, l, "disconnect")

\* ... a connect job has to wait for the disconnects that have not run, ...
Behind(s, active) ==
    \A k \in DOMAIN s.ready : IsReady(s, k, "disconnect") =>
        \A i \in Job : s.jobs[i].kind = "connect" =>
            /\ s.jobs[i].phase = "ready" /\ ~active
            /\ \A l \in DOMAIN s.ready : s.ready[l] = i => k < l

\* A disconnect has not run yet; one is closing the tunnel.
Disconnects(s) == \E k \in DOMAIN s.ready : IsReady(s, k, "disconnect")

Closes(s) == \E i \in Job : s.jobs[i].kind = "disconnect" /\ s.jobs[i].phase \in {"delay", "down"}

\* ... and one that found a backend closes what a connect job opened.
Obeyed(s, m, tunnel) ==
    m.asked = "disconnect" =>
        /\ Followed(s) /\ Behind(s, m.active)
        /\ m.reached => /\ (\E i \in Job : s.jobs[i].kind = "connect") => Disconnects(s)
                        /\ tunnel.state = "closed" \/ tunnel.by # "connect" \/ Closes(s)

\* The invariant: every part but Typed and Reported is about the backend and its
\* coroutines, so that the lemmas on its operators give them.
IInv ==
    /\ Typed
    /\ Sound(b) /\ Idle(b) /\ Settled(b, callback)
    /\ Reported(b, wg)
    /\ Commanded(b, manager)
    /\ Obeyed(b, manager, wg)

----------------------------------------------------------------------------
\* What is left of a queue is in the same order.
LEMMA WithoutOrder ==
    ASSUME NEW queue \in Seq(Job), \A k, l \in DOMAIN queue : queue[k] = queue[l] => k = l, NEW i
    PROVE  /\ \A m \in DOMAIN queue : queue[m] # i =>
                 \E k \in DOMAIN Without(queue, i) : Without(queue, i)[k] = queue[m]
           /\ \A k, l \in DOMAIN Without(queue, i) : \A m, n \in DOMAIN queue :
                 Without(queue, i)[k] = queue[m] /\ Without(queue, i)[l] = queue[n] /\ m < n => k < l
<1>1. CASE ~ \E k \in DOMAIN queue : queue[k] = i
  <2>1. Without(queue, i) = queue
    BY <1>1 DEF Without
  <2>2. \A m \in DOMAIN queue : \E k \in DOMAIN queue : queue[k] = queue[m]
    OBVIOUS
  <2>3. ASSUME NEW k \in DOMAIN queue, NEW l \in DOMAIN queue, NEW m \in DOMAIN queue,
               NEW n \in DOMAIN queue, queue[k] = queue[m], queue[l] = queue[n], m < n
        PROVE  k < l
    <3>1. k = m /\ l = n
      BY <2>3
    <3> QED BY <2>3, <3>1
  <2> QED BY <2>1, <2>2, <2>3
<1>2. CASE \E k \in DOMAIN queue : queue[k] = i
  <2> DEFINE place == CHOOSE k \in DOMAIN queue : queue[k] = i
             result == [k \in 1..Len(queue) - 1 |-> IF k < place THEN queue[k] ELSE queue[k + 1]]
             source(k) == IF k < place THEN k ELSE k + 1
  <2>1. place \in 1..Len(queue) /\ queue[place] = i /\ DOMAIN queue = 1..Len(queue) /\ Len(queue) \in Nat
    BY <1>2
  <2>2. Without(queue, i) = result /\ DOMAIN result = 1..Len(queue) - 1
    BY <1>2 DEF Without
  <2> HIDE DEF place
  <2>3. \A k \in 1..Len(queue) - 1 : source(k) \in 1..Len(queue) /\ result[k] = queue[source(k)]
    BY <2>1
  <2>4. \A m \in 1..Len(queue) : m # place => \E k \in 1..Len(queue) - 1 : source(k) = m
    <3> SUFFICES ASSUME NEW m \in 1..Len(queue), m # place
                 PROVE  \E k \in 1..Len(queue) - 1 : source(k) = m
      OBVIOUS
    <3>1. CASE m < place
      <4>1. m \in 1..Len(queue) - 1 /\ source(m) = m
        BY <2>1, <3>1
      <4> QED BY <4>1
    <3>2. CASE place < m
      <4>1. m - 1 \in 1..Len(queue) - 1 /\ source(m - 1) = m
        BY <2>1, <3>2
      <4> QED BY <4>1
    <3> QED BY <2>1, <3>1, <3>2
  <2>5. \A k, l \in 1..Len(queue) - 1 : source(k) < source(l) => k < l
    BY <2>1
  <2> HIDE DEF result, source
  <2>6. ASSUME NEW m \in DOMAIN queue, queue[m] # i
        PROVE  \E k \in DOMAIN result : result[k] = queue[m]
    <3>1. m \in 1..Len(queue) /\ m # place
      BY <2>1, <2>6
    <3>2. PICK k \in 1..Len(queue) - 1 : source(k) = m
      BY <2>4, <3>1
    <3> QED BY <2>2, <2>3, <3>2
  <2>7. ASSUME NEW k \in DOMAIN result, NEW l \in DOMAIN result, NEW m \in DOMAIN queue,
               NEW n \in DOMAIN queue, result[k] = queue[m], result[l] = queue[n], m < n
        PROVE  k < l
    <3>1. /\ k \in 1..Len(queue) - 1 /\ l \in 1..Len(queue) - 1
          /\ source(k) \in DOMAIN queue /\ source(l) \in DOMAIN queue
          /\ queue[source(k)] = queue[m] /\ queue[source(l)] = queue[n]
      BY <2>1, <2>2, <2>3, <2>7
    <3>2. source(k) = m /\ source(l) = n
      BY <3>1
    <3> QED BY <2>5, <2>7, <3>1, <3>2
  <2> QED BY <2>2, <2>6, <2>7
<1> QED BY <1>1, <1>2

\* The coroutine at a place of the queue of the main thread.
LEMMA ReadyJobs ==
    ASSUME NEW s, Sound(s)
    PROVE  /\ s.ready \in Seq(Job)
           /\ \A k \in DOMAIN s.ready : s.ready[k] \in Job /\ s.jobs[s.ready[k]].phase = "ready"
           /\ \A k, l \in DOMAIN s.ready : s.ready[k] = s.ready[l] => k = l
<1>1. s.ready \in Seq(Job)
  BY DEF Sound, BackendRecord
<1>2. \A k \in DOMAIN s.ready : s.ready[k] \in Job
  BY <1>1
<1> QED BY <1>1, <1>2 DEF Sound, Queues, Waiting

\* What is kept keeps the rest of the invariant.
LEMMA KeptHolds ==
    ASSUME NEW s, Sound(s), NEW t, Kept(s, t), NEW m, m.ongoingConnect \in Job \cup {0}, NEW w,
           Idle(s), Commanded(s, m), Obeyed(s, m, w)
    PROVE  Idle(t) /\ Commanded(t, m) /\ Obeyed(t, m, w)
<1>1. Idle(t)
  BY DEF Idle, Kept
<1>2. Commanded(t, m)
  BY DEF Commanded, Kept, CommandKinds
<1>3. /\ t.ready = s.ready
      /\ \A i \in Job : s.jobs[i].kind \in CommandKinds \/ t.jobs[i].kind \in CommandKinds
                          => t.jobs[i].kind = s.jobs[i].kind /\ t.jobs[i].phase = s.jobs[i].phase
  BY DEF Kept
<1>4. \A kind \in CommandKinds : \A k \in DOMAIN s.ready : IsReady(t, k, kind) <=> IsReady(s, k, kind)
  BY <1>3, ReadyJobs DEF IsReady
<1>5. Followed(s) => Followed(t)
  BY <1>3, <1>4 DEF Followed, CommandKinds
<1>6. Disconnects(s) => Disconnects(t)
  BY <1>3, <1>4 DEF Disconnects, CommandKinds
<1>7. \A i \in Job : t.jobs[i].kind = "connect" => s.jobs[i].kind = "connect" /\ t.jobs[i].phase = s.jobs[i].phase
  BY <1>3 DEF CommandKinds
<1>8. Behind(s, m.active) => Behind(t, m.active)
  BY <1>3, <1>4, <1>7 DEF Behind, CommandKinds
<1>9. Closes(s) => Closes(t)
  BY <1>3 DEF Closes, CommandKinds
<1>10. Obeyed(t, m, w)
  BY <1>5, <1>6, <1>7, <1>8, <1>9 DEF Obeyed
<1> QED BY <1>1, <1>2, <1>10

\* So does a step of a coroutine that has left the queue of the main thread,
\* provided that no disconnect is still to come when it is a connect job.
LEMMA RunningOn ==
    ASSUME NEW s, Sound(s), NEW t, NEW i \in Job, KeptBut(s, t, i),
           \A k \in DOMAIN s.ready : s.ready[k] # i,
           NEW m, m.ongoingConnect \in Job \cup {0}, NEW n, NEW w, NEW v,
           Idle(s), Commanded(s, m), Obeyed(s, m, w),
           n.asked = m.asked, n.reached = m.reached, n.ongoingConnect = m.ongoingConnect,
           n.active => m.active \/ s.jobs[i].kind = "connect",
           m.asked = "disconnect" /\ s.jobs[i].kind = "connect" => ~Disconnects(s),
           \/ t.jobs[i].kind = "none"
           \/ t.jobs[i].kind = s.jobs[i].kind /\ (s.jobs[i].cancelled \/ ~t.jobs[i].cancelled),
           m.asked = "disconnect" /\ m.reached =>
               v.state = "closed" \/ v.by # "connect" \/ Closes(t)
    PROVE  Idle(t) /\ Commanded(t, n) /\ Obeyed(t, n, v) /\ (Disconnects(s) => Disconnects(t))
<1>0. \A k \in DOMAIN s.ready : s.ready[k] \in Job
  BY ReadyJobs
<1>1. Idle(t)
  BY DEF Idle, KeptBut
<1>2. t.jobs[i].kind \in CommandKinds => t.jobs[i].kind = s.jobs[i].kind /\ ~t.jobs[i].cancelled
  BY DEF Commanded, CommandKinds
<1>3. \A j \in Job : t.jobs[j].kind \in CommandKinds => t.jobs[j].kind = s.jobs[j].kind
  BY <1>2 DEF KeptBut
<1>4. Commanded(t, n)
  <2>1. n.ongoingConnect # 0 =>
            t.jobs[n.ongoingConnect].kind \notin {"disconnect", "reconnect", "fail"}
    BY <1>3 DEF Commanded, CommandKinds
  <2>2. \A j \in Job : t.jobs[j].kind = "connect" => j = n.ongoingConnect
    BY <1>3 DEF Commanded, CommandKinds
  <2>3. \A j \in Job : t.jobs[j].kind \in CommandKinds => ~t.jobs[j].cancelled
    BY <1>2 DEF Commanded, KeptBut
  <2> QED BY <2>1, <2>2, <2>3 DEF Commanded
<1>5. t.ready = s.ready /\ \A k \in DOMAIN s.ready : s.ready[k] \in Job \ {i}
  BY <1>0 DEF KeptBut
<1>6. \A kind \in CommandKinds : \A k \in DOMAIN s.ready : IsReady(t, k, kind) <=> IsReady(s, k, kind)
  BY <1>5 DEF IsReady, KeptBut
<1>7. Followed(s) => Followed(t)
  BY <1>5, <1>6 DEF Followed, CommandKinds
<1>8. Disconnects(s) => Disconnects(t)
  BY <1>5, <1>6 DEF Disconnects, CommandKinds
<1>9. m.asked = "disconnect" /\ Behind(s, m.active) => Behind(t, n.active)
  <2> SUFFICES ASSUME m.asked = "disconnect", Behind(s, m.active), NEW k \in DOMAIN t.ready, IsReady(t, k, "disconnect"),
                      NEW j \in Job, t.jobs[j].kind = "connect"
               PROVE  /\ t.jobs[j].phase = "ready" /\ ~n.active
                      /\ \A l \in DOMAIN t.ready : t.ready[l] = j => k < l
    BY DEF Behind
  <2>1. k \in DOMAIN s.ready /\ IsReady(s, k, "disconnect")
    BY <1>5, <1>6 DEF CommandKinds
  <2>2. s.jobs[i].kind # "connect"
    BY <2>1 DEF Disconnects
  <2>3. s.jobs[j].kind = "connect" /\ j # i
    BY <1>3, <2>2 DEF CommandKinds
  <2>4. t.jobs[j].phase = s.jobs[j].phase
    BY <2>3 DEF KeptBut, CommandKinds
  <2> QED BY <1>5, <2>1, <2>2, <2>3, <2>4 DEF Behind
<1>10. Obeyed(t, n, v)
  BY <1>3, <1>7, <1>8, <1>9 DEF Obeyed, CommandKinds
<1> QED BY <1>1, <1>4, <1>8, <1>10

\* The invariant's parts about commands, when a coroutine goes on that the
\* main thread had already come to.
LEMMA Advancing ==
    ASSUME NEW s, Sound(s), NEW t, NEW i \in Job, KeptBut(s, t, i), s.jobs[i].phase # "ready",
           NEW m, m.ongoingConnect \in Job \cup {0}, NEW n, NEW w, NEW v,
           Idle(s), Commanded(s, m), Obeyed(s, m, w),
           n.asked = m.asked, n.reached = m.reached, n.ongoingConnect = m.ongoingConnect,
           n.active => m.active \/ s.jobs[i].kind = "connect",
           \/ t.jobs[i].kind = "none"
           \/ t.jobs[i].kind = s.jobs[i].kind /\ (s.jobs[i].cancelled \/ ~t.jobs[i].cancelled),
           m.asked = "disconnect" /\ m.reached =>
               v.state = "closed" \/ v.by # "connect" \/ Closes(t)
    PROVE  Idle(t) /\ Commanded(t, n) /\ Obeyed(t, n, v)
<1>1. \A k \in DOMAIN s.ready : s.ready[k] # i
  BY ReadyJobs
<1>2. m.asked = "disconnect" /\ s.jobs[i].kind = "connect" => ~Disconnects(s)
  BY DEF Obeyed, Disconnects, Behind
<1> QED BY <1>1, <1>2, RunningOn, Zenon

\* A disconnect that is closing the tunnel goes on.
LEMMA StillCloses ==
    ASSUME NEW s, NEW t, NEW i \in Job, KeptBut(s, t, i), Closes(s),
           \/ s.jobs[i].kind # "disconnect"
           \/ t.jobs[i].kind = "disconnect" /\ t.jobs[i].phase \in {"delay", "down"}
    PROVE  Closes(t)
BY DEF Closes, KeptBut, CommandKinds

----------------------------------------------------------------------------
\* The steps.

\* The invariant in the form the lemmas about the backend need it.
LEMMA Facts ==
    ASSUME IInv
    PROVE  /\ b \in BackendRecord /\ b.jobs \in [Job -> JobRecord] /\ cert.key \in Nat
           /\ manager.ongoingConnect \in Job \cup {0}
           /\ \A i \in Job : Fits(b.jobs[i].kind, b.jobs[i].phase) /\ b.jobs[i].phase # "run"
BY DEF IInv, Typed, Sound, BackendRecord, Consistent, Idle

\* The end of a delay keeps the invariant.
LEMMA DelayEndsStep ==
    ASSUME IInv, DelayEnds
    PROVE  IInv'
<1> DEFINE i == Head(b.delays)
           d == WithDelays(b, Tail(b.delays))
           e == Moved(d, i, "down")
           t == WithIo(e, Append(e.wireGuardIo, i))
<1>1. b.delays # <<>> /\ UNCHANGED <<callback, manager, cert, wg, count>>
  BY DEF DelayEnds
<1>2. b' = t
  BY Facts DEF DelayEnds, WithDelays, Moved, WithIo, BackendRecord
<1>3. /\ Sound(d) /\ SameShown(b, d) /\ SameAgent(b, d) /\ d.jobs = b.jobs /\ d.ready = b.ready
      /\ i \in Job /\ b.jobs[i].phase = "delay" /\ Unqueued(d, i)
  BY <1>1, DelayTaken DEF IInv
<1>4. Fits(b.jobs[i].kind, "down")
  BY <1>3, Facts DEF Fits
<1> HIDE DEF d, i
<1>5. /\ Sound(e) /\ SameShown(d, e) /\ SameAgent(d, e) /\ Unqueued(e, i) /\ e.ready = d.ready
      /\ e.jobs[i].phase = "down" /\ e.jobs[i].kind = d.jobs[i].kind
      /\ e.jobs[i].cancelled = d.jobs[i].cancelled
      /\ \A j \in Job : j # i => e.jobs[j] = d.jobs[j]
  BY <1>3, <1>4, Moving
<1> HIDE DEF e
<1>6. Append(e.wireGuardIo, i) \in Seq(Job)
  BY <1>3, <1>5 DEF Sound, BackendRecord
<1>7. /\ t \in BackendRecord /\ SameAgent(e, t) /\ SameShown(e, t) /\ t.jobs = e.jobs /\ t.ready = e.ready
      /\ t.delays = e.delays /\ t.wireGuardIo = Append(e.wireGuardIo, i)
  BY <1>5, <1>6 DEF Sound, BackendRecord, WithIo, SameAgent, SameShown
<1> HIDE DEF t
<1>8. Sound(t)
  BY <1>3, <1>5, <1>7, Queueing
<1>9. /\ \A j \in Job \ {i} : t.jobs[j] = b.jobs[j]
      /\ t.jobs[i].kind = b.jobs[i].kind /\ t.jobs[i].cancelled = b.jobs[i].cancelled
      /\ t.jobs[i].phase = "down" /\ t.ready = b.ready
  BY <1>3, <1>5, <1>7
<1>10. KeptBut(b, t, i)
  BY <1>9 DEF KeptBut
<1>11. SameShown(b, t) /\ t.agent = b.agent
  BY <1>3, <1>5, <1>7 DEF SameShown, SameAgent
<1>12. Settled(t, callback) /\ Reported(t, wg)
  BY <1>11 DEF IInv, Settled, Correcting, Shown, View, SameShown, Reported
<1>13. Closes(b) => Closes(t)
  BY <1>3, <1>9, <1>10, StillCloses
<1>14. manager.asked = "disconnect" /\ manager.reached =>
            wg.state = "closed" \/ wg.by # "connect" \/ Closes(t)
  BY <1>13 DEF IInv, Obeyed
<1>16. /\ Sound(b) /\ Idle(b) /\ Commanded(b, manager) /\ Obeyed(b, manager, wg)
       /\ manager.ongoingConnect \in Job \cup {0}
  BY Facts DEF IInv
<1>15. Idle(t) /\ Commanded(t, manager) /\ Obeyed(t, manager, wg)
  BY <1>3, <1>9, <1>10, <1>14, <1>16, Advancing, ZenonT(60)
<1> QED BY <1>1, <1>2, <1>8, <1>12, <1>15 DEF IInv, Typed

\* Opening the tunnel keeps the invariant.
LEMMA TunnelUpStep ==
    ASSUME IInv, TunnelUp
    PROVE  IInv'
<1> DEFINE i == Head(b.wireGuardIo)
           e == End(b, i)
<1>1. /\ b.wireGuardIo # <<>> /\ b.jobs[i].phase = "up" /\ UNCHANGED <<callback, manager, cert, count>>
  BY DEF TunnelUp
<1>2. i \in Job
  BY <1>1, IoTaken DEF IInv
<1>3. b.jobs[i].kind \in {"connect", "reconnect", "revoked"}
  BY <1>1, <1>2, Facts DEF Fits
<1>4. /\ Sound(e) /\ SameShown(b, e) /\ SameAgent(b, e) /\ e.jobs = [b.jobs EXCEPT ![i] = NoJob]
      /\ (\A k \in DOMAIN b.ready : b.ready[k] # i) => e.ready = b.ready
  BY <1>2, Ending, Zenon DEF IInv
<1>5. e.ready = b.ready
  BY <1>1, <1>4, ReadyJobs DEF IInv
<1> HIDE DEF e
<1>6. e.jobs[i] = NoJob /\ \A j \in Job : j # i => e.jobs[j] = b.jobs[j]
  BY <1>2, <1>4, Facts
<1>7. ASSUME NEW t, Sound(t), t.jobs = e.jobs, t.ready = e.ready, NEW v,
             manager.asked = "disconnect" /\ manager.reached =>
               v.state = "closed" \/ v.by # "connect" \/ Closes(t)
      PROVE  Idle(t) /\ Commanded(t, manager) /\ Obeyed(t, manager, v)
  <2>1. KeptBut(b, t, i)
    BY <1>5, <1>6, <1>7, NoJobTyped DEF KeptBut
  <2>2. t.jobs[i].kind = "none"
    BY <1>6, <1>7, NoJobTyped
  <2> QED BY <1>1, <1>2, <1>7, <2>1, <2>2, Facts, Advancing DEF IInv
<1>8. CASE /\ wg' = [wg EXCEPT !.state = "Connecting", !.key = b.jobs[i].key,
                                !.by = b.jobs[i].kind, !.reports = Append(@, "Connecting")]
           /\ b' = e
  <2>1. /\ wg'.state = "Connecting" /\ wg'.by = b.jobs[i].kind
        /\ wg'.reports = Append(wg.reports, "Connecting") /\ wg.reports \in Seq(VpnStates)
    BY <1>8 DEF IInv, Typed
  <2>2. manager.asked = "disconnect" /\ manager.reached => wg'.by # "connect"
    <3> SUFFICES ASSUME manager.asked = "disconnect", manager.reached, b.jobs[i].kind = "connect"
                 PROVE  FALSE
      BY <2>1
    <3>1. Disconnects(b) /\ Behind(b, manager.active)
      BY <1>2 DEF IInv, Obeyed
    <3>2. b.jobs[i].phase = "ready"
      BY <1>2, <3>1 DEF Disconnects, Behind
    <3> QED BY <1>1, <3>2
  <2>3. Idle(e) /\ Commanded(e, manager) /\ Obeyed(e, manager, wg')
    BY <1>4, <1>7, <2>2
  <2>4. Reported(e, wg')
    BY <2>1 DEF Reported
  <2>5. Settled(e, callback)
    BY <1>4 DEF IInv, Settled, Correcting, Shown, View, SameShown, SameAgent
  <2>6. Typed'
    <3>1. "Connecting" \in VpnStates
      BY DEF VpnStates
    <3>2. Append(wg.reports, "Connecting") \in Seq(VpnStates) /\ b.jobs[i].key \in Nat
      BY <1>2, <2>1, <3>1, Facts DEF JobRecord
    <3> QED BY <1>1, <1>3, <1>8, <3>2 DEF IInv, Typed
  <2> QED BY <1>1, <1>4, <1>8, <2>3, <2>4, <2>5, <2>6 DEF IInv
<1>9. CASE wg.state = "closed" /\ b' = SetFinalError(e) /\ UNCHANGED wg
  <2> DEFINE t == SetFinalError(e)
  <2>1. /\ t \in BackendRecord /\ SameAgent(e, t) /\ t.jobs = e.jobs /\ t.ready = e.ready
        /\ t.delays = e.delays /\ t.wireGuardIo = e.wireGuardIo /\ t.selfState = "Failed"
        /\ t.posted = e.posted /\ t.vpnProtocolState = e.vpnProtocolState
    BY <1>4 DEF Sound, BackendRecord, SameAgent, SetFinalError
  <2> HIDE DEF t
  <2>2. Sound(t)
    BY <1>4, <2>1, Unrelated
  <2>3. Idle(t) /\ Commanded(t, manager) /\ Obeyed(t, manager, wg)
    BY <1>7, <1>9, <2>1, <2>2
  <2>4. Settled(t, callback) /\ Reported(t, wg)
    BY <1>4, <2>1 DEF IInv, Settled, Correcting, Shown, View, SameShown, SameAgent, Reported
  <2> QED BY <1>1, <1>9, <2>2, <2>3, <2>4 DEF IInv, Typed, t
<1> QED BY <1>8, <1>9 DEF TunnelUp, e, i

\* Coroutine i has left wireGuardIo.
LEMMA TunnelDownStep ==
    ASSUME IInv, TunnelDown
    PROVE  IInv'
<1> DEFINE i == Head(b.wireGuardIo)
           s == WithIo(b, Tail(b.wireGuardIo))
           e == End(s, i)
<1>1. /\ b.wireGuardIo # <<>> /\ b.jobs[i].phase = "down" /\ UNCHANGED <<callback, cert, count>>
  BY DEF TunnelDown
<1>2. /\ Sound(s) /\ SameShown(b, s) /\ SameAgent(b, s) /\ s.jobs = b.jobs /\ s.ready = b.ready
      /\ i \in Job /\ Unqueued(s, i)
  BY <1>1, IoTaken DEF IInv
<1>3. s = [b EXCEPT !.wireGuardIo = Tail(@)]
  BY DEF WithIo
<1>4. /\ wg' = [wg EXCEPT !.state = "closed",
                          !.reports = IF wg.state = "closed" THEN @ ELSE Append(@, "Disabled")]
      /\ CASE s.jobs[i].kind = "fail" ->
                    b' = SetFinalError(End(s, i)) /\ UNCHANGED manager
             [] s.jobs[i].kind = "disconnect" ->
                    b' = End(s, i) /\ manager' = [manager EXCEPT !.active = FALSE]
             [] s.jobs[i].kind = "connect" ->
                    b' = [s EXCEPT !.jobs[i].phase = "prepare"] /\ UNCHANGED manager
             [] OTHER ->
                    b' = Connect(s, i) /\ UNCHANGED manager
  BY DEF TunnelDown, WithIo
<1> HIDE DEF s, i
<1>5. b.jobs[i].kind \in {"connect", "disconnect", "reconnect", "revoked", "fail"}
  BY <1>1, <1>2, Facts DEF Fits
<1>6. /\ Sound(e) /\ SameShown(s, e) /\ SameAgent(s, e) /\ e.jobs = [s.jobs EXCEPT ![i] = NoJob]
      /\ e.ready = s.ready
  <2>1. (\A k \in DOMAIN s.ready : s.ready[k] # i) => e.ready = s.ready
    BY <1>2, Ending, Zenon
  <2>2. \A k \in DOMAIN s.ready : s.ready[k] # i
    BY <1>2 DEF Unqueued
  <2> QED BY <1>2, <2>1, <2>2, Ending, Zenon
<1>7. Settled(s, callback)
  BY <1>2 DEF IInv, Settled, Correcting, Shown, View, SameShown, SameAgent
<1>8. /\ wg'.state = "closed"
      /\ wg'.reports = IF wg.state = "closed" THEN wg.reports ELSE Append(wg.reports, "Disabled")
      /\ wg.reports \in Seq(VpnStates)
  BY <1>4 DEF IInv, Typed
<1>9. wg' \in [state : {"closed", "Connecting", "Connected", "Error"}, key : Nat,
               by : {"connect", "revoked", "reconnect"}, reports : Seq(VpnStates),
               flapped : BOOLEAN]
  <2>1. wg'.reports \in Seq(VpnStates)
    BY <1>8 DEF VpnStates
  <2>2. (IF wg.state = "closed" THEN wg.reports ELSE Append(wg.reports, "Disabled")) \in Seq(VpnStates)
    BY <1>8, <2>1
  <2> QED BY <1>4, <2>2 DEF IInv, Typed
<1>10. ASSUME NEW t, t.vpnProtocolState # "Connected" \/ t.vpnProtocolState = b.vpnProtocolState
       PROVE  Reported(t, wg')
  <2>1. CASE wg.state = "closed"
    <3>1. wg'.reports = wg.reports /\ wg'.state = "closed"
      BY <1>8, <2>1
    <3> QED BY <1>10, <2>1, <3>1 DEF IInv, Reported
  <2>2. CASE wg.state # "closed"
    <3>1. wg'.reports = Append(wg.reports, "Disabled") /\ wg'.state = "closed"
      BY <1>8, <2>2
    <3>2. Len(wg'.reports) # 0 /\ wg'.reports[Len(wg'.reports)] = "Disabled"
      BY <1>8, <3>1
    <3> QED BY <3>1, <3>2 DEF Reported
  <2> QED BY <2>1, <2>2
<1>11. ASSUME NEW t, KeptBut(b, t, i), NEW n,
              n.asked = manager.asked, n.reached = manager.reached,
              n.ongoingConnect = manager.ongoingConnect, n.active => manager.active,
              \/ t.jobs[i].kind = "none"
              \/ t.jobs[i].kind = b.jobs[i].kind /\ (b.jobs[i].cancelled \/ ~t.jobs[i].cancelled)
       PROVE  Idle(t) /\ Commanded(t, n) /\ Obeyed(t, n, wg')
  <2>1. /\ Sound(b) /\ Idle(b) /\ Commanded(b, manager) /\ Obeyed(b, manager, wg)
        /\ i \in Job /\ b.jobs[i].phase # "ready" /\ manager.ongoingConnect \in Job \cup {0}
    BY <1>1, <1>2, Facts DEF IInv
  <2>2. n.active => manager.active \/ b.jobs[i].kind = "connect"
    BY <1>11
  <2>3. manager.asked = "disconnect" /\ manager.reached =>
               wg'.state = "closed" \/ wg'.by # "connect" \/ Closes(t)
    BY <1>8
  <2> QED BY <1>11, <2>1, <2>2, <2>3, Advancing, Zenon
<1>12. e.jobs[i] = NoJob /\ (\A j \in Job \ {i} : e.jobs[j] = b.jobs[j]) /\ e.ready = b.ready
  BY <1>2, <1>6, Facts
<1>13. CASE b.jobs[i].kind = "fail"
  <2> DEFINE t == SetFinalError(e)
  <2>1. b' = t /\ UNCHANGED manager
    BY <1>2, <1>4, <1>13
  <2>2. /\ t \in BackendRecord /\ SameAgent(e, t) /\ t.jobs = e.jobs /\ t.ready = e.ready
        /\ t.delays = e.delays /\ t.wireGuardIo = e.wireGuardIo /\ t.selfState = "Failed"
        /\ t.posted = e.posted /\ t.vpnProtocolState = e.vpnProtocolState
    BY <1>6 DEF Sound, BackendRecord, SameAgent, SetFinalError
  <2> HIDE DEF t, e
  <2>3. Sound(t)
    BY <1>6, <2>2, Unrelated
  <2>4. Settled(t, callback) /\ t.vpnProtocolState = b.vpnProtocolState
    BY <1>2, <1>6, <1>7, <2>2 DEF Settled, Correcting, Shown, View, SameShown, SameAgent
  <2>5. KeptBut(b, t, i) /\ t.jobs[i].kind = "none"
    BY <1>12, <2>2, NoJobTyped DEF KeptBut
  <2>6. Idle(t) /\ Commanded(t, manager) /\ Obeyed(t, manager, wg') /\ Reported(t, wg')
    BY <1>10, <1>11, <2>4, <2>5
  <2> QED BY <1>1, <1>9, <2>1, <2>3, <2>4, <2>6 DEF IInv, Typed
<1>14. CASE b.jobs[i].kind = "disconnect"
  <2>1. b' = e /\ manager' = [manager EXCEPT !.active = FALSE]
    BY <1>2, <1>4, <1>14
  <2> HIDE DEF e
  <2>2. Settled(e, callback) /\ e.vpnProtocolState = b.vpnProtocolState
    BY <1>2, <1>6, <1>7 DEF Settled, Correcting, Shown, View, SameShown, SameAgent
  <2>3. KeptBut(b, e, i) /\ e.jobs[i].kind = "none"
    BY <1>12, NoJobTyped DEF KeptBut
  <2>4. /\ manager'.asked = manager.asked /\ manager'.reached = manager.reached
        /\ manager'.ongoingConnect = manager.ongoingConnect /\ ~manager'.active
    BY <2>1 DEF IInv, Typed
  <2>5. Idle(e) /\ Commanded(e, manager') /\ Obeyed(e, manager', wg') /\ Reported(e, wg')
    BY <1>10, <1>11, <2>2, <2>3, <2>4
  <2>6. Typed'
    BY <1>1, <1>9, <2>1 DEF IInv, Typed
  <2> QED BY <1>1, <1>6, <2>1, <2>2, <2>5, <2>6 DEF IInv
<1>15. CASE b.jobs[i].kind = "connect"
  <2> DEFINE t == Moved(s, i, "prepare")
  <2>1. b' = t /\ UNCHANGED manager
    BY <1>2, <1>4, <1>15 DEF Moved
  <2>2. Fits(s.jobs[i].kind, "prepare") /\ s.jobs[i].phase # "ended"
    BY <1>1, <1>2, <1>15 DEF Fits
  <2>3. /\ Sound(t) /\ SameShown(s, t) /\ SameAgent(s, t) /\ t.ready = s.ready
        /\ t.jobs[i].phase = "prepare" /\ t.jobs[i].kind = s.jobs[i].kind
        /\ t.jobs[i].cancelled = s.jobs[i].cancelled
        /\ \A j \in Job : j # i => t.jobs[j] = s.jobs[j]
    BY <1>2, <2>2, Moving
  <2> HIDE DEF t
  <2>4. Settled(t, callback) /\ t.vpnProtocolState = b.vpnProtocolState
    BY <1>2, <1>7, <2>3 DEF Settled, Correcting, Shown, View, SameShown, SameAgent
  <2>5. KeptBut(b, t, i)
    BY <1>2, <2>3 DEF KeptBut
  <2>6. Idle(t) /\ Commanded(t, manager) /\ Obeyed(t, manager, wg') /\ Reported(t, wg')
    BY <1>2, <1>10, <1>11, <2>3, <2>4, <2>5
  <2> QED BY <1>1, <1>9, <2>1, <2>3, <2>4, <2>6 DEF IInv, Typed
<1>16. CASE b.jobs[i].kind \in {"reconnect", "revoked"}
  <2> DEFINE t == Connect(s, i)
  <2>1. b' = t /\ UNCHANGED manager
    BY <1>2, <1>4, <1>16
  <2>2. s.jobs[i].kind \in {"connect", "reconnect", "revoked"} /\ s.jobs[i].phase # "ended"
    BY <1>1, <1>2, <1>16
  <2>3. /\ Sound(t) /\ Settled(t, callback) /\ KeptBut(s, t, i) /\ Reaches(s, t, i, "up")
        /\ t.vpnProtocolState = "Connecting"
    BY <1>2, <1>7, <2>2, Facts, Connecting
  <2> HIDE DEF t
  <2>4. KeptBut(b, t, i)
    BY <1>2, <2>3 DEF KeptBut
  <2>5. \/ t.jobs[i].kind = "none"
        \/ t.jobs[i].kind = b.jobs[i].kind /\ (b.jobs[i].cancelled \/ ~t.jobs[i].cancelled)
    BY <1>2, <2>3, NoJobTyped DEF Reaches
  <2>6. Idle(t) /\ Commanded(t, manager) /\ Obeyed(t, manager, wg') /\ Reported(t, wg')
    BY <1>10, <1>11, <2>3, <2>4, <2>5
  <2> QED BY <1>1, <1>9, <2>1, <2>3, <2>6 DEF IInv, Typed
<1> QED BY <1>5, <1>13, <1>14, <1>15, <1>16

\* A step that keeps the commands and leaves the tunnel and the manager alone.
LEMMA KeptStep ==
    ASSUME IInv, Typed', UNCHANGED <<manager, wg>>, Sound(b'), Kept(b, b'), Settled(b', callback'),
           b'.vpnProtocolState = b.vpnProtocolState
    PROVE  IInv'
<1>1. Idle(b') /\ Commanded(b', manager) /\ Obeyed(b', manager, wg)
  BY Facts, KeptHolds DEF IInv
<1>2. Reported(b', wg)
  BY DEF IInv, Reported
<1> QED BY <1>1, <1>2 DEF IInv

\* The same for the step of a coroutine that runs.
LEMMA RunStep ==
    ASSUME IInv, Typed', UNCHANGED <<callback, wg>>, Sound(b'), Settled(b', callback), NEW i \in Job, KeptBut(b, b', i),
           b.jobs[i].phase # "ready", b.jobs[i].kind # "disconnect",
           b'.vpnProtocolState # "Connected",
           \/ b'.jobs[i].kind = "none"
           \/ b'.jobs[i].kind = b.jobs[i].kind /\ ~b'.jobs[i].cancelled,
           manager'.asked = manager.asked, manager'.reached = manager.reached,
           manager'.ongoingConnect = manager.ongoingConnect,
           manager'.active => manager.active \/ b.jobs[i].kind = "connect"
    PROVE  IInv'
<1>1. Closes(b) => Closes(b')
  BY StillCloses
<1>2. manager.asked = "disconnect" /\ manager.reached =>
            wg'.state = "closed" \/ wg'.by # "connect" \/ Closes(b')
  BY <1>1 DEF IInv, Obeyed
<1>3. /\ Sound(b) /\ Idle(b) /\ Commanded(b, manager) /\ Obeyed(b, manager, wg)
      /\ manager.ongoingConnect \in Job \cup {0}
  BY Facts DEF IInv
<1>4. \/ b'.jobs[i].kind = "none"
      \/ b'.jobs[i].kind = b.jobs[i].kind /\ (b.jobs[i].cancelled \/ ~b'.jobs[i].cancelled)
  OBVIOUS
<1>5. Idle(b') /\ Commanded(b', manager') /\ Obeyed(b', manager', wg')
  BY <1>2, <1>3, <1>4, Advancing, ZenonT(60)
<1>6. Reported(b', wg)
  BY DEF IInv, Reported
<1> QED BY <1>5, <1>6 DEF IInv

\* The reconnection after a revocation keeps the invariant.
LEMMA YieldedStep ==
    ASSUME IInv, NEW i \in Job, Yielded(i)
    PROVE  IInv'
<1>1. b.jobs[i].phase = "yield" /\ b' = Disconnect(b, i) /\ UNCHANGED <<callback, manager, cert, wg, count>>
  BY DEF Yielded
<1>2. b.jobs[i].kind = "revoked"
  BY <1>1, Facts DEF Fits
<1>3. Unqueued(b, i)
  BY <1>1 DEF IInv, Sound, Queues, Waiting, Unqueued
<1>4. /\ Sound(b') /\ Settled(b', callback) /\ KeptBut(b, b', i) /\ Reaches(b, b', i, "delay")
      /\ b'.vpnProtocolState = "Disabled"
  BY <1>1, <1>2, <1>3, Disconnecting DEF IInv
<1>5. \/ b'.jobs[i].kind = "none"
      \/ b'.jobs[i].kind = b.jobs[i].kind /\ ~b'.jobs[i].cancelled
  BY <1>4, NoJobTyped DEF Reaches
<1>6. Typed'
  BY <1>1 DEF IInv, Typed
<1> QED BY <1>1, <1>2, <1>4, <1>5, <1>6, RunStep

\* A prepared connection keeps the invariant.
LEMMA PreparedStep ==
    ASSUME IInv, NEW i \in Job, Prepared(i)
    PROVE  IInv'
<1> DEFINE s == IF manager.active THEN b ELSE [b EXCEPT !.selfState = "Connecting"]
<1>1. /\ b.jobs[i].phase = "prepare" /\ b' = Connect(s, i) /\ UNCHANGED <<callback, cert, wg, count>>
      /\ manager' = [manager EXCEPT !.active = TRUE, !.lastProfile = TRUE]
  BY DEF Prepared
<1>2. b.jobs[i].kind = "connect"
  BY <1>1, Facts DEF Fits
<1>3. Unqueued(b, i)
  BY <1>1 DEF IInv, Sound, Queues, Waiting, Unqueued
<1>4. /\ s \in BackendRecord /\ SameAgent(b, s) /\ s.jobs = b.jobs /\ s.ready = b.ready
      /\ s.delays = b.delays /\ s.wireGuardIo = b.wireGuardIo
      /\ s.vpnProtocolState = b.vpnProtocolState /\ s.posted = b.posted
      /\ s.selfState \in {b.selfState, "Connecting"}
  <2>1. CASE manager.active
    BY <2>1, Facts DEF SameAgent
  <2>2. CASE ~manager.active
    <3>1. s = [b EXCEPT !.selfState = "Connecting"]
      BY <2>2
    <3> HIDE DEF s
    <3> QED BY <3>1, Facts DEF BackendRecord, SameAgent, VpnStates
  <2> QED BY <2>1, <2>2
<1> HIDE DEF s
<1>5. Sound(s)
  BY <1>4, Unrelated DEF IInv
<1>6. Settled(s, callback) /\ Unqueued(s, i)
  BY <1>3, <1>4 DEF IInv, Settled, Correcting, Shown, View, SameAgent, Unqueued
<1>7. /\ Sound(b') /\ Settled(b', callback) /\ KeptBut(s, b', i) /\ Reaches(s, b', i, "up")
      /\ b'.vpnProtocolState = "Connecting"
  BY <1>1, <1>2, <1>4, <1>5, <1>6, Facts, Connecting
<1>8. \/ b'.jobs[i].kind = "none"
      \/ b'.jobs[i].kind = b.jobs[i].kind /\ ~b'.jobs[i].cancelled
  BY <1>4, <1>7, NoJobTyped DEF Reaches
<1>9. KeptBut(b, b', i)
  BY <1>4, <1>7 DEF KeptBut
<1>10. Typed'
  BY <1>1 DEF IInv, Typed
<1>11. /\ manager'.asked = manager.asked /\ manager'.reached = manager.reached
       /\ manager'.ongoingConnect = manager.ongoingConnect
  BY <1>1 DEF IInv, Typed
<1> QED BY <1>1, <1>2, <1>7, <1>8, <1>9, <1>10, <1>11, RunStep

\* Taking the first of several reports leaves the last one.
LEMMA LastReport ==
    ASSUME NEW q \in Seq(VpnStates), q # <<>>
    PROVE  /\ Len(q) # 0
           /\ Len(q) = 1 => Len(Tail(q)) = 0 /\ Head(q) = q[Len(q)]
           /\ Len(q) # 1 => Len(Tail(q)) # 0 /\ Tail(q)[Len(Tail(q))] = q[Len(q)]
<1>1. /\ Len(q) \in Nat /\ Len(q) > 0 /\ Head(q) = q[1] /\ Tail(q) \in Seq(VpnStates)
      /\ Len(Tail(q)) = Len(q) - 1
  OBVIOUS
<1>2. \A k \in 1..Len(q) - 1 : Tail(q)[k] = q[k + 1]
  OBVIOUS
<1>3. CASE Len(q) = 1
  BY <1>1, <1>3
<1>4. CASE Len(q) # 1
  <2>1. Len(q) - 1 \in 1..Len(q) - 1 /\ (Len(q) - 1) + 1 = Len(q)
    BY <1>1, <1>4
  <2>2. Tail(q)[Len(Tail(q))] = q[Len(q)]
    BY <1>1, <1>2, <2>1
  <2> QED BY <1>1, <1>4, <2>2
<1> QED BY <1>3, <1>4

\* A report applied late keeps the invariant.
LEMMA ApplyReportStep ==
    ASSUME IInv, ApplyReport
    PROVE  IInv'
<1> DEFINE value == Head(wg.reports)
<1>1. /\ wg.reports # <<>> /\ b' = SetVpnProtocolState(b, value)
      /\ wg' = [wg EXCEPT !.reports = Tail(@)] /\ UNCHANGED <<callback, manager, cert, count>>
  BY DEF ApplyReport
<1>2. /\ wg.reports \in Seq(VpnStates) /\ value \in VpnStates /\ Tail(wg.reports) \in Seq(VpnStates)
      /\ wg'.state = wg.state /\ wg'.by = wg.by /\ wg'.reports = Tail(wg.reports)
  BY <1>1 DEF IInv, Typed
<1>3. Sound(b') /\ Kept(b, b') /\ Settled(b', callback) /\ b'.vpnProtocolState = value
  BY <1>1, <1>2, Setting DEF IInv
<1>4. Idle(b') /\ Commanded(b', manager) /\ Obeyed(b', manager, wg)
  BY <1>3, Facts, KeptHolds DEF IInv
<1>5. Obeyed(b', manager, wg')
  BY <1>2, <1>4 DEF Obeyed
<1>6. Reported(b', wg')
  <2>1. CASE Len(wg.reports) = 1
    <3>1. Len(Tail(wg.reports)) = 0 /\ value = wg.reports[Len(wg.reports)]
      BY <1>1, <1>2, <2>1, LastReport
    <3>2. Len(wg.reports) # 0
      BY <1>1, <1>2, LastReport
    <3> QED BY <1>2, <1>3, <3>1, <3>2 DEF IInv, Reported
  <2>2. CASE Len(wg.reports) # 1
    <3>1. /\ Len(Tail(wg.reports)) # 0
          /\ Tail(wg.reports)[Len(Tail(wg.reports))] = wg.reports[Len(wg.reports)]
      BY <1>1, <1>2, <2>2, LastReport
    <3>2. Len(wg.reports) # 0
      BY <1>1, <1>2, LastReport
    <3> QED BY <1>2, <3>1, <3>2 DEF IInv, Reported
  <2> QED BY <2>1, <2>2
<1>7. Typed'
  BY <1>1, <1>2 DEF IInv, Typed
<1> QED BY <1>1, <1>3, <1>4, <1>5, <1>6, <1>7 DEF IInv

\* The end of an eviction keeps the invariant.
LEMMA EvictedStep ==
    ASSUME IInv, Room, Evicted
    PROVE  IInv'
<1> DEFINE s == [b EXCEPT !.evicting = @ - 1]
<1>1. /\ b.evicting > 0 /\ b' = ProcessCombinedState(s, "Connected", b.agent)
      /\ UNCHANGED <<callback, manager, cert, wg, count>>
  BY DEF Evicted
<1>2. b.evicting - 1 \in Nat
  BY <1>1, Facts DEF BackendRecord
<1>3. /\ s \in BackendRecord /\ SameAgent(b, s) /\ s.jobs = b.jobs /\ s.ready = b.ready
      /\ s.delays = b.delays /\ s.wireGuardIo = b.wireGuardIo
      /\ SameShown(b, s)
  BY <1>2, Facts DEF BackendRecord, SameAgent, SameShown
<1> HIDE DEF s
<1>4. Sound(s) /\ Kept(b, s) /\ Free(s) # {}
  BY <1>3, Unrelated DEF IInv, Room
<1>5. s.agent = b.agent /\ Settled(s, callback) /\ s.vpnProtocolState = b.vpnProtocolState
  BY <1>3, StillSettled DEF IInv, SameAgent, SameShown
<1>6. /\ Sound(b') /\ Kept(s, b') /\ Settled(b', callback) /\ b'.vpnProtocolState = s.vpnProtocolState
  <2>1. b' = HandleLocalAgentStates(s, s.agent)
    BY <1>1, <1>5 DEF ProcessCombinedState
  <2> QED BY <1>4, <1>5, <2>1, Handling
<1>7. Kept(b, b')
  BY <1>4, <1>6, KeptTransitive
<1>8. Typed'
  BY <1>1 DEF IInv, Typed
<1> QED BY <1>1, <1>5, <1>6, <1>7, <1>8, KeptStep

\* Delivering a posted state keeps the invariant.
LEMMA DeliverPostedStep ==
    ASSUME IInv, DeliverPosted
    PROVE  IInv'
<1>1. /\ b.posted # "none" /\ b' = [b EXCEPT !.selfState = b.posted, !.posted = "none"]
      /\ UNCHANGED <<callback, manager, cert, wg, count>>
  BY DEF DeliverPosted
<1>2. /\ b' \in BackendRecord /\ SameAgent(b, b') /\ b'.jobs = b.jobs /\ b'.ready = b.ready
      /\ b'.delays = b.delays /\ b'.wireGuardIo = b.wireGuardIo
      /\ b'.vpnProtocolState = b.vpnProtocolState /\ b'.selfState = b.posted /\ b'.posted = "none"
  BY <1>1, Facts DEF BackendRecord, SameAgent
<1>3. Sound(b') /\ Kept(b, b')
  BY <1>2, Unrelated DEF IInv
<1>4. Settled(b', callback)
  BY <1>1, <1>2 DEF IInv, Settled, Correcting, Shown, View, SameAgent
<1>5. Typed'
  BY <1>1 DEF IInv, Typed
<1> QED BY <1>1, <1>2, <1>3, <1>4, <1>5, KeptStep

\* A coroutine that is launched comes after those that are ready.
LEMMA ComesLast ==
    ASSUME NEW s, Sound(s), Free(s) # {}, NEW kind \in CommandKinds
    PROVE  LET t == LaunchReady(s, kind)
               n == NextJob(s) IN
           /\ Len(s.ready) \in Nat
           /\ DOMAIN s.ready = 1..Len(s.ready) /\ DOMAIN t.ready = 1..Len(s.ready) + 1
           /\ t.ready[Len(s.ready) + 1] = n
           /\ \A k \in DOMAIN s.ready : t.ready[k] = s.ready[k] /\ s.ready[k] # n
           /\ \A other \in CommandKinds : \A k \in DOMAIN s.ready :
                 IsReady(t, k, other) <=> IsReady(s, k, other)
           /\ \A other \in CommandKinds : IsReady(t, Len(s.ready) + 1, other) <=> other = kind
<1> DEFINE t == LaunchReady(s, kind)
           n == NextJob(s)
<1>1. /\ n \in Job /\ t.jobs[n] = JobAt(kind, "ready") /\ t.ready = Append(s.ready, n)
      /\ \A j \in Job : j # n => t.jobs[j] = s.jobs[j]
      /\ s.jobs[n].phase = "ended"
  BY ReadyLaunched
<1> HIDE DEF t, n
<1>2. s.ready \in Seq(Job) /\ \A k \in DOMAIN s.ready : s.ready[k] \in Job /\ s.ready[k] # n
  BY <1>1, ReadyJobs
<1>3. /\ DOMAIN t.ready = 1..Len(s.ready) + 1
      /\ DOMAIN s.ready = 1..Len(s.ready) /\ Len(s.ready) \in Nat
      /\ \A k \in DOMAIN s.ready : t.ready[k] = s.ready[k]
      /\ t.ready[Len(s.ready) + 1] = n
  BY <1>1, <1>2, AppendProperties
<1>4. \A k \in DOMAIN s.ready : k \in DOMAIN t.ready /\ t.jobs[t.ready[k]] = s.jobs[s.ready[k]]
  BY <1>1, <1>2, <1>3
<1>5. \A other \in CommandKinds : \A k \in DOMAIN s.ready : IsReady(t, k, other) <=> IsReady(s, k, other)
  BY <1>4 DEF IsReady
<1>6. t.jobs[n].kind = kind /\ Len(s.ready) + 1 \in DOMAIN t.ready
  BY <1>1, <1>3 DEF JobAt
<1>7. \A other \in CommandKinds : IsReady(t, Len(s.ready) + 1, other) <=> other = kind
  BY <1>3, <1>6 DEF IsReady
<1> QED BY <1>2, <1>3, <1>5, <1>7 DEF t, n

\* A launch that is no connect job leaves the manager right.
LEMMA LaunchCommanded ==
    ASSUME NEW s, Sound(s), Free(s) # {}, NEW kind \in CommandKinds, Idle(s)
    PROVE  LET t == LaunchReady(s, kind) IN
           /\ Idle(t)
           /\ /\ kind # "connect" /\ Commanded(s, manager)
              /\ manager.ongoingConnect \in Job \cup {0}
              => Commanded(t, manager)
<1> DEFINE t == LaunchReady(s, kind)
           n == NextJob(s)
<1>1. /\ n \in Job /\ t.jobs[n] = JobAt(kind, "ready")
      /\ \A j \in Job : j # n => t.jobs[j] = s.jobs[j]
      /\ n # manager.ongoingConnect
  BY ReadyLaunched
<1> HIDE DEF t, n
<1>2. t.jobs[n].kind = kind /\ t.jobs[n].phase = "ready" /\ ~t.jobs[n].cancelled
  BY <1>1 DEF JobAt
<1>3. Idle(t)
  BY <1>1, <1>2 DEF Idle
<1>4. ASSUME kind # "connect", Commanded(s, manager), manager.ongoingConnect \in Job \cup {0}
      PROVE  Commanded(t, manager)
  BY <1>1, <1>2, <1>4 DEF Commanded
<1> QED BY <1>3, <1>4 DEF t

\* The error that ends a connection stands in nobody's way.
LEMMA FailLaunched ==
    ASSUME NEW s, Sound(s), Free(s) # {}, Idle(s), Commanded(s, manager),
           manager.ongoingConnect \in Job \cup {0}, NEW w, Obeyed(s, manager, w)
    PROVE  LET t == SetError(s) IN
           /\ Sound(t) /\ SameShown(s, t) /\ SameAgent(s, t)
           /\ Idle(t) /\ Commanded(t, manager) /\ Obeyed(t, manager, w)
<1> DEFINE t == LaunchReady(s, "fail")
           n == NextJob(s)
<1>1. SetError(s) = t /\ "fail" \in CommandKinds
  BY DEF SetError, CommandKinds
<1>2. /\ Sound(t) /\ SameShown(s, t) /\ SameAgent(s, t)
      /\ n \in Job /\ t.jobs[n] = JobAt("fail", "ready")
      /\ \A j \in Job : j # n => t.jobs[j] = s.jobs[j]
      /\ s.jobs[n].phase = "ended" /\ s.jobs[n].kind = "none"
  BY <1>1, ReadyLaunched
<1>3. Idle(t) /\ Commanded(t, manager)
  BY <1>1, LaunchCommanded
<1>4. /\ Len(s.ready) \in Nat
      /\ DOMAIN s.ready = 1..Len(s.ready) /\ DOMAIN t.ready = 1..Len(s.ready) + 1
      /\ t.ready[Len(s.ready) + 1] = n
      /\ \A k \in DOMAIN s.ready : t.ready[k] = s.ready[k] /\ s.ready[k] # n
      /\ \A other \in CommandKinds : \A k \in DOMAIN s.ready :
            IsReady(t, k, other) <=> IsReady(s, k, other)
      /\ \A other \in CommandKinds : IsReady(t, Len(s.ready) + 1, other) <=> other = "fail"
  BY <1>1, ComesLast
<1> HIDE DEF t, n
<1>5. \A k \in DOMAIN t.ready : k \in DOMAIN s.ready \/ k = Len(s.ready) + 1
  BY <1>4
<1>6. \A k \in DOMAIN t.ready : \A other \in {"connect", "disconnect", "reconnect"} :
        IsReady(t, k, other) => k \in DOMAIN s.ready /\ IsReady(s, k, other)
  BY <1>4, <1>5 DEF CommandKinds
<1>7. \A k \in DOMAIN s.ready : k \in DOMAIN t.ready /\ (IsReady(s, k, "disconnect") => IsReady(t, k, "disconnect"))
  BY <1>4 DEF CommandKinds
<1>8. Followed(s) => Followed(t)
  BY <1>6, <1>7 DEF Followed
<1>9. Disconnects(s) => Disconnects(t)
  BY <1>7 DEF Disconnects
<1>10. \A j \in Job : t.jobs[j].kind \in {"connect", "disconnect"} => t.jobs[j] = s.jobs[j] /\ j # n
  BY <1>2 DEF JobAt
<1>11. \A j \in Job : s.jobs[j].kind \in {"connect", "disconnect"} => t.jobs[j] = s.jobs[j]
  BY <1>2
<1>12. \A j \in Job, l \in DOMAIN t.ready : j # n /\ t.ready[l] = j => l \in DOMAIN s.ready /\ s.ready[l] = j
  BY <1>4, <1>5
<1>13. Behind(s, manager.active) => Behind(t, manager.active)
  BY <1>6, <1>10, <1>12 DEF Behind
<1>14. Closes(s) => Closes(t)
  BY <1>11 DEF Closes
<1>15. Obeyed(t, manager, w)
  BY <1>8, <1>9, <1>10, <1>13, <1>14 DEF Obeyed
<1> QED BY <1>1, <1>2, <1>3, <1>15

\* An event is counted.
LEMMA EventTyped ==
    ASSUME IInv, Event
    PROVE  count' \in [commands : 0..MaxCommands, events : 0..MaxInputs]
<1>1. count.commands \in 0..MaxCommands /\ count.events \in 0..MaxInputs
  BY DEF IInv, Typed
<1>2. count.events + 1 \in 0..MaxInputs
  BY <1>1, BackendAssumption DEF Event, MoreInputs
<1> QED BY <1>2 DEF Event, IInv, Typed

\* A change of the tunnel keeps the invariant: it is reported.
LEMMA TunnelChangesStep ==
    ASSUME IInv, NEW state \in {"Connecting", "Connected", "Error"}, TunnelChanges(state)
    PROVE  IInv'
<1>1. /\ wg.state # "closed" /\ Event /\ UNCHANGED <<callback, b, manager, cert>>
      /\ wg' = [wg EXCEPT !.state = state, !.reports = Append(@, state),
                          !.flapped = @ \/ wg.state = "Connected"]
  BY DEF TunnelChanges
<1>2. wg.reports \in Seq(VpnStates) /\ state \in VpnStates
  BY DEF IInv, Typed, VpnStates
<1>3. Append(wg.reports, state) \in Seq(VpnStates)
  BY <1>2
<1>4. /\ wg'.state = state /\ wg'.by = wg.by /\ wg'.reports = Append(wg.reports, state)
  BY <1>1 DEF IInv, Typed
<1>5. Len(wg'.reports) # 0 /\ wg'.reports[Len(wg'.reports)] = state
  BY <1>2, <1>4
<1>6. Reported(b, wg')
  BY <1>4, <1>5 DEF Reported
<1>7. Obeyed(b, manager, wg')
  BY <1>1, <1>4 DEF IInv, Obeyed
<1>8. wg' \in [state : {"closed", "Connecting", "Connected", "Error"}, key : Nat,
               by : {"connect", "revoked", "reconnect"}, reports : Seq(VpnStates),
               flapped : BOOLEAN]
  BY <1>1, <1>3 DEF IInv, Typed
<1>9. Typed'
  BY <1>1, <1>8, EventTyped DEF IInv, Typed
<1> QED BY <1>1, <1>6, <1>7, <1>9 DEF IInv

\* A change of the certificate keeps the invariant.
LEMMA CertificateChangesStep ==
    ASSUME IInv, CertificateChanges
    PROVE  IInv'
<1>1. Event /\ UNCHANGED <<callback, b, manager, wg>>
  BY DEF CertificateChanges
<1>2. cert' \in [valid : BOOLEAN, request : BOOLEAN, key : Nat]
  BY DEF CertificateChanges, IInv, Typed
<1>3. Typed'
  BY <1>1, <1>2, EventTyped DEF IInv, Typed
<1> QED BY <1>1, <1>3 DEF IInv

\* A callback begins with what is so.
LEMMA Beginning ==
    ASSUME IInv, Settled(b, callback), NEW step, NEW report, NEW vpnState, Begin(step, report, vpnState)
    PROVE  /\ callback' = CallbackAt(step, report, vpnState, callback.raced)
           /\ callback'.step = step /\ callback'.report = report /\ callback'.vpnState = vpnState
           /\ callback'.raced = callback.raced
           /\ callback.raced \/ Shown(b)
BY DEF Begin, CallbackAt, Settled, Correcting

\* A state of the agent keeps the invariant.
LEMMA AgentStateStep ==
    ASSUME IInv, Room, NEW state \in {"Connected", "Unreachable", "expired", "unknownCA"}, AgentState(state)
    PROVE  IInv'
<1>1. /\ Event /\ b.agent # "null" /\ UNCHANGED <<manager, cert, wg>>
      /\ b' = [b EXCEPT !.agent = state] /\ Begin("read", state, b.vpnProtocolState)
  BY DEF AgentState
<1>2. /\ b' \in BackendRecord /\ b'.jobs = b.jobs /\ b'.ready = b.ready
      /\ b'.delays = b.delays /\ b'.wireGuardIo = b.wireGuardIo
      /\ SameShown(b, b') /\ b'.agent # "null"
      /\ b'.late = b.late /\ b'.strays = b.strays
      /\ b'.agentConnectionJob = b.agentConnectionJob
      /\ b'.reconnectionJob = b.reconnectionJob
  BY <1>1, Facts DEF BackendRecord, SameShown
<1>3. Sound(b')
  BY <1>1, <1>2 DEF IInv, Sound, Queues, Pointers, Tracked
<1>4. Kept(b, b')
  BY <1>2 DEF Kept
<1>5. /\ callback' = CallbackAt("read", state, b.vpnProtocolState, callback.raced)
      /\ callback'.step = "read" /\ callback'.vpnState = b.vpnProtocolState
      /\ callback'.raced = callback.raced /\ (callback.raced \/ Shown(b))
  BY <1>1, Beginning DEF IInv
<1>6. b.vpnProtocolState \in VpnStates /\ b.vpnProtocolState # "none"
  BY Facts DEF BackendRecord, VpnStates
<1>7. Settled(b', callback')
  <2>1. CASE b.vpnProtocolState = "Connected"
    BY <1>2, <2>1 DEF Settled, Shown, SameShown
  <2>2. CASE b.vpnProtocolState # "Connected"
    BY <1>2, <1>5, <1>6, <2>2 DEF Settled, Correcting, SameShown
  <2> QED BY <2>1, <2>2
<1>8. Typed'
  <2>1. callback' \in CallbackRecord /\ CallbackFits(callback')
    BY <1>5, <1>6 DEF CallbackRecord, CallbackAt, CallbackFits, IInv, Typed
  <2> QED BY <1>1, <2>1, EventTyped DEF IInv, Typed
<1> QED BY <1>1, <1>2, <1>3, <1>4, <1>7, <1>8, KeptStep DEF SameShown

\* A callback that begins and changes nothing yet keeps the invariant.
LEMMA BeginStep ==
    ASSUME IInv, UNCHANGED <<b, manager, cert, wg>>,
           count' \in [commands : 0..MaxCommands, events : 0..MaxInputs],
           NEW step, NEW report, NEW vpnState, Begin(step, report, vpnState),
           CallbackAt(step, report, vpnState, callback.raced) \in CallbackRecord,
           CallbackFits(CallbackAt(step, report, vpnState, callback.raced))
    PROVE  IInv'
<1>1. /\ callback' = CallbackAt(step, report, vpnState, callback.raced)
      /\ callback'.raced = callback.raced /\ (callback.raced \/ Shown(b))
  BY Beginning DEF IInv
<1>2. Settled(b', callback')
  BY <1>1 DEF Settled
<1>3. Typed'
  BY <1>1 DEF IInv, Typed
<1>4. Kept(b, b') /\ Sound(b')
  BY DEF Kept, IInv
<1> QED BY <1>2, <1>3, <1>4, KeptStep

\* A state of an agent that was replaced keeps the invariant.
LEMMA StrayStateStep ==
    ASSUME IInv, NEW state, StrayState(state)
    PROVE  IInv'
<1>1. /\ state \in {"Connected", "Unreachable"} /\ UNCHANGED <<b, manager, cert, wg, count>>
      /\ Begin("read", state, b.vpnProtocolState)
  BY DEF StrayState
<1>2. b.vpnProtocolState \in VpnStates /\ b.vpnProtocolState # "none" /\ callback.raced \in BOOLEAN
  BY Facts DEF BackendRecord, VpnStates, IInv, Typed, CallbackRecord
<1>3. /\ CallbackAt("read", state, b.vpnProtocolState, callback.raced) \in CallbackRecord
      /\ CallbackFits(CallbackAt("read", state, b.vpnProtocolState, callback.raced))
  BY <1>1, <1>2 DEF CallbackAt, CallbackRecord, CallbackFits
<1>4. count' \in [commands : 0..MaxCommands, events : 0..MaxInputs]
  BY <1>1 DEF IInv, Typed
<1> QED BY <1>1, <1>3, <1>4, BeginStep

\* A step that ends in a final error.
LEMMA FailStep ==
    ASSUME IInv, Typed', UNCHANGED <<manager, wg>>, NEW s, Sound(s), Kept(b, s), Settled(s, callback'),
           Free(s) # {}, s.vpnProtocolState = b.vpnProtocolState, b' = SetError(s)
    PROVE  IInv'
<1>1. Idle(s) /\ Commanded(s, manager) /\ Obeyed(s, manager, wg)
  BY Facts, KeptHolds DEF IInv
<1>2. /\ Sound(b') /\ SameShown(s, b') /\ SameAgent(s, b')
      /\ Idle(b') /\ Commanded(b', manager) /\ Obeyed(b', manager, wg)
  BY <1>1, Facts, FailLaunched
<1>3. Settled(b', callback') /\ Reported(b', wg)
  BY <1>2 DEF IInv, Settled, Correcting, Shown, View, Reported, SameShown, SameAgent
<1> QED BY <1>2, <1>3 DEF IInv

\* An error of the agent keeps the invariant.
LEMMA AgentErrorStep ==
    ASSUME IInv, NEW error, AgentError(error)
    PROVE  IInv'
<1>1. /\ Event /\ UNCHANGED <<b, manager, cert, wg>> /\ Begin("act", error, "none")
      /\ error \in AgentErrors
  BY DEF AgentError
<1>2. error \in {"expired", "unknownCA", "revoked", "fatal"} /\ callback.raced \in BOOLEAN
  BY <1>1, BackendAssumption DEF IInv, Typed, CallbackRecord
<1>3. /\ CallbackAt("act", error, "none", callback.raced) \in CallbackRecord
      /\ CallbackFits(CallbackAt("act", error, "none", callback.raced))
  BY <1>2 DEF CallbackAt, CallbackRecord, CallbackFits
<1> QED BY <1>1, <1>3, EventTyped, BeginStep

\* What a callback has done is recorded.
LEMMA Doing ==
    ASSUME IInv, NEW step \in {"idle", "post", "act"}, Does(step),
           step = "post" => callback.vpnState # "none",
           step = "act" => callback.report \in {"expired", "unknownCA", "revoked", "fatal"}
    PROVE  /\ callback' \in CallbackRecord /\ CallbackFits(callback')
           /\ callback'.step = step /\ callback'.raced = (callback.raced \/ Stale)
           /\ step # "idle" => callback'.vpnState = callback.vpnState /\ callback'.report = callback.report
<1>1. callback \in CallbackRecord /\ callback.raced \in BOOLEAN /\ Stale \in BOOLEAN
  BY DEF IInv, Typed, CallbackRecord, Stale
<1> DEFINE late == callback.raced \/ Stale
<1>2. late \in BOOLEAN
  BY <1>1
<1>3. callback' = IF step = "idle" THEN CallbackAt("idle", "none", "none", late)
                  ELSE [callback EXCEPT !.step = step, !.raced = late]
  BY <1>1 DEF Does, CallbackRecord
<1> HIDE DEF late
<1>4. /\ callback' \in CallbackRecord /\ CallbackFits(callback')
      /\ callback'.step = step /\ callback'.raced = late
      /\ step # "idle" => callback'.vpnState = callback.vpnState /\ callback'.report = callback.report
  BY <1>1, <1>2, <1>3 DEF CallbackRecord, CallbackAt, CallbackFits
<1> QED BY <1>4 DEF late

\* A callback that reads keeps the invariant.
LEMMA CallbackReadsStep ==
    ASSUME IInv, CallbackReads
    PROVE  IInv'
<1>1. callback.step = "read" /\ UNCHANGED <<manager, cert, wg, count>> /\ callback.vpnState # "none"
  BY DEF CallbackReads, IInv, Typed, CallbackFits
<1>2. CASE callback.vpnState # "Connected" /\ b' = CloseAgentConnection(b) /\ Does("post")
  <2>1. /\ callback' \in CallbackRecord /\ CallbackFits(callback')
        /\ callback'.step = "post" /\ callback'.raced = (callback.raced \/ Stale)
        /\ callback'.vpnState = callback.vpnState
    BY <1>1, <1>2, Doing
  <2>2. Sound(b') /\ SameShown(b, b') /\ Kept(b, b') /\ b'.agent = "null"
    BY <1>2, Closing DEF IInv
  <2>3. Settled(b', callback')
    BY <1>1, <1>2, <2>1, <2>2 DEF Settled, Correcting, Stale, SameShown
  <2>4. Typed'
    BY <1>1, <2>1 DEF IInv, Typed
  <2> QED BY <1>1, <2>2, <2>3, <2>4, KeptStep DEF SameShown
<1>3. CASE callback.vpnState = "Connected" /\ UNCHANGED b
           /\ callback' = [callback EXCEPT !.step = IF b.agent = "null" /\ b.agentConnectionJob = 0
                                                    THEN "connect" ELSE Handles]
  <2>1. /\ callback' \in CallbackRecord /\ CallbackFits(callback')
        /\ callback'.raced = callback.raced
    <3> DEFINE step == IF b.agent = "null" /\ b.agentConnectionJob = 0 THEN "connect" ELSE Handles
    <3>1. /\ step \in {"connect", "act", "post"}
          /\ step = "act" => callback.report \in {"expired", "unknownCA"}
      BY DEF Handles
    <3>2. callback' = [callback EXCEPT !.step = step]
      BY <1>3
    <3> HIDE DEF step
    <3> QED BY <1>1, <3>1, <3>2 DEF CallbackRecord, CallbackFits, IInv, Typed
  <2>2. Settled(b', callback')
    BY <1>3, <2>1 DEF IInv, Settled, Correcting
  <2>3. Typed'
    BY <1>1, <2>1 DEF IInv, Typed
  <2>4. Kept(b, b') /\ Sound(b')
    BY <1>3 DEF Kept, IInv
  <2> QED BY <1>1, <1>3, <2>2, <2>3, <2>4, KeptStep
<1> QED BY <1>2, <1>3 DEF CallbackReads

\* A connection job launched by a callback, perhaps beside another.
OpenedBeside(s) ==
    [Launch(s, "agent") EXCEPT
        !.agentConnectionJob = NextJob(s),
        !.late = @ \/ s.agent # "null" \/ s.agentConnectionJob # 0]

\* The backend knows of one connection job, or has been late.
LEMMA OpeningBeside ==
    ASSUME NEW s, Sound(s), Free(s) # {}
    PROVE  LET t == OpenedBeside(s) IN
           Sound(t) /\ SameShown(s, t) /\ Kept(s, t) /\ t.agent = s.agent
<1> DEFINE t == OpenedBeside(s)
           n == NextJob(s)
           u == Launch(s, "agent")
           late == s.late \/ s.agent # "null" \/ s.agentConnectionJob # 0
<1>1. n \in Job /\ n # s.reconnectionJob
  BY FreeJob, Zenon
<1>2. /\ u \in BackendRecord /\ Queues(u) /\ \A i \in Job : Consistent(u.jobs[i])
      /\ u.jobs[n] = JobAt("agent", "session")
      /\ \A j \in Job : j # n => u.jobs[j] = s.jobs[j]
      /\ SameShown(s, u) /\ SameAgent(s, u) /\ Kept(s, u)
  BY Launched
<1>3. late \in BOOLEAN
  BY DEF Sound, BackendRecord
<1>4. t = [u EXCEPT !.agentConnectionJob = n, !.late = late]
  BY <1>2 DEF OpenedBeside, SameAgent, BackendRecord
<1> HIDE DEF t, n, u, late
<1>5. /\ t \in BackendRecord /\ t.jobs = u.jobs /\ t.ready = u.ready /\ t.delays = u.delays
      /\ t.wireGuardIo = u.wireGuardIo /\ SameShown(u, t) /\ t.agent = u.agent
      /\ t.late = late /\ t.strays = u.strays /\ t.reconnectionJob = u.reconnectionJob
      /\ t.agentConnectionJob = n
  BY <1>1, <1>2, <1>3, <1>4 DEF BackendRecord, SameShown
<1>6. Queues(t) /\ \A i \in Job : Consistent(t.jobs[i])
  BY <1>2, <1>5 DEF Queues
<1>7. Pointers(t)
  <2>1. t.jobs[n].kind = "agent"
    BY <1>2, <1>5 DEF JobAt
  <2>2. s.reconnectionJob # 0 => t.jobs[s.reconnectionJob] = s.jobs[s.reconnectionJob]
    BY <1>1, <1>2, <1>5 DEF Sound, BackendRecord
  <2> QED BY <1>2, <1>5, <2>1, <2>2 DEF Pointers, Sound, SameAgent
<1>8. Tracked(t)
  <2>1. ~t.late => /\ ~s.late /\ s.agent = "null"
                   /\ \A i \in Job : s.jobs[i].kind = "agent" => s.jobs[i].cancelled
    <3>1. ~t.late => ~s.late /\ s.agent = "null" /\ s.agentConnectionJob = 0
      BY <1>5 DEF late
    <3>2. \A i \in Job : i # 0
      BY DEF Job
    <3> QED BY <3>1, <3>2 DEF Sound, Tracked
  <2>2. t.agent = s.agent /\ t.strays = s.strays /\ (s.late => t.late)
    BY <1>2, <1>5 DEF SameAgent, late
  <2>3. \A i \in Job : i # n => t.jobs[i] = s.jobs[i]
    BY <1>2, <1>5
  <2> QED BY <1>5, <2>1, <2>2, <2>3 DEF Sound, Tracked
<1>9. SameShown(s, t) /\ Kept(s, t) /\ t.agent = s.agent
  BY <1>2, <1>5 DEF SameShown, Kept, SameAgent
<1> QED BY <1>5, <1>6, <1>7, <1>8, <1>9 DEF Sound, t

\* A callback that launches a connection job keeps the invariant.
LEMMA CallbackConnectsStep ==
    ASSUME IInv, Room, CallbackConnects
    PROVE  IInv'
<1>1. /\ callback.step = "connect" /\ UNCHANGED <<manager, cert, wg, count>> /\ Does(Handles)
      /\ b' = OpenedBeside(b)
  BY DEF CallbackConnects, OpenedBeside
<1>2. callback.vpnState # "none"
  BY <1>1 DEF IInv, Typed, CallbackFits
<1>3. /\ Handles \in {"act", "post"}
      /\ Handles = "act" => callback.report \in {"expired", "unknownCA", "revoked", "fatal"}
  BY DEF Handles
<1>4. callback' \in CallbackRecord /\ CallbackFits(callback') /\ callback'.raced
  <2>1. Stale
    BY <1>1 DEF Stale
  <2> QED BY <1>1, <1>2, <1>3, <2>1, Doing
<1>5. Sound(b') /\ SameShown(b, b') /\ Kept(b, b') /\ b'.agent = b.agent
  BY <1>1, OpeningBeside DEF IInv, Room
<1>6. Settled(b', callback')
  BY <1>4 DEF Settled
<1>7. Typed'
  BY <1>1, <1>4 DEF IInv, Typed
<1> QED BY <1>1, <1>5, <1>6, <1>7, KeptStep DEF SameShown

\* A callback that acts on an error keeps the invariant.
LEMMA CallbackActsStep ==
    ASSUME IInv, Room, CallbackActs
    PROVE  IInv'
<1> DEFINE next == IF callback.vpnState = "none" THEN "idle" ELSE "post"
<1>1. /\ callback.step = "act" /\ UNCHANGED <<manager, cert, wg, count>> /\ Does(next)
      /\ b' = IF callback.report = "fatal" THEN SetError(b) ELSE LaunchReconnection(b, callback.report)
  BY DEF CallbackActs
<1>2. callback.report \in {"expired", "unknownCA", "revoked", "fatal"}
  BY <1>1 DEF IInv, Typed, CallbackFits
<1>3. /\ callback' \in CallbackRecord /\ CallbackFits(callback')
      /\ callback'.raced = (callback.raced \/ Stale)
  BY <1>1, Doing
<1>4. Typed'
  BY <1>1, <1>3 DEF IInv, Typed
<1>5. CASE callback.report # "fatal"
  <2>1. b' = LaunchReconnection(b, callback.report)
    BY <1>1, <1>5
  <2>2. /\ Sound(b') /\ Kept(b, b') /\ b'.agent = "null" /\ b'.posted = "Connecting"
        /\ b'.vpnProtocolState = b.vpnProtocolState
    BY <1>2, <1>5, <2>1, Reconnecting DEF IInv, Room
  <2>3. Settled(b', callback')
    BY <2>2 DEF Settled, Shown, View
  <2> QED BY <1>1, <1>4, <2>2, <2>3, KeptStep
<1>6. CASE callback.report = "fatal"
  <2>1. b' = SetError(b)
    BY <1>1, <1>6
  <2>2. Kept(b, b)
    BY DEF Kept
  <2>3. Settled(b, callback')
    BY <1>1, <1>3 DEF IInv, Settled, Correcting
  <2> QED BY <1>1, <1>4, <2>1, <2>2, <2>3, FailStep DEF IInv, Room
<1> QED BY <1>5, <1>6

\* A callback that posts keeps the invariant.
LEMMA CallbackPostsStep ==
    ASSUME IInv, CallbackPosts
    PROVE  IInv'
<1> DEFINE value == IF callback.vpnState = "Connected" THEN AgentView(callback.report)
                    ELSE callback.vpnState
<1>1. /\ callback.step = "post" /\ UNCHANGED <<manager, cert, wg, count>> /\ Does("idle")
      /\ b' = [b EXCEPT !.posted = value]
  BY DEF CallbackPosts
<1>2. callback.vpnState \in VpnStates /\ callback.vpnState # "none"
  BY <1>1 DEF IInv, Typed, CallbackFits, CallbackRecord
<1>3. value \in VpnStates /\ value # "none" /\ (callback.vpnState # "Connected" => value = callback.vpnState)
  BY <1>2 DEF AgentView, VpnStates
<1> HIDE DEF value
<1>4. /\ callback' \in CallbackRecord /\ CallbackFits(callback')
      /\ callback'.raced = (callback.raced \/ Stale)
  BY <1>1, Doing
<1>5. /\ Sound(b') /\ Kept(b, b') /\ SameAgent(b, b') /\ b'.posted = value
      /\ b'.vpnProtocolState = b.vpnProtocolState
  BY <1>1, <1>3, Posting DEF IInv
<1>6. Settled(b', callback')
  <2>1. CASE Stale \/ callback.raced
    BY <1>4, <2>1 DEF Settled
  <2>2. CASE b.vpnProtocolState = "Connected"
    BY <1>5, <2>2 DEF Settled, Shown
  <2>3. CASE ~Stale /\ ~callback.raced /\ b.vpnProtocolState # "Connected"
    <3>1. callback.vpnState = b.vpnProtocolState
      BY <1>2, <2>3 DEF Stale
    <3>2. b.agent # "Connected"
      BY <1>1, <2>3 DEF IInv, Settled, Shown, Correcting
    <3> QED BY <1>3, <1>5, <2>3, <3>1, <3>2 DEF Settled, Shown, View, SameAgent
  <2> QED BY <2>1, <2>2, <2>3
<1>7. Typed'
  BY <1>1, <1>4 DEF IInv, Typed
<1> QED BY <1>1, <1>5, <1>6, <1>7, KeptStep

\* A coroutine of the backend's own goes on without running across a suspension.
LEMMA OwnMoving ==
    ASSUME NEW s, Sound(s), NEW i \in Job, s.jobs[i].phase \notin {"ended", "run"},
           s.jobs[i].kind \notin CommandKinds, Unqueued(s, i),
           NEW phase \in {"await", "yield"}, Fits(s.jobs[i].kind, phase)
    PROVE  LET t == Moved(s, i, phase) IN
           Sound(t) /\ SameShown(s, t) /\ SameAgent(s, t) /\ Kept(s, t)
<1> DEFINE t == Moved(s, i, phase)
<1>1. /\ Sound(t) /\ SameShown(s, t) /\ SameAgent(s, t) /\ t.ready = s.ready
      /\ t.jobs[i].phase = phase /\ t.jobs[i].kind = s.jobs[i].kind
      /\ \A j \in Job : j # i => t.jobs[j] = s.jobs[j]
  BY Moving
<1> HIDE DEF t
<1>2. Kept(s, t)
  BY <1>1 DEF Kept
<1> QED BY <1>1, <1>2 DEF t

\* The answer of the API keeps the invariant.
LEMMA RequestEndsStep ==
    ASSUME IInv, Room, RequestEnds
    PROVE  IInv'
<1>1. UNCHANGED <<callback, manager, wg, count>>
  BY DEF RequestEnds
<1> DEFINE s == IF b.agent = "null" THEN b ELSE ConnectToLocalAgent(CloseAgentConnection(b))
<1>2. Sound(s) /\ Kept(b, s) /\ Settled(s, callback) /\ s.vpnProtocolState = b.vpnProtocolState
  <2>1. CASE b.agent = "null"
    BY <2>1 DEF IInv, Kept
  <2>2. CASE b.agent # "null"
    <3> DEFINE c == CloseAgentConnection(b)
               d == ConnectToLocalAgent(c)
    <3>1. /\ Sound(c) /\ SameShown(b, c) /\ Kept(b, c) /\ Free(b) \subseteq Free(c) /\ c.agent = "null"
      BY Closing, Zenon DEF IInv
    <3>2. Free(c) # {}
      BY <3>1 DEF Room
    <3> HIDE DEF c
    <3>3. Sound(d) /\ SameShown(c, d) /\ Kept(c, d) /\ d.agent = c.agent
      BY <3>1, <3>2, AgentOpened
    <3>4. s = d
      BY <2>2 DEF c
    <3> HIDE DEF d, s
    <3>5. Settled(d, callback) /\ d.vpnProtocolState = b.vpnProtocolState
      BY <3>1, <3>3 DEF IInv, Settled, Correcting, Shown, View, SameShown
    <3> QED BY <3>1, <3>3, <3>4, <3>5, KeptTransitive
  <2> QED BY <2>1, <2>2
<1> HIDE DEF s
<1>3. ASSUME NEW r, Sound(r), Kept(b, r), Settled(r, callback), r.vpnProtocolState = b.vpnProtocolState,
             NEW phase \in {"got", "refused"}, b' = Replied(r, phase)
      PROVE  Sound(b') /\ Kept(b, b') /\ Settled(b', callback) /\ b'.vpnProtocolState = b.vpnProtocolState
  <2>1. Sound(b') /\ SameShown(r, b') /\ SameAgent(r, b') /\ Kept(r, b')
    BY <1>3, Replying
  <2>2. Kept(b, b')
    BY <1>3, <2>1, KeptTransitive
  <2> QED BY <1>3, <2>1, <2>2 DEF Settled, Correcting, Shown, View, SameShown, SameAgent
<1>4. \/ b' = Replied(s, "got") /\ cert' = [cert EXCEPT !.valid = TRUE, !.request = FALSE]
      \/ b' = Replied(b, "refused") /\ cert' = [cert EXCEPT !.request = FALSE]
  BY DEF RequestEnds, Replied, Refuse, s
<1>5. Typed'
  BY <1>1, <1>4, ZenonT(40) DEF IInv, Typed
<1>6. Sound(b') /\ Kept(b, b') /\ Settled(b', callback) /\ b'.vpnProtocolState = b.vpnProtocolState
  <2>1. Kept(b, b)
    BY DEF Kept
  <2> QED BY <1>2, <1>3, <1>4, <2>1 DEF IInv
<1> QED BY <1>1, <1>5, <1>6, KeptStep

\* Asking for a certificate keeps the invariant.
LEMMA AskCertificateStep ==
    ASSUME IInv, Room, NEW i \in Job, AskCertificate(i)
    PROVE  IInv'
<1>1. b.jobs[i].phase = "session" /\ UNCHANGED <<callback, manager, wg, count>>
  BY DEF AskCertificate
<1>2. b.jobs[i].kind \in {"agent", "expired", "unknownCA", "revoked"}
  BY <1>1, Facts DEF Fits
<1>3. Unqueued(b, i) /\ b.jobs[i].kind \notin CommandKinds
  BY <1>1, <1>2 DEF IInv, Sound, Queues, Waiting, Unqueued, CommandKinds
<1>4. SUFFICES Typed' /\ Sound(b') /\ Kept(b, b') /\ Settled(b', callback) /\ b'.vpnProtocolState = b.vpnProtocolState
  BY <1>1, KeptStep
<1>5. CASE b.jobs[i].kind = "agent" /\ cert.valid
  <2>1. b' = CreateAgent(b, i) /\ UNCHANGED cert
    BY <1>5 DEF AskCertificate
  <2>2. Typed'
    BY <1>1, <2>1 DEF IInv, Typed
  <2> QED BY <1>5, <2>1, <2>2, Creating DEF IInv
<1>6. CASE b.jobs[i].kind = "expired"
  <2> DEFINE e == End(b, i)
             t == ConnectToLocalAgent(e)
  <2>1. b' = t /\ UNCHANGED cert
    BY <1>6 DEF AskCertificate
  <2>2. /\ Sound(e) /\ SameShown(b, e) /\ SameAgent(b, e) /\ Free(b) \subseteq Free(e)
    BY Ending, Zenon DEF IInv
  <2>3. Kept(b, e)
    BY <1>1, <1>3, OwnEnding DEF IInv
  <2>4. Free(e) # {}
    BY <2>2 DEF Room
  <2> HIDE DEF e
  <2>5. Sound(t) /\ SameShown(e, t) /\ Kept(e, t) /\ t.agent = e.agent
    BY <2>2, <2>4, AgentOpened
  <2> HIDE DEF t
  <2>6. Kept(b, t)
    BY <2>3, <2>5, KeptTransitive
  <2>7. Settled(t, callback) /\ t.vpnProtocolState = b.vpnProtocolState
    BY <2>2, <2>5 DEF IInv, Settled, Correcting, Shown, View, SameShown, SameAgent
  <2>8. Typed'
    BY <1>1, <2>1 DEF IInv, Typed
  <2> QED BY <2>1, <2>5, <2>6, <2>7, <2>8
<1>7. CASE b.jobs[i].kind = "revoked"
  <2> DEFINE r == Replied(b, "refused")
             t == Moved(r, i, "await")
  <2>1. b' = t /\ cert' = [valid |-> FALSE, request |-> TRUE, key |-> cert.key + 1]
    BY <1>7 DEF AskCertificate, Replied, Refuse, Moved
  <2>2. /\ Sound(r) /\ SameShown(b, r) /\ SameAgent(b, r) /\ Kept(b, r)
        /\ \A j \in Job : b.jobs[j].phase # "await" => r.jobs[j] = b.jobs[j]
        /\ \A j \in Job : Unqueued(b, j) => Unqueued(r, j)
    BY Replying DEF IInv
  <2>3. r.jobs[i] = b.jobs[i] /\ Unqueued(r, i) /\ Fits("revoked", "await")
    BY <1>1, <1>3, <2>2 DEF Fits
  <2> HIDE DEF r
  <2>4. Sound(t) /\ SameShown(r, t) /\ SameAgent(r, t) /\ Kept(r, t)
    BY <1>1, <1>3, <1>7, <2>2, <2>3, OwnMoving
  <2> HIDE DEF t
  <2>5. Kept(b, t)
    BY <2>2, <2>4, KeptTransitive
  <2>6. Settled(t, callback) /\ t.vpnProtocolState = b.vpnProtocolState
    BY <2>2, <2>4 DEF IInv, Settled, Correcting, Shown, View, SameShown, SameAgent
  <2>7. Typed'
    BY <1>1, <2>1, Facts DEF IInv, Typed
  <2> QED BY <2>1, <2>4, <2>5, <2>6, <2>7
<1>8. CASE b.jobs[i].kind = "unknownCA" \/ (b.jobs[i].kind = "agent" /\ ~cert.valid)
  <2> DEFINE t == Moved(b, i, "await")
  <2>1. b' = t /\ cert' = [cert EXCEPT !.request = TRUE]
    BY <1>8 DEF AskCertificate, Moved
  <2>2. Fits(b.jobs[i].kind, "await")
    BY <1>8 DEF Fits
  <2>3. Sound(t) /\ SameShown(b, t) /\ SameAgent(b, t) /\ Kept(b, t)
    BY <1>1, <1>3, <2>2, OwnMoving DEF IInv
  <2> HIDE DEF t
  <2>4. Settled(t, callback) /\ t.vpnProtocolState = b.vpnProtocolState
    BY <2>3 DEF IInv, Settled, Correcting, Shown, View, SameShown, SameAgent
  <2>5. Typed'
    BY <1>1, <2>1 DEF IInv, Typed
  <2> QED BY <2>1, <2>3, <2>4, <2>5
<1> QED BY <1>2, <1>5, <1>6, <1>7, <1>8

\* Going on with a certificate or without keeps the invariant.
LEMMA AnsweredStep ==
    ASSUME IInv, Room, NEW i \in Job, Answered(i)
    PROVE  IInv'
<1>1. b.jobs[i].phase \in {"got", "refused"} /\ UNCHANGED <<callback, manager, cert, wg, count>>
  BY DEF Answered
<1>2. b.jobs[i].kind \in {"agent", "unknownCA", "revoked"}
  BY <1>1, Facts DEF Fits
<1>3. Unqueued(b, i) /\ b.jobs[i].kind \notin CommandKinds
  BY <1>1, <1>2 DEF IInv, Sound, Queues, Waiting, Unqueued, CommandKinds
<1>4. Typed'
  BY <1>1 DEF IInv, Typed
<1> DEFINE e == End(b, i)
<1>5. /\ Sound(e) /\ SameShown(b, e) /\ SameAgent(b, e) /\ Free(b) \subseteq Free(e)
  BY Ending, Zenon DEF IInv
<1>6. Kept(b, e)
  BY <1>1, <1>3, OwnEnding DEF IInv
<1>7. Free(e) # {}
  BY <1>5 DEF Room
<1>8. CASE b.jobs[i].kind = "unknownCA"
  <2> DEFINE t == ConnectToLocalAgent(e)
  <2>1. b' = t
    BY <1>8 DEF Answered
  <2> HIDE DEF e
  <2>2. Sound(t) /\ SameShown(e, t) /\ Kept(e, t) /\ t.agent = e.agent
    BY <1>5, <1>7, AgentOpened
  <2> HIDE DEF t
  <2>3. Kept(b, t)
    BY <1>6, <2>2, KeptTransitive
  <2>4. Settled(t, callback) /\ t.vpnProtocolState = b.vpnProtocolState
    BY <1>5, <2>2 DEF IInv, Settled, Correcting, Shown, View, SameShown, SameAgent
  <2> QED BY <1>1, <1>4, <2>1, <2>2, <2>3, <2>4, KeptStep
<1>9. CASE b.jobs[i].kind # "unknownCA" /\ b.jobs[i].phase = "refused"
  <2>1. b' = SetError(e)
    BY <1>9 DEF Answered
  <2> HIDE DEF e
  <2>2. Settled(e, callback) /\ e.vpnProtocolState = b.vpnProtocolState
    BY <1>5 DEF IInv, Settled, Correcting, Shown, View, SameShown, SameAgent
  <2> QED BY <1>1, <1>4, <1>5, <1>6, <1>7, <2>1, <2>2, FailStep
<1>10. CASE b.jobs[i].kind = "agent" /\ b.jobs[i].phase = "got"
  <2>1. b' = CreateAgent(b, i)
    BY <1>10 DEF Answered
  <2>2. Sound(b') /\ Kept(b, b') /\ Settled(b', callback) /\ b'.vpnProtocolState = b.vpnProtocolState
    BY <1>10, <2>1, Creating DEF IInv
  <2> QED BY <1>1, <1>4, <2>2, KeptStep
<1>11. CASE b.jobs[i].kind = "revoked" /\ b.jobs[i].phase = "got"
  <2>1. b' = IF b.jobs[i].cancelled THEN e ELSE Moved(b, i, "yield")
    BY <1>11 DEF Answered, Moved
  <2> HIDE DEF e
  <2>2. CASE b.jobs[i].cancelled
    <3>1. Settled(e, callback) /\ e.vpnProtocolState = b.vpnProtocolState
      BY <1>5 DEF IInv, Settled, Correcting, Shown, View, SameShown, SameAgent
    <3> QED BY <1>1, <1>4, <1>5, <1>6, <2>1, <2>2, <3>1, KeptStep
  <2>3. CASE ~b.jobs[i].cancelled
    <3> DEFINE t == Moved(b, i, "yield")
    <3>1. Fits(b.jobs[i].kind, "yield")
      BY <1>11 DEF Fits
    <3>2. Sound(t) /\ SameShown(b, t) /\ SameAgent(b, t) /\ Kept(b, t)
      BY <1>1, <1>3, <3>1, OwnMoving DEF IInv
    <3>3. b' = t
      BY <2>1, <2>3
    <3> HIDE DEF t
    <3>4. Settled(t, callback) /\ t.vpnProtocolState = b.vpnProtocolState
      BY <3>2 DEF IInv, Settled, Correcting, Shown, View, SameShown, SameAgent
    <3> QED BY <1>1, <1>4, <3>2, <3>3, <3>4, KeptStep
  <2> QED BY <2>2, <2>3
<1> QED BY <1>1, <1>2, <1>8, <1>9, <1>10, <1>11

\* The manager cancels its connect job, wherever that has got to.
LEMMA ConnectCancelled ==
    ASSUME NEW s, Sound(s), Idle(s), NEW m, m.ongoingConnect \in Job \cup {0}, Commanded(s, m)
    PROVE  LET t == Cancel(s, m.ongoingConnect) IN
           /\ Sound(t) /\ SameShown(s, t) /\ SameAgent(s, t) /\ Free(s) \subseteq Free(t)
           /\ Idle(t)
           /\ \A i \in Job : t.jobs[i].kind # "connect"
           /\ \A i \in Job : t.jobs[i].kind \in CommandKinds => ~t.jobs[i].cancelled
           /\ \A i \in Job : s.jobs[i].kind \in {"disconnect", "reconnect", "fail"} => t.jobs[i] = s.jobs[i]
           /\ \A i \in Job : t.jobs[i].kind \in {"disconnect", "reconnect", "fail"} => t.jobs[i] = s.jobs[i]
           /\ \A i \in Job : Unqueued(s, i) => Unqueued(t, i)
           /\ Followed(s) => Followed(t)
           /\ Disconnects(s) => Disconnects(t)
<1> DEFINE c == m.ongoingConnect
           t == Cancel(s, c)
<1>1. /\ Sound(t) /\ SameShown(s, t) /\ SameAgent(s, t) /\ Free(s) \subseteq Free(t)
      /\ \A j \in Job : j # c => t.jobs[j] = s.jobs[j]
      /\ t.ready \in {s.ready, Without(s.ready, c)}
      /\ \A j \in Job : Unqueued(s, j) => Unqueued(t, j)
  <2> SUFFICES ASSUME NEW i \in Job \cup {0}
               PROVE  /\ Sound(Cancel(s, i))
                      /\ SameShown(s, Cancel(s, i)) /\ SameAgent(s, Cancel(s, i))
                      /\ Free(s) \subseteq Free(Cancel(s, i))
                      /\ \A j \in Job : j # i => Cancel(s, i).jobs[j] = s.jobs[j]
                      /\ Cancel(s, i).ready \in {s.ready, Without(s.ready, i)}
                      /\ \A j \in Job : Unqueued(s, j) => Unqueued(Cancel(s, i), j)
    OBVIOUS
  <2> QED BY Cancelling
<1>2. c # 0 => \/ t.jobs[c].phase = "ended" /\ t.jobs[c].kind = "none"
               \/ /\ t.jobs[c] = [s.jobs[c] EXCEPT !.cancelled = TRUE]
                  /\ s.jobs[c].phase \in {"await", "got", "refused", "run"}
  BY Cancelling, Zenon
<1>3. ASSUME c # 0
      PROVE  /\ t.jobs[c].kind \notin CommandKinds /\ t.jobs[c].phase # "run"
             /\ s.jobs[c].kind \notin {"disconnect", "reconnect", "fail"}
  <2>1. c \in Job /\ s.jobs[c] \in JobRecord /\ Fits(s.jobs[c].kind, s.jobs[c].phase)
        /\ s.jobs[c].phase # "run"
    BY <1>3 DEF Sound, BackendRecord, Consistent, Idle
  <2>2. s.jobs[c].kind \notin {"disconnect", "reconnect", "fail"}
    BY <1>3 DEF Commanded
  <2>3. CASE t.jobs[c].phase = "ended" /\ t.jobs[c].kind = "none"
    BY <2>2, <2>3 DEF CommandKinds
  <2>4. CASE /\ t.jobs[c] = [s.jobs[c] EXCEPT !.cancelled = TRUE]
             /\ s.jobs[c].phase \in {"await", "got", "refused", "run"}
    <3>1. s.jobs[c].kind \in {"agent", "unknownCA", "revoked"}
      BY <2>1, <2>4 DEF Fits
    <3>2. t.jobs[c].kind = s.jobs[c].kind /\ t.jobs[c].phase = s.jobs[c].phase
      BY <2>1, <2>4 DEF JobRecord
    <3> QED BY <2>1, <2>2, <3>1, <3>2 DEF CommandKinds
  <2> QED BY <1>2, <1>3, <2>3, <2>4
<1> HIDE DEF t, c
<1>4. \A i \in Job : i = c => c # 0
  BY DEF Job
<1>5. Idle(t)
  BY <1>1, <1>3, <1>4 DEF Idle
<1>6. \A i \in Job : t.jobs[i].kind \in CommandKinds => i # c /\ t.jobs[i] = s.jobs[i]
  BY <1>1, <1>3, <1>4
<1>7. \A i \in Job : s.jobs[i].kind \in {"disconnect", "reconnect", "fail"} => i # c /\ t.jobs[i] = s.jobs[i]
  BY <1>1, <1>3, <1>4
<1>8. \A i \in Job : t.jobs[i].kind # "connect"
  BY <1>6 DEF Commanded, CommandKinds, c
<1>9. \A i \in Job : t.jobs[i].kind \in CommandKinds => ~t.jobs[i].cancelled
  BY <1>6 DEF Commanded
<1>10. \A i \in Job : t.jobs[i].kind \in {"disconnect", "reconnect", "fail"} => t.jobs[i] = s.jobs[i]
  BY <1>6 DEF CommandKinds
<1>11. /\ s.ready \in Seq(Job) /\ t.ready \in Seq(Job)
       /\ \A k \in DOMAIN s.ready : s.ready[k] \in Job
       /\ \A k \in DOMAIN t.ready : t.ready[k] \in Job
       /\ \A k, l \in DOMAIN s.ready : s.ready[k] = s.ready[l] => k = l
  BY <1>1, ReadyJobs
<1>12. /\ \A k \in DOMAIN t.ready : \E l \in DOMAIN s.ready : t.ready[k] = s.ready[l]
       /\ \A l \in DOMAIN s.ready : s.ready[l] # c => \E k \in DOMAIN t.ready : t.ready[k] = s.ready[l]
       /\ \A k, l \in DOMAIN t.ready : \A x, y \in DOMAIN s.ready :
             t.ready[k] = s.ready[x] /\ t.ready[l] = s.ready[y] /\ x < y => k < l
  <2>1. CASE t.ready = s.ready
    <3>1. ASSUME NEW k \in DOMAIN s.ready, NEW l \in DOMAIN s.ready, NEW x \in DOMAIN s.ready,
                 NEW y \in DOMAIN s.ready, s.ready[k] = s.ready[x], s.ready[l] = s.ready[y], x < y
          PROVE  k < l
      <4>1. k = x /\ l = y
        BY <1>11, <3>1
      <4> QED BY <3>1, <4>1
    <3> QED BY <2>1, <3>1
  <2>2. CASE t.ready = Without(s.ready, c)
    <3>1. /\ \A k \in DOMAIN Without(s.ready, c) :
                \E l \in DOMAIN s.ready : Without(s.ready, c)[k] = s.ready[l] /\ s.ready[l] # c
      BY <1>11, WithoutProperties
    <3>2. /\ \A l \in DOMAIN s.ready : s.ready[l] # c =>
                \E k \in DOMAIN Without(s.ready, c) : Without(s.ready, c)[k] = s.ready[l]
          /\ \A k, l \in DOMAIN Without(s.ready, c) : \A x, y \in DOMAIN s.ready :
                Without(s.ready, c)[k] = s.ready[x] /\ Without(s.ready, c)[l] = s.ready[y] /\ x < y => k < l
      BY <1>11, WithoutOrder, ZenonT(60)
    <3> QED BY <2>2, <3>1, <3>2
  <2> QED BY <1>1, <2>1, <2>2
<1>13. ASSUME NEW l \in DOMAIN s.ready, IsReady(s, l, "disconnect")
       PROVE  \E k \in DOMAIN t.ready : t.ready[k] = s.ready[l] /\ IsReady(t, k, "disconnect")
  <2>1. s.ready[l] \in Job /\ s.ready[l] # c /\ t.jobs[s.ready[l]].kind = "disconnect"
    BY <1>7, <1>11, <1>13 DEF IsReady
  <2> QED BY <1>12, <2>1 DEF IsReady
<1>14. Disconnects(s) => Disconnects(t)
  BY <1>13 DEF Disconnects
<1>15. Followed(s) => Followed(t)
  <2> SUFFICES ASSUME Followed(s), NEW k \in DOMAIN t.ready, IsReady(t, k, "reconnect")
               PROVE  \E l \in DOMAIN t.ready : k < l /\ IsReady(t, l, "disconnect")
    BY DEF Followed
  <2>1. PICK x \in DOMAIN s.ready : t.ready[k] = s.ready[x]
    BY <1>12
  <2>2. IsReady(s, x, "reconnect")
    BY <1>10, <1>11, <2>1 DEF IsReady
  <2>3. PICK y \in DOMAIN s.ready : x < y /\ IsReady(s, y, "disconnect")
    BY <2>2 DEF Followed
  <2>4. PICK l \in DOMAIN t.ready : t.ready[l] = s.ready[y] /\ IsReady(t, l, "disconnect")
    BY <1>13, <2>3
  <2>5. k < l
    BY <1>12, <2>1, <2>3, <2>4
  <2> QED BY <2>4, <2>5
<1> QED BY <1>1, <1>5, <1>7, <1>8, <1>9, <1>10, <1>14, <1>15 DEF t, c

\* The new connect job is the one the manager knows.
LEMMA ConnectLaunched ==
    ASSUME NEW s, Sound(s), Free(s) # {}, NEW m, m.ongoingConnect = NextJob(s),
           \A i \in Job : s.jobs[i].kind # "connect",
           \A i \in Job : s.jobs[i].kind \in CommandKinds => ~s.jobs[i].cancelled
    PROVE  Commanded(LaunchReady(s, "connect"), m)
<1> DEFINE t == LaunchReady(s, "connect")
           n == NextJob(s)
<1>1. "connect" \in CommandKinds
  BY DEF CommandKinds
<1>2. /\ n \in Job /\ t.jobs[n] = JobAt("connect", "ready")
      /\ \A j \in Job : j # n => t.jobs[j] = s.jobs[j]
  BY <1>1, ReadyLaunched
<1> HIDE DEF t, n
<1>3. t.jobs[n].kind = "connect" /\ ~t.jobs[n].cancelled
  BY <1>2 DEF JobAt
<1>4. Commanded(t, m)
  BY <1>2, <1>3 DEF Commanded, n
<1> QED BY <1>4 DEF t

\* A command of the manager keeps the invariant: a disconnect comes last, and
\* leaves no connect job.
LEMMA CommandStep ==
    ASSUME IInv, Room, NEW c, Command(c)
    PROVE  IInv'
<1> DEFINE s == IF c = "reconnect" THEN b ELSE Cancel(b, manager.ongoingConnect)
           t == LaunchReady(s, c)
           n == NextJob(s)
<1>1. /\ c \in Commands /\ count.commands < MaxCommands /\ MoreInputs
      /\ b' = t /\ UNCHANGED <<callback, cert, wg>> /\ count' = [count EXCEPT !.commands = @ + 1]
      /\ manager' = [manager EXCEPT
                  !.asked = c, !.reached = FALSE,
                  !.ongoingConnect = CASE c = "connect" -> NextJob(s)
                                       [] c = "disconnect" -> 0
                                       [] OTHER -> @]
  BY DEF Command
<1>2. c \in {"connect", "disconnect", "reconnect"} /\ c \in CommandKinds
  BY <1>1, BackendAssumption DEF CommandKinds
<1>3. /\ Sound(s) /\ SameShown(b, s) /\ SameAgent(b, s) /\ Free(b) \subseteq Free(s) /\ Idle(s)
      /\ \A i \in Job : s.jobs[i].kind \in CommandKinds => ~s.jobs[i].cancelled
      /\ c # "reconnect" => \A i \in Job : s.jobs[i].kind # "connect"
  <2>1. CASE c = "reconnect"
    BY <2>1 DEF IInv, SameShown, SameAgent, Commanded
  <2>2. CASE c # "reconnect"
    <3>1. s = Cancel(b, manager.ongoingConnect)
      BY <2>2
    <3> HIDE DEF s
    <3> QED BY <3>1, Facts, ConnectCancelled DEF IInv
  <2> QED BY <2>1, <2>2
<1>4. Free(s) # {}
  BY <1>3 DEF Room
<1>5. c = "reconnect" => s = b
  OBVIOUS
<1> HIDE DEF s
<1>6. /\ Sound(t) /\ SameShown(s, t) /\ SameAgent(s, t)
      /\ n \in Job /\ t.jobs[n] = JobAt(c, "ready")
      /\ \A j \in Job : j # n => t.jobs[j] = s.jobs[j]
  BY <1>2, <1>3, <1>4, ReadyLaunched
<1>7. Idle(t)
  BY <1>2, <1>3, <1>4, LaunchCommanded
<1>8. /\ Len(s.ready) \in Nat
      /\ DOMAIN s.ready = 1..Len(s.ready) /\ DOMAIN t.ready = 1..Len(s.ready) + 1
      /\ \A other \in CommandKinds : IsReady(t, Len(s.ready) + 1, other) <=> other = c
  BY <1>2, <1>3, <1>4, ComesLast
<1>9. /\ manager'.asked = c /\ ~manager'.reached
      /\ c = "connect" => manager'.ongoingConnect = n
      /\ c = "disconnect" => manager'.ongoingConnect = 0
      /\ c = "reconnect" => manager'.ongoingConnect = manager.ongoingConnect
  BY <1>1, <1>2 DEF IInv, Typed
<1>10. Commanded(t, manager')
  <2>1. CASE c = "connect"
    BY <1>3, <1>4, <1>9, <2>1, ConnectLaunched
  <2>2. CASE c = "disconnect"
    <3> HIDE DEF t, n
    <3>1. t.jobs[n].kind = "disconnect" /\ ~t.jobs[n].cancelled
      BY <1>6, <2>2 DEF JobAt
    <3> QED BY <1>3, <1>6, <1>9, <2>2, <3>1 DEF Commanded
  <2>3. CASE c = "reconnect"
    <3>1. Commanded(t, manager)
      BY <1>2, <1>3, <1>4, <1>5, <2>3, Facts, LaunchCommanded DEF IInv
    <3> QED BY <1>9, <2>3, <3>1 DEF Commanded
  <2> QED BY <1>2, <2>1, <2>2, <2>3
<1> HIDE DEF t, n
<1>11. Obeyed(t, manager', wg)
  <2> SUFFICES ASSUME c = "disconnect"
               PROVE  Followed(t) /\ Behind(t, manager'.active)
    BY <1>9 DEF Obeyed
  <2>1. \A i \in Job : t.jobs[i].kind # "connect"
    BY <1>3, <1>6 DEF JobAt
  <2>2. IsReady(t, Len(s.ready) + 1, "disconnect") /\ ~IsReady(t, Len(s.ready) + 1, "reconnect")
    BY <1>8 DEF CommandKinds
  <2>3. \A k \in DOMAIN t.ready : k = Len(s.ready) + 1 \/ k < Len(s.ready) + 1
    BY <1>8
  <2>4. Len(s.ready) + 1 \in DOMAIN t.ready
    BY <1>8
  <2>5. Followed(t)
    BY <2>2, <2>3, <2>4 DEF Followed
  <2> QED BY <2>1, <2>5 DEF Behind
<1>12. Settled(t, callback) /\ Reported(t, wg)
  BY <1>3, <1>6 DEF IInv, Settled, Correcting, Shown, View, SameShown, SameAgent, Reported
<1>13. Typed'
  <2>1. count.commands + 1 \in 0..MaxCommands
    BY <1>1, BackendAssumption DEF IInv, Typed
  <2>2. count' \in [commands : 0..MaxCommands, events : 0..MaxInputs]
    BY <1>1, <2>1 DEF IInv, Typed
  <2>3. (CASE c = "connect" -> NextJob(s) [] c = "disconnect" -> 0
           [] OTHER -> manager.ongoingConnect) \in Job \cup {0}
    BY <1>2, <1>6, Facts DEF n
  <2>4. manager' \in [active : BOOLEAN, lastProfile : BOOLEAN, ongoingConnect : Job \cup {0},
                      asked : Commands \cup {"none"}, reached : BOOLEAN]
    BY <1>1, <2>3 DEF IInv, Typed
  <2> QED BY <1>1, <2>2, <2>4 DEF IInv, Typed
<1> QED BY <1>1, <1>6, <1>7, <1>10, <1>11, <1>12, <1>13 DEF IInv

\* The main thread takes the coroutine that was launched first.  Behind a
\* disconnect there is no connect job left while a backend is active, and a
\* reconnect is followed by a disconnect.
LEMMA Popping ==
    ASSUME NEW s, Sound(s), s.ready # <<>>, NEW m, NEW w, Obeyed(s, m, w)
    PROVE  LET t == WithReady(s, Tail(s.ready))
               kind == s.jobs[Head(s.ready)].kind IN
           /\ m.asked = "disconnect" => Followed(t) /\ Behind(t, m.active)
           /\ kind # "disconnect" => Obeyed(t, m, w)
           /\ m.asked = "disconnect" /\ kind = "reconnect" => Disconnects(t)
           /\ m.asked = "disconnect" /\ kind = "connect" => ~Disconnects(t)
           /\ m.asked = "disconnect" /\ kind = "disconnect" /\ m.active =>
                 \A i \in Job : s.jobs[i].kind # "connect"
<1> DEFINE t == WithReady(s, Tail(s.ready))
           i == Head(s.ready)
           kind == s.jobs[i].kind
<1>1. t.jobs = s.jobs /\ t.ready = Tail(s.ready) /\ i \in Job
  BY ReadyTaken
<1>2. /\ s.ready \in Seq(Job) /\ DOMAIN s.ready = 1..Len(s.ready) /\ Len(s.ready) \in Nat
      /\ \A k \in DOMAIN s.ready : s.ready[k] \in Job
      /\ \A k, l \in DOMAIN s.ready : s.ready[k] = s.ready[l] => k = l
  BY ReadyJobs
<1>3. /\ 1 \in DOMAIN s.ready /\ i = s.ready[1]
      /\ DOMAIN t.ready = 1..Len(s.ready) - 1
      /\ \A k \in DOMAIN t.ready : t.ready[k] = s.ready[k + 1]
  <2> DEFINE q == s.ready
  <2>1. q \in Seq(Job) /\ q # <<>>
    BY <1>2
  <2> HIDE DEF q
  <2>2. 1 \in DOMAIN q /\ Head(q) = q[1] /\ Len(Tail(q)) = Len(q) - 1 /\ Tail(q) \in Seq(Job)
    BY <2>1
  <2>3. DOMAIN Tail(q) = 1..Len(q) - 1
    BY <2>2
  <2>4. \A k \in 1..Len(q) - 1 : Tail(q)[k] = q[k + 1]
    BY <2>1
  <2> QED BY <1>1, <2>2, <2>3, <2>4 DEF q
<1> HIDE DEF t, i
<1>4. /\ \A k \in DOMAIN t.ready : k \in Nat /\ k + 1 \in DOMAIN s.ready
      /\ \A l \in DOMAIN s.ready : l # 1 => l - 1 \in DOMAIN t.ready /\ (l - 1) + 1 = l /\ l \in Nat
  BY <1>2, <1>3
<1>5. \A k \in DOMAIN t.ready : \A c : IsReady(t, k, c) <=> IsReady(s, k + 1, c)
  BY <1>1, <1>3, <1>4 DEF IsReady
<1>6. \A l \in DOMAIN s.ready : \A c : l # 1 /\ IsReady(s, l, c) => IsReady(t, l - 1, c)
  BY <1>4, <1>5
<1>7. \A c : IsReady(s, 1, c) <=> kind = c
  BY <1>3 DEF IsReady
<1>8. Followed(s) => Followed(t)
  <2> SUFFICES ASSUME Followed(s), NEW k \in DOMAIN t.ready, IsReady(t, k, "reconnect")
               PROVE  \E l \in DOMAIN t.ready : k < l /\ IsReady(t, l, "disconnect")
    BY DEF Followed
  <2>1. PICK y \in DOMAIN s.ready : k + 1 < y /\ IsReady(s, y, "disconnect")
    BY <1>4, <1>5 DEF Followed
  <2>2. y # 1 /\ k < y - 1
    BY <1>2, <1>4, <2>1
  <2> QED BY <1>4, <1>6, <2>1, <2>2
<1>9. Behind(s, m.active) => Behind(t, m.active)
  <2> SUFFICES ASSUME Behind(s, m.active), NEW k \in DOMAIN t.ready, IsReady(t, k, "disconnect"),
                      NEW j \in Job, t.jobs[j].kind = "connect"
               PROVE  /\ t.jobs[j].phase = "ready" /\ ~m.active
                      /\ \A l \in DOMAIN t.ready : t.ready[l] = j => k < l
    BY DEF Behind
  <2>1. k + 1 \in DOMAIN s.ready /\ IsReady(s, k + 1, "disconnect") /\ s.jobs[j].kind = "connect"
    BY <1>1, <1>4, <1>5
  <2>2. /\ s.jobs[j].phase = "ready" /\ ~m.active
        /\ \A l \in DOMAIN s.ready : s.ready[l] = j => k + 1 < l
    BY <2>1 DEF Behind
  <2>3. ASSUME NEW l \in DOMAIN t.ready, t.ready[l] = j PROVE k < l
    <3>1. k + 1 < l + 1
      BY <1>3, <1>4, <2>2, <2>3
    <3> QED BY <1>4, <3>1
  <2> QED BY <1>1, <2>2, <2>3
<1>10. kind # "disconnect" /\ Disconnects(s) => Disconnects(t)
  BY <1>4, <1>6, <1>7 DEF Disconnects
<1>11. kind # "disconnect" => Obeyed(t, m, w)
  BY <1>1, <1>8, <1>9, <1>10 DEF Obeyed, Closes
<1>12. Followed(s) /\ kind = "reconnect" => Disconnects(t)
  <2> SUFFICES ASSUME Followed(s), kind = "reconnect" PROVE Disconnects(t)
    OBVIOUS
  <2>1. PICK y \in DOMAIN s.ready : 1 < y /\ IsReady(s, y, "disconnect")
    BY <1>3, <1>7 DEF Followed
  <2> QED BY <1>4, <1>6, <2>1 DEF Disconnects
<1>13. Behind(s, m.active) /\ kind = "connect" => ~Disconnects(t)
  <2> SUFFICES ASSUME Behind(s, m.active), kind = "connect", Disconnects(t) PROVE FALSE
    OBVIOUS
  <2>1. PICK k \in DOMAIN t.ready : IsReady(t, k, "disconnect")
    BY DEF Disconnects
  <2>2. k + 1 \in DOMAIN s.ready /\ IsReady(s, k + 1, "disconnect")
    BY <1>4, <1>5, <2>1
  <2>3. k + 1 < 1
    BY <1>1, <1>3, <2>2 DEF Behind
  <2> QED BY <1>4, <2>1, <2>3
<1>14. Behind(s, m.active) /\ kind = "disconnect" /\ m.active => \A j \in Job : s.jobs[j].kind # "connect"
  BY <1>3, <1>7 DEF Behind
<1> QED BY <1>8, <1>9, <1>11, <1>12, <1>13, <1>14 DEF Obeyed, t, i

\* A coroutine that waits nowhere ends.
LEMMA EndingLast ==
    ASSUME NEW s, Sound(s), Idle(s), NEW i \in Job, Unqueued(s, i)
    PROVE  LET t == End(s, i) IN
           /\ Sound(t) /\ SameShown(s, t) /\ SameAgent(s, t) /\ Free(s) \subseteq Free(t)
           /\ KeptBut(s, t, i) /\ t.jobs[i].kind = "none"
<1> DEFINE t == End(s, i)
<1>1. /\ Sound(t) /\ SameShown(s, t) /\ SameAgent(s, t) /\ Free(s) \subseteq Free(t)
      /\ t.jobs = [s.jobs EXCEPT ![i] = NoJob] /\ t.ready = s.ready
  BY Ending DEF Unqueued
<1>2. s.jobs \in [Job -> JobRecord]
  BY DEF Sound, BackendRecord
<1> HIDE DEF t
<1>3. t.jobs[i] = NoJob /\ \A j \in Job : j # i => t.jobs[j] = s.jobs[j]
  BY <1>1, <1>2
<1>4. KeptBut(s, t, i) /\ t.jobs[i].kind = "none"
  BY <1>1, <1>3, NoJobTyped DEF KeptBut
<1> QED BY <1>1, <1>4 DEF t

\* A connect job launched without an active backend comes behind every
\* disconnect.
LEMMA ConnectBehind ==
    ASSUME NEW s, Sound(s), Free(s) # {}, NEW m, NEW w, ~m.active, Obeyed(s, m, w),
           \A i \in Job : s.jobs[i].kind # "connect",
           m.asked = "disconnect" => Disconnects(s)
    PROVE  Obeyed(LaunchReady(s, "connect"), m, w)
<1> DEFINE t == LaunchReady(s, "connect")
           n == NextJob(s)
           z == Len(s.ready) + 1
<1>1. "connect" \in CommandKinds
  BY DEF CommandKinds
<1>2. /\ n \in Job /\ t.jobs[n] = JobAt("connect", "ready")
      /\ \A j \in Job : j # n => t.jobs[j] = s.jobs[j]
      /\ s.jobs[n].kind = "none"
  BY <1>1, ReadyLaunched
<1>3. /\ Len(s.ready) \in Nat
      /\ DOMAIN s.ready = 1..Len(s.ready) /\ DOMAIN t.ready = 1..Len(s.ready) + 1
      /\ t.ready[z] = n
      /\ \A k \in DOMAIN s.ready : t.ready[k] = s.ready[k] /\ s.ready[k] # n
      /\ \A other \in CommandKinds : \A k \in DOMAIN s.ready :
            IsReady(t, k, other) <=> IsReady(s, k, other)
      /\ \A other \in CommandKinds : IsReady(t, z, other) <=> other = "connect"
  BY <1>1, ComesLast
<1> HIDE DEF t, n
<1>4. t.jobs[n].kind = "connect" /\ t.jobs[n].phase = "ready"
  BY <1>2 DEF JobAt
<1>5. /\ \A k \in DOMAIN t.ready : k \in DOMAIN s.ready \/ k = z
      /\ \A k \in DOMAIN s.ready : k \in DOMAIN t.ready /\ k < z
      /\ ~IsReady(t, z, "disconnect") /\ ~IsReady(t, z, "reconnect")
  BY <1>3 DEF CommandKinds
<1> HIDE DEF z
<1>6. /\ \A k \in DOMAIN s.ready : IsReady(t, k, "disconnect") <=> IsReady(s, k, "disconnect")
      /\ \A k \in DOMAIN s.ready : IsReady(t, k, "reconnect") <=> IsReady(s, k, "reconnect")
  BY <1>3 DEF CommandKinds
<1>7. Followed(s) => Followed(t)
  BY <1>5, <1>6 DEF Followed
<1>8. Behind(t, m.active)
  <2>1. \A j \in Job : t.jobs[j].kind = "connect" => j = n
    BY <1>2
  <2>2. \A l \in DOMAIN t.ready : t.ready[l] = n => l = z
    BY <1>3, <1>5
  <2> QED BY <1>4, <1>5, <2>1, <2>2 DEF Behind
<1>9. Disconnects(s) => Disconnects(t)
  BY <1>5, <1>6 DEF Disconnects
<1>10. Closes(s) => Closes(t)
  BY <1>2 DEF Closes
<1>11. Obeyed(t, m, w)
  BY <1>7, <1>8, <1>9, <1>10 DEF Obeyed
<1> QED BY <1>11 DEF t

\* The step of a coroutine that was ready, by what it leaves of s, the backend
\* without its place in the queue.
LEMMA RunReadyEnds ==
    ASSUME IInv, UNCHANGED <<callback, cert, wg, count>>, Sound(b'), Settled(b', callback), Idle(b'),
           b'.vpnProtocolState \in {b.vpnProtocolState, "Disabled"},
           manager' \in [active : BOOLEAN, lastProfile : BOOLEAN, ongoingConnect : Job \cup {0},
                         asked : Commands \cup {"none"}, reached : BOOLEAN],
           Commanded(b', manager'), Obeyed(b', manager', wg)
    PROVE  IInv'
<1>1. Typed'
  BY DEF IInv, Typed
<1>2. Reported(b', wg)
  BY DEF IInv, Reported
<1> QED BY <1>1, <1>2 DEF IInv

\* The coroutine of a command keeps the invariant.
LEMMA RunReadyStep ==
    ASSUME IInv, Room, RunReady
    PROVE  IInv'
<1> DEFINE i == Head(b.ready)
           s == WithReady(b, Tail(b.ready))
           kind == b.jobs[i].kind
<1>1. b.ready # <<>> /\ UNCHANGED <<callback, cert, wg, count>>
  BY DEF RunReady
<1>2. /\ Sound(s) /\ SameShown(b, s) /\ SameAgent(b, s) /\ Free(s) = Free(b)
      /\ s.jobs = b.jobs /\ i \in Job /\ b.jobs[i].phase = "ready" /\ Unqueued(s, i)
  BY <1>1, ReadyTaken DEF IInv
<1>3. /\ manager.asked = "disconnect" => Followed(s) /\ Behind(s, manager.active)
      /\ kind # "disconnect" => Obeyed(s, manager, wg)
      /\ manager.asked = "disconnect" /\ kind = "reconnect" => Disconnects(s)
      /\ manager.asked = "disconnect" /\ kind = "connect" => ~Disconnects(s)
      /\ manager.asked = "disconnect" /\ kind = "disconnect" /\ manager.active =>
            \A j \in Job : b.jobs[j].kind # "connect"
  BY <1>1, Popping DEF IInv
<1>4. /\ kind = "fail" => b' = Suspend(CloseAgentConnection(s), i, "down") /\ UNCHANGED manager
      /\ kind = "connect" => /\ b' = IF manager.active THEN Disconnect(s, i)
                                    ELSE Moved(s, i, "prepare")
                             /\ manager' = [manager EXCEPT !.active = FALSE]
      /\ kind = "disconnect" => /\ b' = IF manager.active THEN Disconnect(s, i) ELSE End(s, i)
                                /\ manager' = [manager EXCEPT !.reached = manager.active]
  BY DEF RunReady, WithReady, Moved
<1>5. kind = "reconnect" =>
          LET t == Cancel(s, manager.ongoingConnect)
              connects == ~manager.active /\ manager.lastProfile
          IN  /\ b' = CASE manager.active -> Disconnect(t, i)
                        [] connects -> LaunchReady(End(t, i), "connect")
                        [] OTHER -> End(t, i)
              /\ manager' = [manager EXCEPT
                     !.ongoingConnect = IF connects THEN NextJob(End(t, i)) ELSE 0]
  BY DEF RunReady, WithReady
<1> HIDE DEF s
<1> HIDE DEF i
<1>6. /\ Idle(s) /\ Commanded(s, manager) /\ Settled(s, callback) /\ s.vpnProtocolState = b.vpnProtocolState
      /\ \A k \in DOMAIN s.ready : s.ready[k] # i
  BY <1>2 DEF IInv, Idle, Commanded, Settled, Correcting, Shown, View, SameShown, SameAgent, Unqueued
<1>7. /\ kind \in CommandKinds /\ s.jobs[i].phase # "ended" /\ s.jobs[i].kind = kind
      /\ ~s.jobs[i].cancelled
  <2>1. kind \in CommandKinds
    BY <1>2, Facts DEF Fits, CommandKinds
  <2> QED BY <1>2, <2>1 DEF IInv, Commanded
<1>8. /\ manager.ongoingConnect \in Job \cup {0}
      /\ manager \in [active : BOOLEAN, lastProfile : BOOLEAN, ongoingConnect : Job \cup {0},
                      asked : Commands \cup {"none"}, reached : BOOLEAN]
  BY Facts DEF IInv, Typed
<1>9. manager.asked = "disconnect" /\ manager.reached /\ kind # "disconnect" =>
          wg.state = "closed" \/ wg.by # "connect" \/ Closes(s)
  BY <1>3 DEF Obeyed
<1>10. CASE kind = "fail"
  <2> DEFINE d == CloseAgentConnection(s)
             t == Suspend(d, i, "down")
  <2>1. b' = t /\ UNCHANGED manager
    BY <1>4, <1>10
  <2>2. /\ Sound(d) /\ SameShown(s, d) /\ Kept(s, d) /\ d.agent = "null"
    BY <1>2, Closing
  <2> HIDE DEF d
  <2>3. /\ d.jobs[i].kind = "fail" /\ d.jobs[i].phase = "ready" /\ ~d.jobs[i].cancelled
    BY <1>2, <1>7, <1>10, <2>2 DEF Kept
  <2>4. Unqueued(d, i)
    <3>1. \A k \in DOMAIN d.ready : d.ready[k] # i
      BY <1>6, <2>2 DEF Kept
    <3> QED BY <2>2, <2>3, <3>1 DEF Unqueued, Sound, Queues, Waiting
  <2>5. Fits(d.jobs[i].kind, "down")
    BY <2>3 DEF Fits
  <2>6. /\ Sound(t) /\ SameShown(d, t) /\ SameAgent(d, t) /\ t.ready = d.ready
        /\ \A j \in Job : j # i => t.jobs[j] = d.jobs[j]
        /\ t.jobs[i].phase = "down" /\ ~t.jobs[i].cancelled /\ t.jobs[i].kind = d.jobs[i].kind
    BY <1>2, <2>2, <2>3, <2>4, <2>5, Suspending
  <2> HIDE DEF t
  <2>7. KeptBut(s, t, i)
    BY <2>2, <2>6 DEF Kept, KeptBut
  <2>8. Closes(s) => Closes(t)
    BY <1>2, <1>7, <1>10, <2>7, StillCloses
  <2>9. /\ t.jobs[i].kind = s.jobs[i].kind /\ ~t.jobs[i].cancelled
        /\ s.jobs[i].kind # "connect" /\ Obeyed(s, manager, wg)
        /\ manager.asked = "disconnect" /\ manager.reached =>
              wg.state = "closed" \/ wg.by # "connect" \/ Closes(t)
    BY <1>3, <1>7, <1>9, <1>10, <2>3, <2>6, <2>8
  <2>10. Idle(t) /\ Commanded(t, manager) /\ Obeyed(t, manager, wg)
    BY <1>2, <1>6, <1>8, <2>7, <2>9, RunningOn, ZenonT(60)
  <2>11. Settled(t, callback) /\ t.vpnProtocolState = b.vpnProtocolState
    BY <1>6, <2>2, <2>6 DEF Settled, Correcting, Shown, View, SameShown, SameAgent
  <2> QED BY <1>1, <1>8, <2>1, <2>6, <2>10, <2>11, RunReadyEnds
<1>11. CASE kind = "connect"
  <2>1. /\ manager' = [manager EXCEPT !.active = FALSE]
        /\ manager.active => b' = Disconnect(s, i)
        /\ ~manager.active => b' = Moved(s, i, "prepare")
    BY <1>4, <1>11
  <2>2. /\ manager'.asked = manager.asked /\ manager'.reached = manager.reached
        /\ manager'.ongoingConnect = manager.ongoingConnect /\ ~manager'.active
        /\ manager' \in [active : BOOLEAN, lastProfile : BOOLEAN, ongoingConnect : Job \cup {0},
                         asked : Commands \cup {"none"}, reached : BOOLEAN]
    BY <1>8, <2>1
  <2>3. /\ Sound(b') /\ Settled(b', callback) /\ KeptBut(s, b', i)
        /\ b'.jobs[i].kind = "none" \/ (b'.jobs[i].kind = s.jobs[i].kind /\ ~b'.jobs[i].cancelled)
        /\ b'.vpnProtocolState \in {b.vpnProtocolState, "Disabled"}
    <3>1. CASE manager.active
      <4> DEFINE t == Disconnect(s, i)
      <4>1. /\ Sound(t) /\ Settled(t, callback) /\ KeptBut(s, t, i) /\ Reaches(s, t, i, "delay")
            /\ t.vpnProtocolState = "Disabled"
        BY <1>2, <1>6, <1>7, <1>11, Disconnecting
      <4>2. b' = t
        BY <2>1, <3>1
      <4> HIDE DEF t
      <4> QED BY <4>1, <4>2, NoJobTyped DEF Reaches
    <3>2. CASE ~manager.active
      <4> DEFINE t == Moved(s, i, "prepare")
      <4>1. Fits(s.jobs[i].kind, "prepare")
        BY <1>7, <1>11 DEF Fits
      <4>2. /\ Sound(t) /\ SameShown(s, t) /\ SameAgent(s, t) /\ t.ready = s.ready
            /\ t.jobs[i].phase = "prepare" /\ t.jobs[i].kind = s.jobs[i].kind
            /\ t.jobs[i].cancelled = s.jobs[i].cancelled
            /\ \A j \in Job : j # i => t.jobs[j] = s.jobs[j]
        BY <1>2, <1>7, <4>1, Moving
      <4>3. b' = t
        BY <2>1, <3>2
      <4> HIDE DEF t
      <4>4. KeptBut(s, t, i)
        BY <4>2 DEF KeptBut
      <4>5. Settled(t, callback) /\ t.vpnProtocolState = b.vpnProtocolState
        BY <1>6, <4>2 DEF Settled, Correcting, Shown, View, SameShown, SameAgent
      <4> QED BY <1>7, <4>2, <4>3, <4>4, <4>5
    <3> QED BY <1>8, <3>1, <3>2
  <2>4. Closes(s) => Closes(b')
    BY <1>2, <1>7, <1>11, <2>3, StillCloses
  <2>5. /\ Obeyed(s, manager, wg)
        /\ manager.asked = "disconnect" /\ s.jobs[i].kind = "connect" => ~Disconnects(s)
        /\ manager.asked = "disconnect" /\ manager.reached =>
              wg.state = "closed" \/ wg.by # "connect" \/ Closes(b')
    BY <1>3, <1>9, <1>11, <2>4
  <2>6. Idle(b') /\ Commanded(b', manager') /\ Obeyed(b', manager', wg)
    <3>1. /\ Sound(s) /\ i \in Job /\ KeptBut(s, b', i)
          /\ \A k \in DOMAIN s.ready : s.ready[k] # i
          /\ manager.ongoingConnect \in Job \cup {0}
          /\ Idle(s) /\ Commanded(s, manager) /\ Obeyed(s, manager, wg)
      BY <1>2, <1>6, <1>8, <2>3, <2>5
    <3>2. \/ b'.jobs[i].kind = "none"
          \/ /\ b'.jobs[i].kind = s.jobs[i].kind
             /\ s.jobs[i].cancelled \/ ~b'.jobs[i].cancelled
      BY <2>3
    <3>3. manager'.active => manager.active \/ s.jobs[i].kind = "connect"
      BY <2>2
    <3> QED BY <2>2, <2>5, <3>1, <3>2, <3>3, RunningOn, Zenon
  <2> QED BY <1>1, <2>2, <2>3, <2>6, RunReadyEnds
<1>12. CASE kind = "disconnect"
  <2> DEFINE m == [manager EXCEPT !.reached = FALSE]
  <2>1. /\ manager' = [manager EXCEPT !.reached = manager.active]
        /\ manager.active => b' = Disconnect(s, i)
        /\ ~manager.active => b' = End(s, i)
    BY <1>4, <1>12
  <2>2. /\ manager'.asked = manager.asked /\ manager'.reached = manager.active
        /\ manager'.ongoingConnect = manager.ongoingConnect /\ manager'.active = manager.active
        /\ manager' \in [active : BOOLEAN, lastProfile : BOOLEAN, ongoingConnect : Job \cup {0},
                         asked : Commands \cup {"none"}, reached : BOOLEAN]
        /\ m.asked = manager.asked /\ ~m.reached
        /\ m.ongoingConnect = manager.ongoingConnect /\ m.active = manager.active
    BY <1>8, <2>1
  <2> HIDE DEF m
  <2>3. Commanded(s, m) /\ Obeyed(s, m, wg)
    BY <1>3, <1>6, <2>2 DEF Commanded, Obeyed
  <2>4. /\ Sound(b') /\ Settled(b', callback) /\ KeptBut(s, b', i)
        /\ b'.jobs[i].kind = "none" \/ (b'.jobs[i].kind = s.jobs[i].kind /\ ~b'.jobs[i].cancelled)
        /\ b'.vpnProtocolState \in {b.vpnProtocolState, "Disabled"}
        /\ manager.active => b'.jobs[i].kind = "disconnect" /\ b'.jobs[i].phase = "delay"
    <3>1. CASE manager.active
      <4> DEFINE t == Disconnect(s, i)
      <4>1. /\ Sound(t) /\ Settled(t, callback) /\ KeptBut(s, t, i) /\ Reaches(s, t, i, "delay")
            /\ t.vpnProtocolState = "Disabled" /\ t.jobs[i].phase = "delay"
        BY <1>2, <1>6, <1>7, <1>12, Disconnecting
      <4>2. b' = t
        BY <2>1, <3>1
      <4> HIDE DEF t
      <4>3. t.jobs[i].kind = s.jobs[i].kind /\ ~t.jobs[i].cancelled
        BY <4>1, NoJobTyped DEF Reaches
      <4> QED BY <1>7, <1>12, <4>1, <4>2, <4>3
    <3>2. CASE ~manager.active
      <4> DEFINE t == End(s, i)
      <4>1. /\ Sound(t) /\ SameShown(s, t) /\ SameAgent(s, t)
            /\ KeptBut(s, t, i) /\ t.jobs[i].kind = "none"
        BY <1>2, <1>6, EndingLast
      <4>2. b' = t
        BY <2>1, <3>2
      <4> HIDE DEF t
      <4>3. Settled(t, callback) /\ t.vpnProtocolState = b.vpnProtocolState
        BY <1>6, <4>1 DEF Settled, Correcting, Shown, View, SameShown, SameAgent
      <4> QED BY <3>2, <4>1, <4>2, <4>3
    <3> QED BY <1>8, <3>1, <3>2
  <2>5. s.jobs[i].kind # "connect"
    BY <1>7, <1>12
  <2>6. Idle(b') /\ Commanded(b', m) /\ Obeyed(b', m, wg)
    BY <1>2, <1>6, <1>8, <2>2, <2>3, <2>4, <2>5, RunningOn, ZenonT(60)
  <2>7. Commanded(b', manager')
    BY <2>2, <2>6 DEF Commanded
  <2>8. Obeyed(b', manager', wg)
    <3> SUFFICES ASSUME manager.asked = "disconnect", manager.active
                 PROVE  /\ \A j \in Job : b'.jobs[j].kind # "connect"
                        /\ Closes(b')
      BY <2>2, <2>6 DEF Obeyed
    <3>1. \A j \in Job : s.jobs[j].kind # "connect"
      BY <1>2, <1>3, <1>12
    <3>2. \A j \in Job : b'.jobs[j].kind # "connect"
      BY <2>4, <3>1 DEF KeptBut, CommandKinds
    <3>3. Closes(b')
      BY <1>2, <2>4 DEF Closes
    <3> QED BY <3>2, <3>3
  <2> QED BY <1>1, <2>2, <2>4, <2>6, <2>7, <2>8, RunReadyEnds
<1>13. CASE kind = "reconnect"
  <2> DEFINE t == Cancel(s, manager.ongoingConnect)
             e == End(t, i)
             connects == ~manager.active /\ manager.lastProfile
             m == [manager EXCEPT !.ongoingConnect = 0]
  <2>1. /\ Sound(t) /\ SameShown(s, t) /\ SameAgent(s, t) /\ Free(s) \subseteq Free(t) /\ Idle(t)
        /\ \A j \in Job : t.jobs[j].kind # "connect"
        /\ \A j \in Job : t.jobs[j].kind \in CommandKinds => ~t.jobs[j].cancelled
        /\ \A j \in Job : s.jobs[j].kind \in {"disconnect", "reconnect", "fail"} => t.jobs[j] = s.jobs[j]
        /\ \A j \in Job : Unqueued(s, j) => Unqueued(t, j)
        /\ Followed(s) => Followed(t)
        /\ Disconnects(s) => Disconnects(t)
    BY <1>2, <1>6, <1>8, ConnectCancelled
  <2>2. /\ manager.active => b' = Disconnect(t, i)
        /\ connects => b' = LaunchReady(e, "connect")
        /\ ~manager.active /\ ~connects => b' = End(t, i)
        /\ connects => manager' = [manager EXCEPT !.ongoingConnect = NextJob(e)]
        /\ ~connects => manager' = m
    BY <1>5, <1>13
  <2>3. /\ m.asked = manager.asked /\ m.reached = manager.reached /\ m.active = manager.active
        /\ m.ongoingConnect = 0 /\ m.ongoingConnect \in Job \cup {0}
        /\ m \in [active : BOOLEAN, lastProfile : BOOLEAN, ongoingConnect : Job \cup {0},
                  asked : Commands \cup {"none"}, reached : BOOLEAN]
    BY <1>8
  <2>4. connects \in BOOLEAN /\ (connects => ~manager.active)
    BY <1>8
  <2> HIDE DEF t, m, connects
  <2>5. /\ t.jobs[i] = s.jobs[i] /\ t.jobs[i].kind = "reconnect" /\ t.jobs[i].phase = "ready"
        /\ ~t.jobs[i].cancelled /\ Unqueued(t, i) /\ \A k \in DOMAIN t.ready : t.ready[k] # i
    BY <1>2, <1>7, <1>13, <2>1 DEF Unqueued
  <2>6. Settled(t, callback) /\ t.vpnProtocolState = b.vpnProtocolState
    BY <1>6, <2>1 DEF Settled, Correcting, Shown, View, SameShown, SameAgent
  <2>7. Commanded(t, m)
    BY <2>1, <2>3 DEF Commanded
  <2>8. Closes(s) => Closes(t)
    BY <2>1 DEF Closes
  <2>9. /\ Obeyed(t, m, wg)
        /\ m.asked = "disconnect" => Disconnects(t)
        /\ m.asked = "disconnect" /\ m.reached => wg.state = "closed" \/ wg.by # "connect" \/ Closes(t)
    <3>1. m.asked = "disconnect" => Followed(t) /\ Behind(t, m.active) /\ Disconnects(t)
      BY <1>3, <1>13, <2>1, <2>3 DEF Behind
    <3>2. m.asked = "disconnect" /\ m.reached => wg.state = "closed" \/ wg.by # "connect" \/ Closes(t)
      BY <1>9, <1>13, <2>3, <2>8
    <3> QED BY <2>1, <3>1, <3>2 DEF Obeyed
  <2>10. CASE manager.active
    <3> DEFINE d == Disconnect(t, i)
    <3>1. /\ Sound(d) /\ Settled(d, callback) /\ KeptBut(t, d, i) /\ Reaches(t, d, i, "delay")
          /\ d.vpnProtocolState = "Disabled"
      BY <1>2, <2>1, <2>5, <2>6, Disconnecting
    <3>2. b' = d /\ manager' = m
      BY <2>2, <2>4, <2>10
    <3> HIDE DEF d
    <3>3. d.jobs[i].kind = "none" \/ (d.jobs[i].kind = t.jobs[i].kind /\ ~d.jobs[i].cancelled)
      BY <3>1, NoJobTyped DEF Reaches
    <3>4. Closes(t) => Closes(d)
      BY <1>2, <2>5, <3>1, StillCloses
    <3>5. /\ m.asked = "disconnect" /\ m.reached => wg.state = "closed" \/ wg.by # "connect" \/ Closes(d)
          /\ t.jobs[i].kind # "connect"
      BY <2>5, <2>9, <3>4
    <3>6. Idle(d) /\ Commanded(d, m) /\ Obeyed(d, m, wg)
      <4>1. /\ Sound(t) /\ i \in Job /\ KeptBut(t, d, i)
            /\ \A k \in DOMAIN t.ready : t.ready[k] # i
            /\ m.ongoingConnect \in Job \cup {0}
            /\ Idle(t) /\ Commanded(t, m) /\ Obeyed(t, m, wg)
        BY <1>2, <2>1, <2>3, <2>5, <2>7, <2>9, <3>1
      <4>2. \/ d.jobs[i].kind = "none"
            \/ /\ d.jobs[i].kind = t.jobs[i].kind
               /\ t.jobs[i].cancelled \/ ~d.jobs[i].cancelled
        BY <3>3
      <4> QED BY <3>5, <4>1, <4>2, RunningOn, Zenon
    <3> QED BY <1>1, <2>3, <3>1, <3>2, <3>6, RunReadyEnds
  <2>11. CASE ~manager.active
    <3>1. /\ Sound(e) /\ SameShown(t, e) /\ SameAgent(t, e) /\ Free(t) \subseteq Free(e)
          /\ KeptBut(t, e, i) /\ e.jobs[i].kind = "none"
      BY <1>2, <2>1, <2>5, EndingLast
    <3>2. ~connects => b' = e /\ manager' = m
      BY <2>2, <2>11
    <3> HIDE DEF e
    <3>3. Closes(t) => Closes(e)
      BY <1>2, <2>5, <3>1, StillCloses
    <3>4. /\ m.asked = "disconnect" /\ m.reached => wg.state = "closed" \/ wg.by # "connect" \/ Closes(e)
          /\ t.jobs[i].kind # "connect"
      BY <2>5, <2>9, <3>3
    <3>5. Idle(e) /\ Commanded(e, m) /\ Obeyed(e, m, wg) /\ (Disconnects(t) => Disconnects(e))
      BY <1>2, <2>1, <2>3, <2>5, <2>7, <2>9, <3>1, <3>4, RunningOn, Zenon
    <3>6. Settled(e, callback) /\ e.vpnProtocolState = b.vpnProtocolState
      BY <2>6, <3>1 DEF Settled, Correcting, Shown, View, SameShown, SameAgent
    <3>7. CASE ~connects
      BY <1>1, <2>3, <3>1, <3>2, <3>5, <3>6, <3>7, RunReadyEnds
    <3>8. CASE connects
      <4> DEFINE l == LaunchReady(e, "connect")
      <4>1. Free(e) # {} /\ "connect" \in CommandKinds
        BY <1>2, <2>1, <3>1 DEF Room, CommandKinds
      <4>2. /\ \A j \in Job : e.jobs[j].kind # "connect"
            /\ \A j \in Job : e.jobs[j].kind \in CommandKinds => ~e.jobs[j].cancelled
        BY <2>1, <3>1, <3>5 DEF KeptBut, CommandKinds, Commanded
      <4>3. b' = l /\ manager' = [manager EXCEPT !.ongoingConnect = NextJob(e)]
        BY <2>2, <3>8
      <4>4. Sound(l) /\ SameShown(e, l) /\ SameAgent(e, l) /\ NextJob(e) \in Job
        BY <3>1, <4>1, ReadyLaunched
      <4>5. /\ manager'.ongoingConnect = NextJob(e) /\ ~manager'.active
            /\ manager'.asked = m.asked /\ manager'.reached = m.reached
            /\ manager' \in [active : BOOLEAN, lastProfile : BOOLEAN, ongoingConnect : Job \cup {0},
                             asked : Commands \cup {"none"}, reached : BOOLEAN]
        BY <1>8, <2>3, <2>11, <4>3, <4>4
      <4>6. Idle(l)
        BY <3>1, <3>5, <4>1, LaunchCommanded
      <4>7. Commanded(l, manager')
        BY <3>1, <4>1, <4>2, <4>5, ConnectLaunched
      <4>8. Obeyed(e, manager', wg) /\ (manager'.asked = "disconnect" => Disconnects(e))
        BY <2>3, <2>9, <2>11, <3>5, <4>2, <4>5 DEF Obeyed, Behind
      <4>9. Obeyed(l, manager', wg)
        BY <3>1, <4>1, <4>2, <4>5, <4>8, ConnectBehind
      <4> HIDE DEF l
      <4>10. Settled(l, callback) /\ l.vpnProtocolState = b.vpnProtocolState
        BY <3>6, <4>4 DEF Settled, Correcting, Shown, View, SameShown, SameAgent
      <4> QED BY <1>1, <4>3, <4>4, <4>5, <4>6, <4>7, <4>9, <4>10, RunReadyEnds
    <3> QED BY <3>7, <3>8
  <2> QED BY <1>8, <2>10, <2>11
<1> QED BY <1>7, <1>10, <1>11, <1>12, <1>13 DEF CommandKinds

----------------------------------------------------------------------------
\* The theorems.

\* The invariant holds at first.
LEMMA Initially == Init => IInv
<1> SUFFICES ASSUME Init PROVE IInv
  OBVIOUS
<1>1. /\ b.vpnProtocolState = "Disabled" /\ b.selfState = "Disabled" /\ b.posted = "none"
      /\ b.agent = "null" /\ b.strays = 0 /\ ~b.late
      /\ b.agentConnectionJob = 0 /\ b.reconnectionJob = 0 /\ b.evicting = 0
      /\ b.jobs = [i \in Job |-> NoJob]
      /\ b.ready = <<>> /\ b.delays = <<>> /\ b.wireGuardIo = <<>>
  BY DEF Init
<1>2. b \in BackendRecord
  <2>1. b.jobs \in [Job -> JobRecord]
    BY <1>1, NoJobTyped
  <2>2. <<>> \in Seq(Job)
    OBVIOUS
  <2> QED BY <2>1, <2>2 DEF Init, BackendRecord, VpnStates
<1>3. \A i \in Job : b.jobs[i].kind = "none" /\ b.jobs[i].phase = "ended" /\ ~b.jobs[i].cancelled
  BY <1>1, NoJobTyped
<1>4. Queues(b)
  BY <1>1 DEF Queues, Waiting
<1>5. \A i \in Job : Consistent(b.jobs[i])
  BY <1>3 DEF Consistent, Fits
<1>6. Sound(b)
  BY <1>1, <1>2, <1>3, <1>4, <1>5 DEF Sound, Pointers, Tracked
<1>7. Idle(b) /\ Settled(b, callback)
  BY <1>1, <1>3 DEF Idle, Settled, Correcting, Shown, View
<1>8. Reported(b, wg)
  <2>1. Len(wg.reports) = 0
    BY DEF Init
  <2> QED BY <1>1, <2>1 DEF Reported
<1>9. Commanded(b, manager) /\ Obeyed(b, manager, wg)
  BY <1>3 DEF Init, Commanded, Obeyed, CommandKinds
<1>10. Typed
  <2>1. <<>> \in Seq(VpnStates)
    OBVIOUS
  <2>2. callback \in CallbackRecord /\ CallbackFits(callback)
    BY DEF Init, CallbackAt, CallbackRecord, CallbackFits
  <2>3. /\ manager \in [active : BOOLEAN, lastProfile : BOOLEAN, ongoingConnect : Job \cup {0},
                         asked : Commands \cup {"none"}, reached : BOOLEAN]
        /\ cert \in [valid : BOOLEAN, request : BOOLEAN, key : Nat]
        /\ wg \in [state : {"closed", "Connecting", "Connected", "Error"}, key : Nat,
                    by : {"connect", "revoked", "reconnect"}, reports : Seq(VpnStates),
                    flapped : BOOLEAN]
        /\ count \in [commands : 0..MaxCommands, events : 0..MaxInputs]
    BY <2>1, BackendAssumption DEF Init
  <2> QED BY <2>2, <2>3 DEF Typed
<1> QED BY <1>6, <1>7, <1>8, <1>9, <1>10 DEF IInv

\* Every step keeps the invariant.
LEMMA Preserved == IInv /\ [Next]_vars => IInv'
<1> SUFFICES ASSUME IInv, [Next]_vars PROVE IInv'
  OBVIOUS
<1>1. CASE UNCHANGED vars
  BY <1>1 DEF vars, IInv, Typed
<1>2. CASE Main
  <2>1. Room
    BY <1>2 DEF Main
  <2>2. CASE RunReady
    BY <2>1, <2>2, RunReadyStep
  <2>3. CASE DelayEnds
    BY <2>3, DelayEndsStep
  <2>4. CASE TunnelDown
    BY <2>4, TunnelDownStep
  <2>5. CASE TunnelUp
    BY <2>5, TunnelUpStep
  <2>6. CASE ApplyReport
    BY <2>6, ApplyReportStep
  <2>7. CASE Evicted
    BY <2>1, <2>7, EvictedStep
  <2>8. CASE DeliverPosted
    BY <2>8, DeliverPostedStep
  <2>9. CASE RequestEnds
    BY <2>1, <2>9, RequestEndsStep
  <2>10. ASSUME NEW i \in Job, Prepared(i) PROVE IInv'
    BY <2>10, PreparedStep
  <2>11. ASSUME NEW i \in Job, AskCertificate(i) PROVE IInv'
    BY <2>1, <2>11, AskCertificateStep
  <2>12. ASSUME NEW i \in Job, Answered(i) PROVE IInv'
    BY <2>1, <2>12, AnsweredStep
  <2>13. ASSUME NEW i \in Job, Yielded(i) PROVE IInv'
    BY <2>13, YieldedStep
  <2> QED BY <1>2, <2>2, <2>3, <2>4, <2>5, <2>6, <2>7, <2>8, <2>9, <2>10, <2>11, <2>12, <2>13 DEF Main
<1>3. CASE Environment
  <2>1. Room
    BY <1>3 DEF Environment
  <2>2. ASSUME NEW c \in Commands, Command(c) PROVE IInv'
    BY <2>1, <2>2, CommandStep
  <2>3. ASSUME NEW state \in {"Connecting", "Connected", "Error"}, TunnelChanges(state) PROVE IInv'
    BY <2>3, TunnelChangesStep
  <2>4. ASSUME NEW state \in {"Connected", "Unreachable", "expired", "unknownCA"}, AgentState(state)
        PROVE  IInv'
    BY <2>1, <2>4, AgentStateStep
  <2>5. ASSUME NEW state, StrayState(state) PROVE IInv'
    BY <2>5, StrayStateStep
  <2>6. ASSUME NEW error, AgentError(error) PROVE IInv'
    BY <2>6, AgentErrorStep
  <2>7. CASE CertificateChanges
    BY <2>7, CertificateChangesStep
  <2> QED BY <1>3, <2>2, <2>3, <2>4, <2>5, <2>6, <2>7 DEF Environment
<1>4. CASE Callback
  <2>1. Room
    BY <1>4 DEF Callback
  <2>2. CASE CallbackReads
    BY <2>2, CallbackReadsStep
  <2>3. CASE CallbackConnects
    BY <2>1, <2>3, CallbackConnectsStep
  <2>4. CASE CallbackActs
    BY <2>1, <2>4, CallbackActsStep
  <2>5. CASE CallbackPosts
    BY <2>5, CallbackPostsStep
  <2> QED BY <1>4, <2>2, <2>3, <2>4, <2>5 DEF Callback
<1> QED BY <1>1, <1>2, <1>3, <1>4 DEF Next

\* Whatever the commands, the tunnel, the agents and the certificate do, and
\* however the main thread and the callbacks of an agent interleave, the
\* invariant holds.
THEOREM BackendInvariant == Safety => []IInv
BY Initially, Preserved, PTL DEF Safety

\* Type correctness: every coroutine waits in at most one place of the queue of
\* its dispatcher, and none runs between two steps.
THEOREM BackendTypeCorrect == Safety => []TypeOK
<1>1. IInv => TypeOK
  BY DEF IInv, Typed, Sound, Queues, Idle, TypeOK
<1> QED BY <1>1, BackendInvariant, PTL

\* An agent connection is lost track of only through a connection job that went
\* on after it was cancelled, or that a callback launched beside another.
THEOREM BackendOneAgent == Safety => []OneAgent
<1>1. IInv => OneAgent
  BY DEF IInv, Sound, Tracked, OneAgent
<1> QED BY <1>1, BackendInvariant, PTL

\* The application never comes to rest showing Connected without a connected
\* tunnel, for any number of events, unless a callback went on with what the main
\* thread had changed.
THEOREM BackendShownConnected == Safety => []ShownConnected
<1>1. IInv => ShownConnected
  <2> SUFFICES ASSUME IInv, AtRest, b.selfState = "Connected", ~callback.raced
               PROVE  wg.state = "Connected" /\ b.vpnProtocolState = "Connected"
    BY DEF ShownConnected
  <2>1. b.vpnProtocolState = "Connected"
    BY DEF IInv, AtRest, Settled, Correcting, Shown, View
  <2>2. Len(wg.reports) = 0
    BY DEF AtRest
  <2> QED BY <2>1, <2>2 DEF IInv, Reported
<1> QED BY <1>1, BackendInvariant, PTL

\* A disconnect that found an active backend beats every connect job: the tunnel
\* that is open when everything has come to rest was opened by reconnect().
THEOREM BackendReachedDisconnectHolds == Safety => []ReachedDisconnectHolds
<1>1. IInv => ReachedDisconnectHolds
  <2> SUFFICES ASSUME IInv, AtRest, Reached
               PROVE  wg.state = "closed" \/ wg.by # "connect"
    BY DEF ReachedDisconnectHolds
  <2>1. ~Closes(b)
    BY DEF AtRest, Closes
  <2> QED BY <2>1 DEF IInv, Obeyed, Reached
<1> QED BY <1>1, BackendInvariant, PTL

----------------------------------------------------------------------------
\* The key in use.  After a single command, and as long as the tunnel does not
\* flap and no callback goes on with what has changed, at most one thing at a time can lead to an agent or to a tunnel: a
\* coroutine, the agent, an eviction, a Connected that is not yet applied, or a
\* tunnel that is about to connect.  Nothing can then interfere with the
\* coroutine that opens the tunnel again with a new key.

Opens(job) == job.kind \notin {"none", "fail", "disconnect"}

\* The backend has got hold of that thing, ...
Busy(s) == (\E i \in Job : Opens(s.jobs[i])) \/ s.agent # "null" \/ s.evicting # 0

Lone(s) ==
    /\ \A i, j \in Job : Opens(s.jobs[i]) /\ Opens(s.jobs[j]) => i = j
    /\ \A i \in Job : Opens(s.jobs[i]) => s.agent = "null" /\ s.evicting = 0
    /\ s.evicting \in {0, 1} /\ (s.agent # "null" => s.evicting = 0)
    /\ s.strays = 0

Reports(tunnel, k) == k \in DOMAIN tunnel.reports /\ tunnel.reports[k] = "Connected"

\* ... or it is due to get hold of it.
Due(tunnel) ==
    tunnel.state \in {"Connecting", "Error"} \/ \E k \in DOMAIN tunnel.reports : Reports(tunnel, k)

LoneReport(tunnel) ==
    \A k \in DOMAIN tunnel.reports : Reports(tunnel, k) =>
        /\ tunnel.state \notin {"Connecting", "Error"}
        /\ \A l \in DOMAIN tunnel.reports : Reports(tunnel, l) => k = l

\* A coroutine that will open the tunnel with a new key, and one that has it.
Rekeys(job) == job.kind = "revoked" /\ ~job.cancelled
Rekeying(job) == Rekeys(job) /\ job.phase # "session"

\* An open tunnel has the key of the repository, or is to be opened again or
\* closed.
Renewed(s, tunnel, key) ==
    /\ \A i \in Job : s.jobs[i].kind = "revoked" => Rekeys(s.jobs[i]) /\ s.agentConnectionJob = 0
    /\ \A i \in Job : s.jobs[i].phase = "up" => s.jobs[i].key = key
    /\ \/ tunnel.state = "closed" \/ tunnel.key = key
       \/ \E i \in Job : s.jobs[i].kind = "fail"
       \/ \E i \in Job : Rekeying(s.jobs[i])

OneThing(s, tunnel, key) ==
    /\ Lone(s) /\ LoneReport(tunnel) /\ (Busy(s) => ~Due(tunnel))
    /\ Renewed(s, tunnel, key)

KeyInv ==
    count.commands <= 1 /\ ~wg.flapped /\ ~callback.raced =>
        /\ count.commands = 0 => ~Busy(b) /\ ~Due(wg)
        /\ OneThing(b, wg, cert.key)

\* t has nothing that s has not, and lacks no coroutine that Renewed needs.
Quieter(s, t) ==
    /\ \A i \in Job : Opens(t.jobs[i]) => t.jobs[i].kind = s.jobs[i].kind
    /\ s.agent = "null" => t.agent = "null"
    /\ t.evicting = s.evicting /\ t.strays = s.strays
    /\ t.agentConnectionJob \in {0, s.agentConnectionJob}
    /\ \A i \in Job : t.jobs[i].phase = "up" =>
          \/ t.jobs[i].key = cert.key
          \/ s.jobs[i].phase = "up" /\ t.jobs[i].key = s.jobs[i].key
    /\ \A i \in Job : s.jobs[i].kind = "fail" => t.jobs[i].kind = "fail"
    /\ s.agent = "null" /\ s.agentConnectionJob = 0 =>
          \A i \in Job : /\ Rekeys(s.jobs[i]) => Rekeys(t.jobs[i])
                         /\ Rekeying(s.jobs[i]) => Rekeying(t.jobs[i])

\* What two steps leave each, they leave together.
LEMMA QuieterTransitive ==
    ASSUME NEW s, NEW t, NEW u, Quieter(s, t), Quieter(t, u)
    PROVE  Quieter(s, u)
<1>1. \A i \in Job : Opens(u.jobs[i]) => u.jobs[i].kind = s.jobs[i].kind
  <2> SUFFICES ASSUME NEW i \in Job, Opens(u.jobs[i]) PROVE u.jobs[i].kind = s.jobs[i].kind
    OBVIOUS
  <2>1. u.jobs[i].kind = t.jobs[i].kind
    BY DEF Quieter
  <2>2. Opens(t.jobs[i])
    BY <2>1 DEF Opens
  <2> QED BY <2>1, <2>2 DEF Quieter
<1>2. \A i \in Job : u.jobs[i].phase = "up" =>
          \/ u.jobs[i].key = cert.key
          \/ s.jobs[i].phase = "up" /\ u.jobs[i].key = s.jobs[i].key
  BY DEF Quieter
<1> QED BY <1>1, <1>2 DEF Quieter

\* A quieter backend keeps the invariant.
LEMMA QuieterHolds ==
    ASSUME NEW s, NEW t, NEW w, OneThing(s, w, cert.key), Quieter(s, t)
    PROVE  OneThing(t, w, cert.key) /\ (Busy(t) => Busy(s))
<1>1. \A i \in Job : Opens(t.jobs[i]) => t.jobs[i].kind = s.jobs[i].kind /\ Opens(s.jobs[i])
  BY DEF Quieter, Opens
<1>2. Busy(t) => Busy(s)
  BY <1>1 DEF Busy, Quieter
<1>3. Lone(t)
  BY <1>1 DEF Lone, Quieter, OneThing
<1>4. \A i \in Job : t.jobs[i].kind = "revoked" => Rekeys(t.jobs[i]) /\ t.agentConnectionJob = 0
  <2> SUFFICES ASSUME NEW i \in Job, t.jobs[i].kind = "revoked"
               PROVE  Rekeys(t.jobs[i]) /\ t.agentConnectionJob = 0
    OBVIOUS
  <2>1. s.jobs[i].kind = "revoked" /\ Opens(s.jobs[i])
    BY <1>1 DEF Opens
  <2>2. s.agent = "null" /\ s.agentConnectionJob = 0 /\ Rekeys(s.jobs[i])
    BY <2>1 DEF OneThing, Lone, Renewed
  <2> QED BY <2>2 DEF Quieter
<1>5. \A i \in Job : t.jobs[i].phase = "up" => t.jobs[i].key = cert.key
  BY DEF Quieter, OneThing, Renewed
<1>6. (\E i \in Job : Rekeying(s.jobs[i])) => \E i \in Job : Rekeying(t.jobs[i])
  <2> SUFFICES ASSUME NEW i \in Job, Rekeying(s.jobs[i]) PROVE Rekeying(t.jobs[i])
    OBVIOUS
  <2>1. s.jobs[i].kind = "revoked" /\ Opens(s.jobs[i])
    BY DEF Rekeying, Rekeys, Opens
  <2>2. s.agent = "null" /\ s.agentConnectionJob = 0
    BY <2>1 DEF OneThing, Lone, Renewed
  <2> QED BY <2>2 DEF Quieter
<1>7. (\E i \in Job : s.jobs[i].kind = "fail") => \E i \in Job : t.jobs[i].kind = "fail"
  BY DEF Quieter
<1>8. Renewed(t, w, cert.key)
  BY <1>4, <1>5, <1>6, <1>7 DEF Renewed, OneThing
<1> QED BY <1>2, <1>3, <1>8 DEF OneThing

\* Fields that neither a coroutine nor the agent depends on.
LEMMA Quiet ==
    ASSUME NEW s, NEW t, SameAgent(s, t), t.jobs = s.jobs, t.evicting = s.evicting
    PROVE  Quieter(s, t)
BY DEF Quieter, SameAgent, Opens

\* A coroutine goes on, which is no news unless it has a new key.
LEMMA QuietMove ==
    ASSUME NEW s, NEW t, SameAgent(s, t), t.evicting = s.evicting, NEW i \in Job,
           \A j \in Job : j # i => t.jobs[j] = s.jobs[j],
           t.jobs[i].kind = s.jobs[i].kind, t.jobs[i].cancelled = s.jobs[i].cancelled,
           t.jobs[i].phase # "session",
           t.jobs[i].phase = "up" => t.jobs[i].key = cert.key
    PROVE  Quieter(s, t)
<1>1. \A j \in Job : t.jobs[j].kind = s.jobs[j].kind /\ t.jobs[j].cancelled = s.jobs[j].cancelled
  OBVIOUS
<1>2. \A j \in Job : t.jobs[j].phase = "up" =>
          \/ t.jobs[j].key = cert.key
          \/ s.jobs[j].phase = "up" /\ t.jobs[j].key = s.jobs[j].key
  OBVIOUS
<1>3. \A j \in Job : /\ Rekeys(s.jobs[j]) => Rekeys(t.jobs[j])
                     /\ Rekeying(s.jobs[j]) => Rekeying(t.jobs[j])
  BY <1>1 DEF Rekeys, Rekeying
<1> QED BY <1>1, <1>2, <1>3 DEF Quieter, SameAgent

\* A coroutine that is not about to close the tunnel or to open it again ends.
LEMMA QuietEnd ==
    ASSUME NEW s, Sound(s), NEW i \in Job, s.jobs[i].kind # "fail", ~Rekeys(s.jobs[i])
    PROVE  /\ Quieter(s, End(s, i)) /\ End(s, i).evicting = s.evicting
           /\ End(s, i).jobs[i].kind = "none"
           /\ \A j \in Job : j # i => End(s, i).jobs[j] = s.jobs[j]
<1> DEFINE t == End(s, i)
<1>1. SameAgent(s, t) /\ t.jobs = [s.jobs EXCEPT ![i] = NoJob]
  BY Ending
<1>2. s.jobs \in [Job -> JobRecord] /\ t.evicting = s.evicting
  BY DEF Sound, BackendRecord, End
<1> HIDE DEF t
<1>3. t.jobs[i] = NoJob /\ \A j \in Job : j # i => t.jobs[j] = s.jobs[j]
  BY <1>1, <1>2
<1>4. t.jobs[i].kind = "none" /\ t.jobs[i].phase = "ended"
  BY <1>3, NoJobTyped
<1>5. ASSUME NEW j \in Job
      PROVE  /\ Opens(t.jobs[j]) => t.jobs[j].kind = s.jobs[j].kind
             /\ t.jobs[j].phase = "up" => s.jobs[j].phase = "up" /\ t.jobs[j].key = s.jobs[j].key
             /\ s.jobs[j].kind = "fail" => t.jobs[j].kind = "fail"
             /\ Rekeys(s.jobs[j]) => Rekeys(t.jobs[j])
             /\ Rekeying(s.jobs[j]) => Rekeying(t.jobs[j])
  <2>1. CASE j = i
    BY <1>4, <2>1 DEF Opens, Rekeying
  <2>2. CASE j # i
    BY <1>3, <2>2
  <2> QED BY <2>1, <2>2
<1>6. Quieter(s, t)
  BY <1>1, <1>2, <1>5 DEF Quieter, SameAgent
<1> QED BY <1>2, <1>3, <1>4, <1>6 DEF t

\* What cancellation does to a coroutine.
Stopped(old, new) ==
    \/ new = old
    \/ new.kind = "none" /\ new.phase = "ended"
    \/ new.kind = old.kind /\ new.phase = old.phase /\ new.key = old.key

\* Cancellation stops one coroutine.
LEMMA QuietCancel ==
    ASSUME NEW s, Sound(s), NEW i \in Job \cup {0}
    PROVE  LET t == Cancel(s, i) IN
           /\ Sound(t) /\ SameAgent(s, t) /\ t.evicting = s.evicting
           /\ \A j \in Job : Stopped(s.jobs[j], t.jobs[j]) /\ (j # i => t.jobs[j] = s.jobs[j])
<1> DEFINE t == Cancel(s, i)
<1>1. /\ Sound(t) /\ SameAgent(s, t)
      /\ \A j \in Job : j # i => t.jobs[j] = s.jobs[j]
  BY Cancelling
<1>2. i # 0 => \/ t.jobs[i].phase = "ended" /\ t.jobs[i].kind = "none"
               \/ /\ t.jobs[i] = [s.jobs[i] EXCEPT !.cancelled = TRUE]
                  /\ s.jobs[i].phase \in {"await", "got", "refused", "run"}
  BY Cancelling, Zenon
<1>3. t.evicting = s.evicting
  BY DEF Cancel, End, Sound, BackendRecord
<1>4. \A j \in Job : s.jobs[j] \in JobRecord
  BY DEF Sound, BackendRecord
<1> HIDE DEF t
<1>5. ASSUME NEW j \in Job PROVE Stopped(s.jobs[j], t.jobs[j])
  <2>1. CASE j # i
    BY <1>1, <2>1 DEF Stopped
  <2>2. CASE j = i
    <3>1. i # 0
      BY <2>2 DEF Job
    <3>2. CASE t.jobs[i].phase = "ended" /\ t.jobs[i].kind = "none"
      BY <2>2, <3>2 DEF Stopped
    <3>3. CASE t.jobs[i] = [s.jobs[i] EXCEPT !.cancelled = TRUE]
      <4>1. /\ t.jobs[i].kind = s.jobs[i].kind /\ t.jobs[i].phase = s.jobs[i].phase
            /\ t.jobs[i].key = s.jobs[i].key
        BY <1>4, <2>2, <3>3 DEF JobRecord
      <4> QED BY <2>2, <4>1 DEF Stopped
    <3> QED BY <1>2, <3>1, <3>2, <3>3
  <2> QED BY <2>1, <2>2
<1> QED BY <1>1, <1>3, <1>5 DEF t

\* closeAgentConnection never touches a coroutine that is about to open the tunnel
\* again: while it lives there is nothing to close.
LEMMA QuietClose ==
    ASSUME NEW s, Sound(s)
    PROVE  LET t == CloseAgentConnection(s) IN
           /\ Sound(t) /\ Quieter(s, t) /\ Kept(s, t) /\ t.agent = "null" /\ t.agentConnectionJob = 0
<1> DEFINE t == CloseAgentConnection(s)
           u == Cancel(s, s.reconnectionJob)
           v == Cancel(u, s.agentConnectionJob)
<1>1. Sound(t) /\ t.agent = "null" /\ Kept(s, t)
  BY Closing
<1>2. CASE ~(s.agent # "null" \/ s.agentConnectionJob # 0)
  <2>1. t = s
    BY <1>2 DEF CloseAgentConnection
  <2>2. Quieter(s, s)
    BY Quiet DEF SameAgent
  <2> HIDE DEF t
  <2> QED BY <1>1, <1>2, <2>1, <2>2 DEF t
<1>3. CASE s.agent # "null" \/ s.agentConnectionJob # 0
  <2>1. t = [v EXCEPT !.reconnectionJob = 0, !.agentConnectionJob = 0, !.agent = "null"]
    BY <1>3 DEF CloseAgentConnection
  <2>2. s.reconnectionJob \in Job \cup {0} /\ s.agentConnectionJob \in Job \cup {0}
    BY DEF Sound, BackendRecord
  <2>3. /\ Sound(u) /\ SameAgent(s, u) /\ u.evicting = s.evicting
        /\ \A j \in Job : /\ Stopped(s.jobs[j], u.jobs[j])
                          /\ j # s.reconnectionJob => u.jobs[j] = s.jobs[j]
    BY <2>2, QuietCancel
  <2> HIDE DEF u
  <2>4. /\ Sound(v) /\ SameAgent(u, v) /\ v.evicting = u.evicting
        /\ \A j \in Job : /\ Stopped(u.jobs[j], v.jobs[j])
                          /\ j # s.agentConnectionJob => v.jobs[j] = u.jobs[j]
    BY <2>2, <2>3, QuietCancel
  <2> HIDE DEF v
  <2>5. /\ t.jobs = v.jobs /\ t.agent = "null" /\ t.agentConnectionJob = 0
        /\ t.evicting = v.evicting /\ t.strays = v.strays
    <3>1. v \in BackendRecord
      BY <2>4 DEF Sound
    <3> QED BY <2>1, <3>1 DEF BackendRecord
  <2> HIDE DEF t
  <2>6. \A j \in Job : Opens(t.jobs[j]) => t.jobs[j].kind = s.jobs[j].kind
    BY <2>3, <2>4, <2>5 DEF Stopped, Opens
  <2>7. \A j \in Job : t.jobs[j].phase = "up" => s.jobs[j].phase = "up" /\ t.jobs[j].key = s.jobs[j].key
    BY <2>3, <2>4, <2>5 DEF Stopped
  <2>8. \A j \in Job : s.jobs[j].kind = "fail" => t.jobs[j].kind = "fail"
    BY <1>1 DEF Kept, CommandKinds
  <2>9. Quieter(s, t)
    BY <1>3, <2>3, <2>4, <2>5, <2>6, <2>7, <2>8 DEF Quieter, SameAgent
  <2> QED BY <1>1, <2>5, <2>9 DEF t
<1> QED BY <1>2, <1>3

\* A change of the protocol state, except to Connected, only closes the agent.
LEMMA QuietSet ==
    ASSUME NEW s, Sound(s), NEW value \in VpnStates \ {"Connected"}
    PROVE  LET t == SetVpnProtocolState(s, value) IN
           Sound(t) /\ Quieter(s, t) /\ Kept(s, t)
<1> DEFINE t == SetVpnProtocolState(s, value)
           u == [s EXCEPT !.vpnProtocolState = value]
           c == CloseAgentConnection(u)
<1>1. CASE value = s.vpnProtocolState
  <2>1. t = s
    BY <1>1 DEF SetVpnProtocolState
  <2>2. Quieter(s, s) /\ Kept(s, s)
    BY Quiet DEF SameAgent, Kept
  <2> QED BY <2>1, <2>2
<1>2. CASE value # s.vpnProtocolState
  <2>1. t = [c EXCEPT !.posted = value]
    BY <1>2 DEF SetVpnProtocolState, ProcessCombinedState
  <2>2. /\ u \in BackendRecord /\ SameAgent(s, u) /\ u.jobs = s.jobs /\ u.evicting = s.evicting
        /\ u.ready = s.ready /\ u.delays = s.delays /\ u.wireGuardIo = s.wireGuardIo
    BY DEF Sound, BackendRecord, SameAgent
  <2> HIDE DEF u
  <2>3. Sound(u) /\ Quieter(s, u) /\ Kept(s, u)
    BY <2>2, Unrelated, Quiet
  <2>4. Sound(c) /\ Quieter(u, c) /\ Kept(u, c)
    BY <2>3, QuietClose
  <2> HIDE DEF c
  <2>5. Sound(t) /\ SameAgent(c, t) /\ Kept(c, t)
    BY <2>1, <2>4, Posting, ZenonT(60)
  <2>6. t.jobs = c.jobs /\ t.evicting = c.evicting
    BY <2>1, <2>4 DEF Sound, BackendRecord
  <2> HIDE DEF t
  <2>7. Quieter(c, t)
    BY <2>5, <2>6, Quiet
  <2>8. Quieter(s, t)
    BY <2>3, <2>4, <2>7, QuieterTransitive
  <2>9. Kept(s, t)
    BY <2>3, <2>4, <2>5, KeptTransitive
  <2> QED BY <2>5, <2>8, <2>9 DEF t
<1> QED BY <1>1, <1>2

\* A coroutine suspends, or ends there.
LEMMA QuietSuspend ==
    ASSUME NEW s, Sound(s), NEW i \in Job, NEW phase \in {"delay", "down", "up"},
           s.jobs[i].kind = "fail" => ~s.jobs[i].cancelled,
           phase = "up" => s.jobs[i].key = cert.key
    PROVE  Quieter(s, Suspend(s, i, phase))
<1> DEFINE t == Suspend(s, i, phase)
           job == [s.jobs[i] EXCEPT !.phase = phase]
<1>1. CASE s.jobs[i].cancelled
  <2>1. t = End(s, i)
    BY <1>1 DEF Suspend
  <2>2. s.jobs[i].kind # "fail" /\ ~Rekeys(s.jobs[i])
    BY <1>1 DEF Rekeys
  <2> QED BY <2>1, <2>2, QuietEnd
<1>2. CASE ~s.jobs[i].cancelled
  <2>1. s \in BackendRecord /\ s.jobs \in [Job -> JobRecord] /\ s.jobs[i] \in JobRecord
    BY DEF Sound, BackendRecord
  <2>2. t.jobs = [s.jobs EXCEPT ![i] = job] /\ SameAgent(s, t) /\ t.evicting = s.evicting
    <3>1. CASE phase = "delay"
      BY <1>2, <2>1, <3>1 DEF Suspend, BackendRecord, SameAgent
    <3>2. CASE phase # "delay"
      BY <1>2, <2>1, <3>2 DEF Suspend, BackendRecord, SameAgent
    <3> QED BY <3>1, <3>2
  <2>3. /\ job.kind = s.jobs[i].kind /\ job.phase = phase /\ job.cancelled = s.jobs[i].cancelled
        /\ job.key = s.jobs[i].key
    BY <2>1 DEF JobRecord
  <2> HIDE DEF job, t
  <2>4. t.jobs[i] = job /\ \A j \in Job : j # i => t.jobs[j] = s.jobs[j]
    BY <2>1, <2>2
  <2>5. /\ t.jobs[i].kind = s.jobs[i].kind /\ t.jobs[i].cancelled = s.jobs[i].cancelled
        /\ t.jobs[i].phase # "session" /\ (t.jobs[i].phase = "up" => t.jobs[i].key = cert.key)
    BY <2>3, <2>4
  <2>6. SameAgent(s, t) /\ t.evicting = s.evicting /\ \A j \in Job : j # i => t.jobs[j] = s.jobs[j]
    BY <2>2, <2>4
  <2>7. Quieter(s, t)
    BY <2>5, <2>6, QuietMove
  <2> QED BY <2>7 DEF t
<1> QED BY <1>1, <1>2

\* A coroutine that runs.
LEMMA QuietRun ==
    ASSUME NEW s, Sound(s), NEW i \in Job, Unqueued(s, i), s.jobs[i].phase # "ended",
           NEW phase \in {"await", "yield", "delay", "down", "prepare", "run"},
           Fits(s.jobs[i].kind, phase)
    PROVE  Sound(Moved(s, i, phase)) /\ Quieter(s, Moved(s, i, phase))
<1> DEFINE t == Moved(s, i, phase)
<1>1. /\ Sound(t) /\ SameAgent(s, t)
      /\ t.jobs[i].phase = phase /\ t.jobs[i].kind = s.jobs[i].kind
      /\ t.jobs[i].cancelled = s.jobs[i].cancelled
      /\ \A j \in Job : j # i => t.jobs[j] = s.jobs[j]
  BY Moving
<1>2. t.evicting = s.evicting
  BY DEF Moved, Sound, BackendRecord
<1> HIDE DEF t
<1>3. Quieter(s, t)
  BY <1>1, <1>2, QuietMove
<1> QED BY <1>1, <1>3 DEF t

\* disconnect opens nothing.
LEMMA QuietDisconnect ==
    ASSUME NEW s, Sound(s), NEW i \in Job, Unqueued(s, i), s.jobs[i].phase # "ended",
           s.jobs[i].kind \in {"connect", "disconnect", "reconnect", "revoked"}
    PROVE  Quieter(s, Disconnect(s, i))
<1> DEFINE r == Moved(s, i, "run")
           l == IF s.vpnProtocolState # "Disabled" THEN SetVpnProtocolState(r, "Disconnecting") ELSE r
           c == CloseAgentConnection(l)
           d == SetVpnProtocolState(c, "Disabled")
           t == Suspend(d, i, "delay")
<1>1. Disconnect(s, i) = t
  BY DEF Disconnect, Moved
<1>2. Fits(s.jobs[i].kind, "run")
  BY DEF Fits
<1>3. Sound(r) /\ Quieter(s, r) /\ r.jobs[i].phase = "run"
  BY <1>2, QuietRun, Moving
<1> HIDE DEF r
<1>4. "Disconnecting" \in VpnStates \ {"Connected"} /\ "Disabled" \in VpnStates \ {"Connected"}
  BY DEF VpnStates
<1>5. Sound(l) /\ Quieter(r, l) /\ Kept(r, l)
  <2>1. Quieter(r, r) /\ Kept(r, r)
    BY Quiet DEF SameAgent, Kept
  <2> QED BY <1>3, <1>4, <2>1, QuietSet
<1> HIDE DEF l
<1>6. Sound(c) /\ Quieter(l, c) /\ Kept(l, c)
  BY <1>5, QuietClose
<1> HIDE DEF c
<1>7. Sound(d) /\ Quieter(c, d) /\ Kept(c, d)
  BY <1>4, <1>6, QuietSet
<1> HIDE DEF d
<1>8. Kept(r, d)
  BY <1>5, <1>6, <1>7, KeptTransitive
<1>9. d.jobs[i].kind # "fail"
  BY <1>3, <1>7, <1>8 DEF Kept, Sound, Consistent, Fits
<1>10. Quieter(d, t)
  BY <1>7, <1>9, QuietSuspend
<1> HIDE DEF t
<1>11. Quieter(s, t)
  BY <1>3, <1>5, <1>6, <1>7, <1>10, QuieterTransitive
<1> QED BY <1>1, <1>11

\* connect opens the tunnel with the key of the moment.
LEMMA QuietConnect ==
    ASSUME NEW s, Sound(s), NEW i \in Job, Unqueued(s, i), s.jobs[i].phase # "ended",
           s.jobs[i].kind \in {"connect", "reconnect", "revoked"}, cert.key \in Nat
    PROVE  Quieter(s, Connect(s, i))
<1> DEFINE r == Moved(s, i, "run")
           c == CloseAgentConnection(r)
           v == SetVpnProtocolState(c, "Connecting")
           d == Keyed(v, i, cert.key)
           t == Suspend(d, i, "up")
<1>1. Connect(s, i) = t
  BY DEF Connect, Moved, Keyed
<1>2. Fits(s.jobs[i].kind, "run")
  BY DEF Fits
<1>3. Sound(r) /\ Quieter(s, r) /\ r.jobs[i].phase = "run"
  BY <1>2, QuietRun, Moving
<1> HIDE DEF r
<1>4. "Connecting" \in VpnStates \ {"Connected"}
  BY DEF VpnStates
<1>5. Sound(c) /\ Quieter(r, c) /\ Kept(r, c)
  BY <1>3, QuietClose
<1> HIDE DEF c
<1>6. Sound(v) /\ Quieter(c, v) /\ Kept(c, v)
  BY <1>4, <1>5, QuietSet
<1> HIDE DEF v
<1>7. v.jobs[i].phase = "run"
  BY <1>3, <1>5, <1>6 DEF Kept
<1>8. v.jobs[i].kind # "fail"
  BY <1>6, <1>7 DEF Sound, Consistent, Fits
<1>9. Sound(d) /\ SameAgent(v, d)
  BY <1>6, <1>7, Keying
<1>10. /\ d.evicting = v.evicting /\ d.jobs = [v.jobs EXCEPT ![i] = [v.jobs[i] EXCEPT !.key = cert.key]]
       /\ v.jobs \in [Job -> JobRecord] /\ v.jobs[i] \in JobRecord
  BY <1>6 DEF Keyed, Sound, BackendRecord
<1> HIDE DEF d
<1>11. /\ d.jobs[i] = [v.jobs[i] EXCEPT !.key = cert.key]
       /\ \A j \in Job : j # i => d.jobs[j] = v.jobs[j]
  BY <1>10
<1>12. /\ d.jobs[i].kind = v.jobs[i].kind /\ d.jobs[i].cancelled = v.jobs[i].cancelled
       /\ d.jobs[i].phase = "run" /\ d.jobs[i].key = cert.key
  BY <1>7, <1>10, <1>11 DEF JobRecord
<1>13. Quieter(v, d)
  <2>1. /\ SameAgent(v, d) /\ d.evicting = v.evicting /\ \A j \in Job : j # i => d.jobs[j] = v.jobs[j]
        /\ d.jobs[i].kind = v.jobs[i].kind /\ d.jobs[i].cancelled = v.jobs[i].cancelled
        /\ d.jobs[i].phase # "session" /\ (d.jobs[i].phase = "up" => d.jobs[i].key = cert.key)
    BY <1>9, <1>10, <1>11, <1>12
  <2> QED BY <2>1, QuietMove
<1>14. Quieter(d, t)
  BY <1>8, <1>9, <1>12, QuietSuspend
<1> HIDE DEF t
<1>15. Quieter(s, t)
  BY <1>3, <1>5, <1>6, <1>13, <1>14, QuieterTransitive
<1> QED BY <1>1, <1>15

\* Something begins where nothing was under way.
LEMMA Starting ==
    ASSUME NEW s, ~Busy(s), NEW t, NEW n \in Job, t.agent = "null", t.evicting = 0, t.strays = 0,
           \A j \in Job : j # n => t.jobs[j] = s.jobs[j], s.jobs[n].kind = "none",
           t.jobs[n].phase # "up",
           t.jobs[n].kind = "revoked" => Rekeys(t.jobs[n]) /\ t.agentConnectionJob = 0,
           NEW w, NEW key, LoneReport(w), ~Due(w), Renewed(s, w, key)
    PROVE  OneThing(t, w, key)
<1>1. \A j \in Job : ~Opens(s.jobs[j])
  BY DEF Busy
<1>2. \A j \in Job : Opens(t.jobs[j]) => j = n
  BY <1>1
<1>3. Lone(t)
  BY <1>2 DEF Lone
<1>4. \A j \in Job : t.jobs[j].kind = "revoked" => j = n
  BY <1>2 DEF Opens
<1>5. \A j \in Job : t.jobs[j].phase = "up" => t.jobs[j].key = key
  BY DEF Renewed
<1>6. (\E j \in Job : s.jobs[j].kind = "fail") => \E j \in Job : t.jobs[j].kind = "fail"
  OBVIOUS
<1>7. ~ \E j \in Job : Rekeying(s.jobs[j])
  BY <1>1 DEF Rekeying, Rekeys, Opens
<1>8. Renewed(t, w, key)
  BY <1>4, <1>5, <1>6, <1>7 DEF Renewed
<1> QED BY <1>3, <1>8 DEF OneThing

\* The local agent is connected where nothing was under way.
LEMMA OpeningAgent ==
    ASSUME NEW s, Sound(s), Free(s) # {}, ~Busy(s), s.strays = 0,
           NEW w, NEW key, LoneReport(w), ~Due(w), Renewed(s, w, key)
    PROVE  OneThing(ConnectToLocalAgent(s), w, key)
<1> DEFINE t == ConnectToLocalAgent(s)
           n == NextJob(s)
           u == Launch(s, "agent")
<1>1. s.agent = "null" /\ s.evicting = 0
  BY DEF Busy
<1>2. CASE s.agentConnectionJob # 0
  <2>1. t = s
    BY <1>2 DEF ConnectToLocalAgent
  <2>2. Lone(s)
    BY <1>1 DEF Lone, Busy
  <2> QED BY <2>1, <2>2 DEF OneThing
<1>3. CASE s.agentConnectionJob = 0
  <2>1. t = [u EXCEPT !.agentConnectionJob = n]
    BY <1>1, <1>3 DEF ConnectToLocalAgent
  <2>2. n \in Job /\ s.jobs[n].kind = "none"
    BY FreeJob
  <2>3. /\ u \in BackendRecord /\ u.jobs[n] = JobAt("agent", "session")
        /\ \A j \in Job : j # n => u.jobs[j] = s.jobs[j]
        /\ SameAgent(s, u)
    BY Launched
  <2>4. u.evicting = s.evicting
    BY DEF Launch, Sound, BackendRecord
  <2> HIDE DEF u, n
  <2>5. /\ t.jobs = u.jobs /\ t.agent = u.agent /\ t.evicting = u.evicting /\ t.strays = u.strays
    BY <2>1, <2>3 DEF BackendRecord
  <2>6. t.agent = "null" /\ t.evicting = 0 /\ t.strays = 0
    BY <1>1, <2>3, <2>4, <2>5 DEF SameAgent
  <2>7. t.jobs[n].kind = "agent" /\ t.jobs[n].phase = "session"
    BY <2>3, <2>5 DEF JobAt
  <2>8. \A j \in Job : j # n => t.jobs[j] = s.jobs[j]
    BY <2>3, <2>5
  <2> HIDE DEF t
  <2>9. OneThing(t, w, key)
    <3>1. t.jobs[n].phase # "up" /\ t.jobs[n].kind # "revoked"
      BY <2>7
    <3> QED BY <2>2, <2>6, <2>8, <3>1, Starting
  <2> QED BY <2>9 DEF t
<1> QED BY <1>2, <1>3

\* When nothing is under way the backend holds no agent and no coroutine that
\* could lead to one.
LEMMA Resting ==
    ASSUME NEW s, Lone(s), s.agent # "null", NEW t, Quieter(s, t), t.agent = "null"
    PROVE  ~Busy(t) /\ t.strays = 0 /\ t.evicting = 0
<1>1. \A i \in Job : ~Opens(s.jobs[i])
  BY DEF Lone
<1>2. \A i \in Job : ~Opens(t.jobs[i])
  BY <1>1 DEF Quieter, Opens
<1> QED BY <1>2 DEF Busy, Lone, Quieter

\* The agent is given up for a coroutine that reconnects.
LEMMA OpeningAgain ==
    ASSUME NEW s, Sound(s), Free(s) # {}, s.agent # "null",
           NEW kind \in {"expired", "unknownCA", "revoked"}, NEW w, OneThing(s, w, cert.key)
    PROVE  OneThing(LaunchReconnection(s, kind), w, cert.key)
<1> DEFINE c == CloseAgentConnection(s)
           d == [c EXCEPT !.posted = "Connecting"]
           n == NextJob(d)
           u == Launch(d, kind)
           t == LaunchReconnection(s, kind)
<1>1. t = [u EXCEPT !.reconnectionJob = n]
  BY DEF LaunchReconnection
<1>2. Sound(c) /\ Quieter(s, c) /\ c.agent = "null" /\ c.agentConnectionJob = 0
  BY QuietClose
<1>3. Free(s) \subseteq Free(c)
  BY Closing
<1> HIDE DEF c
<1>4. Sound(d) /\ Free(d) = Free(c) /\ SameAgent(c, d)
  <2>1. "Connecting" \in VpnStates
    BY DEF VpnStates
  <2> QED BY <1>2, <2>1, Posting
<1>5. d.jobs = c.jobs /\ d.evicting = c.evicting
  BY <1>2 DEF Sound, BackendRecord
<1>6. Free(d) # {}
  BY <1>3, <1>4
<1> HIDE DEF d
<1>7. Quieter(s, d) /\ d.agent = "null" /\ d.agentConnectionJob = 0
  <2>1. Quieter(c, d)
    BY <1>4, <1>5, Quiet
  <2> QED BY <1>2, <1>4, <2>1, QuieterTransitive DEF SameAgent
<1>8. ~Busy(d) /\ d.strays = 0 /\ d.evicting = 0
  BY <1>7, Resting DEF OneThing
<1>9. OneThing(d, w, cert.key) /\ ~Due(w)
  BY <1>7, QuieterHolds DEF OneThing, Busy
<1>10. n \in Job /\ d.jobs[n].kind = "none"
  BY <1>4, <1>6, FreeJob
<1>11. /\ u \in BackendRecord /\ u.jobs[n] = JobAt(kind, "session")
       /\ \A j \in Job : j # n => u.jobs[j] = d.jobs[j]
       /\ SameAgent(d, u)
  BY <1>4, <1>6, Launched
<1>12. u.evicting = d.evicting
  BY <1>4 DEF Launch, Sound, BackendRecord
<1> HIDE DEF u, n
<1>13. /\ t.jobs = u.jobs /\ t.agent = u.agent /\ t.evicting = u.evicting /\ t.strays = u.strays
       /\ t.agentConnectionJob = u.agentConnectionJob
  BY <1>1, <1>11 DEF BackendRecord
<1> HIDE DEF t
<1>14. /\ t.agent = "null" /\ t.evicting = 0 /\ t.strays = 0 /\ t.agentConnectionJob = 0
       /\ \A j \in Job : j # n => t.jobs[j] = d.jobs[j]
  BY <1>7, <1>8, <1>11, <1>12, <1>13 DEF SameAgent
<1>15. /\ t.jobs[n].phase # "up" /\ (t.jobs[n].kind = "revoked" => Rekeys(t.jobs[n]))
  BY <1>11, <1>13 DEF JobAt, Rekeys
<1>16. OneThing(t, w, cert.key)
  BY <1>8, <1>9, <1>10, <1>14, <1>15, Starting DEF OneThing
<1> QED BY <1>16 DEF t

\* A coroutine is launched that closes everything.
LEMMA QuietFail ==
    ASSUME NEW s, Sound(s), Free(s) # {}
    PROVE  Quieter(s, SetError(s)) /\ \E i \in Job : SetError(s).jobs[i].kind = "fail"
<1> DEFINE t == LaunchReady(s, "fail")
           n == NextJob(s)
<1>1. "fail" \in CommandKinds /\ SetError(s) = t
  BY DEF CommandKinds, SetError
<1>2. /\ SameAgent(s, t) /\ n \in Job /\ t.jobs[n] = JobAt("fail", "ready")
      /\ \A j \in Job : j # n => t.jobs[j] = s.jobs[j]
      /\ s.jobs[n].kind = "none"
  BY <1>1, ReadyLaunched
<1>3. t.evicting = s.evicting
  BY DEF LaunchReady, Sound, BackendRecord
<1> HIDE DEF t, n
<1>4. t.jobs[n].kind = "fail" /\ t.jobs[n].phase = "ready"
  BY <1>2 DEF JobAt
<1>5. ASSUME NEW j \in Job
      PROVE  /\ Opens(t.jobs[j]) => t.jobs[j].kind = s.jobs[j].kind
             /\ t.jobs[j].phase = "up" => s.jobs[j].phase = "up" /\ t.jobs[j].key = s.jobs[j].key
             /\ s.jobs[j].kind = "fail" => t.jobs[j].kind = "fail"
             /\ Rekeys(s.jobs[j]) => Rekeys(t.jobs[j])
             /\ Rekeying(s.jobs[j]) => Rekeying(t.jobs[j])
  <2>1. CASE j = n
    BY <1>2, <1>4, <2>1 DEF Opens, Rekeys, Rekeying
  <2>2. CASE j # n
    BY <1>2, <2>2
  <2> QED BY <2>1, <2>2
<1>6. Quieter(s, t)
  BY <1>2, <1>3, <1>5 DEF Quieter, SameAgent
<1> QED BY <1>1, <1>2, <1>4, <1>6

\* The one coroutine ends: nothing is left that opens anything.
LEMMA Handing ==
    ASSUME NEW s, Sound(s), NEW w, NEW key, OneThing(s, w, key), NEW i \in Job, Opens(s.jobs[i])
    PROVE  LET e == End(s, i) IN
           /\ ~Busy(e) /\ e.strays = 0 /\ e.agent = "null" /\ e.evicting = 0
           /\ Busy(s) /\ ~Due(w) /\ LoneReport(w)
           /\ \A j \in Job : e.jobs[j].phase # "up"
           /\ s.jobs[i].kind # "revoked" => Renewed(e, w, key)
           /\ \A j \in Job : s.jobs[j].kind = "fail" => e.jobs[j].kind = "fail"
<1> DEFINE e == End(s, i)
<1>1. SameAgent(s, e) /\ e.jobs = [s.jobs EXCEPT ![i] = NoJob]
  BY Ending
<1>2. s.jobs \in [Job -> JobRecord] /\ e.evicting = s.evicting
  BY DEF Sound, BackendRecord, End
<1> HIDE DEF e
<1>3. e.jobs[i] = NoJob /\ \A j \in Job : j # i => e.jobs[j] = s.jobs[j]
  BY <1>1, <1>2
<1>4. e.jobs[i].kind = "none" /\ e.jobs[i].phase = "ended"
  BY <1>3, NoJobTyped
<1>5. \A j \in Job : ~Opens(e.jobs[j])
  BY <1>3, <1>4 DEF OneThing, Lone, Opens
<1>6. s.agent = "null" /\ s.evicting = 0 /\ s.strays = 0 /\ Busy(s)
  BY DEF OneThing, Lone, Busy
<1>7. ~Due(w) /\ LoneReport(w)
  BY <1>6 DEF OneThing
<1>8. ~Busy(e) /\ e.strays = 0 /\ e.agent = "null" /\ e.evicting = 0
  BY <1>1, <1>2, <1>5, <1>6 DEF Busy, SameAgent
<1>9. \A j \in Job : e.jobs[j].phase # "up"
  <2> SUFFICES ASSUME NEW j \in Job, e.jobs[j].phase = "up" PROVE FALSE
    OBVIOUS
  <2>1. j # i /\ s.jobs[j].phase = "up"
    BY <1>3, <1>4
  <2>2. s.jobs[j].kind \in {"connect", "reconnect", "revoked"}
    BY <2>1 DEF Sound, Consistent, Fits
  <2> QED BY <1>3, <1>5, <2>1, <2>2 DEF Opens
<1>10. \A j \in Job : s.jobs[j].kind = "fail" => e.jobs[j].kind = "fail"
  BY <1>3 DEF Opens
<1>11. s.jobs[i].kind # "revoked" => Renewed(e, w, key)
  <2> SUFFICES ASSUME s.jobs[i].kind # "revoked" PROVE Renewed(e, w, key)
    OBVIOUS
  <2>1. \A j \in Job : s.jobs[j].kind # "revoked"
    BY DEF OneThing, Lone, Opens
  <2>2. \A j \in Job : e.jobs[j].kind # "revoked"
    BY <1>5 DEF Opens
  <2>3. ~ \E j \in Job : Rekeying(s.jobs[j])
    BY <2>1 DEF Rekeying, Rekeys
  <2> QED BY <1>9, <1>10, <2>2, <2>3 DEF Renewed, OneThing
<1> QED BY <1>6, <1>7, <1>8, <1>9, <1>10, <1>11 DEF e

\* Nothing is under way and the key is the right one.
LEMMA Hushed ==
    ASSUME NEW s, ~Busy(s), s.strays = 0, NEW w, LoneReport(w), NEW key,
           \A j \in Job : s.jobs[j].phase = "up" => s.jobs[j].key = key,
           w.state = "closed" \/ w.key = key \/ \E j \in Job : s.jobs[j].kind = "fail"
    PROVE  OneThing(s, w, key)
<1>1. \A j \in Job : ~Opens(s.jobs[j])
  BY DEF Busy
<1>2. Lone(s)
  BY <1>1 DEF Lone, Busy
<1>3. \A j \in Job : s.jobs[j].kind # "revoked"
  BY <1>1 DEF Opens
<1> QED BY <1>2, <1>3 DEF OneThing, Renewed

\* A tunnel that was closed or opened with the right key, or has less to report.
LEMMA Easier ==
    ASSUME NEW s, NEW w, NEW key, OneThing(s, w, key), NEW v, LoneReport(v), Due(v) => Due(w),
           v.state = "closed" \/ (v.state = w.state /\ v.key = w.key)
    PROVE  OneThing(s, v, key)
BY DEF OneThing, Renewed

\* The coroutine that closes everything ends once the tunnel is closed.
LEMMA FailEnds ==
    ASSUME NEW s, Sound(s), NEW i \in Job, s.jobs[i].kind = "fail",
           NEW w, NEW key, OneThing(s, w, key),
           NEW v, v.state = "closed", LoneReport(v), Due(v) => Due(w)
    PROVE  OneThing(End(s, i), v, key) /\ (Busy(End(s, i)) => Busy(s))
<1> DEFINE e == End(s, i)
<1>1. SameAgent(s, e) /\ e.jobs = [s.jobs EXCEPT ![i] = NoJob]
  BY Ending
<1>2. s.jobs \in [Job -> JobRecord] /\ e.evicting = s.evicting
  BY DEF Sound, BackendRecord, End
<1> HIDE DEF e
<1>3. e.jobs[i] = NoJob /\ \A j \in Job : j # i => e.jobs[j] = s.jobs[j]
  BY <1>1, <1>2
<1>4. e.jobs[i].kind = "none" /\ e.jobs[i].phase = "ended"
  BY <1>3, NoJobTyped
<1>5. \A j \in Job : Opens(e.jobs[j]) => j # i /\ Opens(s.jobs[j])
  BY <1>3, <1>4 DEF Opens
<1>6. Busy(e) => Busy(s)
  BY <1>1, <1>2, <1>5 DEF Busy, SameAgent
<1>7. Lone(e)
  BY <1>1, <1>2, <1>5 DEF Lone, SameAgent, OneThing
<1>8. ASSUME NEW j \in Job
      PROVE  /\ e.jobs[j].kind = "revoked" => Rekeys(e.jobs[j]) /\ e.agentConnectionJob = 0
             /\ e.jobs[j].phase = "up" => e.jobs[j].key = key
  <2>1. CASE j = i
    BY <1>4, <2>1
  <2>2. CASE j # i
    BY <1>1, <1>3, <2>2 DEF OneThing, Renewed, SameAgent
  <2> QED BY <2>1, <2>2
<1>9. Renewed(e, v, key)
  BY <1>8 DEF Renewed
<1>10. OneThing(e, v, key) /\ (Busy(e) => Busy(s))
  BY <1>6, <1>7, <1>9 DEF OneThing
<1> QED BY <1>10 DEF e

\* What a step keeps: it leaves at most one thing, and begins none.
Goes ==
    /\ OneThing(b', wg', cert'.key)
    /\ Busy(b') \/ Due(wg') => Busy(b) \/ Due(wg)

\* A step that makes the backend quieter.
LEMMA QuietStep ==
    ASSUME OneThing(b, wg, cert.key), Quieter(b, b'), UNCHANGED wg, cert'.key = cert.key
    PROVE  Goes
BY QuieterHolds DEF Goes

\* The end of a delay.
LEMMA DelayEndsKey ==
    ASSUME IInv, OneThing(b, wg, cert.key), DelayEnds
    PROVE  Goes
<1> DEFINE i == Head(b.delays)
           job == [b.jobs[i] EXCEPT !.phase = "down"]
<1>1. b.delays # <<>> /\ UNCHANGED <<callback, cert, wg>>
  BY DEF DelayEnds
<1>2. i \in Job
  BY <1>1, DelayTaken DEF IInv
<1>3. b'.jobs = [b.jobs EXCEPT ![i] = job] /\ SameAgent(b, b') /\ b'.evicting = b.evicting
  BY Facts DEF DelayEnds, BackendRecord, SameAgent
<1>4. job.kind = b.jobs[i].kind /\ job.cancelled = b.jobs[i].cancelled /\ job.phase = "down"
  BY <1>2, Facts DEF JobRecord
<1> HIDE DEF job, i
<1>5. b'.jobs[i] = job /\ \A j \in Job : j # i => b'.jobs[j] = b.jobs[j]
  BY <1>2, <1>3, Facts
<1>6. /\ b'.jobs[i].kind = b.jobs[i].kind /\ b'.jobs[i].cancelled = b.jobs[i].cancelled
      /\ b'.jobs[i].phase # "session" /\ b'.jobs[i].phase # "up"
  BY <1>4, <1>5
<1>7. Quieter(b, b')
  <2>1. /\ SameAgent(b, b') /\ b'.evicting = b.evicting /\ \A j \in Job : j # i => b'.jobs[j] = b.jobs[j]
        /\ b'.jobs[i].phase = "up" => b'.jobs[i].key = cert.key
    BY <1>3, <1>5, <1>6
  <2> QED BY <1>2, <1>6, <2>1, QuietMove
<1> QED BY <1>1, <1>7, QuietStep

\* reconnect() begins.
LEMMA YieldedKey ==
    ASSUME IInv, OneThing(b, wg, cert.key), NEW i \in Job, Yielded(i)
    PROVE  Goes
<1>1. b.jobs[i].phase = "yield" /\ b' = Disconnect(b, i) /\ UNCHANGED <<callback, cert, wg>>
  BY DEF Yielded
<1>2. b.jobs[i].kind = "revoked"
  BY <1>1, Facts DEF Fits
<1>3. Unqueued(b, i) /\ Sound(b)
  BY <1>1 DEF IInv, Sound, Queues, Waiting, Unqueued
<1>4. Quieter(b, b')
  BY <1>1, <1>2, <1>3, QuietDisconnect
<1> QED BY <1>1, <1>4, QuietStep

\* The connection is prepared.
LEMMA PreparedKey ==
    ASSUME IInv, OneThing(b, wg, cert.key), NEW i \in Job, Prepared(i)
    PROVE  Goes
<1> DEFINE s == IF manager.active THEN b ELSE [b EXCEPT !.selfState = "Connecting"]
<1>1. b.jobs[i].phase = "prepare" /\ b' = Connect(s, i) /\ UNCHANGED <<callback, cert, wg>>
  BY DEF Prepared
<1>2. b.jobs[i].kind = "connect"
  BY <1>1, Facts DEF Fits
<1>3. /\ s \in BackendRecord /\ SameAgent(b, s) /\ s.jobs = b.jobs /\ s.evicting = b.evicting
      /\ s.ready = b.ready /\ s.delays = b.delays /\ s.wireGuardIo = b.wireGuardIo
  <2>1. CASE manager.active
    BY <2>1, Facts DEF SameAgent
  <2>2. CASE ~manager.active
    BY <2>2, Facts DEF SameAgent, BackendRecord, VpnStates
  <2> QED BY <2>1, <2>2
<1> HIDE DEF s
<1>4. Sound(s)
  BY <1>3, Unrelated DEF IInv
<1>5. Unqueued(s, i)
  BY <1>1, <1>3, <1>4 DEF Sound, Queues, Waiting, Unqueued
<1>6. Quieter(s, Connect(s, i))
  BY <1>1, <1>2, <1>3, <1>4, <1>5, Facts, QuietConnect
<1>7. Quieter(b, s)
  BY <1>3, Quiet
<1>8. Quieter(b, b')
  BY <1>1, <1>6, <1>7, QuieterTransitive
<1> QED BY <1>1, <1>8, QuietStep

\* A posted value is shown.
LEMMA DeliverPostedKey ==
    ASSUME IInv, OneThing(b, wg, cert.key), DeliverPosted
    PROVE  Goes
<1>1. SameAgent(b, b') /\ b'.jobs = b.jobs /\ b'.evicting = b.evicting /\ UNCHANGED <<callback, cert, wg>>
  BY Facts DEF DeliverPosted, BackendRecord, SameAgent
<1>2. Quieter(b, b')
  BY <1>1, Quiet
<1> QED BY <1>1, <1>2, QuietStep

\* The certificate changes, but not its key.
LEMMA CertificateChangesKey ==
    ASSUME IInv, OneThing(b, wg, cert.key), CertificateChanges
    PROVE  Goes
<1>1. b' = b /\ wg' = wg /\ cert'.key = cert.key
  BY DEF CertificateChanges, IInv, Typed
<1> QED BY <1>1 DEF Goes

\* A report that is not Connected is appended.
LEMMA ReportsAppended ==
    ASSUME NEW w, NEW v, w.reports \in Seq(VpnStates), NEW value \in VpnStates,
           v.reports = Append(w.reports, value)
    PROVE  /\ value # "Connected" =>
                 \A k \in DOMAIN v.reports : Reports(v, k) => k \in DOMAIN w.reports /\ Reports(w, k)
           /\ \A k \in DOMAIN v.reports : k \in DOMAIN w.reports \/ k = Len(w.reports) + 1
           /\ \A k \in DOMAIN v.reports : k # Len(w.reports) + 1 /\ Reports(v, k) => Reports(w, k)
BY DEF Reports

\* The first report is taken.
LEMMA ReportsTaken ==
    ASSUME NEW w, NEW v, w.reports \in Seq(VpnStates), w.reports # <<>>, v.reports = Tail(w.reports)
    PROVE  /\ 1 \in DOMAIN w.reports /\ Head(w.reports) = w.reports[1]
           /\ \A k \in DOMAIN v.reports : /\ k \in Nat /\ k + 1 \in DOMAIN w.reports /\ k + 1 # 1
                                          /\ Reports(v, k) => Reports(w, k + 1)
BY DEF Reports

\* The tunnel is closed.
LEMMA TunnelDownKey ==
    ASSUME IInv, OneThing(b, wg, cert.key), TunnelDown
    PROVE  Goes
<1> DEFINE i == Head(b.wireGuardIo)
           s == WithIo(b, Tail(b.wireGuardIo))
<1>1. /\ b.wireGuardIo # <<>> /\ b.jobs[i].phase = "down" /\ UNCHANGED cert
  BY DEF TunnelDown
<1>2. /\ Sound(s) /\ SameAgent(b, s) /\ s.jobs = b.jobs /\ i \in Job /\ Unqueued(s, i)
  BY <1>1, IoTaken DEF IInv
<1>3. s.evicting = b.evicting
  BY Facts DEF WithIo, BackendRecord
<1>4. /\ wg' = [wg EXCEPT !.state = "closed",
                          !.reports = IF wg.state = "closed" THEN @ ELSE Append(@, "Disabled")]
      /\ CASE s.jobs[i].kind = "fail" -> b' = SetFinalError(End(s, i))
             [] s.jobs[i].kind = "disconnect" -> b' = End(s, i)
             [] s.jobs[i].kind = "connect" -> b' = [s EXCEPT !.jobs[i].phase = "prepare"]
             [] OTHER -> b' = Connect(s, i)
  BY DEF TunnelDown, WithIo
<1> HIDE DEF s, i
<1>5. b.jobs[i].kind \in {"connect", "disconnect", "reconnect", "revoked", "fail"}
  BY <1>1, <1>2, Facts DEF Fits
<1>6. /\ wg'.state = "closed"
      /\ wg'.reports = IF wg.state = "closed" THEN wg.reports ELSE Append(wg.reports, "Disabled")
      /\ wg.reports \in Seq(VpnStates)
  BY <1>4 DEF IInv, Typed
<1>7. \A k \in DOMAIN wg'.reports : Reports(wg', k) => k \in DOMAIN wg.reports /\ Reports(wg, k)
  <2>1. CASE wg.state = "closed"
    BY <1>6, <2>1 DEF Reports
  <2>2. CASE wg.state # "closed"
    <3>1. "Disabled" \in VpnStates /\ "Disabled" # "Connected" /\ wg'.reports = Append(wg.reports, "Disabled")
      BY <1>6, <2>2 DEF VpnStates
    <3> QED BY <1>6, <3>1, ReportsAppended
  <2> QED BY <2>1, <2>2
<1>8. LoneReport(wg') /\ (Due(wg') => Due(wg))
  BY <1>6, <1>7 DEF LoneReport, Due, OneThing
<1>9. Quieter(b, s)
  BY <1>2, <1>3, Quiet
<1>10. OneThing(s, wg, cert.key) /\ (Busy(s) => Busy(b))
  BY <1>9, QuieterHolds
<1>11. ASSUME Quieter(s, b') PROVE Goes
  <2>1. OneThing(b', wg, cert.key) /\ (Busy(b') => Busy(s))
    BY <1>10, <1>11, QuieterHolds
  <2>2. OneThing(b', wg', cert.key)
    BY <1>6, <1>8, <2>1, Easier
  <2> QED BY <1>1, <1>8, <1>10, <2>1, <2>2 DEF Goes
<1>12. CASE b.jobs[i].kind = "fail"
  <2> DEFINE e == End(s, i)
             t == SetFinalError(e)
  <2>1. b' = t
    BY <1>2, <1>4, <1>12
  <2>2. OneThing(e, wg', cert.key) /\ (Busy(e) => Busy(s))
    BY <1>2, <1>6, <1>8, <1>10, <1>12, FailEnds
  <2>3. Sound(e)
    BY <1>2, Ending
  <2> HIDE DEF e
  <2>4. SameAgent(e, t) /\ t.jobs = e.jobs /\ t.evicting = e.evicting
    BY <2>3 DEF Sound, BackendRecord, SameAgent, SetFinalError
  <2> HIDE DEF t
  <2>5. OneThing(t, wg', cert.key) /\ (Busy(t) => Busy(e))
    BY <2>2, <2>4, Quiet, QuieterHolds
  <2> QED BY <1>1, <1>8, <1>10, <2>1, <2>2, <2>5 DEF Goes
<1>13. CASE b.jobs[i].kind = "disconnect"
  <2>1. b' = End(s, i)
    BY <1>2, <1>4, <1>13
  <2>2. s.jobs[i].kind # "fail" /\ ~Rekeys(s.jobs[i])
    BY <1>2, <1>13 DEF Rekeys
  <2>3. Quieter(s, b')
    BY <1>2, <2>1, <2>2, QuietEnd
  <2> QED BY <1>11, <2>3
<1>14. CASE b.jobs[i].kind = "connect"
  <2>1. b' = Moved(s, i, "prepare")
    BY <1>2, <1>4, <1>14 DEF Moved
  <2>2. Fits(s.jobs[i].kind, "prepare") /\ s.jobs[i].phase # "ended"
    BY <1>1, <1>2, <1>14 DEF Fits
  <2>3. Quieter(s, b')
    BY <1>2, <2>1, <2>2, QuietRun
  <2> QED BY <1>11, <2>3
<1>15. CASE b.jobs[i].kind \in {"reconnect", "revoked"}
  <2>1. b' = Connect(s, i)
    BY <1>2, <1>4, <1>15
  <2>2. s.jobs[i].kind \in {"connect", "reconnect", "revoked"} /\ s.jobs[i].phase # "ended"
    BY <1>1, <1>2, <1>15
  <2>3. Quieter(s, b')
    BY <1>2, <2>1, <2>2, Facts, QuietConnect
  <2> QED BY <1>11, <2>3
<1> QED BY <1>5, <1>12, <1>13, <1>14, <1>15

\* The tunnel is opened with the key that its coroutine read, or cannot be.
LEMMA TunnelUpKey ==
    ASSUME IInv, OneThing(b, wg, cert.key), TunnelUp
    PROVE  Goes
<1> DEFINE i == Head(b.wireGuardIo)
           e == End(b, i)
<1>1. /\ b.wireGuardIo # <<>> /\ b.jobs[i].phase = "up" /\ UNCHANGED cert
  BY DEF TunnelUp
<1>2. i \in Job
  BY <1>1, IoTaken DEF IInv
<1>3. b.jobs[i].kind \in {"connect", "reconnect", "revoked"}
  BY <1>1, <1>2, Facts DEF Fits
<1>4. Opens(b.jobs[i]) /\ b.jobs[i].key = cert.key
  BY <1>1, <1>2, <1>3 DEF Opens, OneThing, Renewed
<1>5. /\ ~Busy(e) /\ e.strays = 0 /\ Busy(b) /\ ~Due(wg) /\ LoneReport(wg)
      /\ \A j \in Job : e.jobs[j].phase # "up"
  BY <1>2, <1>4, Handing DEF IInv
<1>6. Sound(e)
  BY <1>2, Ending DEF IInv
<1>7. CASE /\ wg' = [wg EXCEPT !.state = "Connecting", !.key = b.jobs[i].key,
                                !.by = b.jobs[i].kind, !.reports = Append(@, "Connecting")]
           /\ b' = e
  <2>1. /\ wg'.key = cert.key /\ wg'.reports = Append(wg.reports, "Connecting")
        /\ wg.reports \in Seq(VpnStates) /\ "Connecting" \in VpnStates /\ "Connecting" # "Connected"
    BY <1>4, <1>7 DEF IInv, Typed, VpnStates
  <2>2. \A k \in DOMAIN wg'.reports : Reports(wg', k) => k \in DOMAIN wg.reports /\ Reports(wg, k)
    BY <2>1, ReportsAppended
  <2>3. LoneReport(wg')
    BY <1>5, <2>2 DEF LoneReport, Due
  <2> HIDE DEF e
  <2>4. OneThing(e, wg', cert.key)
    BY <1>5, <2>1, <2>3, Hushed
  <2> QED BY <1>1, <1>5, <1>7, <2>4 DEF Goes
<1>8. CASE wg.state = "closed" /\ b' = SetFinalError(e) /\ UNCHANGED wg
  <2> HIDE DEF e
  <2>1. OneThing(e, wg, cert.key)
    BY <1>5, <1>8, Hushed
  <2>2. SameAgent(e, b') /\ b'.jobs = e.jobs /\ b'.evicting = e.evicting
    BY <1>6, <1>8 DEF Sound, BackendRecord, SameAgent, SetFinalError
  <2>3. OneThing(b', wg, cert.key)
    BY <2>1, <2>2, Quiet, QuieterHolds
  <2> QED BY <1>1, <1>5, <1>8, <2>3 DEF Goes
<1> QED BY <1>7, <1>8 DEF TunnelUp, e, i

\* What is posted changes nothing here.
LEMMA QuietPost ==
    ASSUME NEW s, Sound(s), NEW value \in VpnStates
    PROVE  Quieter(s, [s EXCEPT !.posted = value])
<1> DEFINE t == [s EXCEPT !.posted = value]
<1>1. SameAgent(s, t) /\ t.jobs = s.jobs /\ t.evicting = s.evicting
  BY DEF Sound, BackendRecord, SameAgent
<1> HIDE DEF t
<1>2. Quieter(s, t)
  BY <1>1, Quiet
<1> QED BY <1>2 DEF t

\* Those who wait for a certificate get an answer.
LEMMA QuietReply ==
    ASSUME NEW s, Sound(s), NEW phase \in {"got", "refused"}
    PROVE  Quieter(s, Replied(s, phase))
<1> DEFINE t == Replied(s, phase)
<1>1. /\ SameAgent(s, t) /\ \A j \in Job : s.jobs[j].phase # "await" => t.jobs[j] = s.jobs[j]
  BY Replying
<1>2. /\ t.evicting = s.evicting /\ \A j \in Job : s.jobs[j] \in JobRecord
      /\ t.jobs = [j \in Job |-> IF s.jobs[j].phase = "await"
                                 THEN [s.jobs[j] EXCEPT !.phase = phase] ELSE s.jobs[j]]
  BY DEF Replied, Sound, BackendRecord
<1> HIDE DEF t
<1>3. ASSUME NEW j \in Job
      PROVE  /\ t.jobs[j].kind = s.jobs[j].kind /\ t.jobs[j].cancelled = s.jobs[j].cancelled
             /\ t.jobs[j].phase = "up" => s.jobs[j].phase = "up" /\ t.jobs[j].key = s.jobs[j].key
             /\ t.jobs[j].phase = "session" => s.jobs[j].phase = "session"
  <2>1. CASE s.jobs[j].phase # "await"
    BY <1>1, <2>1
  <2>2. CASE s.jobs[j].phase = "await"
    <3>1. t.jobs[j] = [s.jobs[j] EXCEPT !.phase = phase]
      BY <1>2, <2>2
    <3> QED BY <1>2, <3>1 DEF JobRecord
  <2> QED BY <2>1, <2>2
<1>4. \A j \in Job : /\ Rekeys(s.jobs[j]) => Rekeys(t.jobs[j])
                     /\ Rekeying(s.jobs[j]) => Rekeying(t.jobs[j])
  BY <1>3 DEF Rekeys, Rekeying
<1>5. Quieter(s, t)
  BY <1>1, <1>2, <1>3, <1>4 DEF Quieter, SameAgent
<1> QED BY <1>5 DEF t

\* A state of the tunnel is applied.  A Connected is what was due; nothing else
\* is under way then.
LEMMA ApplyReportKey ==
    ASSUME IInv, OneThing(b, wg, cert.key), ApplyReport
    PROVE  Goes
<1> DEFINE value == Head(wg.reports)
<1>1. /\ wg.reports # <<>> /\ b' = SetVpnProtocolState(b, value)
      /\ wg' = [wg EXCEPT !.reports = Tail(@)] /\ UNCHANGED cert
  BY DEF ApplyReport
<1>2. /\ wg.reports \in Seq(VpnStates) /\ value \in VpnStates
      /\ wg'.state = wg.state /\ wg'.key = wg.key /\ wg'.reports = Tail(wg.reports)
  BY <1>1 DEF IInv, Typed
<1>3. /\ 1 \in DOMAIN wg.reports /\ value = wg.reports[1]
      /\ \A k \in DOMAIN wg'.reports : /\ k \in Nat /\ k + 1 \in DOMAIN wg.reports /\ k + 1 # 1
                                       /\ Reports(wg', k) => Reports(wg, k + 1)
  BY <1>1, <1>2, ReportsTaken
<1> HIDE DEF value
<1>4. LoneReport(wg') /\ (Due(wg') => Due(wg))
  <2>1. Due(wg') => Due(wg)
    BY <1>2, <1>3 DEF Due
  <2>2. ASSUME NEW k \in DOMAIN wg'.reports, Reports(wg', k)
        PROVE  /\ wg'.state \notin {"Connecting", "Error"}
               /\ \A l \in DOMAIN wg'.reports : Reports(wg', l) => k = l
    <3>1. wg'.state \notin {"Connecting", "Error"}
      BY <1>2, <1>3, <2>2 DEF OneThing, LoneReport
    <3>2. ASSUME NEW l \in DOMAIN wg'.reports, Reports(wg', l) PROVE k = l
      <4>1. k + 1 = l + 1 /\ k \in Nat /\ l \in Nat
        BY <1>3, <2>2, <3>2 DEF OneThing, LoneReport
      <4> QED BY <4>1
    <3> QED BY <3>1, <3>2
  <2> QED BY <2>1, <2>2 DEF LoneReport
<1>5. OneThing(b, wg', cert.key)
  BY <1>2, <1>4, Easier
<1>6. CASE value # "Connected"
  <2>1. Quieter(b, b')
    BY <1>1, <1>2, <1>6, QuietSet DEF IInv
  <2>2. OneThing(b', wg', cert.key) /\ (Busy(b') => Busy(b))
    BY <1>5, <2>1, QuieterHolds
  <2> QED BY <1>1, <1>4, <2>2 DEF Goes
<1>7. CASE value = "Connected"
  <2>1. Reports(wg, 1)
    BY <1>3, <1>7 DEF Reports
  <2>2. Due(wg) /\ ~Busy(b)
    BY <1>3, <2>1 DEF Due, OneThing
  <2>3. ~Due(wg')
    <3>1. wg'.state \notin {"Connecting", "Error"}
      BY <1>2, <1>3, <2>1 DEF OneThing, LoneReport
    <3>2. ASSUME NEW k \in DOMAIN wg'.reports, Reports(wg', k) PROVE FALSE
      BY <1>3, <2>1, <3>2 DEF OneThing, LoneReport
    <3> QED BY <3>1, <3>2 DEF Due
  <2>4. CASE b.vpnProtocolState = "Connected"
    <3>1. b' = b
      BY <1>1, <1>7, <2>4 DEF SetVpnProtocolState
    <3> QED BY <1>1, <1>5, <2>2, <3>1 DEF Goes
  <2>5. CASE b.vpnProtocolState # "Connected"
    <3>1. /\ SameAgent(b, b') /\ b'.jobs = b.jobs /\ b'.evicting = b.evicting + 1
      BY <1>1, <1>7, <2>5, Facts DEF SetVpnProtocolState, BackendRecord, SameAgent
    <3>2. b.evicting = 0 /\ b.agent = "null" /\ \A j \in Job : ~Opens(b.jobs[j])
      BY <2>2 DEF Busy
    <3>3. Lone(b')
      BY <3>1, <3>2 DEF Lone, SameAgent, OneThing
    <3>4. Renewed(b', wg', cert.key)
      BY <1>5, <3>1 DEF OneThing, Renewed, SameAgent
    <3>5. OneThing(b', wg', cert.key)
      BY <1>4, <2>3, <3>3, <3>4 DEF OneThing
    <3> QED BY <1>1, <2>2, <3>5 DEF Goes
  <2> QED BY <2>4, <2>5
<1> QED BY <1>6, <1>7

\* After the eviction the local agent is connected.
LEMMA EvictedKey ==
    ASSUME IInv, Room, OneThing(b, wg, cert.key), Evicted
    PROVE  Goes
<1> DEFINE s == [b EXCEPT !.evicting = @ - 1]
           o == ConnectToLocalAgent(s)
<1>1. b.evicting > 0 /\ b' = ProcessCombinedState(s, "Connected", b.agent) /\ UNCHANGED <<callback, cert, wg>>
  BY DEF Evicted
<1>2. b.evicting = 1 /\ b.agent = "null" /\ b.strays = 0 /\ \A j \in Job : ~Opens(b.jobs[j])
  BY <1>1, Facts DEF OneThing, Lone, BackendRecord
<1>3. Busy(b) /\ ~Due(wg) /\ LoneReport(wg)
  BY <1>2 DEF Busy, OneThing
<1>4. b' = [o EXCEPT !.posted = "Connecting"]
  BY <1>1, <1>2 DEF ProcessCombinedState, HandleLocalAgentStates, AgentView
<1>13. s = [b EXCEPT !.evicting = 0]
  BY <1>2
<1> HIDE DEF s
<1>5. /\ s \in BackendRecord /\ SameAgent(b, s) /\ s.jobs = b.jobs /\ s.ready = b.ready
      /\ s.delays = b.delays /\ s.wireGuardIo = b.wireGuardIo /\ s.evicting = 0
  BY <1>13, Facts DEF BackendRecord, SameAgent
<1>6. Sound(s) /\ Free(s) # {}
  BY <1>5, Unrelated DEF IInv, Room
<1>7. ~Busy(s) /\ s.strays = 0
  BY <1>2, <1>5 DEF Busy, SameAgent
<1>8. Renewed(s, wg, cert.key)
  BY <1>5 DEF OneThing, Renewed, SameAgent
<1>9. OneThing(o, wg, cert.key)
  BY <1>3, <1>6, <1>7, <1>8, OpeningAgent
<1>10. Sound(o)
  BY <1>6, AgentOpened
<1> HIDE DEF o
<1>11. Quieter(o, b')
  BY <1>4, <1>10, QuietPost DEF VpnStates
<1>12. OneThing(b', wg, cert.key)
  BY <1>9, <1>11, QuieterHolds
<1> QED BY <1>1, <1>3, <1>12 DEF Goes

\* The API answers: with a new certificate an agent is connected again.
LEMMA RequestEndsKey ==
    ASSUME IInv, Room, OneThing(b, wg, cert.key), RequestEnds
    PROVE  Goes
<1> DEFINE s == IF b.agent = "null" THEN b ELSE ConnectToLocalAgent(CloseAgentConnection(b))
<1>1. UNCHANGED wg
  BY DEF RequestEnds
<1>2. \/ b' = Replied(s, "got") /\ cert' = [cert EXCEPT !.valid = TRUE, !.request = FALSE]
      \/ b' = Replied(b, "refused") /\ cert' = [cert EXCEPT !.request = FALSE]
  BY DEF RequestEnds, Replied, Refuse
<1>3. cert'.key = cert.key
  BY <1>2 DEF IInv, Typed
<1>4. Sound(s) /\ OneThing(s, wg, cert.key) /\ (Busy(s) => Busy(b))
  <2>1. CASE b.agent = "null"
    BY <2>1 DEF IInv
  <2>2. CASE b.agent # "null"
    <3> DEFINE c == CloseAgentConnection(b)
               d == ConnectToLocalAgent(c)
    <3>1. Sound(c) /\ Quieter(b, c) /\ c.agent = "null" /\ Free(b) \subseteq Free(c)
      BY QuietClose, Closing DEF IInv
    <3>2. Free(c) # {}
      BY <3>1 DEF Room
    <3> HIDE DEF c
    <3>3. ~Busy(c) /\ c.strays = 0
      BY <2>2, <3>1, Resting DEF OneThing
    <3>4. Busy(b) /\ ~Due(wg) /\ LoneReport(wg)
      BY <2>2 DEF Busy, OneThing
    <3>5. Renewed(c, wg, cert.key)
      BY <3>1, QuieterHolds DEF OneThing
    <3>6. OneThing(d, wg, cert.key)
      BY <3>1, <3>2, <3>3, <3>4, <3>5, OpeningAgent
    <3>7. Sound(d)
      BY <3>1, <3>2, AgentOpened
    <3>8. s = d
      BY <2>2 DEF c
    <3> HIDE DEF d, s
    <3> QED BY <3>4, <3>6, <3>7, <3>8
  <2> QED BY <2>1, <2>2
<1> HIDE DEF s
<1>5. ASSUME NEW r, Sound(r), OneThing(r, wg, cert.key), Busy(r) => Busy(b),
             NEW phase \in {"got", "refused"}, b' = Replied(r, phase)
      PROVE  Goes
  <2>1. Quieter(r, b')
    BY <1>5, QuietReply
  <2>2. OneThing(b', wg, cert.key) /\ (Busy(b') => Busy(r))
    BY <1>5, <2>1, QuieterHolds
  <2> QED BY <1>1, <1>3, <1>5, <2>2 DEF Goes
<1> QED BY <1>2, <1>4, <1>5 DEF IInv

\* The connection job creates its agent.
LEMMA AgentCreated ==
    ASSUME NEW s, Sound(s), NEW w, NEW key, OneThing(s, w, key), NEW i \in Job, s.jobs[i].kind = "agent"
    PROVE  OneThing(CreateAgent(s, i), w, key) /\ Busy(s)
<1> DEFINE e == End(s, i)
           t == CreateAgent(s, i)
<1>1. Opens(s.jobs[i])
  BY DEF Opens
<1>2. /\ ~Busy(e) /\ e.strays = 0 /\ e.evicting = 0 /\ Busy(s) /\ ~Due(w) /\ LoneReport(w)
      /\ Renewed(e, w, key)
  BY <1>1, Handing
<1>3. Sound(e)
  BY Ending
<1>4. s.agent = "null"
  BY <1>1 DEF OneThing, Lone
<1>5. t = [e EXCEPT !.agent = "Connecting", !.strays = @, !.late = @ \/ s.jobs[i].cancelled]
  BY <1>4 DEF CreateAgent
<1> HIDE DEF e
<1>6. /\ t.jobs = e.jobs /\ t.agent = "Connecting" /\ t.strays = e.strays /\ t.evicting = e.evicting
      /\ t.agentConnectionJob = e.agentConnectionJob
  BY <1>3, <1>5 DEF Sound, BackendRecord
<1> HIDE DEF t
<1>7. Lone(t)
  BY <1>2, <1>6 DEF Lone, Busy
<1>8. Renewed(t, w, key)
  BY <1>2, <1>6 DEF Renewed
<1>9. OneThing(t, w, key)
  BY <1>2, <1>7, <1>8 DEF OneThing
<1> QED BY <1>2, <1>9 DEF t

\* A coroutine ends and the local agent is connected.
LEMMA AgentFollows ==
    ASSUME NEW s, Sound(s), Free(s) # {}, NEW w, NEW key, OneThing(s, w, key), NEW i \in Job,
           s.jobs[i].kind \in {"expired", "unknownCA"}
    PROVE  OneThing(ConnectToLocalAgent(End(s, i)), w, key) /\ Busy(s)
<1> DEFINE e == End(s, i)
<1>1. Opens(s.jobs[i])
  BY DEF Opens
<1>2. /\ ~Busy(e) /\ e.strays = 0 /\ Busy(s) /\ ~Due(w) /\ LoneReport(w) /\ Renewed(e, w, key)
  BY <1>1, Handing
<1>3. Sound(e) /\ Free(s) \subseteq Free(e)
  BY Ending, Zenon
<1> HIDE DEF e
<1>4. OneThing(ConnectToLocalAgent(e), w, key)
  BY <1>2, <1>3, OpeningAgent
<1> QED BY <1>2, <1>4 DEF e

\* A certificate is asked for.  Only a revocation makes a new key, and then its
\* coroutine is the only one.
LEMMA AskCertificateKey ==
    ASSUME IInv, Room, OneThing(b, wg, cert.key), NEW i \in Job, AskCertificate(i)
    PROVE  Goes
<1>1. b.jobs[i].phase = "session" /\ UNCHANGED wg
  BY DEF AskCertificate
<1>2. b.jobs[i].kind \in {"agent", "expired", "unknownCA", "revoked"}
  BY <1>1, Facts DEF Fits
<1>3. Unqueued(b, i) /\ Sound(b)
  BY <1>1 DEF IInv, Sound, Queues, Waiting, Unqueued
<1>4. CASE b.jobs[i].kind = "agent" /\ cert.valid
  <2>1. b' = CreateAgent(b, i) /\ UNCHANGED cert
    BY <1>4 DEF AskCertificate
  <2> QED BY <1>1, <1>3, <1>4, <2>1, AgentCreated DEF Goes
<1>5. CASE b.jobs[i].kind = "expired"
  <2>1. b' = ConnectToLocalAgent(End(b, i)) /\ UNCHANGED cert
    BY <1>5 DEF AskCertificate
  <2> QED BY <1>1, <1>3, <1>5, <2>1, AgentFollows DEF Goes, Room
<1>6. CASE b.jobs[i].kind = "revoked"
  <2> DEFINE r == Replied(b, "refused")
             t == Moved(r, i, "await")
  <2>1. b' = t /\ cert' = [valid |-> FALSE, request |-> TRUE, key |-> cert.key + 1]
    BY <1>6 DEF AskCertificate, Replied, Refuse, Moved
  <2>2. /\ Sound(r) /\ \A j \in Job : b.jobs[j].phase # "await" => r.jobs[j] = b.jobs[j]
        /\ \A j \in Job : Unqueued(b, j) => Unqueued(r, j)
    BY <1>3, Replying
  <2>3. r.jobs[i] = b.jobs[i] /\ Unqueued(r, i) /\ Fits("revoked", "await") /\ r.jobs[i].phase # "ended"
    BY <1>1, <1>3, <2>2 DEF Fits
  <2>4. Quieter(b, r)
    BY <1>3, QuietReply
  <2> HIDE DEF r
  <2>5. Sound(t) /\ Quieter(r, t)
    BY <1>6, <2>2, <2>3, QuietRun
  <2>6. t.jobs[i].phase = "await" /\ t.jobs[i].kind = "revoked"
    BY <1>6, <2>2, <2>3, Moving
  <2> HIDE DEF t
  <2>7. OneThing(t, wg, cert.key) /\ (Busy(t) => Busy(b))
    BY <2>4, <2>5, QuieterTransitive, QuieterHolds
  <2>8. Rekeying(t.jobs[i])
    BY <2>6, <2>7 DEF OneThing, Renewed, Rekeying
  <2>9. \A j \in Job : t.jobs[j].phase # "up"
    <3> SUFFICES ASSUME NEW j \in Job, t.jobs[j].phase = "up" PROVE FALSE
      OBVIOUS
    <3>1. t.jobs[j].kind \in {"connect", "reconnect", "revoked"}
      BY <2>5 DEF Sound, Consistent, Fits
    <3>2. Opens(t.jobs[j]) /\ Opens(t.jobs[i])
      BY <2>6, <3>1 DEF Opens
    <3>3. j = i
      BY <2>7, <3>2 DEF OneThing, Lone
    <3> QED BY <2>6, <3>3
  <2>10. Renewed(t, wg, cert.key + 1)
    BY <2>7, <2>8, <2>9 DEF OneThing, Renewed
  <2>11. OneThing(t, wg, cert.key + 1)
    BY <2>7, <2>10 DEF OneThing
  <2>12. cert'.key = cert.key + 1
    BY <2>1
  <2> QED BY <1>1, <2>1, <2>7, <2>11, <2>12 DEF Goes
<1>7. CASE b.jobs[i].kind = "unknownCA" \/ (b.jobs[i].kind = "agent" /\ ~cert.valid)
  <2>1. b' = Moved(b, i, "await") /\ cert' = [cert EXCEPT !.request = TRUE]
    BY <1>7 DEF AskCertificate, Moved
  <2>2. Fits(b.jobs[i].kind, "await")
    BY <1>7 DEF Fits
  <2>3. Quieter(b, b')
    BY <1>1, <1>3, <2>1, <2>2, QuietRun
  <2>4. cert'.key = cert.key
    BY <2>1 DEF IInv, Typed
  <2> QED BY <1>1, <2>3, <2>4, QuietStep
<1> QED BY <1>2, <1>4, <1>5, <1>6, <1>7

\* A coroutine goes on with its certificate or without.  Without it an error
\* closes the tunnel that has the old key.
LEMMA AnsweredKey ==
    ASSUME IInv, Room, OneThing(b, wg, cert.key), NEW i \in Job, Answered(i)
    PROVE  Goes
<1>1. b.jobs[i].phase \in {"got", "refused"} /\ UNCHANGED <<callback, cert, wg>>
  BY DEF Answered
<1>2. b.jobs[i].kind \in {"agent", "unknownCA", "revoked"}
  BY <1>1, Facts DEF Fits
<1>3. Unqueued(b, i) /\ Sound(b)
  BY <1>1 DEF IInv, Sound, Queues, Waiting, Unqueued
<1>4. CASE b.jobs[i].kind = "unknownCA"
  <2>1. b' = ConnectToLocalAgent(End(b, i))
    BY <1>4 DEF Answered
  <2> QED BY <1>1, <1>3, <1>4, <2>1, AgentFollows DEF Goes, Room
<1>5. CASE b.jobs[i].kind # "unknownCA" /\ b.jobs[i].phase = "refused"
  <2> DEFINE e == End(b, i)
  <2>1. b' = SetError(e)
    BY <1>5 DEF Answered
  <2>2. Opens(b.jobs[i])
    BY <1>2 DEF Opens
  <2>3. /\ ~Busy(e) /\ e.strays = 0 /\ Busy(b) /\ LoneReport(wg)
        /\ \A j \in Job : e.jobs[j].phase # "up"
    BY <1>3, <2>2, Handing
  <2>4. Sound(e) /\ Free(b) \subseteq Free(e)
    BY <1>3, Ending, Zenon
  <2> HIDE DEF e
  <2>5. Quieter(e, b') /\ \E j \in Job : b'.jobs[j].kind = "fail"
    BY <2>1, <2>4, QuietFail DEF Room
  <2>6. ~Busy(b') /\ b'.strays = 0
    <3>1. \A j \in Job : ~Opens(b'.jobs[j])
      BY <2>3, <2>5 DEF Busy, Quieter, Opens
    <3> QED BY <2>3, <2>5, <3>1 DEF Busy, Quieter
  <2>7. \A j \in Job : b'.jobs[j].phase = "up" => b'.jobs[j].key = cert.key
    BY <2>3, <2>5 DEF Quieter
  <2>8. OneThing(b', wg, cert.key)
    BY <2>3, <2>5, <2>6, <2>7, Hushed
  <2> QED BY <1>1, <2>3, <2>8 DEF Goes
<1>6. CASE b.jobs[i].kind = "agent" /\ b.jobs[i].phase = "got"
  <2>1. b' = CreateAgent(b, i)
    BY <1>6 DEF Answered
  <2> QED BY <1>1, <1>3, <1>6, <2>1, AgentCreated DEF Goes
<1>7. CASE b.jobs[i].kind = "revoked" /\ b.jobs[i].phase = "got"
  <2>1. ~b.jobs[i].cancelled
    BY <1>7 DEF OneThing, Renewed, Rekeys
  <2>2. b' = Moved(b, i, "yield")
    BY <1>7, <2>1 DEF Answered, Moved
  <2>3. Fits(b.jobs[i].kind, "yield")
    BY <1>7 DEF Fits
  <2>4. Quieter(b, b')
    BY <1>1, <1>3, <2>2, <2>3, QuietRun
  <2> QED BY <1>1, <2>4, QuietStep
<1> QED BY <1>1, <1>2, <1>4, <1>5, <1>6, <1>7

\* A state of the agent: it is an agent as before.
LEMMA AgentStateKey ==
    ASSUME IInv, OneThing(b, wg, cert.key),
           NEW state \in {"Connected", "Unreachable", "expired", "unknownCA"}, AgentState(state)
    PROVE  Goes
<1>1. b.agent # "null" /\ UNCHANGED <<cert, wg>> /\ b' = [b EXCEPT !.agent = state]
  BY DEF AgentState
<1>2. /\ b'.jobs = b.jobs /\ b'.evicting = b.evicting /\ b'.strays = b.strays
      /\ b'.agentConnectionJob = b.agentConnectionJob
  BY <1>1, Facts DEF BackendRecord
<1>3. Quieter(b, b')
  BY <1>1, <1>2 DEF Quieter, Opens
<1> QED BY <1>1, <1>3, QuietStep

\* A callback that reads may close the agent.
LEMMA CallbackReadsKey ==
    ASSUME IInv, OneThing(b, wg, cert.key), CallbackReads
    PROVE  Goes
<1>1. UNCHANGED <<cert, wg>> /\ (b' = CloseAgentConnection(b) \/ b' = b)
  BY DEF CallbackReads
<1>2. Quieter(b, b')
  <2>1. Quieter(b, CloseAgentConnection(b))
    BY QuietClose DEF IInv
  <2>2. Quieter(b, b)
    BY DEF Quieter
  <2> QED BY <1>1, <2>1, <2>2
<1> QED BY <1>1, <1>2, QuietStep

\* A callback that still has its agent gives it up.
LEMMA CallbackActsKey ==
    ASSUME IInv, Room, OneThing(b, wg, cert.key), CallbackActs, ~Stale
    PROVE  Goes
<1>1. /\ callback.step = "act" /\ UNCHANGED <<cert, wg>>
      /\ b' = IF callback.report = "fatal" THEN SetError(b) ELSE LaunchReconnection(b, callback.report)
  BY DEF CallbackActs
<1>2. b.agent # "null"
  BY <1>1 DEF Stale
<1>3. callback.report \in {"expired", "unknownCA", "revoked", "fatal"}
  BY <1>1 DEF IInv, Typed, CallbackFits
<1>4. CASE callback.report # "fatal"
  <2>1. b' = LaunchReconnection(b, callback.report)
    BY <1>1, <1>4
  <2>2. OneThing(b', wg, cert.key)
    BY <1>2, <1>3, <1>4, <2>1, OpeningAgain DEF IInv, Room
  <2> QED BY <1>1, <1>2, <2>2 DEF Goes, Busy
<1>5. CASE callback.report = "fatal"
  <2>1. b' = SetError(b)
    BY <1>1, <1>5
  <2>2. Quieter(b, b')
    BY <2>1, QuietFail DEF IInv, Room
  <2> QED BY <1>1, <2>2, QuietStep
<1> QED BY <1>4, <1>5

\* A callback that posts.
LEMMA CallbackPostsKey ==
    ASSUME IInv, OneThing(b, wg, cert.key), CallbackPosts
    PROVE  Goes
<1> DEFINE value == IF callback.vpnState = "Connected" THEN AgentView(callback.report)
                    ELSE callback.vpnState
<1>1. callback.step = "post" /\ UNCHANGED <<cert, wg>> /\ b' = [b EXCEPT !.posted = value]
  BY DEF CallbackPosts
<1>2. callback.vpnState \in VpnStates
  BY <1>1 DEF IInv, Typed, CallbackFits, CallbackRecord
<1>3. value \in VpnStates
  BY <1>2 DEF AgentView, VpnStates
<1> HIDE DEF value
<1>4. Quieter(b, b')
  BY <1>1, <1>3, QuietPost DEF IInv
<1> QED BY <1>1, <1>4, QuietStep

\* A coroutine of no kind has ended.
LEMMA NoKind ==
    ASSUME NEW s, Sound(s), NEW i \in Job, s.jobs[i].kind = "none"
    PROVE  s.jobs[i].phase = "ended"
<1>1. s.jobs[i] \in JobRecord /\ Fits(s.jobs[i].kind, s.jobs[i].phase)
  BY DEF Sound, BackendRecord, Consistent
<1> QED BY <1>1 DEF JobRecord, Fits

\* The manager has no connect job to cancel.
LEMMA NothingToCancel ==
    ASSUME NEW s, Sound(s), NEW m, m.ongoingConnect \in Job \cup {0}, Commanded(s, m),
           m.ongoingConnect # 0 => ~Opens(s.jobs[m.ongoingConnect])
    PROVE  Cancel(s, m.ongoingConnect) = s
<1>1. CASE m.ongoingConnect = 0
  BY <1>1 DEF Cancel
<1>2. CASE m.ongoingConnect # 0
  <2>1. s.jobs[m.ongoingConnect].kind = "none" /\ m.ongoingConnect \in Job
    BY <1>2 DEF Commanded, Opens
  <2>2. s.jobs[m.ongoingConnect].phase = "ended"
    BY <2>1, NoKind
  <2> QED BY <2>2 DEF Cancel
<1> QED BY <1>1, <1>2

\* A command begins where nothing was under way.
LEMMA CommandStarts ==
    ASSUME NEW s, Sound(s), Free(s) # {}, ~Busy(s), s.strays = 0,
           NEW kind \in {"connect", "disconnect", "reconnect"},
           NEW w, NEW key, LoneReport(w), ~Due(w), Renewed(s, w, key)
    PROVE  OneThing(LaunchReady(s, kind), w, key)
<1> DEFINE t == LaunchReady(s, kind)
           n == NextJob(s)
<1>1. kind \in CommandKinds
  BY DEF CommandKinds
<1>2. /\ SameAgent(s, t) /\ n \in Job /\ t.jobs[n] = JobAt(kind, "ready")
      /\ \A j \in Job : j # n => t.jobs[j] = s.jobs[j]
      /\ s.jobs[n].kind = "none"
  BY <1>1, ReadyLaunched
<1>3. t.evicting = s.evicting
  BY DEF LaunchReady, Sound, BackendRecord
<1> HIDE DEF t, n
<1>4. t.jobs[n].kind # "revoked" /\ t.jobs[n].phase # "up"
  BY <1>2 DEF JobAt
<1>5. t.agent = "null" /\ t.evicting = 0 /\ t.strays = 0
  BY <1>2, <1>3 DEF SameAgent, Busy
<1>6. OneThing(t, w, key)
  BY <1>2, <1>4, <1>5, Starting
<1> QED BY <1>6 DEF t

\* The coroutine of a command runs.
LEMMA RunReadyKey ==
    ASSUME IInv, Room, OneThing(b, wg, cert.key), RunReady
    PROVE  Goes
<1> DEFINE i == Head(b.ready)
           s == WithReady(b, Tail(b.ready))
           kind == b.jobs[i].kind
<1>1. b.ready # <<>> /\ UNCHANGED <<callback, cert, wg>>
  BY DEF RunReady
<1>2. /\ Sound(s) /\ SameAgent(b, s) /\ Free(s) = Free(b)
      /\ s.jobs = b.jobs /\ i \in Job /\ b.jobs[i].phase = "ready" /\ Unqueued(s, i)
  BY <1>1, ReadyTaken DEF IInv
<1>3. s.evicting = b.evicting
  BY Facts DEF WithReady, BackendRecord
<1>4. /\ kind = "fail" => b' = Suspend(CloseAgentConnection(s), i, "down")
      /\ kind = "connect" => b' = IF manager.active THEN Disconnect(s, i) ELSE Moved(s, i, "prepare")
      /\ kind = "disconnect" => b' = IF manager.active THEN Disconnect(s, i) ELSE End(s, i)
  BY DEF RunReady, WithReady, Moved
<1>5. kind = "reconnect" =>
          LET t == Cancel(s, manager.ongoingConnect)
              connects == ~manager.active /\ manager.lastProfile
          IN  b' = CASE manager.active -> Disconnect(t, i)
                     [] connects -> LaunchReady(End(t, i), "connect")
                     [] OTHER -> End(t, i)
  BY DEF RunReady, WithReady
<1> HIDE DEF s, i
<1>6. Quieter(b, s)
  BY <1>2, <1>3, Quiet
<1>7. OneThing(s, wg, cert.key) /\ (Busy(s) => Busy(b))
  BY <1>6, QuieterHolds
<1>8. /\ kind \in CommandKinds /\ s.jobs[i].phase # "ended" /\ s.jobs[i].kind = kind
      /\ ~s.jobs[i].cancelled
  <2>1. kind \in CommandKinds
    BY <1>2, Facts DEF Fits, CommandKinds
  <2> QED BY <1>2, <2>1 DEF IInv, Commanded
<1>9. ASSUME Quieter(s, b') PROVE Goes
  BY <1>1, <1>6, <1>9, QuieterTransitive, QuietStep
<1>10. CASE kind = "fail"
  <2> DEFINE d == CloseAgentConnection(s)
  <2>1. b' = Suspend(d, i, "down")
    BY <1>4, <1>10
  <2>2. Sound(d) /\ Quieter(s, d) /\ Kept(s, d)
    BY <1>2, QuietClose
  <2> HIDE DEF d
  <2>3. ~d.jobs[i].cancelled
    BY <1>2, <1>8, <1>10, <2>2 DEF Kept
  <2>4. Quieter(d, b')
    BY <1>2, <2>1, <2>2, <2>3, QuietSuspend
  <2> QED BY <1>9, <2>2, <2>4, QuieterTransitive
<1>11. CASE kind \in {"connect", "disconnect"}
  <2>1. CASE manager.active
    <3>1. b' = Disconnect(s, i)
      BY <1>4, <1>11, <2>1
    <3> QED BY <1>2, <1>8, <1>9, <1>11, <3>1, QuietDisconnect
  <2>2. CASE ~manager.active /\ kind = "connect"
    <3>1. b' = Moved(s, i, "prepare") /\ Fits(s.jobs[i].kind, "prepare")
      BY <1>4, <1>8, <2>2 DEF Fits
    <3> QED BY <1>2, <1>8, <1>9, <3>1, QuietRun
  <2>3. CASE ~manager.active /\ kind = "disconnect"
    <3>1. b' = End(s, i) /\ s.jobs[i].kind # "fail" /\ ~Rekeys(s.jobs[i])
      BY <1>4, <1>8, <2>3 DEF Rekeys
    <3> QED BY <1>2, <1>9, <3>1, QuietEnd
  <2> QED BY <1>11, <2>1, <2>2, <2>3
<1>12. CASE kind = "reconnect"
  <2> DEFINE e == End(s, i)
  <2>1. Opens(s.jobs[i]) /\ s.jobs[i].kind = "reconnect"
    BY <1>8, <1>12 DEF Opens
  <2>2. Commanded(s, manager) /\ manager.ongoingConnect \in Job \cup {0}
    BY <1>2, Facts DEF IInv, Commanded
  <2>3. manager.ongoingConnect # 0 => ~Opens(s.jobs[manager.ongoingConnect])
    BY <1>2, <1>7, <2>1, <2>2 DEF Commanded, OneThing, Lone
  <2>4. Cancel(s, manager.ongoingConnect) = s
    BY <1>2, <2>2, <2>3, NothingToCancel
  <2>5. /\ manager.active => b' = Disconnect(s, i)
        /\ ~manager.active /\ manager.lastProfile => b' = LaunchReady(e, "connect")
        /\ ~manager.active /\ ~manager.lastProfile => b' = e
    BY <1>5, <1>12, <2>4
  <2>6. CASE manager.active
    BY <1>2, <1>8, <1>9, <1>12, <2>5, <2>6, QuietDisconnect
  <2>7. CASE ~manager.active /\ manager.lastProfile
    <3>1. /\ ~Busy(e) /\ e.strays = 0 /\ Busy(s) /\ ~Due(wg) /\ LoneReport(wg)
          /\ Renewed(e, wg, cert.key)
      BY <1>2, <1>7, <2>1, Handing
    <3>2. Sound(e) /\ Free(s) \subseteq Free(e)
      BY <1>2, Ending, Zenon
    <3>3. Free(e) # {}
      BY <1>2, <3>2 DEF Room
    <3>4. b' = LaunchReady(e, "connect")
      BY <2>5, <2>7
    <3> HIDE DEF e
    <3>5. OneThing(b', wg, cert.key)
      BY <3>1, <3>2, <3>3, <3>4, CommandStarts
    <3> QED BY <1>1, <1>7, <3>1, <3>5 DEF Goes
  <2>8. CASE ~manager.active /\ ~manager.lastProfile
    <3>1. b' = End(s, i) /\ s.jobs[i].kind # "fail" /\ ~Rekeys(s.jobs[i])
      BY <2>1, <2>5, <2>8 DEF Rekeys
    <3> QED BY <1>2, <1>9, <3>1, QuietEnd
  <2> QED BY <2>6, <2>7, <2>8
<1> QED BY <1>8, <1>10, <1>11, <1>12 DEF CommandKinds

\* The tunnel changes, other than by flapping: it was about to connect, and it
\* alone.
LEMMA TunnelChangesKey ==
    ASSUME IInv, OneThing(b, wg, cert.key), NEW state \in {"Connecting", "Connected", "Error"},
           TunnelChanges(state), ~wg'.flapped
    PROVE  Goes
<1>1. /\ wg.state # "closed" /\ UNCHANGED <<callback, b, cert>>
      /\ wg' = [wg EXCEPT !.state = state, !.reports = Append(@, state),
                          !.flapped = @ \/ wg.state = "Connected"]
  BY DEF TunnelChanges
<1>2. /\ wg.reports \in Seq(VpnStates) /\ state \in VpnStates
      /\ wg.state \in {"closed", "Connecting", "Connected", "Error"}
  BY DEF IInv, Typed, VpnStates
<1>3. /\ wg'.state = state /\ wg'.key = wg.key /\ wg'.reports = Append(wg.reports, state)
      /\ wg'.flapped = (wg.flapped \/ wg.state = "Connected")
  BY <1>1 DEF IInv, Typed
<1>4. wg.state \in {"Connecting", "Error"}
  BY <1>1, <1>2, <1>3
<1>5. Due(wg) /\ ~Busy(b)
  BY <1>4 DEF Due, OneThing
<1>6. \A k \in DOMAIN wg.reports : ~Reports(wg, k)
  BY <1>4 DEF OneThing, LoneReport
<1>7. \A k \in DOMAIN wg'.reports : Reports(wg', k) => k = Len(wg.reports) + 1 /\ state = "Connected"
  BY <1>2, <1>3, <1>6, ReportsAppended
<1>8. LoneReport(wg')
  BY <1>3, <1>7 DEF LoneReport
<1>9. Renewed(b, wg', cert.key)
  BY <1>1, <1>3 DEF OneThing, Renewed
<1>10. OneThing(b, wg', cert.key)
  BY <1>5, <1>8, <1>9 DEF OneThing
<1> QED BY <1>1, <1>5, <1>10 DEF Goes

\* The first command begins the only thing; a second one is not spoken of.
LEMMA CommandKey ==
    ASSUME IInv, Room, KeyInv, NEW c, Command(c)
    PROVE  KeyInv'
<1> DEFINE s == IF c = "reconnect" THEN b ELSE Cancel(b, manager.ongoingConnect)
<1>1. /\ c \in Commands /\ b' = LaunchReady(s, c) /\ UNCHANGED <<callback, cert, wg>>
      /\ count' = [count EXCEPT !.commands = @ + 1]
  BY DEF Command
<1>2. count.commands \in Nat /\ count'.commands = count.commands + 1
  BY <1>1, BackendAssumption DEF IInv, Typed
<1>3. SUFFICES ASSUME count.commands = 0, ~wg.flapped, ~callback.raced PROVE OneThing(b', wg', cert'.key)
  BY <1>1, <1>2 DEF KeyInv
<1>4. ~Busy(b) /\ ~Due(wg) /\ OneThing(b, wg, cert.key)
  BY <1>3 DEF KeyInv
<1>5. manager.ongoingConnect \in Job \cup {0}
  BY Facts
<1>6. Cancel(b, manager.ongoingConnect) = b
  <2>1. manager.ongoingConnect # 0 => ~Opens(b.jobs[manager.ongoingConnect])
    BY <1>4, <1>5 DEF Busy
  <2> QED BY <1>5, <2>1, NothingToCancel DEF IInv
<1>7. c \in {"connect", "disconnect", "reconnect"} /\ b' = LaunchReady(b, c)
  BY <1>1, <1>6, BackendAssumption
<1>8. b.strays = 0 /\ LoneReport(wg) /\ Renewed(b, wg, cert.key)
  BY <1>4 DEF OneThing, Lone
<1>9. OneThing(b', wg, cert.key)
  BY <1>4, <1>7, <1>8, CommandStarts DEF IInv, Room
<1> QED BY <1>1, <1>9

\* A step without a command.
LEMMA KeyStep ==
    ASSUME KeyInv, count'.commands = count.commands, ~wg'.flapped => ~wg.flapped,
           ~callback'.raced => ~callback.raced,
           OneThing(b, wg, cert.key) /\ ~wg'.flapped /\ ~callback'.raced => Goes
    PROVE  KeyInv'
BY DEF KeyInv, Goes

\* The main thread, wireGuardIo and the API give no command and make no tunnel flap.
LEMMA MainCounts ==
    ASSUME IInv, Main
    PROVE  /\ count'.commands = count.commands /\ wg'.flapped = wg.flapped
           /\ callback' = callback
<1>1. wg \in [state : {"closed", "Connecting", "Connected", "Error"}, key : Nat,
              by : {"connect", "revoked", "reconnect"}, reports : Seq(VpnStates),
              flapped : BOOLEAN]
  BY DEF IInv, Typed
<1>2. CASE RunReady
  BY <1>2 DEF RunReady
<1>3. CASE DelayEnds
  BY <1>3 DEF DelayEnds
<1>4. CASE TunnelDown
  BY <1>1, <1>4 DEF TunnelDown
<1>5. CASE TunnelUp
  BY <1>1, <1>5 DEF TunnelUp
<1>6. CASE ApplyReport
  BY <1>1, <1>6 DEF ApplyReport
<1>7. CASE Evicted \/ DeliverPosted \/ RequestEnds
  BY <1>7 DEF Evicted, DeliverPosted, RequestEnds
<1>8. CASE \E i \in Job : Prepared(i) \/ AskCertificate(i) \/ Answered(i) \/ Yielded(i)
  BY <1>8 DEF Prepared, AskCertificate, Answered, Yielded
<1> QED BY <1>2, <1>3, <1>4, <1>5, <1>6, <1>7, <1>8 DEF Main

\* An event is no command.
LEMMA EventCounts ==
    ASSUME IInv, Event
    PROVE  count'.commands = count.commands
BY DEF Event, IInv, Typed

\* The invariant of the key holds at first.
LEMMA KeyInitially == Init => KeyInv
<1> SUFFICES ASSUME Init PROVE KeyInv
  OBVIOUS
<1>1. /\ b.agent = "null" /\ b.evicting = 0 /\ b.strays = 0 /\ b.jobs = [i \in Job |-> NoJob]
      /\ wg.state = "closed" /\ wg.reports = <<>>
  BY DEF Init
<1>2. \A i \in Job : b.jobs[i].kind = "none" /\ b.jobs[i].phase = "ended"
  BY <1>1, NoJobTyped
<1>3. ~Busy(b)
  BY <1>1, <1>2 DEF Busy, Opens
<1>4. LoneReport(wg) /\ ~Due(wg)
  BY <1>1 DEF LoneReport, Due
<1>5. OneThing(b, wg, cert.key)
  BY <1>1, <1>2, <1>3, <1>4, Hushed
<1> QED BY <1>3, <1>4, <1>5 DEF KeyInv

\* A callback gives no command, makes no tunnel flap, and what it did late
\* stays on record.
LEMMA CallbackCounts ==
    ASSUME IInv, CallbackReads \/ CallbackConnects \/ CallbackActs \/ CallbackPosts
    PROVE  /\ count'.commands = count.commands /\ wg'.flapped = wg.flapped
           /\ ~callback'.raced => ~callback.raced /\ (CallbackActs => ~Stale) /\ ~CallbackConnects
<1>1. UNCHANGED <<wg, count>>
  BY DEF CallbackReads, CallbackConnects, CallbackActs, CallbackPosts
<1>2. callback \in CallbackRecord /\ CallbackFits(callback)
  BY DEF IInv, Typed
<1>3. ASSUME NEW step, Does(step) PROVE ~callback'.raced => ~callback.raced /\ ~Stale
  BY <1>2, <1>3 DEF Does, CallbackRecord, CallbackAt
<1>4. CASE CallbackReads
  BY <1>1, <1>2, <1>3, <1>4 DEF CallbackReads, CallbackConnects, CallbackActs, CallbackRecord
<1>5. CASE CallbackConnects
  BY <1>1, <1>3, <1>5 DEF CallbackConnects, Stale
<1>6. CASE CallbackActs
  BY <1>1, <1>3, <1>6 DEF CallbackActs, CallbackConnects
<1>7. CASE CallbackPosts
  BY <1>1, <1>3, <1>7 DEF CallbackPosts, CallbackConnects, CallbackActs
<1> QED BY <1>4, <1>5, <1>6, <1>7

\* Every step keeps it.
LEMMA KeyPreserved == IInv /\ KeyInv /\ [Next]_vars => KeyInv'
<1> SUFFICES ASSUME IInv, KeyInv, [Next]_vars PROVE KeyInv'
  OBVIOUS
<1>1. CASE UNCHANGED vars
  BY <1>1 DEF vars, KeyInv
<1>2. CASE Main
  <2>1. /\ Room /\ count'.commands = count.commands /\ wg'.flapped = wg.flapped
        /\ callback' = callback
    BY <1>2, MainCounts DEF Main
  <2>2. SUFFICES ASSUME OneThing(b, wg, cert.key) PROVE Goes
    BY <2>1, KeyStep
  <2>3. CASE RunReady
    BY <2>1, <2>2, <2>3, RunReadyKey
  <2>4. CASE DelayEnds
    BY <2>2, <2>4, DelayEndsKey
  <2>5. CASE TunnelDown
    BY <2>2, <2>5, TunnelDownKey
  <2>6. CASE TunnelUp
    BY <2>2, <2>6, TunnelUpKey
  <2>7. CASE ApplyReport
    BY <2>2, <2>7, ApplyReportKey
  <2>8. CASE Evicted
    BY <2>1, <2>2, <2>8, EvictedKey
  <2>9. CASE DeliverPosted
    BY <2>2, <2>9, DeliverPostedKey
  <2>10. CASE RequestEnds
    BY <2>1, <2>2, <2>10, RequestEndsKey
  <2>11. ASSUME NEW i \in Job, Prepared(i) PROVE Goes
    BY <2>2, <2>11, PreparedKey
  <2>12. ASSUME NEW i \in Job, AskCertificate(i) PROVE Goes
    BY <2>1, <2>2, <2>12, AskCertificateKey
  <2>13. ASSUME NEW i \in Job, Answered(i) PROVE Goes
    BY <2>1, <2>2, <2>13, AnsweredKey
  <2>14. ASSUME NEW i \in Job, Yielded(i) PROVE Goes
    BY <2>2, <2>14, YieldedKey
  <2> QED BY <1>2, <2>3, <2>4, <2>5, <2>6, <2>7, <2>8, <2>9, <2>10, <2>11, <2>12, <2>13, <2>14 DEF Main
<1>3. CASE Environment
  <2>1. Room
    BY <1>3 DEF Environment
  <2>2. ASSUME NEW c \in Commands, Command(c) PROVE KeyInv'
    BY <2>1, <2>2, CommandKey
  <2>3. ASSUME NEW state \in {"Connecting", "Connected", "Error"}, TunnelChanges(state) PROVE KeyInv'
    <3>1. count'.commands = count.commands
      BY <2>3, EventCounts DEF TunnelChanges
    <3>2. (~wg'.flapped => ~wg.flapped) /\ callback' = callback
      BY <2>3 DEF TunnelChanges, IInv, Typed
    <3>3. OneThing(b, wg, cert.key) /\ ~wg'.flapped => Goes
      BY <2>3, TunnelChangesKey
    <3> QED BY <3>1, <3>2, <3>3, KeyStep
  <2>4. ASSUME NEW state \in {"Connected", "Unreachable", "expired", "unknownCA"}, AgentState(state)
        PROVE  KeyInv'
    <3>1. count'.commands = count.commands /\ wg' = wg /\ callback'.raced = callback.raced
      BY <2>4, EventCounts DEF AgentState, Begin, CallbackAt
    <3>2. OneThing(b, wg, cert.key) => Goes
      BY <2>4, AgentStateKey
    <3> QED BY <3>1, <3>2, KeyStep
  <2>5. ASSUME NEW state, StrayState(state) PROVE KeyInv'
    <3>1. b.strays > 0 /\ UNCHANGED <<wg, count>> /\ callback'.raced = callback.raced
      BY <2>5 DEF StrayState, Begin, CallbackAt
    <3>2. ~OneThing(b, wg, cert.key)
      BY <3>1 DEF OneThing, Lone
    <3> QED BY <3>1, <3>2, KeyStep
  <2>6. ASSUME NEW error, AgentError(error) PROVE KeyInv'
    <3>1. /\ count'.commands = count.commands /\ UNCHANGED <<b, wg, cert>>
          /\ callback'.raced = callback.raced
      BY <2>6, EventCounts DEF AgentError, Begin, CallbackAt
    <3>2. OneThing(b, wg, cert.key) => Goes
      BY <3>1 DEF Goes
    <3> QED BY <3>1, <3>2, KeyStep
  <2>7. CASE CertificateChanges
    <3>1. count'.commands = count.commands /\ wg' = wg /\ callback' = callback
      BY <2>7, EventCounts DEF CertificateChanges
    <3>2. OneThing(b, wg, cert.key) => Goes
      BY <2>7, CertificateChangesKey
    <3> QED BY <3>1, <3>2, KeyStep
  <2> QED BY <1>3, <2>2, <2>3, <2>4, <2>5, <2>6, <2>7 DEF Environment
<1>4. CASE Callback
  <2>1. Room /\ (CallbackReads \/ CallbackConnects \/ CallbackActs \/ CallbackPosts)
    BY <1>4 DEF Callback
  <2>2. /\ count'.commands = count.commands /\ wg'.flapped = wg.flapped
        /\ ~callback'.raced => ~callback.raced /\ (CallbackActs => ~Stale) /\ ~CallbackConnects
    BY <2>1, CallbackCounts
  <2>3. ASSUME OneThing(b, wg, cert.key), ~callback'.raced PROVE Goes
    <3>1. CASE CallbackReads
      BY <2>3, <3>1, CallbackReadsKey
    <3>2. CASE CallbackActs
      BY <2>1, <2>2, <2>3, <3>2, CallbackActsKey
    <3>3. CASE CallbackPosts
      BY <2>3, <3>3, CallbackPostsKey
    <3> QED BY <2>1, <2>2, <2>3, <3>1, <3>2, <3>3
  <2> QED BY <2>2, <2>3, KeyStep
<1> QED BY <1>1, <1>2, <1>3, <1>4 DEF Next

\* After a single command, as long as the tunnel does not flap and no callback goes
\* on with what the main thread has changed, a tunnel that is open when everything has come to rest has the key of the certificate: no
\* revocation leaves the old key in use, however the certificate, the agent and
\* the tunnel change meanwhile.
THEOREM BackendKeyInUse == Safety => []KeyInUse
<1>1. IInv /\ KeyInv => KeyInUse
  <2> SUFFICES ASSUME IInv, KeyInv, AtRest, wg.state # "closed", ~wg.flapped, count.commands = 1,
                      ~callback.raced
               PROVE  wg.key = cert.key
    BY DEF KeyInUse
  <2>1. Renewed(b, wg, cert.key)
    BY DEF KeyInv, OneThing
  <2>2. \A i \in Job : b.jobs[i].kind = "none"
    BY Facts DEF AtRest, Fits
  <2> QED BY <2>1, <2>2 DEF Renewed, Rekeying, Rekeys
<1>2. Safety => []KeyInv
  BY KeyInitially, KeyPreserved, BackendInvariant, PTL DEF Safety
<1> QED BY <1>1, <1>2, BackendInvariant, PTL

=============================================================================
