----------------------------- MODULE Telemetry -----------------------------
(***************************************************************************)
(* The classes Telemetry, TelemetryCache, TelemetryUploader and            *)
(* TelemetryUploadWorker: events are kept in a bounded list, saved to a    *)
(* file so that they survive the process, and uploaded by a worker.        *)
(*                                                                         *)
(* Three threads take part.  event() runs on the main thread; the worker   *)
(* runs on a background thread and changes the same list; the file is read *)
(* and written by a thread of its own that serves its queue in order.      *)
(* WorkManager holds at most one unit of work, which outlives the process. *)
(*                                                                         *)
(* An event is identified by the order in which it was reported.           *)
(***************************************************************************)
EXTENDS Integers, Sequences, SequencesExt

CONSTANTS MaxEvents,       \* bound: events reported in a behaviour
          MaxExpired,      \* bound: events that reach the discard age
          MaxCrashes,      \* bound: deaths of the process in a behaviour
          MaxQueue,        \* bound: tasks that wait for the file's thread
          EventCountLimit, \* MAX_EVENT_COUNT
          Switchable       \* does the user switch telemetry off and on

ASSUME TelemetryAssumption ==
    /\ {MaxEvents, MaxExpired, MaxCrashes, MaxQueue} \subseteq Nat
    /\ EventCountLimit \in Nat \ {0}
    /\ Switchable \in BOOLEAN

VARIABLES
    pendingEvents,  \* the list of that name
    isEnabled,      \* the feature flag and the setting
    main,           \* where event() is: idle, add, trim, save, launch
    mainCopy,       \* the copy of the list that save() on the main thread made
    loader,         \* loadCache: loading, loaded (to be resumed), done
    cached,         \* what the cache returned to loadCache
    serialIo,       \* the queue of the file's thread
    file,           \* the events in the file
    work,           \* the unique work: none, enqueued, running
    worker,         \* where uploadPendingEvents is
    toUpload,       \* its copy of the list
    workerCopy,     \* the copy of the list that save() on the worker made
    hasMore,        \* hasMoreEvents of its result
    raced,          \* "modified": the main thread has changed the list that the
                    \* worker is discarding old events from; "now": it has changed
                    \* it while the worker removes events; "lost": that has damaged
                    \* the list
    next,           \* number of the next event
    expired,        \* events up to this number have reached the discard age
    crashes,        \* deaths of the process so far
    settled         \* history: the events the server has received, and those
                    \* given up for a reason the code states

vars == <<pendingEvents, isEnabled, main, mainCopy, loader, cached, serialIo, file,
          work, worker, toUpload, workerCopy, hasMore, raced, next, expired,
          crashes, settled>>

mainVars == <<main, mainCopy>>
workerVars == <<worker, toUpload, workerCopy, hasMore, raced>>
cacheVars == <<loader, cached, serialIo, file>>

Event == 1..MaxEvents

\* A task of the file's thread.
Load == [op |-> "load", events |-> <<>>]
Save(events) == [op |-> "save", events |-> events]

\* mainScope.launch(serialIo) by save().
Launch(events) ==
    /\ Len(serialIo) < MaxQueue
    /\ serialIo' = Append(serialIo, Save(events))

TypeOK ==
    /\ pendingEvents \in Seq(Event) /\ isEnabled \in BOOLEAN
    /\ main \in {"idle", "add", "trim", "save", "launch"} /\ mainCopy \in Seq(Event)
    /\ loader \in {"loading", "loaded", "done"} /\ cached \in Seq(Event)
    /\ serialIo \in Seq([op : {"load", "save"}, events : Seq(Event)])
    /\ file \in Seq(Event)
    /\ work \in {"none", "enqueued", "running"}
    /\ worker \in {"idle", "await", "discarding", "thrown", "copying", "sending",
                   "removing", "save", "launch", "more", "cleared", "finish", "failed"}
    /\ work = "running" <=> worker # "idle"
    /\ toUpload \in Seq(Event) /\ workerCopy \in Seq(Event)
    /\ hasMore \in BOOLEAN /\ raced \subseteq {"modified", "now", "lost"}
    /\ next \in 1..MaxEvents + 1 /\ expired \in 0..MaxEvents
    /\ crashes \in 0..MaxCrashes
    /\ settled \subseteq Event

\* The application is started for the first time: the coroutine that loads the
\* cache is the first to use the file's thread.
Init ==
    /\ pendingEvents = <<>> /\ isEnabled = TRUE
    /\ main = "idle" /\ mainCopy = <<>>
    /\ loader = "loading" /\ cached = <<>> /\ serialIo = <<Load>> /\ file = <<>>
    /\ work = "none" /\ worker = "idle" /\ toUpload = <<>> /\ workerCopy = <<>>
    /\ hasMore = FALSE /\ raced = {}
    /\ next = 1 /\ expired = 0 /\ crashes = 0
    /\ settled = {}

\* The events of list at the given places, in their order (SelectSeq by place:
\* place i is the k-th if k - 1 of them are before it).
Selected(list, places) ==
    [k \in 1..Cardinality(places) |->
        list[CHOOSE i \in places : Cardinality({j \in places : j < i}) = k - 1]]

\* The events of list that have not reached the discard age.
Fresh(list) == Selected(list, {i \in DOMAIN list : list[i] > expired})

Without(list, events) == Selected(list, {i \in DOMAIN list : list[i] \notin ToSet(events)})

----------------------------------------------------------------------------
\* event() and addEvent() on the main thread.

\* Mutant: the policy REPLACE.
ReplaceTelemetryUpload == work' = "enqueued"

\* enqueueUniqueWork with the policy KEEP: work that waits or runs is kept.
ScheduleTelemetryUpload == work' = IF work = "none" THEN "enqueued" ELSE work

ReportEvent ==
    /\ main = "idle" /\ isEnabled /\ next <= MaxEvents
    /\ ScheduleTelemetryUpload
    /\ main' = "add"
    /\ next' = next + 1
    /\ UNCHANGED <<pendingEvents, isEnabled, mainCopy, cacheVars, workerVars,
                   expired, crashes, settled>>

\* What it means for the worker that the main thread changes the list now: the
\* worker may be inside removeIf or removeAll, with something to remove or not.
Overlap ==
    (IF worker = "discarding" THEN {"modified"} ELSE {})
        \cup (IF \/ worker = "discarding" /\ Fresh(pendingEvents) # pendingEvents
                 \/ worker = "removing" /\ Without(pendingEvents, toUpload) # pendingEvents
              THEN {"now"} ELSE {})

AddEvent ==
    /\ main = "add"
    /\ pendingEvents' = Append(pendingEvents, next - 1)
    /\ raced' = raced \cup Overlap
    /\ main' = "trim"
    /\ UNCHANGED <<isEnabled, mainCopy, cacheVars, work, worker, toUpload, workerCopy,
                   hasMore, next, expired, crashes, settled>>

\* The first event is removed when the list is too long.
TrimEvents ==
    /\ main = "trim"
    /\ IF Len(pendingEvents) > EventCountLimit
       THEN /\ pendingEvents' = Tail(pendingEvents)
            /\ settled' = settled \cup {Head(pendingEvents)}
            /\ raced' = raced \cup Overlap
       ELSE UNCHANGED <<pendingEvents, settled, raced>>
    /\ main' = "save"
    /\ UNCHANGED <<isEnabled, mainCopy, cacheVars, work, worker, toUpload, workerCopy,
                   hasMore, next, expired, crashes>>

\* TelemetryCache.save copies the list ...
CopyEvents ==
    /\ main = "save"
    /\ mainCopy' = pendingEvents
    /\ main' = "launch"
    /\ UNCHANGED <<pendingEvents, isEnabled, cacheVars, work, workerVars, next,
                   expired, crashes, settled>>

\* ... and launches a coroutine that writes the copy.
LaunchSave ==
    /\ main = "launch"
    /\ Launch(mainCopy)
    /\ main' = "idle" /\ mainCopy' = <<>>
    /\ UNCHANGED <<pendingEvents, isEnabled, loader, cached, file, work, workerVars,
                   next, expired, crashes, settled>>

----------------------------------------------------------------------------
\* The file's thread, and loadCache on the main thread.

ReadFile ==
    /\ serialIo # <<>> /\ Head(serialIo).op = "load"
    /\ cached' = Fresh(file)
    /\ settled' = settled \cup (ToSet(file) \ ToSet(cached'))
    /\ loader' = "loaded"
    /\ serialIo' = Tail(serialIo)
    /\ UNCHANGED <<pendingEvents, isEnabled, mainVars, file, work, workerVars, next,
                   expired, crashes>>

WriteFile ==
    /\ serialIo # <<>> /\ Head(serialIo).op = "save"
    /\ file' = Head(serialIo).events
    /\ serialIo' = Tail(serialIo)
    /\ UNCHANGED <<pendingEvents, isEnabled, mainVars, loader, cached, work,
                   workerVars, next, expired, crashes, settled>>

\* Mutants: all events of the file are taken; they are put at the end.
MergedUnbounded(events) == events \o pendingEvents
MergedLast(events) == pendingEvents \o events

\* The cached events go before the ones reported since, the oldest of them
\* being left out if they do not fit.
Merged(events) ==
    LET excess == Len(events) + Len(pendingEvents) - EventCountLimit
    IN  SubSeq(events, 1 + (IF excess > 0 THEN excess ELSE 0), Len(events))
            \o pendingEvents

\* loadCache is resumed (the main thread is not inside event()).
CacheLoaded ==
    /\ loader = "loaded" /\ main = "idle"
    /\ pendingEvents' = Merged(cached)
    /\ settled' = settled \cup (ToSet(cached) \ ToSet(pendingEvents'))
    /\ loader' = "done" /\ cached' = <<>>
    /\ UNCHANGED <<isEnabled, mainVars, serialIo, file, work, workerVars, next,
                   expired, crashes>>

----------------------------------------------------------------------------
\* The worker, and uploadPendingEvents on its thread.

\* WorkManager starts the work when its delay is over and there is a network.
StartWork ==
    /\ work = "enqueued" /\ worker = "idle"
    /\ work' = "running" /\ worker' = "await"
    /\ UNCHANGED <<pendingEvents, isEnabled, mainVars, cacheVars, toUpload,
                   workerCopy, hasMore, raced, next, expired, crashes, settled>>

\* The network is gone again: Result.retry().
NoNetwork ==
    /\ worker = "await"
    /\ work' = "enqueued" /\ worker' = "idle"
    /\ UNCHANGED <<pendingEvents, isEnabled, mainVars, cacheVars, toUpload,
                   workerCopy, hasMore, raced, next, expired, crashes, settled>>

\* Telemetry was switched off: all data is cleared.
ClearData ==
    /\ worker = "await" /\ loader = "done" /\ ~isEnabled
    /\ pendingEvents' = <<>>
    /\ settled' = settled \cup ToSet(pendingEvents)
    /\ worker' = "cleared"
    /\ UNCHANGED <<isEnabled, mainVars, cacheVars, work, toUpload, workerCopy,
                   hasMore, raced, next, expired, crashes>>

SaveCleared ==
    /\ worker = "cleared"
    /\ Launch(<<>>)
    /\ worker' = "finish" /\ hasMore' = FALSE
    /\ UNCHANGED <<pendingEvents, isEnabled, mainVars, loader, cached, file, work,
                   toUpload, workerCopy, raced, next, expired, crashes, settled>>

\* removeIf begins to discard the events that are too old.
DiscardEvents ==
    /\ worker = "await" /\ loader = "done" /\ isEnabled
    /\ worker' = "discarding"
    /\ UNCHANGED <<pendingEvents, isEnabled, mainVars, cacheVars, work, toUpload,
                   workerCopy, hasMore, raced, next, expired, crashes, settled>>

\* What a removal leaves of the list when kept is to be left.  Another thread
\* that adds to the list meanwhile may lose its event, or make the list keep
\* removed events in the place of later ones.
Removal(kept) ==
    IF "now" \in raced
    THEN {kept, SubSeq(kept, 1, Len(kept) - 1), SubSeq(pendingEvents, 1, Len(kept))}
    ELSE {kept}

\* The flags after a removal that was to leave kept.
Damaged(kept) ==
    (raced \ {"modified", "now"})
        \cup (IF "now" \in raced /\ pendingEvents' # kept THEN {"lost"} ELSE {})

\* removeIf ends, having seen no modification by the other thread.
EventsDiscarded ==
    /\ worker = "discarding"
    /\ pendingEvents' \in Removal(Fresh(pendingEvents))
    /\ raced' = Damaged(Fresh(pendingEvents))
    /\ settled' = settled \cup (ToSet(pendingEvents) \ ToSet(Fresh(pendingEvents)))
    /\ worker' = "copying"
    /\ UNCHANGED <<isEnabled, mainVars, cacheVars, work, toUpload, workerCopy, hasMore,
                   next, expired, crashes>>

\* removeIf finds that the list was modified: ConcurrentModificationException.
DiscardThrows ==
    /\ worker = "discarding" /\ "modified" \in raced
    /\ raced' = raced \ {"modified", "now"}
    /\ worker' = "thrown"
    /\ UNCHANGED <<pendingEvents, isEnabled, mainVars, cacheVars, work, toUpload,
                   workerCopy, hasMore, next, expired, crashes, settled>>

\* doWork does not catch it: the work has failed, and failed work is not retried.
FailWork ==
    /\ worker = "thrown"
    /\ work' = "none" /\ worker' = "idle"
    /\ UNCHANGED <<pendingEvents, isEnabled, mainVars, cacheVars, toUpload, workerCopy,
                   hasMore, raced, next, expired, crashes, settled>>

\* A copy of the list is sent.
SendEvents ==
    /\ worker = "copying"
    /\ toUpload' = pendingEvents
    /\ worker' = "sending"
    /\ UNCHANGED <<pendingEvents, isEnabled, mainVars, cacheVars, work, workerCopy,
                   hasMore, raced, next, expired, crashes, settled>>

\* The API answers; a request whose answer is lost may have been received.
UploadSucceeds ==
    /\ worker = "sending"
    /\ settled' = settled \cup ToSet(toUpload)
    /\ worker' = "removing"
    /\ UNCHANGED <<pendingEvents, isEnabled, mainVars, cacheVars, work, toUpload,
                   workerCopy, hasMore, raced, next, expired, crashes>>

UploadFails ==
    /\ worker = "sending"
    /\ \/ UNCHANGED settled
       \/ settled' = settled \cup ToSet(toUpload)
    /\ worker' = "failed"
    /\ UNCHANGED <<pendingEvents, isEnabled, mainVars, cacheVars, work, toUpload,
                   workerCopy, hasMore, raced, next, expired, crashes>>

Rest == Without(pendingEvents, toUpload)

\* Mutant: the whole list is cleared.
RemainingNone == {<<>>}

\* pendingEvents.removeAll(toUpload), which does not look for modifications.
Remaining == Removal(Rest)

RemoveUploaded ==
    /\ worker = "removing"
    /\ pendingEvents' \in Remaining
    /\ raced' = Damaged(Rest)
    /\ worker' = "save"
    /\ UNCHANGED <<isEnabled, mainVars, cacheVars, work, toUpload, workerCopy,
                   hasMore, next, expired, crashes, settled>>

CopyRemaining ==
    /\ worker = "save"
    /\ workerCopy' = pendingEvents
    /\ worker' = "launch"
    /\ UNCHANGED <<pendingEvents, isEnabled, mainVars, cacheVars, work, toUpload,
                   hasMore, raced, next, expired, crashes, settled>>

SaveRemaining ==
    /\ worker = "launch"
    /\ Launch(workerCopy)
    /\ workerCopy' = <<>>
    /\ worker' = "more"
    /\ UNCHANGED <<pendingEvents, isEnabled, mainVars, loader, cached, file, work,
                   toUpload, hasMore, raced, next, expired, crashes, settled>>

\* The result of the upload is computed.
ComputeHasMore ==
    /\ worker = "more"
    /\ hasMore' = (pendingEvents # <<>>)
    /\ worker' = "finish"
    /\ UNCHANGED <<pendingEvents, isEnabled, mainVars, cacheVars, work, toUpload,
                   workerCopy, raced, next, expired, crashes, settled>>

\* doWork ends: more events are the next work (REPLACE), else it has succeeded.
FinishWork ==
    /\ worker = "finish"
    /\ work' = IF hasMore THEN "enqueued" ELSE "none"
    /\ worker' = "idle" /\ toUpload' = <<>> /\ hasMore' = FALSE
    /\ UNCHANGED <<pendingEvents, isEnabled, mainVars, cacheVars, workerCopy, raced,
                   next, expired, crashes, settled>>

\* Mutant: a failed upload ends the work.
GiveUpWork ==
    /\ worker = "failed"
    /\ work' = "none"
    /\ worker' = "idle" /\ toUpload' = <<>>
    /\ UNCHANGED <<pendingEvents, isEnabled, mainVars, cacheVars, workerCopy, hasMore,
                   raced, next, expired, crashes, settled>>

\* A failure is retried, after the time the server asks for (REPLACE) or with
\* WorkManager's backoff.
RetryWork ==
    /\ worker = "failed"
    /\ work' = "enqueued"
    /\ worker' = "idle" /\ toUpload' = <<>>
    /\ UNCHANGED <<pendingEvents, isEnabled, mainVars, cacheVars, workerCopy, hasMore,
                   raced, next, expired, crashes, settled>>

----------------------------------------------------------------------------
\* What happens around telemetry.

Toggle ==
    /\ Switchable
    /\ isEnabled' = ~isEnabled
    /\ UNCHANGED <<pendingEvents, mainVars, cacheVars, work, workerVars, next,
                   expired, crashes, settled>>

\* One more event reaches the discard age.
GrowOld ==
    /\ expired + 1 < next /\ expired < MaxExpired
    /\ expired' = expired + 1
    /\ UNCHANGED <<pendingEvents, isEnabled, mainVars, cacheVars, work, workerVars,
                   next, crashes, settled>>

\* The process dies and is started again.  A write that was under way leaves
\* some of its events.  Work that was running is run again.
Crash ==
    /\ crashes < MaxCrashes
    /\ crashes' = crashes + 1
    /\ \/ UNCHANGED file
       \/ /\ serialIo # <<>> /\ Head(serialIo).op = "save"
          /\ \E n \in 0..Len(Head(serialIo).events) :
                file' = SubSeq(Head(serialIo).events, 1, n)
    /\ settled' = settled \cup ((1..next - 1) \ ToSet(file'))
    /\ pendingEvents' = <<>>
    /\ main' = "idle" /\ mainCopy' = <<>>
    /\ loader' = "loading" /\ cached' = <<>> /\ serialIo' = <<Load>>
    /\ work' = IF work = "running" THEN "enqueued" ELSE work
    /\ worker' = "idle" /\ toUpload' = <<>> /\ workerCopy' = <<>>
    /\ hasMore' = FALSE /\ raced' = {}
    /\ UNCHANGED <<isEnabled, next, expired>>

MainStep == ReportEvent \/ AddEvent \/ TrimEvents \/ CopyEvents \/ LaunchSave \/ CacheLoaded

FileStep == ReadFile \/ WriteFile

WorkerStep ==
    \/ StartWork \/ NoNetwork \/ ClearData \/ SaveCleared \/ DiscardEvents
    \/ EventsDiscarded \/ DiscardThrows \/ FailWork \/ SendEvents
    \/ UploadSucceeds \/ UploadFails \/ RemoveUploaded \/ CopyRemaining
    \/ SaveRemaining \/ ComputeHasMore \/ FinishWork \/ RetryWork

Next == MainStep \/ FileStep \/ WorkerStep \/ Toggle \/ GrowOld \/ Crash

\* What the worker does next without waiting for the network, the server or loadCache.
Busy ==
    \/ EventsDiscarded \/ DiscardThrows \/ FailWork \/ SendEvents
    \/ UploadSucceeds \/ UploadFails \/ SaveCleared \/ RemoveUploaded \/ CopyRemaining
    \/ SaveRemaining \/ ComputeHasMore \/ FinishWork \/ RetryWork

\* Started handlers and queued writes go on; WorkManager runs its work; the
\* network is there and the server reachable often enough.
Fairness ==
    /\ WF_vars(AddEvent \/ TrimEvents \/ CopyEvents \/ LaunchSave \/ CacheLoaded)
    /\ WF_vars(FileStep)
    /\ WF_vars(StartWork \/ Busy)
    /\ SF_vars(DiscardEvents \/ ClearData) /\ SF_vars(UploadSucceeds)

Safety == Init /\ [][Next]_vars

Spec == Safety /\ Fairness

----------------------------------------------------------------------------
\* The list never holds more events than the limit, whether they were reported
\* before or after the cache was loaded, but for the one that addEvent has added
\* before it removes the first.
WithinLimit ==
    Len(pendingEvents) <= EventCountLimit + (IF main = "trim" THEN 1 ELSE 0)

\* Events are kept in the order in which they were reported and no event is in
\* the list twice, also when they are reported while the cache is being loaded
\* ("then they are at the end").
InOrder ==
    \A i, j \in DOMAIN pendingEvents : i < j => pendingEvents[i] < pendingEvents[j]

\* Where an event is that telemetry still has to upload: in the list, about to
\* be added to it, or on its way from the file to the list.
Held ==
    ToSet(pendingEvents) \cup ToSet(cached)
        \cup (IF main = "add" THEN {next - 1} ELSE {})
        \cup (IF loader = "loading" THEN ToSet(file) ELSE {})

\* "when events are added during upload they are not lost": while the process
\* lives every event is held, or has been received by the server, or was given
\* up because of the limit, its age or the setting, unless the two threads have
\* damaged the list.
NothingLost == "lost" \notin raced => \A e \in 1..next - 1 : e \in Held \cup settled

\* An event that waits while an upload is scheduled is received by the server
\* or given up in the end, whatever fails on the way, unless the list is damaged
\* or removeIf throws because event() has added to the list, which ends the work.
EventsSettle ==
    \A e \in Event :
        e \in ToSet(pendingEvents) /\ work = "enqueued"
            ~> e \in settled \/ "lost" \in raced \/ worker = "thrown"
=============================================================================
