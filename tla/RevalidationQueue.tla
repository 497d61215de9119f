------------------------- MODULE RevalidationQueue -------------------------
(***************************************************************************)
(* The ISR revalidation queue: the Durable Object DOQueueHandler of        *)
(* packages/cloudflare/src/api/durable-objects/queue.ts.                   *)
(*                                                                         *)
(* Callers hand it a message per stale page; it revalidates the page with  *)
(* a HEAD request to the worker, at most MaxRevalidations at a time, and   *)
(* retries a failed page from an alarm with exponential backoff.  The      *)
(* object is single threaded: a handler runs without interruption up to    *)
(* its next await.  An await on the object's own storage keeps the input   *)
(* gate closed (no event is delivered), an await on a fetch does not.  So  *)
(* one action is what runs between two points at which an event can be     *)
(* delivered, and the continuations of settled promises (Resume,           *)
(* AlarmNext) run before any event: the guard Quiet.                       *)
(***************************************************************************)
EXTENDS Integers, FiniteSets

CONSTANTS
    Calls,            \* calls of revalidate(); each one happens at most once
    Ids,              \* MessageDeduplicationIds
    Routes,           \* host + url pairs
    RouteOf,          \* the route a message is about
    LastModified,     \* lastModified of the cache entry the message is about
    Alarm,            \* the execution of the alarm handler
    None,             \* no call, no message
    MaxRevalidations, \* NEXT_CACHE_DO_QUEUE_MAX_REVALIDATION
    RetryInterval,    \* NEXT_CACHE_DO_QUEUE_RETRY_INTERVAL_MS
    FirstRetry,       \* the 2_000 of addToFailedState
    MaxRetries,       \* NEXT_CACHE_DO_QUEUE_MAX_RETRIES
    DisableSQLite,    \* NEXT_CACHE_DO_QUEUE_DISABLE_SQLITE
    TicksPerSecond,   \* a message counts ticks (ms), the sync table seconds
    MaxTime,          \* bound: the last instant
    MaxRestarts       \* bound: restarts of the object

Execs == Calls \cup {Alarm}

ASSUME CallsAssumption == IsFiniteSet(Calls) /\ Alarm \notin Calls /\ None \notin Execs
ASSUME IdsAssumption ==
    /\ IsFiniteSet(Ids)
    /\ None \notin Ids
    /\ RouteOf \in [Ids -> Routes]
    /\ LastModified \in [Ids -> Nat]
ASSUME LimitsAssumption ==
    /\ MaxRevalidations \in Nat \ {0}
    /\ RetryInterval \in Nat \ {0}
    /\ FirstRetry \in Nat \ {0}
    /\ MaxRetries \in Nat \ {0}
    /\ TicksPerSecond \in Nat \ {0}
    /\ DisableSQLite \in BOOLEAN
\* A fact of arithmetic that the provers' encoding of ^ does not know.
ASSUME BackoffAssumption == \A n \in 1 .. MaxRetries : 2 ^ n \in Nat \ {0}
ASSUME BoundsAssumption == MaxTime \in Nat /\ MaxRestarts \in Nat

VARIABLES
    now,       \* Date.now()
    pc,        \* where each execution is
    msg,       \* the message an execution is about
    race,      \* the promises a blocked call awaits in Promise.race
    ongoing,   \* ongoingRevalidations: id -> the call whose promise it holds
    failed,    \* routeInFailedState
    todo,      \* allEventsToRetry, what is left of it
    firedAt,   \* currentDateTime of the running alarm handler, else 0
    alarm,     \* the alarm in the object's storage
    rows,      \* the table failed_state
    sync,      \* the table sync: lastSuccess of a route, in seconds
    successAt, \* history: when the last revalidation of a route succeeded
    restarts   \* bound: restarts so far

memory == <<pc, msg, race, ongoing, failed, todo, firedAt>>
storage == <<alarm, rows, sync>>
vars == <<now, memory, storage, successAt, restarts>>

----------------------------------------------------------------------------
(* State and helpers *)

\* A FailedState; retryCount = 0 stands for a missing entry or row.
FailedState == [retryCount : 0 .. MaxRetries, nextAlarmMs : Nat]
NotFailed == [retryCount |-> 0, nextAlarmMs |-> 0]
NoAlarm == -1
Never == -1

IsFailed(f, m) == f[m].retryCount > 0
FailedIds(f) == {m \in Ids : IsFailed(f, m)}

OngoingIds == {m \in Ids : ongoing[m] # None}
OngoingCalls == {ongoing[m] : m \in OngoingIds}
Full == Cardinality(OngoingIds) >= MaxRevalidations

\* No continuation of a settled promise is waiting to run.
Quiet ==
    /\ \A c \in Calls : pc[c] # "woken"
    /\ pc[Alarm] # "between"

\* unixepoch() of an instant, and Math.round(lastModified / 1000).
Seconds(t) == t \div TicksPerSecond
RoundedSeconds(t) == (2 * t + TicksPerSecond) \div (2 * TicksPerSecond)

\* Mutant: >= for >, which a success in the same second satisfies.
CheckSyncTableSameSecond(m) ==
    /\ ~DisableSQLite
    /\ sync[RouteOf[m]] >= RoundedSeconds(LastModified[m])

\* checkSyncTable: the route was revalidated since the message's lastModified.
CheckSyncTable(m) ==
    /\ ~DisableSQLite
    /\ sync[RouteOf[m]] > RoundedSeconds(LastModified[m])

\* addAlarm with a storage alarm a and failed states f.
EarliestAlarm(f) ==
    CHOOSE t \in {f[m].nextAlarmMs : m \in FailedIds(f)} :
        \A m \in FailedIds(f) : t <= f[m].nextAlarmMs
AddAlarm(f, a) ==
    IF a # NoAlarm \/ FailedIds(f) = {} THEN a
    ELSE IF EarliestAlarm(f) < now THEN now + RetryInterval
    ELSE EarliestAlarm(f)

RetriesLeft(m) == failed[m].retryCount < MaxRetries

\* The record addToFailedState computes.
Rescheduled(m) ==
    IF IsFailed(failed, m)
    THEN [retryCount |-> failed[m].retryCount + 1,
          nextAlarmMs |-> now + 2 ^ (failed[m].retryCount + 1) * RetryInterval]
    ELSE [retryCount |-> 1, nextAlarmMs |-> now + FirstRetry]

Init ==
    /\ now = 0
    /\ pc = [x \in Execs |-> "idle"]
    /\ msg = [x \in Execs |-> None]
    /\ race = [c \in Calls |-> {}]
    /\ ongoing = [m \in Ids |-> None]
    /\ failed = [m \in Ids |-> NotFailed]
    /\ todo = {}
    /\ firedAt = 0
    /\ alarm = NoAlarm
    /\ rows = [m \in Ids |-> NotFailed]
    /\ sync = [r \in Routes |-> Never]
    /\ successAt = [r \in Routes |-> Never]
    /\ restarts = 0

----------------------------------------------------------------------------
(* revalidate(msg) *)

\* The three early returns: already ongoing, already failed, already in sync.
Redundant(m) == ongoing[m] # None \/ IsFailed(failed, m) \/ CheckSyncTable(m)

\* Start executeRevalidation synchronously and store its promise in the map.
StartRevalidation(c, m) ==
    /\ pc' = [pc EXCEPT ![c] = "fetching"]
    /\ msg' = [msg EXCEPT ![c] = m]
    /\ race' = [race EXCEPT ![c] = {}]
    /\ ongoing' = [ongoing EXCEPT ![m] = c]

\* Block on Promise.race over the promises the map holds now.
AwaitRace(c, m) ==
    /\ pc' = [pc EXCEPT ![c] = "waiting"]
    /\ msg' = [msg EXCEPT ![c] = m]
    /\ race' = [race EXCEPT ![c] = OngoingCalls]
    /\ UNCHANGED ongoing

\* A message arrives; the entry it is about exists, so it is not from the future.
Arrives(c, m) ==
    /\ Quiet
    /\ pc[c] = "idle"
    /\ LastModified[m] <= now

Ignore(c, m) ==
    /\ Arrives(c, m)
    /\ Redundant(m)
    /\ pc' = [pc EXCEPT ![c] = "done"]
    /\ UNCHANGED <<now, msg, race, ongoing, failed, todo, firedAt, storage, successAt, restarts>>

Accept(c, m) ==
    /\ Arrives(c, m)
    /\ ~Redundant(m)
    /\ ~Full
    /\ StartRevalidation(c, m)
    /\ UNCHANGED <<now, failed, todo, firedAt, storage, successAt, restarts>>

Block(c, m) ==
    /\ Arrives(c, m)
    /\ ~Redundant(m)
    /\ Full
    /\ AwaitRace(c, m)
    /\ UNCHANGED <<now, failed, todo, firedAt, storage, successAt, restarts>>

\* Mutant: an if in place of the while loop.
ResumeWithoutLoop(c) ==
    /\ pc[c] = "woken"
    /\ StartRevalidation(c, msg[c])
    /\ UNCHANGED <<now, failed, todo, firedAt, storage, successAt, restarts>>

\* Mutant: the iterator over the map is taken before the loop, and is
\* exhausted when the loop comes round: Promise.race([]) never settles.
ResumeExhaustedIterator(c) ==
    /\ pc[c] = "woken"
    /\ IF Full
       THEN /\ pc' = [pc EXCEPT ![c] = "waiting"]
            /\ UNCHANGED <<msg, race, ongoing>>
       ELSE StartRevalidation(c, msg[c])
    /\ UNCHANGED <<now, failed, todo, firedAt, storage, successAt, restarts>>

\* The while loop after a promise of the race settled: only the size is
\* looked at again, none of the three early returns.
Resume(c) ==
    /\ pc[c] = "woken"
    /\ IF Full THEN AwaitRace(c, msg[c]) ELSE StartRevalidation(c, msg[c])
    /\ UNCHANGED <<now, failed, todo, firedAt, storage, successAt, restarts>>

----------------------------------------------------------------------------
(* executeRevalidation(msg), for a call or for the alarm handler *)

\* Mutant: the finally block does not delete the promise.
LeaveOngoingInMap(x) ==
    /\ pc' = [pc EXCEPT ![x] = "closing"]
    /\ UNCHANGED <<now, msg, race, ongoing, todo, firedAt, restarts>>

\* The finally block up to the cancellation of the response's body.
LeaveOngoing(x) ==
    /\ pc' = [pc EXCEPT ![x] = "closing"]
    /\ ongoing' = [ongoing EXCEPT ![msg[x]] = None]
    /\ UNCHANGED <<now, msg, race, todo, firedAt, restarts>>

Answered(x) == Quiet /\ pc[x] = "fetching"

\* 200 with x-nextjs-cache: REVALIDATED.
Succeed(x) ==
    LET r == RouteOf[msg[x]] IN
    /\ Answered(x)
    /\ sync' = IF DisableSQLite THEN sync ELSE [sync EXCEPT ![r] = Seconds(now)]
    /\ failed' = [failed EXCEPT ![msg[x]] = NotFailed]
    /\ successAt' = [successAt EXCEPT ![r] = now]
    /\ LeaveOngoing(x)
    /\ UNCHANGED <<alarm, rows>>

\* Another 200, or 404: not retried.
GiveUp(x) ==
    /\ Answered(x)
    /\ failed' = [failed EXCEPT ![msg[x]] = NotFailed]
    /\ LeaveOngoing(x)
    /\ UNCHANGED <<storage, successAt>>

\* 500, any other status, a network error or the timeout: addToFailedState
\* for the last time.
Exhaust(x) ==
    /\ Answered(x)
    /\ IsFailed(failed, msg[x])
    /\ ~RetriesLeft(msg[x])
    /\ failed' = [failed EXCEPT ![msg[x]] = NotFailed]
    /\ LeaveOngoing(x)
    /\ UNCHANGED <<storage, successAt>>

\* Mutant: the row is written only when the route enters the failed state.
FailFirstRowOnly(x) ==
    LET m == msg[x] IN
    /\ Answered(x)
    /\ RetriesLeft(m)
    /\ failed' = [failed EXCEPT ![m] = Rescheduled(m)]
    /\ rows' = IF DisableSQLite \/ IsFailed(failed, m) THEN rows
               ELSE [rows EXCEPT ![m] = Rescheduled(m)]
    /\ alarm' = AddAlarm(failed', alarm)
    /\ LeaveOngoing(x)
    /\ UNCHANGED <<sync, successAt>>

\* The same answers, when a retry is left.
Fail(x) ==
    LET m == msg[x] IN
    /\ Answered(x)
    /\ RetriesLeft(m)
    /\ failed' = [failed EXCEPT ![m] = Rescheduled(m)]
    /\ rows' = IF DisableSQLite THEN rows ELSE [rows EXCEPT ![m] = Rescheduled(m)]
    /\ alarm' = AddAlarm(failed', alarm)
    /\ LeaveOngoing(x)
    /\ UNCHANGED <<sync, successAt>>

\* The body is cancelled and the promise settles: a call is over, the alarm
\* handler goes on, and the calls racing on this promise wake up.
\* Mutant: only one of the calls wakes up.
WokenOne(x) ==
    LET racing == {c \in Calls : pc[c] = "waiting" /\ x \in race[c]}
    IN IF racing = {} THEN {} ELSE {CHOOSE c \in racing : TRUE}
Woken(x) == {c \in Calls : pc[c] = "waiting" /\ x \in race[c]}
Settle(x) ==
    /\ Quiet
    /\ pc[x] = "closing"
    /\ pc' = [y \in Execs |->
                CASE y = x -> (IF x # Alarm THEN "done" ELSE IF todo = {} THEN "idle" ELSE "between")
                  [] y \in Woken(x) -> "woken"
                  [] OTHER -> pc[y]]
    /\ msg' = [msg EXCEPT ![x] = None]
    /\ race' = [c \in Calls |-> IF c \in Woken(x) THEN {} ELSE race[c]]
    /\ firedAt' = IF pc'[Alarm] = "idle" THEN 0 ELSE firedAt
    /\ UNCHANGED <<now, ongoing, failed, todo, storage, successAt, restarts>>

----------------------------------------------------------------------------
(* alarm() *)

\* Mutant: < for <=, which leaves out what is due right now.
ExpiredBefore == {m \in FailedIds(failed) : failed[m].nextAlarmMs < now}
Expired == {m \in FailedIds(failed) : failed[m].nextAlarmMs <= now}
Upcoming == {m \in FailedIds(failed) : failed[m].nextAlarmMs > now}
\* The upcoming events one of which the sort can put first.
NextToRetry == {m \in Upcoming : \A n \in Upcoming : failed[m].nextAlarmMs <= failed[n].nextAlarmMs}

\* allEventsToRetry: the expired events and one upcoming event, if any.
Retried(batch) ==
    IF Upcoming = {} THEN batch = Expired
    ELSE \E m \in NextToRetry : batch = Expired \cup {m}

\* The runtime clears the alarm and runs the handler; handlers do not overlap.
AlarmFires ==
    /\ Quiet
    /\ pc[Alarm] = "idle"
    /\ alarm # NoAlarm
    /\ alarm <= now
    /\ alarm' = NoAlarm
    /\ \E batch \in SUBSET Ids :
          /\ Retried(batch)
          /\ todo' = batch
          /\ firedAt' = IF batch = {} THEN 0 ELSE now
          /\ pc' = [pc EXCEPT ![Alarm] = IF batch = {} THEN "idle" ELSE "between"]
    /\ UNCHANGED <<now, msg, race, ongoing, failed, rows, sync, successAt, restarts>>

\* One round of the for loop; the order of the batch is left open.
AlarmNext(m) ==
    /\ pc[Alarm] = "between"
    /\ m \in todo
    /\ todo' = todo \ {m}
    /\ pc' = [pc EXCEPT ![Alarm] = "fetching"]
    /\ msg' = [msg EXCEPT ![Alarm] = m]
    /\ UNCHANGED <<now, race, ongoing, failed, firedAt, storage, successAt, restarts>>

----------------------------------------------------------------------------
(* The runtime *)

\* A restart of the object, possibly by a new build: memory is lost, pending
\* calls are rejected, an interrupted alarm handler is scheduled again, and
\* the constructor runs initState() before any event.
Kept(newBuild) == IF newBuild THEN [m \in Ids |-> NotFailed] ELSE rows
PendingAlarm == IF alarm = NoAlarm /\ pc[Alarm] # "idle" THEN now ELSE alarm
Restart(newBuild) ==
    /\ restarts < MaxRestarts
    /\ restarts' = restarts + 1
    /\ pc' = [x \in Execs |-> IF x # Alarm /\ pc[x] # "idle" THEN "done" ELSE "idle"]
    /\ msg' = [x \in Execs |-> None]
    /\ race' = [c \in Calls |-> {}]
    /\ ongoing' = [m \in Ids |-> None]
    /\ todo' = {}
    /\ firedAt' = 0
    /\ IF DisableSQLite
       THEN /\ failed' = [m \in Ids |-> NotFailed]
            /\ alarm' = PendingAlarm
            /\ UNCHANGED <<rows, sync>>
       ELSE /\ rows' = Kept(newBuild)
            /\ sync' = IF newBuild THEN [r \in Routes |-> Never] ELSE sync
            /\ failed' = Kept(newBuild)
            /\ alarm' = AddAlarm(failed', PendingAlarm)
    /\ UNCHANGED <<now, successAt>>

Tick ==
    /\ Quiet
    /\ now < MaxTime
    /\ now' = now + 1
    /\ UNCHANGED <<memory, storage, successAt, restarts>>

Execute(x) == Succeed(x) \/ GiveUp(x) \/ Exhaust(x) \/ Fail(x)

Next ==
    \/ \E c \in Calls, m \in Ids : Ignore(c, m) \/ Accept(c, m) \/ Block(c, m)
    \/ \E c \in Calls : Resume(c)
    \/ \E x \in Execs : Execute(x) \/ Settle(x)
    \/ AlarmFires
    \/ \E m \in Ids : AlarmNext(m)
    \/ \E newBuild \in BOOLEAN : Restart(newBuild)
    \/ Tick

Spec == Init /\ [][Next]_vars

\* A fetch is answered or timed out (AbortSignal.timeout), settled promises
\* run their continuations, and the runtime delivers a due alarm.
Fairness ==
    /\ \A c \in Calls : WF_vars(Resume(c))
    /\ \A x \in Execs : WF_vars(Execute(x)) /\ WF_vars(Settle(x))
    /\ WF_vars(AlarmFires)
    /\ WF_vars(\E m \in Ids : AlarmNext(m))
    /\ WF_vars(Tick)

FairSpec == Spec /\ Fairness

----------------------------------------------------------------------------
(* Properties *)

\* The states the handlers leave.  A retry count never passes maxRetries:
\* addToFailedState gives up on a route that has used its retries.
TypeOK ==
    /\ now \in 0 .. MaxTime
    /\ pc \in [Execs -> {"idle", "waiting", "woken", "fetching", "closing", "between", "done"}]
    /\ msg \in [Execs -> Ids \cup {None}]
    /\ race \in [Calls -> SUBSET Calls]
    /\ ongoing \in [Ids -> Calls \cup {None}]
    /\ failed \in [Ids -> FailedState]
    /\ rows \in [Ids -> FailedState]
    /\ todo \subseteq Ids
    /\ firedAt \in 0 .. MaxTime
    /\ alarm \in Nat \cup {NoAlarm}
    /\ sync \in [Routes -> Nat \cup {Never}]
    /\ successAt \in [Routes -> Nat \cup {Never}]
    /\ restarts \in 0 .. MaxRestarts

\* The map holds only promises of fetches that are really in flight, and no
\* promise twice, whatever overwrote an entry or deleted it meanwhile: an
\* entry left behind would use up a slot and drop its messages for good.
OngoingIsRunning ==
    \A m \in Ids : ongoing[m] # None =>
        /\ pc[ongoing[m]] = "fetching"
        /\ msg[ongoing[m]] = m

\* The map never holds more than maxRevalidations promises, although several
\* blocked calls wake up on one settled promise.
MapBounded == Cardinality(OngoingIds) <= MaxRevalidations

\* A call that awaits Promise.race awaits a promise that is still to settle,
\* so the wake-up it needs has not happened already.
WaiterNotStuck ==
    \A c \in Calls : pc[c] = "waiting" =>
        \E x \in race[c] : pc[x] \in {"fetching", "closing"}

\* With SQLite, the table holds the failed state in memory, retry count and
\* all: a restart at any point restores every route that was to be retried.
RowsCoverFailed ==
    ~DisableSQLite => \A m \in Ids : IsFailed(failed, m) => rows[m] = failed[m]

\* addAlarm never sets an alarm in the past, after a restart as well.
AlarmNotInPast == [][alarm' # alarm /\ alarm' # NoAlarm => alarm' >= now]_vars

\* When the alarm handler returns, every route that was due when it started
\* was retried: it is no longer failed, or it was scheduled again.
HandlerStart == IF pc[Alarm] = "idle" THEN now ELSE firedAt
HandlerReturns ==
    /\ restarts' = restarts
    /\ pc'[Alarm] = "idle"
    /\ pc[Alarm] # "idle" \/ (alarm # NoAlarm /\ alarm' = NoAlarm)
AlarmHandlesDue ==
    [][HandlerReturns =>
        \A m \in Ids : IsFailed(failed', m) => failed'[m].nextAlarmMs > HandlerStart]_vars

\* checkSyncTable drops a message only when its route was revalidated after
\* the cache entry it is about was written, although one side of the
\* comparison is rounded and the other truncated to seconds.
SyncSkipSound ==
    [][\A c \in Calls, m \in Ids :
            Ignore(c, m) /\ ongoing[m] = None /\ ~IsFailed(failed, m)
            => successAt[RouteOf[m]] > LastModified[m]]_vars

\* A call that blocks because the map is full returns in the end.
WaitersServed == \A c \in Calls : pc[c] = "waiting" ~> pc[c] = "done"

\* "Ongoing revalidations are deduped by the deduplication id": no id is
\* being revalidated by two calls.
OngoingDeduped ==
    \A c, d \in Calls : pc[c] = "fetching" /\ pc[d] = "fetching" /\ msg[c] = msg[d] => c = d

\* "The route is already in a failed state, it will be retried later": while
\* a route is failed, an alarm is set or the alarm handler is running.
FailedIsScheduled ==
    FailedIds(failed) # {} => alarm # NoAlarm \/ pc[Alarm] # "idle"

\* "It will not be tried again", "we can remove the route from the failed
\* state": a restart does not fail a route again that had been removed.
RemovedStaysRemoved ==
    [][\A m \in Ids : restarts' # restarts /\ ~IsFailed(failed, m) => ~IsFailed(failed', m)]_vars

=============================================================================
