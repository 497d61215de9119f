---------------------- MODULE RevalidationQueueProofs ----------------------
(***************************************************************************)
(* Proofs about RevalidationQueue, for every value of its constants: the   *)
(* type invariant, the safety invariants and the action properties that    *)
(* the runs check on small instances.                                      *)
(***************************************************************************)
EXTENDS RevalidationQueue, FiniteSetTheorems, TLAPS

(***************************************************************************)
(* The inductive invariant adds three facts to the invariants that the     *)
(* runs check.                                                             *)
(***************************************************************************)

\* A blocked call races on at least one promise and on none that has settled:
\* the first one to settle wakes it up.
RacersPending ==
    \A c \in Calls : pc[c] = "waiting" =>
        /\ race[c] # {}
        /\ \A x \in race[c] : pc[x] \in {"fetching", "closing"}

\* While the alarm handler runs, a route that was due when it started is in
\* what is left of the batch or is being retried.
DueIsPending ==
    /\ pc[Alarm] \in {"idle", "between", "fetching", "closing"}
    /\ pc[Alarm] # "idle" =>
        /\ firedAt <= now
        /\ \A m \in Ids : IsFailed(failed, m) =>
                \/ failed[m].nextAlarmMs > firedAt
                \/ m \in todo
                \/ pc[Alarm] = "fetching" /\ msg[Alarm] = m

\* The sync table holds the second of the route's last success, or nothing.
SyncIsLastSuccess ==
    \A r \in Routes : sync[r] # Never =>
        /\ ~DisableSQLite
        /\ successAt[r] \in Nat
        /\ sync[r] = Seconds(successAt[r])

Inv ==
    /\ TypeOK
    /\ OngoingIsRunning
    /\ MapBounded
    /\ RacersPending
    /\ RowsCoverFailed
    /\ DueIsPending
    /\ SyncIsLastSuccess

----------------------------------------------------------------------------
(* Lemmas about the helpers *)

\* A non-empty set of naturals has a least element (EarliestAlarm).
LEMMA NatMinimum ==
    ASSUME NEW T, T \subseteq Nat, T # {}
    PROVE  \E x \in T : \A y \in T : x <= y
<1>1. PICK n \in T : TRUE
  OBVIOUS
<1> DEFINE Below == {0 .. x : x \in {y \in T : y <= n}}
<1>2. IsFiniteSet(0 .. n)
  BY FS_Interval
<1>3. Below \subseteq SUBSET (0 .. n) /\ Below # {}
  OBVIOUS
<1>4. PICK a \in Below : \A b \in Below : ~ (<<b, a>> \in StrictSubsetOrdering(0 .. n))
  <2> HIDE DEF Below
  <2>1. IsWellFoundedOn(StrictSubsetOrdering(0 .. n), SUBSET (0 .. n))
    BY <1>2, FS_StrictSubsetOrderingWellFounded, FS_FiniteSubsetsOfFinite, Zenon
  <2>2. QED
    BY <2>1, <1>3, WFMin, Zenon
<1>5. PICK x \in T : x <= n /\ a = 0 .. x
  BY <1>4
<1>6. ASSUME NEW y \in T, y < x PROVE FALSE
  <2>1. 0 .. y \in Below
    BY <1>1, <1>5, <1>6
  <2>2. 0 .. y \subseteq 0 .. n /\ 0 .. x \subseteq 0 .. n /\ 0 .. y \subseteq 0 .. x
    BY <1>1, <1>5, <1>6
  <2>3. 0 .. y # 0 .. x
    <3>1. x \in 0 .. x /\ x \notin 0 .. y
      BY <1>6
    <3>2. QED
      BY <3>1
  <2>4. 0 .. y \in SUBSET (0 .. n) /\ 0 .. x \in SUBSET (0 .. n)
    BY <2>2, Zenon
  <2>5. <<0 .. y, 0 .. x>> \in StrictSubsetOrdering(0 .. n)
    BY <2>2, <2>3, <2>4 DEF StrictSubsetOrdering
  <2>6. QED
    BY <2>1, <2>5, <1>4, <1>5
<1>7. QED
  BY <1>6

\* addAlarm leaves the alarm as it is or sets one that is not in the past.
LEMMA AddAlarmNotInPast ==
    ASSUME NEW f \in [Ids -> FailedState], NEW a \in Nat \cup {NoAlarm}, now \in Nat
    PROVE  AddAlarm(f, a) = a \/ (AddAlarm(f, a) \in Nat /\ AddAlarm(f, a) >= now)
<1>1. CASE a # NoAlarm \/ FailedIds(f) = {}
  BY <1>1 DEF AddAlarm
<1>2. CASE a = NoAlarm /\ FailedIds(f) # {}
  <2> DEFINE T == {f[m].nextAlarmMs : m \in FailedIds(f)}
  <2>1. T \subseteq Nat /\ T # {}
    BY <1>2 DEF FailedIds, FailedState
  <2>2. \E x \in T : \A y \in T : x <= y
    BY <2>1, NatMinimum
  <2>3. EarliestAlarm(f) \in T
    BY <2>2 DEF EarliestAlarm
  <2>4. EarliestAlarm(f) \in Nat
    BY <2>1, <2>3
  <2>5. QED
    BY <1>2, <2>4, LimitsAssumption DEF AddAlarm
<1>3. QED
  BY <1>1, <1>2

\* If the second of an instant is after the rounded second of another, the
\* first instant is after the second one (checkSyncTable).
LEMMA LaterSecond ==
    ASSUME NEW s \in Nat, NEW l \in Nat, Seconds(s) > RoundedSeconds(l)
    PROVE  s > l
  BY LimitsAssumption DEF Seconds, RoundedSeconds

\* The record of a failed route that has a retry left is in range and is due
\* in the future.
LEMMA RescheduledLater ==
    ASSUME TypeOK, NEW m \in Ids, RetriesLeft(m)
    PROVE  /\ Rescheduled(m) \in FailedState
           /\ Rescheduled(m).nextAlarmMs > now
<1>1. now \in Nat /\ failed[m].retryCount \in 0 .. MaxRetries /\ MaxRetries \in Nat \ {0}
  BY LimitsAssumption, BoundsAssumption DEF TypeOK, FailedState
<1>2. CASE IsFailed(failed, m)
  <2> DEFINE n == failed[m].retryCount + 1
  <2>1. n \in 1 .. MaxRetries
    BY <1>1, <1>2 DEF RetriesLeft, IsFailed
  <2>2. 2 ^ n \in Nat \ {0}
    BY <2>1, BackoffAssumption
  <2>3. QED
    BY <1>1, <1>2, <2>1, <2>2, LimitsAssumption DEF Rescheduled, FailedState
<1>3. CASE ~IsFailed(failed, m)
  BY <1>1, <1>3, LimitsAssumption DEF Rescheduled, FailedState
<1>4. QED
  BY <1>2, <1>3

----------------------------------------------------------------------------
(* Type correctness *)

USE DEF NoAlarm, Never, Execs

\* The entry that stands for a missing one is a FailedState.
LEMMA NotFailedType == NotFailed \in FailedState
  BY LimitsAssumption DEF NotFailed, FailedState

\* The clock is a natural number.
LEMMA NowType == TypeOK => now \in Nat
  BY BoundsAssumption DEF TypeOK

\* A number of seconds is a natural number.
LEMMA SecondsType == \A t \in Nat : Seconds(t) \in Nat
<1>1. TicksPerSecond \in Nat \ {0}
  BY LimitsAssumption
<1>2. QED
  BY <1>1 DEF Seconds

\* The initial state is well typed.
LEMMA TypeInit == Init => TypeOK
  BY NotFailedType, CallsAssumption, BoundsAssumption DEF Init, TypeOK

\* Every step keeps the state well typed.
LEMMA TypeStep == TypeOK /\ [Next]_vars => TypeOK'
<1> SUFFICES ASSUME TypeOK, [Next]_vars PROVE TypeOK'
  OBVIOUS
<1> USE DEF TypeOK
<1>1. ASSUME NEW c \in Calls, NEW m \in Ids, Ignore(c, m) PROVE TypeOK'
  BY <1>1 DEF Ignore, storage
<1>2. ASSUME NEW c \in Calls, NEW m \in Ids, Accept(c, m) PROVE TypeOK'
  BY <1>2 DEF Accept, StartRevalidation, storage
<1>3. ASSUME NEW c \in Calls, NEW m \in Ids, Block(c, m) PROVE TypeOK'
  BY <1>3 DEF Block, AwaitRace, OngoingCalls, OngoingIds, storage
<1>4. ASSUME NEW c \in Calls, Resume(c) PROVE TypeOK'
  <2>1. CASE AwaitRace(c, msg[c])
    BY <1>4, <2>1 DEF Resume, AwaitRace, OngoingCalls, OngoingIds, storage
  <2>2. CASE StartRevalidation(c, msg[c])
    BY <1>4, <2>2 DEF Resume, StartRevalidation, storage
  <2>3. QED
    BY <1>4, <2>1, <2>2 DEF Resume
<1>5. ASSUME NEW x \in Execs, Succeed(x) PROVE TypeOK'
  <2>1. Seconds(now) \in Nat
    BY NowType, SecondsType
  <2>2. QED
    BY <1>5, <2>1, NowType, NotFailedType DEF Succeed, LeaveOngoing
<1>6. ASSUME NEW x \in Execs, GiveUp(x) PROVE TypeOK'
  BY <1>6, NotFailedType DEF GiveUp, LeaveOngoing, storage
<1>7. ASSUME NEW x \in Execs, Exhaust(x) PROVE TypeOK'
  BY <1>7, NotFailedType DEF Exhaust, LeaveOngoing, storage
<1>8. ASSUME NEW x \in Execs, Fail(x) PROVE TypeOK'
  <2> DEFINE m == msg[x]
  <2>1. failed' \in [Ids -> FailedState]
    <3>1. CASE m \in Ids
      BY <1>8, <3>1, RescheduledLater DEF Fail
    <3>2. CASE m \notin Ids
      BY <1>8, <3>2 DEF Fail
    <3>3. QED
      BY <3>1, <3>2
  <2>2. rows' \in [Ids -> FailedState]
    <3>1. CASE m \in Ids
      BY <1>8, <3>1, RescheduledLater DEF Fail
    <3>2. CASE m \notin Ids
      BY <1>8, <3>2 DEF Fail
    <3>3. QED
      BY <3>1, <3>2
  <2>3. alarm' \in Nat \cup {NoAlarm}
    <3>1. now \in Nat
      BY NowType
    <3>2. alarm' = AddAlarm(failed', alarm)
      BY <1>8 DEF Fail
    <3>3. QED
      BY <2>1, <3>1, <3>2, AddAlarmNotInPast
  <2>4. QED
    BY <1>8, <2>1, <2>2, <2>3 DEF Fail, LeaveOngoing
<1>9. ASSUME NEW x \in Execs, Settle(x) PROVE TypeOK'
  BY <1>9, BoundsAssumption DEF Settle, storage
<1>10. CASE AlarmFires
  BY <1>10, NowType, BoundsAssumption DEF AlarmFires
<1>11. ASSUME NEW m \in Ids, AlarmNext(m) PROVE TypeOK'
  BY <1>11 DEF AlarmNext, storage
<1>12. ASSUME NEW newBuild \in BOOLEAN, Restart(newBuild) PROVE TypeOK'
  <2>1. failed' \in [Ids -> FailedState]
    BY <1>12, NotFailedType DEF Restart, Kept
  <2>2. PendingAlarm \in Nat \cup {NoAlarm}
    BY NowType DEF PendingAlarm
  <2>3. alarm' = PendingAlarm \/ alarm' = AddAlarm(failed', PendingAlarm)
    BY <1>12 DEF Restart
  <2>4. alarm' \in Nat \cup {NoAlarm}
    <3>1. now \in Nat
      BY NowType
    <3>2. QED
      BY <2>1, <2>2, <2>3, <3>1, AddAlarmNotInPast
  <2>5. QED
    BY <1>12, <2>1, <2>4, NotFailedType, BoundsAssumption DEF Restart, Kept
<1>13. CASE Tick
  BY <1>13, BoundsAssumption DEF Tick, memory, storage
<1>14. CASE UNCHANGED vars
  BY <1>14 DEF vars, memory, storage
<1>15. QED
  BY <1>1, <1>2, <1>3, <1>4, <1>5, <1>6, <1>7, <1>8, <1>9, <1>10, <1>11, <1>12, <1>13, <1>14
     DEF Next, Execute

\* Every reachable state is of the declared type: in particular no retry
\* count passes maxRetries.
THEOREM Typing == Spec => []TypeOK
  BY TypeInit, TypeStep, PTL DEF Spec

----------------------------------------------------------------------------
(* The map of ongoing revalidations *)

\* Every step keeps the map to fetches in flight.
LEMMA OngoingStep == TypeOK /\ OngoingIsRunning /\ [Next]_vars => OngoingIsRunning'
<1> SUFFICES ASSUME TypeOK, OngoingIsRunning, [Next]_vars PROVE OngoingIsRunning'
  OBVIOUS
<1> USE CallsAssumption, IdsAssumption DEF TypeOK, OngoingIsRunning
<1>1. ASSUME NEW c \in Calls, NEW m \in Ids, Ignore(c, m) PROVE OngoingIsRunning'
  BY <1>1 DEF Ignore, Arrives
<1>2. ASSUME NEW c \in Calls, NEW m \in Ids, Accept(c, m) PROVE OngoingIsRunning'
  BY <1>2 DEF Accept, Arrives, StartRevalidation
<1>3. ASSUME NEW c \in Calls, NEW m \in Ids, Block(c, m) PROVE OngoingIsRunning'
  BY <1>3 DEF Block, Arrives, AwaitRace
<1>4. ASSUME NEW c \in Calls, Resume(c) PROVE OngoingIsRunning'
  BY <1>4 DEF Resume, StartRevalidation, AwaitRace
<1>5. ASSUME NEW x \in Execs, Execute(x) PROVE OngoingIsRunning'
  <2>1. LeaveOngoing(x)
    BY <1>5 DEF Execute, Succeed, GiveUp, Exhaust, Fail
  <2>2. QED
    BY <2>1 DEF LeaveOngoing
<1>6. ASSUME NEW x \in Execs, Settle(x) PROVE OngoingIsRunning'
  BY <1>6 DEF Settle, Woken
<1>7. CASE AlarmFires
  BY <1>7 DEF AlarmFires
<1>8. ASSUME NEW m \in Ids, AlarmNext(m) PROVE OngoingIsRunning'
  BY <1>8 DEF AlarmNext
<1>9. ASSUME NEW newBuild \in BOOLEAN, Restart(newBuild) PROVE OngoingIsRunning'
  BY <1>9 DEF Restart
<1>10. CASE Tick
  BY <1>10 DEF Tick, memory
<1>11. CASE UNCHANGED vars
  BY <1>11 DEF vars, memory
<1>12. QED
  BY <1>1, <1>2, <1>3, <1>4, <1>5, <1>6, <1>7, <1>8, <1>9, <1>10, <1>11 DEF Next

\* Storing one promise while the map is not full keeps it within the limit.
LEMMA RoomForOne ==
    ASSUME TypeOK, ~Full, NEW m, OngoingIds' \subseteq OngoingIds \cup {m}
    PROVE  MapBounded'
<1>1. IsFiniteSet(OngoingIds) /\ Cardinality(OngoingIds) \in Nat
  BY IdsAssumption, FS_Subset, FS_CardinalityType DEF OngoingIds
<1>2. /\ IsFiniteSet(OngoingIds \cup {m})
      /\ Cardinality(OngoingIds \cup {m}) <= Cardinality(OngoingIds) + 1
      /\ Cardinality(OngoingIds \cup {m}) \in Nat
  BY <1>1, FS_AddElement, FS_CardinalityType
<1>3. Cardinality(OngoingIds') <= Cardinality(OngoingIds \cup {m}) /\ Cardinality(OngoingIds') \in Nat
  BY <1>2, FS_Subset, FS_CardinalityType
<1>4. QED
  BY <1>1, <1>2, <1>3, LimitsAssumption DEF Full, MapBounded

\* A map that loses entries stays within the limit.
LEMMA SmallerMap ==
    ASSUME TypeOK, MapBounded, OngoingIds' \subseteq OngoingIds
    PROVE  MapBounded'
<1>1. IsFiniteSet(OngoingIds) /\ Cardinality(OngoingIds) \in Nat
  BY IdsAssumption, FS_Subset, FS_CardinalityType DEF OngoingIds
<1>2. Cardinality(OngoingIds') <= Cardinality(OngoingIds) /\ Cardinality(OngoingIds') \in Nat
  BY <1>1, FS_Subset, FS_CardinalityType
<1>3. QED
  BY <1>1, <1>2, LimitsAssumption DEF MapBounded

\* Every step keeps the map within the limit.
LEMMA MapStep == TypeOK /\ MapBounded /\ [Next]_vars => MapBounded'
<1> SUFFICES ASSUME TypeOK, MapBounded, [Next]_vars PROVE MapBounded'
  OBVIOUS
<1>1. ASSUME NEW c \in Calls, NEW m, StartRevalidation(c, m), ~Full PROVE MapBounded'
  <2>1. OngoingIds' \subseteq OngoingIds \cup {m}
    BY <1>1 DEF StartRevalidation, OngoingIds, TypeOK
  <2>2. QED
    BY <1>1, <2>1, RoomForOne
<1>2. CASE UNCHANGED ongoing
  BY <1>2, SmallerMap DEF OngoingIds
<1>3. ASSUME NEW x \in Execs, Execute(x) PROVE MapBounded'
  <2>1. LeaveOngoing(x)
    BY <1>3 DEF Execute, Succeed, GiveUp, Exhaust, Fail
  <2>2. OngoingIds' \subseteq OngoingIds
    BY <2>1 DEF LeaveOngoing, OngoingIds, TypeOK
  <2>3. QED
    BY <2>2, SmallerMap
<1>4. ASSUME NEW newBuild \in BOOLEAN, Restart(newBuild) PROVE MapBounded'
  <2>1. OngoingIds' \subseteq OngoingIds
    BY <1>4 DEF Restart, OngoingIds
  <2>2. QED
    BY <2>1, SmallerMap
<1>5. ASSUME NEW c \in Calls, NEW m \in Ids, Accept(c, m) PROVE MapBounded'
  BY <1>1, <1>5 DEF Accept
<1>6. ASSUME NEW c \in Calls, Resume(c) PROVE MapBounded'
  BY <1>1, <1>2, <1>6 DEF Resume, AwaitRace
<1>7. QED
  BY <1>2, <1>3, <1>4, <1>5, <1>6
     DEF Next, vars, memory, Ignore, Block, AwaitRace, Settle, AlarmFires, AlarmNext, Tick

----------------------------------------------------------------------------
(* The blocked calls *)

\* A full map holds a promise.
LEMMA FullIsNotEmpty == Full => OngoingCalls # {}
<1>1. OngoingIds = {} => Cardinality(OngoingIds) = 0
  BY FS_EmptySet
<1>2. QED
  BY <1>1, LimitsAssumption DEF Full, OngoingCalls

\* Every step keeps a pending promise in the race of every blocked call.
LEMMA RaceStep ==
    TypeOK /\ OngoingIsRunning /\ RacersPending /\ [Next]_vars => RacersPending'
<1> SUFFICES ASSUME TypeOK, OngoingIsRunning, RacersPending, [Next]_vars PROVE RacersPending'
  OBVIOUS
<1> USE CallsAssumption DEF TypeOK, RacersPending
<1>1. ASSUME NEW c \in Calls, NEW m \in Ids, Ignore(c, m) PROVE RacersPending'
  BY <1>1 DEF Ignore, Arrives
<1>2. ASSUME NEW c \in Calls, NEW m, StartRevalidation(c, m), pc[c] \in {"idle", "woken"}
      PROVE  RacersPending'
  BY <1>2 DEF StartRevalidation
<1>3. ASSUME NEW c \in Calls, NEW m, AwaitRace(c, m), Full, pc[c] \in {"idle", "woken"}
      PROVE  RacersPending'
  <2>1. OngoingCalls # {}
    BY <1>3, FullIsNotEmpty
  <2>2. \A x \in OngoingCalls : x \in Calls /\ pc[x] = "fetching"
    BY DEF OngoingCalls, OngoingIds, OngoingIsRunning
  <2>3. QED
    BY <1>3, <2>1, <2>2 DEF AwaitRace
<1>4. ASSUME NEW x \in Execs, Execute(x) PROVE RacersPending'
  <2>1. LeaveOngoing(x) /\ pc[x] = "fetching"
    BY <1>4 DEF Execute, Succeed, GiveUp, Exhaust, Fail, Answered
  <2>2. QED
    BY <2>1 DEF LeaveOngoing
<1>5. ASSUME NEW x \in Execs, Settle(x) PROVE RacersPending'
  BY <1>5 DEF Settle, Woken
<1>6. CASE AlarmFires
  BY <1>6 DEF AlarmFires
<1>7. ASSUME NEW m \in Ids, AlarmNext(m) PROVE RacersPending'
  BY <1>7 DEF AlarmNext
<1>8. ASSUME NEW newBuild \in BOOLEAN, Restart(newBuild) PROVE RacersPending'
  BY <1>8 DEF Restart
<1>9. CASE Tick
  BY <1>9 DEF Tick, memory
<1>10. CASE UNCHANGED vars
  BY <1>10 DEF vars, memory
<1>11. ASSUME NEW c \in Calls, NEW m \in Ids, Accept(c, m) \/ Block(c, m) PROVE RacersPending'
  BY <1>2, <1>3, <1>11 DEF Accept, Block, Arrives
<1>12. ASSUME NEW c \in Calls, Resume(c) PROVE RacersPending'
  BY <1>2, <1>3, <1>12 DEF Resume
<1>13. QED
  BY <1>1, <1>4, <1>5, <1>6, <1>7, <1>8, <1>9, <1>10, <1>11, <1>12 DEF Next

----------------------------------------------------------------------------
(* The failed state, the alarm and the sync table *)

\* Every step keeps the table in line with the failed state in memory.
LEMMA RowsStep == TypeOK /\ RowsCoverFailed /\ [Next]_vars => RowsCoverFailed'
<1> SUFFICES ASSUME TypeOK, RowsCoverFailed, ~DisableSQLite, [Next]_vars,
                    NEW m \in Ids, IsFailed(failed', m)
             PROVE  rows'[m] = failed'[m]
  BY DEF RowsCoverFailed
<1> USE DEF TypeOK, IsFailed
<1>1. CASE UNCHANGED <<failed, rows>>
  BY <1>1 DEF RowsCoverFailed
<1>2. ASSUME NEW x \in Execs, Succeed(x) \/ GiveUp(x) \/ Exhaust(x) PROVE rows'[m] = failed'[m]
  BY <1>2 DEF Succeed, GiveUp, Exhaust, storage, RowsCoverFailed, NotFailed
<1>3. ASSUME NEW x \in Execs, Fail(x) PROVE rows'[m] = failed'[m]
  BY <1>3 DEF Fail, RowsCoverFailed
<1>4. ASSUME NEW newBuild \in BOOLEAN, Restart(newBuild) PROVE rows'[m] = failed'[m]
  BY <1>4 DEF Restart
<1>5. QED
  BY <1>1, <1>2, <1>3, <1>4
     DEF Next, Execute, Ignore, Accept, Block, Resume, Settle, AlarmFires, AlarmNext, Tick,
         vars, memory, storage

\* Every step keeps what was due at the start of the alarm handler in its batch,
\* in its fetch, or scheduled again.
LEMMA DueStep == TypeOK /\ DueIsPending /\ [Next]_vars => DueIsPending'
<1> SUFFICES ASSUME TypeOK, DueIsPending, [Next]_vars PROVE DueIsPending'
  OBVIOUS
<1> USE CallsAssumption DEF TypeOK, DueIsPending, IsFailed
<1>1. ASSUME NEW c \in Calls, NEW m \in Ids, Ignore(c, m) \/ Accept(c, m) \/ Block(c, m)
      PROVE  DueIsPending'
  BY <1>1 DEF Ignore, Accept, Block, StartRevalidation, AwaitRace
<1>2. ASSUME NEW c \in Calls, Resume(c) PROVE DueIsPending'
  BY <1>2 DEF Resume, StartRevalidation, AwaitRace
<1>3. ASSUME NEW x \in Execs, Succeed(x) \/ GiveUp(x) \/ Exhaust(x) PROVE DueIsPending'
  BY <1>3 DEF Succeed, GiveUp, Exhaust, Answered, LeaveOngoing, NotFailed
<1>4. ASSUME NEW x \in Execs, Fail(x) PROVE DueIsPending'
  <2>1. CASE msg[x] \in Ids
    <3>1. Rescheduled(msg[x]) \in FailedState /\ Rescheduled(msg[x]).nextAlarmMs > now
      BY <1>4, <2>1, RescheduledLater DEF Fail
    <3>2. pc[Alarm] # "idle" => Rescheduled(msg[x]).nextAlarmMs > firedAt
      BY <3>1, BoundsAssumption DEF FailedState
    <3>3. QED
      BY <1>4, <2>1, <3>2 DEF Fail, Answered, LeaveOngoing
  <2>2. CASE msg[x] \notin Ids
    BY <1>4, <2>2 DEF Fail, Answered, LeaveOngoing
  <2>3. QED
    BY <2>1, <2>2
<1>5. ASSUME NEW x \in Execs, Settle(x) PROVE DueIsPending'
  BY <1>5 DEF Settle, Woken
<1>6. CASE AlarmFires
  BY <1>6, BoundsAssumption DEF AlarmFires, Retried, Expired, FailedIds, FailedState
<1>7. ASSUME NEW m \in Ids, AlarmNext(m) PROVE DueIsPending'
  BY <1>7 DEF AlarmNext
<1>8. ASSUME NEW newBuild \in BOOLEAN, Restart(newBuild) PROVE DueIsPending'
  BY <1>8 DEF Restart
<1>9. CASE Tick
  BY <1>9, BoundsAssumption DEF Tick, memory
<1>10. CASE UNCHANGED vars
  BY <1>10 DEF vars, memory
<1>11. QED
  BY <1>1, <1>2, <1>3, <1>4, <1>5, <1>6, <1>7, <1>8, <1>9, <1>10 DEF Next, Execute

\* Every step keeps the sync table at the second of the last success.
LEMMA SyncStep == TypeOK /\ SyncIsLastSuccess /\ [Next]_vars => SyncIsLastSuccess'
<1> SUFFICES ASSUME TypeOK, SyncIsLastSuccess, [Next]_vars PROVE SyncIsLastSuccess'
  OBVIOUS
<1> USE DEF TypeOK, SyncIsLastSuccess
<1>1. CASE UNCHANGED <<sync, successAt>>
  BY <1>1 DEF Seconds
<1>2. ASSUME NEW x \in Execs, Succeed(x) PROVE SyncIsLastSuccess'
  <2>1. Seconds(now) \in Nat /\ now \in Nat
    BY NowType, SecondsType
  <2>2. SUFFICES ASSUME NEW r \in Routes, sync'[r] # Never
                 PROVE  ~DisableSQLite /\ successAt'[r] \in Nat /\ sync'[r] = Seconds(successAt'[r])
    BY DEF Seconds
  <2>3. CASE sync'[r] = sync[r] /\ successAt'[r] = successAt[r]
    BY <2>2, <2>3
  <2>4. CASE ~DisableSQLite /\ sync'[r] = Seconds(now) /\ successAt'[r] = now
    BY <2>1, <2>4
  <2>5. CASE DisableSQLite
    BY <1>2, <2>2, <2>5 DEF Succeed
  <2>6. QED
    BY <1>2, <2>2, <2>3, <2>4, <2>5 DEF Succeed
<1>3. ASSUME NEW newBuild \in BOOLEAN, Restart(newBuild) PROVE SyncIsLastSuccess'
  BY <1>3 DEF Restart, Seconds
<1>4. QED
  BY <1>1, <1>2, <1>3
     DEF Next, Execute, Ignore, Accept, Block, Resume, GiveUp, Exhaust, Fail, Settle,
         AlarmFires, AlarmNext, Tick, vars, memory, storage

----------------------------------------------------------------------------
(* Theorems *)

\* The initial state satisfies the inductive invariant.
LEMMA InvInit == Init => Inv
<1> SUFFICES ASSUME Init PROVE Inv
  OBVIOUS
<1>1. MapBounded
  <2>1. OngoingIds = {}
    BY DEF Init, OngoingIds
  <2>2. QED
    BY <2>1, FS_EmptySet, LimitsAssumption DEF MapBounded
<1>2. QED
  BY <1>1, TypeInit, CallsAssumption
     DEF Init, Inv, OngoingIsRunning, RacersPending, RowsCoverFailed, DueIsPending,
         SyncIsLastSuccess, IsFailed, NotFailed

\* Every step keeps the inductive invariant.
LEMMA InvStep == Inv /\ [Next]_vars => Inv'
  BY TypeStep, OngoingStep, MapStep, RaceStep, RowsStep, DueStep, SyncStep DEF Inv

\* The inductive invariant holds in every reachable state.
THEOREM Invariance == Spec => []Inv
  BY InvInit, InvStep, PTL DEF Spec

\* The map holds only promises of fetches in flight, each under the id it is
\* for: no entry outlives its fetch, whatever overwrote or deleted it.
THEOREM OngoingMapSound == Spec => []OngoingIsRunning
<1>1. Inv => OngoingIsRunning
  BY DEF Inv
<1>2. QED
  BY <1>1, Invariance, PTL

\* The map never holds more than maxRevalidations promises.
THEOREM MapNeverOverfull == Spec => []MapBounded
<1>1. Inv => MapBounded
  BY DEF Inv
<1>2. QED
  BY <1>1, Invariance, PTL

\* A blocked call always awaits a promise that is still to settle.
THEOREM NoLostWakeUp == Spec => []WaiterNotStuck
<1>1. Inv => WaiterNotStuck
  BY DEF Inv, RacersPending, WaiterNotStuck
<1>2. QED
  BY <1>1, Invariance, PTL

\* The failed state in memory is in the table: a crash at any point loses none.
THEOREM FailedStateDurable == Spec => []RowsCoverFailed
<1>1. Inv => RowsCoverFailed
  BY DEF Inv
<1>2. QED
  BY <1>1, Invariance, PTL

\* No step sets an alarm in the past.
THEOREM AlarmsAreAhead == Spec => AlarmNotInPast
<1>1. Inv /\ [Next]_vars => [alarm' # alarm /\ alarm' # NoAlarm => alarm' >= now]_vars
  <2> SUFFICES ASSUME Inv, Inv', [Next]_vars, alarm' # alarm, alarm' # NoAlarm
               PROVE  alarm' >= now
    BY InvStep
  <2>1. now \in Nat /\ alarm \in Nat \cup {NoAlarm} /\ failed' \in [Ids -> FailedState]
    BY NowType DEF Inv, TypeOK
  <2>2. ASSUME NEW x \in Execs, Fail(x) PROVE alarm' >= now
    BY <2>1, <2>2, AddAlarmNotInPast DEF Fail
  <2>3. ASSUME NEW newBuild \in BOOLEAN, Restart(newBuild) PROVE alarm' >= now
    <3>1. PendingAlarm \in {alarm, now}
      BY DEF PendingAlarm
    <3>2. alarm' = PendingAlarm \/ alarm' = AddAlarm(failed', PendingAlarm)
      BY <2>3 DEF Restart
    <3>3. QED
      BY <2>1, <3>1, <3>2, AddAlarmNotInPast
  <2>4. QED
    BY <2>2, <2>3
       DEF Next, Execute, Ignore, Accept, Block, Resume, Succeed, GiveUp, Exhaust, Settle,
           AlarmFires, AlarmNext, Tick, vars, storage
<1>2. QED
  BY <1>1, Invariance, PTL DEF Spec, AlarmNotInPast

\* When the alarm handler returns, every route that was due when it started
\* was retried.
THEOREM DueRoutesRetried == Spec => AlarmHandlesDue
<1>1. Inv /\ [Next]_vars =>
        [HandlerReturns => \A m \in Ids :
            IsFailed(failed', m) => failed'[m].nextAlarmMs > HandlerStart]_vars
  <2> SUFFICES ASSUME Inv, [Next]_vars, HandlerReturns,
                      NEW m \in Ids, IsFailed(failed', m)
               PROVE  failed'[m].nextAlarmMs > HandlerStart
    OBVIOUS
  <2> USE CallsAssumption DEF Inv, TypeOK, DueIsPending, HandlerReturns, HandlerStart, IsFailed
  <2>1. ASSUME NEW x \in Execs, Settle(x) PROVE failed'[m].nextAlarmMs > HandlerStart
    BY <2>1 DEF Settle, Woken, storage
  <2>2. CASE AlarmFires
    BY <2>2, BoundsAssumption DEF AlarmFires, Retried, Expired, FailedIds, FailedState
  <2>3. ASSUME NEW x \in Execs, Fail(x) PROVE FALSE
    <3>1. AddAlarm(failed', alarm) # NoAlarm \/ alarm = NoAlarm
      BY DEF AddAlarm
    <3>2. QED
      BY <2>3, <3>1 DEF Fail, Answered, LeaveOngoing
  <2>4. QED
    BY <2>1, <2>2, <2>3
       DEF Next, Execute, Ignore, Accept, Block, Resume, StartRevalidation, AwaitRace, Succeed,
           GiveUp, Exhaust, LeaveOngoing, AlarmNext, Restart, Tick, vars, memory, storage
<1>2. QED
  BY <1>1, Invariance, PTL DEF Spec, AlarmHandlesDue

\* A failed route is left without an alarm by one thing only: an alarm handler
\* that returns.  What it leaves is upcoming: of the routes that were not due
\* it retries one, and schedules none.
StrandedOnlyByHandler ==
    [][FailedIsScheduled /\ ~FailedIsScheduled' =>
        /\ HandlerReturns
        /\ \A m \in Ids : IsFailed(failed', m) => failed'[m].nextAlarmMs > HandlerStart]_vars

\* addAlarm leaves no failed route without an alarm.
LEMMA AddAlarmSchedules ==
    ASSUME NEW f \in [Ids -> FailedState], NEW a \in Nat \cup {NoAlarm}, now \in Nat,
           FailedIds(f) # {}
    PROVE  AddAlarm(f, a) # NoAlarm
<1>1. AddAlarm(f, a) = a => a # NoAlarm
  <2>1. CASE a = NoAlarm
    <3> DEFINE T == {f[m].nextAlarmMs : m \in FailedIds(f)}
    <3>1. T \subseteq Nat /\ T # {}
      BY DEF FailedIds, FailedState
    <3>2. \E x \in T : \A y \in T : x <= y
      BY <3>1, NatMinimum
    <3>3. EarliestAlarm(f) \in T
      BY <3>2 DEF EarliestAlarm
    <3>4. QED
      BY <2>1, <3>1, <3>3, LimitsAssumption DEF AddAlarm, NoAlarm
  <2>2. QED
    BY <2>1
<1>2. QED
  BY <1>1, AddAlarmNotInPast DEF NoAlarm

\* Whatever happens, restarts included, a failed route without an alarm was left
\* so by an alarm handler that returned, and was not due when it started.
THEOREM FailedRoutesScheduled == Spec => StrandedOnlyByHandler
<1>1. Inv /\ [Next]_vars =>
        [FailedIsScheduled /\ ~FailedIsScheduled' => HandlerReturns]_vars
  <2> SUFFICES ASSUME Inv, Inv', [Next]_vars, FailedIsScheduled, FailedIds(failed') # {},
                      alarm' = NoAlarm, pc'[Alarm] = "idle"
               PROVE  HandlerReturns
    BY InvStep DEF FailedIsScheduled
  <2>1. /\ now \in Nat /\ alarm \in Nat \cup {NoAlarm}
        /\ failed' \in [Ids -> FailedState] /\ DOMAIN pc = Execs
    BY NowType DEF Inv, TypeOK
  <2>2. ASSUME NEW x \in Execs, Settle(x) PROVE HandlerReturns
    <3>1. UNCHANGED <<failed, alarm, restarts>>
      BY <2>2 DEF Settle, storage
    <3>2. pc[Alarm] # "idle"
      BY <3>1 DEF FailedIsScheduled
    <3>3. QED
      BY <3>1, <3>2 DEF HandlerReturns
  <2>3. ASSUME NEW x \in Execs, Fail(x) PROVE FALSE
    <3>1. alarm' = AddAlarm(failed', alarm)
      BY <2>3 DEF Fail
    <3>2. QED
      BY <2>1, <3>1, AddAlarmSchedules
  <2>4. ASSUME NEW x \in Execs, Succeed(x) \/ GiveUp(x) \/ Exhaust(x) PROVE FALSE
    <3>1. alarm' = alarm /\ FailedIds(failed') \subseteq FailedIds(failed)
      <4>1. failed' = [failed EXCEPT ![msg[x]] = NotFailed]
        BY <2>4 DEF Succeed, GiveUp, Exhaust
      <4>2. QED
        BY <2>4, <4>1 DEF Succeed, GiveUp, Exhaust, storage, FailedIds, IsFailed, NotFailed, Inv, TypeOK
    <3>2. pc'[Alarm] = pc[Alarm] \/ pc'[Alarm] = "closing"
      BY <2>1, <2>4 DEF Succeed, GiveUp, Exhaust, LeaveOngoing, Execs
    <3>3. QED
      BY <3>1, <3>2 DEF FailedIsScheduled
  <2>5. CASE AlarmFires
    BY <2>5 DEF AlarmFires, HandlerReturns
  <2>6. ASSUME NEW newBuild \in BOOLEAN, Restart(newBuild) PROVE FALSE
    <3>1. PendingAlarm \in Nat \cup {NoAlarm}
      BY <2>1 DEF PendingAlarm
    <3>2. CASE DisableSQLite
      BY <2>6, <3>2 DEF Restart, FailedIds, IsFailed, NotFailed
    <3>3. CASE ~DisableSQLite
      <4>1. alarm' = AddAlarm(failed', PendingAlarm)
        BY <2>6, <3>3 DEF Restart
      <4>2. QED
        BY <2>1, <3>1, <4>1, AddAlarmSchedules
    <3>4. QED
      BY <3>2, <3>3
  <2>7. ASSUME NEW c \in Calls, NEW m \in Ids, Ignore(c, m) \/ Accept(c, m) \/ Block(c, m) PROVE FALSE
    BY <2>1, <2>7, CallsAssumption
       DEF Ignore, Accept, Block, StartRevalidation, AwaitRace, storage, FailedIsScheduled
  <2>8. ASSUME NEW c \in Calls, Resume(c) PROVE FALSE
    BY <2>1, <2>8, CallsAssumption
       DEF Resume, StartRevalidation, AwaitRace, storage, FailedIsScheduled
  <2>9. ASSUME NEW m \in Ids, AlarmNext(m) PROVE FALSE
    BY <2>1, <2>9 DEF AlarmNext, Execs
  <2>10. CASE Tick \/ UNCHANGED vars
    BY <2>10 DEF Tick, vars, memory, storage, FailedIsScheduled
  <2>11. QED
    BY <2>2, <2>3, <2>4, <2>5, <2>6, <2>7, <2>8, <2>9, <2>10 DEF Next, Execute
<1>2. Spec => [][FailedIsScheduled /\ ~FailedIsScheduled' => HandlerReturns]_vars
  BY <1>1, Invariance, PTL DEF Spec
<1>3. [FailedIsScheduled /\ ~FailedIsScheduled' => HandlerReturns]_vars
      /\ [HandlerReturns => \A m \in Ids :
            IsFailed(failed', m) => failed'[m].nextAlarmMs > HandlerStart]_vars
      => [FailedIsScheduled /\ ~FailedIsScheduled' =>
            /\ HandlerReturns
            /\ \A m \in Ids : IsFailed(failed', m) => failed'[m].nextAlarmMs > HandlerStart]_vars
  OBVIOUS
<1>4. QED
  BY <1>2, <1>3, DueRoutesRetried, PTL DEF AlarmHandlesDue, StrandedOnlyByHandler

\* A message dropped because of the sync table is about an entry older than
\* the last revalidation of its route.
THEOREM SyncDropsOnlyStale == Spec => SyncSkipSound
<1>1. Inv => \A c \in Calls, m \in Ids :
        Ignore(c, m) /\ ongoing[m] = None /\ ~IsFailed(failed, m)
            => successAt[RouteOf[m]] > LastModified[m]
  <2> SUFFICES ASSUME Inv, NEW c \in Calls, NEW m \in Ids, Ignore(c, m),
                      ongoing[m] = None, ~IsFailed(failed, m)
               PROVE  successAt[RouteOf[m]] > LastModified[m]
    OBVIOUS
  <2> DEFINE r == RouteOf[m]
  <2>1. sync[r] > RoundedSeconds(LastModified[m])
    BY DEF Ignore, Redundant, CheckSyncTable
  <2>2. r \in Routes /\ LastModified[m] \in Nat
    BY IdsAssumption
  <2>3. RoundedSeconds(LastModified[m]) \in Nat
    BY <2>2, LimitsAssumption DEF RoundedSeconds
  <2>4. successAt[r] \in Nat /\ sync[r] = Seconds(successAt[r])
    BY <2>1, <2>2, <2>3 DEF Inv, SyncIsLastSuccess
  <2>5. QED
    BY <2>1, <2>2, <2>4, LaterSecond
<1>2. QED
  BY <1>1, Invariance, PTL DEF Spec, SyncSkipSound

=============================================================================
