----------------------- MODULE BucketCachePurgeProofs -----------------------
(***************************************************************************)
(* Proofs about BucketCachePurge, for any set of tags, any limit of tags   *)
(* per call and any number of retries of the platform.                     *)
(***************************************************************************)
EXTENDS BucketCachePurge, FiniteSetTheorems, TLAPS

\* A batch is a part of the table within the limit, empty only when the table
\* is, and the whole table when it is below the limit.
LEMMA BatchFacts ==
    ASSUME NEW t \in SUBSET Tags, NEW b \in Batches(t)
    PROVE  /\ b \subseteq t
           /\ Cardinality(b) <= Limit
           /\ b = {} => t = {}
           /\ Cardinality(b) < Limit => b = t
<1>1. CASE Cardinality(t) <= Limit
  BY <1>1 DEF Batches
<1>2. CASE ~(Cardinality(t) <= Limit)
  <2>1. b \in SUBSET t /\ Cardinality(b) = Limit
    BY <1>2 DEF Batches
  <2>2. Cardinality({}) = 0
    BY FS_EmptySet
  <2>3. QED
    BY <2>1, <2>2, LimitsAssumption
<1>3. QED
  BY <1>1, <1>2

\* What every way of starting a call, or of stopping, establishes.
LEMMA NextBatch ==
    ASSUME NEW t \in SUBSET Tags, PurgeNext(t)
    PROVE  /\ batch' \subseteq Tags
           /\ Cardinality(batch') <= Limit
           /\ pc' \in {"idle", "calling"}
           /\ pc' = "idle" <=> batch' = {}
           /\ pc' = "idle" => t = {}
  BY BatchFacts DEF PurgeNext

\* What the deletion of a batch leaves, whether the loop goes on or stops.
LEMMA AfterDelete ==
    ASSUME TypeOK, DeleteAndContinue
    PROVE  /\ table' = table \ batch
           /\ table' \subseteq Tags
           /\ batch' \subseteq Tags
           /\ Cardinality(batch') <= Limit
           /\ pc' \in {"idle", "calling"}
           /\ pc' = "idle" <=> batch' = {}
<1>1. table' = table \ batch /\ table' \in SUBSET Tags
  BY DEF TypeOK, DeleteAndContinue
<1>2. CASE pc' = "idle" /\ batch' = {}
  <2>1. Cardinality({}) = 0
    BY FS_EmptySet
  <2>2. QED
    BY <1>1, <1>2, <2>1, LimitsAssumption
<1>3. CASE PurgeNext(table')
  BY <1>1, <1>3, NextBatch
<1>4. QED
  BY <1>2, <1>3 DEF DeleteAndContinue

\* The initial state is well typed.
LEMMA TypeInit == Init => TypeOK
<1>1. Cardinality({}) <= Limit /\ 0 \in 0 .. MaxAlarmRetries
  BY FS_EmptySet, LimitsAssumption
<1>2. 0 \in 0 .. MaxRequests /\ 0 \in 0 .. MaxCrashes
  BY BoundsAssumption
<1>3. QED
  BY <1>1, <1>2 DEF Init, TypeOK

\* Every step keeps the state well typed.
LEMMA TypeStep == TypeOK /\ [Next]_vars => TypeOK'
<1> SUFFICES ASSUME TypeOK, [Next]_vars PROVE TypeOK'
  OBVIOUS
<1>0. Cardinality({}) <= Limit /\ MaxAlarmRetries \in Nat
  BY FS_EmptySet, LimitsAssumption
<1>1. ASSUME NEW tags \in SUBSET Tags, PurgeCacheByTags(tags) PROVE TypeOK'
  BY <1>0, <1>1, BoundsAssumption DEF TypeOK, PurgeCacheByTags
<1>2. CASE AlarmFires
  <2>1. table \in SUBSET Tags /\ PurgeNext(table)
    BY <1>2 DEF TypeOK, AlarmFires
  <2>2. QED
    BY <1>2, <2>1, NextBatch DEF TypeOK, AlarmFires
<1>3. CASE CdnPurges
  BY <1>3 DEF TypeOK, CdnPurges
<1>4. CASE Purged
  <2>1. DeleteAndContinue
    BY <1>4 DEF Purged
  <2>2. QED
    BY <1>0, <1>4, <2>1, AfterDelete DEF TypeOK, Purged
<1>5. CASE PurgeFailed
  <2>1. DeleteAndContinue
    BY <1>5 DEF PurgeFailed
  <2>2. QED
    BY <1>0, <1>5, <2>1, AfterDelete DEF TypeOK, PurgeFailed
<1>6. CASE RateLimited
  BY <1>0, <1>6 DEF TypeOK, RateLimited
<1>7. CASE Crash
  BY <1>0, <1>7, BoundsAssumption DEF TypeOK, Crash
<1>8. CASE UNCHANGED vars
  BY <1>8 DEF TypeOK, vars
<1>9. QED
  BY <1>1, <1>2, <1>3, <1>4, <1>5, <1>6, <1>7, <1>8 DEF Next

\* Every reachable state is of its type; an API call names at least one tag
\* and never more than the limit.
THEOREM Typing == Spec => []TypeOK
  BY TypeInit, TypeStep, PTL DEF Spec

----------------------------------------------------------------------------
(* No purge is lost but by a failed call or an overtaken one, and no tag   *)
(* is stranded but by the rate limit.  The batch is a part of the table;   *)
(* what is owed of a processed batch was requested too late; a batch below *)
(* the limit was the whole table, so that a tag beyond it came later and   *)
(* set an alarm.                                                           *)

Inv ==
    /\ TypeOK
    /\ OwedIsBuffered
    /\ batch \subseteq table
    /\ pc = "processed" => owed \cap batch \subseteq overtaken
    /\ pc # "idle" /\ Cardinality(batch) < Limit => table \subseteq batch \/ alarm

\* Every step keeps the inductive invariant.
LEMMA InvStep == Inv /\ [Next]_vars => Inv'
<1> SUFFICES ASSUME Inv, [Next]_vars PROVE Inv'
  OBVIOUS
<1>0. TypeOK'
  BY TypeStep DEF Inv
<1> USE <1>0 DEF Inv, OwedIsBuffered
<1>1. ASSUME NEW tags \in SUBSET Tags, PurgeCacheByTags(tags) PROVE Inv'
  BY <1>1 DEF PurgeCacheByTags
<1>2. CASE AlarmFires
  <2>1. batch' \subseteq table /\ pc' # "processed" /\ (Cardinality(batch') < Limit => batch' = table)
    BY <1>2, BatchFacts DEF AlarmFires, PurgeNext, TypeOK
  <2>2. QED
    BY <1>2, <2>1 DEF AlarmFires
<1>3. CASE CdnPurges
  BY <1>3 DEF CdnPurges
<1>a. ASSUME DeleteAndContinue
      PROVE  /\ table' = table \ batch
             /\ batch' \subseteq table'
             /\ pc' # "processed"
             /\ pc' # "idle" /\ Cardinality(batch') < Limit => batch' = table'
  <2>1. table' = table \ batch /\ table' \in SUBSET Tags
    BY <1>a DEF DeleteAndContinue, TypeOK
  <2>2. CASE pc' = "idle" /\ batch' = {}
    BY <2>1, <2>2
  <2>3. CASE PurgeNext(table')
    BY <2>1, <2>3, BatchFacts DEF PurgeNext
  <2>4. QED
    BY <1>a, <2>2, <2>3, <2>1 DEF DeleteAndContinue
<1>4. CASE Purged
  BY <1>4, <1>a DEF Purged
<1>5. CASE PurgeFailed
  BY <1>5, <1>a DEF PurgeFailed
<1>6. CASE RateLimited
  BY <1>6 DEF RateLimited
<1>7. CASE Crash
  BY <1>7 DEF Crash
<1>8. CASE UNCHANGED vars
  BY <1>8 DEF vars
<1>9. QED
  BY <1>1, <1>2, <1>3, <1>4, <1>5, <1>6, <1>7, <1>8 DEF Next

\* The inductive invariant holds in every reachable state.
THEOREM Invariance == Spec => []Inv
<1>1. Init => Inv
  BY TypeInit DEF Init, Inv, OwedIsBuffered
<1>2. QED
  BY <1>1, InvStep, PTL DEF Spec

\* A tag that was requested and not purged is in the table, unless its call
\* failed or had already been processed when the request came.
THEOREM OwedTagsBuffered == Spec => []OwedIsBuffered
<1>1. Inv => OwedIsBuffered
  BY DEF Inv
<1>2. QED
  BY <1>1, Invariance, PTL

\* Only a rate limit on the platform's last retry leaves tags in the table
\* without an alarm.
THEOREM StrandingNeedsRateLimit == Spec => StrandedOnlyByRateLimit
<1>1. Inv /\ [Next]_vars =>
        [Scheduled /\ ~Scheduled' => RateLimited /\ retries = MaxAlarmRetries]_vars
  <2> SUFFICES ASSUME Inv, [Next]_vars, Scheduled, ~Scheduled'
               PROVE  RateLimited /\ retries = MaxAlarmRetries
    OBVIOUS
  <2> USE DEF Scheduled, Inv, TypeOK
  <2>1. CASE RateLimited
    <3>1. ~alarm' /\ (alarm' = (alarm \/ retries < MaxAlarmRetries))
      BY <2>1 DEF RateLimited
    <3>2. ~(retries < MaxAlarmRetries)
      BY <3>1
    <3>3. QED
      BY <2>1, <3>2, LimitsAssumption
  <2>2. ~ AlarmFires
    BY NextBatch DEF AlarmFires
  <2>3. ASSUME DeleteAndContinue, UNCHANGED alarm, pc # "idle" PROVE FALSE
    <3>1. table' \in SUBSET Tags /\ table' = table \ batch
      BY <2>3, AfterDelete
    <3>2. CASE PurgeNext(table')
      BY <3>1, <3>2, NextBatch
    <3>3. CASE Cardinality(batch) < Limit
      BY <2>3, <3>1, <3>3
    <3>4. QED
      BY <2>3, <3>2, <3>3 DEF DeleteAndContinue
  <2>4. ~Purged /\ ~PurgeFailed
    BY <2>3 DEF Purged, PurgeFailed
  <2>5. ~CdnPurges /\ ~Crash /\ ~UNCHANGED vars
    BY DEF CdnPurges, Crash, vars
  <2>6. ASSUME NEW tags \in SUBSET Tags PROVE ~PurgeCacheByTags(tags)
    BY DEF PurgeCacheByTags
  <2>7. QED
    BY <2>1, <2>2, <2>4, <2>5, <2>6 DEF Next
<1>2. QED
  BY <1>1, Invariance, PTL DEF Spec, StrandedOnlyByRateLimit

----------------------------------------------------------------------------
(* The object is a buffer of purges                                        *)

\* A call is started, or not, as the buffer starts one.
LEMMA CallsMapped ==
    ASSUME NEW t \in SUBSET Tags, PurgeNext(t)
    PROVE  Buffer!CallOf(t)
<1>1. batch' \in Batches(t)
  BY DEF PurgeNext
<1>2. /\ batch' \in SUBSET t
      /\ Cardinality(batch') <= Limit
      /\ Cardinality(batch') < Limit => batch' = t
  BY <1>1, BatchFacts
<1>3. Buffer!Cardinality(batch') = Cardinality(batch')
  BY DEF Buffer!Cardinality, Cardinality
<1>4. QED
  BY <1>2, <1>3 DEF Buffer!CallOf

\* The end of a call, with or without success, is the answer to the buffer's.
LEMMA AnswersMapped ==
    ASSUME TypeOK, pc # "idle", DeleteAndContinue, UNCHANGED owed
    PROVE  Buffer!CallAnswered
<1>1. table' = table \ batch /\ table' \in SUBSET Tags /\ batch # {}
  BY DEF TypeOK, DeleteAndContinue
<1>2. CASE batch' = {}
  BY <1>1, <1>2 DEF Buffer!CallAnswered, Buffer!CallOf
<1>3. CASE PurgeNext(table')
  <2>1. Buffer!CallOf(table')
    BY <1>1, <1>3, CallsMapped
  <2>2. QED
    BY <1>1, <2>1 DEF Buffer!CallAnswered
<1>4. QED
  BY <1>2, <1>3 DEF DeleteAndContinue

\* Every step of the object is one of the buffer, or leaves it alone.
LEMMA StepsMapped == TypeOK /\ [Next]_vars => [Buffer!BufferNext]_(Buffer!bufferVars)
<1> SUFFICES ASSUME TypeOK, [Next]_vars
             PROVE  Buffer!BufferNext \/ UNCHANGED Buffer!bufferVars
  OBVIOUS
<1>1. ASSUME NEW tags \in SUBSET Tags, PurgeCacheByTags(tags) PROVE Buffer!Ask(tags)
  BY <1>1 DEF PurgeCacheByTags, Buffer!Ask
<1>2. CASE AlarmFires
  <2>1. table \in SUBSET Tags /\ batch = {} /\ PurgeNext(table) /\ UNCHANGED <<owed, table>>
    BY <1>2 DEF TypeOK, AlarmFires
  <2>2. Buffer!StartCall
    BY <2>1, CallsMapped DEF Buffer!StartCall
  <2>3. QED
    BY <2>2 DEF Buffer!BufferNext
<1>3. CASE CdnPurges
  <2>1. Buffer!CallPurges
    BY <1>3 DEF TypeOK, CdnPurges, Buffer!CallPurges
  <2>2. QED
    BY <2>1 DEF Buffer!BufferNext
<1>4. CASE Purged \/ PurgeFailed
  <2>1. Buffer!CallAnswered
    BY <1>4, AnswersMapped DEF Purged, PurgeFailed
  <2>2. QED
    BY <2>1 DEF Buffer!BufferNext
<1>5. CASE RateLimited \/ Crash
  <2>1. Buffer!CallGivenUp
    BY <1>5 DEF RateLimited, Crash, Buffer!CallGivenUp
  <2>2. QED
    BY <2>1 DEF Buffer!BufferNext
<1>6. CASE UNCHANGED vars
  BY <1>6 DEF vars, Buffer!bufferVars
<1>7. QED
  BY <1>1, <1>2, <1>3, <1>4, <1>5, <1>6 DEF Next, Buffer!BufferNext

\* Whatever the alarm, its retries and the restarts do, the object implements
\* PurgeBuffer: a tag leaves the table only when a call that named it was answered.
THEOREM BufferImplemented == Spec => ImplementsBuffer
<1>1. Init => Buffer!BufferInit
  BY DEF Init, Buffer!BufferInit
<1>2. QED
  BY <1>1, StepsMapped, Typing, PTL DEF Spec, ImplementsBuffer, Buffer!BufferSpec

=============================================================================
