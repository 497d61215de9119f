----------------------------- MODULE CachesProofs -----------------------------
(***************************************************************************)
(* Proofs about RegionalCache, for any number of concurrent calls and of   *)
(* entries; ComposableCache, for any number of sets and gets; and          *)
(* MultiTierCache, for any set of instances and number of writes.  Then    *)
(* the types of the caches side by side, as MCCaches runs them.            *)
(***************************************************************************)
EXTENDS MCCaches, PageCacheProofs, DeploymentProofs, TLAPS

-----------------------------------------------------------------------------
(* The regional cache *)


\* The initial state is well typed.
LEMMA RegionalTypeInit == RegionalInit => RegionalTypeOK
<1> SUFFICES ASSUME RegionalInit PROVE RegionalTypeOK
  OBVIOUS
<1>1. op \in [RegionalOps -> {"idle", "reading", "putting", "deleting", "purging"}]
  BY DEF RegionalInit
<1>2. races \in [RegionalOps -> SUBSET {"write", "delete", "elsewhere", "unsaved"}]
  BY DEF RegionalInit
<1>3. carried \in [RegionalOps -> 0 .. entries]
  BY DEF RegionalInit
<1>4. purges \in BOOLEAN /\ refilled \in BOOLEAN
  BY DEF RegionalInit
<1>5. /\ entries \in 0 .. MaxEntries /\ stored \in 0 .. entries
      /\ region \in 0 .. entries /\ revalidated \in 0 .. entries
  BY EntriesAssumption DEF RegionalInit
<1>6. flaws \subseteq {"write", "delete", "elsewhere", "unsaved", "failed"}
  BY DEF RegionalInit
<1>7. QED
  BY <1>1, <1>2, <1>3, <1>4, <1>5, <1>6 DEF RegionalTypeOK

\* The races of the other slots stay races.
LEMMA RacesTyped ==
    ASSUME RegionalTypeOK, NEW o, NEW why \in {"write", "delete"}
    PROVE  RacesWith(o, why) \in [RegionalOps -> SUBSET {"write", "delete", "elsewhere", "unsaved"}]
  BY DEF RegionalTypeOK, RacesWith

\* Every step keeps the state well typed.
LEMMA RegionalTypeStep == RegionalTypeOK /\ [RegionalNext]_regionVars => RegionalTypeOK'
<1> SUFFICES ASSUME RegionalTypeOK, [RegionalNext]_regionVars PROVE RegionalTypeOK'
  OBVIOUS
<1> USE EntriesAssumption DEF RegionalTypeOK
<1>1. ASSUME NEW o \in RegionalOps, SetInBucket(o) PROVE RegionalTypeOK'
  <2>1. races' \in [RegionalOps -> SUBSET {"write", "delete", "elsewhere", "unsaved"}]
    <3>1. CASE races' = [RacesWith(o, "write") EXCEPT ![o] = {}]
      BY <3>1, RacesTyped
    <3>2. CASE races' = [races EXCEPT ![o] = {"unsaved"}]
      BY <3>2
    <3>3. QED
      BY <1>1, <3>1, <3>2 DEF SetInBucket
  <2>2. entries' \in 0 .. MaxEntries /\ entries' = entries + 1
    BY <1>1 DEF SetInBucket
  <2>3. stored' \in 0 .. entries' /\ region' \in 0 .. entries' /\ revalidated' \in 0 .. entries'
    BY <1>1, <2>2 DEF SetInBucket
  <2>4. carried' \in [RegionalOps -> 0 .. entries']
    BY <1>1, <2>2 DEF SetInBucket
  <2>5. QED
    BY <1>1, <2>1, <2>2, <2>3, <2>4 DEF SetInBucket
<1>2. ASSUME ChangeElsewhere PROVE RegionalTypeOK'
  <2>1. races' \in [RegionalOps -> SUBSET {"write", "delete", "elsewhere", "unsaved"}]
    BY <1>2 DEF ChangeElsewhere
  <2>2. entries' \in 0 .. MaxEntries /\ entries' >= entries
    BY <1>2 DEF ChangeElsewhere
  <2>3. stored' \in 0 .. entries' /\ region' \in 0 .. entries' /\ revalidated' \in 0 .. entries'
    BY <1>2, <2>2 DEF ChangeElsewhere
  <2>4. carried' \in [RegionalOps -> 0 .. entries']
    BY <1>2, <2>2 DEF ChangeElsewhere
  <2>5. QED
    BY <1>2, <2>1, <2>2, <2>3, <2>4 DEF ChangeElsewhere
<1>3. ASSUME NEW o \in RegionalOps, Hit(o) PROVE RegionalTypeOK'
  BY <1>3 DEF Hit
<1>4. ASSUME NEW o \in RegionalOps, ReadBucket(o) PROVE RegionalTypeOK'
  BY <1>4 DEF ReadBucket
<1>5. ASSUME NEW o \in RegionalOps, PutInRegion(o) PROVE RegionalTypeOK'
  BY <1>5 DEF PutInRegion, Finish
<1>6. ASSUME NEW o \in RegionalOps, PutFails(o) PROVE RegionalTypeOK'
  BY <1>6 DEF PutFails, Finish
<1>7. ASSUME NEW o \in RegionalOps, DeleteInBucket(o) PROVE RegionalTypeOK'
  BY <1>7, RacesTyped DEF DeleteInBucket
<1>8. ASSUME NEW o \in RegionalOps, RevalidateKey(o) PROVE RegionalTypeOK'
  BY <1>8 DEF RevalidateKey
<1>9. ASSUME NEW o \in RegionalOps, EmptyRegion(o) PROVE RegionalTypeOK'
  <2>1. refilled' \in BOOLEAN
    BY <1>9 DEF EmptyRegion
  <2>2. region' \in 0 .. entries /\ flaws' \subseteq {"write", "delete", "elsewhere", "unsaved", "failed"}
    <3>1. CASE DropsRegion(o)
      BY <1>9, <3>1, EntriesAssumption DEF EmptyRegion
    <3>2. CASE ~DropsRegion(o)
      BY <1>9, <3>2, EntriesAssumption DEF EmptyRegion
    <3>3. QED
      BY <3>1, <3>2
  <2>3. op' \in [RegionalOps -> {"idle", "reading", "putting", "deleting", "purging"}]
    BY <1>9 DEF EmptyRegion
  <2>4. UNCHANGED <<purges, stored, entries, revalidated, carried, races>>
    BY <1>9 DEF EmptyRegion
  <2>5. QED
    BY <2>1, <2>2, <2>3, <2>4
<1>10. ASSUME NEW o \in RegionalOps, EmptyFails(o) PROVE RegionalTypeOK'
  BY <1>10 DEF EmptyFails
<1>11. ASSUME Expire PROVE RegionalTypeOK'
  <2>1. refilled' \in BOOLEAN
    BY <1>11 DEF Expire
  <2>2. QED
    BY <1>11, <2>1 DEF Expire
<1>12. CASE UNCHANGED regionVars
  BY <1>12 DEF regionVars
<1>13. QED
  BY <1>1, <1>2, <1>3, <1>4, <1>5, <1>6, <1>7, <1>8, <1>9, <1>10, <1>11, <1>12 DEF RegionalNext

\* The state of the regional cache is well typed.
THEOREM RegionalTyping == RegionalSpec => []RegionalTypeOK
  BY RegionalTypeInit, RegionalTypeStep, PTL DEF RegionalSpec

-----------------------------------------------------------------------------
(* Behind the bucket *)

\* What a slot is going to put is what the bucket has, unless the bucket changed since.
CarriesStored ==
    \A o \in RegionalOps : op[o] = "putting" => carried[o] = stored \/ races[o] # {}

\* The region is behind the bucket only if a put or a delete is left to do, or for a flaw.
Owed == \E o \in RegionalOps : op[o] \in {"putting", "deleting"}
BehindOnlyIfOwed == region \in {0, stored} \/ flaws # {} \/ Owed

RegionInv == CarriesStored /\ BehindOnlyIfOwed

\* Every step keeps the invariant.
LEMMA RegionStep ==
    RegionalTypeOK /\ RegionInv /\ [RegionalNext]_regionVars => RegionInv'
<1> SUFFICES ASSUME RegionalTypeOK, RegionInv, [RegionalNext]_regionVars PROVE RegionInv'
  OBVIOUS
<1> USE DEF RegionalTypeOK, RegionInv, CarriesStored, BehindOnlyIfOwed, Owed
<1>1. ASSUME NEW o \in RegionalOps, SetInBucket(o) PROVE RegionInv'
  <2>1. op'[o] = "putting"
    BY <1>1 DEF SetInBucket
  <2>2. CASE stored' = entries' /\ races' = [RacesWith(o, "write") EXCEPT ![o] = {}]
    <3>1. carried'[o] = stored'
      BY <1>1, <2>2 DEF SetInBucket
    <3>2. \A p \in RegionalOps : p # o /\ op[p] = "putting" => races'[p] # {}
      BY <2>2 DEF RacesWith
    <3>3. \A p \in RegionalOps : p # o => op'[p] = op[p]
      BY <1>1 DEF SetInBucket
    <3>4. QED
      BY <2>1, <3>1, <3>2, <3>3
  <2>3. CASE stored' = stored /\ races' = [races EXCEPT ![o] = {"unsaved"}]
    BY <1>1, <2>1, <2>3 DEF SetInBucket
  <2>4. QED
    BY <1>1, <2>2, <2>3 DEF SetInBucket
<1>2. ASSUME ChangeElsewhere PROVE RegionInv'
  BY <1>2 DEF ChangeElsewhere
<1>3. ASSUME NEW o \in RegionalOps, Hit(o) PROVE RegionInv'
  BY <1>3 DEF Hit
<1>4. ASSUME NEW o \in RegionalOps, ReadBucket(o) PROVE RegionInv'
  BY <1>4 DEF ReadBucket
<1>5. ASSUME NEW o \in RegionalOps, PutInRegion(o) PROVE RegionInv'
  BY <1>5 DEF PutInRegion, Finish
<1>6. ASSUME NEW o \in RegionalOps, PutFails(o) PROVE RegionInv'
  BY <1>6 DEF PutFails, Finish
<1>7. ASSUME NEW o \in RegionalOps, DeleteInBucket(o) PROVE RegionInv'
  BY <1>7 DEF DeleteInBucket, RacesWith
<1>8. ASSUME NEW o \in RegionalOps, RevalidateKey(o) PROVE RegionInv'
  BY <1>8 DEF RevalidateKey
<1>9. ASSUME NEW o \in RegionalOps, EmptyRegion(o) PROVE RegionInv'
  BY <1>9 DEF EmptyRegion, DropsRegion
<1>10. ASSUME NEW o \in RegionalOps, EmptyFails(o) PROVE RegionInv'
  BY <1>10 DEF EmptyFails
<1>11. ASSUME Expire PROVE RegionInv'
  BY <1>11 DEF Expire
<1>12. CASE UNCHANGED regionVars
  BY <1>12 DEF regionVars
<1>13. QED
  BY <1>1, <1>2, <1>3, <1>4, <1>5, <1>6, <1>7, <1>8, <1>9, <1>10, <1>11, <1>12 DEF RegionalNext

\* The region is behind the bucket only for a race, another region's write or a failure,
\* however many calls overlap.
THEOREM RegionFollowsBucket == RegionalSpec => []BehindOnlyByRace
<1>1. RegionalInit => RegionInv
  BY DEF RegionalInit, RegionInv, CarriesStored, BehindOnlyIfOwed
<1>2. RegionInv => BehindOnlyByRace
  BY DEF RegionInv, BehindOnlyIfOwed, Owed, BehindOnlyByRace
<1>3. QED
  BY <1>1, <1>2, RegionalTyping, RegionStep, PTL DEF RegionalSpec

-----------------------------------------------------------------------------
(* Revalidated entries *)

\* Every step keeps the entries of the region unrevalidated, with the exceptions.
LEMMA RefillStep ==
    RegionalTypeOK /\ StaleHitOnlyByRefill /\ [RegionalNext]_regionVars => StaleHitOnlyByRefill'
<1> SUFFICES ASSUME RegionalTypeOK, StaleHitOnlyByRefill, [RegionalNext]_regionVars
             PROVE  StaleHitOnlyByRefill'
  OBVIOUS
<1> USE DEF RegionalTypeOK, StaleHitOnlyByRefill
<1>1. ASSUME NEW o \in RegionalOps, SetInBucket(o) PROVE StaleHitOnlyByRefill'
  BY <1>1 DEF SetInBucket
<1>2. ASSUME ChangeElsewhere PROVE StaleHitOnlyByRefill'
  BY <1>2 DEF ChangeElsewhere
<1>3. ASSUME NEW o \in RegionalOps, Hit(o) PROVE StaleHitOnlyByRefill'
  BY <1>3 DEF Hit
<1>4. ASSUME NEW o \in RegionalOps, ReadBucket(o) PROVE StaleHitOnlyByRefill'
  BY <1>4 DEF ReadBucket
<1>5. ASSUME NEW o \in RegionalOps, PutInRegion(o) PROVE StaleHitOnlyByRefill'
  BY <1>5 DEF PutInRegion
<1>6. ASSUME NEW o \in RegionalOps, PutFails(o) PROVE StaleHitOnlyByRefill'
  BY <1>6 DEF PutFails
<1>7. ASSUME NEW o \in RegionalOps, DeleteInBucket(o) PROVE StaleHitOnlyByRefill'
  BY <1>7 DEF DeleteInBucket
<1>8. ASSUME NEW o \in RegionalOps, RevalidateKey(o) PROVE StaleHitOnlyByRefill'
  BY <1>8 DEF RevalidateKey
<1>9. ASSUME NEW o \in RegionalOps, EmptyRegion(o) PROVE StaleHitOnlyByRefill'
  BY <1>9 DEF EmptyRegion, DropsRegion
<1>10. ASSUME NEW o \in RegionalOps, EmptyFails(o) PROVE StaleHitOnlyByRefill'
  BY <1>10 DEF EmptyFails
<1>11. ASSUME Expire PROVE StaleHitOnlyByRefill'
  BY <1>11 DEF Expire
<1>12. CASE UNCHANGED regionVars
  BY <1>12 DEF regionVars
<1>13. QED
  BY <1>1, <1>2, <1>3, <1>4, <1>5, <1>6, <1>7, <1>8, <1>9, <1>10, <1>11, <1>12 DEF RegionalNext

\* A purge that is done leaves no revalidated entry in the region, except one that a put
\* brought back.
THEOREM PurgeEmptiesRegion == RegionalSpec => []StaleHitOnlyByRefill
<1>1. RegionalInit => StaleHitOnlyByRefill
  BY DEF RegionalInit, StaleHitOnlyByRefill
<1>2. QED
  BY <1>1, RegionalTyping, RefillStep, PTL DEF RegionalSpec

-----------------------------------------------------------------------------
(* The composable cache *)

\* The initial state is well typed.
LEMMA ComposableTypeInit == ComposableInit => ComposableTypeOK
<1> SUFFICES ASSUME ComposableInit PROVE ComposableTypeOK
  OBVIOUS
<1>1. /\ writing \in [Composed -> {"idle", "streaming", "broken", "storing", "stored", "unstored"}]
      /\ reading \in [ComposedGets -> {"idle", "awaiting", "reading", "answered", "rejected"}]
      /\ settled \in [ComposedGets -> SUBSET Composed]
  BY DEF ComposableInit
<1>2. /\ promise \in [ComposedGets -> 0 .. MaxComposed]
      /\ answer \in [ComposedGets -> 0 .. MaxComposed]
  BY ComposedAssumption DEF ComposableInit
<1>3. QED
  BY <1>1, <1>2, ComposedAssumption DEF ComposableInit, ComposableTypeOK

\* Every step keeps the state well typed.
LEMMA ComposableTypeStep == ComposableTypeOK /\ [ComposableNext]_composableVars => ComposableTypeOK'
<1> SUFFICES ASSUME ComposableTypeOK, [ComposableNext]_composableVars PROVE ComposableTypeOK'
  OBVIOUS
<1> USE ComposedAssumption DEF ComposableTypeOK, Composed
<1>1. ASSUME NEW w \in Composed, StartSet(w) PROVE ComposableTypeOK'
  <2>1. crossed' \subseteq Composed
    BY <1>1 DEF StartSet, InFlight
  <2>2. writing' \in [Composed -> {"idle", "streaming", "broken", "storing", "stored", "unstored"}]
    BY <1>1 DEF StartSet
  <2>3. QED
    BY <1>1, <2>1, <2>2 DEF StartSet
<1>2. ASSUME NEW w \in Composed, StreamEnds(w) PROVE ComposableTypeOK'
  BY <1>2 DEF StreamEnds, DeletePending
<1>3. ASSUME NEW w \in Composed, StoreComposed(w) PROVE ComposableTypeOK'
  BY <1>3 DEF StoreComposed
<1>4. ASSUME NEW g \in ComposedGets, StartGet(g) PROVE ComposableTypeOK'
  BY <1>4 DEF StartGet
<1>5. ASSUME NEW g \in ComposedGets, AnswerPromise(g) PROVE ComposableTypeOK'
  BY <1>5 DEF AnswerPromise
<1>6. ASSUME NEW g \in ComposedGets, AnswerCached(g) PROVE ComposableTypeOK'
  BY <1>6 DEF AnswerCached
<1>7. CASE UNCHANGED composableVars
  BY <1>7 DEF composableVars
<1>8. QED
  BY <1>1, <1>2, <1>3, <1>4, <1>5, <1>6, <1>7 DEF ComposableNext

\* The state of the composable cache is well typed.
THEOREM ComposableTyping == ComposableSpec => []ComposableTypeOK
  BY ComposableTypeInit, ComposableTypeStep, PTL DEF ComposableSpec

-----------------------------------------------------------------------------
(* The inductive invariant *)

\* A set that overlaps no other has all earlier ones behind it, ended.
Alone ==
    \A w \in Composed : writing[w] # "idle" =>
        \A v \in Composed : v < w =>
            /\ writing[v] # "idle"
            /\ w \in crossed \/ v \notin InFlight

\* The promise in the map is that of a set whose stream has not ended.
PendingStreams == pending # 0 => writing[pending] = "streaming"

\* What is cached is not older than an entry that was stored without an overlap.
CachedNewest == \A w \in Composed : writing[w] = "stored" => cached >= w \/ w \in crossed

\* A get gets what is not older than what was stored when it started.
PromiseNewest ==
    \A g \in ComposedGets :
        /\ \A w \in settled[g] : writing[w] = "stored"
        /\ reading[g] = "awaiting" =>
            /\ promise[g] \in Composed
            /\ \A w \in settled[g] : promise[g] >= w \/ w \in crossed

ComposedInv == Alone /\ PendingStreams /\ CachedNewest /\ PromiseNewest /\ OlderOnlyByOverlap

\* The invariant holds initially.
LEMMA ComposedInit == ComposableInit => ComposedInv
  BY DEF ComposableInit, ComposedInv, Alone, PendingStreams, CachedNewest, PromiseNewest, OlderOnlyByOverlap

\* A set keeps it.
LEMMA SetStep ==
    ASSUME ComposableTypeOK, ComposedInv, NEW w \in Composed,
           StartSet(w) \/ StreamEnds(w) \/ StoreComposed(w)
    PROVE  ComposedInv'
<1> USE ComposedAssumption DEF ComposableTypeOK, Composed, ComposedInv
<1>1. UNCHANGED <<reading, promise, answer, settled>>
  BY DEF StartSet, StreamEnds, StoreComposed
<1>2. crossed \subseteq crossed'
  BY DEF StartSet, StreamEnds, StoreComposed
<1>3. \A v \in Composed : writing[v] = "stored" => writing'[v] = "stored"
  BY DEF StartSet, StreamEnds, StoreComposed
<1>4. PromiseNewest' /\ OlderOnlyByOverlap'
  BY <1>1, <1>2, <1>3 DEF PromiseNewest, OlderOnlyByOverlap
<1>5. CASE StartSet(w)
  <2>1. Alone'
    BY <1>5 DEF StartSet, Alone, InFlight
  <2>2. PendingStreams' /\ CachedNewest'
    BY <1>5 DEF StartSet, PendingStreams, CachedNewest
  <2>3. QED
    BY <2>1, <2>2, <1>4
<1>6. CASE StreamEnds(w)
  <2>1. Alone'
    BY <1>6 DEF StreamEnds, Alone, InFlight
  <2>2. PendingStreams' /\ CachedNewest'
    BY <1>6 DEF StreamEnds, DeletePending, PendingStreams, CachedNewest
  <2>3. QED
    BY <2>1, <2>2, <1>4
<1>7. CASE StoreComposed(w)
  <2>1. Alone'
    BY <1>7 DEF StoreComposed, Alone, InFlight
  <2>2. PendingStreams'
    BY <1>7 DEF StoreComposed, PendingStreams
  <2>3. CachedNewest'
    BY <1>7 DEF StoreComposed, CachedNewest, Alone, InFlight
  <2>4. QED
    BY <2>1, <2>2, <2>3, <1>4
<1>8. QED
  BY <1>5, <1>6, <1>7

\* A get keeps it.
LEMMA GetStep ==
    ASSUME ComposableTypeOK, ComposedInv, NEW g \in ComposedGets,
           StartGet(g) \/ AnswerPromise(g) \/ AnswerCached(g)
    PROVE  ComposedInv'
<1> USE ComposedAssumption DEF ComposableTypeOK, Composed, ComposedInv
<1>1. UNCHANGED <<writing, pending, cached, crossed>>
  BY DEF StartGet, AnswerPromise, AnswerCached
<1>2. Alone' /\ PendingStreams' /\ CachedNewest'
  BY <1>1 DEF Alone, InFlight, PendingStreams, CachedNewest
<1>3. CASE StartGet(g)
  <2>1. pending # 0 => \A w \in Composed : writing[w] = "stored" => pending >= w \/ w \in crossed
    BY DEF PendingStreams, Alone, InFlight
  <2>2. PromiseNewest' /\ OlderOnlyByOverlap'
    BY <1>1, <1>3, <2>1 DEF StartGet, PromiseNewest, OlderOnlyByOverlap
  <2>3. QED
    BY <1>2, <2>2
<1>4. CASE AnswerPromise(g)
  BY <1>1, <1>2, <1>4 DEF AnswerPromise, PromiseNewest, OlderOnlyByOverlap
<1>5. CASE AnswerCached(g)
  BY <1>1, <1>2, <1>5 DEF AnswerCached, PromiseNewest, CachedNewest, OlderOnlyByOverlap
<1>6. QED
  BY <1>3, <1>4, <1>5

\* A get answers with nothing older than what was stored when it started, unless sets of
\* the key overlapped, however many sets and gets there are.
THEOREM NewestAnswered == ComposableSpec => []OlderOnlyByOverlap
<1>1. ComposableTypeOK /\ ComposedInv /\ [ComposableNext]_composableVars => ComposedInv'
  <2> SUFFICES ASSUME ComposableTypeOK, ComposedInv, [ComposableNext]_composableVars
               PROVE  ComposedInv'
    OBVIOUS
  <2>1. CASE UNCHANGED composableVars
    BY <2>1 DEF composableVars, ComposedInv, Alone, InFlight, PendingStreams, CachedNewest,
                PromiseNewest, OlderOnlyByOverlap
  <2>2. QED
    BY <2>1, SetStep, GetStep DEF ComposableNext
<1>2. ComposedInv => OlderOnlyByOverlap
  BY DEF ComposedInv
<1>3. QED
  BY <1>1, <1>2, ComposedInit, ComposableTyping, PTL DEF ComposableSpec

-----------------------------------------------------------------------------
(* The cache of several tiers *)

\* The types that the proof needs.
Moments == [write : Int, at : Nat]
TierTyped ==
    /\ time \in Nat \ {0}
    /\ item \in Int
    /\ object \in Moments
    /\ complete \in Moments
    /\ local \in [Instances -> Moments]
    /\ due \in [Instances -> Moments]
    /\ task \in [Instances -> {"idle", "put", "putMeta", "delete", "deleteMeta", "ask", "read"}]
    /\ mine \in [Instances -> Nat]
    /\ stamp \in [Instances -> Nat]
    /\ writes \in Nat

\* Writes in flight at the same time are all known to overlap.
OverlapKnown == \A i, j \in Writers : i # j => mine[i] \in unclean
\* A write in flight, and the item, are not older than the last clean write that is done.
StampsFollow == \A i \in Writers : complete.at <= stamp[i] /\ stamp[i] <= time
ItemFollows == complete.at <= time /\ (item = Deleted \/ complete.at <= item)
DueIsPast == \A i \in Instances : due[i].at <= complete.at

TierInv == TierTyped /\ OverlapKnown /\ StampsFollow /\ ItemFollows /\ DueIsPast

\* The invariant holds initially.
LEMMA TierStart == TierInit => TierInv
  BY DEF TierInit, TierInv, TierTyped, Moments, Nothing, OverlapKnown, StampsFollow, ItemFollows,
         DueIsPast, Writers, Deleted

\* An instance that is idle again is no writer any more.
LEMMA TaskEnds ==
    ASSUME TierTyped, NEW i \in Instances, EndTask(i)
    PROVE  /\ task' \in [Instances -> {"idle", "put", "putMeta", "delete", "deleteMeta", "ask", "read"}]
           /\ mine' \in [Instances -> Nat] /\ stamp' \in [Instances -> Nat] /\ due' \in [Instances -> Moments]
           /\ Writers' = Writers \ {i}
           /\ \A j \in Writers' : mine'[j] = mine[j] /\ stamp'[j] = stamp[j]
           /\ \A j \in Instances : due'[j] = IF j = i THEN Nothing ELSE due[j]
  BY DEF TierTyped, EndTask, Writers, Nothing, Moments

\* Every step keeps the invariant.
LEMMA TierStep == TierInv /\ [TierNext]_tierVars => TierInv'
<1> SUFFICES ASSUME TierInv, [TierNext]_tierVars PROVE TierInv'
  OBVIOUS
<1> USE DEF TierInv
<1>1. ASSUME NEW i \in Instances, StartWrite(i) PROVE TierInv'
  <2>1. TierTyped'
    BY <1>1 DEF StartWrite, TierTyped
  <2>2. /\ Writers' = Writers \cup {i} /\ i \notin Writers
        /\ \A j \in Writers : mine'[j] = mine[j] /\ stamp'[j] = stamp[j]
        /\ mine'[i] = writes' /\ stamp'[i] = time
    BY <1>1 DEF StartWrite, TierTyped, Writers
  <2>3. OverlapKnown'
    <3>1. CASE Writers = {}
      BY <2>2, <3>1 DEF OverlapKnown
    <3>2. CASE Writers # {}
      <4>1. unclean' = unclean \cup {mine[j] : j \in Writers} \cup {writes'}
        BY <1>1, <3>2 DEF StartWrite
      <4>2. QED
        BY <2>2, <4>1 DEF OverlapKnown
    <3>3. QED
      BY <3>1, <3>2
  <2>4. StampsFollow' /\ ItemFollows' /\ DueIsPast'
    BY <1>1, <2>2 DEF StartWrite, StampsFollow, ItemFollows, DueIsPast, TierTyped, Moments
  <2>5. QED
    BY <2>1, <2>3, <2>4
<1>2. ASSUME NEW i \in Instances, WriteObject(i) PROVE TierInv'
  <2>1. TierTyped'
    BY <1>2 DEF WriteObject, TierTyped, Moments, Nothing
  <2>2. Writers' = Writers
    BY <1>2 DEF WriteObject, TierTyped, Writers
  <2>3. QED
    BY <1>2, <2>1, <2>2 DEF WriteObject, OverlapKnown, StampsFollow, ItemFollows, DueIsPast
<1>3. ASSUME NEW i \in Instances, EndTask(i), UNCHANGED <<time, item, writes, unclean, complete>>,
             object' \in Moments, local' \in [Instances -> Moments]
      PROVE  TierInv'
  <2>1. TierTyped'
    BY <1>3, TaskEnds DEF TierTyped
  <2>2. OverlapKnown' /\ StampsFollow'
    BY <1>3, TaskEnds DEF OverlapKnown, StampsFollow
  <2>3. ItemFollows' /\ DueIsPast'
    BY <1>3, TaskEnds DEF ItemFollows, DueIsPast, Nothing, TierTyped, Moments
  <2>4. QED
    BY <2>1, <2>2, <2>3
<1>4. ASSUME NEW i \in Instances, WriteFails(i) PROVE TierInv'
  BY <1>3, <1>4 DEF WriteFails, TierTyped
<1>5. ASSUME NEW i \in Instances, WriteItem(i) PROVE TierInv'
  <2>1. EndTask(i) /\ i \in Writers /\ UNCHANGED <<time, object, writes>>
    BY <1>5 DEF WriteItem, Writers
  <2>2. TierTyped'
    <3>1. item' \in Int
      BY <1>5 DEF WriteItem, Item, TierTyped, Deleted
    <3>2. local' \in [Instances -> Moments]
      BY <1>5 DEF WriteItem, TierTyped, Moments, Nothing
    <3>3. complete' \in Moments
      BY <1>5 DEF WriteItem, TierTyped, Moments
    <3>4. QED
      BY <2>1, <3>1, <3>2, <3>3, TaskEnds DEF TierTyped
  <2>3. unclean \subseteq unclean'
    BY <1>5 DEF WriteItem
  <2>4. OverlapKnown'
    BY <2>1, <2>3, TaskEnds DEF OverlapKnown
  <2>5. complete.at <= stamp[i] /\ stamp[i] <= time /\ stamp[i] \in Nat /\ complete.at \in Nat /\ time \in Nat /\ item \in Int
    BY <2>1 DEF StampsFollow, TierTyped, Moments
  <2>6. item' = item \/ item' = Deleted \/ item' = stamp[i]
    BY <1>5 DEF WriteItem, Item
  <2>7. CASE mine[i] \in unclean'
    <3>1. complete' = complete
      BY <1>5, <2>7 DEF WriteItem
    <3>2. StampsFollow' /\ ItemFollows'
      BY <2>1, <2>5, <2>6, <3>1, TaskEnds DEF StampsFollow, ItemFollows, Deleted
    <3>3. DueIsPast'
      BY <2>1, <2>5, <3>1, TaskEnds DEF DueIsPast, Nothing
    <3>4. QED
      BY <2>2, <2>4, <3>2, <3>3
  <2>8. CASE mine[i] \notin unclean'
    <3>1. complete' = [write |-> mine[i], at |-> stamp[i]] /\ (item' = Deleted \/ item' = stamp[i])
      BY <1>5, <2>8 DEF WriteItem, Item
    <3>2. Writers' = {}
      BY <2>1, <2>3, <2>8, TaskEnds DEF OverlapKnown
    <3>3. StampsFollow' /\ ItemFollows'
      BY <2>1, <2>5, <3>1, <3>2 DEF StampsFollow, ItemFollows, Deleted
    <3>4. \A j \in Instances : due[j].at \in Nat /\ due[j].at <= complete.at
      BY DEF DueIsPast, TierTyped, Moments
    <3>5. DueIsPast'
      BY <2>1, <2>5, <3>1, <3>4, TaskEnds DEF DueIsPast, Nothing
    <3>6. QED
      BY <2>2, <2>4, <3>3, <3>5
  <2>9. QED
    BY <2>7, <2>8
<1>6. ASSUME NEW i \in Instances, StartRead(i) PROVE TierInv'
  <2>1. TierTyped'
    BY <1>6 DEF StartRead, TierTyped
  <2>2. Writers' = Writers
    BY <1>6 DEF StartRead, TierTyped, Writers
  <2>3. DueIsPast'
    BY <1>6 DEF StartRead, DueIsPast, TierTyped, Moments
  <2>4. QED
    BY <1>6, <2>1, <2>2, <2>3 DEF StartRead, OverlapKnown, StampsFollow, ItemFollows
<1>7. ASSUME NEW i \in Instances, AskItem(i) PROVE TierInv'
  <2>1. CASE AnswersLocal(i) /\ EndTask(i) /\ UNCHANGED local
    BY <1>3, <1>7, <2>1 DEF AskItem, TierTyped
  <2>2. CASE EndTask(i) /\ local' = [local EXCEPT ![i] = Nothing]
    <3>1. local' \in [Instances -> Moments]
      BY <2>2 DEF TierTyped, Moments, Nothing
    <3>2. QED
      BY <1>3, <1>7, <2>2, <3>1 DEF AskItem, TierTyped
  <2>3. CASE task' = [task EXCEPT ![i] = "read"] /\ UNCHANGED <<local, mine, stamp, due>>
    <3>1. TierTyped' /\ Writers' = Writers
      BY <1>7, <2>3 DEF AskItem, TierTyped, Writers
    <3>2. QED
      BY <1>7, <2>3, <3>1 DEF AskItem, OverlapKnown, StampsFollow, ItemFollows, DueIsPast
  <2>4. QED
    BY <1>7, <2>1, <2>2, <2>3 DEF AskItem
<1>8. ASSUME NEW i \in Instances, ReadObject(i) PROVE TierInv'
  <2>1. local' \in [Instances -> Moments]
    BY <1>8 DEF ReadObject, TierTyped
  <2>2. QED
    BY <1>3, <1>8, <2>1 DEF ReadObject, TierTyped
<1>9. ASSUME NEW i \in Instances, EvictLocal(i) PROVE TierInv'
  <2>1. TierTyped'
    BY <1>9 DEF EvictLocal, TierTyped, Moments, Nothing
  <2>2. QED
    BY <1>9, <2>1 DEF EvictLocal, OverlapKnown, StampsFollow, ItemFollows, DueIsPast, Writers
<1>10. ASSUME TierTick PROVE TierInv'
  BY <1>10 DEF TierTick, TierTyped, Moments, OverlapKnown, StampsFollow, ItemFollows, DueIsPast, Writers
<1>11. ASSUME UNCHANGED tierVars PROVE TierInv'
  BY <1>11 DEF tierVars, TierTyped, OverlapKnown, StampsFollow, ItemFollows, DueIsPast, Writers
<1>12. QED
  BY <1>1, <1>2, <1>4, <1>5, <1>6, <1>7, <1>8, <1>9, <1>10, <1>11 DEF TierNext

\* A local cache that asked DynamoDB answers no entry older than a clean write that was
\* done before the get started, for any number of instances and writes.
THEOREM NoOldLocalEntry == TierSpec => []LocalStaleOnlyInInstant
<1>1. TierInv => LocalStaleOnlyInInstant
  BY DEF TierInv, LocalStaleOnlyInInstant, AnswersLocal, ItemFollows, DueIsPast, TierTyped, Moments
<1>2. QED
  BY <1>1, TierStart, TierStep, PTL DEF TierSpec

\* The bounds hold initially, and no write has a number yet.
LEMMA TierTypeInit == TierInit => TierTypeOK /\ Writers = {}
  BY MultiTierAssumption DEF TierInit, TierTypeOK, Nothing, Deleted, Writers

\* A write under way has a number.
Numbered == \A i \in Writers : mine[i] \in Writes

\* Every step keeps the state within its bounds.
LEMMA TierTypeStep == TierTypeOK /\ Numbered /\ [TierNext]_tierVars => TierTypeOK' /\ Numbered'
<1> SUFFICES ASSUME TierTypeOK, Numbered, [TierNext]_tierVars PROVE TierTypeOK' /\ Numbered'
  OBVIOUS
<1> USE MultiTierAssumption
<1> DEFINE Record == [write : 0 .. MaxWrites, at : 0 .. MaxTime]
<1> DEFINE Tasks == {"idle", "put", "putMeta", "delete", "deleteMeta", "ask", "read"}
<1>1. Nothing \in Record /\ Deleted \in Deleted .. MaxTime
  BY DEF Nothing, Deleted
<1>2. ASSUME NEW i \in Instances
      PROVE  mine[i] \in 0 .. MaxWrites /\ stamp[i] \in 0 .. MaxTime /\ [write |-> mine[i], at |-> stamp[i]] \in Record
  BY DEF TierTypeOK
<1>3. ASSUME NEW i \in Instances, EndTask(i), UNCHANGED <<time, object, writes>>, item' \in Deleted .. MaxTime,
             local' \in [Instances -> Record], unclean' \subseteq Writes
      PROVE  TierTypeOK' /\ Numbered'
  <2>1. /\ task' \in [Instances -> Tasks] /\ mine' \in [Instances -> 0 .. writes] /\ stamp' \in [Instances -> 0 .. time]
        /\ Writers' \subseteq Writers /\ \A j \in Writers' : mine'[j] = mine[j]
    BY <1>3 DEF EndTask, TierTypeOK, Writers
  <2>2. QED
    BY <1>3, <2>1 DEF TierTypeOK, Numbered
<1>4. ASSUME NEW i \in Instances, StartWrite(i) PROVE TierTypeOK' /\ Numbered'
  <2>1. writes' = writes + 1 /\ writes' \in Writes /\ writes \in Nat /\ UNCHANGED <<time, object, item, local>>
    BY <1>4 DEF StartWrite, TierTypeOK, Writes
  <2>2. mine' = [mine EXCEPT ![i] = writes'] /\ stamp' = [stamp EXCEPT ![i] = time]
    BY <1>4 DEF StartWrite
  <2>3. mine' \in [Instances -> 0 .. writes'] /\ stamp' \in [Instances -> 0 .. time]
    BY <2>1, <2>2 DEF TierTypeOK
  <2>4. task' \in [Instances -> Tasks] /\ Writers' \subseteq Writers \cup {i}
    BY <1>4 DEF StartWrite, TierTypeOK, Writers
  <2>5. unclean' \subseteq Writes
    <3>1. {mine[j] : j \in Writers} \subseteq Writes
      BY DEF Numbered
    <3>2. unclean \subseteq Writes
      BY DEF TierTypeOK
    <3>3. unclean' = unclean \/ unclean' = unclean \cup {mine[j] : j \in Writers} \cup {writes'}
      BY <1>4, Zenon DEF StartWrite
    <3>4. QED
      BY <2>1, <3>1, <3>2, <3>3
  <2>6. Numbered'
    <3>1. \A j \in Writers' : mine'[j] = IF j = i THEN writes' ELSE mine[j]
      BY <2>2, <2>4 DEF TierTypeOK, Writers
    <3>2. QED
      BY <2>1, <2>4, <3>1 DEF Numbered, Writes
  <2>7. TierTypeOK'
    BY <2>1, <2>3, <2>4, <2>5 DEF TierTypeOK, Writes
  <2>8. QED
    BY <2>6, <2>7
<1>5. ASSUME NEW i \in Instances, WriteObject(i) PROVE TierTypeOK' /\ Numbered'
  <2>1. object' \in Record
    BY <1>1, <1>2, <1>5 DEF WriteObject, TierTypeOK
  <2>2. task' \in [Instances -> Tasks] /\ Writers' = Writers
    BY <1>5 DEF WriteObject, TierTypeOK, Writers
  <2>3. QED
    BY <1>5, <2>1, <2>2 DEF WriteObject, TierTypeOK, Numbered
<1>6. ASSUME NEW i \in Instances, WriteFails(i) PROVE TierTypeOK' /\ Numbered'
  BY <1>3, <1>6 DEF WriteFails, TierTypeOK
<1>7. ASSUME NEW i \in Instances, WriteItem(i) PROVE TierTypeOK' /\ Numbered'
  <2>1. EndTask(i) /\ UNCHANGED <<time, object, writes>> /\ i \in Writers
    BY <1>7 DEF WriteItem, Writers
  <2>2. Item(i) \in Deleted .. MaxTime
    BY <1>1, <1>2 DEF Item, Deleted
  <2>3. item' \in Deleted .. MaxTime
    BY <1>7, <2>2 DEF WriteItem, TierTypeOK
  <2>4. local' \in [Instances -> Record]
    BY <1>1, <1>2, <1>7 DEF WriteItem, TierTypeOK
  <2>5. unclean' \subseteq Writes
    BY <1>7, <2>1 DEF WriteItem, TierTypeOK, Numbered
  <2>6. QED
    BY <1>3, <2>1, <2>3, <2>4, <2>5
<1>8. ASSUME NEW i \in Instances, StartRead(i) PROVE TierTypeOK' /\ Numbered'
  <2>1. task' \in [Instances -> Tasks] /\ Writers' = Writers
    BY <1>8 DEF StartRead, TierTypeOK, Writers
  <2>2. QED
    BY <1>8, <2>1 DEF StartRead, TierTypeOK, Numbered
<1>9. ASSUME NEW i \in Instances, AskItem(i) PROVE TierTypeOK' /\ Numbered'
  <2>1. CASE EndTask(i)
    <3>1. local' \in [Instances -> Record]
      BY <1>1, <1>9 DEF AskItem, TierTypeOK
    <3>2. QED
      BY <1>3, <1>9, <2>1, <3>1 DEF AskItem, TierTypeOK
  <2>2. CASE task' = [task EXCEPT ![i] = "read"] /\ UNCHANGED <<local, mine, stamp, due>>
    <3>1. task' \in [Instances -> Tasks] /\ Writers' = Writers
      BY <1>9, <2>2 DEF AskItem, TierTypeOK, Writers
    <3>2. QED
      BY <1>9, <2>2, <3>1 DEF AskItem, TierTypeOK, Numbered
  <2>3. QED
    BY <1>9, <2>1, <2>2 DEF AskItem
<1>10. ASSUME NEW i \in Instances, ReadObject(i) PROVE TierTypeOK' /\ Numbered'
  <2>1. local' \in [Instances -> Record]
    BY <1>10 DEF ReadObject, TierTypeOK
  <2>2. QED
    BY <1>3, <1>10, <2>1 DEF ReadObject, TierTypeOK
<1>11. ASSUME NEW i \in Instances, EvictLocal(i) PROVE TierTypeOK' /\ Numbered'
  <2>1. local' \in [Instances -> Record]
    BY <1>1, <1>11 DEF EvictLocal, TierTypeOK
  <2>2. QED
    BY <1>11, <2>1 DEF EvictLocal, TierTypeOK, Numbered, Writers
<1>12. CASE TierTick
  BY <1>12 DEF TierTick, TierTypeOK, Numbered, Writers
<1>13. CASE UNCHANGED tierVars
  BY <1>13 DEF tierVars, TierTypeOK, Numbered, Writers
<1>14. QED
  BY <1>4, <1>5, <1>6, <1>7, <1>8, <1>9, <1>10, <1>11, <1>12, <1>13 DEF TierNext

\* The state of the tiers is well typed, and no time in it is later than the present.
THEOREM TierTyping == TierSpec => []TierTypeOK
<1>1. TierInit => Numbered
  BY TierTypeInit DEF Numbered
<1>2. QED
  BY <1>1, TierTypeInit, TierTypeStep, PTL DEF TierSpec

-----------------------------------------------------------------------------
(* The caches side by side *)

\* Whichever part takes the steps, each part behaves as it does on its own.
THEOREM CachesApart ==
    MCSpec => PagesSpec /\ RegionalSpec /\ ComposableSpec /\ TierSpec /\ DeploymentSpec
<1>1. MCInit => PagesInit /\ RegionalInit /\ ComposableInit /\ TierInit /\ DeploymentInit
  BY DEF MCInit
<1>2. [MCNext]_<<part, pageVars, regionVars, composableVars, tierVars, deploymentVars>> =>
        /\ [PagesNext]_pageVars
        /\ [RegionalNext]_regionVars
        /\ [ComposableNext]_composableVars
        /\ [TierNext]_tierVars
        /\ [DeploymentNext]_deploymentVars
  BY DEF MCNext, PagesPart
<1>3. QED
  BY <1>1, <1>2, PTL DEF MCSpec, PagesSpec, RegionalSpec, ComposableSpec, TierSpec, DeploymentSpec

\* Side by side, each of the caches and the deployment keeps its types.
THEOREM CachesTyping == MCSpec => []CachesTypeOK
<1>1. PagesTypeOK /\ RegionalTypeOK /\ ComposableTypeOK /\ TierTypeOK /\ DeploymentTypeOK => CachesTypeOK
  BY DEF CachesTypeOK
<1>2. QED
  BY <1>1, CachesApart, PagesTyping, RegionalTyping, ComposableTyping, TierTyping, DeploymentTyping, PTL

\* All that a cache, or the mapping of a deployment, promises holds side by side as well.
THEOREM CachesKeepPromises ==
    MCSpec =>
        /\ []StaleOnlyByOverlap /\ RevalidationsKept
        /\ []BehindOnlyByRace /\ []StaleHitOnlyByRefill
        /\ []OlderOnlyByOverlap
        /\ []LocalStaleOnlyInInstant
        /\ []RoutedToOwn /\ []ForgottenOnlyByRace /\ []LiveIsPopulated
  BY CachesApart, NoStaleAnswer, RecordsKept, RegionFollowsBucket, PurgeEmptiesRegion, NewestAnswered,
     NoOldLocalEntry, AlwaysRoutedToOwn, NotForgotten, LiveAlwaysPopulated, PTL

=============================================================================
