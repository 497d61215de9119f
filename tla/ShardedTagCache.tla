-------------------------- MODULE ShardedTagCache --------------------------
(***************************************************************************)
(* The sharded tag cache: when tags were last revalidated.                 *)
(* packages/cloudflare/src/api/overrides/tag-cache/do-sharded-tag-cache.ts *)
(* with the Durable Object of durable-objects/sharded-tag-cache.ts.        *)
(*                                                                         *)
(* Each tag belongs to one shard, each shard to several replicas, and one  *)
(* object holds one replica of one shard.  A write goes to every replica,  *)
(* with retries; a read asks one replica, after a regional cache that the  *)
(* reads fill in the background and the writes delete from.  A lookup is   *)
(* the part of a read that asks one object; the read combines the answers  *)
(* of its lookups with `some` or the maximum.                              *)
(***************************************************************************)
EXTENDS Integers, FiniteSets

CONSTANTS
    Writers,         \* calls of writeTags(), each at most once
    Lookups,         \* slots for lookups of reads, used again and again
    Tags,
    Shards,
    ShardOf,         \* the shard of a tag
    Replicas,        \* replicas of a shard, over all regions
    None,            \* no object, no entry
    MaxWriteRetries, \* maxWriteRetries
    RegionalCache,   \* regionalCache
    PersistMissing,  \* regionalCacheDangerouslyPersistMissingTags
    Ttl,             \* regionalCacheTtlSec
    MaxTime,         \* bound: the last instant
    Modified         \* bound: lastModified of what reads are about

Objects == Shards \X Replicas

ASSUME ActorsAssumption == Writers \cap Lookups = {}
ASSUME ShardsAssumption == ShardOf \in [Tags -> Shards] /\ None \notin Objects
ASSUME OptionsAssumption ==
    /\ MaxWriteRetries \in Nat
    /\ RegionalCache \in BOOLEAN
    /\ PersistMissing \in BOOLEAN
    /\ Ttl \in Nat \ {0}
ASSUME BoundsAssumption == MaxTime \in Nat \ {0} /\ Modified \in SUBSET Nat

VARIABLES
    now,     \* Date.now(), from 1 on
    table,   \* revalidatedAt of a tag in an object, 0 when it has no row
    cache,   \* the regional cache: None or an entry, for each tag
    writer,  \* a writer is idle, writing or done
    tags,    \* the tags of a writer, of a lookup's read
    time,    \* nowMs of a writer
    calls,   \* where the write of a writer to an object is
    tries,   \* retryNumber of that write
    before,  \* history: the writers that were done when a writer started
    lookup,  \* where a lookup is
    query,   \* what a lookup asks, or asked
    reply,   \* what it answered
    toPut,   \* tags of a lookup still to be put into the regional cache
    times,   \* revalidation times a lookup puts there
    crossed, \* history: writers that deleted entries of its object since it
             \* fetched those times
    past     \* history: the writers that were done when a lookup started

writing == <<writer, time, calls, tries, before>>
reading == <<lookup, query, reply, toPut, times, crossed, past>>
vars == <<now, table, cache, tags, writing, reading>>

----------------------------------------------------------------------------
(* State *)

\* An entry of the regional cache; outlived is history: the writers whose
\* deletion it escaped, because the deletion failed or the put came after it.
Entry == [time : Nat, left : 1 .. Ttl, from : Objects, outlived : SUBSET Writers]
Query == [op : {"has", "last"}, object : Objects, group : SUBSET Tags,
          lastModified : Nat, cached : SUBSET Tags, best : Nat]
NoQuery == [op |-> "has", object |-> None, group |-> {}, lastModified |-> 0, cached |-> {}, best |-> 0]
Done == {w \in Writers : writer[w] = "done"}

\* groupTagsByDO: the tags that an object holds, among those of an operation.
GroupOf(ts, d) == {t \in ts : ShardOf[t] = d[1]}

IsMax(m, S) == m \in S /\ \A n \in S : n <= m

Init ==
    /\ now = 1
    /\ table = [d \in Objects |-> [t \in Tags |-> 0]]
    /\ cache = [t \in Tags |-> None]
    /\ writer = [w \in Writers |-> "idle"]
    /\ tags = [x \in Writers \cup Lookups |-> {}]
    /\ time = [w \in Writers |-> 0]
    /\ calls = [w \in Writers |-> [d \in Objects |-> "none"]]
    /\ tries = [w \in Writers |-> [d \in Objects |-> 0]]
    /\ before = [w \in Writers |-> {}]
    /\ lookup = [l \in Lookups |-> "idle"]
    /\ query = [l \in Lookups |-> NoQuery]
    /\ reply = [l \in Lookups |-> [answer |-> "none", time |-> 0]]
    /\ toPut = [l \in Lookups |-> {}]
    /\ times = [l \in Lookups |-> [t \in Tags |-> 0]]
    /\ crossed = [l \in Lookups |-> {}]
    /\ past = [l \in Lookups |-> {}]

----------------------------------------------------------------------------
(* writeTags(tags) *)

\* One time for all tags, one call for each object that holds one of them.
WriteTags(w, ts) ==
    /\ writer[w] = "idle"
    /\ writer' = [writer EXCEPT ![w] = "writing"]
    /\ tags' = [tags EXCEPT ![w] = ts]
    /\ time' = [time EXCEPT ![w] = now]
    /\ calls' = [calls EXCEPT ![w] = [d \in Objects |-> IF GroupOf(ts, d) = {} THEN "none" ELSE "calling"]]
    /\ before' = [before EXCEPT ![w] = Done]
    /\ UNCHANGED <<now, table, cache, tries, reading>>

\* Mutant: INSERT OR IGNORE for INSERT OR REPLACE.
StoredOnce(w, d) ==
    [t \in Tags |-> IF t \in GroupOf(tags[w], d) /\ table[d][t] = 0 THEN time[w] ELSE table[d][t]]
\* INSERT OR REPLACE: the rows of the object after the call.
Stored(w, d) ==
    [t \in Tags |-> IF t \in GroupOf(tags[w], d) THEN time[w] ELSE table[d][t]]

\* The object runs writeTags and its answer arrives.
WriteApplied(w, d) ==
    /\ calls[w][d] = "calling"
    /\ table' = [table EXCEPT ![d] = Stored(w, d)]
    /\ calls' = [calls EXCEPT ![w][d] = "deleting"]
    /\ tries' = [tries EXCEPT ![w][d] = 0]
    /\ UNCHANGED <<now, cache, tags, writer, time, before, reading>>

MayRetry(w, d) == tries[w][d] < MaxWriteRetries

\* The call throws, before or after the object ran it: try again, or hand the
\* write to the dead letter queue and carry on.
WriteFails(w, d) ==
    /\ calls[w][d] = "calling"
    /\ \E applied \in BOOLEAN : table' = IF applied THEN [table EXCEPT ![d] = Stored(w, d)] ELSE table
    /\ IF MayRetry(w, d)
       THEN tries' = [tries EXCEPT ![w][d] = @ + 1] /\ UNCHANGED calls
       ELSE calls' = [calls EXCEPT ![w][d] = "abandoned"] /\ tries' = [tries EXCEPT ![w][d] = 0]
    /\ UNCHANGED <<now, cache, tags, writer, time, before, reading>>

\* Mutant: the first replica's deletion has to do for all.
DeletedKeysOnce(w, d) ==
    IF \E e \in Objects : calls[w][e] = "done" THEN {} ELSE GroupOf(tags[w], d)
DeletedKeys(w, d) == GroupOf(tags[w], d)

\* deleteRegionalCache: errors are swallowed, and the cache of another region
\* is not reached, so any of the entries may stay.
DeleteRegional(w, d) ==
    /\ calls[w][d] = "deleting"
    /\ calls' = [calls EXCEPT ![w][d] = "done"]
    /\ \E kept \in SUBSET DeletedKeys(w, d) :
          cache' = [t \in Tags |->
                      IF t \notin DeletedKeys(w, d) \/ cache[t] = None THEN cache[t]
                      ELSE IF t \in kept THEN [cache[t] EXCEPT !.outlived = @ \cup {w}]
                      ELSE None]
    /\ crossed' = [l \in Lookups |->
                     IF lookup[l] = "putting" /\ query[l].object = d THEN crossed[l] \cup {w} ELSE crossed[l]]
    /\ UNCHANGED <<now, table, tags, writer, time, tries, before, lookup, query, reply, toPut, times, past>>

WriteReturns(w) ==
    /\ writer[w] = "writing"
    /\ \A d \in Objects : calls[w][d] \in {"none", "done", "abandoned"}
    /\ writer' = [writer EXCEPT ![w] = "done"]
    /\ UNCHANGED <<now, table, cache, tags, time, calls, tries, before, reading>>

----------------------------------------------------------------------------
(* hasBeenRevalidated(tags, lastModified) and getLastRevalidated(tags) *)

Reply(l, answer, t) == reply' = [reply EXCEPT ![l] = [answer |-> answer, time |-> t]]

\* Mutant: a regional cache that holds all tags answers every read.
AnsweredByCacheAlone(q) == q.cached = q.group
\* getLastRevalidated is answered by the regional cache when it holds all of
\* the group's tags, hasBeenRevalidated when one of them is newer.
AnsweredByCache(q) ==
    IF q.op = "has" THEN q.best > q.lastModified ELSE q.cached = q.group

\* What getFromRegionalCache finds.
CachedTags(group) == IF RegionalCache THEN {t \in group : cache[t] # None} ELSE {}

\* getFromRegionalCache for the group of a read of ts that an object holds.  A
\* replica is picked for each tag, so that the group may lack tags of the shard.
\* Only getLastRevalidated looks at the tags of the read outside the group.
LookUp(l, op, ts, d, group, lm) ==
    /\ lookup[l] = "idle"
    /\ group \subseteq GroupOf(ts, d)
    /\ lm <= now
    /\ IF op = "has" THEN ts = group ELSE lm = 0
    /\ \E best \in 0 .. now :
          LET q == [op |-> op, object |-> d, group |-> group,
                    lastModified |-> lm, cached |-> CachedTags(group), best |-> best]
          IN /\ IsMax(best, {0} \cup {cache[t].time : t \in q.cached})
             /\ query' = [query EXCEPT ![l] = q]
             /\ IF AnsweredByCache(q)
                THEN /\ UNCHANGED lookup
                     /\ Reply(l, IF op = "last" THEN "time" ELSE IF best > lm THEN "yes" ELSE "no", best)
                ELSE /\ lookup' = [lookup EXCEPT ![l] = "asking"]
                     /\ Reply(l, "none", 0)
    /\ tags' = [tags EXCEPT ![l] = ts]
    /\ past' = [past EXCEPT ![l] = Done]
    /\ UNCHANGED <<now, table, cache, writing, toPut, times, crossed>>

\* waitUntil(putToRegionalCache(...)) for the given tags.
PutLater(l, ts) ==
    /\ toPut' = [toPut EXCEPT ![l] = IF RegionalCache THEN ts ELSE {}]
    /\ lookup' = [lookup EXCEPT ![l] = IF RegionalCache /\ ts # {} THEN "fetching" ELSE "idle"]

\* The object answers hasBeenRevalidated for the tags of the group.
AnswerHas(l) ==
    LET q == query[l] IN
    /\ lookup[l] = "asking"
    /\ q.op = "has"
    /\ Reply(l, IF \E t \in q.group : table[q.object][t] > q.lastModified THEN "yes" ELSE "no", 0)
    /\ PutLater(l, q.group \ q.cached)
    /\ UNCHANGED <<now, table, cache, tags, writing, query, times, crossed, past>>

\* The object answers getLastRevalidated for the tags of the whole read that
\* were not found in the regional cache.
AnswerLast(l) ==
    LET q == query[l] IN
    /\ lookup[l] = "asking"
    /\ q.op = "last"
    /\ \E m \in 0 .. now :
          /\ IsMax(m, {q.best} \cup {table[q.object][t] : t \in tags[l] \ q.cached})
          /\ Reply(l, "time", m)
    /\ PutLater(l, q.group)
    /\ UNCHANGED <<now, table, cache, tags, writing, query, times, crossed, past>>

\* The call throws; the read answers false or 0.
LookUpFails(l) ==
    /\ lookup[l] = "asking"
    /\ lookup' = [lookup EXCEPT ![l] = "idle"]
    /\ Reply(l, "failed", 0)
    /\ UNCHANGED <<now, table, cache, tags, writing, query, toPut, times, crossed, past>>

\* putToRegionalCache: getRevalidationTimes; a tag without a row is left out
\* unless missing tags are persisted.
FetchTimes(l) ==
    LET rows == table[query[l].object]
        found == {t \in toPut[l] : PersistMissing \/ rows[t] # 0}
    IN /\ lookup[l] = "fetching"
       /\ times' = [times EXCEPT ![l] = [t \in Tags |-> IF t \in found THEN rows[t] ELSE 0]]
       /\ toPut' = [toPut EXCEPT ![l] = found]
       /\ lookup' = [lookup EXCEPT ![l] = IF found = {} THEN "idle" ELSE "putting"]
       /\ UNCHANGED <<now, table, cache, tags, writing, query, reply, crossed, past>>

\* Mutant: the present time is put.
TimeToPutNow(l, t) == now
TimeToPut(l, t) == times[l][t]

\* The puts of the tags are independent of each other.
Put(l, t) ==
    /\ lookup[l] = "putting"
    /\ t \in toPut[l]
    /\ cache' = [cache EXCEPT ![t] = [time |-> TimeToPut(l, t), left |-> Ttl,
                                      from |-> query[l].object, outlived |-> crossed[l]]]
    /\ toPut' = [toPut EXCEPT ![l] = @ \ {t}]
    /\ times' = [times EXCEPT ![l][t] = 0]
    /\ IF toPut[l] = {t}
       THEN /\ lookup' = [lookup EXCEPT ![l] = "idle"]
            /\ crossed' = [crossed EXCEPT ![l] = {}]
       ELSE UNCHANGED <<lookup, crossed>>
    /\ UNCHANGED <<now, table, tags, writing, query, reply, past>>

\* The background work fails or is cut off.
PutFails(l) ==
    /\ lookup[l] \in {"fetching", "putting"}
    /\ lookup' = [lookup EXCEPT ![l] = "idle"]
    /\ toPut' = [toPut EXCEPT ![l] = {}]
    /\ times' = [times EXCEPT ![l] = [t \in Tags |-> 0]]
    /\ crossed' = [crossed EXCEPT ![l] = {}]
    /\ UNCHANGED <<now, table, cache, tags, writing, query, reply, past>>

----------------------------------------------------------------------------

\* The Cache API drops an entry when it likes.
Evict(t) ==
    /\ cache[t] # None
    /\ cache' = [cache EXCEPT ![t] = None]
    /\ UNCHANGED <<now, table, tags, writing, reading>>

\* Time passes, and entries reach their max-age.
Tick ==
    /\ now < MaxTime
    /\ now' = now + 1
    /\ cache' = [t \in Tags |->
                   IF cache[t] = None THEN None
                   ELSE IF cache[t].left = 1 THEN None
                   ELSE [cache[t] EXCEPT !.left = @ - 1]]
    /\ UNCHANGED <<table, tags, writing, reading>>

Write(w, d) == WriteApplied(w, d) \/ WriteFails(w, d) \/ DeleteRegional(w, d)
Answer(l) == AnswerHas(l) \/ AnswerLast(l) \/ LookUpFails(l)
Background(l) == FetchTimes(l) \/ PutFails(l) \/ \E t \in Tags : Put(l, t)

Next ==
    \/ \E w \in Writers, ts \in SUBSET Tags \ {{}} : WriteTags(w, ts)
    \/ \E w \in Writers, d \in Objects : Write(w, d)
    \/ \E w \in Writers : WriteReturns(w)
    \/ \E l \in Lookups, op \in {"has", "last"}, ts \in SUBSET Tags, d \in Objects :
          \E group \in SUBSET ts \ {{}}, lm \in Modified \cup {0} : LookUp(l, op, ts, d, group, lm)
    \/ \E l \in Lookups : Answer(l) \/ Background(l)
    \/ \E t \in Tags : Evict(t)
    \/ Tick

Spec == Init /\ [][Next]_vars

----------------------------------------------------------------------------
(* Properties *)

\* The states the operations leave; a write is tried 1 + maxWriteRetries times.
TypeOK ==
    /\ now \in 1 .. MaxTime
    /\ table \in [Objects -> [Tags -> Nat]]
    /\ cache \in [Tags -> Entry \cup {None}]
    /\ writer \in [Writers -> {"idle", "writing", "done"}]
    /\ tags \in [Writers \cup Lookups -> SUBSET Tags]
    /\ time \in [Writers -> Nat]
    /\ calls \in [Writers -> [Objects -> {"none", "calling", "deleting", "done", "abandoned"}]]
    /\ tries \in [Writers -> [Objects -> 0 .. MaxWriteRetries]]
    /\ before \in [Writers -> SUBSET Writers]
    /\ lookup \in [Lookups -> {"idle", "asking", "fetching", "putting"}]
    /\ query \in [Lookups -> Query \cup {NoQuery}]
    /\ \A l \in Lookups : lookup[l] # "idle" => query[l] \in Query
    /\ reply \in [Lookups -> [answer : {"none", "yes", "no", "time", "failed"}, time : Nat]]
    /\ toPut \in [Lookups -> SUBSET Tags]
    /\ times \in [Lookups -> [Tags -> Nat]]
    /\ crossed \in [Lookups -> SUBSET Writers]
    /\ past \in [Lookups -> SUBSET Writers]

\* An older write of the tag was in flight when w started.
Overlapped(w, t) ==
    \E v \in Writers :
        /\ writer[v] # "idle"
        /\ t \in tags[v]
        /\ time[v] < time[w]
        /\ v \notin before[w]

Landed(w, d) == calls[w][d] \in {"deleting", "done"}

\* In every object that a write reached, the tag's time is that of the write
\* or a later one; only a write that it overlapped, retried or delayed, can
\* set it back.
NewestWriteWins ==
    \A w \in Writers, d \in Objects : Landed(w, d) =>
        \A t \in GroupOf(tags[w], d) : table[d][t] >= time[w] \/ Overlapped(w, t)

\* The answer of a lookup overlooks a revalidation at a time.
Overlooks(l, m) ==
    \/ reply[l].answer = "no" /\ m > query[l].lastModified
    \/ reply[l].answer = "time" /\ m > reply[l].time

\* A lookup that starts after writeTags returned sees its time, unless the
\* write was given up at the object it asks or overlapped an older one.  The
\* regional cache can hide it from getLastRevalidated, never from
\* hasBeenRevalidated.
FinishedWritesSeen ==
    \A l \in Lookups : \A w \in past[l] : \A t \in tags[w] \cap query[l].group :
        Overlooks(l, time[w]) =>
            \/ calls[w][query[l].object] = "abandoned"
            \/ Overlapped(w, t)
            \/ query[l].op = "last" /\ t \in query[l].cached

\* An entry of the regional cache is older than a write that has deleted it
\* only if the deletion failed, or a lookup fetched the time before the write
\* and put it after the deletion.  Filling the cache from one replica while
\* others are still to be written leaves nothing behind.
StaleOnlyByRace ==
    \A t \in Tags : cache[t] # None =>
        \A w \in Writers : t \in tags[w] /\ calls[w][cache[t].from] = "done" =>
            \/ cache[t].time >= time[w]
            \/ w \in cache[t].outlived
            \/ Overlapped(w, t)

\* A time that a tag has somewhere is that of a write of this very tag.
Written(t, n) == \E w \in Writers : writer[w] # "idle" /\ t \in tags[w] /\ time[w] = n

\* A lookup says that tags were revalidated only if one of them was, after
\* lastModified; a time it answers is the time of a write of one of the tags.
AnswersAreWritten ==
    \A l \in Lookups :
        /\ reply[l].answer = "yes" =>
              \E t \in query[l].group, n \in 1 .. now : n > query[l].lastModified /\ Written(t, n)
        /\ reply[l].answer = "time" /\ reply[l].time # 0 =>
              \E t \in tags[l] : Written(t, reply[l].time)

\* "Write operations always apply to all of the shards": when writeTags has
\* returned, every replica has the time of the write or a later one.
WritesReachAllReplicas ==
    \A w \in Done, d \in Objects : \A t \in GroupOf(tags[w], d) : table[d][t] >= time[w]

=============================================================================
