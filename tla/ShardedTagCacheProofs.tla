----------------------- MODULE ShardedTagCacheProofs -----------------------
(***************************************************************************)
(* Proofs about ShardedTagCache, for any writers, lookups, tags, shards,   *)
(* replicas and options.                                                   *)
(***************************************************************************)
EXTENDS ShardedTagCache, TLAPS

----------------------------------------------------------------------------
(* The inductive invariant adds these facts to the invariants of the runs. *)

\* How a writer and its calls advance together.
WritersOk ==
    /\ \A w \in Writers :
          /\ writer[w] = "idle" => tags[w] = {}
          /\ writer[w] # "idle" => time[w] \in 1 .. now
          /\ before[w] \subseteq Done
    /\ \A w \in Writers, d \in Objects :
          /\ writer[w] = "idle" \/ GroupOf(tags[w], d) = {} => calls[w][d] = "none"
          /\ writer[w] # "idle" /\ GroupOf(tags[w], d) # {} => calls[w][d] # "none"
          /\ writer[w] = "done" => calls[w][d] \in {"none", "done", "abandoned"}

\* What a lookup is about, and what it puts into the regional cache.
LookupOk(l) ==
    /\ past[l] \subseteq Done
    /\ reply[l].answer # "none" => query[l] \in Query
    /\ query[l].group \subseteq tags[l]
    /\ query[l].cached \subseteq query[l].group
    /\ query[l] \in Query => query[l].group \subseteq GroupOf(tags[l], query[l].object)
    /\ lookup[l] \in {"fetching", "putting"} => toPut[l] \subseteq query[l].group
LookupsOk == \A l \in Lookups : LookupOk(l)

\* An entry comes from an object of its tag's shard.
EntriesOk == \A t \in Tags : cache[t] # None => ShardOf[t] = cache[t].from[1]

\* A lookup that is about to put a time older than a write's: the write will
\* still delete it, or deleted before the put.
PutsOk ==
    \A l \in Lookups : lookup[l] = "putting" =>
        \A t \in toPut[l], w \in Writers :
            t \in tags[w] /\ Landed(w, query[l].object) =>
                \/ times[l][t] >= time[w]
                \/ calls[w][query[l].object] = "deleting"
                \/ w \in crossed[l]
                \/ Overlapped(w, t)

\* Every time that a table, an entry or a lookup has for a tag was written.
RowsWritten ==
    \A d \in Objects, t \in Tags : table[d][t] # 0 => Written(t, table[d][t])
EntriesWritten ==
    \A t \in Tags : cache[t] # None /\ cache[t].time # 0 => Written(t, cache[t].time)
FetchedWritten ==
    \A l \in Lookups, t \in Tags : times[l][t] # 0 => Written(t, times[l][t])
BestWritten ==
    \A l \in Lookups : query[l].best # 0 => \E t \in query[l].cached : Written(t, query[l].best)
TimesWritten == RowsWritten /\ EntriesWritten /\ FetchedWritten /\ BestWritten

Safe == NewestWriteWins /\ FinishedWritesSeen /\ StaleOnlyByRace /\ AnswersAreWritten

Inv == TypeOK /\ WritersOk /\ LookupsOk /\ EntriesOk /\ PutsOk /\ TimesWritten /\ Safe

----------------------------------------------------------------------------
(* Types *)

\* The initial state is well typed.
LEMMA TypeInit == Init => TypeOK
  BY OptionsAssumption, BoundsAssumption DEF Init, TypeOK, Query, NoQuery

\* The rows that writeTags leaves in an object.
LEMMA StoredType ==
    ASSUME TypeOK, NEW w \in Writers, NEW d \in Objects
    PROVE  Stored(w, d) \in [Tags -> Nat]
  BY DEF TypeOK, Stored

\* An entry stays one when another writer's deletion missed it.
LEMMA EntryUpdate ==
    ASSUME NEW e \in Entry, NEW w \in Writers
    PROVE  /\ [e EXCEPT !.outlived = @ \cup {w}] \in Entry
           /\ [e EXCEPT !.outlived = @ \cup {w}].time = e.time
           /\ [e EXCEPT !.outlived = @ \cup {w}].from = e.from
           /\ [e EXCEPT !.outlived = @ \cup {w}].outlived = e.outlived \cup {w}
  BY DEF Entry

\* An entry stays one when time passes.
LEMMA EntryAges ==
    ASSUME NEW e \in Entry, e.left # 1
    PROVE  /\ [e EXCEPT !.left = @ - 1] \in Entry
           /\ [e EXCEPT !.left = @ - 1].time = e.time
           /\ [e EXCEPT !.left = @ - 1].from = e.from
           /\ [e EXCEPT !.left = @ - 1].outlived = e.outlived
  BY OptionsAssumption DEF Entry

\* The fields of a query.
LEMMA QueryFields ==
    ASSUME TypeOK, NEW l \in Lookups
    PROVE  /\ query[l].group \in SUBSET Tags
           /\ query[l].cached \in SUBSET Tags
           /\ query[l].best \in Nat
           /\ query[l].lastModified \in Nat
           /\ query[l].op \in {"has", "last"}
           /\ lookup[l] # "idle" => query[l].object \in Objects
<1>1. query[l] \in Query \/ query[l] = NoQuery
  BY DEF TypeOK
<1>2. CASE query[l] \in Query
  BY <1>2 DEF Query
<1>3. CASE query[l] = NoQuery
  <2>1. lookup[l] # "idle" => query[l] \in Query
    BY DEF TypeOK
  <2>2. query[l] \in Query => query[l].object \in Objects
    BY DEF Query
  <2>3. QED
    BY <1>3, <2>1, <2>2 DEF NoQuery
<1>4. QED
  BY <1>1, <1>2, <1>3

\* Every step keeps the state well typed.
LEMMA TypeStep == TypeOK /\ [Next]_vars => TypeOK'
<1> SUFFICES ASSUME TypeOK, [Next]_vars PROVE TypeOK'
  OBVIOUS
<1> USE OptionsAssumption, BoundsAssumption
<1>1. ASSUME NEW w \in Writers, NEW ts \in SUBSET Tags, WriteTags(w, ts) PROVE TypeOK'
  BY <1>1 DEF TypeOK, WriteTags, reading, Done
<1>2. ASSUME NEW w \in Writers, NEW d \in Objects, WriteApplied(w, d) PROVE TypeOK'
  BY <1>2, StoredType DEF TypeOK, WriteApplied, reading
<1>3. ASSUME NEW w \in Writers, NEW d \in Objects, WriteFails(w, d) PROVE TypeOK'
  <2>1. table' \in [Objects -> [Tags -> Nat]]
    BY <1>3, StoredType DEF TypeOK, WriteFails
  <2>2. calls' = calls \/ calls' = [calls EXCEPT ![w][d] = "abandoned"]
    BY <1>3 DEF WriteFails
  <2>3. calls' \in [Writers -> [Objects -> {"none", "calling", "deleting", "done", "abandoned"}]]
    <3>1. [calls EXCEPT ![w][d] = "abandoned"]
            \in [Writers -> [Objects -> {"none", "calling", "deleting", "done", "abandoned"}]]
      BY DEF TypeOK
    <3>2. QED
      BY <2>2, <3>1 DEF TypeOK
  <2>4. tries' \in [Writers -> [Objects -> 0 .. MaxWriteRetries]]
    <3>1. CASE MayRetry(w, d)
      <4>1. tries' = [tries EXCEPT ![w][d] = @ + 1]
        BY <1>3, <3>1 DEF WriteFails
      <4>2. tries[w][d] + 1 \in 0 .. MaxWriteRetries
        BY <3>1 DEF MayRetry, TypeOK
      <4>3. QED
        BY <4>1, <4>2 DEF TypeOK
    <3>2. CASE ~MayRetry(w, d)
      <4>1. tries' = [tries EXCEPT ![w][d] = 0]
        BY <1>3, <3>2 DEF WriteFails
      <4>2. QED
        BY <4>1 DEF TypeOK
    <3>3. QED
      BY <3>1, <3>2
  <2>5. QED
    BY <1>3, <2>1, <2>3, <2>4 DEF TypeOK, WriteFails, reading
<1>4. ASSUME NEW w \in Writers, NEW d \in Objects, DeleteRegional(w, d) PROVE TypeOK'
  <2>1. cache' \in [Tags -> Entry \cup {None}]
    <3>1. PICK kept \in SUBSET DeletedKeys(w, d) :
            cache' = [t \in Tags |->
                        IF t \notin DeletedKeys(w, d) \/ cache[t] = None THEN cache[t]
                        ELSE IF t \in kept THEN [cache[t] EXCEPT !.outlived = @ \cup {w}]
                        ELSE None]
      BY <1>4 DEF DeleteRegional
    <3>2. ASSUME NEW t \in Tags, cache[t] # None
          PROVE  [cache[t] EXCEPT !.outlived = @ \cup {w}] \in Entry
      <4>1. cache[t] \in Entry
        BY <3>2 DEF TypeOK
      <4>2. QED
        BY <4>1, EntryUpdate
    <3>3. \A t \in Tags : cache[t] \in Entry \cup {None}
      BY DEF TypeOK
    <3>4. QED
      BY <3>1, <3>2, <3>3
  <2>2. calls' \in [Writers -> [Objects -> {"none", "calling", "deleting", "done", "abandoned"}]]
    BY <1>4 DEF TypeOK, DeleteRegional
  <2>3. crossed' \in [Lookups -> SUBSET Writers]
    BY <1>4 DEF TypeOK, DeleteRegional
  <2>4. QED
    BY <1>4, <2>1, <2>2, <2>3 DEF TypeOK, DeleteRegional
<1>5. ASSUME NEW w \in Writers, WriteReturns(w) PROVE TypeOK'
  BY <1>5 DEF TypeOK, WriteReturns, reading
<1>6. ASSUME NEW l \in Lookups, NEW op \in {"has", "last"}, NEW ts \in SUBSET Tags,
             NEW d \in Objects, NEW group \in SUBSET ts, NEW lm \in Nat,
             LookUp(l, op, ts, d, group, lm)
      PROVE  TypeOK'
  <2>1. CachedTags(group) \in SUBSET Tags
    BY DEF CachedTags
  <2>2. PICK best \in 0 .. now :
           /\ query' = [query EXCEPT ![l] = [op |-> op, object |-> d, group |-> group,
                          lastModified |-> lm, cached |-> CachedTags(group), best |-> best]]
           /\ \/ lookup' = lookup
              \/ lookup' = [lookup EXCEPT ![l] = "asking"]
           /\ \/ Reply(l, "time", best)
              \/ Reply(l, "yes", best)
              \/ Reply(l, "no", best)
              \/ Reply(l, "none", 0)
    BY <1>6, Zenon DEF LookUp
  <2>3. best \in Nat
    BY DEF TypeOK
  <2>4. query' \in [Lookups -> Query \cup {NoQuery}]
    BY <2>1, <2>2, <2>3 DEF TypeOK, Query
  <2>5. reply' \in [Lookups -> [answer : {"none", "yes", "no", "time", "failed"}, time : Nat]]
    BY <2>2, <2>3 DEF TypeOK, Reply
  <2>6. lookup' \in [Lookups -> {"idle", "asking", "fetching", "putting"}]
    BY <2>2 DEF TypeOK
  <2>7. /\ tags' \in [Writers \cup Lookups -> SUBSET Tags]
        /\ past' \in [Lookups -> SUBSET Writers]
    BY <1>6 DEF TypeOK, LookUp, Done
  <2>8. \A k \in Lookups : lookup'[k] # "idle" => query'[k] \in Query
    BY <2>1, <2>2, <2>3 DEF TypeOK, Query
  <2>9. QED
    BY <1>6, <2>4, <2>5, <2>6, <2>7, <2>8 DEF TypeOK, LookUp, writing
<1>7. ASSUME NEW l \in Lookups, AnswerHas(l) PROVE TypeOK'
  <2>1. query[l].group \ query[l].cached \in SUBSET Tags
    BY QueryFields
  <2>2. QED
    BY <1>7, <2>1 DEF TypeOK, AnswerHas, Reply, PutLater, writing
<1>8. ASSUME NEW l \in Lookups, AnswerLast(l) PROVE TypeOK'
  <2>1. query[l].group \in SUBSET Tags
    BY QueryFields
  <2>2. reply' \in [Lookups -> [answer : {"none", "yes", "no", "time", "failed"}, time : Nat]]
    BY <1>8 DEF TypeOK, AnswerLast, Reply
  <2>3. QED
    BY <1>8, <2>1, <2>2 DEF TypeOK, AnswerLast, PutLater, writing
<1>9. ASSUME NEW l \in Lookups, LookUpFails(l) PROVE TypeOK'
  BY <1>9 DEF TypeOK, LookUpFails, Reply, writing
<1>10. ASSUME NEW l \in Lookups, FetchTimes(l) PROVE TypeOK'
  <2>1. table[query[l].object] \in [Tags -> Nat]
    BY <1>10, QueryFields DEF TypeOK, FetchTimes
  <2>2. times' \in [Lookups -> [Tags -> Nat]]
    BY <1>10, <2>1 DEF TypeOK, FetchTimes
  <2>3. toPut' \in [Lookups -> SUBSET Tags]
    BY <1>10 DEF TypeOK, FetchTimes
  <2>4. QED
    BY <1>10, <2>2, <2>3 DEF TypeOK, FetchTimes, writing
<1>11. ASSUME NEW l \in Lookups, NEW t \in Tags, Put(l, t) PROVE TypeOK'
  <2>1. [time |-> TimeToPut(l, t), left |-> Ttl,
         from |-> query[l].object, outlived |-> crossed[l]] \in Entry
    BY <1>11, QueryFields DEF TypeOK, Put, TimeToPut, Entry
  <2>2. cache' \in [Tags -> Entry \cup {None}]
    BY <1>11, <2>1 DEF TypeOK, Put
  <2>3. times' \in [Lookups -> [Tags -> Nat]]
    BY <1>11 DEF TypeOK, Put
  <2>4. /\ lookup' = [lookup EXCEPT ![l] = "idle"] \/ lookup' = lookup
        /\ crossed' = [crossed EXCEPT ![l] = {}] \/ crossed' = crossed
        /\ toPut' = [toPut EXCEPT ![l] = @ \ {t}]
    BY <1>11 DEF Put
  <2>5. /\ lookup' \in [Lookups -> {"idle", "asking", "fetching", "putting"}]
        /\ crossed' \in [Lookups -> SUBSET Writers]
        /\ toPut' \in [Lookups -> SUBSET Tags]
        /\ \A k \in Lookups : lookup'[k] # "idle" => lookup[k] # "idle"
    BY <2>4 DEF TypeOK
  <2>6. QED
    BY <1>11, <2>2, <2>3, <2>5 DEF TypeOK, Put, writing
<1>12. ASSUME NEW l \in Lookups, PutFails(l) PROVE TypeOK'
  BY <1>12 DEF TypeOK, PutFails, writing
<1>13. ASSUME NEW t \in Tags, Evict(t) PROVE TypeOK'
  BY <1>13 DEF TypeOK, Evict, writing, reading
<1>14. CASE Tick
  <2>1. \A t \in Tags : cache[t] # None /\ cache[t].left # 1 =>
            [cache[t] EXCEPT !.left = @ - 1] \in Entry
    BY EntryAges DEF TypeOK
  <2>2. cache' \in [Tags -> Entry \cup {None}]
    BY <1>14, <2>1 DEF TypeOK, Tick
  <2>3. QED
    BY <1>14, <2>2 DEF TypeOK, Tick, writing, reading
<1>15. CASE UNCHANGED vars
  BY <1>15 DEF TypeOK, vars, writing, reading
<1>16. QED
  BY <1>1, <1>2, <1>3, <1>4, <1>5, <1>6, <1>7, <1>8, <1>9, <1>10, <1>11, <1>12,
     <1>13, <1>14, <1>15
     DEF Next, Write, Answer, Background

\* The state stays well typed, and no write is tried more often than
\* maxWriteRetries allows.
THEOREM Typing == Spec => []TypeOK
  BY TypeInit, TypeStep, PTL DEF Spec

----------------------------------------------------------------------------
(* How the writers advance *)

\* The steps that are not a writer's leave the writers alone.
LEMMA WriterFrame ==
    ASSUME TypeOK, [Next]_vars
    PROVE  \/ \E w \in Writers, ts \in SUBSET Tags \ {{}} : WriteTags(w, ts)
           \/ \E w \in Writers, d \in Objects : Write(w, d)
           \/ \E w \in Writers : WriteReturns(w)
           \/ /\ UNCHANGED writing
              /\ \A w \in Writers : tags'[w] = tags[w]
              /\ now' \in Nat
              /\ now <= now'
<1>1. ASSUME NEW l \in Lookups, NEW op, NEW ts, NEW d, NEW group, NEW lm, LookUp(l, op, ts, d, group, lm)
      PROVE  UNCHANGED <<now, writing>> /\ \A w \in Writers : tags'[w] = tags[w]
  BY <1>1, ActorsAssumption DEF LookUp, TypeOK
<1>2. ASSUME NEW l \in Lookups, Answer(l) \/ Background(l) PROVE UNCHANGED <<now, writing, tags>>
  BY <1>2 DEF Answer, Background, AnswerHas, AnswerLast, LookUpFails, FetchTimes, PutFails, Put
<1>3. ASSUME NEW t \in Tags, Evict(t) PROVE UNCHANGED <<now, writing, tags>>
  BY <1>3 DEF Evict
<1>4. CASE Tick
  BY <1>4 DEF Tick, TypeOK
<1>5. CASE UNCHANGED vars
  BY <1>5 DEF vars, TypeOK
<1>6. now \in Nat /\ now <= now
  BY DEF TypeOK
<1>7. QED
  BY <1>1, <1>2, <1>3, <1>4, <1>5, <1>6 DEF Next

\* A writer that has started keeps its tags, its time and its history.
LEMMA WritersAdvance ==
    ASSUME TypeOK, [Next]_vars, NEW w \in Writers, writer[w] # "idle"
    PROVE  /\ writer'[w] # "idle"
           /\ writer[w] = "done" => writer'[w] = "done"
           /\ tags'[w] = tags[w]
           /\ time'[w] = time[w]
           /\ before'[w] = before[w]
<1>1. ASSUME NEW v \in Writers, NEW ts \in SUBSET Tags, WriteTags(v, ts)
      PROVE  /\ writer'[w] = writer[w] /\ tags'[w] = tags[w]
             /\ time'[w] = time[w] /\ before'[w] = before[w]
  BY <1>1 DEF WriteTags, TypeOK
<1>2. ASSUME NEW v \in Writers, NEW d \in Objects, Write(v, d)
      PROVE  UNCHANGED <<writer, tags, time, before>>
  BY <1>2 DEF Write, WriteApplied, WriteFails, DeleteRegional
<1>3. ASSUME NEW v \in Writers, WriteReturns(v)
      PROVE  /\ writer'[w] # "idle"
             /\ writer[w] = "done" => writer'[w] = "done"
             /\ UNCHANGED <<tags, time, before>>
  BY <1>3 DEF WriteReturns, TypeOK
<1>4. QED
  BY <1>1, <1>2, <1>3, WriterFrame DEF writing

\* What was written stays written, who is done stays done, and an overlap that
\* is excused stays excused.
LEMMA HistoryStays ==
    ASSUME TypeOK, [Next]_vars
    PROVE  /\ Done \subseteq Done'
           /\ \A t \in Tags, n \in Nat : Written(t, n) => Written(t, n)'
           /\ \A w \in Writers, t \in Tags :
                writer[w] # "idle" /\ Overlapped(w, t) => Overlapped(w, t)'
<1>1. Done \subseteq Done'
  BY WritersAdvance DEF Done
<1>2. ASSUME NEW t \in Tags, NEW n \in Nat, Written(t, n) PROVE Written(t, n)'
  BY <1>2, WritersAdvance DEF Written
<1>3. ASSUME NEW w \in Writers, NEW t \in Tags, writer[w] # "idle", Overlapped(w, t)
      PROVE  Overlapped(w, t)'
  BY <1>3, WritersAdvance DEF Overlapped
<1>4. QED
  BY <1>1, <1>2, <1>3

\* Every step keeps the writers and their calls in line.
LEMMA WritersStep == TypeOK /\ TypeOK' /\ WritersOk /\ [Next]_vars => WritersOk'
<1> SUFFICES ASSUME TypeOK, TypeOK', WritersOk, [Next]_vars PROVE WritersOk'
  OBVIOUS
<1>1. ASSUME NEW w \in Writers, NEW ts \in SUBSET Tags \ {{}}, WriteTags(w, ts) PROVE WritersOk'
  BY <1>1 DEF WriteTags, WritersOk, TypeOK, Done, GroupOf
<1>2. ASSUME NEW w \in Writers, NEW d \in Objects, Write(w, d) PROVE WritersOk'
  <2>1. /\ calls[w][d] \in {"calling", "deleting"}
        /\ calls'[w][d] # "none"
        /\ \A v \in Writers, e \in Objects : <<v, e>> # <<w, d>> => calls'[v][e] = calls[v][e]
    BY <1>2 DEF Write, WriteApplied, WriteFails, DeleteRegional, TypeOK
  <2>2. UNCHANGED <<now, writer, tags, time, before>>
    BY <1>2 DEF Write, WriteApplied, WriteFails, DeleteRegional
  <2>3. writer[w] = "writing" /\ GroupOf(tags[w], d) # {}
    <3>1. writer[w] \in {"idle", "writing", "done"}
      BY DEF TypeOK
    <3>2. /\ writer[w] = "idle" \/ GroupOf(tags[w], d) = {} => calls[w][d] = "none"
          /\ writer[w] = "done" => calls[w][d] \in {"none", "done", "abandoned"}
      BY DEF WritersOk
    <3>3. QED
      BY <2>1, <3>1, <3>2
  <2>4. QED
    BY <2>1, <2>2, <2>3 DEF WritersOk, Done, GroupOf
<1>3. ASSUME NEW w \in Writers, WriteReturns(w) PROVE WritersOk'
  BY <1>3 DEF WriteReturns, WritersOk, TypeOK, Done, GroupOf
<1>4. CASE /\ UNCHANGED writing
           /\ \A w \in Writers : tags'[w] = tags[w]
           /\ now' \in Nat
           /\ now <= now'
  BY <1>4 DEF WritersOk, TypeOK, Done, GroupOf, writing
<1>5. QED
  BY <1>1, <1>2, <1>3, <1>4, WriterFrame

----------------------------------------------------------------------------
(* How the lookups advance *)

\* What the regional cache can do for a lookup: nothing, hold all tags of a
\* getLastRevalidated, or hold a newer one of a hasBeenRevalidated.
LookedUp(l, op, d, group, lm, q) ==
    /\ q.op = op /\ q.object = d /\ q.group = group /\ q.lastModified = lm
    /\ q.cached = CachedTags(group)
    /\ q.best = 0 \/ \E t \in q.cached : cache[t].time = q.best
    /\ query' = [query EXCEPT ![l] = q]
    /\ \/ /\ lookup' = [lookup EXCEPT ![l] = "asking"]
          /\ reply' = [reply EXCEPT ![l] = [answer |-> "none", time |-> 0]]
       \/ /\ lookup' = lookup
          /\ op = "last" /\ q.cached = group
          /\ reply' = [reply EXCEPT ![l] = [answer |-> "time", time |-> q.best]]
       \/ /\ lookup' = lookup
          /\ op = "has" /\ q.best > lm
          /\ reply' = [reply EXCEPT ![l] = [answer |-> "yes", time |-> q.best]]

\* A lookup that starts is in one of these three cases.
LEMMA LookUpFacts ==
    ASSUME TypeOK,
           NEW l \in Lookups, NEW op \in {"has", "last"}, NEW ts \in SUBSET Tags,
           NEW d \in Objects, NEW group \in SUBSET ts, NEW lm \in Nat,
           LookUp(l, op, ts, d, group, lm)
    PROVE  \E q \in Query : LookedUp(l, op, d, group, lm, q)
<1> DEFINE Q(best) == [op |-> op, object |-> d, group |-> group, lastModified |-> lm,
                       cached |-> CachedTags(group), best |-> best]
<1>1. PICK best \in 0 .. now :
        /\ IsMax(best, {0} \cup {cache[t].time : t \in Q(best).cached})
        /\ query' = [query EXCEPT ![l] = Q(best)]
        /\ IF AnsweredByCache(Q(best))
           THEN /\ UNCHANGED lookup
                /\ Reply(l, IF op = "last" THEN "time" ELSE IF best > lm THEN "yes" ELSE "no", best)
           ELSE /\ lookup' = [lookup EXCEPT ![l] = "asking"]
                /\ Reply(l, "none", 0)
  BY Zenon DEF LookUp
<1>2. best \in Nat
  BY DEF TypeOK
<1>3. CachedTags(group) \in SUBSET Tags
  BY DEF CachedTags
<1>4. Q(best) \in Query
  BY <1>2, <1>3 DEF Query
<1>5. best = 0 \/ \E t \in Q(best).cached : cache[t].time = best
  BY <1>1 DEF IsMax
<1>6. AnsweredByCache(Q(best)) <=> IF op = "has" THEN best > lm ELSE CachedTags(group) = group
  BY DEF AnsweredByCache
<1>7. LookedUp(l, op, d, group, lm, Q(best))
  <2>1. CASE AnsweredByCache(Q(best)) /\ op = "has"
    BY <1>1, <1>5, <1>6, <2>1 DEF Reply, LookedUp
  <2>2. CASE AnsweredByCache(Q(best)) /\ op = "last"
    BY <1>1, <1>5, <1>6, <2>2 DEF Reply, LookedUp
  <2>3. CASE ~AnsweredByCache(Q(best))
    BY <1>1, <1>5, <2>3 DEF Reply, LookedUp
  <2>4. QED
    BY <2>1, <2>2, <2>3
<1>8. QED
  BY <1>4, <1>7

\* The steps that are not a lookup's leave the lookups alone, but for crossed,
\* which only grows.
LEMMA LookupFrame ==
    ASSUME TypeOK, [Next]_vars
    PROVE  \/ \E l \in Lookups, op \in {"has", "last"}, ts \in SUBSET Tags, d \in Objects :
                 \E group \in SUBSET ts \ {{}}, lm \in Nat : LookUp(l, op, ts, d, group, lm)
           \/ \E l \in Lookups : Answer(l) \/ Background(l)
           \/ /\ UNCHANGED <<lookup, query, reply, toPut, times, past>>
              /\ \A l \in Lookups : tags'[l] = tags[l] /\ crossed[l] \subseteq crossed'[l]
<1>1. ASSUME NEW w \in Writers, NEW ts, WriteTags(w, ts)
      PROVE  UNCHANGED reading /\ \A l \in Lookups : tags'[l] = tags[l]
  BY <1>1, ActorsAssumption DEF WriteTags, TypeOK
<1>2. ASSUME NEW w \in Writers, NEW d \in Objects, Write(w, d)
      PROVE  /\ UNCHANGED <<lookup, query, reply, toPut, times, past, tags>>
             /\ \A l \in Lookups : crossed[l] \subseteq crossed'[l]
  BY <1>2 DEF Write, WriteApplied, WriteFails, DeleteRegional, reading
<1>3. ASSUME NEW w \in Writers, WriteReturns(w) PROVE UNCHANGED <<reading, tags>>
  BY <1>3 DEF WriteReturns
<1>4. ASSUME NEW t \in Tags, Evict(t) PROVE UNCHANGED <<reading, tags>>
  BY <1>4 DEF Evict
<1>5. CASE Tick
  BY <1>5 DEF Tick, reading
<1>6. CASE UNCHANGED vars
  BY <1>6 DEF vars, reading
<1>7. Modified \cup {0} \subseteq Nat
  BY BoundsAssumption
<1>8. QED
  BY <1>1, <1>2, <1>3, <1>4, <1>5, <1>6, <1>7 DEF Next, reading

\* A lookup asks for its group, and leaves the other lookups alone.
LEMMA LookUpEffect ==
    ASSUME TypeOK,
           NEW l \in Lookups, NEW op \in {"has", "last"}, NEW ts \in SUBSET Tags,
           NEW d \in Objects, NEW group \in SUBSET ts, NEW lm \in Nat,
           LookUp(l, op, ts, d, group, lm)
    PROVE  /\ \A k \in Lookups : k # l =>
                 /\ query'[k] = query[k] /\ lookup'[k] = lookup[k] /\ reply'[k] = reply[k]
                 /\ past'[k] = past[k] /\ tags'[k] = tags[k]
           /\ tags'[l] = ts /\ past'[l] = Done
           /\ lookup'[l] \in {"idle", "asking"}
           /\ query'[l] \in Query /\ query'[l].object = d
           /\ query'[l].group = group /\ query'[l].cached \subseteq group
           /\ group \subseteq GroupOf(ts, d)
           /\ UNCHANGED <<now, table, cache, writing, toPut, times, crossed>>
<1>1. /\ UNCHANGED <<now, table, cache, writing, toPut, times, crossed>>
      /\ tags' = [tags EXCEPT ![l] = ts] /\ past' = [past EXCEPT ![l] = Done]
      /\ lookup[l] = "idle"
      /\ group \subseteq GroupOf(ts, d)
  BY DEF LookUp
<1>2. CachedTags(group) \subseteq group
  BY DEF CachedTags
<1>3. PICK q \in Query : LookedUp(l, op, d, group, lm, q)
  BY LookUpFacts
<1>4. /\ \A k \in Lookups : k # l => query'[k] = query[k] /\ lookup'[k] = lookup[k] /\ reply'[k] = reply[k]
      /\ lookup'[l] \in {"idle", "asking"}
  BY <1>1, <1>3 DEF TypeOK, LookedUp
<1>5. query'[l] \in Query /\ query'[l].object = d /\ query'[l].group = group /\ query'[l].cached \subseteq group
  BY <1>2, <1>3 DEF TypeOK, LookedUp
<1>6. QED
  BY <1>1, <1>4, <1>5 DEF TypeOK

\* The other steps of a lookup leave what it asks and the other lookups alone.
LEMMA LookupEffect ==
    ASSUME TypeOK, NEW l \in Lookups, Answer(l) \/ Background(l)
    PROVE  /\ UNCHANGED <<now, table, writing, query, past, tags>>
           /\ lookup[l] # "idle"
           /\ \A k \in Lookups : k # l =>
                 /\ reply'[k] = reply[k] /\ lookup'[k] = lookup[k] /\ toPut'[k] = toPut[k]
                 /\ times'[k] = times[k] /\ crossed'[k] = crossed[k]
<1>1. CASE AnswerHas(l)
  BY <1>1 DEF AnswerHas, Reply, PutLater, TypeOK
<1>2. CASE AnswerLast(l)
  BY <1>2 DEF AnswerLast, Reply, PutLater, TypeOK
<1>3. CASE LookUpFails(l)
  BY <1>3 DEF LookUpFails, Reply, TypeOK
<1>4. CASE FetchTimes(l)
  BY <1>4 DEF FetchTimes, TypeOK
<1>5. CASE PutFails(l)
  BY <1>5 DEF PutFails, TypeOK
<1>6. CASE \E t \in Tags : Put(l, t)
  BY <1>6 DEF Put, TypeOK
<1>7. QED
  BY <1>1, <1>2, <1>3, <1>4, <1>5, <1>6 DEF Answer, Background

\* What a lookup has still to put is among the tags it asked for.
LEMMA ToPutStep ==
    ASSUME TypeOK, LookupsOk, NEW l \in Lookups, Answer(l) \/ Background(l),
           lookup'[l] \in {"fetching", "putting"}
    PROVE  toPut'[l] \subseteq query[l].group
<1>1. lookup[l] \in {"fetching", "putting"} => toPut[l] \subseteq query[l].group
  BY DEF LookupsOk, LookupOk
<1>2. CASE AnswerHas(l)
  BY <1>2 DEF AnswerHas, PutLater, TypeOK
<1>3. CASE AnswerLast(l)
  BY <1>3 DEF AnswerLast, PutLater, TypeOK
<1>4. CASE LookUpFails(l)
  BY <1>4 DEF LookUpFails, TypeOK
<1>5. CASE FetchTimes(l)
  BY <1>1, <1>5 DEF FetchTimes, TypeOK
<1>6. CASE PutFails(l)
  BY <1>6 DEF PutFails, TypeOK
<1>7. CASE \E t \in Tags : Put(l, t)
  BY <1>1, <1>7 DEF Put, TypeOK
<1>8. QED
  BY <1>2, <1>3, <1>4, <1>5, <1>6, <1>7 DEF Answer, Background

\* Every step keeps the lookups in line.
LEMMA LookupsStep == TypeOK /\ LookupsOk /\ [Next]_vars => LookupsOk'
<1> SUFFICES ASSUME TypeOK, LookupsOk, [Next]_vars PROVE LookupsOk'
  OBVIOUS
<1>1. Done \subseteq Done'
  BY HistoryStays
<1>2. ASSUME NEW l \in Lookups, NEW op \in {"has", "last"}, NEW ts \in SUBSET Tags, NEW d \in Objects,
             NEW group \in SUBSET ts, NEW lm \in Nat, LookUp(l, op, ts, d, group, lm)
      PROVE  LookupsOk'
  <2>1. ASSUME NEW k \in Lookups, k # l PROVE LookupOk(k)'
    BY <1>1, <1>2, <2>1, LookUpEffect DEF LookupsOk, LookupOk, GroupOf
  <2>2. LookupOk(l)'
    BY <1>1, <1>2, LookUpEffect DEF LookupOk, GroupOf
  <2>3. QED
    BY <2>1, <2>2 DEF LookupsOk
<1>3. ASSUME NEW l \in Lookups, Answer(l) \/ Background(l) PROVE LookupsOk'
  <2>1. ASSUME NEW k \in Lookups, k # l PROVE LookupOk(k)'
    BY <1>1, <1>3, <2>1, LookupEffect DEF LookupsOk, LookupOk
  <2>2. LookupOk(l)'
    <3>1. query[l] \in Query
      BY <1>3, LookupEffect DEF TypeOK
    <3>2. lookup'[l] \in {"fetching", "putting"} => toPut'[l] \subseteq query[l].group
      BY <1>3, ToPutStep
    <3>3. QED
      BY <1>1, <1>3, <3>1, <3>2, LookupEffect DEF LookupsOk, LookupOk
  <2>3. QED
    BY <2>1, <2>2 DEF LookupsOk
<1>4. CASE /\ UNCHANGED <<lookup, query, reply, toPut, times, past>>
           /\ \A l \in Lookups : tags'[l] = tags[l] /\ crossed[l] \subseteq crossed'[l]
  BY <1>1, <1>4 DEF LookupsOk, LookupOk
<1>5. QED
  BY <1>2, <1>3, <1>4, LookupFrame

----------------------------------------------------------------------------
(* How the calls, the rows and the entries advance *)

\* A call moves only by the steps of its write, and a new write has reached no
\* object.
LEMMA CallsAdvance ==
    ASSUME TypeOK, [Next]_vars, NEW w \in Writers, NEW d \in Objects
    PROVE  \/ calls'[w][d] = calls[w][d]
           \/ writer[w] = "idle" /\ calls'[w][d] \in {"none", "calling"}
           \/ calls[w][d] = "calling" /\ calls'[w][d] = "abandoned"
           \/ WriteApplied(w, d) /\ calls'[w][d] = "deleting"
           \/ DeleteRegional(w, d) /\ calls'[w][d] = "done"
<1>1. ASSUME NEW v \in Writers, NEW ts \in SUBSET Tags, WriteTags(v, ts)
      PROVE  \/ calls'[w][d] = calls[w][d]
             \/ writer[w] = "idle" /\ calls'[w][d] \in {"none", "calling"}
  BY <1>1 DEF WriteTags, TypeOK
<1>2. ASSUME NEW v \in Writers, NEW e \in Objects, Write(v, e), <<v, e>> # <<w, d>>
      PROVE  calls'[w][d] = calls[w][d]
  BY <1>2 DEF Write, WriteApplied, WriteFails, DeleteRegional, TypeOK
<1>3. ASSUME WriteFails(w, d)
      PROVE  \/ calls'[w][d] = calls[w][d]
             \/ calls[w][d] = "calling" /\ calls'[w][d] = "abandoned"
  BY <1>3 DEF WriteFails, TypeOK
<1>4. ASSUME WriteApplied(w, d) PROVE calls'[w][d] = "deleting"
  BY <1>4 DEF WriteApplied, TypeOK
<1>5. ASSUME DeleteRegional(w, d) PROVE calls'[w][d] = "done"
  BY <1>5 DEF DeleteRegional, TypeOK
<1>6. ASSUME NEW v \in Writers, WriteReturns(v) PROVE calls'[w][d] = calls[w][d]
  BY <1>6 DEF WriteReturns
<1>7. ASSUME NEW v \in Writers, NEW e \in Objects, Write(v, e)
      PROVE  \/ calls'[w][d] = calls[w][d]
             \/ calls[w][d] = "calling" /\ calls'[w][d] = "abandoned"
             \/ WriteApplied(w, d) /\ calls'[w][d] = "deleting"
             \/ DeleteRegional(w, d) /\ calls'[w][d] = "done"
  <2>1. CASE <<v, e>> # <<w, d>>
    BY <1>2, <1>7, <2>1
  <2>2. CASE v = w /\ e = d
    BY <1>3, <1>4, <1>5, <1>7, <2>2 DEF Write
  <2>3. QED
    BY <2>1, <2>2
<1>8. QED
  BY <1>1, <1>6, <1>7, WriterFrame DEF writing

\* A row changes only to the time of a write in flight, of its tag.
LEMMA RowsAdvance ==
    ASSUME TypeOK, [Next]_vars, NEW d \in Objects, NEW t \in Tags
    PROVE  \/ table'[d][t] = table[d][t]
           \/ \E v \in Writers : /\ calls[v][d] = "calling"
                                 /\ t \in GroupOf(tags[v], d)
                                 /\ table'[d][t] = time[v]
<1>1. ASSUME NEW v \in Writers, NEW e \in Objects, calls[v][e] = "calling",
             table' = [table EXCEPT ![e] = Stored(v, e)]
      PROVE  \/ table'[d][t] = table[d][t]
             \/ calls[v][d] = "calling" /\ t \in GroupOf(tags[v], d) /\ table'[d][t] = time[v]
  BY <1>1 DEF Stored, TypeOK
<1>2. ASSUME NEW v \in Writers, NEW e \in Objects, Write(v, e)
      PROVE  \/ table' = table
             \/ calls[v][e] = "calling" /\ table' = [table EXCEPT ![e] = Stored(v, e)]
  BY <1>2 DEF Write, WriteApplied, WriteFails, DeleteRegional
<1>3. ASSUME NEW v \in Writers, NEW ts, WriteTags(v, ts) PROVE table' = table
  BY <1>3 DEF WriteTags
<1>4. ASSUME NEW v \in Writers, WriteReturns(v) PROVE table' = table
  BY <1>4 DEF WriteReturns
<1>5. ASSUME NEW l \in Lookups, NEW op, NEW ts, NEW e, NEW group, NEW lm, LookUp(l, op, ts, e, group, lm)
      PROVE  table' = table
  BY <1>5 DEF LookUp
<1>6. ASSUME NEW l \in Lookups, Answer(l) \/ Background(l) PROVE table' = table
  BY <1>6, LookupEffect
<1>7. ASSUME NEW u \in Tags, Evict(u) PROVE table' = table
  BY <1>7 DEF Evict
<1>8. CASE Tick
  BY <1>8 DEF Tick
<1>9. CASE UNCHANGED vars
  BY <1>9 DEF vars
<1>10. QED
  BY <1>1, <1>2, <1>3, <1>4, <1>5, <1>6, <1>7, <1>8, <1>9 DEF Next

\* An entry is put by a lookup, or was there with the same time.
LEMMA EntriesAdvance ==
    ASSUME TypeOK, [Next]_vars, NEW t \in Tags, cache'[t] # None
    PROVE  \/ \E l \in Lookups : Put(l, t)
           \/ /\ cache[t] # None
              /\ cache'[t].time = cache[t].time
              /\ cache'[t].from = cache[t].from
              /\ cache[t].outlived \subseteq cache'[t].outlived
<1> DEFINE Kept == /\ cache[t] # None
                   /\ cache'[t].time = cache[t].time
                   /\ cache'[t].from = cache[t].from
                   /\ cache[t].outlived \subseteq cache'[t].outlived
<1>1. ASSUME NEW w \in Writers, NEW d \in Objects, DeleteRegional(w, d) PROVE Kept
  <2>1. \/ cache'[t] = cache[t]
        \/ cache[t] # None /\ cache'[t] = [cache[t] EXCEPT !.outlived = @ \cup {w}]
    BY <1>1 DEF DeleteRegional
  <2>2. cache[t] # None => cache[t] \in Entry
    BY DEF TypeOK
  <2>3. QED
    BY <2>1, <2>2, EntryUpdate
<1>2. ASSUME NEW w \in Writers, NEW d \in Objects, Write(w, d) PROVE Kept
  BY <1>1, <1>2 DEF Write, WriteApplied, WriteFails
<1>3. ASSUME NEW w \in Writers, NEW ts, WriteTags(w, ts) PROVE Kept
  BY <1>3 DEF WriteTags
<1>4. ASSUME NEW w \in Writers, WriteReturns(w) PROVE Kept
  BY <1>4 DEF WriteReturns
<1>5. ASSUME NEW l \in Lookups, NEW op, NEW ts, NEW d, NEW group, NEW lm, LookUp(l, op, ts, d, group, lm)
      PROVE  Kept
  BY <1>5 DEF LookUp
<1>6. ASSUME NEW l \in Lookups, Answer(l) PROVE Kept
  BY <1>6 DEF Answer, AnswerHas, AnswerLast, LookUpFails
<1>7. ASSUME NEW l \in Lookups, Background(l) PROVE Kept \/ Put(l, t)
  BY <1>7 DEF Background, FetchTimes, PutFails, Put, TypeOK
<1>8. ASSUME NEW u \in Tags, Evict(u) PROVE Kept
  BY <1>8 DEF Evict, TypeOK
<1>9. CASE Tick
  <2>1. cache[t] # None /\ cache[t].left # 1 /\ cache'[t] = [cache[t] EXCEPT !.left = @ - 1]
    BY <1>9 DEF Tick
  <2>2. cache[t] \in Entry
    BY <2>1 DEF TypeOK
  <2>3. QED
    BY <2>1, <2>2, EntryAges
<1>10. CASE UNCHANGED vars
  BY <1>10 DEF vars
<1>11. QED
  BY <1>2, <1>3, <1>4, <1>5, <1>6, <1>7, <1>8, <1>9, <1>10 DEF Next

----------------------------------------------------------------------------
(* Rows *)

\* A writer that has a call, or had reached an object, has started.
LEMMA CallersStarted ==
    ASSUME WritersOk, NEW w \in Writers, NEW d \in Objects, calls[w][d] # "none"
    PROVE  writer[w] # "idle"
  BY DEF WritersOk

\* A row that is set back under a write's time is set by an older write that
\* was in flight when the write started.
LEMMA RowsStep == TypeOK /\ WritersOk /\ NewestWriteWins /\ [Next]_vars => NewestWriteWins'
<1> SUFFICES ASSUME TypeOK, WritersOk, NewestWriteWins, [Next]_vars,
                    NEW w \in Writers, NEW d \in Objects, calls'[w][d] \in {"deleting", "done"},
                    NEW t \in GroupOf(tags'[w], d)
             PROVE  table'[d][t] >= time'[w] \/ Overlapped(w, t)'
  BY DEF NewestWriteWins, Landed, GroupOf
<1> t \in Tags
  BY TypeStep DEF TypeOK, GroupOf
<1>1. writer[w] # "idle"
  BY CallersStarted, CallsAdvance DEF WriteApplied, DeleteRegional
<1>2. /\ tags'[w] = tags[w] /\ time'[w] = time[w]
      /\ time[w] \in Nat
      /\ Overlapped(w, t) => Overlapped(w, t)'
  BY <1>1, WritersAdvance, HistoryStays DEF TypeOK
<1>3. CASE WriteApplied(w, d)
  <2>1. table'[d][t] = time[w]
    BY <1>2, <1>3 DEF WriteApplied, Stored, TypeOK
  <2>2. QED
    BY <1>2, <2>1
<1>4. CASE Landed(w, d)
  <2>1. table[d][t] >= time[w] \/ Overlapped(w, t)
    BY <1>2, <1>4 DEF NewestWriteWins
  <2>2. CASE table'[d][t] = table[d][t]
    BY <1>2, <2>1, <2>2
  <2>3. ASSUME NEW v \in Writers, calls[v][d] = "calling", t \in GroupOf(tags[v], d), table'[d][t] = time[v]
        PROVE  time[v] >= time[w] \/ Overlapped(w, t)
    <3>1. writer[v] # "idle" /\ v \notin Done
      BY <2>3 DEF WritersOk, Done
    <3>2. v \notin before[w]
      BY <3>1 DEF WritersOk
    <3>3. time[v] \in Nat /\ t \in tags[v]
      BY <2>3 DEF TypeOK, GroupOf
    <3>4. QED
      BY <1>2, <3>1, <3>2, <3>3 DEF Overlapped
  <2>4. QED
    BY <1>2, <2>2, <2>3, RowsAdvance
<1>5. Landed(w, d) \/ WriteApplied(w, d)
  BY <1>1, CallsAdvance DEF Landed, DeleteRegional
<1>6. QED
  BY <1>3, <1>4, <1>5

----------------------------------------------------------------------------
(* Entries *)

\* A lookup's times, until it puts them, are older than a write only if the
\* write will delete, or has deleted, or overlapped an older one.
LEMMA PutsStep == TypeOK /\ WritersOk /\ LookupsOk /\ NewestWriteWins /\ PutsOk /\ [Next]_vars => PutsOk'
<1> SUFFICES ASSUME TypeOK, WritersOk, LookupsOk, NewestWriteWins, PutsOk, [Next]_vars,
                    NEW l \in Lookups, lookup'[l] = "putting", NEW t \in toPut'[l],
                    NEW w \in Writers, t \in tags'[w],
                    calls'[w][query'[l].object] \in {"deleting", "done"}
             PROVE  \/ times'[l][t] >= time'[w]
                    \/ calls'[w][query'[l].object] = "deleting"
                    \/ w \in crossed'[l]
                    \/ Overlapped(w, t)'
  BY DEF PutsOk, Landed
<1> DEFINE d == query'[l].object
<1>1. TypeOK'
  BY TypeStep
<1>2. d \in Objects /\ t \in Tags
  BY <1>1 DEF TypeOK, Query
<1>3. calls'[w][d] \in {"deleting", "done"}
  OBVIOUS
<1>4. writer[w] # "idle"
  BY <1>2, <1>3, CallersStarted, CallsAdvance DEF WriteApplied, DeleteRegional
<1>5. /\ tags'[w] = tags[w] /\ time'[w] = time[w] /\ time[w] \in Nat
      /\ Overlapped(w, t) => Overlapped(w, t)'
  BY <1>2, <1>4, WritersAdvance, HistoryStays DEF TypeOK
<1>6. ASSUME d = query[l].object, lookup[l] = "putting", t \in toPut[l], times'[l][t] = times[l][t],
             Landed(w, d)
      PROVE  \/ times'[l][t] >= time'[w]
             \/ calls[w][d] = "deleting"
             \/ w \in crossed[l]
             \/ Overlapped(w, t)'
  BY <1>5, <1>6 DEF PutsOk
<1>7. ASSUME d = query[l].object, lookup[l] = "putting", t \in toPut[l], times'[l][t] = times[l][t],
             crossed[l] \subseteq crossed'[l]
      PROVE  \/ times'[l][t] >= time'[w]
             \/ calls'[w][d] = "deleting"
             \/ w \in crossed'[l]
             \/ Overlapped(w, t)'
  <2>1. CASE calls'[w][d] = calls[w][d]
    BY <1>3, <1>6, <1>7, <2>1 DEF Landed
  <2>2. CASE DeleteRegional(w, d)
    BY <1>7, <2>2 DEF DeleteRegional, TypeOK
  <2>3. QED
    BY <1>2, <1>3, <1>4, <2>1, <2>2, CallsAdvance
<1>8. ASSUME NEW k \in Lookups, NEW op \in {"has", "last"}, NEW ts \in SUBSET Tags, NEW e \in Objects,
             NEW group \in SUBSET ts, NEW lm \in Nat, LookUp(k, op, ts, e, group, lm)
      PROVE  /\ d = query[l].object /\ lookup[l] = "putting" /\ t \in toPut[l]
             /\ times'[l][t] = times[l][t] /\ crossed[l] \subseteq crossed'[l]
  BY <1>8, LookUpEffect
<1>9. ASSUME NEW k \in Lookups, Answer(k) \/ Background(k), k # l
      PROVE  /\ d = query[l].object /\ lookup[l] = "putting" /\ t \in toPut[l]
             /\ times'[l][t] = times[l][t] /\ crossed[l] \subseteq crossed'[l]
  BY <1>9, LookupEffect
<1>10. ASSUME NEW u \in Tags, Put(l, u)
       PROVE  /\ d = query[l].object /\ lookup[l] = "putting" /\ t \in toPut[l]
              /\ times'[l][t] = times[l][t] /\ crossed[l] \subseteq crossed'[l]
  BY <1>2, <1>10 DEF Put, TypeOK
<1>11. ASSUME FetchTimes(l) PROVE times'[l][t] >= time'[w] \/ Overlapped(w, t)'
  <2>1. /\ d = query[l].object /\ lookup[l] = "fetching" /\ t \in toPut[l]
        /\ calls'[w][d] = calls[w][d]
    BY <1>11 DEF FetchTimes, TypeOK, writing
  <2>2. times'[l][t] = table[d][t]
    BY <1>2, <1>11 DEF FetchTimes, TypeOK
  <2>3. t \in GroupOf(tags[w], d)
    <3>1. query[l] \in Query
      BY <2>1 DEF TypeOK
    <3>2. t \in GroupOf(tags[l], d)
      BY <2>1, <3>1 DEF LookupsOk, LookupOk
    <3>3. QED
      BY <1>5, <3>2 DEF GroupOf
  <2>4. table[d][t] >= time[w] \/ Overlapped(w, t)
    BY <1>2, <1>3, <2>1, <2>3 DEF NewestWriteWins, Landed
  <2>5. QED
    BY <1>5, <2>2, <2>4
<1>12. ASSUME Answer(l) \/ PutFails(l) PROVE FALSE
  BY <1>12 DEF Answer, AnswerHas, AnswerLast, LookUpFails, PutLater, PutFails, TypeOK
<1>13. CASE /\ UNCHANGED <<lookup, query, reply, toPut, times, past>>
            /\ \A k \in Lookups : tags'[k] = tags[k] /\ crossed[k] \subseteq crossed'[k]
  BY <1>7, <1>13
<1>14. QED
  BY <1>7, <1>8, <1>9, <1>10, <1>11, <1>12, <1>13, LookupFrame DEF Background

\* An entry comes from an object of its tag's shard.
LEMMA EntriesStep == TypeOK /\ LookupsOk /\ EntriesOk /\ [Next]_vars => EntriesOk'
<1> SUFFICES ASSUME TypeOK, LookupsOk, EntriesOk, [Next]_vars, NEW t \in Tags, cache'[t] # None
             PROVE  ShardOf[t] = cache'[t].from[1]
  BY DEF EntriesOk
<1>1. ASSUME NEW l \in Lookups, Put(l, t) PROVE ShardOf[t] = cache'[t].from[1]
  <2>1. /\ cache'[t].from = query[l].object
        /\ lookup[l] = "putting" /\ t \in toPut[l]
    BY <1>1 DEF Put, TypeOK
  <2>2. query[l] \in Query
    BY <2>1 DEF TypeOK
  <2>3. t \in GroupOf(tags[l], query[l].object)
    BY <2>1, <2>2 DEF LookupsOk, LookupOk
  <2>4. QED
    BY <2>1, <2>3 DEF GroupOf
<1>2. QED
  BY <1>1, EntriesAdvance DEF EntriesOk

\* An entry of the regional cache is stale only by a race or by a deletion that
\* failed.
LEMMA StaleStep ==
    TypeOK /\ WritersOk /\ LookupsOk /\ EntriesOk /\ PutsOk /\ StaleOnlyByRace /\ [Next]_vars
      => StaleOnlyByRace'
<1> SUFFICES ASSUME TypeOK, WritersOk, LookupsOk, EntriesOk, PutsOk, StaleOnlyByRace, [Next]_vars,
                    NEW t \in Tags, cache'[t] # None,
                    NEW w \in Writers, t \in tags'[w], calls'[w][cache'[t].from] = "done"
             PROVE  \/ cache'[t].time >= time'[w]
                    \/ w \in cache'[t].outlived
                    \/ Overlapped(w, t)'
  BY DEF StaleOnlyByRace
<1> DEFINE d == cache'[t].from
<1>1. d \in Objects
  BY TypeStep DEF TypeOK, Entry
<1>2. writer[w] # "idle"
  BY <1>1, CallersStarted, CallsAdvance DEF DeleteRegional
<1>3. /\ tags'[w] = tags[w] /\ time'[w] = time[w]
      /\ Overlapped(w, t) => Overlapped(w, t)'
  BY <1>2, WritersAdvance, HistoryStays
<1>4. ASSUME NEW l \in Lookups, Put(l, t)
      PROVE  \/ cache'[t].time >= time'[w]
             \/ w \in cache'[t].outlived
             \/ Overlapped(w, t)'
  <2>1. /\ cache'[t].time = times[l][t] /\ d = query[l].object /\ cache'[t].outlived = crossed[l]
        /\ lookup[l] = "putting" /\ t \in toPut[l] /\ calls' = calls
    BY <1>4 DEF Put, TimeToPut, TypeOK, writing
  <2>2. QED
    BY <1>3, <2>1 DEF PutsOk, Landed
<1>5. ASSUME cache[t] # None, cache'[t].time = cache[t].time, d = cache[t].from,
             cache[t].outlived \subseteq cache'[t].outlived
      PROVE  \/ cache'[t].time >= time'[w]
             \/ w \in cache'[t].outlived
             \/ Overlapped(w, t)'
  <2>1. CASE calls[w][d] = "done"
    BY <1>3, <1>5, <2>1 DEF StaleOnlyByRace
  <2>2. CASE DeleteRegional(w, d)
    <3>1. ShardOf[t] = d[1]
      BY <1>5 DEF EntriesOk
    <3>2. t \in DeletedKeys(w, d)
      BY <1>3, <3>1 DEF DeletedKeys, GroupOf
    <3>3. cache[t] \in Entry
      BY <1>5 DEF TypeOK
    <3>4. cache'[t] = [cache[t] EXCEPT !.outlived = @ \cup {w}]
      BY <1>5, <2>2, <3>2 DEF DeleteRegional
    <3>5. QED
      BY <3>3, <3>4, EntryUpdate
  <2>3. QED
    BY <1>1, <1>2, <2>1, <2>2, CallsAdvance
<1>6. QED
  BY <1>4, <1>5, EntriesAdvance

----------------------------------------------------------------------------
(* Times *)

\* A row has the time of a write.
LEMMA RowsWrittenStep == TypeOK /\ WritersOk /\ RowsWritten /\ [Next]_vars => RowsWritten'
<1> SUFFICES ASSUME TypeOK, WritersOk, RowsWritten, [Next]_vars,
                    NEW d \in Objects, NEW t \in Tags, table'[d][t] # 0
             PROVE  \E n \in Nat : n = table'[d][t] /\ Written(t, n)'
  BY DEF RowsWritten, Written
<1>1. \E n \in Nat : n = table'[d][t] /\ Written(t, n)
  <2>1. CASE table'[d][t] = table[d][t]
    BY <2>1 DEF RowsWritten, TypeOK
  <2>2. ASSUME NEW v \in Writers, calls[v][d] = "calling", t \in GroupOf(tags[v], d), table'[d][t] = time[v]
        PROVE  time[v] \in Nat /\ Written(t, time[v])
    BY <2>2, CallersStarted DEF Written, GroupOf, TypeOK
  <2>3. QED
    BY <2>1, <2>2, RowsAdvance
<1>2. QED
  BY <1>1, HistoryStays

\* An entry has the time of a write.
LEMMA EntriesWrittenStep == TypeOK /\ EntriesWritten /\ FetchedWritten /\ [Next]_vars => EntriesWritten'
<1> SUFFICES ASSUME TypeOK, EntriesWritten, FetchedWritten, [Next]_vars,
                    NEW t \in Tags, cache'[t] # None, cache'[t].time # 0
             PROVE  \E n \in Nat : n = cache'[t].time /\ Written(t, n)'
  BY DEF EntriesWritten, Written
<1>1. \E n \in Nat : n = cache'[t].time /\ Written(t, n)
  <2>1. CASE cache[t] # None /\ cache'[t].time = cache[t].time
    BY <2>1 DEF EntriesWritten, TypeOK, Entry
  <2>2. ASSUME NEW l \in Lookups, Put(l, t) PROVE cache'[t].time = times[l][t]
    BY <2>2 DEF Put, TimeToPut, TypeOK
  <2>3. QED
    BY <2>1, <2>2, EntriesAdvance DEF FetchedWritten, TypeOK
<1>2. QED
  BY <1>1, HistoryStays

\* A lookup puts the time of a write.
LEMMA FetchedWrittenStep == TypeOK /\ RowsWritten /\ FetchedWritten /\ [Next]_vars => FetchedWritten'
<1> SUFFICES ASSUME TypeOK, RowsWritten, FetchedWritten, [Next]_vars,
                    NEW l \in Lookups, NEW t \in Tags, times'[l][t] # 0
             PROVE  \E n \in Nat : n = times'[l][t] /\ Written(t, n)'
  BY DEF FetchedWritten, Written
<1>1. CASE times'[l][t] = times[l][t]
  BY <1>1, HistoryStays DEF FetchedWritten, TypeOK
<1>2. CASE \E d \in Objects : times'[l][t] = table[d][t]
  BY <1>2, HistoryStays DEF RowsWritten, TypeOK
<1>3. ASSUME NEW k \in Lookups, NEW op \in {"has", "last"}, NEW ts \in SUBSET Tags, NEW d \in Objects,
             NEW group \in SUBSET ts, NEW lm \in Nat, LookUp(k, op, ts, d, group, lm)
      PROVE  times' = times
  BY <1>3, LookUpEffect
<1>4. ASSUME NEW k \in Lookups, Answer(k) \/ Background(k), k # l PROVE times'[l][t] = times[l][t]
  BY <1>4, LookupEffect
<1>5. ASSUME FetchTimes(l) PROVE \E d \in Objects : times'[l][t] = table[d][t]
  <2>1. query[l].object \in Objects
    BY <1>5, QueryFields DEF FetchTimes
  <2>2. QED
    BY <1>5, <2>1 DEF FetchTimes, TypeOK
<1>6. ASSUME Answer(l) \/ PutFails(l) \/ \E u \in Tags : Put(l, u) PROVE times'[l][t] = times[l][t]
  BY <1>6 DEF Answer, AnswerHas, AnswerLast, LookUpFails, PutFails, Put, TypeOK
<1>7. QED
  BY <1>1, <1>2, <1>3, <1>4, <1>5, <1>6, LookupFrame DEF Background

\* The newest time that a lookup found in the regional cache is that of a write.
LEMMA CachedWritten ==
    ASSUME TypeOK, EntriesWritten,
           NEW l \in Lookups, NEW op, NEW d, NEW group \in SUBSET Tags, NEW lm, NEW q \in Query,
           LookedUp(l, op, d, group, lm, q), q.best # 0
    PROVE  \E t \in q.cached : Written(t, q.best)
  BY DEF LookedUp, CachedTags, EntriesWritten

\* The same for the lookups that have started.
LEMMA BestWrittenStep == TypeOK /\ EntriesWritten /\ BestWritten /\ [Next]_vars => BestWritten'
<1> SUFFICES ASSUME TypeOK, EntriesWritten, BestWritten, [Next]_vars,
                    NEW l \in Lookups, query'[l].best # 0
             PROVE  \E n \in Nat, t \in Tags : n = query'[l].best /\ t \in query'[l].cached /\ Written(t, n)'
  BY DEF BestWritten, Written
<1>1. CASE query'[l] = query[l]
  BY <1>1, HistoryStays, QueryFields DEF BestWritten
<1>2. ASSUME NEW k \in Lookups, NEW op \in {"has", "last"}, NEW ts \in SUBSET Tags, NEW d \in Objects,
             NEW group \in SUBSET ts, NEW lm \in Nat, LookUp(k, op, ts, d, group, lm), k # l
      PROVE  query'[l] = query[l]
  <2>1. \A j \in Lookups : j # k => query'[j] = query[j]
    BY <1>2, LookUpEffect DEF GroupOf
  <2>2. QED
    BY <1>2, <2>1
<1>3. ASSUME NEW op \in {"has", "last"}, NEW ts \in SUBSET Tags, NEW d \in Objects,
             NEW group \in SUBSET ts, NEW lm \in Nat, LookUp(l, op, ts, d, group, lm)
      PROVE  \E n \in Nat, t \in Tags : n = query'[l].best /\ t \in query'[l].cached /\ Written(t, n)'
  <2>1. PICK q \in Query : LookedUp(l, op, d, group, lm, q)
    BY <1>3, LookUpFacts
  <2>2. query'[l] = q
    BY <2>1 DEF LookedUp, TypeOK
  <2>3. q.best \in Nat /\ q.cached \subseteq Tags
    BY DEF Query
  <2>4. \E t \in q.cached : Written(t, q.best)
    BY <2>1, <2>2, CachedWritten
  <2>5. QED
    BY <2>2, <2>3, <2>4, HistoryStays
<1>4. ASSUME NEW k \in Lookups, Answer(k) \/ Background(k) PROVE query'[l] = query[l]
  BY <1>4, LookupEffect
<1>5. QED
  BY <1>1, <1>2, <1>3, <1>4, LookupFrame

\* All times are times of writes.
LEMMA TimesStep == TypeOK /\ WritersOk /\ TimesWritten /\ [Next]_vars => TimesWritten'
  BY RowsWrittenStep, EntriesWrittenStep, FetchedWrittenStep, BestWrittenStep DEF TimesWritten

----------------------------------------------------------------------------
(* Answers *)

\* FinishedWritesSeen for one lookup.
SeenBy(l) ==
    \A w \in past[l] : \A t \in tags[w] \cap query[l].group :
        Overlooks(l, time[w]) =>
            \/ calls[w][query[l].object] = "abandoned"
            \/ Overlapped(w, t)
            \/ query[l].op = "last" /\ t \in query[l].cached

\* A write that a lookup comes after has reached the object of its tag's shard,
\* or was given up there.
LEMMA DoneReached ==
    ASSUME WritersOk, NEW w \in Done, NEW d \in Objects, NEW t \in GroupOf(tags[w], d)
    PROVE  calls[w][d] \in {"done", "abandoned"}
<1>1. writer[w] = "done" /\ GroupOf(tags[w], d) # {}
  BY DEF Done
<1>2. /\ writer[w] # "idle" /\ GroupOf(tags[w], d) # {} => calls[w][d] # "none"
      /\ writer[w] = "done" => calls[w][d] \in {"none", "done", "abandoned"}
  BY DEF WritersOk, Done
<1>3. QED
  BY <1>1, <1>2

\* What an object answers takes account of every write that reached it.
LEMMA AnswerSees ==
    ASSUME TypeOK, WritersOk, LookupsOk, NewestWriteWins, NEW l \in Lookups,
           AnswerHas(l) \/ AnswerLast(l),
           NEW w \in past[l], NEW t \in tags[w] \cap query[l].group
    PROVE  \/ calls[w][query[l].object] = "abandoned"
           \/ Overlapped(w, t)
           \/ query[l].op = "last" /\ t \in query[l].cached
           \/ reply'[l].answer = "yes"
           \/ reply'[l].answer = "no" /\ time[w] <= query[l].lastModified
           \/ reply'[l].answer = "time" /\ time[w] <= reply'[l].time
<1> DEFINE q == query[l]
           d == q.object
<1>1. /\ lookup[l] = "asking" /\ q \in Query /\ d \in Objects /\ q.lastModified \in Nat
      /\ t \in Tags /\ w \in Done
  BY QueryFields DEF AnswerHas, AnswerLast, TypeOK, LookupsOk, LookupOk
<1>2. t \in tags[l] /\ ShardOf[t] = d[1]
  BY <1>1 DEF LookupsOk, LookupOk, GroupOf
<1>3. t \in GroupOf(tags[w], d) /\ w \in Writers
  BY <1>1, <1>2 DEF GroupOf, Done
<1>4. calls[w][d] \in {"done", "abandoned"}
  BY <1>1, <1>3, DoneReached
<1>5. calls[w][d] = "abandoned" \/ Overlapped(w, t) \/ table[d][t] >= time[w]
  BY <1>1, <1>3, <1>4 DEF NewestWriteWins, Landed
<1>6. table[d][t] \in Nat /\ time[w] \in Nat
  BY <1>1, <1>3 DEF TypeOK
<1>7. CASE AnswerHas(l)
  <2>1. CASE \E u \in q.group : table[d][u] > q.lastModified
    BY <1>7, <2>1 DEF AnswerHas, Reply, TypeOK
  <2>2. CASE ~\E u \in q.group : table[d][u] > q.lastModified
    <3>1. reply'[l].answer = "no"
      BY <1>7, <2>2 DEF AnswerHas, Reply, TypeOK
    <3>2. ~(table[d][t] > q.lastModified)
      BY <2>2
    <3>3. QED
      BY <1>1, <1>5, <1>6, <3>1, <3>2
  <2>3. QED
    BY <2>1, <2>2
<1>8. CASE AnswerLast(l)
  <2>1. PICK m \in 0 .. now :
          /\ IsMax(m, {q.best} \cup {table[d][u] : u \in tags[l] \ q.cached})
          /\ Reply(l, "time", m)
    BY <1>8 DEF AnswerLast
  <2>2. reply'[l].answer = "time" /\ reply'[l].time = m /\ q.op = "last"
    BY <1>8, <2>1 DEF AnswerLast, Reply, TypeOK
  <2>3. m \in Nat
    BY DEF TypeOK
  <2>4. t \in q.cached \/ table[d][t] <= m
    BY <1>2, <2>1 DEF IsMax
  <2>5. QED
    BY <1>5, <1>6, <2>2, <2>3, <2>4
<1>9. QED
  BY <1>7, <1>8

\* A lookup that started after a write returned keeps being excused.
LEMMA SeenStays ==
    ASSUME TypeOK, WritersOk, LookupsOk, FinishedWritesSeen, [Next]_vars, NEW l \in Lookups,
           reply'[l] = reply[l] \/ reply'[l].answer \in {"none", "failed"},
           query'[l] = query[l], past'[l] = past[l]
    PROVE  SeenBy(l)'
<1> SUFFICES ASSUME NEW w \in past[l], NEW t \in tags'[w], t \in query[l].group,
                    \/ reply'[l].answer = "no" /\ time'[w] > query[l].lastModified
                    \/ reply'[l].answer = "time" /\ time'[w] > reply'[l].time
             PROVE  \/ calls'[w][query[l].object] = "abandoned"
                    \/ Overlapped(w, t)'
                    \/ query[l].op = "last" /\ t \in query[l].cached
  BY DEF SeenBy, Overlooks
<1>1. w \in Writers /\ writer[w] = "done"
  BY DEF LookupsOk, LookupOk, Done
<1>2. /\ tags'[w] = tags[w] /\ time'[w] = time[w]
      /\ t \in Tags
      /\ Overlapped(w, t) => Overlapped(w, t)'
  BY <1>1, WritersAdvance, HistoryStays, QueryFields
<1>3. reply'[l] = reply[l]
  OBVIOUS
<1>4. query[l].object \in Objects
  <2>1. query[l] \in Query
    BY <1>3 DEF LookupsOk, LookupOk
  <2>2. QED
    BY <2>1 DEF Query
<1>5. calls[w][query[l].object] = "abandoned" => calls'[w][query[l].object] = "abandoned"
  BY <1>1, <1>4, CallsAdvance DEF WriteApplied, DeleteRegional
<1>6. QED
  BY <1>2, <1>3, <1>5 DEF FinishedWritesSeen, Overlooks

\* Lookups see the writes that returned before they started.
LEMMA SeenStep ==
    TypeOK /\ WritersOk /\ LookupsOk /\ NewestWriteWins /\ FinishedWritesSeen /\ [Next]_vars
      => FinishedWritesSeen'
<1> SUFFICES ASSUME TypeOK, WritersOk, LookupsOk, NewestWriteWins, FinishedWritesSeen, [Next]_vars,
                    NEW l \in Lookups
             PROVE  SeenBy(l)'
  BY DEF FinishedWritesSeen, SeenBy
<1>1. ASSUME NEW k \in Lookups, NEW op \in {"has", "last"}, NEW ts \in SUBSET Tags, NEW d \in Objects,
             NEW group \in SUBSET ts, NEW lm \in Nat, LookUp(k, op, ts, d, group, lm), k # l
      PROVE  SeenBy(l)'
  <2>1. \A j \in Lookups : j # k => reply'[j] = reply[j] /\ query'[j] = query[j] /\ past'[j] = past[j]
    BY <1>1, LookUpEffect DEF GroupOf
  <2>2. reply'[l] = reply[l] /\ query'[l] = query[l] /\ past'[l] = past[l]
    BY <1>1, <2>1
  <2>3. QED
    BY <2>2, SeenStays
<1>2. ASSUME NEW op \in {"has", "last"}, NEW ts \in SUBSET Tags, NEW d \in Objects,
             NEW group \in SUBSET ts, NEW lm \in Nat, LookUp(l, op, ts, d, group, lm)
      PROVE  SeenBy(l)'
  <2>1. PICK q \in Query : LookedUp(l, op, d, group, lm, q)
    BY <1>2, LookUpFacts
  <2>2. query'[l] = q
    BY <2>1 DEF LookedUp, TypeOK
  <2>3. \/ reply'[l].answer \in {"none", "yes"}
        \/ q.op = "last" /\ q.cached = q.group
    BY <2>1 DEF LookedUp, TypeOK
  <2>4. QED
    BY <2>2, <2>3 DEF SeenBy, Overlooks
<1>3. ASSUME NEW k \in Lookups, Answer(k) \/ Background(k), k # l PROVE SeenBy(l)'
  <2>1. reply'[l] = reply[l] /\ query'[l] = query[l] /\ past'[l] = past[l]
    BY <1>3, LookupEffect
  <2>2. QED
    BY <2>1, SeenStays
<1>4. ASSUME LookUpFails(l) \/ Background(l) PROVE SeenBy(l)'
  <2>1. query'[l] = query[l] /\ past'[l] = past[l]
    BY <1>4, LookupEffect DEF Answer
  <2>2. reply'[l] = reply[l] \/ reply'[l].answer = "failed"
    BY <1>4 DEF LookUpFails, Reply, Background, FetchTimes, PutFails, Put, TypeOK
  <2>3. QED
    BY <2>1, <2>2, SeenStays
<1>5. ASSUME AnswerHas(l) \/ AnswerLast(l) PROVE SeenBy(l)'
  <2>1. UNCHANGED <<query, past, tags, writer, time, before, calls>>
    BY <1>5, LookupEffect DEF Answer, writing
  <2>2. TypeOK'
    BY TypeStep
  <2>3. SUFFICES ASSUME NEW w \in past[l], NEW t \in tags[w] \cap query[l].group,
                        \/ reply'[l].answer = "no" /\ time[w] > query[l].lastModified
                        \/ reply'[l].answer = "time" /\ time[w] > reply'[l].time
                 PROVE  \/ calls[w][query[l].object] = "abandoned"
                        \/ Overlapped(w, t)
                        \/ query[l].op = "last" /\ t \in query[l].cached
    BY <2>1 DEF SeenBy, Overlooks, Overlapped
  <2>4. time[w] \in Nat /\ reply'[l].time \in Nat /\ query[l].lastModified \in Nat
    <3>1. w \in Writers
      BY DEF TypeOK
    <3>2. QED
      BY <2>2, <3>1, QueryFields DEF TypeOK
  <2>5. QED
    BY <1>5, <2>3, <2>4, AnswerSees
<1>6. CASE UNCHANGED <<lookup, query, reply, toPut, times, past>>
  BY <1>6, SeenStays
<1>7. QED
  BY <1>1, <1>2, <1>3, <1>4, <1>5, <1>6, LookupFrame DEF Answer

\* AnswersAreWritten for one lookup.
TrueOf(l) ==
    /\ reply[l].answer = "yes" =>
          \E t \in query[l].group, n \in 1 .. now : n > query[l].lastModified /\ Written(t, n)
    /\ reply[l].answer = "time" /\ reply[l].time # 0 =>
          \E t \in tags[l] : Written(t, reply[l].time)

\* A time that was written is a time up to now.
LEMMA WrittenBound ==
    ASSUME TypeOK, WritersOk, NEW t, NEW n, Written(t, n)
    PROVE  n \in 1 .. now
  BY DEF Written, WritersOk

\* What a lookup answered stays true.
LEMMA TrueStays ==
    ASSUME TypeOK, WritersOk, LookupsOk, AnswersAreWritten, [Next]_vars, NEW l \in Lookups,
           reply'[l] = reply[l] \/ reply'[l].answer \in {"none", "failed"},
           query'[l] = query[l], tags'[l] = tags[l]
    PROVE  TrueOf(l)'
<1>1. \A t \in Tags, n \in Nat : Written(t, n) => Written(t, n)'
  BY HistoryStays
<1>2. query[l].group \subseteq Tags /\ tags[l] \subseteq Tags /\ reply[l].time \in Nat /\ now \in Nat
  BY QueryFields DEF TypeOK
<1>3. ASSUME reply'[l] = reply[l], reply[l].answer = "yes"
      PROVE  \E t \in query[l].group, n \in 1 .. now' : n > query[l].lastModified /\ Written(t, n)'
  <2>1. PICK t \in query[l].group, n \in 1 .. now : n > query[l].lastModified /\ Written(t, n)
    BY <1>3 DEF AnswersAreWritten
  <2>2. Written(t, n)'
    BY <1>1, <1>2, <2>1
  <2>3. \E v \in Writers : writer'[v] # "idle" /\ time'[v] = n
    BY <2>2 DEF Written
  <2>4. n \in 1 .. now'
    BY <1>2, <2>3, WritersStep, TypeStep DEF WritersOk
  <2>5. QED
    BY <2>1, <2>2, <2>4
<1>4. ASSUME reply'[l] = reply[l], reply[l].answer = "time", reply[l].time # 0
      PROVE  \E t \in tags[l] : Written(t, reply[l].time)'
  <2>1. PICK t \in tags[l] : Written(t, reply[l].time)
    BY <1>4 DEF AnswersAreWritten
  <2>2. \E n \in Nat : n = reply[l].time /\ Written(t, n)'
    BY <1>1, <1>2, <2>1
  <2>3. QED
    BY <1>4, <2>2 DEF Written
<1>5. QED
  BY <1>3, <1>4 DEF TrueOf, Written

\* Every answer is true when it is given.
LEMMA TrueStep ==
    TypeOK /\ WritersOk /\ LookupsOk /\ TimesWritten /\ AnswersAreWritten /\ [Next]_vars
      => AnswersAreWritten'
<1> SUFFICES ASSUME TypeOK, WritersOk, LookupsOk, TimesWritten, AnswersAreWritten, [Next]_vars,
                    NEW l \in Lookups
             PROVE  TrueOf(l)'
  BY DEF AnswersAreWritten, TrueOf
<1>1. ASSUME NEW k \in Lookups, NEW op \in {"has", "last"}, NEW ts \in SUBSET Tags, NEW d \in Objects,
             NEW group \in SUBSET ts, NEW lm \in Nat, LookUp(k, op, ts, d, group, lm), k # l
      PROVE  TrueOf(l)'
  <2>1. \A j \in Lookups : j # k => reply'[j] = reply[j] /\ query'[j] = query[j] /\ tags'[j] = tags[j]
    BY <1>1, LookUpEffect DEF GroupOf
  <2>2. reply'[l] = reply[l] /\ query'[l] = query[l] /\ tags'[l] = tags[l]
    BY <1>1, <2>1
  <2>3. QED
    BY <2>2, TrueStays
<1>2. ASSUME NEW op \in {"has", "last"}, NEW ts \in SUBSET Tags, NEW d \in Objects,
             NEW group \in SUBSET ts, NEW lm \in Nat, LookUp(l, op, ts, d, group, lm)
      PROVE  TrueOf(l)'
  <2>1. PICK q \in Query : LookedUp(l, op, d, group, lm, q)
    BY <1>2, LookUpFacts
  <2>2. /\ query'[l] = q
        /\ tags'[l] = ts
        /\ UNCHANGED <<now, writer, time>>
        /\ \A w \in Writers : tags'[w] = tags[w]
    BY <1>2, <2>1, ActorsAssumption DEF LookUp, LookedUp, TypeOK, writing
  <2>3. q.cached \subseteq q.group /\ q.group = group /\ q.lastModified = lm
    BY <2>1 DEF LookedUp, CachedTags
  <2>4. q.best \in Nat
    BY DEF Query
  <2>5. q.best # 0 => \E t \in q.cached : Written(t, q.best)
    <3>1. group \in SUBSET Tags
      OBVIOUS
    <3>2. QED
      BY <2>1, <3>1, CachedWritten DEF TimesWritten
  <2>6. reply'[l].answer = "yes" => q.best > lm
    BY <2>1 DEF LookedUp, TypeOK
  <2>7. reply'[l].answer = "time" => reply'[l].time = q.best
    BY <2>1 DEF LookedUp, TypeOK
  <2>8. reply'[l].answer = "yes" =>
          \E t \in q.group, n \in 1 .. now : n > q.lastModified /\ Written(t, n)
    BY <2>3, <2>4, <2>5, <2>6, WrittenBound
  <2>9. reply'[l].answer = "time" /\ reply'[l].time # 0 => \E t \in ts : Written(t, reply'[l].time)
    BY <2>3, <2>5, <2>7
  <2>10. QED
    BY <2>2, <2>8, <2>9 DEF TrueOf, Written
<1>3. ASSUME NEW k \in Lookups, Answer(k) \/ Background(k), k # l PROVE TrueOf(l)'
  <2>1. reply'[l] = reply[l] /\ query'[l] = query[l] /\ tags'[l] = tags[l]
    BY <1>3, LookupEffect
  <2>2. QED
    BY <2>1, TrueStays
<1>4. ASSUME LookUpFails(l) \/ Background(l) PROVE TrueOf(l)'
  <2>1. query'[l] = query[l] /\ tags'[l] = tags[l]
    BY <1>4, LookupEffect DEF Answer
  <2>2. reply'[l] = reply[l] \/ reply'[l].answer = "failed"
    BY <1>4 DEF LookUpFails, Reply, Background, FetchTimes, PutFails, Put, TypeOK
  <2>3. QED
    BY <2>1, <2>2, TrueStays
<1>5. ASSUME AnswerHas(l) \/ AnswerLast(l) PROVE TrueOf(l)'
  <2> DEFINE q == query[l]
             d == q.object
  <2>1. UNCHANGED <<now, query, tags, writer, time>>
    BY <1>5, LookupEffect DEF Answer, writing
  <2>2. /\ d \in Objects /\ q.group \subseteq tags[l] /\ q.cached \subseteq tags[l]
        /\ tags[l] \subseteq Tags /\ q.lastModified \in Nat /\ q.group \subseteq Tags
    BY <1>5, QueryFields DEF AnswerHas, AnswerLast, LookupsOk, LookupOk, TypeOK
  <2>3. CASE AnswerHas(l)
    <3>1. reply'[l].answer = "yes" => \E t \in q.group : table[d][t] > q.lastModified
      BY <2>3 DEF AnswerHas, Reply, TypeOK
    <3>2. reply'[l].answer \in {"yes", "no"}
      BY <2>3 DEF AnswerHas, Reply, TypeOK
    <3>3. ASSUME NEW t \in q.group, table[d][t] > q.lastModified
          PROVE  table[d][t] \in 1 .. now /\ Written(t, table[d][t])
      <4>1. table[d][t] # 0
        BY <2>2, <3>3 DEF TypeOK
      <4>2. Written(t, table[d][t])
        BY <2>2, <4>1 DEF TimesWritten, RowsWritten
      <4>3. QED
        BY <4>2, WrittenBound
    <3>4. QED
      BY <2>1, <3>1, <3>2, <3>3 DEF TrueOf, Written
  <2>4. CASE AnswerLast(l)
    <3>1. PICK m \in 0 .. now :
            /\ IsMax(m, {q.best} \cup {table[d][u] : u \in tags[l] \ q.cached})
            /\ Reply(l, "time", m)
      BY <2>4 DEF AnswerLast
    <3>2. reply'[l].answer = "time" /\ reply'[l].time = m
      BY <3>1 DEF Reply, TypeOK
    <3>3. m = q.best \/ \E u \in tags[l] : m = table[d][u]
      BY <3>1 DEF IsMax
    <3>4. m # 0 => \E t \in tags[l] : Written(t, m)
      BY <2>2, <3>3 DEF TimesWritten, RowsWritten, BestWritten
    <3>5. QED
      BY <2>1, <3>2, <3>4 DEF TrueOf, Written
  <2>5. QED
    BY <1>5, <2>3, <2>4
<1>6. CASE /\ UNCHANGED <<lookup, query, reply, toPut, times, past>>
           /\ \A k \in Lookups : tags'[k] = tags[k] /\ crossed[k] \subseteq crossed'[k]
  BY <1>6, TrueStays
<1>7. QED
  BY <1>1, <1>2, <1>3, <1>4, <1>5, <1>6, LookupFrame DEF Answer

----------------------------------------------------------------------------
(* The invariant *)

\* The invariant holds at the start.
LEMMA InvInit == Init => Inv
<1> SUFFICES ASSUME Init PROVE Inv
  OBVIOUS
<1>1. TypeOK
  BY TypeInit
<1>2. WritersOk
  BY DEF Init, WritersOk, Done, GroupOf
<1>3. LookupsOk
  <2>1. \A l \in Lookups : query[l] = NoQuery /\ NoQuery \notin Query
    BY ShardsAssumption DEF Init, Query, NoQuery
  <2>2. QED
    BY <2>1 DEF Init, LookupsOk, LookupOk, NoQuery
<1>4. EntriesOk /\ PutsOk /\ StaleOnlyByRace
  BY DEF Init, EntriesOk, PutsOk, StaleOnlyByRace
<1>5. TimesWritten
  BY DEF Init, TimesWritten, RowsWritten, EntriesWritten, FetchedWritten, BestWritten, NoQuery
<1>6. NewestWriteWins /\ FinishedWritesSeen /\ AnswersAreWritten
  BY DEF Init, NewestWriteWins, Landed, FinishedWritesSeen, AnswersAreWritten
<1>7. QED
  BY <1>1, <1>2, <1>3, <1>4, <1>5, <1>6 DEF Inv, Safe

\* Every step keeps the invariant.
LEMMA InvStep == Inv /\ [Next]_vars => Inv'
  BY TypeStep, WritersStep, LookupsStep, EntriesStep, PutsStep, TimesStep,
     RowsStep, SeenStep, StaleStep, TrueStep
     DEF Inv, Safe

\* The invariant holds in every reachable state.
THEOREM Invariance == Spec => []Inv
  BY InvInit, InvStep, PTL DEF Spec

\* Retries and failures never leave a tag's time in an object below that of a
\* write that reached it, unless the write overlapped an older one.
THEOREM NewestWriteKept == Spec => []NewestWriteWins
<1>1. Inv => NewestWriteWins
  BY DEF Inv, Safe
<1>2. QED
  BY <1>1, Invariance, PTL

\* A lookup sees every write that returned before it started, but for the
\* exceptions that the property names.
THEOREM FinishedWritesAreSeen == Spec => []FinishedWritesSeen
<1>1. Inv => FinishedWritesSeen
  BY DEF Inv, Safe
<1>2. QED
  BY <1>1, Invariance, PTL

\* A stale entry of the regional cache is the work of a failed deletion or of a
\* lookup that fetched before the write and put after the deletion.
THEOREM StaleEntriesAreRaces == Spec => []StaleOnlyByRace
<1>1. Inv => StaleOnlyByRace
  BY DEF Inv, Safe
<1>2. QED
  BY <1>1, Invariance, PTL

\* No lookup says that tags were revalidated when they were not.
THEOREM AnswersAreTrue == Spec => []AnswersAreWritten
<1>1. Inv => AnswersAreWritten
  BY DEF Inv, Safe
<1>2. QED
  BY <1>1, Invariance, PTL

=============================================================================
