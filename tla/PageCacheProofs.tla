--------------------------- MODULE PageCacheProofs ---------------------------
(***************************************************************************)
(* Proofs about PageCache, for any keys, tags and calls, and without a     *)
(* bound on time and failures.                                             *)
(***************************************************************************)
EXTENDS PageCache, TLAPS

\* The types of what the tag caches and the writes of tags depend on.
TagsTyped ==
    /\ instant \in Nat /\ instant > 1
    /\ times \in [AllTags -> Nat]
    /\ rows \in [AllTags -> [Keys -> Nat]]
    /\ set \in [Sets -> {"idle", "rendered", "listing", "tagging", "done"}]
    /\ setKey \in [Sets -> Keys]
    /\ unlisted \in [Sets -> SUBSET AllTags]
    /\ reval \in [Revalidations -> {"idle", "next", "looking", "landing", "writing", "stamping", "done", "failed"}]
    /\ revalTags \in [Revalidations -> SUBSET AllTags]
    /\ todo \in [Revalidations -> SUBSET AllTags]
    /\ inserts \in [Revalidations -> SUBSET PageRows]
    /\ written \in [Revalidations -> SUBSET PageRows]
    /\ landing \in [Revalidations -> SUBSET PageRows]
    /\ took \in [Revalidations -> Nat]

\* No time is in the future.
InThePast ==
    /\ \A t \in AllTags : times[t] <= instant
    /\ \A t \in AllTags, k \in Keys : rows[t][k] <= instant
    /\ \A r \in Revalidations : took[r] <= instant

\* The writes under way are of what the revalidation is about, and have a time of day.
WritesBegun ==
    /\ \A r \in Revalidations : todo[r] \subseteq revalTags[r] /\ landing[r] \subseteq written[r]
    /\ \A r \in Landing : took[r] > 1
    /\ \A pair \in crossing : pair[2] \in Revalidations /\ reval[pair[2]] # "idle"

\* Of two revalidations that are writing, the one with the later time took it while the
\* other was writing.
InOrder == \A q, p \in Landing : took[q] < took[p] => <<q, p>> \in crossing

\* A time that is later than the one a revalidation is about to write is of one that took
\* it meanwhile.
Later(q, t) == \E p \in Revalidations : <<q, p>> \in crossing /\ t \in revalTags[p] \ todo[p]
LaterRow(q, w) == \E p \in Revalidations : <<q, p>> \in crossing /\ w \in written[p] \ landing[p]
LaterCrosses ==
    \A q \in Revalidations :
        /\ reval[q] = "stamping" => \A t \in todo[q] : took[q] < times[t] => Later(q, t)
        /\ reval[q] = "landing" =>
              \A t \in AllTags, k \in Keys : <<t, k>> \in landing[q] /\ took[q] < rows[t][k] => LaterRow(q, <<t, k>>)

\* A revalidation and a set that are under way overlap.
Overlapping ==
    \A r \in Revalidations, s \in Sets : r \in Revalidating /\ s \in Setting => <<r, s>> \in overlap

\* What may have a row that a set is going to write revalidated.
Excused(s) == s \in untagged \/ \E r \in Revalidations : <<r, s>> \in overlap

\* A set that is going to write a row does not know of a revalidation in it only with an
\* excuse: it has looked for the rows before.
UnlistedUnrevalidated ==
    \A s \in Sets : set[s] = "tagging" =>
        Excused(s) \/ \A t \in unlisted[s] : rows[t][setKey[s]] <= 1

KeptInv ==
    /\ TagsTyped /\ InThePast /\ Overlapping /\ UnlistedUnrevalidated
    /\ WritesBegun /\ InOrder /\ LaterCrosses

\* What a step keeps of the tag caches.
Kept ==
    \A t \in AllTags :
        /\ times'[t] < times[t] =>
              \E q, p \in Revalidations : <<q, p>> \in crossing /\ t \in todo[q] /\ t \in revalTags[p] \ todo[p]
        /\ \A k \in Keys : rows'[t][k] < rows[t][k] =>
              \/ \E q, p \in Revalidations :
                    <<q, p>> \in crossing /\ <<t, k>> \in landing[q] /\ <<t, k>> \in written[p] \ landing[p]
              \/ \E s \in Sets : set[s] = "tagging" /\ setKey[s] = k
                             /\ (s \in untagged \/ \E r \in Revalidations : <<r, s>> \in overlap)

\* The stamped rows have the time, and the others stay.
LEMMA Stamped ==
    ASSUME TagsTyped, NEW ps, NEW n \in Nat
    PROVE  /\ Stamp(ps, n) \in [AllTags -> [Keys -> Nat]]
           /\ \A t \in AllTags, k \in Keys : Stamp(ps, n)[t][k] = IF <<t, k>> \in ps THEN n ELSE rows[t][k]
  BY DEF TagsTyped, Stamp

\* The rows that a set writes.
LEMMA Tagged ==
    ASSUME TagsTyped, NEW s \in Sets, rows' = Stamp(unlisted[s] \X {setKey[s]}, 1)
    PROVE  /\ rows' \in [AllTags -> [Keys -> Nat]]
           /\ \A t \in AllTags, k \in Keys :
                 rows'[t][k] = IF t \in unlisted[s] /\ k = setKey[s] THEN 1 ELSE rows[t][k]
<1> DEFINE ps == unlisted[s] \X {setKey[s]}
<1>1. \A t \in AllTags, k \in Keys : <<t, k>> \in ps <=> t \in unlisted[s] /\ k = setKey[s]
  OBVIOUS
<1>2. rows' = Stamp(ps, 1)
  OBVIOUS
<1> HIDE DEF ps
<1>3. /\ rows' \in [AllTags -> [Keys -> Nat]]
      /\ \A t \in AllTags, k \in Keys : rows'[t][k] = IF <<t, k>> \in ps THEN 1 ELSE rows[t][k]
  BY <1>2, Stamped
<1>4. ASSUME NEW t \in AllTags, NEW k \in Keys
      PROVE  rows'[t][k] = IF t \in unlisted[s] /\ k = setKey[s] THEN 1 ELSE rows[t][k]
  BY <1>1, <1>3
<1>5. QED
  BY <1>3, <1>4

\* Where no revalidation moves and no time but to 1 changes, its writes stay in order.
LEMMA OrderStays ==
    ASSUME KeptInv, UNCHANGED <<reval, revalTags, todo, written, landing, took, times, crossing>>,
           \A t \in AllTags, k \in Keys : rows'[t][k] = rows[t][k] \/ rows'[t][k] = 1
    PROVE  WritesBegun' /\ InOrder' /\ LaterCrosses'
<1> USE DEF KeptInv
<1>1. WritesBegun' /\ InOrder'
  BY DEF WritesBegun, InOrder, Landing
<1>2. \A q, w : /\ Later(q, w) => Later(q, w)'
                /\ LaterRow(q, w) => LaterRow(q, w)'
  BY DEF Later, LaterRow
<1>3. ASSUME NEW q \in Revalidations, reval[q] = "landing", NEW t \in AllTags, NEW k \in Keys,
             <<t, k>> \in landing[q], took[q] < rows'[t][k]
      PROVE  LaterRow(q, <<t, k>>)
  <2>1. took[q] \in Nat /\ took[q] > 1
    BY <1>3 DEF WritesBegun, Landing, TagsTyped
  <2>2. took[q] < rows[t][k]
    BY <1>3, <2>1
  <2>3. QED
    BY <1>3, <2>2 DEF LaterCrosses
<1>4. LaterCrosses'
  BY <1>2, <1>3 DEF LaterCrosses
<1>5. QED
  BY <1>1, <1>4

\* The invariant holds initially.
LEMMA KeptInit == PagesInit => KeptInv
<1> SUFFICES ASSUME PagesInit PROVE KeptInv
  OBVIOUS
<1>1. /\ times \in [AllTags -> Nat] /\ rows \in [AllTags -> [Keys -> Nat]]
      /\ unlisted \in [Sets -> SUBSET AllTags]
  BY DEF PagesInit
<1>2. /\ set \in [Sets -> {"idle", "rendered", "listing", "tagging", "done"}]
      /\ reval \in [Revalidations -> {"idle", "next", "looking", "landing", "writing", "stamping", "done", "failed"}]
      /\ revalTags \in [Revalidations -> SUBSET AllTags] /\ todo \in [Revalidations -> SUBSET AllTags]
      /\ inserts \in [Revalidations -> SUBSET PageRows] /\ written \in [Revalidations -> SUBSET PageRows]
      /\ landing \in [Revalidations -> SUBSET PageRows] /\ took \in [Revalidations -> Nat]
  BY DEF PagesInit
<1>3. setKey \in [Sets -> Keys]
  BY PageTagsAssumption DEF PagesInit, SomeKey
<1>4. InThePast
  BY DEF PagesInit, InThePast
<1>5. Overlapping /\ UnlistedUnrevalidated
  BY DEF PagesInit, Overlapping, Setting, UnlistedUnrevalidated
<1>6. WritesBegun /\ InOrder /\ LaterCrosses
  BY DEF PagesInit, WritesBegun, InOrder, LaterCrosses, Landing
<1>7. QED
  BY <1>1, <1>2, <1>3, <1>4, <1>5, <1>6 DEF PagesInit, KeptInv, TagsTyped

\* A call of set keeps the invariant.
LEMMA SetsKeep ==
    ASSUME KeptInv, NEW s \in Sets,
           \/ \E k \in Keys : Render(s, k) \/ DeleteEntry(s, k)
           \/ StoreEntry(s) \/ StoreFails(s) \/ ListTags(s) \/ TagEntry(s) \/ TagEntryFails(s)
    PROVE  KeptInv' /\ Kept
<1> USE DEF KeptInv, tagCache, revalidating
<1> DEFINE Still == UNCHANGED <<reval, revalTags, todo, inserts, written, landing, took, crossing, times, instant>>
           Unmoved == Still /\ rows' = rows
<1>0. ASSUME Still, rows' = rows PROVE WritesBegun' /\ InOrder' /\ LaterCrosses'
  BY <1>0, OrderStays
<1>1. CASE \E k \in Keys : Render(s, k)
  <2>1. PICK k \in Keys : Render(s, k)
    BY <1>1
  <2>2. Unmoved /\ unlisted' = unlisted /\ untagged' = untagged /\ overlap \subseteq overlap'
    BY <2>1 DEF Render
  <2>3. set' = [set EXCEPT ![s] = "rendered"] /\ setKey' = [setKey EXCEPT ![s] = k]
    BY <2>1 DEF Render
  <2>4. TagsTyped' /\ InThePast' /\ Kept
    BY <2>2, <2>3 DEF TagsTyped, InThePast, Kept
  <2>5. Overlapping'
    BY <2>1, <2>2, <2>3 DEF Render, Overlapping, Revalidating, Setting, TagsTyped
  <2>6. UnlistedUnrevalidated'
    BY <2>2, <2>3 DEF UnlistedUnrevalidated, Excused, TagsTyped
  <2>7. QED
    BY <1>0, <2>2, <2>4, <2>5, <2>6
<1>2. ASSUME Unmoved, UNCHANGED <<setKey, unlisted, overlap>>, set[s] \notin {"idle", "done"},
             untagged \subseteq untagged',
             \E there \in {"listing", "done"} : set' = [set EXCEPT ![s] = there]
      PROVE  KeptInv' /\ Kept
  <2>1. PICK there \in {"listing", "done"} : set' = [set EXCEPT ![s] = there]
    BY <1>2
  <2>2. TagsTyped' /\ InThePast' /\ Kept
    BY <1>2, <2>1 DEF TagsTyped, InThePast, Kept
  <2>3. Overlapping'
    BY <1>2, <2>1 DEF Overlapping, Revalidating, Setting, TagsTyped
  <2>4. UnlistedUnrevalidated'
    BY <1>2, <2>1 DEF UnlistedUnrevalidated, Excused, TagsTyped
  <2>5. QED
    BY <1>0, <1>2, <2>2, <2>3, <2>4
<1>3. CASE StoreEntry(s) \/ StoreFails(s) \/ TagEntryFails(s)
  BY <1>2, <1>3 DEF StoreEntry, AfterStore, StoreFails, TagEntryFails
<1>4. CASE \E k \in Keys : DeleteEntry(s, k)
  <2>1. Unmoved /\ UNCHANGED <<setKey, unlisted, untagged, overlap>> /\ set' = [set EXCEPT ![s] = "done"]
    BY <1>4 DEF DeleteEntry
  <2>2. TagsTyped' /\ InThePast' /\ Kept
    BY <2>1 DEF TagsTyped, InThePast, Kept
  <2>3. Overlapping'
    BY <2>1 DEF Overlapping, Revalidating, Setting, TagsTyped
  <2>4. UnlistedUnrevalidated'
    BY <2>1 DEF UnlistedUnrevalidated, Excused, TagsTyped
  <2>5. QED
    BY <1>0, <2>1, <2>2, <2>3, <2>4
<1>5. CASE ListTags(s)
  <2>1. PICK ts \in {NotStored(setKey[s]), TagsOf[setKey[s]]} :
           /\ unlisted' = [unlisted EXCEPT ![s] = ts]
           /\ ts = NotStored(setKey[s]) \/ untagged' = untagged \cup {s}
           /\ set' = [set EXCEPT ![s] = IF ts = {} THEN "done" ELSE "tagging"]
    BY <1>5 DEF ListTags
  <2>2. Unmoved /\ UNCHANGED <<setKey, overlap>> /\ set[s] = "listing" /\ untagged \subseteq untagged'
    BY <1>5 DEF ListTags
  <2>3. ts \subseteq AllTags /\ setKey[s] \in Keys
    BY PageTagsAssumption DEF NotStored, AllTags, TagsTyped
  <2>4. TagsTyped' /\ InThePast' /\ Kept
    BY <2>1, <2>2, <2>3 DEF TagsTyped, InThePast, Kept
  <2>5. Overlapping'
    BY <2>1, <2>2 DEF Overlapping, Revalidating, Setting, TagsTyped
  <2>6. s \in untagged' \/ \A t \in unlisted'[s] : rows[t][setKey[s]] <= 1
    BY <2>1, <2>3 DEF NotStored, TagsTyped
  <2>7. UnlistedUnrevalidated'
    BY <2>1, <2>2, <2>6 DEF UnlistedUnrevalidated, Excused, TagsTyped
  <2>8. QED
    BY <1>0, <2>2, <2>4, <2>5, <2>7
<1>6. CASE TagEntry(s)
  <2>1. /\ set[s] = "tagging" /\ set' = [set EXCEPT ![s] = "done"]
        /\ rows' = Stamp(unlisted[s] \X {setKey[s]}, 1)
        /\ Still /\ UNCHANGED <<setKey, unlisted, untagged, overlap>>
    BY <1>6 DEF TagEntry
  <2>2. /\ rows' \in [AllTags -> [Keys -> Nat]]
        /\ \A t \in AllTags, k \in Keys :
              rows'[t][k] = IF t \in unlisted[s] /\ k = setKey[s] THEN 1 ELSE rows[t][k]
    BY <2>1, Tagged
  <2>3. TagsTyped'
    BY <2>1, <2>2 DEF TagsTyped
  <2>4. InThePast'
    <3>1. ASSUME NEW t \in AllTags, NEW k \in Keys PROVE rows'[t][k] <= instant /\ times[t] <= instant
      BY <2>2, <3>1 DEF InThePast, TagsTyped
    <3>2. QED
      BY <2>1, <3>1 DEF InThePast
  <2>5. Overlapping'
    BY <2>1 DEF Overlapping, Revalidating, Setting, TagsTyped
  <2>6. UnlistedUnrevalidated'
    <3>1. ASSUME NEW u \in Sets, set'[u] = "tagging", ~Excused(u), NEW t \in unlisted[u]
          PROVE  rows'[t][setKey[u]] <= 1
      <4>1. set[u] = "tagging" /\ t \in AllTags /\ setKey[u] \in Keys
        BY <2>1, <3>1 DEF TagsTyped
      <4>2. rows[t][setKey[u]] <= 1
        BY <3>1, <4>1 DEF UnlistedUnrevalidated
      <4>3. QED
        BY <2>2, <4>1, <4>2
    <3>2. QED
      BY <2>1, <3>1 DEF UnlistedUnrevalidated, Excused
  <2>7. Kept
    <3>1. ASSUME NEW t \in AllTags, NEW k \in Keys, rows'[t][k] < rows[t][k]
          PROVE  setKey[s] = k /\ Excused(s)
      <4>1. t \in unlisted[s] /\ k = setKey[s] /\ rows'[t][k] = 1 /\ rows[t][k] \in Nat
        BY <2>2, <3>1 DEF TagsTyped
      <4>2. QED
        BY <2>1, <3>1, <4>1 DEF UnlistedUnrevalidated
    <3>2. \A t \in AllTags : ~(times'[t] < times[t])
      BY <2>1 DEF TagsTyped
    <3>3. QED
      BY <2>1, <3>1, <3>2 DEF Kept, Excused
  <2>8. WritesBegun' /\ InOrder' /\ LaterCrosses'
    BY <2>1, <2>2, OrderStays
  <2>9. QED
    BY <2>3, <2>4, <2>5, <2>6, <2>7, <2>8
<1>7. QED
  BY <1>1, <1>3, <1>4, <1>5, <1>6

\* The steps of a call of revalidateTag, but its start.
RevalidationMoves(r) ==
    \/ TakeTime(r) \/ StampTags(r)
    \/ NextTag(r) \/ LookUpRows(r) \/ PrepareRows(r) \/ WriteRows(r)
    \/ LookUpFails(r) \/ WritesLost(r) \/ RevalidationFails(r)

\* Their types.
LEMMA RevalidationsTagsTyped ==
    ASSUME TagsTyped, NEW r \in Revalidations,
           RevalidationMoves(r) \/ \E ts \in SUBSET AllTags \ {{}} : RevalidateTags(r, ts)
    PROVE  TagsTyped'
<1> USE DEF TagsTyped, tagCache, setting
<1>1. CASE \E ts \in SUBSET AllTags \ {{}} : RevalidateTags(r, ts)
  BY <1>1 DEF RevalidateTags
<1>A. CASE TakeTime(r)
  BY <1>A DEF TakeTime
<1>B. CASE RevalidationFails(r)
  BY <1>B DEF RevalidationFails
<1>C. CASE LookUpFails(r)
  BY <1>C DEF LookUpFails
<1>3. CASE StampTags(r)
  <2>1. PICK ts \in SUBSET todo[r] \ {{}} :
          /\ times' = [t \in AllTags |-> IF t \in ts THEN took[r] ELSE times[t]]
          /\ todo' = [todo EXCEPT ![r] = @ \ ts]
          /\ reval' = [reval EXCEPT ![r] = IF ts = todo[r] THEN "done" ELSE "stamping"]
    BY <1>3 DEF StampTags
  <2>2. times' \in [AllTags -> Nat]
    BY <2>1
  <2>3. todo' \in [Revalidations -> SUBSET AllTags]
    BY <2>1
  <2>4. QED
    BY <1>3, <2>1, <2>2, <2>3 DEF StampTags
<1>4. CASE NextTag(r)
  <2>1. PICK t \in todo[r] : \E listed \in {{row \in Rows : row[1] = t}, {}} :
          /\ todo' = [todo EXCEPT ![r] = @ \ {t}]
          /\ inserts' = [inserts EXCEPT ![r] = listed]
    BY <1>4 DEF NextTag
  <2>2. PICK listed \in {{row \in Rows : row[1] = t}, {}} :
          /\ todo' = [todo EXCEPT ![r] = @ \ {t}]
          /\ inserts' = [inserts EXCEPT ![r] = listed]
    BY <2>1
  <2>3. listed \subseteq PageRows
    BY DEF Rows
  <2>4. QED
    BY <1>4, <2>2, <2>3 DEF NextTag
<1>5. CASE LookUpRows(r)
  <2>1. PICK x \in lookups[r] :
          inserts' = [inserts EXCEPT ![r] = @ \cup (IF x[1] = "tag" THEN {w \in Rows : w[1] = x[2]} ELSE {})]
    BY <1>5 DEF LookUpRows
  <2>2. {w \in Rows : w[1] = x[2]} \subseteq PageRows
    BY DEF Rows
  <2>3. QED
    BY <1>5, <2>1, <2>2 DEF LookUpRows
<1>6. CASE PrepareRows(r)
  BY <1>6 DEF PrepareRows, Fresh, AfterTag
<1>7. CASE WriteRows(r)
  <2>1. PICK ws \in SUBSET landing[r] \ {{}} :
          /\ rows' = Stamp(ws, took[r])
          /\ landing' = [landing EXCEPT ![r] = @ \ ws]
          /\ reval' = [reval EXCEPT ![r] = IF ws = landing[r] THEN AfterTag(r) ELSE "landing"]
    BY <1>7 DEF WriteRows
  <2>2. rows' \in [AllTags -> [Keys -> Nat]]
    BY <2>1, Stamped
  <2>3. landing' \in [Revalidations -> SUBSET PageRows]
    BY <2>1
  <2>4. QED
    BY <1>7, <2>1, <2>2, <2>3 DEF WriteRows, AfterTag
<1>8. CASE WritesLost(r)
  <2>1. UNCHANGED <<instant, times, rows, set, setKey, unlisted, revalTags, inserts, written, took>>
    BY <1>8 DEF WritesLost
  <2>2. /\ todo' \in [Revalidations -> SUBSET AllTags] /\ landing' \in [Revalidations -> SUBSET PageRows]
        /\ \E there \in {"stamping", "landing", "next", "done"} : reval' = [reval EXCEPT ![r] = there]
    <3>1. CASE reval[r] = "stamping"
      BY <1>8, <3>1 DEF WritesLost
    <3>2. CASE reval[r] = "landing"
      <4>1. PICK ws \in SUBSET landing[r] \ {{}} :
              /\ landing' = [landing EXCEPT ![r] = @ \ ws]
              /\ reval' = [reval EXCEPT ![r] = IF ws = landing[r] THEN AfterTag(r) ELSE "landing"]
        BY <1>8, <3>2 DEF WritesLost
      <4>2. todo' = todo
        BY <1>8, <3>2 DEF WritesLost
      <4>3. AfterTag(r) \in {"next", "done"}
        BY DEF AfterTag
      <4>4. QED
        BY <4>1, <4>2, <4>3
    <3>3. QED
      BY <1>8, <3>1, <3>2 DEF WritesLost
  <2>3. QED
    BY <2>1, <2>2
<1>9. QED
  BY <1>1, <1>A, <1>B, <1>C, <1>3, <1>4, <1>5, <1>6, <1>7, <1>8 DEF RevalidationMoves

\* A time that is later for a revalidation stays so while the tags and rows of the others
\* only leave those that are to come.
LEMMA LaterStays ==
    ASSUME KeptInv, crossing \subseteq crossing',
           \A p \in Revalidations : reval[p] # "idle" =>
              /\ revalTags'[p] = revalTags[p] /\ todo'[p] \subseteq todo[p]
              /\ written[p] \ landing[p] \subseteq written'[p] \ landing'[p]
    PROVE  \A q, w : (Later(q, w) => Later(q, w)') /\ (LaterRow(q, w) => LaterRow(q, w)')
  BY DEF KeptInv, WritesBegun, Later, LaterRow

\* A call of revalidateTag keeps what sets rely on.
LEMMA RevalidationsOverlap ==
    ASSUME KeptInv, TagsTyped', NEW r \in Revalidations,
           RevalidationMoves(r) \/ \E ts \in SUBSET AllTags \ {{}} : RevalidateTags(r, ts)
    PROVE  Overlapping' /\ UnlistedUnrevalidated'
<1> USE DEF KeptInv, tagCache, setting
<1>1. CASE \E ts \in SUBSET AllTags \ {{}} : RevalidateTags(r, ts)
  <2>1. /\ UNCHANGED <<instant, times, rows, set, setKey, unlisted, untagged>>
        /\ overlap' = overlap \cup ({r} \X Setting)
        /\ \E there \in {"writing", "next"} : reval' = [reval EXCEPT ![r] = there]
    BY <1>1 DEF RevalidateTags
  <2>2. Overlapping'
    BY <2>1 DEF Overlapping, Revalidating, Setting, TagsTyped
  <2>3. UnlistedUnrevalidated'
    BY <2>1 DEF UnlistedUnrevalidated, Excused
  <2>4. QED
    BY <2>2, <2>3
<1>2. CASE RevalidationMoves(r)
  <2>1. UNCHANGED <<set, setKey, unlisted, untagged, overlap>>
    BY <1>2 DEF RevalidationMoves, TakeTime, StampTags, NextTag, LookUpRows, PrepareRows, WriteRows, LookUpFails,
                WritesLost, RevalidationFails
  <2>2. r \in Revalidating
    BY <1>2 DEF RevalidationMoves, TakeTime, StampTags, NextTag, LookUpRows, PrepareRows, WriteRows, LookUpFails,
                WritesLost, RevalidationFails, Revalidating
  <2>3. \A q \in Revalidations : q # r => reval'[q] = reval[q]
    BY <1>2 DEF RevalidationMoves, TakeTime, StampTags, NextTag, LookUpRows, PrepareRows, WriteRows, LookUpFails,
                WritesLost, RevalidationFails, TagsTyped
  <2>4. Overlapping'
    BY <2>1, <2>2, <2>3 DEF Overlapping, Revalidating, Setting
  <2>5. \A s \in Sets : set[s] = "tagging" => <<r, s>> \in overlap
    BY <2>2 DEF Overlapping, Setting
  <2>6. UnlistedUnrevalidated'
    BY <2>1, <2>5 DEF UnlistedUnrevalidated, Excused
  <2>7. QED
    BY <2>4, <2>6
<1>3. QED
  BY <1>1, <1>2

\* A step of a revalidation that writes nothing keeps its writes in order.
LEMMA OrderKept ==
    ASSUME KeptInv, TagsTyped', NEW r \in Revalidations, UNCHANGED <<instant, times, rows>>,
           reval[r] # "idle", reval'[r] # "idle",
           \A q \in Revalidations : q # r =>
              /\ reval'[q] = reval[q] /\ revalTags'[q] = revalTags[q] /\ todo'[q] = todo[q]
              /\ written'[q] = written[q] /\ landing'[q] = landing[q] /\ took'[q] = took[q],
           revalTags'[r] = revalTags[r] /\ todo'[r] \subseteq todo[r],
           landing'[r] \subseteq written'[r] /\ written[r] \ landing[r] \subseteq written'[r] \ landing'[r],
           \/ /\ crossing' = crossing /\ took'[r] = took[r] /\ landing'[r] \subseteq landing[r]
              /\ reval'[r] \notin {"stamping", "landing"} \/ reval'[r] = reval[r]
           \/ crossing' = crossing \cup (Landing \X {r}) /\ took'[r] = instant
    PROVE  InThePast' /\ WritesBegun' /\ InOrder' /\ LaterCrosses'
<1> USE DEF KeptInv
<1>1. crossing \subseteq crossing'
  OBVIOUS
<1>2. \A q, w : (Later(q, w) => Later(q, w)') /\ (LaterRow(q, w) => LaterRow(q, w)')
  BY <1>1, LaterStays
<1>3. /\ instant \in Nat /\ instant > 1
      /\ \A q \in Revalidations : took[q] \in Nat /\ took'[q] \in Nat /\ took[q] <= instant /\ took'[q] <= instant
  BY DEF TagsTyped, InThePast
<1>4. InThePast'
  BY <1>3 DEF InThePast
<1>5. CASE /\ crossing' = crossing /\ took'[r] = took[r] /\ landing'[r] \subseteq landing[r]
           /\ reval'[r] \notin {"stamping", "landing"} \/ reval'[r] = reval[r]
  <2>1. Landing' \subseteq Landing
    BY <1>5 DEF Landing
  <2>2. WritesBegun'
    BY <1>5, <2>1 DEF WritesBegun, Landing
  <2>3. InOrder'
    BY <1>5, <2>1 DEF InOrder, Landing
  <2>4. LaterCrosses'
    BY <1>2, <1>5 DEF LaterCrosses
  <2>5. QED
    BY <1>4, <2>2, <2>3, <2>4
<1>6. CASE crossing' = crossing \cup (Landing \X {r}) /\ took'[r] = instant
  <2>1. \A q \in Landing' : q = r \/ q \in Landing
    BY DEF Landing
  <2>2. WritesBegun'
    BY <1>3, <1>6, <2>1 DEF WritesBegun, Landing
  <2>3. ASSUME NEW q \in Landing', NEW p \in Landing', took'[q] < took'[p] PROVE <<q, p>> \in crossing'
    <3>1. q \in Revalidations /\ p \in Revalidations
      BY DEF Landing
    <3>2. q # r
      BY <1>3, <1>6, <2>3, <3>1
    <3>3. q \in Landing
      BY <2>1, <3>2
    <3>4. CASE p = r
      BY <1>6, <3>3, <3>4
    <3>5. CASE p # r
      BY <1>1, <2>1, <2>3, <3>1, <3>2, <3>3, <3>5 DEF InOrder
    <3>6. QED
      BY <3>4, <3>5
  <2>4. InOrder'
    BY <2>3 DEF InOrder
  <2>5. ASSUME NEW q \in Revalidations, reval'[q] = "stamping", NEW t \in todo'[q], took'[q] < times'[t]
        PROVE  Later(q, t)'
    <3>1. times[t] <= instant /\ times[t] \in Nat
      BY <2>5 DEF InThePast, TagsTyped
    <3>2. q # r
      BY <1>3, <1>6, <2>5, <3>1
    <3>3. Later(q, t)
      BY <2>5, <3>2 DEF LaterCrosses
    <3>4. QED
      BY <1>2, <3>3
  <2>6. ASSUME NEW q \in Revalidations, reval'[q] = "landing", NEW t \in AllTags, NEW k \in Keys,
               <<t, k>> \in landing'[q], took'[q] < rows'[t][k]
        PROVE  LaterRow(q, <<t, k>>)'
    <3>1. rows[t][k] <= instant /\ rows[t][k] \in Nat
      BY <2>6 DEF InThePast, TagsTyped
    <3>2. q # r
      BY <1>3, <1>6, <2>6, <3>1
    <3>3. LaterRow(q, <<t, k>>)
      BY <2>6, <3>2 DEF LaterCrosses
    <3>4. QED
      BY <1>2, <3>3
  <2>7. LaterCrosses'
    BY <2>5, <2>6 DEF LaterCrosses
  <2>8. QED
    BY <1>4, <2>2, <2>4, <2>7
<1>7. QED
  BY <1>5, <1>6

\* Tags are stamped: a time becomes an earlier one only as Kept has it.
LEMMA TagsStampedKeep ==
    ASSUME KeptInv, TagsTyped', NEW r \in Revalidations, StampTags(r)
    PROVE  InThePast' /\ WritesBegun' /\ InOrder' /\ LaterCrosses' /\ Kept
<1> USE DEF KeptInv
<1>1. PICK ts \in SUBSET todo[r] \ {{}} :
        /\ times' = [t \in AllTags |-> IF t \in ts THEN took[r] ELSE times[t]]
        /\ todo' = [todo EXCEPT ![r] = @ \ ts]
        /\ reval' = [reval EXCEPT ![r] = IF ts = todo[r] THEN "done" ELSE "stamping"]
  BY DEF StampTags
<1>2. /\ UNCHANGED <<instant, rows, revalTags, written, took, landing, crossing>> /\ reval[r] = "stamping"
      /\ todo'[r] = todo[r] \ ts /\ ts \subseteq AllTags /\ reval'[r] \in {"done", "stamping"}
      /\ \A q \in Revalidations : q # r => reval'[q] = reval[q] /\ todo'[q] = todo[q]
  BY <1>1 DEF StampTags, TagsTyped
<1>3. Landing' \subseteq Landing /\ r \in Landing
  BY <1>2 DEF Landing
<1>4. \A t \in AllTags : times'[t] = IF t \in ts THEN took[r] ELSE times[t]
  BY <1>1
<1>5. \A q, w : (Later(q, w) => Later(q, w)') /\ (LaterRow(q, w) => LaterRow(q, w)')
  BY <1>2, LaterStays
<1>6. InThePast'
  BY <1>2, <1>4 DEF InThePast
<1>7. WritesBegun' /\ InOrder'
  BY <1>2, <1>3 DEF WritesBegun, InOrder
<1>8. ASSUME NEW q \in Revalidations, reval'[q] = "stamping", NEW t \in todo'[q], took'[q] < times'[t]
      PROVE  Later(q, t)'
  <2>1. reval[q] = "stamping" /\ t \in todo[q] /\ t \in AllTags /\ q \in Landing
    BY <1>2, <1>8 DEF Landing, TagsTyped
  <2>2. CASE t \in ts
    <3>1. took[q] < took[r]
      BY <1>2, <1>4, <1>8, <2>1, <2>2
    <3>2. <<q, r>> \in crossing
      BY <1>3, <2>1, <3>1 DEF InOrder
    <3>3. t \in revalTags'[r] \ todo'[r]
      BY <1>2, <2>2 DEF WritesBegun
    <3>4. QED
      BY <1>2, <3>2, <3>3 DEF Later
  <2>3. CASE t \notin ts
    <3>1. Later(q, t)
      BY <1>2, <1>4, <1>8, <2>1, <2>3 DEF LaterCrosses
    <3>2. QED
      BY <1>5, <3>1
  <2>4. QED
    BY <2>2, <2>3
<1>9. ASSUME NEW q \in Revalidations, reval'[q] = "landing", NEW t \in AllTags, NEW k \in Keys,
             <<t, k>> \in landing'[q], took'[q] < rows'[t][k]
      PROVE  LaterRow(q, <<t, k>>)'
  BY <1>2, <1>5, <1>9 DEF LaterCrosses
<1>10. LaterCrosses'
  BY <1>8, <1>9 DEF LaterCrosses
<1>11. ASSUME NEW t \in AllTags, times'[t] < times[t]
       PROVE  t \in todo[r] /\ Later(r, t)
  <2>1. t \in ts /\ took[r] < times[t]
    BY <1>4, <1>11 DEF TagsTyped
  <2>2. QED
    BY <1>2, <2>1 DEF LaterCrosses
<1>12. \A t \in AllTags, k \in Keys : ~(rows'[t][k] < rows[t][k])
  BY <1>2 DEF TagsTyped
<1>13. Kept
  BY <1>11, <1>12 DEF Kept, Later
<1>14. QED
  BY <1>6, <1>7, <1>10, <1>13

\* Rows are written: as the tags.
LEMMA RowsWrittenKeep ==
    ASSUME KeptInv, TagsTyped', NEW r \in Revalidations, WriteRows(r)
    PROVE  InThePast' /\ WritesBegun' /\ InOrder' /\ LaterCrosses' /\ Kept
<1> USE DEF KeptInv
<1>1. PICK ws \in SUBSET landing[r] \ {{}} :
        /\ rows' = Stamp(ws, took[r])
        /\ landing' = [landing EXCEPT ![r] = @ \ ws]
        /\ reval' = [reval EXCEPT ![r] = IF ws = landing[r] THEN AfterTag(r) ELSE "landing"]
  BY DEF WriteRows
<1>2. /\ UNCHANGED <<instant, times, revalTags, todo, written, took, crossing>> /\ reval[r] = "landing"
      /\ landing'[r] = landing[r] \ ws /\ reval'[r] \in {"done", "next", "landing"}
      /\ \A q \in Revalidations : q # r => reval'[q] = reval[q] /\ landing'[q] = landing[q]
  BY <1>1 DEF WriteRows, TagsTyped, AfterTag
<1>3. Landing' \subseteq Landing /\ r \in Landing
  BY <1>2 DEF Landing
<1>4. \A t \in AllTags, k \in Keys : rows'[t][k] = IF <<t, k>> \in ws THEN took[r] ELSE rows[t][k]
  BY <1>1 DEF Stamp
<1>5. \A q, w : (Later(q, w) => Later(q, w)') /\ (LaterRow(q, w) => LaterRow(q, w)')
  BY <1>2, LaterStays
<1>6. InThePast'
  BY <1>2, <1>4 DEF InThePast
<1>7. WritesBegun' /\ InOrder'
  BY <1>2, <1>3 DEF WritesBegun, InOrder
<1>8. ASSUME NEW q \in Revalidations, reval'[q] = "landing", NEW t \in AllTags, NEW k \in Keys,
             <<t, k>> \in landing'[q], took'[q] < rows'[t][k]
      PROVE  LaterRow(q, <<t, k>>)'
  <2>1. reval[q] = "landing" /\ <<t, k>> \in landing[q] /\ q \in Landing
    BY <1>2, <1>8 DEF Landing
  <2>2. CASE <<t, k>> \in ws
    <3>1. took[q] < took[r]
      BY <1>2, <1>4, <1>8, <2>2
    <3>2. <<q, r>> \in crossing
      BY <1>3, <2>1, <3>1 DEF InOrder
    <3>3. <<t, k>> \in written'[r] \ landing'[r]
      BY <1>2, <2>2 DEF WritesBegun
    <3>4. QED
      BY <1>2, <3>2, <3>3 DEF LaterRow
  <2>3. CASE <<t, k>> \notin ws
    <3>1. LaterRow(q, <<t, k>>)
      BY <1>2, <1>4, <1>8, <2>1, <2>3 DEF LaterCrosses
    <3>2. QED
      BY <1>5, <3>1
  <2>4. QED
    BY <2>2, <2>3
<1>9. ASSUME NEW q \in Revalidations, reval'[q] = "stamping", NEW t \in todo'[q], took'[q] < times'[t]
      PROVE  Later(q, t)'
  BY <1>2, <1>5, <1>9 DEF LaterCrosses
<1>10. LaterCrosses'
  BY <1>8, <1>9 DEF LaterCrosses
<1>11. ASSUME NEW t \in AllTags, NEW k \in Keys, rows'[t][k] < rows[t][k]
       PROVE  <<t, k>> \in landing[r] /\ LaterRow(r, <<t, k>>)
  <2>1. <<t, k>> \in ws /\ took[r] < rows[t][k]
    BY <1>4, <1>11 DEF TagsTyped
  <2>2. QED
    BY <1>2, <2>1 DEF LaterCrosses
<1>12. \A t \in AllTags : ~(times'[t] < times[t])
  BY <1>2 DEF TagsTyped
<1>13. Kept
  BY <1>11, <1>12 DEF Kept, LaterRow
<1>14. QED
  BY <1>6, <1>7, <1>10, <1>13

\* A call of revalidateTag keeps the invariant.
LEMMA RevalidationsKeep ==
    ASSUME KeptInv, NEW r \in Revalidations,
           RevalidationMoves(r) \/ \E ts \in SUBSET AllTags \ {{}} : RevalidateTags(r, ts)
    PROVE  KeptInv' /\ Kept
<1>1. TagsTyped' /\ Overlapping' /\ UnlistedUnrevalidated'
  BY RevalidationsTagsTyped, RevalidationsOverlap DEF KeptInv
<1>2. ASSUME UNCHANGED <<times, rows>> PROVE Kept
  BY <1>2 DEF KeptInv, TagsTyped, Kept
<1> USE DEF tagCache
<1>3. CASE \E ts \in SUBSET AllTags \ {{}} : RevalidateTags(r, ts)
  <2>1. PICK ts \in SUBSET AllTags \ {{}} : RevalidateTags(r, ts)
    BY <1>3
  <2>2. /\ UNCHANGED <<instant, times, rows, written, took, landing, crossing>>
        /\ reval[r] = "idle" /\ reval'[r] \in {"writing", "next"} /\ todo'[r] = ts /\ revalTags'[r] = ts
        /\ \A q \in Revalidations : q # r => reval'[q] = reval[q] /\ todo'[q] = todo[q] /\ revalTags'[q] = revalTags[q]
    BY <2>1 DEF RevalidateTags, KeptInv, TagsTyped
  <2>3. Landing' = Landing
    BY <2>2 DEF Landing
  <2>4. InThePast' /\ InOrder'
    BY <2>2, <2>3 DEF KeptInv, InThePast, InOrder
  <2>5. WritesBegun'
    BY <2>2, <2>3 DEF KeptInv, WritesBegun
  <2>6. \A q, w : (Later(q, w) => Later(q, w)') /\ (LaterRow(q, w) => LaterRow(q, w)')
    BY <2>2 DEF KeptInv, WritesBegun, Later, LaterRow
  <2>7. LaterCrosses'
    BY <2>2, <2>6 DEF KeptInv, LaterCrosses
  <2>8. QED
    BY <1>1, <1>2, <2>2, <2>4, <2>5, <2>7 DEF KeptInv
<1>4. CASE StampTags(r)
  BY <1>1, <1>4, TagsStampedKeep DEF KeptInv
<1>5. CASE WriteRows(r)
  BY <1>1, <1>5, RowsWrittenKeep DEF KeptInv
<1>6. ASSUME UNCHANGED <<instant, times, rows>>,
             InThePast' /\ WritesBegun' /\ InOrder' /\ LaterCrosses'
      PROVE  KeptInv' /\ Kept
  BY <1>1, <1>2, <1>6 DEF KeptInv
<1>7. CASE TakeTime(r)
  <2>1. InThePast' /\ WritesBegun' /\ InOrder' /\ LaterCrosses'
    BY <1>1, <1>7, OrderKept DEF TakeTime, KeptInv, TagsTyped, WritesBegun
  <2>2. QED
    BY <1>6, <1>7, <2>1 DEF TakeTime
<1>8. CASE NextTag(r) \/ LookUpRows(r) \/ LookUpFails(r) \/ RevalidationFails(r)
  <2>1. /\ UNCHANGED <<instant, times, rows, revalTags, written, landing, took, crossing>>
        /\ reval[r] # "idle" /\ reval'[r] \in {"looking", "failed"} /\ todo'[r] \subseteq todo[r]
        /\ \A q \in Revalidations : q # r => reval'[q] = reval[q] /\ todo'[q] = todo[q]
    BY <1>8 DEF NextTag, LookUpRows, LookUpFails, RevalidationFails, Revalidating, KeptInv, TagsTyped
  <2>2. InThePast' /\ WritesBegun' /\ InOrder' /\ LaterCrosses'
    BY <1>1, <2>1, OrderKept DEF KeptInv, WritesBegun
  <2>3. QED
    BY <1>6, <2>1, <2>2
<1>9. CASE PrepareRows(r)
  <2>1. /\ UNCHANGED <<instant, times, rows, revalTags, todo>> /\ reval[r] = "looking" /\ reval'[r] # "idle"
        /\ took'[r] = instant /\ crossing' = crossing \cup (Landing \X {r})
        /\ written'[r] = written[r] \cup inserts[r] /\ landing'[r] = inserts[r] \ written[r]
        /\ \A q \in Revalidations : q # r =>
              /\ reval'[q] = reval[q] /\ written'[q] = written[q] /\ landing'[q] = landing[q] /\ took'[q] = took[q]
    BY <1>9 DEF PrepareRows, KeptInv, TagsTyped, AfterTag, Fresh
  <2>2. InThePast' /\ WritesBegun' /\ InOrder' /\ LaterCrosses'
    BY <1>1, <2>1, OrderKept DEF KeptInv, WritesBegun
  <2>3. QED
    BY <1>6, <2>1, <2>2
<1>10. CASE WritesLost(r)
  <2>1. /\ UNCHANGED <<instant, times, rows, revalTags, written, took, crossing>>
        /\ reval[r] \in {"stamping", "landing"} /\ reval'[r] \in {reval[r], "next", "done"}
        /\ todo'[r] \subseteq todo[r] /\ landing'[r] \subseteq landing[r]
        /\ \A q \in Revalidations : q # r =>
              reval'[q] = reval[q] /\ todo'[q] = todo[q] /\ landing'[q] = landing[q]
    <3>1. CASE reval[r] = "stamping"
      BY <1>10, <3>1 DEF WritesLost, KeptInv, TagsTyped
    <3>2. CASE reval[r] = "landing"
      <4>1. PICK ws \in SUBSET landing[r] \ {{}} :
              /\ landing' = [landing EXCEPT ![r] = @ \ ws]
              /\ reval' = [reval EXCEPT ![r] = IF ws = landing[r] THEN AfterTag(r) ELSE "landing"]
        BY <1>10, <3>2 DEF WritesLost
      <4>2. UNCHANGED <<instant, times, rows, revalTags, written, took, crossing, todo>>
        BY <1>10, <3>2 DEF WritesLost
      <4>3. AfterTag(r) \in {"next", "done"}
        BY DEF AfterTag
      <4>4. QED
        BY <3>2, <4>1, <4>2, <4>3 DEF KeptInv, TagsTyped
    <3>3. QED
      BY <1>10, <3>1, <3>2 DEF WritesLost
  <2>2. InThePast' /\ WritesBegun' /\ InOrder' /\ LaterCrosses'
    BY <1>1, <2>1, OrderKept DEF KeptInv, WritesBegun
  <2>3. QED
    BY <1>6, <2>1, <2>2
<1>11. QED
  BY <1>3, <1>4, <1>5, <1>7, <1>8, <1>9, <1>10 DEF RevalidationMoves

\* A call of get, the time and a step of something else keep it.
LEMMA OthersKeep ==
    ASSUME KeptInv,
           \/ \E g \in Gets, k \in Keys : ReadEntry(g, k)
           \/ \E g \in Gets : CheckTags(g) \/ CheckPath(g) \/ CheckFailsSilently(g) \/ CheckThrows(g)
           \/ PagesTick
           \/ UNCHANGED pageVars
    PROVE  KeptInv' /\ Kept
<1>1. /\ UNCHANGED <<times, rows, set, setKey, unlisted, untagged, reval, overlap>>
      /\ UNCHANGED <<revalTags, todo, inserts, written, landing, took, crossing>>
      /\ instant' = instant \/ instant' = instant + 1
  BY DEF ReadEntry, CheckTags, CheckPath, CheckFailsSilently, CheckThrows, PagesTick, pageVars, setting, revalidating,
         tagCache
<1>2. TagsTyped' /\ InThePast' /\ Kept
  BY <1>1 DEF KeptInv, TagsTyped, InThePast, Kept
<1>3. Overlapping' /\ UnlistedUnrevalidated'
  BY <1>1 DEF KeptInv, Overlapping, Revalidating, Setting, UnlistedUnrevalidated, Excused
<1>4. WritesBegun' /\ InOrder' /\ LaterCrosses'
  BY <1>1, OrderStays
<1>5. QED
  BY <1>2, <1>3, <1>4 DEF KeptInv

\* A time that a revalidation recorded becomes an earlier one only by the write of a
\* revalidation that was writing when the one that recorded it took the time, or by a set of
\* the key that overlapped a revalidation, or whose look at the rows failed silently.
THEOREM RecordsKept == PagesSpec => RevalidationsKept
<1>1. KeptInv /\ [PagesNext]_pageVars => KeptInv' /\ Kept
  BY SetsKeep, RevalidationsKeep, OthersKeep DEF PagesNext, RevalidationMoves
<1>2. KeptInv /\ [PagesNext]_pageVars => [Kept]_pageVars
  BY <1>1
<1>3. QED
  BY <1>1, <1>2, KeptInit, PTL DEF PagesSpec, RevalidationsKept, Kept

-----------------------------------------------------------------------------
(* Stale answers                                                           *)

\* The types of the calls.
LookUps == ({"path"} \X Keys) \cup ({"tag"} \X AllTags)
CallsTyped ==
    /\ mode \in {"nextMode", "original"}
    /\ store \in [Keys -> Entry \cup {Missing}]
    /\ sees \in [Sets -> SUBSET Revalidations]
    /\ untagged \subseteq Sets
    /\ overlap \subseteq Revalidations \X Sets
    /\ revalTags \in [Revalidations -> SUBSET AllTags]
    /\ todo \in [Revalidations -> SUBSET AllTags]
    /\ lookups \in [Revalidations -> SUBSET LookUps]
    /\ inserts \in [Revalidations -> SUBSET PageRows]
    /\ written \in [Revalidations -> SUBSET PageRows]
    /\ known \in [Revalidations -> SUBSET PageRows]
    /\ since \in [Revalidations -> Nat]
    /\ crossing \subseteq Revalidations \X Revalidations
    /\ get \in [Gets -> {"idle", "checking", "checkingPath", "hit"}]
    /\ getKey \in [Gets -> Keys]
    /\ found \in [Gets -> Entry \cup {Missing}]
    /\ past \in [Gets -> SUBSET Revalidations]

\* A revalidation is as old as its start; the calls in a pair or without tags have begun;
\* a tag cache is of one kind.
CallsBegun ==
    /\ \A r \in Revalidations : since[r] <= instant
    /\ \A r \in Revalidations, s \in Sets : <<r, s>> \in overlap => set[s] # "idle"
    /\ \A s \in untagged : set[s] # "idle"
    /\ \A r \in Revalidations : reval[r] \in {"next", "looking", "landing"} => mode = "original"
    /\ \A r \in Revalidations : reval[r] \in {"writing", "stamping"} => mode = "nextMode"

Started(r) == reval[r] # "idle"

\* A revalidation that has taken a time did so after it started, and those that are writing
\* an earlier time than its start were writing when it took its own.
Crossed ==
    /\ \A pair \in crossing : Started(pair[1]) /\ Started(pair[2])
    /\ \A r \in Landing : since[r] <= took[r]
    /\ \A r \in Revalidations :
        /\ ~Started(r) => took[r] = 0 /\ written[r] = {}
        /\ mode = "nextMode" /\ todo[r] # revalTags[r] => took[r] > 0
        /\ written[r] # {} => took[r] > 0
        /\ \A q \in Landing : took[r] > 0 /\ took[q] < since[r] => <<q, r>> \in crossing

Stored(s) == set[s] \in {"listing", "tagging", "done"}

\* A set of the key that overlapped the revalidation or that a tag cache failed.
Interferes(r, k) == \E s \in Sets : setKey[s] = k /\ (<<r, s>> \in overlap \/ s \in untagged)
\* An earlier revalidation was still writing.
Outrun(r) == \E q \in Revalidations : Outruns(q, r)
\* The tag or the row has the time of the revalidation or a later one.
Timed(r, t) == times[t] >= since[r] \/ Outrun(r)
Recorded(r, t, k) == rows[t][k] >= since[r] \/ Interferes(r, k) \/ Outrun(r)

\* A row that a revalidation knows remains a row.
KnownRows == \A r \in Revalidations : Started(r) => \A row \in known[r] : rows[row[1]][row[2]] > 0

\* A set under way saw the changes of a revalidation or overlaps it.
SeesOrOverlaps == \A s \in Setting, r \in Revalidations : Started(r) => r \in sees[s] \/ <<r, s>> \in overlap

\* What a set is going to write is what is missing, and no revalidation that it does not
\* overlap knows it.
WritesMissing ==
    \A s \in Sets : set[s] = "tagging" /\ s \notin untagged =>
        /\ \A t \in TagsOf[setKey[s]] : rows[t][setKey[s]] > 0 \/ t \in unlisted[s]
        /\ \A t \in unlisted[s], r \in Revalidations :
               Started(r) /\ <<t, setKey[s]>> \in known[r] => <<r, s>> \in overlap

\* The rows of an entry: they are there when its set is done, and the revalidations that
\* neither its render saw nor its set overlapped know them.
HasRows(e, k) ==
    /\ e \in Entry /\ Stored(e.by) /\ setKey[e.by] = k
    /\ mode = "original" /\ e.by \notin untagged =>
          /\ set[e.by] = "done" => \A t \in TagsOf[k] : rows[t][k] > 0
          /\ \A r \in Revalidations : Started(r) /\ r \notin e.sees /\ <<r, e.by>> \notin overlap =>
                \A t \in TagsOf[k] : <<t, k>> \in known[r]

StoreHasRows == \A k \in Keys : store[k] # Missing => HasRows(store[k], k)

\* What a revalidation has collected for the rows it is to write, or has written.
Collected(r) == written[r] \cup (IF reval[r] = "looking" THEN inserts[r] ELSE {})
Looks(r, x) == reval[r] = "looking" /\ x \in lookups[r]

\* Of a tag that was taken out of the list, all rows are collected, and those of the hard
\* tags of its paths are, or will be.
Collecting(r) ==
    \A t \in revalTags[r] \ todo[r], p \in Keys : <<t, p>> \in known[r] =>
        /\ <<t, p>> \in Collected(r)
        /\ t \in SoftTags => \A h \in HardTags : <<h, p>> \in known[r] =>
              \/ Looks(r, <<"path", p>>) \/ Looks(r, <<"tag", h>>)
              \/ \A k \in Keys : <<h, k>> \in known[r] => <<h, k>> \in Collected(r)

\* The rows it has written have its time or a later one.
WroteAll(r) ==
    \A t \in AllTags, k \in Keys :
        <<t, k>> \in written[r] /\ <<t, k>> \notin landing[r] /\ <<t, k>> \in known[r] => Recorded(r, t, k)

\* What a revalidation that went well has done so far.
GoesWell(r) ==
    Started(r) /\ reval[r] # "failed" /\ r \notin lost =>
        /\ reval[r] = "done" => todo[r] = {}
        /\ mode = "nextMode" => \A t \in revalTags[r] \ todo[r] : Timed(r, t)
        /\ mode = "original" =>
              /\ reval[r] # "landing" => landing[r] = {}
              /\ Collecting(r)
              /\ WroteAll(r)

\* What a get has read.
GetsTrue ==
    \A g \in Gets : get[g] # "idle" =>
        /\ HasRows(found[g], getKey[g])
        /\ \A r \in past[g] : reval[r] = "done"

\* Why a get may answer what a revalidation made stale.
Excuse(g, r) ==
    \/ found[g].at >= since[r]
    \/ \E s \in Sets : setKey[s] \in KeysChecked(getKey[g]) /\ (<<r, s>> \in overlap \/ s \in untagged)
    \/ Outrun(r)

\* The get would have found the rows of a key, but for an excuse.
FoundRows(g, r, k) == \A t \in AllTags : <<t, k>> \in known[r] /\ <<t, k>> \in written[r] => Excuse(g, r)

\* A get that looks at the rows of the page has looked at its own.
HalfChecked ==
    \A g \in Gets : get[g] = "checkingPath" =>
        /\ mode = "original" /\ PathToo(getKey[g])
        /\ g \notin unchecked => \A r \in past[g] : r \notin found[g].sees /\ r \notin lost => FoundRows(g, r, getKey[g])

StaleInv ==
    /\ CallsBegun /\ Crossed /\ KnownRows /\ SeesOrOverlaps /\ WritesMissing /\ StoreHasRows
    /\ \A r \in Revalidations : GoesWell(r)
    /\ GetsTrue /\ HalfChecked /\ StaleOnlyByOverlap

Sound == KeptInv /\ CallsTyped /\ StaleInv

\* What a step leaves of the sets.
SetsGoOn ==
    /\ overlap \subseteq overlap' /\ untagged \subseteq untagged'
    /\ \A s \in Sets :
        /\ set[s] # "idle" => set'[s] # "idle" /\ setKey'[s] = setKey[s]
        /\ Stored(s) => Stored(s)'
        /\ Stored(s) /\ set[s] # "done" /\ set'[s] = "done" /\ s \notin untagged' /\ mode = "original" =>
              \A t \in TagsOf[setKey[s]] : rows'[t][setKey[s]] > 0
        /\ s \in Setting' =>
              \/ s \in Setting /\ sees'[s] = sees[s]
              \/ sees'[s] = {r \in Revalidations : Started(r)} /\ reval' = reval
        /\ set'[s] = "tagging" =>
              \/ set[s] = "tagging" /\ unlisted'[s] = unlisted[s] /\ setKey'[s] = setKey[s]
              \/ /\ s \in untagged' \/ unlisted'[s] = NotStored(setKey[s])
                 /\ setKey'[s] = setKey[s] /\ UNCHANGED <<rows, reval, known>>

\* What a step leaves of the revalidations.
RevalidationsGoOn ==
    /\ crossing \subseteq crossing'
    /\ \A r \in Revalidations :
        /\ Started(r) => /\ Started(r)' /\ written[r] \subseteq written'[r]
                         /\ revalTags'[r] = revalTags[r] /\ since'[r] = since[r] /\ known'[r] = known[r]
        /\ reval[r] = "done" => reval'[r] = "done" /\ written'[r] = written[r]
        /\ ~Started(r) /\ Started(r)' =>
              known'[r] = Rows /\ {r} \X Setting \subseteq overlap' /\ UNCHANGED <<rows, set, setKey, unlisted>>

\* No row is taken away, and a time that a revalidation recorded is replaced by one from before
\* its start only when a set interferes or an earlier revalidation was still writing.
RowsGoOn ==
    /\ \A t \in AllTags, k \in Keys : rows[t][k] > 0 => rows'[t][k] > 0
    /\ \A t \in AllTags, k \in Keys, r \in Revalidations :
          Started(r) /\ <<t, k>> \in known[r] /\ <<t, k>> \in written[r] /\ Recorded(r, t, k) => Recorded(r, t, k)'
    /\ mode = "nextMode" => \A r \in Revalidations : \A t \in revalTags[r] \ todo[r] :
          Started(r) /\ Timed(r, t) => Timed(r, t)'

StoreGoesOn ==
    \A k \in Keys :
        \/ store'[k] = store[k]
        \/ store'[k] = Missing
        \/ \E s \in Setting :
              /\ set[s] = "rendered" /\ setKey[s] = k
              /\ store'[k] = [at |-> instant, by |-> s, sees |-> sees[s]]
              /\ set'[s] = AfterStore(k) /\ setKey' = setKey
              /\ UNCHANGED <<reval, known, rows>>

GetsGoOn ==
    \A g \in Gets : get'[g] # "idle" =>
        \/ /\ get[g] = get'[g]
           /\ getKey'[g] = getKey[g] /\ found'[g] = found[g] /\ past'[g] = past[g]
           /\ g \in unchecked => g \in unchecked'
        \/ /\ get[g] \in {"checking", "checkingPath"} /\ get'[g] = AfterCheck(g)
           /\ getKey'[g] = getKey[g] /\ found'[g] = found[g] /\ past'[g] = past[g]
           /\ g \in unchecked => g \in unchecked'
           /\ g \in unchecked' \/ ~Revalidated(IF get[g] = "checking" THEN getKey[g] ELSE PathOf[getKey[g]], found[g].at)
           /\ UNCHANGED <<mode, store, tagCache, setting, revalidating, overlap>>
        \/ /\ get'[g] = "checking"
           /\ \E k \in Keys : store[k] # Missing /\ found'[g] = store[k] /\ getKey'[g] = k
           /\ past'[g] = {r \in Revalidations : reval[r] = "done"}
           /\ UNCHANGED <<mode, store, tagCache, setting, revalidating, overlap>>

AllGoesOn ==
    /\ mode' = mode
    /\ lost \subseteq lost'
    /\ SetsGoOn /\ RevalidationsGoOn /\ RowsGoOn /\ StoreGoesOn /\ GetsGoOn


\* What a get found before a step has rows after it.
LEMMA RowsRemain ==
    ASSUME KeptInv, CallsTyped, StaleInv, AllGoesOn, NEW e, NEW k \in Keys, HasRows(e, k)
    PROVE  HasRows(e, k)'
<1> USE DEF AllGoesOn, StaleInv
<1> DEFINE s == e.by
<1>1. s \in Sets /\ e \in Entry /\ setKey[s] = k /\ Stored(s) /\ TagsOf[k] \subseteq AllTags
  BY PageTagsAssumption DEF HasRows, Entry, AllTags
<1>2. set[s] # "idle"
  BY <1>1 DEF Stored
<1>3. Stored(s)' /\ setKey'[s] = k
  BY <1>1, <1>2 DEF SetsGoOn
<1>4. ASSUME mode' = "original", s \notin untagged', set'[s] = "done", NEW t \in TagsOf[k]
      PROVE  rows'[t][k] > 0
  <2>1. mode = "original" /\ s \notin untagged
    BY <1>1, <1>4 DEF SetsGoOn
  <2>2. CASE set[s] = "done"
    BY <1>1, <1>4, <2>1, <2>2 DEF HasRows, RowsGoOn
  <2>3. CASE set[s] # "done"
    BY <1>1, <1>4, <2>1, <2>3 DEF SetsGoOn
  <2>4. QED
    BY <2>2, <2>3
<1>5. ASSUME mode' = "original", s \notin untagged', NEW r \in Revalidations, Started(r)',
             r \notin e.sees, <<r, s>> \notin overlap', NEW t \in TagsOf[k]
      PROVE  <<t, k>> \in known'[r]
  <2>1. mode = "original" /\ s \notin untagged /\ <<r, s>> \notin overlap
    BY <1>1, <1>5 DEF SetsGoOn
  <2>2. CASE Started(r)
    BY <1>1, <1>5, <2>1, <2>2 DEF HasRows, RevalidationsGoOn
  <2>3. CASE ~Started(r)
    <3>1. known'[r] = Rows /\ s \notin Setting
      BY <1>1, <1>5, <2>3 DEF RevalidationsGoOn
    <3>2. set[s] = "done"
      BY <1>1, <3>1 DEF Setting, Stored
    <3>3. rows[t][k] > 0
      BY <1>1, <1>5, <2>1, <3>2 DEF HasRows
    <3>4. QED
      BY <1>1, <1>5, <3>1, <3>3 DEF Rows, PageRows
  <2>4. QED
    BY <2>2, <2>3
<1>6. QED
  BY <1>1, <1>3, <1>4, <1>5 DEF HasRows

\* The parts of the invariant that the steps keep because of how they go on.
LEMMA KnownRemain ==
    ASSUME CallsTyped, StaleInv, AllGoesOn, CallsTyped'
    PROVE  KnownRows'
<1> USE DEF AllGoesOn, StaleInv
<1>1. ASSUME NEW r \in Revalidations, Started(r)', NEW row \in known'[r]
      PROVE  rows'[row[1]][row[2]] > 0
  <2>1. row \in PageRows /\ row[1] \in AllTags /\ row[2] \in Keys
    BY <1>1 DEF CallsTyped, PageRows
  <2>2. CASE Started(r)
    BY <1>1, <2>1, <2>2 DEF RevalidationsGoOn, RowsGoOn, KnownRows
  <2>3. CASE ~Started(r)
    BY <1>1, <2>1, <2>3 DEF RevalidationsGoOn, RowsGoOn, Rows
  <2>4. QED
    BY <2>2, <2>3
<1>2. QED
  BY <1>1 DEF KnownRows

LEMMA SeesRemain ==
    ASSUME StaleInv, AllGoesOn
    PROVE  SeesOrOverlaps'
<1> USE DEF AllGoesOn, StaleInv
<1>1. ASSUME NEW s \in Setting', NEW r \in Revalidations, Started(r)'
      PROVE  r \in sees'[s] \/ <<r, s>> \in overlap'
  <2>0. s \in Sets
    BY DEF Setting
  <2>1. CASE sees'[s] = {q \in Revalidations : Started(q)} /\ reval' = reval
    BY <1>1, <2>1 DEF Started
  <2>2. CASE s \in Setting /\ sees'[s] = sees[s]
    <3>1. CASE Started(r)
      BY <2>2, <3>1 DEF SeesOrOverlaps, SetsGoOn
    <3>2. CASE ~Started(r)
      BY <1>1, <2>2, <3>2 DEF RevalidationsGoOn
    <3>3. QED
      BY <3>1, <3>2
  <2>3. QED
    BY <1>1, <2>0, <2>1, <2>2 DEF SetsGoOn
<1>2. QED
  BY <1>1 DEF SeesOrOverlaps

LEMMA MissingRemain ==
    ASSUME KeptInv, CallsTyped, StaleInv, AllGoesOn
    PROVE  WritesMissing'
<1> USE DEF AllGoesOn, StaleInv
<1>1. ASSUME NEW s \in Sets, set'[s] = "tagging", s \notin untagged'
      PROVE  /\ \A t \in TagsOf[setKey'[s]] : rows'[t][setKey'[s]] > 0 \/ t \in unlisted'[s]
             /\ \A t \in unlisted'[s], r \in Revalidations :
                    Started(r)' /\ <<t, setKey'[s]>> \in known'[r] => <<r, s>> \in overlap'
  <2>1. s \notin untagged /\ overlap \subseteq overlap' /\ setKey[s] \in Keys /\ TagsOf[setKey[s]] \subseteq AllTags
    BY <1>1, PageTagsAssumption DEF SetsGoOn, KeptInv, TagsTyped, AllTags
  <2>2. CASE set[s] = "tagging" /\ unlisted'[s] = unlisted[s] /\ setKey'[s] = setKey[s]
    <3>1. \A t \in TagsOf[setKey[s]] : rows'[t][setKey[s]] > 0 \/ t \in unlisted[s]
      BY <2>1, <2>2 DEF WritesMissing, RowsGoOn
    <3>2. ASSUME NEW t \in unlisted[s], NEW r \in Revalidations, Started(r)', <<t, setKey[s]>> \in known'[r]
          PROVE  <<r, s>> \in overlap'
      <4>1. CASE Started(r)
        BY <2>1, <2>2, <3>2, <4>1 DEF WritesMissing, RevalidationsGoOn
      <4>2. CASE ~Started(r)
        BY <2>2, <3>2, <4>2 DEF RevalidationsGoOn, Setting
      <4>3. QED
        BY <4>1, <4>2
    <3>3. QED
      BY <2>2, <3>1, <3>2
  <2>3. CASE unlisted'[s] = NotStored(setKey[s]) /\ setKey'[s] = setKey[s] /\ UNCHANGED <<rows, reval, known>>
    <3>1. \A t \in TagsOf[setKey[s]] : rows[t][setKey[s]] \in Nat
      BY <2>1 DEF KeptInv, TagsTyped
    <3>2. \A t \in TagsOf[setKey[s]] : rows'[t][setKey[s]] > 0 \/ t \in unlisted'[s]
      BY <2>3, <3>1 DEF NotStored
    <3>3. \A t \in unlisted'[s], r \in Revalidations : Started(r) => <<t, setKey[s]>> \notin known[r]
      BY <2>3, <3>1 DEF NotStored, KnownRows
    <3>4. QED
      BY <2>3, <3>2, <3>3 DEF Started
  <2>4. QED
    BY <1>1, <2>2, <2>3 DEF SetsGoOn
<1>2. QED
  BY <1>1 DEF WritesMissing

LEMMA StoreRemains ==
    ASSUME KeptInv, CallsTyped, StaleInv, AllGoesOn
    PROVE  StoreHasRows'
<1> USE DEF AllGoesOn, StaleInv
<1>1. ASSUME NEW k \in Keys, store'[k] # Missing PROVE HasRows(store[k], k)'
  <2>1. CASE store'[k] = store[k]
    BY <1>1, <2>1, RowsRemain DEF StoreHasRows, HasRows
  <2>2. CASE store'[k] # store[k]
    <3>1. PICK s \in Setting :
            /\ set[s] = "rendered" /\ setKey[s] = k
            /\ store'[k] = [at |-> instant, by |-> s, sees |-> sees[s]]
            /\ set'[s] = AfterStore(k) /\ setKey' = setKey
            /\ UNCHANGED <<reval, known, rows>>
      BY <1>1, <2>2 DEF StoreGoesOn
    <3>2. s \in Sets /\ store'[k] \in Entry /\ store'[k].by = s /\ store'[k].sees = sees[s]
      BY <3>1 DEF Setting, Entry, KeptInv, TagsTyped, CallsTyped
    <3>3. set'[s] \in {"listing", "done"} /\ (set'[s] = "done" /\ mode = "original" => TagsOf[k] = {})
      BY <3>1 DEF AfterStore
    <3>4. \A r \in Revalidations : Started(r)' /\ r \notin sees[s] => <<r, s>> \in overlap'
      BY <3>1, <3>2 DEF SeesOrOverlaps, SetsGoOn, Started
    <3>5. QED
      BY <3>1, <3>2, <3>3, <3>4 DEF HasRows, Stored
  <2>3. QED
    BY <2>1, <2>2
<1>2. QED
  BY <1>1 DEF StoreHasRows

LEMMA GetsRemainTrue ==
    ASSUME KeptInv, CallsTyped, StaleInv, AllGoesOn, StoreHasRows'
    PROVE  GetsTrue'
<1> USE DEF AllGoesOn, StaleInv
<1>1. ASSUME NEW g \in Gets, get'[g] # "idle"
      PROVE  HasRows(found[g], getKey[g])' /\ \A r \in past'[g] : reval'[r] = "done"
  <2>1. CASE get[g] # "idle" /\ getKey'[g] = getKey[g] /\ found'[g] = found[g] /\ past'[g] = past[g]
    <3>1. HasRows(found[g], getKey[g]) /\ \A r \in past[g] : reval[r] = "done"
      BY <2>1 DEF GetsTrue
    <3>2. getKey[g] \in Keys /\ past[g] \subseteq Revalidations
      BY DEF CallsTyped
    <3>3. \A e : \A k \in Keys : HasRows(e, k) => HasRows(e, k)'
      BY RowsRemain
    <3>4. HasRows(found[g], getKey[g])'
      <4>0. PICK e : e = found[g]
        OBVIOUS
      <4>1. PICK k \in Keys : k = getKey[g]
        BY <3>2
      <4>2. HasRows(e, k)'
        BY <3>1, <3>3, <4>0, <4>1
      <4>3. e = found'[g] /\ k = getKey'[g]
        BY <2>1, <4>0, <4>1
      <4>4. QED
        BY <4>2, <4>3 DEF HasRows
    <3>5. QED
      BY <2>1, <3>1, <3>2, <3>4 DEF RevalidationsGoOn
  <2>2. CASE /\ \E k \in Keys : store[k] # Missing /\ found'[g] = store[k] /\ getKey'[g] = k
             /\ past'[g] = {r \in Revalidations : reval[r] = "done"}
             /\ UNCHANGED <<store, reval>>
    <3>1. PICK k \in Keys : store[k] # Missing /\ found'[g] = store[k] /\ getKey'[g] = k
      BY <2>2
    <3>2. HasRows(store[k], k)'
      BY <2>2, <3>1 DEF StoreHasRows
    <3>3. HasRows(found[g], getKey[g])'
      BY <2>2, <3>1, <3>2 DEF HasRows
    <3>4. QED
      BY <2>2, <3>3
  <2>3. QED
    BY <1>1, <2>1, <2>2 DEF GetsGoOn, revalidating
<1>2. QED
  BY <1>1 DEF GetsTrue


\* An earlier revalidation that was still writing remains one.
LEMMA OutrunRemains ==
    ASSUME Crossed, CallsTyped, RevalidationsGoOn, mode' = mode, NEW r \in Revalidations, Outrun(r)
    PROVE  Outrun(r)'
<1>1. PICK q \in Revalidations : Outruns(q, r)
  BY DEF Outrun
<1>2. Started(q) /\ Started(r) /\ <<q, r>> \in crossing'
  BY <1>1 DEF Outruns, Crossed, RevalidationsGoOn
<1>3. /\ since'[q] = since[q] /\ since'[r] = since[r]
      /\ revalTags'[q] = revalTags[q] /\ revalTags'[r] = revalTags[r]
      /\ written[q] \subseteq written'[q] /\ written[r] \subseteq written'[r]
  BY <1>2 DEF RevalidationsGoOn
<1>4. CASE mode = "nextMode"
  BY <1>1, <1>2, <1>3, <1>4 DEF Outruns, Outrun
<1>5. CASE mode # "nextMode"
  <2>1. written[q] \cap written[r] # {}
    BY <1>1, <1>5 DEF Outruns
  <2>2. written'[q] \cap written'[r] # {}
    BY <1>3, <2>1
  <2>3. QED
    BY <1>1, <1>2, <1>3, <1>5, <2>2 DEF Outruns, Outrun
<1>6. QED
  BY <1>4, <1>5

\* A revalidation that a step does not touch goes well as before.
LEMMA WellRemains ==
    ASSUME StaleInv, AllGoesOn, NEW r \in Revalidations,
           /\ reval'[r] = reval[r] /\ revalTags'[r] = revalTags[r] /\ todo'[r] = todo[r]
           /\ lookups'[r] = lookups[r] /\ inserts'[r] = inserts[r] /\ written'[r] = written[r]
           /\ landing'[r] = landing[r] /\ since'[r] = since[r] /\ known'[r] = known[r]
    PROVE  GoesWell(r)'
<1> USE DEF AllGoesOn
<1> SUFFICES ASSUME Started(r)', reval'[r] # "failed", r \notin lost'
             PROVE  /\ reval'[r] = "done" => todo'[r] = {}
                    /\ mode' = "nextMode" => \A t \in revalTags'[r] \ todo'[r] : Timed(r, t)'
                    /\ mode' = "original" =>
                          /\ reval'[r] # "landing" => landing'[r] = {}
                          /\ Collecting(r)'
                          /\ WroteAll(r)'
  BY DEF GoesWell
<1>1. Started(r) /\ reval[r] # "failed" /\ r \notin lost /\ GoesWell(r)
  BY DEF Started, StaleInv
<1>2. reval[r] = "done" => todo[r] = {}
  BY <1>1 DEF GoesWell
<1>3. mode = "nextMode" => \A t \in revalTags[r] \ todo[r] : Timed(r, t)
  BY <1>1 DEF GoesWell
<1>4. mode' = "nextMode" => \A t \in revalTags'[r] \ todo'[r] : Timed(r, t)'
  BY <1>1, <1>3 DEF RowsGoOn
<1>5. mode = "original" => Collecting(r) /\ WroteAll(r) /\ (reval[r] # "landing" => landing[r] = {})
  BY <1>1 DEF GoesWell
<1>6. ASSUME mode' = "original" PROVE Collecting(r)'
  <2>1. Collecting(r)
    BY <1>5, <1>6
  <2>2. /\ reval'[r] = reval[r] /\ revalTags'[r] = revalTags[r] /\ todo'[r] = todo[r] /\ known'[r] = known[r]
        /\ lookups'[r] = lookups[r] /\ inserts'[r] = inserts[r] /\ written'[r] = written[r]
    OBVIOUS
  <2>3. QED
    BY <2>1, <2>2, Zenon DEF Collecting, Collected, Looks
<1>7. mode' = "original" => WroteAll(r)'
  BY <1>1, <1>5 DEF WroteAll, RowsGoOn
<1>8. QED
  BY <1>2, <1>4, <1>5, <1>6, <1>7

\* The look at the tag cache finds the rows of a key that a revalidation wrote.
LEMMA RowsFound ==
    ASSUME KeptInv, CallsTyped, StaleInv, NEW g \in Gets, get[g] # "idle", mode = "original",
           NEW p \in KeysChecked(getKey[g]), ~Revalidated(p, found[g].at), NEW r \in past[g], r \notin lost
    PROVE  FoundRows(g, r, p)
<1> USE DEF StaleInv
<1>1. p \in Keys
  BY PageTagsAssumption DEF KeysChecked, CallsTyped
<1>2. HasRows(found[g], getKey[g]) /\ reval[r] = "done" /\ r \in Revalidations
  BY DEF GetsTrue, CallsTyped
<1>3. found[g].at \in Nat /\ since[r] \in Nat
  BY <1>2 DEF HasRows, Entry, CallsTyped
<1>4. landing[r] = {} /\ WroteAll(r)
  BY <1>2 DEF GoesWell, Started
<1>5. ASSUME NEW t \in AllTags, <<t, p>> \in known[r], <<t, p>> \in written[r] PROVE Excuse(g, r)
  <2>1. Recorded(r, t, p)
    BY <1>1, <1>4, <1>5 DEF WroteAll
  <2>2. CASE rows[t][p] >= since[r]
    <3>1. rows[t][p] \in Nat
      BY <1>1 DEF KeptInv, TagsTyped
    <3>2. ~(rows[t][p] > found[g].at)
      BY DEF Revalidated
    <3>3. QED
      BY <1>3, <2>2, <3>1, <3>2 DEF Excuse
  <2>3. CASE Interferes(r, p)
    BY <2>3 DEF Interferes, Excuse
  <2>4. CASE Outrun(r)
    BY <2>4 DEF Excuse
  <2>5. QED
    BY <2>1, <2>2, <2>3, <2>4 DEF Recorded
<1>6. QED
  BY <1>5 DEF FoundRows

\* Without tags that were revalidated, nextMode has an excuse.
LEMMA TagsFound ==
    ASSUME KeptInv, CallsTyped, StaleInv, NEW g \in Gets, get[g] # "idle", mode = "nextMode",
           ~Revalidated(getKey[g], found[g].at), NEW r \in past[g], r \notin lost, getKey[g] \in Reached(r)
    PROVE  Excuse(g, r)
<1> USE DEF StaleInv
<1>1. HasRows(found[g], getKey[g]) /\ reval[r] = "done" /\ r \in Revalidations
  BY DEF GetsTrue, CallsTyped
<1>2. found[g].at \in Nat /\ since[r] \in Nat /\ revalTags[r] \subseteq AllTags
  BY <1>1 DEF HasRows, Entry, CallsTyped
<1>3. PICK t \in revalTags[r] : t \in TagsOf[getKey[g]] \cup SoftOf[getKey[g]]
  BY DEF Reached
<1>4. Timed(r, t)
  BY <1>1, <1>3 DEF GoesWell, Started
<1>5. ~(times[t] > found[g].at) /\ times[t] \in Nat
  BY <1>2, <1>3 DEF Revalidated, KeptInv, TagsTyped
<1>6. QED
  BY <1>2, <1>4, <1>5 DEF Timed, Excuse

\* The rows of the keys that are checked are enough.
LEMMA RowsEnough ==
    ASSUME KeptInv, CallsTyped, StaleInv, NEW g \in Gets, get[g] # "idle", mode = "original",
           NEW r \in past[g], r \notin found[g].sees, r \notin lost, getKey[g] \in Reached(r),
           \A p \in KeysChecked(getKey[g]) : FoundRows(g, r, p)
    PROVE  Excuse(g, r)
<1> USE DEF StaleInv
<1>1. PICK k \in Keys : k = getKey[g]
  BY DEF CallsTyped
<1>2. PICK e : e = found[g]
  OBVIOUS
<1>3. HasRows(e, k) /\ e \in Entry /\ e.by \in Sets /\ reval[r] = "done" /\ Started(r) /\ r \in Revalidations
  BY <1>1, <1>2 DEF GetsTrue, HasRows, Entry, CallsTyped, Started
<1>4. /\ todo[r] = {} /\ Collecting(r) /\ Collected(r) = written[r] /\ (\A x : ~Looks(r, x))
      /\ revalTags[r] \subseteq AllTags
  BY <1>3 DEF GoesWell, Collected, Looks, CallsTyped
<1>5. KeysChecked(k) \subseteq Keys /\ k \in KeysChecked(k)
  BY PageTagsAssumption DEF KeysChecked
<1>6. \A t \in AllTags, p \in KeysChecked(k) : <<t, p>> \in known[r] /\ <<t, p>> \in written[r] => Excuse(g, r)
  BY <1>1 DEF FoundRows
<1>7. ASSUME NEW t \in revalTags[r], NEW p \in KeysChecked(k), <<t, p>> \in known[r] PROVE Excuse(g, r)
  <2>1. <<t, p>> \in written[r]
    BY <1>4, <1>5, <1>7 DEF Collecting
  <2>2. QED
    BY <1>4, <1>6, <1>7, <2>1
<1>8. CASE TagsOf[k] \cap revalTags[r] # {}
  <2>1. PICK t \in revalTags[r] : t \in TagsOf[k]
    BY <1>8
  <2>2. CASE e.by \in untagged \/ <<r, e.by>> \in overlap
    BY <1>1, <1>3, <1>5, <2>2 DEF HasRows, Excuse
  <2>3. CASE e.by \notin untagged /\ <<r, e.by>> \notin overlap
    <3>1. <<t, k>> \in known[r]
      BY <1>2, <1>3, <2>1, <2>3 DEF HasRows
    <3>2. QED
      BY <1>5, <1>7, <2>1, <3>1
  <2>4. QED
    BY <2>2, <2>3
<1>9. CASE \E t \in revalTags[r] \cap SoftTags, p \in Keys, h \in HardTags :
              {<<t, p>>, <<h, p>>, <<h, k>>} \subseteq known[r]
  <2>1. PICK t \in revalTags[r] \cap SoftTags, p \in Keys, h \in HardTags :
              <<t, p>> \in known[r] /\ <<h, p>> \in known[r] /\ <<h, k>> \in known[r]
    BY <1>9
  <2>2. <<h, k>> \in written[r]
    BY <1>4, <2>1 DEF Collecting
  <2>3. QED
    BY <1>5, <1>6, <2>1, <2>2 DEF AllTags
<1>10. CASE \E t \in revalTags[r] : \E p \in KeysChecked(k) : <<t, p>> \in known[r]
  BY <1>7, <1>10
<1>11. k \in Reached(r) /\ mode # "nextMode"
  BY <1>1
<1>12. \/ TagsOf[k] \cap revalTags[r] # {}
       \/ \E t \in revalTags[r] \cap SoftTags, p \in Keys, h \in HardTags :
              {<<t, p>>, <<h, p>>, <<h, k>>} \subseteq known[r]
       \/ \E t \in revalTags[r] : \E p \in KeysChecked(k) : <<t, p>> \in known[r]
  BY <1>11, Zenon DEF Reached
<1>13. QED
  BY <1>8, <1>9, <1>10, <1>12

\* An excuse stays one.
LEMMA ExcuseRemains ==
    ASSUME CallsTyped, StaleInv, AllGoesOn, NEW g \in Gets, NEW r \in Revalidations, Started(r), Excuse(g, r),
           getKey'[g] = getKey[g], found'[g] = found[g]
    PROVE  Excuse(g, r)'
<1> USE DEF AllGoesOn, StaleInv
<1>1. CASE found[g].at >= since[r]
  BY <1>1 DEF Excuse, RevalidationsGoOn
<1>2. CASE Outrun(r)
  BY <1>2, OutrunRemains DEF Excuse
<1>3. ASSUME NEW s \in Sets, setKey[s] \in KeysChecked(getKey[g]), <<r, s>> \in overlap \/ s \in untagged
      PROVE  Excuse(g, r)'
  <2>1. set[s] # "idle"
    BY <1>3 DEF CallsBegun
  <2>2. setKey'[s] \in KeysChecked(getKey'[g]) /\ (<<r, s>> \in overlap' \/ s \in untagged')
    BY <1>3, <2>1 DEF SetsGoOn
  <2>3. QED
    BY <2>2 DEF Excuse
<1>4. QED
  BY <1>1, <1>2, <1>3 DEF Excuse

\* A get that has looked at its own rows has found what there was.
LEMMA HalfRemains ==
    ASSUME KeptInv, CallsTyped, StaleInv, AllGoesOn
    PROVE  HalfChecked'
<1> USE DEF AllGoesOn, StaleInv
<1>1. ASSUME NEW g \in Gets, get'[g] = "checkingPath"
      PROVE  /\ mode' = "original" /\ PathToo(getKey'[g])
             /\ g \notin unchecked' => \A r \in past'[g] :
                   r \notin found'[g].sees /\ r \notin lost' => FoundRows(g, r, getKey[g])'
  <2>1. getKey'[g] = getKey[g] /\ found'[g] = found[g] /\ past'[g] = past[g] /\ get[g] # "idle"
    BY <1>1 DEF GetsGoOn
  <2>2. ASSUME NEW r \in past[g], FoundRows(g, r, getKey[g]) PROVE FoundRows(g, r, getKey[g])'
    <3>1. reval[r] = "done" /\ r \in Revalidations
      BY <2>1 DEF GetsTrue, CallsTyped
    <3>2. Started(r) /\ known'[r] = known[r] /\ written'[r] = written[r]
      BY <3>1 DEF RevalidationsGoOn, Started
    <3>3. Excuse(g, r) => Excuse(g, r)'
      BY <2>1, <3>1, <3>2, ExcuseRemains
    <3>4. QED
      BY <2>1, <2>2, <3>2, <3>3 DEF FoundRows
  <2>3. CASE get[g] = "checkingPath"
    <3>1. g \in unchecked => g \in unchecked'
      BY <1>1 DEF GetsGoOn
    <3>2. QED
      BY <2>1, <2>2, <2>3, <3>1 DEF HalfChecked
  <2>4. CASE get[g] # "checkingPath"
    <3>1. /\ get[g] = "checking" /\ AfterCheck(g) = "checkingPath" /\ (g \in unchecked => g \in unchecked')
          /\ g \in unchecked' \/ ~Revalidated(getKey[g], found[g].at)
      BY <1>1, <2>4 DEF GetsGoOn, AfterCheck
    <3>2. mode = "original" /\ PathToo(getKey[g])
      BY <3>1 DEF AfterCheck
    <3>3. getKey[g] \in KeysChecked(getKey[g])
      BY DEF KeysChecked
    <3>4. ASSUME g \notin unchecked', NEW r \in past[g], r \notin lost' PROVE FoundRows(g, r, getKey[g])
      BY <2>1, <3>1, <3>2, <3>3, <3>4, RowsFound
    <3>5. QED
      BY <2>1, <2>2, <3>2, <3>4
  <2>5. QED
    BY <2>3, <2>4
<1>2. QED
  BY <1>1 DEF HalfChecked

\* The answers of the gets stay as they are excused.
LEMMA AnswersRemain ==
    ASSUME KeptInv, CallsTyped, StaleInv, AllGoesOn
    PROVE  StaleOnlyByOverlap'
<1> USE DEF AllGoesOn, StaleInv
<1>1. ASSUME NEW g \in Gets, get'[g] = "hit", NEW r \in past'[g], r \notin found'[g].sees, getKey'[g] \in Reached(r)',
             r \notin lost', g \notin unchecked'
      PROVE  Excuse(g, r)'
  <2>1. /\ getKey'[g] = getKey[g] /\ found'[g] = found[g] /\ past'[g] = past[g]
        /\ g \notin unchecked /\ r \notin lost /\ get[g] # "idle"
    BY <1>1 DEF GetsGoOn
  <2>2. r \in past[g] /\ r \in Revalidations /\ reval[r] = "done" /\ Started(r)
    BY <1>1, <2>1 DEF GetsTrue, CallsTyped, Started
  <2>3. revalTags'[r] = revalTags[r] /\ known'[r] = known[r] /\ mode' = mode
    BY <2>2 DEF RevalidationsGoOn
  <2>4. getKey[g] \in Reached(r)
    BY <1>1, <2>1, <2>3 DEF Reached
  <2>5. SUFFICES Excuse(g, r)
    BY <2>1, <2>2, ExcuseRemains
  <2>6. CASE get[g] = "hit"
    BY <1>1, <2>1, <2>2, <2>4, <2>6 DEF StaleOnlyByOverlap, Excuse, Outrun
  <2>7. CASE get[g] # "hit"
    <3>1. /\ get[g] \in {"checking", "checkingPath"} /\ AfterCheck(g) = "hit"
          /\ ~Revalidated(IF get[g] = "checking" THEN getKey[g] ELSE PathOf[getKey[g]], found[g].at)
      BY <1>1, <2>7 DEF GetsGoOn
    <3>2. CASE mode = "nextMode"
      <4>1. get[g] = "checking"
        BY <3>1, <3>2 DEF HalfChecked
      <4>2. QED
        BY <2>1, <2>2, <2>4, <3>1, <3>2, <4>1, TagsFound
    <3>3. CASE mode = "original"
      <4>1. CASE get[g] = "checking"
        <5>1. ~PathToo(getKey[g])
          BY <3>1, <3>3, <4>1 DEF AfterCheck
        <5>2. \A p \in KeysChecked(getKey[g]) : p = getKey[g]
          BY <5>1 DEF KeysChecked
        <5>3. \A p \in KeysChecked(getKey[g]) : FoundRows(g, r, p)
          BY <2>1, <2>2, <3>1, <3>3, <4>1, <5>2, RowsFound
        <5>4. QED
          BY <1>1, <2>1, <2>2, <2>4, <3>3, <5>3, RowsEnough
      <4>2. CASE get[g] = "checkingPath"
        <5>1. KeysChecked(getKey[g]) = {getKey[g], PathOf[getKey[g]]}
          BY <4>2 DEF HalfChecked, KeysChecked
        <5>2. FoundRows(g, r, getKey[g])
          BY <1>1, <2>1, <2>2, <4>2 DEF HalfChecked
        <5>3. FoundRows(g, r, PathOf[getKey[g]])
          BY <2>1, <2>2, <3>1, <3>3, <4>2, <5>1, RowsFound
        <5>4. QED
          BY <1>1, <2>1, <2>2, <2>4, <3>3, <5>1, <5>2, <5>3, RowsEnough
      <4>3. QED
        BY <3>1, <4>1, <4>2
    <3>4. QED
      BY <3>2, <3>3 DEF CallsTyped
  <2>8. QED
    BY <2>6, <2>7
<1>2. QED
  BY <1>1 DEF StaleOnlyByOverlap, Excuse, Outrun


\* A set that interferes goes on to interfere.
LEMMA InterferesRemains ==
    ASSUME CallsBegun, SetsGoOn, NEW r \in Revalidations, NEW k, Interferes(r, k)
    PROVE  Interferes(r, k)'
<1>1. PICK s \in Sets : setKey[s] = k /\ (<<r, s>> \in overlap \/ s \in untagged)
  BY DEF Interferes
<1>2. set[s] # "idle"
  BY <1>1 DEF CallsBegun
<1>3. QED
  BY <1>1, <1>2 DEF SetsGoOn, Interferes

\* The rows that stay.
LEMMA RowsStay ==
    ASSUME CallsTyped, CallsBegun, Crossed, SetsGoOn, RevalidationsGoOn, UNCHANGED <<mode, times, rows>>
    PROVE  RowsGoOn
<1>1. ASSUME NEW t \in AllTags, NEW k \in Keys, NEW r \in Revalidations, Started(r), Recorded(r, t, k)
      PROVE  Recorded(r, t, k)'
  BY <1>1, InterferesRemains, OutrunRemains DEF Recorded, RevalidationsGoOn
<1>2. ASSUME NEW r \in Revalidations, NEW t \in revalTags[r], Started(r), Timed(r, t) PROVE Timed(r, t)'
  BY <1>2, OutrunRemains DEF Timed, RevalidationsGoOn
<1>3. QED
  BY <1>1, <1>2 DEF RowsGoOn

\* A set moves on.
LEMMA SetsMove ==
    ASSUME Sound, NEW s \in Sets,
           \/ \E k \in Keys : Render(s, k) \/ DeleteEntry(s, k)
           \/ StoreEntry(s) \/ StoreFails(s) \/ ListTags(s) \/ TagEntry(s) \/ TagEntryFails(s)
    PROVE  CallsTyped' /\ CallsBegun' /\ AllGoesOn /\ UNCHANGED revalidating
<1> USE DEF Sound, KeptInv, StaleInv, tagCache, revalidating, getting
<1>0. /\ UNCHANGED <<mode, instant, times, reval, revalTags, todo, lookups, inserts, written, since, known, lost,
                     took, landing, crossing, get, getKey, found, past, unchecked>>
  BY DEF Render, DeleteEntry, StoreEntry, StoreFails, ListTags, TagEntry, TagEntryFails
<1>1. RevalidationsGoOn /\ GetsGoOn
  BY <1>0 DEF RevalidationsGoOn, GetsGoOn, Started
<1>2. ASSUME CallsTyped', CallsBegun', SetsGoOn, StoreGoesOn, rows' = rows
      PROVE  CallsTyped' /\ CallsBegun' /\ AllGoesOn /\ UNCHANGED revalidating
  BY <1>0, <1>1, <1>2, RowsStay DEF AllGoesOn
<1>3. CASE \E k \in Keys : Render(s, k)
  <2>1. PICK k \in Keys : Render(s, k)
    BY <1>3
  <2>2. CallsTyped'
    BY <1>0, <2>1 DEF Render, CallsTyped, Revalidating
  <2>3. CallsBegun'
    BY <1>0, <2>1 DEF Render, CallsBegun, TagsTyped
  <2>4. SetsGoOn
    BY <1>0, <2>1 DEF Render, SetsGoOn, TagsTyped, CallsTyped, Stored, Setting, Started
  <2>5. StoreGoesOn /\ rows' = rows
    BY <2>1 DEF Render, StoreGoesOn
  <2>6. QED
    BY <1>2, <2>2, <2>3, <2>4, <2>5
<1>4. CASE \E k \in Keys : DeleteEntry(s, k)
  <2>1. PICK k \in Keys : DeleteEntry(s, k)
    BY <1>4
  <2>2. CallsTyped'
    BY <1>0, <2>1 DEF DeleteEntry, CallsTyped
  <2>3. CallsBegun'
    BY <1>0, <2>1 DEF DeleteEntry, CallsBegun, TagsTyped
  <2>4. SetsGoOn
    BY <1>0, <2>1 DEF DeleteEntry, SetsGoOn, TagsTyped, CallsTyped, Stored, Setting
  <2>5. StoreGoesOn /\ rows' = rows
    BY <2>1 DEF DeleteEntry, StoreGoesOn, CallsTyped
  <2>6. QED
    BY <1>2, <2>2, <2>3, <2>4, <2>5
<1>5. CASE StoreEntry(s)
  <2>1. [at |-> instant, by |-> s, sees |-> sees[s]] \in Entry
    BY DEF Entry, CallsTyped, TagsTyped
  <2>2. CallsTyped'
    BY <1>0, <1>5, <2>1 DEF StoreEntry, CallsTyped
  <2>3. CallsBegun'
    BY <1>0, <1>5 DEF StoreEntry, AfterStore, CallsBegun, TagsTyped
  <2>4. SetsGoOn
    BY <1>0, <1>5 DEF StoreEntry, AfterStore, SetsGoOn, TagsTyped, CallsTyped, Stored, Setting
  <2>5. StoreGoesOn /\ rows' = rows
    BY <1>0, <1>5 DEF StoreEntry, StoreGoesOn, CallsTyped, TagsTyped, Setting
  <2>6. QED
    BY <1>2, <2>2, <2>3, <2>4, <2>5
<1>6. CASE StoreFails(s) \/ TagEntryFails(s)
  <2>1. /\ set[s] \in {"rendered", "tagging"} /\ set' = [set EXCEPT ![s] = "done"]
        /\ UNCHANGED <<store, rows, setKey, sees, unlisted, overlap>>
        /\ untagged' = untagged \/ untagged' = untagged \cup {s}
        /\ set[s] = "tagging" => untagged' = untagged \cup {s}
    BY <1>6 DEF StoreFails, TagEntryFails
  <2>2. CallsTyped'
    BY <1>0, <2>1 DEF CallsTyped
  <2>3. CallsBegun'
    BY <1>0, <2>1 DEF CallsBegun, TagsTyped
  <2>4. SetsGoOn
    BY <1>0, <2>1 DEF SetsGoOn, TagsTyped, CallsTyped, Stored, Setting
  <2>5. QED
    BY <1>2, <2>1, <2>2, <2>3, <2>4 DEF StoreGoesOn
<1>7. CASE ListTags(s)
  <2>1. PICK ts \in {NotStored(setKey[s]), TagsOf[setKey[s]]} :
           /\ unlisted' = [unlisted EXCEPT ![s] = ts]
           /\ IF ts = NotStored(setKey[s]) THEN untagged' = untagged ELSE untagged' = untagged \cup {s}
           /\ set' = [set EXCEPT ![s] = IF ts = {} THEN "done" ELSE "tagging"]
    BY <1>7 DEF ListTags
  <2>2. UNCHANGED <<store, rows, setKey, sees, overlap>> /\ set[s] = "listing"
    BY <1>7 DEF ListTags
  <2>3. CallsTyped'
    BY <1>0, <2>1, <2>2 DEF CallsTyped
  <2>4. CallsBegun'
    BY <1>0, <2>1, <2>2 DEF CallsBegun, TagsTyped
  <2>5. setKey[s] \in Keys /\ \A t \in TagsOf[setKey[s]] : rows[t][setKey[s]] \in Nat
    BY PageTagsAssumption DEF TagsTyped, AllTags
  <2>6. ts = {} /\ s \notin untagged' => \A t \in TagsOf[setKey[s]] : rows[t][setKey[s]] > 0
    BY <2>1, <2>5 DEF NotStored
  <2>7. SetsGoOn
    <3>1. overlap \subseteq overlap' /\ untagged \subseteq untagged'
      BY <2>1, <2>2
    <3>2. ASSUME NEW q \in Sets, q # s
          PROVE  set'[q] = set[q] /\ setKey'[q] = setKey[q] /\ sees'[q] = sees[q] /\ unlisted'[q] = unlisted[q]
      BY <2>1, <2>2, <3>2 DEF TagsTyped
    <3>3. /\ set'[s] = IF ts = {} THEN "done" ELSE "tagging"
          /\ unlisted'[s] = ts /\ setKey'[s] = setKey[s] /\ sees'[s] = sees[s]
      BY <2>1, <2>2 DEF TagsTyped
    <3>4. s \in untagged' \/ ts = NotStored(setKey[s])
      BY <2>1
    <3>5. UNCHANGED <<rows, reval, known>>
      BY <1>0, <2>2
    <3>6. QED
      BY <2>2, <2>6, <3>1, <3>2, <3>3, <3>4, <3>5 DEF SetsGoOn, Stored, Setting
  <2>8. QED
    BY <1>2, <2>2, <2>3, <2>4, <2>7 DEF StoreGoesOn
<1>8. CASE TagEntry(s)
  <2>1. /\ set[s] = "tagging" /\ set' = [set EXCEPT ![s] = "done"]
        /\ rows' = Stamp(unlisted[s] \X {setKey[s]}, 1)
        /\ UNCHANGED <<store, setKey, sees, unlisted, untagged, overlap>>
    BY <1>8 DEF TagEntry
  <2>2. \A t \in AllTags, k \in Keys :
            rows'[t][k] = IF t \in unlisted[s] /\ k = setKey[s] THEN 1 ELSE rows[t][k]
    BY <2>1, Tagged
  <2>3. CallsTyped'
    BY <1>0, <2>1 DEF CallsTyped
  <2>4. CallsBegun'
    BY <1>0, <2>1 DEF CallsBegun, TagsTyped
  <2>5. setKey[s] \in Keys /\ TagsOf[setKey[s]] \subseteq AllTags
    BY PageTagsAssumption DEF TagsTyped, AllTags
  <2>6. s \notin untagged => \A t \in TagsOf[setKey[s]] : rows'[t][setKey[s]] > 0
    <3>1. s \notin untagged => \A t \in TagsOf[setKey[s]] : rows[t][setKey[s]] > 0 \/ t \in unlisted[s]
      BY <2>1 DEF WritesMissing
    <3>2. QED
      BY <2>2, <2>5, <3>1
  <2>7. SetsGoOn
    BY <1>0, <2>1, <2>6 DEF SetsGoOn, TagsTyped, Stored, Setting
  <2>8. \A t \in AllTags, k \in Keys : rows[t][k] > 0 => rows'[t][k] > 0
    BY <2>2
  <2>9. ASSUME NEW t \in AllTags, NEW k \in Keys, NEW r \in Revalidations, Started(r),
               <<t, k>> \in known[r], Recorded(r, t, k)
        PROVE  Recorded(r, t, k)'
    <3>0. CASE Outrun(r)
      BY <1>0, <1>1, <3>0, OutrunRemains DEF Recorded
    <3>1. CASE Interferes(r, k)
      BY <2>7, <3>1, InterferesRemains DEF Recorded
    <3>2. CASE rows[t][k] >= since[r] /\ ~(t \in unlisted[s] /\ k = setKey[s])
      BY <1>0, <2>2, <3>2 DEF Recorded
    <3>3. CASE t \in unlisted[s] /\ k = setKey[s]
      <4>1. s \in untagged \/ <<r, s>> \in overlap
        BY <2>1, <2>9, <3>3 DEF WritesMissing
      <4>2. QED
        BY <2>7, <3>3, <4>1, InterferesRemains DEF Interferes, Recorded
    <3>4. QED
      BY <2>9, <3>0, <3>1, <3>2, <3>3 DEF Recorded
  <2>10. RowsGoOn
    <3>1. ASSUME NEW r \in Revalidations, NEW t \in revalTags[r], Timed(r, t) PROVE Timed(r, t)'
      BY <1>0, <1>1, <3>1, OutrunRemains DEF Timed
    <3>2. QED
      BY <2>8, <2>9, <3>1 DEF RowsGoOn
  <2>11. QED
    BY <1>0, <1>1, <2>1, <2>3, <2>4, <2>7, <2>10 DEF AllGoesOn, StoreGoesOn
<1>9. QED
  BY <1>3, <1>4, <1>5, <1>6, <1>7, <1>8


\* What the fields of a revalidation are.
Same(r) ==
    /\ reval'[r] = reval[r] /\ revalTags'[r] = revalTags[r] /\ todo'[r] = todo[r]
    /\ lookups'[r] = lookups[r] /\ inserts'[r] = inserts[r] /\ written'[r] = written[r]
    /\ landing'[r] = landing[r] /\ since'[r] = since[r] /\ known'[r] = known[r]

\* A time that replaces another is of a revalidation that is writing, and it is earlier than the
\* start of one that has recorded its own only when that one was outrun.
LEMMA RowsFollow ==
    ASSUME Sound, SetsGoOn, RevalidationsGoOn, mode' = mode, NEW r \in Revalidations,
           \A t \in AllTags, k \in Keys :
              \/ rows'[t][k] = rows[t][k]
              \/ reval[r] = "landing" /\ <<t, k>> \in landing[r] /\ rows'[t][k] = took[r],
           \A t \in AllTags :
              \/ times'[t] = times[t]
              \/ reval[r] = "stamping" /\ t \in todo[r] /\ times'[t] = took[r]
    PROVE  RowsGoOn
<1> USE DEF Sound, StaleInv
<1>1. r \in Landing => took[r] > 0 /\ took[r] >= since[r]
  BY DEF KeptInv, WritesBegun, Crossed, CallsTyped, TagsTyped, Landing
<1>2. \A q \in Revalidations : took[q] \in Nat /\ since[q] \in Nat
  BY DEF KeptInv, TagsTyped, CallsTyped
<1>3. ASSUME NEW q \in Revalidations, Started(q), r \in Landing, took[r] < since[q], took[q] > 0
      PROVE  <<r, q>> \in crossing /\ since[r] < since[q]
  BY <1>1, <1>2, <1>3 DEF Crossed
<1>4. ASSUME NEW t \in AllTags, NEW k \in Keys, NEW q \in Revalidations, Started(q),
             <<t, k>> \in written[q], Recorded(q, t, k)
      PROVE  Recorded(q, t, k)'
  <2>1. since'[q] = since[q]
    BY <1>4 DEF RevalidationsGoOn
  <2>2. CASE Interferes(q, k)
    BY <2>2, InterferesRemains DEF Recorded
  <2>3. CASE Outrun(q)
    BY <2>3, OutrunRemains DEF Recorded
  <2>4. CASE rows[t][k] >= since[q] /\ rows'[t][k] = rows[t][k]
    BY <2>1, <2>4 DEF Recorded
  <2>5. CASE reval[r] = "landing" /\ <<t, k>> \in landing[r] /\ rows'[t][k] = took[r]
    <3>1. r \in Landing /\ mode # "nextMode" /\ <<t, k>> \in written[r] /\ took[q] > 0
      BY <1>4, <2>5 DEF Landing, CallsBegun, KeptInv, WritesBegun, Crossed
    <3>2. CASE took[r] >= since[q]
      BY <2>1, <2>5, <3>2 DEF Recorded
    <3>3. CASE took[r] < since[q]
      <4>1. Outruns(r, q)
        BY <1>3, <1>4, <3>1, <3>3 DEF Outruns
      <4>2. QED
        BY <4>1, OutrunRemains DEF Outrun, Recorded
    <3>4. QED
      BY <1>2, <3>2, <3>3
  <2>6. QED
    BY <1>4, <2>2, <2>3, <2>4, <2>5 DEF Recorded
<1>5. ASSUME mode = "nextMode", NEW q \in Revalidations, Started(q), NEW t \in revalTags[q] \ todo[q], Timed(q, t)
      PROVE  Timed(q, t)'
  <2>1. since'[q] = since[q] /\ t \in AllTags
    BY <1>5 DEF RevalidationsGoOn, CallsTyped
  <2>2. CASE Outrun(q)
    BY <2>2, OutrunRemains DEF Timed
  <2>3. CASE times[t] >= since[q] /\ times'[t] = times[t]
    BY <2>1, <2>3 DEF Timed
  <2>4. CASE reval[r] = "stamping" /\ t \in todo[r] /\ times'[t] = took[r]
    <3>1. r \in Landing /\ t \in revalTags[r] /\ took[q] > 0
      BY <1>5, <2>4 DEF Landing, KeptInv, WritesBegun, Crossed
    <3>2. CASE took[r] >= since[q]
      BY <2>1, <2>4, <3>2 DEF Timed
    <3>3. CASE took[r] < since[q]
      <4>1. Outruns(r, q)
        BY <1>3, <1>5, <3>1, <3>3 DEF Outruns
      <4>2. QED
        BY <4>1, OutrunRemains DEF Outrun, Timed
    <3>4. QED
      BY <1>2, <3>2, <3>3
  <2>5. QED
    BY <1>5, <2>1, <2>2, <2>3, <2>4 DEF Timed
<1>6. \A t \in AllTags, k \in Keys : rows[t][k] > 0 => rows'[t][k] > 0
  <2>1. reval[r] = "landing" => r \in Landing
    BY DEF Landing
  <2>2. QED
    BY <1>1, <2>1
<1>7. QED
  BY <1>4, <1>5, <1>6 DEF RowsGoOn

\* The sets, the gets and the store do not change with a revalidation that is on its way.
LEMMA RevalidationGoesOn ==
    ASSUME Sound, NEW r \in Revalidations,
           UNCHANGED <<mode, instant, store, setting, getting>>,
           \A q \in Revalidations : q # r => Same(q),
           lost \subseteq lost', crossing \subseteq crossing',
           /\ Started(r) /\ reval[r] # "done" /\ overlap' = overlap /\ written[r] \subseteq written'[r]
           /\ revalTags'[r] = revalTags[r] /\ since'[r] = since[r] /\ known'[r] = known[r]
           /\ Started(r)'
           /\ reval'[r] \in {"next", "looking", "landing"} => mode = "original"
           /\ reval'[r] \in {"writing", "stamping"} => mode = "nextMode",
           \A t \in AllTags, k \in Keys :
              \/ rows'[t][k] = rows[t][k]
              \/ reval[r] = "landing" /\ <<t, k>> \in landing[r] /\ rows'[t][k] = took[r],
           \A t \in AllTags :
              \/ times'[t] = times[t]
              \/ reval[r] = "stamping" /\ t \in todo[r] /\ times'[t] = took[r]
    PROVE  CallsBegun' /\ AllGoesOn
<1> USE DEF Sound, StaleInv
<1>1. SetsGoOn
  <2>1. UNCHANGED <<set, setKey, sees, unlisted, untagged, overlap, mode>>
    BY DEF setting
  <2>2. QED
    BY <2>1 DEF SetsGoOn, Stored, Setting
<1>2. RevalidationsGoOn
  BY DEF RevalidationsGoOn, Same, Started
<1>3. StoreGoesOn /\ GetsGoOn
  BY DEF StoreGoesOn, GetsGoOn, getting
<1>4. RowsGoOn
  BY <1>1, <1>2, RowsFollow
<1>5. CallsBegun'
  <2>1. UNCHANGED <<instant, mode, set, untagged, overlap>>
    BY DEF setting
  <2>2. QED
    BY <2>1 DEF CallsBegun, Same
<1>6. QED
  BY <1>1, <1>2, <1>3, <1>4, <1>5 DEF AllGoesOn


\* The types of a revalidation after its step.
LEMMA RevalidationsTyped ==
    ASSUME Sound, NEW r \in Revalidations,
           RevalidationMoves(r) \/ \E ts \in SUBSET AllTags \ {{}} : RevalidateTags(r, ts)
    PROVE  CallsTyped' /\ UNCHANGED <<mode, instant, store, setting, getting>> /\ lost \subseteq lost'
<1> USE DEF Sound
<1>0. UNCHANGED <<mode, instant, store, setting, getting>> /\ lost \subseteq lost'
  BY DEF RevalidationMoves, RevalidateTags, TakeTime, StampTags, NextTag, LookUpRows, PrepareRows, WriteRows,
         LookUpFails, WritesLost, RevalidationFails
<1>1. Rows \subseteq PageRows
  BY DEF Rows
<1>2. \A row \in PageRows : row[1] \in AllTags /\ row[2] \in Keys
  BY DEF PageRows
<1>a. TagsTyped'
  BY RevalidationsTagsTyped DEF KeptInv
<1>b. Landing \subseteq Revalidations
  BY DEF Landing
<1>c. ASSUME lookups' \in [Revalidations -> SUBSET LookUps], UNCHANGED <<since, known, overlap>>,
             crossing' = crossing \/ crossing' = crossing \cup (Landing \X {r})
      PROVE  CallsTyped'
  BY <1>0, <1>a, <1>b, <1>c DEF CallsTyped, TagsTyped, setting, getting
<1> USE DEF CallsTyped
<1>3. CASE \E ts \in SUBSET AllTags \ {{}} : RevalidateTags(r, ts)
  <2>1. since' \in [Revalidations -> Nat] /\ known' \in [Revalidations -> SUBSET PageRows]
    BY <1>1, <1>3 DEF RevalidateTags, KeptInv, TagsTyped
  <2>2. overlap' \subseteq Revalidations \X Sets /\ UNCHANGED <<lookups, crossing>>
    BY <1>3 DEF RevalidateTags, Setting
  <2>3. QED
    BY <1>0, <1>a, <2>1, <2>2 DEF TagsTyped, setting, getting
<1>4. CASE TakeTime(r) \/ StampTags(r) \/ PrepareRows(r) \/ WriteRows(r) \/ WritesLost(r) \/ RevalidationFails(r)
  BY <1>c, <1>4 DEF TakeTime, StampTags, PrepareRows, WriteRows, WritesLost, RevalidationFails
<1>5. CASE NextTag(r)
  <2>1. PICK t \in todo[r] : \E listed \in {{row \in Rows : row[1] = t}, {}} :
            lookups' = [lookups EXCEPT ![r] = IF t \in SoftTags THEN {<<"path", row[2]>> : row \in listed} ELSE {}]
    BY <1>5 DEF NextTag
  <2>2. PICK listed \in {{row \in Rows : row[1] = t}, {}} :
            lookups' = [lookups EXCEPT ![r] = IF t \in SoftTags THEN {<<"path", row[2]>> : row \in listed} ELSE {}]
    BY <2>1
  <2>3. listed \subseteq PageRows
    BY <1>1, <2>2
  <2>4. {<<"path", row[2]>> : row \in listed} \subseteq LookUps
    BY <1>2, <2>3 DEF LookUps
  <2>5. lookups' \in [Revalidations -> SUBSET LookUps]
    BY <2>2, <2>4
  <2>6. QED
    BY <1>c, <1>5, <2>5 DEF NextTag
<1>6. CASE LookUpRows(r) \/ LookUpFails(r)
  <2>1. PICK x \in lookups[r] : \E more \in {{}, Cascade(x[2])} : lookups' = [lookups EXCEPT ![r] = (@ \ {x}) \cup more]
    <3>1. CASE LookUpRows(r)
      BY <3>1 DEF LookUpRows
    <3>2. CASE LookUpFails(r)
      <4>1. PICK x \in lookups[r] : lookups' = [lookups EXCEPT ![r] = @ \ {x}]
        BY <3>2 DEF LookUpFails
      <4>2. lookups' = [lookups EXCEPT ![r] = (@ \ {x}) \cup {}]
        BY <4>1
      <4>3. QED
        BY <4>2
    <3>3. QED
      BY <1>6, <3>1, <3>2
  <2>2. Cascade(x[2]) \subseteq LookUps
    BY <1>1, <1>2 DEF Cascade, LookUps
  <2>3. lookups' \in [Revalidations -> SUBSET LookUps]
    BY <2>1, <2>2
  <2>4. QED
    BY <1>c, <1>6, <2>3 DEF LookUpRows, LookUpFails
<1>7. QED
  BY <1>3, <1>4, <1>5, <1>6 DEF RevalidationMoves

\* Everything else goes on as it did when a revalidation starts, and it starts well.
LEMMA RevalidationStarts ==
    ASSUME Sound, KeptInv', NEW r \in Revalidations, NEW ts \in SUBSET AllTags \ {{}}, RevalidateTags(r, ts)
    PROVE  /\ CallsTyped' /\ CallsBegun' /\ Crossed' /\ AllGoesOn
           /\ (\A q \in Revalidations : q # r => Same(q)) /\ GoesWell(r)'
<1> USE DEF Sound, StaleInv
<1>0. CallsTyped' /\ UNCHANGED <<mode, instant, store, setting, getting>> /\ lost \subseteq lost'
  BY RevalidationsTyped
<1>1. /\ ~Started(r) /\ UNCHANGED <<times, rows, lookups, inserts, written, took, landing, crossing, lost>>
      /\ revalTags'[r] = ts /\ todo'[r] = ts /\ since'[r] = instant /\ known'[r] = Rows
      /\ reval'[r] = IF mode = "nextMode" THEN "writing" ELSE "next"
      /\ overlap' = overlap \cup ({r} \X Setting)
  BY DEF RevalidateTags, CallsTyped, KeptInv, TagsTyped, tagCache, Started
<1>a. written[r] = {} /\ landing[r] = {} /\ took[r] = 0
  BY <1>1 DEF Crossed, KeptInv, WritesBegun
<1>2. \A q \in Revalidations : q # r => Same(q)
  BY DEF RevalidateTags, CallsTyped, KeptInv, TagsTyped, Same
<1>3. UNCHANGED <<set, setKey, sees, unlisted, untagged>>
  BY <1>0 DEF setting
<1>4. SetsGoOn
  BY <1>0, <1>1, <1>3 DEF SetsGoOn, Stored, Setting
<1>5. RevalidationsGoOn
  BY <1>1, <1>2, <1>3 DEF RevalidationsGoOn, Same, Started
<1>6. StoreGoesOn /\ GetsGoOn
  BY <1>0 DEF StoreGoesOn, GetsGoOn, getting
<1>7. RowsGoOn
  BY <1>0, <1>1, <1>4, <1>5, RowsStay
<1>8. CallsBegun'
  <2>1. \A q \in Revalidations : since'[q] <= instant'
    BY <1>0, <1>1, <1>2 DEF CallsBegun, Same, KeptInv, TagsTyped
  <2>2. \A q \in Revalidations, s \in Sets : <<q, s>> \in overlap' => set'[s] # "idle"
    BY <1>1, <1>3 DEF CallsBegun, Setting
  <2>3. \A s \in untagged' : set'[s] # "idle"
    BY <1>3 DEF CallsBegun
  <2>4. \A q \in Revalidations : /\ reval'[q] \in {"next", "looking", "landing"} => mode' = "original"
                                 /\ reval'[q] \in {"writing", "stamping"} => mode' = "nextMode"
    BY <1>0, <1>1, <1>2 DEF CallsBegun, Same, CallsTyped
  <2>5. QED
    BY <2>1, <2>2, <2>3, <2>4 DEF CallsBegun
<1>9. Crossed'
  <2>1. Landing' = Landing /\ r \notin Landing
    BY <1>1, <1>2 DEF Landing, Same, Started
  <2>2. \A q \in Revalidations : q # r => /\ Started(q)' = Started(q) /\ since'[q] = since[q] /\ todo'[q] = todo[q]
                                          /\ revalTags'[q] = revalTags[q]
    BY <1>2 DEF Same, Started
  <2>3. Started(r)' /\ todo'[r] = revalTags'[r]
    BY <1>1 DEF Started
  <2>4. \A pair \in crossing' : Started(pair[1])' /\ Started(pair[2])'
    BY <1>1, <2>2, <2>3 DEF Crossed, CallsTyped
  <2>5. \A q \in Landing' : since'[q] <= took'[q]
    BY <1>1, <2>1, <2>2 DEF Crossed, Landing
  <2>6. ASSUME NEW q \in Revalidations
        PROVE  /\ ~Started(q)' => took'[q] = 0 /\ written'[q] = {}
               /\ mode' = "nextMode" /\ todo'[q] # revalTags'[q] => took'[q] > 0
               /\ written'[q] # {} => took'[q] > 0
               /\ \A p \in Landing' : took'[q] > 0 /\ took'[p] < since'[q] => <<p, q>> \in crossing'
    <3>1. CASE q = r
      BY <1>1, <1>a, <2>3, <3>1
    <3>2. CASE q # r
      BY <1>0, <1>1, <2>1, <2>2, <3>2 DEF Crossed
    <3>3. QED
      BY <3>1, <3>2
  <2>7. QED
    BY <2>4, <2>5, <2>6 DEF Crossed
<1>10. GoesWell(r)'
  BY <1>0, <1>1, <1>a DEF GoesWell, Collecting, WroteAll
<1>11. QED
  BY <1>0, <1>2, <1>4, <1>5, <1>6, <1>7, <1>8, <1>9, <1>10 DEF AllGoesOn

\* The writes of a revalidation cross as before with a step that writes nothing, or that takes
\* the time.
LEMMA CrossesOn ==
    ASSUME Sound, NEW r \in Revalidations, UNCHANGED <<mode, instant>>, \A q \in Revalidations : q # r => Same(q) /\ took'[q] = took[q],
           Started(r) /\ Started(r)', revalTags'[r] = revalTags[r] /\ since'[r] = since[r],
           \/ /\ crossing' = crossing /\ took'[r] = took[r] /\ written'[r] = written[r]
              /\ reval'[r] \in {"stamping", "landing"} => r \in Landing
              /\ todo'[r] = todo[r] \/ mode = "original" \/ took[r] > 0
           \/ /\ crossing' = crossing \cup (Landing \X {r}) /\ took'[r] = instant
    PROVE  Crossed'
<1> USE DEF Sound, StaleInv
<1>1. /\ instant \in Nat /\ instant > 1 /\ since[r] <= instant
      /\ \A q \in Revalidations : took[q] \in Nat /\ since[q] \in Nat
  BY DEF KeptInv, TagsTyped, CallsTyped, CallsBegun
<1>2. \A q \in Revalidations : q # r =>
         /\ reval'[q] = reval[q] /\ Started(q)' = Started(q) /\ since'[q] = since[q] /\ todo'[q] = todo[q]
         /\ revalTags'[q] = revalTags[q] /\ written'[q] = written[q] /\ took'[q] = took[q]
  BY DEF Same, Started
<1>3. \A pair \in crossing' : Started(pair[1])' /\ Started(pair[2])'
  BY <1>2 DEF Crossed, CallsTyped, Landing, Started
<1>4. \A q \in Landing' : q = r \/ q \in Landing
  BY <1>2 DEF Landing
<1>5. \A q \in Landing' : since'[q] <= took'[q]
  <2>1. ASSUME NEW q \in Landing' PROVE since'[q] <= took'[q]
    <3>1. q \in Revalidations
      BY DEF Landing
    <3>2. CASE q # r
      BY <1>2, <1>4, <3>1, <3>2 DEF Crossed
    <3>3. CASE q = r /\ took'[r] = instant
      BY <1>1, <3>3
    <3>4. CASE q = r /\ took'[r] = took[r] /\ (reval'[r] \in {"stamping", "landing"} => r \in Landing)
      <4>1. r \in Landing
        BY <2>1, <3>4 DEF Landing
      <4>2. QED
        BY <3>4, <4>1 DEF Crossed
    <3>5. QED
      BY <3>2, <3>3, <3>4
  <2>2. QED
    BY <2>1
<1>6. ASSUME NEW q \in Revalidations
      PROVE  /\ ~Started(q)' => took'[q] = 0 /\ written'[q] = {}
             /\ mode' = "nextMode" /\ todo'[q] # revalTags'[q] => took'[q] > 0
             /\ written'[q] # {} => took'[q] > 0
  <2>1. CASE q # r
    BY <1>2, <2>1 DEF Crossed
  <2>2. CASE q = r
    <3>1. CASE took'[r] = instant
      BY <1>1, <2>2, <3>1
    <3>2. CASE /\ took'[r] = took[r] /\ written'[r] = written[r]
               /\ todo'[r] = todo[r] \/ mode = "original" \/ took[r] > 0
      BY <2>2, <3>2 DEF Crossed
    <3>3. QED
      BY <3>1, <3>2
  <2>3. QED
    BY <2>1, <2>2
<1>7. ASSUME NEW q \in Revalidations, NEW p \in Landing', took'[q] > 0, took'[p] < since'[q]
      PROVE  <<p, q>> \in crossing'
  <2>1. p \in Revalidations /\ since'[q] = since[q] /\ since[q] <= instant /\ crossing \subseteq crossing'
    BY <1>2 DEF CallsBegun, Landing
  <2>2. CASE took'[r] = instant /\ crossing' = crossing \cup (Landing \X {r})
    <3>1. p # r /\ p \in Landing /\ took'[p] = took[p]
      BY <1>1, <1>2, <1>4, <1>7, <2>1, <2>2
    <3>2. CASE q = r
      BY <2>2, <3>1, <3>2
    <3>3. CASE q # r
      BY <1>2, <1>7, <2>1, <3>1, <3>3 DEF Crossed
    <3>4. QED
      BY <3>2, <3>3
  <2>3. CASE took'[r] = took[r] /\ (reval'[r] \in {"stamping", "landing"} => r \in Landing)
    <3>1. p \in Landing
      BY <1>4, <2>3 DEF Landing
    <3>2. took'[p] = took[p] /\ took'[q] = took[q]
      BY <1>2, <2>1, <2>3
    <3>3. QED
      BY <1>7, <2>1, <3>1, <3>2 DEF Crossed
  <2>4. QED
    BY <2>2, <2>3
<1>8. QED
  BY <1>3, <1>5, <1>6, <1>7 DEF Crossed

\* The steps of a revalidation that is on its way.
LEMMA RevalidationSteps ==
    ASSUME Sound, NEW r \in Revalidations, RevalidationMoves(r)
    PROVE  CallsTyped' /\ CallsBegun' /\ Crossed' /\ AllGoesOn /\ \A q \in Revalidations : q # r => Same(q)
<1> USE DEF Sound, StaleInv
<1>0. CallsTyped' /\ UNCHANGED <<mode, instant, store, setting, getting>> /\ lost \subseteq lost'
  BY RevalidationsTyped
<1>1. \A q \in Revalidations : q # r => Same(q) /\ took'[q] = took[q]
  <2>1. CASE TakeTime(r) \/ StampTags(r) \/ NextTag(r) \/ LookUpRows(r) \/ RevalidationFails(r)
    BY <2>1 DEF TakeTime, StampTags, NextTag, LookUpRows, RevalidationFails, Same, CallsTyped, KeptInv, TagsTyped
  <2>2. CASE PrepareRows(r) \/ WriteRows(r) \/ LookUpFails(r) \/ WritesLost(r)
    BY <2>2 DEF PrepareRows, WriteRows, LookUpFails, WritesLost, Same, CallsTyped, KeptInv, TagsTyped
  <2>3. QED
    BY <2>1, <2>2 DEF RevalidationMoves
<1>2. Started(r) /\ reval[r] # "done"
  BY DEF RevalidationMoves, TakeTime, StampTags, NextTag, LookUpRows, PrepareRows, WriteRows, LookUpFails, WritesLost,
         RevalidationFails, Started, Revalidating
<1>3. UNCHANGED <<revalTags, since, known, overlap>>
  BY DEF RevalidationMoves, TakeTime, StampTags, NextTag, LookUpRows, PrepareRows, WriteRows, LookUpFails, WritesLost,
         RevalidationFails
<1>4. /\ Started(r)'
      /\ reval'[r] \in {"next", "looking", "landing"} => mode = "original"
      /\ reval'[r] \in {"writing", "stamping"} => mode = "nextMode"
  <2>1. AfterTag(r) \in {"next", "done"}
    BY DEF AfterTag
  <2>2. CASE TakeTime(r) \/ StampTags(r) \/ NextTag(r) \/ LookUpRows(r) \/ RevalidationFails(r)
    BY <2>2 DEF TakeTime, StampTags, NextTag, LookUpRows, RevalidationFails, CallsBegun, Started, KeptInv, TagsTyped
  <2>3. CASE PrepareRows(r) \/ WriteRows(r) \/ LookUpFails(r)
    BY <2>1, <2>3 DEF PrepareRows, WriteRows, LookUpFails, CallsBegun, Started, KeptInv, TagsTyped
  <2>4. CASE WritesLost(r)
    BY <2>1, <2>4 DEF WritesLost, CallsBegun, Started, KeptInv, TagsTyped
  <2>5. QED
    BY <2>2, <2>3, <2>4 DEF RevalidationMoves
<1>5. /\ \A t \in AllTags, k \in Keys :
            \/ rows'[t][k] = rows[t][k]
            \/ reval[r] = "landing" /\ <<t, k>> \in landing[r] /\ rows'[t][k] = took[r]
      /\ \A t \in AllTags :
            \/ times'[t] = times[t]
            \/ reval[r] = "stamping" /\ t \in todo[r] /\ times'[t] = took[r]
  <2>1. CASE WriteRows(r)
    BY <2>1 DEF WriteRows, Stamp
  <2>2. CASE StampTags(r)
    BY <2>2 DEF StampTags
  <2>3. CASE UNCHANGED <<times, rows>>
    BY <2>3
  <2>4. QED
    BY <2>1, <2>2, <2>3 DEF RevalidationMoves, TakeTime, NextTag, LookUpRows, PrepareRows, LookUpFails, WritesLost,
       RevalidationFails, tagCache
<1>6. written[r] \subseteq written'[r] /\ crossing \subseteq crossing'
  BY DEF RevalidationMoves, TakeTime, StampTags, NextTag, LookUpRows, PrepareRows, WriteRows, LookUpFails, WritesLost,
         RevalidationFails, CallsTyped
<1>7. CallsBegun' /\ AllGoesOn
  BY <1>0, <1>1, <1>2, <1>3, <1>4, <1>5, <1>6, RevalidationGoesOn
<1>8. Crossed'
  <2>1. r \in Landing => took[r] > 0
    BY DEF KeptInv, WritesBegun, TagsTyped, Landing
  <2>2. \/ /\ crossing' = crossing /\ took'[r] = took[r] /\ written'[r] = written[r]
           /\ reval'[r] \in {"stamping", "landing"} => r \in Landing
           /\ todo'[r] = todo[r] \/ mode = "original" \/ took[r] > 0
        \/ crossing' = crossing \cup (Landing \X {r}) /\ took'[r] = instant
    <3>1. CASE TakeTime(r) \/ PrepareRows(r)
      BY <3>1 DEF TakeTime, PrepareRows, KeptInv, TagsTyped
    <3>2. CASE StampTags(r) \/ WriteRows(r) \/ WritesLost(r)
      BY <2>1, <3>2 DEF StampTags, WriteRows, WritesLost, Landing
    <3>3. CASE NextTag(r) \/ LookUpRows(r) \/ LookUpFails(r) \/ RevalidationFails(r)
      BY <3>3 DEF NextTag, LookUpRows, LookUpFails, RevalidationFails, CallsBegun, KeptInv, TagsTyped
    <3>4. QED
      BY <3>1, <3>2, <3>3 DEF RevalidationMoves
  <2>3. QED
    BY <1>0, <1>1, <1>2, <1>3, <1>4, <2>2, CrossesOn
<1>9. QED
  BY <1>0, <1>1, <1>7, <1>8


\* A revalidation that takes a tag, looks up its rows or writes them goes well.
LEMMA TagTaken ==
    ASSUME Sound, CallsTyped', AllGoesOn, NEW r \in Revalidations, NextTag(r)
    PROVE  GoesWell(r)'
<1> USE DEF Sound, StaleInv
<1>1. PICK t \in todo[r] : \E listed \in {{row \in Rows : row[1] = t}, {}} :
          /\ todo' = [todo EXCEPT ![r] = @ \ {t}]
          /\ inserts' = [inserts EXCEPT ![r] = listed]
          /\ lookups' = [lookups EXCEPT ![r] = IF t \in SoftTags THEN {<<"path", row[2]>> : row \in listed} ELSE {}]
          /\ (\A row \in Rows \ listed : row[1] # t) \/ lost' = lost \cup {r}
  BY DEF NextTag
<1>2. PICK listed \in {{row \in Rows : row[1] = t}, {}} :
          /\ todo' = [todo EXCEPT ![r] = @ \ {t}]
          /\ inserts' = [inserts EXCEPT ![r] = listed]
          /\ lookups' = [lookups EXCEPT ![r] = IF t \in SoftTags THEN {<<"path", row[2]>> : row \in listed} ELSE {}]
          /\ (\A row \in Rows \ listed : row[1] # t) \/ lost' = lost \cup {r}
  BY <1>1
<1>3. /\ reval[r] = "next" /\ reval'[r] = "looking" /\ Started(r) /\ mode = "original" /\ mode' = mode
      /\ UNCHANGED <<revalTags, written, landing, since, known, rows>> /\ lost \subseteq lost'
  BY DEF NextTag, KeptInv, TagsTyped, CallsBegun, Started, AllGoesOn, tagCache
<1>4. SUFFICES ASSUME r \notin lost' PROVE Collecting(r)' /\ WroteAll(r)' /\ landing'[r] = {}
  BY <1>3 DEF GoesWell
<1>5. Collecting(r) /\ WroteAll(r) /\ landing[r] = {}
  BY <1>3, <1>4 DEF GoesWell
<1>6. /\ todo'[r] = todo[r] \ {t} /\ inserts'[r] = listed
      /\ lookups'[r] = IF t \in SoftTags THEN {<<"path", row[2]>> : row \in listed} ELSE {}
  BY <1>2 DEF CallsTyped
<1>7. \A row \in known[r] : row[1] = t => row \in listed
  <2>1. known[r] \subseteq Rows
    BY <1>3 DEF KnownRows, Rows, CallsTyped
  <2>2. \A row \in Rows \ listed : row[1] # t
    BY <1>2, <1>4
  <2>3. QED
    BY <2>1, <2>2
<1>8. Collected(r) = written[r] /\ Collected(r)' = written[r] \cup listed /\ \A x : ~Looks(r, x)
  BY <1>3, <1>6 DEF Collected, Looks
<1>9. Collecting(r)'
  <2>1. ASSUME NEW u \in revalTags[r] \ todo'[r], NEW p \in Keys, <<u, p>> \in known[r]
        PROVE  /\ <<u, p>> \in Collected(r)'
               /\ u \in SoftTags => \A h \in HardTags : <<h, p>> \in known[r] =>
                    \/ Looks(r, <<"path", p>>)' \/ Looks(r, <<"tag", h>>)'
                    \/ \A k \in Keys : <<h, k>> \in known[r] => <<h, k>> \in Collected(r)'
    <3>1. CASE u = t
      <4>1. <<u, p>> \in listed
        BY <1>7, <2>1, <3>1
      <4>2. u \in SoftTags => Looks(r, <<"path", p>>)'
        BY <1>3, <1>6, <3>1, <4>1 DEF Looks
      <4>3. QED
        BY <1>8, <4>1, <4>2
    <3>2. CASE u # t
      <4>1. u \in revalTags[r] \ todo[r]
        BY <1>6, <2>1, <3>2
      <4>2. QED
        BY <1>5, <1>8, <2>1, <4>1 DEF Collecting
    <3>3. QED
      BY <3>1, <3>2
  <2>2. QED
    BY <1>3, <2>1, Zenon DEF Collecting
<1>10. WroteAll(r)'
  BY <1>3, <1>5 DEF WroteAll, AllGoesOn, RowsGoOn
<1>11. QED
  BY <1>3, <1>5, <1>9, <1>10

LEMMA RowsLookedUp ==
    ASSUME Sound, CallsTyped', AllGoesOn, NEW r \in Revalidations, LookUpRows(r)
    PROVE  GoesWell(r)'
<1> USE DEF Sound, StaleInv
<1>1. PICK x \in lookups[r] :
          /\ lookups' = [lookups EXCEPT ![r] = (@ \ {x}) \cup (IF x[1] = "path" THEN Cascade(x[2]) ELSE {})]
          /\ inserts' = [inserts EXCEPT ![r] = @ \cup (IF x[1] = "tag" THEN {w \in Rows : w[1] = x[2]} ELSE {})]
  BY DEF LookUpRows
<1>2. /\ reval[r] = "looking" /\ reval' = reval /\ Started(r) /\ mode = "original" /\ mode' = mode
      /\ UNCHANGED <<revalTags, todo, written, landing, since, known, rows, lost>>
  BY DEF LookUpRows, CallsBegun, Started, AllGoesOn, tagCache
<1>3. SUFFICES ASSUME r \notin lost PROVE Collecting(r)' /\ WroteAll(r)' /\ landing'[r] = {}
  BY <1>2 DEF GoesWell
<1>4. Collecting(r) /\ WroteAll(r) /\ landing[r] = {}
  BY <1>2, <1>3 DEF GoesWell
<1>5. /\ lookups'[r] = (lookups[r] \ {x}) \cup (IF x[1] = "path" THEN Cascade(x[2]) ELSE {})
      /\ inserts'[r] = inserts[r] \cup (IF x[1] = "tag" THEN {w \in Rows : w[1] = x[2]} ELSE {})
  BY <1>1 DEF CallsTyped
<1>6. known[r] \subseteq Rows
  BY <1>2 DEF KnownRows, Rows, CallsTyped
<1>7. Collected(r) \subseteq Collected(r)'
  BY <1>2, <1>5 DEF Collected
<1>8. ASSUME NEW p \in Keys, NEW h \in HardTags, <<h, p>> \in known[r],
             \/ Looks(r, <<"path", p>>) \/ Looks(r, <<"tag", h>>)
             \/ \A k \in Keys : <<h, k>> \in known[r] => <<h, k>> \in Collected(r)
      PROVE  \/ Looks(r, <<"path", p>>)' \/ Looks(r, <<"tag", h>>)'
             \/ \A k \in Keys : <<h, k>> \in known[r] => <<h, k>> \in Collected(r)'
  <2>1. CASE Looks(r, <<"path", p>>) /\ x = <<"path", p>>
    <3>1. <<"tag", h>> \in Cascade(p)
      BY <1>6, <1>8 DEF Cascade
    <3>2. <<"tag", h>> \in lookups'[r]
      BY <1>5, <2>1, <3>1
    <3>3. QED
      BY <1>2, <3>2 DEF Looks
  <2>2. CASE Looks(r, <<"tag", h>>) /\ x = <<"tag", h>>
    <3>1. \A k \in Keys : <<h, k>> \in known[r] => <<h, k>> \in inserts'[r]
      BY <1>5, <1>6, <2>2
    <3>2. QED
      BY <1>2, <3>1 DEF Collected
  <2>3. CASE Looks(r, <<"path", p>>) /\ x # <<"path", p>>
    BY <1>2, <1>5, <2>3 DEF Looks
  <2>4. CASE Looks(r, <<"tag", h>>) /\ x # <<"tag", h>>
    BY <1>2, <1>5, <2>4 DEF Looks
  <2>5. QED
    BY <1>7, <1>8, <2>1, <2>2, <2>3, <2>4
<1>9. Collecting(r)'
  <2>1. ASSUME NEW u \in revalTags[r] \ todo[r], NEW p \in Keys, <<u, p>> \in known[r]
        PROVE  /\ <<u, p>> \in Collected(r)'
               /\ u \in SoftTags => \A h \in HardTags : <<h, p>> \in known[r] =>
                    \/ Looks(r, <<"path", p>>)' \/ Looks(r, <<"tag", h>>)'
                    \/ \A k \in Keys : <<h, k>> \in known[r] => <<h, k>> \in Collected(r)'
    <3>1. /\ <<u, p>> \in Collected(r)
          /\ u \in SoftTags => \A h \in HardTags : <<h, p>> \in known[r] =>
                \/ Looks(r, <<"path", p>>) \/ Looks(r, <<"tag", h>>)
                \/ \A k \in Keys : <<h, k>> \in known[r] => <<h, k>> \in Collected(r)
      BY <1>4, <2>1 DEF Collecting
    <3>2. QED
      BY <1>7, <1>8, <3>1
  <2>2. QED
    BY <1>2, <2>1, Zenon DEF Collecting
<1>10. WroteAll(r)'
  BY <1>2, <1>4 DEF WroteAll, AllGoesOn, RowsGoOn
<1>11. QED
  BY <1>2, <1>4, <1>9, <1>10

LEMMA RowsPrepared ==
    ASSUME Sound, CallsTyped', AllGoesOn, NEW r \in Revalidations, PrepareRows(r)
    PROVE  GoesWell(r)'
<1> USE DEF Sound, StaleInv
<1>1. /\ reval[r] = "looking" /\ lookups[r] = {} /\ Started(r) /\ mode = "original" /\ mode' = mode
      /\ written'[r] = written[r] \cup inserts[r] /\ landing'[r] = inserts[r] \ written[r]
      /\ reval'[r] = IF landing'[r] = {} THEN AfterTag(r) ELSE "landing"
      /\ UNCHANGED <<revalTags, todo, since, known, lost>>
  BY DEF PrepareRows, Fresh, CallsBegun, Started, AllGoesOn, CallsTyped, KeptInv, TagsTyped
<1>2. SUFFICES ASSUME r \notin lost
               PROVE  /\ reval'[r] = "done" => todo'[r] = {}
                      /\ reval'[r] # "landing" => landing'[r] = {}
                      /\ Collecting(r)' /\ WroteAll(r)'
  BY <1>1 DEF GoesWell
<1>3. Collecting(r) /\ WroteAll(r) /\ landing[r] = {}
  BY <1>1, <1>2 DEF GoesWell
<1>4. (reval'[r] = "done" => todo'[r] = {}) /\ (reval'[r] # "landing" => landing'[r] = {})
  BY <1>1 DEF AfterTag
<1>5. Collected(r) = written'[r] /\ Collected(r)' = written'[r] /\ \A x : ~Looks(r, x)
  BY <1>1 DEF Collected, Looks, AfterTag
<1>6. Collecting(r)'
  BY <1>1, <1>3, <1>5, Zenon DEF Collecting
<1>7. WroteAll(r)'
  BY <1>1, <1>3 DEF WroteAll, AllGoesOn, RowsGoOn
<1>8. QED
  BY <1>4, <1>6, <1>7

LEMMA RowsWritten ==
    ASSUME Sound, CallsTyped', AllGoesOn, NEW r \in Revalidations, WriteRows(r)
    PROVE  GoesWell(r)'
<1> USE DEF Sound, StaleInv
<1>1. PICK ws \in SUBSET landing[r] \ {{}} :
        /\ rows' = Stamp(ws, took[r])
        /\ landing' = [landing EXCEPT ![r] = @ \ ws]
        /\ reval' = [reval EXCEPT ![r] = IF ws = landing[r] THEN AfterTag(r) ELSE "landing"]
  BY DEF WriteRows
<1>2. /\ reval[r] = "landing" /\ Started(r) /\ mode = "original" /\ mode' = mode
      /\ landing'[r] = landing[r] \ ws
      /\ reval'[r] = IF ws = landing[r] THEN AfterTag(r) ELSE "landing"
      /\ UNCHANGED <<revalTags, todo, written, since, known, lost>>
  BY <1>1 DEF WriteRows, CallsBegun, Started, AllGoesOn, KeptInv, TagsTyped
<1>3. SUFFICES ASSUME r \notin lost
               PROVE  /\ reval'[r] = "done" => todo'[r] = {}
                      /\ reval'[r] # "landing" => landing'[r] = {}
                      /\ Collecting(r)' /\ WroteAll(r)'
  BY <1>2 DEF GoesWell
<1>4. Collecting(r) /\ WroteAll(r)
  BY <1>2, <1>3 DEF GoesWell
<1>5. (reval'[r] = "done" => todo'[r] = {}) /\ (reval'[r] # "landing" => landing'[r] = {})
  BY <1>2 DEF AfterTag
<1>6. Collected(r) = written[r] /\ Collected(r)' = written[r] /\ \A x : ~Looks(r, x)
  BY <1>2 DEF Collected, Looks, AfterTag
<1>7. Collecting(r)'
  BY <1>2, <1>4, <1>6, Zenon DEF Collecting
<1>8. took[r] >= since[r] /\ took[r] \in Nat /\ since[r] \in Nat
  BY <1>2 DEF Crossed, Landing, KeptInv, TagsTyped, CallsTyped
<1>9. ASSUME NEW u \in AllTags, NEW k \in Keys,
             <<u, k>> \in written'[r], <<u, k>> \notin landing'[r], <<u, k>> \in known'[r]
      PROVE  Recorded(r, u, k)'
  <2>1. CASE <<u, k>> \notin ws
    BY <1>2, <1>4, <1>9, <2>1 DEF WroteAll, AllGoesOn, RowsGoOn
  <2>2. CASE <<u, k>> \in ws
    <3>1. rows'[u][k] = took[r]
      BY <1>1, <2>2 DEF Stamp
    <3>2. QED
      BY <1>2, <1>8, <3>1 DEF Recorded
  <2>3. QED
    BY <2>1, <2>2
<1>10. QED
  BY <1>5, <1>7, <1>9 DEF WroteAll


LEMMA TagsStamped ==
    ASSUME Sound, CallsTyped', AllGoesOn, NEW r \in Revalidations, StampTags(r)
    PROVE  GoesWell(r)'
<1> USE DEF Sound, StaleInv
<1>1. PICK ts \in SUBSET todo[r] \ {{}} :
        /\ times' = [t \in AllTags |-> IF t \in ts THEN took[r] ELSE times[t]]
        /\ todo' = [todo EXCEPT ![r] = @ \ ts]
        /\ reval' = [reval EXCEPT ![r] = IF ts = todo[r] THEN "done" ELSE "stamping"]
  BY DEF StampTags
<1>2. /\ reval[r] = "stamping" /\ Started(r) /\ mode = "nextMode" /\ mode' = mode
      /\ todo'[r] = todo[r] \ ts /\ reval'[r] = IF ts = todo[r] THEN "done" ELSE "stamping"
      /\ UNCHANGED <<revalTags, since, lost>> /\ revalTags[r] \subseteq AllTags
  BY <1>1 DEF StampTags, CallsBegun, Started, AllGoesOn, KeptInv, TagsTyped
<1>3. SUFFICES ASSUME r \notin lost PROVE \A t \in revalTags'[r] \ todo'[r] : Timed(r, t)'
  BY <1>2 DEF GoesWell
<1>4. \A t \in revalTags[r] \ todo[r] : Timed(r, t)
  BY <1>2, <1>3 DEF GoesWell
<1>5. took[r] >= since[r]
  BY <1>2 DEF Crossed, Landing
<1>6. ASSUME NEW t \in revalTags[r] \ todo'[r] PROVE Timed(r, t)'
  <2>1. CASE t \in ts
    BY <1>1, <1>2, <1>5, <2>1 DEF Timed
  <2>2. CASE t \notin ts
    BY <1>2, <1>4, <1>6, <2>2 DEF AllGoesOn, RowsGoOn
  <2>3. QED
    BY <2>1, <2>2
<1>7. QED
  BY <1>2, <1>6

LEMMA TimeTaken ==
    ASSUME Sound, CallsTyped', AllGoesOn, NEW r \in Revalidations, TakeTime(r)
    PROVE  GoesWell(r)'
<1> USE DEF Sound, StaleInv
<1>1. /\ reval[r] = "writing" /\ reval'[r] = "stamping" /\ Started(r) /\ mode = "nextMode" /\ mode' = mode
      /\ UNCHANGED <<revalTags, todo, lost>>
  BY DEF TakeTime, CallsBegun, Started, AllGoesOn, KeptInv, TagsTyped
<1>2. r \notin lost => \A t \in revalTags[r] \ todo[r] : Timed(r, t)
  BY <1>1 DEF GoesWell
<1>3. r \notin lost => \A t \in revalTags[r] \ todo[r] : Timed(r, t)'
  BY <1>1, <1>2 DEF AllGoesOn, RowsGoOn
<1>4. QED
  BY <1>1, <1>3 DEF GoesWell

\* The parts of the invariant follow from how a step goes on.
LEMMA SoundFollows ==
    ASSUME Sound, KeptInv', CallsTyped', CallsBegun', Crossed', AllGoesOn, \A r \in Revalidations : GoesWell(r)'
    PROVE  Sound'
<1> USE DEF Sound
<1>1. KnownRows'
  BY KnownRemain
<1>2. SeesOrOverlaps'
  BY SeesRemain
<1>3. WritesMissing'
  BY MissingRemain
<1>4. StoreHasRows'
  BY StoreRemains
<1>5. GetsTrue'
  BY <1>4, GetsRemainTrue
<1>6. HalfChecked' /\ StaleOnlyByOverlap'
  BY HalfRemains, AnswersRemain
<1>7. StaleInv'
  BY <1>1, <1>2, <1>3, <1>4, <1>5, <1>6 DEF StaleInv
<1>8. QED
  BY <1>7

\* A get, and the time, leave the rest as it is.
LEMMA GetsMove ==
    ASSUME Sound,
           \/ \E g \in Gets, k \in Keys : ReadEntry(g, k)
           \/ \E g \in Gets : CheckTags(g) \/ CheckPath(g) \/ CheckFailsSilently(g) \/ CheckThrows(g)
           \/ PagesTick
           \/ UNCHANGED pageVars
    PROVE  CallsTyped' /\ CallsBegun' /\ AllGoesOn /\ UNCHANGED revalidating
<1> USE DEF Sound, StaleInv
<1>1. /\ UNCHANGED <<mode, store, times, rows, set, setKey, sees, unlisted, untagged, reval, revalTags, todo,
                     lookups, inserts, written, took, landing, since, known, lost, crossing, overlap>>
      /\ UNCHANGED <<store, tagCache, setting, revalidating>>
      /\ instant' = instant \/ instant' = instant + 1
  BY DEF ReadEntry, CheckTags, CheckPath, CheckFailsSilently, CheckThrows, PagesTick, pageVars, setting, revalidating,
         tagCache
<1>2. SetsGoOn
  BY <1>1 DEF SetsGoOn, Stored, Setting
<1>3. RevalidationsGoOn
  BY <1>1 DEF RevalidationsGoOn, Started
<1>4. RowsGoOn
  BY <1>1, <1>2, <1>3, RowsStay
<1>5. StoreGoesOn
  BY <1>1 DEF StoreGoesOn
<1>6. CallsBegun'
  <2>1. \A r \in Revalidations : since[r] \in Nat /\ instant \in Nat /\ since[r] <= instant
    BY DEF CallsBegun, CallsTyped, KeptInv, TagsTyped
  <2>2. \A r \in Revalidations : since'[r] <= instant'
    BY <1>1, <2>1
  <2>3. QED
    BY <1>1, <2>2 DEF CallsBegun
<1>7. ASSUME get' \in [Gets -> {"idle", "checking", "checkingPath", "hit"}], getKey' \in [Gets -> Keys],
             found' \in [Gets -> Entry \cup {Missing}], past' \in [Gets -> SUBSET Revalidations]
      PROVE  CallsTyped'
  BY <1>1, <1>7 DEF CallsTyped
<1>8. CASE UNCHANGED <<get, getKey, found, past, unchecked>>
  <2>1. CallsTyped'
    BY <1>7, <1>8 DEF CallsTyped
  <2>2. GetsGoOn
    BY <1>8 DEF GetsGoOn
  <2>3. QED
    BY <1>1, <1>2, <1>3, <1>4, <1>5, <1>6, <2>1, <2>2 DEF AllGoesOn
<1>9. CASE \E g \in Gets, k \in Keys : ReadEntry(g, k)
  <2>1. PICK g \in Gets, k \in Keys : ReadEntry(g, k)
    BY <1>9
  <2>2. CallsTyped'
    <3>1. store[k] \in Entry \cup {Missing} /\ {r \in Revalidations : reval[r] = "done"} \in SUBSET Revalidations
      BY DEF CallsTyped
    <3>2. QED
      BY <1>7, <2>1, <3>1 DEF ReadEntry, CallsTyped
  <2>3. GetsGoOn
    BY <1>1, <2>1 DEF ReadEntry, GetsGoOn, CallsTyped
  <2>4. QED
    BY <1>1, <1>2, <1>3, <1>4, <1>5, <1>6, <2>2, <2>3 DEF AllGoesOn
<1>10. CASE \E g \in Gets : CheckTags(g) \/ CheckPath(g) \/ CheckFailsSilently(g) \/ CheckThrows(g)
  <2>1. PICK g \in Gets : CheckTags(g) \/ CheckPath(g) \/ CheckFailsSilently(g) \/ CheckThrows(g)
    BY <1>10
  <2>2. CASE Miss(g) /\ unchecked' = unchecked
    <3>2. CallsTyped'
      <4>1. SomeKey \in Keys
        BY PageTagsAssumption DEF SomeKey
      <4>2. QED
        BY <1>7, <2>2, <4>1 DEF Miss, CallsTyped
    <3>3. GetsGoOn
      BY <2>2 DEF Miss, GetsGoOn, CallsTyped
    <3>4. QED
      BY <1>1, <1>2, <1>3, <1>4, <1>5, <1>6, <3>2, <3>3 DEF AllGoesOn
  <2>3. CASE /\ get[g] \in {"checking", "checkingPath"} /\ get' = [get EXCEPT ![g] = AfterCheck(g)]
             /\ UNCHANGED <<getKey, found, past>> /\ unchecked \subseteq unchecked'
             /\ g \in unchecked'
                \/ ~Revalidated(IF get[g] = "checking" THEN getKey[g] ELSE PathOf[getKey[g]], found[g].at)
             /\ UNCHANGED <<mode, store, tagCache, setting, revalidating, overlap>>
    <3>1. AfterCheck(g) \in {"checkingPath", "hit"}
      BY DEF AfterCheck
    <3>2. CallsTyped'
      BY <1>7, <2>3, <3>1 DEF CallsTyped
    <3>3. GetsGoOn
      <4>1. \A h \in Gets : get'[h] = IF h = g THEN AfterCheck(g) ELSE get[h]
        BY <2>3 DEF CallsTyped
      <4>2. QED
        BY <2>3, <4>1 DEF GetsGoOn
    <3>4. QED
      BY <1>1, <1>2, <1>3, <1>4, <1>5, <1>6, <3>2, <3>3 DEF AllGoesOn
  <2>4. CASE CheckTags(g)
    BY <2>2, <2>3, <2>4 DEF CheckTags
  <2>5. CASE CheckPath(g)
    <3>1. get[g] = "checkingPath" /\ AfterCheck(g) = "hit"
      BY <2>5 DEF CheckPath, AfterCheck
    <3>2. QED
      BY <2>2, <2>3, <2>5, <3>1 DEF CheckPath
  <2>6. CASE CheckFailsSilently(g)
    BY <2>3, <2>6 DEF CheckFailsSilently
  <2>7. CASE CheckThrows(g)
    BY <2>2, <2>7 DEF CheckThrows
  <2>8. QED
    BY <2>1, <2>4, <2>5, <2>6, <2>7
<1>11. QED
  BY <1>8, <1>9, <1>10 DEF PagesTick, getting, pageVars

\* The invariant holds initially.
LEMMA SoundInit == PagesInit => Sound
<1> SUFFICES ASSUME PagesInit PROVE Sound
  OBVIOUS
<1>1. SomeKey \in Keys
  BY PageTagsAssumption DEF SomeKey
<1>2. CallsTyped
  BY <1>1 DEF PagesInit, CallsTyped
<1>3. CallsBegun /\ Crossed
  BY DEF PagesInit, CallsBegun, Crossed, Started, Landing
<1>4. KnownRows /\ SeesOrOverlaps /\ WritesMissing /\ StoreHasRows
  BY DEF PagesInit, KnownRows, Started, SeesOrOverlaps, Setting, WritesMissing, StoreHasRows
<1>5. (\A r \in Revalidations : GoesWell(r)) /\ GetsTrue /\ HalfChecked /\ StaleOnlyByOverlap
  BY DEF PagesInit, GoesWell, Started, GetsTrue, HalfChecked, StaleOnlyByOverlap
<1>6. KeptInv
  BY KeptInit
<1>7. QED
  BY <1>2, <1>3, <1>4, <1>5, <1>6 DEF Sound, StaleInv

\* Every step keeps the invariant.
LEMMA SoundStep == Sound /\ [PagesNext]_pageVars => Sound'
<1> SUFFICES ASSUME Sound, [PagesNext]_pageVars PROVE Sound'
  OBVIOUS
<1>1. KeptInv /\ StaleInv
  BY DEF Sound
<1>2. KeptInv'
  BY <1>1, SetsKeep, RevalidationsKeep, OthersKeep DEF PagesNext, RevalidationMoves
<1>3. ASSUME CallsTyped', CallsBegun', Crossed', AllGoesOn, NEW r \in Revalidations,
             \A q \in Revalidations : q # r => Same(q), GoesWell(r)'
      PROVE  Sound'
  <2>1. \A q \in Revalidations : GoesWell(q)'
    BY <1>1, <1>3, WellRemains DEF Same
  <2>2. QED
    BY <1>2, <1>3, <2>1, SoundFollows
<1>4. ASSUME CallsTyped', CallsBegun', AllGoesOn, UNCHANGED revalidating PROVE Sound'
  <2>1. \A q \in Revalidations : GoesWell(q)'
    BY <1>1, <1>4, WellRemains DEF revalidating
  <2>2. Crossed'
    BY <1>1, <1>4 DEF StaleInv, Crossed, Landing, Started, revalidating, AllGoesOn
  <2>3. QED
    BY <1>2, <1>4, <2>1, <2>2, SoundFollows
<1>5. ASSUME NEW s \in Sets,
             \/ \E k \in Keys : Render(s, k) \/ DeleteEntry(s, k)
             \/ StoreEntry(s) \/ StoreFails(s) \/ ListTags(s) \/ TagEntry(s) \/ TagEntryFails(s)
      PROVE  Sound'
  BY <1>4, <1>5, SetsMove
<1>6. ASSUME NEW r \in Revalidations, NEW ts \in SUBSET AllTags \ {{}}, RevalidateTags(r, ts) PROVE Sound'
  BY <1>2, <1>3, <1>6, RevalidationStarts
<1>7. ASSUME NEW r \in Revalidations, RevalidationMoves(r) PROVE Sound'
  <2>1. CallsTyped' /\ CallsBegun' /\ Crossed' /\ AllGoesOn /\ \A q \in Revalidations : q # r => Same(q)
    BY <1>7, RevalidationSteps
  <2>2. CASE StampTags(r) \/ TakeTime(r)
    BY <1>3, <2>1, <2>2, TagsStamped, TimeTaken
  <2>3. CASE NextTag(r)
    BY <1>3, <2>1, <2>3, TagTaken
  <2>4. CASE LookUpRows(r)
    BY <1>3, <2>1, <2>4, RowsLookedUp
  <2>5. CASE PrepareRows(r) \/ WriteRows(r)
    BY <1>3, <2>1, <2>5, RowsPrepared, RowsWritten
  <2>6. CASE LookUpFails(r) \/ WritesLost(r)
    <3>1. GoesWell(r)'
      BY <2>6 DEF LookUpFails, WritesLost, GoesWell
    <3>2. QED
      BY <1>3, <2>1, <3>1
  <2>7. CASE RevalidationFails(r)
    <3>1. GoesWell(r)'
      BY <1>1, <2>7 DEF RevalidationFails, GoesWell, KeptInv, TagsTyped
    <3>2. QED
      BY <1>3, <2>1, <3>1
  <2>8. QED
    BY <1>7, <2>2, <2>3, <2>4, <2>5, <2>6, <2>7 DEF RevalidationMoves
<1>8. ASSUME \/ \E g \in Gets, k \in Keys : ReadEntry(g, k)
             \/ \E g \in Gets : CheckTags(g) \/ CheckPath(g) \/ CheckFailsSilently(g) \/ CheckThrows(g)
             \/ PagesTick
             \/ UNCHANGED pageVars
      PROVE  Sound'
  BY <1>4, <1>8, GetsMove
<1>9. QED
  BY <1>5, <1>6, <1>7, <1>8 DEF PagesNext, RevalidationMoves

\* With both kinds of tag cache and whatever calls overlap or fail: a get that starts after
\* a revalidation of its key has returned answers no older entry, but for a set of the key
\* that overlapped the revalidation, an entry of the same instant, an earlier revalidation
\* that was still writing, or a silent failure of the tag cache.
THEOREM NoStaleAnswer == PagesSpec => []StaleOnlyByOverlap
<1>1. Sound => StaleOnlyByOverlap
  BY DEF Sound, StaleInv
<1>2. QED
  BY <1>1, SoundInit, SoundStep, PTL DEF PagesSpec

-----------------------------------------------------------------------------
(* The bounds *)

\* What the types say beyond the invariant: the bounds of the model, the calls that failed,
\* and that a get with an answer has an entry.
Within ==
    /\ instant <= MaxInstant
    /\ lost \subseteq Revalidations
    /\ unchecked \subseteq Gets
    /\ faults \in 0 .. MaxFaults
    /\ \A g \in Gets : get[g] # "idle" => found[g] # Missing

\* The bounds hold initially.
LEMMA WithinInit == PagesInit => Within
  BY PageBoundsAssumption DEF PagesInit, Within

\* A failure stays within its bound.
LEMMA FaultWithin == Within /\ (Fault \/ faults' = faults) => faults' \in 0 .. MaxFaults
  BY PageBoundsAssumption DEF Within, Fault

\* Every step stays within the bounds.
LEMMA WithinStep == Sound /\ Within /\ [PagesNext]_pageVars => Within'
<1> SUFFICES ASSUME Sound, Within, [PagesNext]_pageVars PROVE Within'
  OBVIOUS
<1> USE PageBoundsAssumption DEF setting, revalidating, getting, tagCache
<1>1. instant \in Nat /\ get \in [Gets -> {"idle", "checking", "checkingPath", "hit"}] /\ found \in [Gets -> Entry \cup {Missing}]
  BY DEF Sound, KeptInv, TagsTyped, CallsTyped, StaleInv
<1>2. ASSUME UNCHANGED <<instant, getting>>, lost' \subseteq Revalidations, Fault \/ faults' = faults PROVE Within'
  <2>1. faults' \in 0 .. MaxFaults
    BY <1>2, FaultWithin
  <2>2. QED
    BY <1>2, <2>1 DEF Within
<1>3. ASSUME NEW s \in Sets,
             \/ \E k \in Keys : Render(s, k) \/ DeleteEntry(s, k)
             \/ StoreEntry(s) \/ StoreFails(s) \/ TagEntry(s) \/ TagEntryFails(s)
      PROVE  Within'
  <2>1. UNCHANGED <<instant, getting, lost>> /\ (Fault \/ faults' = faults)
    BY <1>3 DEF Render, DeleteEntry, StoreEntry, StoreFails, TagEntry, TagEntryFails
  <2>2. QED
    BY <1>2, <2>1 DEF Within
<1>4. ASSUME NEW s \in Sets, ListTags(s) PROVE Within'
  <2>1. UNCHANGED <<instant, getting, lost>> /\ (Fault \/ faults' = faults)
    BY <1>4 DEF ListTags
  <2>2. QED
    BY <1>2, <2>1 DEF Within
<1>5. ASSUME NEW r \in Revalidations,
             \/ \E ts \in SUBSET AllTags \ {{}} : RevalidateTags(r, ts)
             \/ TakeTime(r) \/ StampTags(r) \/ LookUpRows(r) \/ PrepareRows(r) \/ WriteRows(r) \/ RevalidationFails(r)
      PROVE  Within'
  <2>1. UNCHANGED <<instant, getting, lost>> /\ (Fault \/ faults' = faults)
    BY <1>5 DEF RevalidateTags, TakeTime, StampTags, LookUpRows, PrepareRows, WriteRows, RevalidationFails
  <2>2. QED
    BY <1>2, <2>1 DEF Within
<1>6. ASSUME NEW r \in Revalidations, NextTag(r) \/ LookUpFails(r) \/ WritesLost(r) PROVE Within'
  <2>1. UNCHANGED <<instant, getting>> /\ (Fault \/ faults' = faults) /\ (lost' = lost \/ lost' = lost \cup {r})
    BY <1>6 DEF NextTag, LookUpFails, WritesLost
  <2>2. QED
    BY <1>2, <2>1 DEF Within
<1>7. ASSUME NEW g \in Gets, NEW k \in Keys, ReadEntry(g, k) PROVE Within'
  BY <1>1, <1>7 DEF ReadEntry, Within
<1>8. ASSUME NEW g \in Gets, CheckTags(g) \/ CheckPath(g) \/ CheckFailsSilently(g) \/ CheckThrows(g) PROVE Within'
  <2>1. UNCHANGED <<instant, lost>> /\ (Fault \/ faults' = faults) /\ unchecked' \subseteq Gets /\ get[g] # "idle"
    BY <1>8 DEF CheckTags, CheckPath, CheckFailsSilently, CheckThrows, Within
  <2>2. faults' \in 0 .. MaxFaults
    BY <2>1, FaultWithin
  <2>3. CASE Miss(g)
    BY <1>1, <2>1, <2>2, <2>3 DEF Miss, Within
  <2>4. CASE (\E there \in {"checkingPath", "hit"} : get' = [get EXCEPT ![g] = there]) /\ UNCHANGED found
    BY <1>1, <2>1, <2>2, <2>4 DEF Within
  <2>5. QED
    BY <1>8, <2>3, <2>4 DEF CheckTags, CheckPath, CheckFailsSilently, CheckThrows, AfterCheck
<1>9. ASSUME PagesTick PROVE Within'
  BY <1>1, <1>9 DEF PagesTick, Within
<1>10. ASSUME UNCHANGED pageVars PROVE Within'
  BY <1>10 DEF pageVars, Within
<1>11. QED
  BY <1>3, <1>4, <1>5, <1>6, <1>7, <1>8, <1>9, <1>10 DEF PagesNext

\* The invariant and the bounds are the types.
LEMMA WithinTypes == Sound /\ Within => PagesTypeOK
<1> SUFFICES ASSUME Sound, Within PROVE PagesTypeOK
  OBVIOUS
<1> USE DEF Sound, StaleInv, KeptInv
<1>1. instant \in 2 .. MaxInstant
  BY PageBoundsAssumption DEF TagsTyped, Within
<1>2. \A n \in Nat : n <= instant => n \in 0 .. MaxInstant
  BY <1>1, PageBoundsAssumption
<1>3. times \in [AllTags -> 0 .. MaxInstant]
  BY <1>2 DEF TagsTyped, InThePast
<1>4. rows \in [AllTags -> [Keys -> 0 .. MaxInstant]]
  <2>1. \A t \in AllTags : rows[t] \in [Keys -> 0 .. MaxInstant]
    BY <1>2 DEF TagsTyped, InThePast
  <2>2. QED
    BY <2>1 DEF TagsTyped
<1>5. since \in [Revalidations -> 0 .. MaxInstant] /\ took \in [Revalidations -> 0 .. MaxInstant]
  BY <1>2 DEF CallsTyped, CallsBegun, TagsTyped, InThePast
<1>6. QED
  BY <1>1, <1>3, <1>4, <1>5 DEF TagsTyped, CallsTyped, Within, PagesTypeOK

\* The state of the page cache, its tag caches and the calls is well typed, and the times
\* in it are not later than the present.
THEOREM PagesTyping == PagesSpec => []PagesTypeOK
  BY SoundInit, SoundStep, WithinInit, WithinStep, WithinTypes, PTL DEF PagesSpec

=============================================================================
