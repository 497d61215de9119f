----------------------------- MODULE PageCache -----------------------------
(***************************************************************************)
(* The cache of pages and fetches: the cache adapter that Next.js calls    *)
(* (packages/core/src/adapters/cache.ts), the cache handler behind it      *)
(* (adapters/cache-handler.ts, utils/cache.ts), and the two kinds of tag   *)
(* caches, on D1, KV, DynamoDB or in memory.                               *)
(*                                                                         *)
(* In nextMode a tag has the time it was last revalidated at and an entry  *)
(* carries its tags.  In original mode the table holds rows (tag, key)     *)
(* with a time, 1 in a row that a set wrote.  A set, a revalidation and a  *)
(* get are calls over several awaits that interleave.  A revalidation      *)
(* takes the time before it awaits its writes, and the last write of a tag *)
(* or a row wins, whatever its time.                                       *)
(***************************************************************************)
EXTENDS Integers, FiniteSets

CONSTANTS
    Keys,      \* cache keys, of pages and of fetches
    HardTags,  \* tags of revalidateTag
    SoftTags,  \* tags of revalidatePath, the ones that start with _N_T_
    TagsOf,    \* the tags of the entry of a key
    SoftOf,    \* the soft tags that a get of a fetch adds to them
    PathOf,    \* the key of the page they name
    Sets, Revalidations, Gets, \* calls
    Missing,   \* no entry
    MaxInstant, \* bound
    MaxFaults   \* bound: failures of a store, a tag cache or a call

ASSUME PageTagsAssumption ==
    /\ Keys # {}
    /\ HardTags \cap SoftTags = {}
    /\ TagsOf \in [Keys -> SUBSET (HardTags \cup SoftTags)]
    /\ SoftOf \in [Keys -> SUBSET SoftTags]
    /\ PathOf \in [Keys -> Keys]
ASSUME PageBoundsAssumption == MaxInstant \in Nat /\ MaxInstant > 2 /\ MaxFaults \in Nat

VARIABLES
    mode,      \* of the tag cache
    instant,   \* Date.now()
    store,     \* the incremental cache: Missing or an entry, for each key
    times,     \* nextMode: when a tag was revalidated last, or 0
    rows,      \* original mode: the time in the row (tag, key), 0 without one
    set,       \* where a set is
    setKey,    \* its key
    sees,      \* history: the revalidations whose data its render shows
    unlisted,  \* the tags it is going to write
    untagged,  \* history: the sets that a tag cache failed silently
    reval,     \* where a revalidation is
    revalTags, \* the tags it is about
    todo,      \* its tags to come
    lookups,   \* the reads of the table it still has to make for a tag
    inserts,   \* toInsert
    written,   \* writtenTags of its request
    took,      \* the time of its writes under way
    landing,   \* original mode: the rows that they have still to write
    since,     \* history: when it started
    known,     \* history: the rows there were when it started
    lost,      \* history: the revalidations that a tag cache failed silently
    overlap,   \* history: pairs of a revalidation and a set that overlap in time
    crossing,  \* history: pairs of revalidations, the first writing when the second took the time
    get,       \* where a get is
    getKey,    \* its key
    found,     \* the entry it read
    past,      \* history: the revalidations that were done when it started
    unchecked, \* history: the gets whose look at the tag cache failed silently
    faults     \* bound

setting == <<set, setKey, sees, unlisted, untagged>>
revalidating == <<reval, revalTags, todo, lookups, inserts, written, took, landing, since, known, lost, crossing>>
getting == <<get, getKey, found, past, unchecked>>
tagCache == <<times, rows>>
pageVars == <<mode, instant, store, tagCache, setting, revalidating, overlap, getting, faults>>

SomeKey == CHOOSE k \in Keys : TRUE
AllTags == HardTags \cup SoftTags
PageRows == AllTags \X Keys
Entry == [at : Nat, by : Sets, sees : SUBSET Revalidations]

PagesInit ==
    /\ mode \in {"nextMode", "original"}
    /\ instant = 2
    /\ store = [k \in Keys |-> Missing]
    /\ times = [t \in AllTags |-> 0]
    /\ rows = [t \in AllTags |-> [k \in Keys |-> 0]]
    /\ set = [s \in Sets |-> "idle"]
    /\ setKey = [s \in Sets |-> SomeKey]
    /\ sees = [s \in Sets |-> {}]
    /\ unlisted = [s \in Sets |-> {}]
    /\ untagged = {}
    /\ reval = [r \in Revalidations |-> "idle"]
    /\ revalTags = [r \in Revalidations |-> {}]
    /\ todo = [r \in Revalidations |-> {}]
    /\ lookups = [r \in Revalidations |-> {}]
    /\ inserts = [r \in Revalidations |-> {}]
    /\ written = [r \in Revalidations |-> {}]
    /\ took = [r \in Revalidations |-> 0]
    /\ landing = [r \in Revalidations |-> {}]
    /\ since = [r \in Revalidations |-> 0]
    /\ known = [r \in Revalidations |-> {}]
    /\ lost = {}
    /\ overlap = {}
    /\ crossing = {}
    /\ get = [g \in Gets |-> "idle"]
    /\ getKey = [g \in Gets |-> SomeKey]
    /\ found = [g \in Gets |-> Missing]
    /\ past = [g \in Gets |-> {}]
    /\ unchecked = {}
    /\ faults = 0

Rows == {row \in PageRows : rows[row[1]][row[2]] > 0}
Stamp(ps, n) == [t \in AllTags |-> [k \in Keys |-> IF <<t, k>> \in ps THEN n ELSE rows[t][k]]]
\* The revalidations whose writes are under way.
Landing == {r \in Revalidations : reval[r] \in {"stamping", "landing"}}
Revalidating == {r \in Revalidations : reval[r] \notin {"idle", "done", "failed"}}
Fault == faults < MaxFaults /\ faults' = faults + 1
Setting == {s \in Sets : set[s] \notin {"idle", "done"}}

----------------------------------------------------------------------------
(* set(key, data) *)

\* Next.js renders the entry, from data that the application changes before it
\* calls revalidateTag.
Render(s, k) ==
    /\ set[s] = "idle"
    /\ set' = [set EXCEPT ![s] = "rendered"]
    /\ setKey' = [setKey EXCEPT ![s] = k]
    /\ sees' = [sees EXCEPT ![s] = {r \in Revalidations : reval[r] # "idle"}]
    /\ overlap' = overlap \cup (Revalidating \X {s})
    /\ UNCHANGED <<mode, instant, store, tagCache, unlisted, untagged, revalidating, getting, faults>>

AfterStore(k) == IF mode = "original" /\ TagsOf[k] # {} THEN "listing" ELSE "done"

\* handleSet: incrementalCache.set, which gives the entry the time of the write.
StoreEntry(s) ==
    /\ set[s] = "rendered"
    /\ store' = [store EXCEPT ![setKey[s]] = [at |-> instant, by |-> s, sees |-> sees[s]]]
    /\ set' = [set EXCEPT ![s] = AfterStore(setKey[s])]
    /\ UNCHANGED <<mode, instant, tagCache, setKey, sees, unlisted, untagged, revalidating, overlap, getting, faults>>

\* The store fails, or the call to the handler: the adapter swallows the error.
StoreFails(s) ==
    /\ Fault
    /\ set[s] = "rendered"
    /\ set' = [set EXCEPT ![s] = "done"]
    /\ UNCHANGED <<mode, instant, store, tagCache, setKey, sees, unlisted, untagged, revalidating, overlap, getting>>

\* Mutant: the stored tags are not taken out.
Derived(k) == TagsOf[k]
\* derivedTags without storedTags
NotStored(k) == {t \in TagsOf[k] : rows[t][k] = 0}

\* getByPath(key); it answers [] when it fails, so that all tags are written.
ListTags(s) ==
    /\ set[s] = "listing"
    /\ \E ts \in {NotStored(setKey[s]), TagsOf[setKey[s]]} :
        /\ unlisted' = [unlisted EXCEPT ![s] = ts]
        /\ IF ts = NotStored(setKey[s]) THEN UNCHANGED <<untagged, faults>> ELSE Fault /\ untagged' = untagged \cup {s}
        /\ set' = [set EXCEPT ![s] = IF ts = {} THEN "done" ELSE "tagging"]
    /\ UNCHANGED <<mode, instant, store, tagCache, setKey, sees, revalidating, overlap, getting>>

\* writeTags, with revalidatedAt 1.
TagEntry(s) ==
    /\ set[s] = "tagging"
    /\ rows' = Stamp(unlisted[s] \X {setKey[s]}, 1)
    /\ set' = [set EXCEPT ![s] = "done"]
    /\ UNCHANGED <<mode, instant, store, times, setKey, sees, unlisted, untagged, revalidating, overlap, getting, faults>>

\* writeTags fails; the DynamoDB tag caches swallow the error.
TagEntryFails(s) ==
    /\ Fault
    /\ set[s] = "tagging"
    /\ set' = [set EXCEPT ![s] = "done"]
    /\ untagged' = untagged \cup {s}
    /\ UNCHANGED <<mode, instant, store, tagCache, setKey, sees, unlisted, revalidating, overlap, getting>>

\* set(key, null): handleDelete.
DeleteEntry(s, k) ==
    /\ set[s] = "idle"
    /\ store[k] # Missing
    /\ store' = [store EXCEPT ![k] = Missing]
    /\ set' = [set EXCEPT ![s] = "done"]
    /\ UNCHANGED <<mode, instant, tagCache, setKey, sees, unlisted, untagged, revalidating, overlap, getting, faults>>

----------------------------------------------------------------------------
(* revalidateTag(tags) *)

\* handleRevalidateTags.  The application changed its data before.
RevalidateTags(r, ts) ==
    /\ reval[r] = "idle"
    /\ revalTags' = [revalTags EXCEPT ![r] = ts]
    /\ todo' = [todo EXCEPT ![r] = ts]
    /\ reval' = [reval EXCEPT ![r] = IF mode = "nextMode" THEN "writing" ELSE "next"]
    /\ since' = [since EXCEPT ![r] = instant]
    /\ known' = [known EXCEPT ![r] = Rows]
    /\ overlap' = overlap \cup ({r} \X Setting)
    /\ UNCHANGED <<mode, instant, store, tagCache, lookups, inserts, written, took, landing, lost, crossing,
                   setting, getting, faults>>

\* nextMode: writeTags takes one Date.now() for all tags before it writes them.
TakeTime(r) ==
    /\ reval[r] = "writing"
    /\ took' = [took EXCEPT ![r] = instant]
    /\ reval' = [reval EXCEPT ![r] = "stamping"]
    /\ crossing' = crossing \cup (Landing \X {r})
    /\ UNCHANGED <<mode, instant, store, tagCache, revalTags, todo, lookups, inserts, written, landing, since, known, lost,
                   overlap, setting, getting, faults>>

\* Tags get the time, all at once in the batch of D1, each on its own in KV.
StampTags(r) ==
    /\ reval[r] = "stamping"
    /\ \E ts \in SUBSET todo[r] \ {{}} :
        /\ times' = [t \in AllTags |-> IF t \in ts THEN took[r] ELSE times[t]]
        /\ todo' = [todo EXCEPT ![r] = @ \ ts]
        /\ reval' = [reval EXCEPT ![r] = IF ts = todo[r] THEN "done" ELSE "stamping"]
    /\ UNCHANGED <<mode, instant, store, rows, revalTags, lookups, inserts, written, took, landing, since, known, lost,
                   crossing, overlap, setting, getting, faults>>

\* original mode: the next tag of the loop, and the rows getByTag lists for it.
\* The paths of a soft tag are to be looked up next.  getByTag answers [] when
\* it fails.
NextTag(r) ==
    /\ reval[r] = "next"
    /\ \E t \in todo[r] :
        \E listed \in {{row \in Rows : row[1] = t}, {}} :
            /\ todo' = [todo EXCEPT ![r] = @ \ {t}]
            /\ inserts' = [inserts EXCEPT ![r] = listed]
            /\ lookups' = [lookups EXCEPT ![r] = IF t \in SoftTags THEN {<<"path", row[2]>> : row \in listed} ELSE {}]
            /\ IF \A row \in Rows \ listed : row[1] # t THEN UNCHANGED <<lost, faults>> ELSE Fault /\ lost' = lost \cup {r}
    /\ reval' = [reval EXCEPT ![r] = "looking"]
    /\ UNCHANGED <<mode, instant, store, tagCache, revalTags, written, took, landing, since, known, crossing, overlap,
                   setting, getting>>

\* getByPath(path) lists the hard tags to look up.
Cascade(x) == {<<"tag", row[1]>> : row \in {w \in Rows : w[2] = x /\ w[1] \in HardTags}}

\* getByPath of a path, or getByTag of a hard tag that one of the paths has.
LookUpRows(r) ==
    /\ reval[r] = "looking"
    /\ \E x \in lookups[r] :
        /\ lookups' = [lookups EXCEPT ![r] = (@ \ {x}) \cup (IF x[1] = "path" THEN Cascade(x[2]) ELSE {})]
        /\ inserts' = [inserts EXCEPT ![r] = @ \cup (IF x[1] = "tag" THEN {w \in Rows : w[1] = x[2]} ELSE {})]
    /\ UNCHANGED <<mode, instant, store, tagCache, reval, revalTags, todo, written, took, landing, since, known, lost,
                   crossing, overlap, setting, getting, faults>>

\* getTagKey: the rows that this request has not written yet.
Fresh(r) == inserts[r] \ written[r]

AfterTag(r) == IF todo[r] = {} THEN "done" ELSE "next"

\* writeTags(toInsert): the rows to write are marked as written and get one
\* Date.now() before they are sent.  The purge of the CDN that may follow is
\* not followed.
PrepareRows(r) ==
    /\ reval[r] = "looking"
    /\ lookups[r] = {}
    /\ written' = [written EXCEPT ![r] = @ \cup inserts[r]]
    /\ landing' = [landing EXCEPT ![r] = Fresh(r)]
    /\ took' = [took EXCEPT ![r] = instant]
    /\ reval' = [reval EXCEPT ![r] = IF Fresh(r) = {} THEN AfterTag(r) ELSE "landing"]
    /\ crossing' = crossing \cup (Landing \X {r})
    /\ UNCHANGED <<mode, instant, store, tagCache, revalTags, todo, lookups, inserts, since, known, lost,
                   overlap, setting, getting, faults>>

\* Some of the rows are written, as the chunks of a DynamoDB batch are.
WriteRows(r) ==
    /\ reval[r] = "landing"
    /\ \E ws \in SUBSET landing[r] \ {{}} :
        /\ rows' = Stamp(ws, took[r])
        /\ landing' = [landing EXCEPT ![r] = @ \ ws]
        /\ reval' = [reval EXCEPT ![r] = IF ws = landing[r] THEN AfterTag(r) ELSE "landing"]
    /\ UNCHANGED <<mode, instant, store, times, revalTags, todo, lookups, inserts, written, took, since, known, lost,
                   crossing, overlap, setting, getting, faults>>

\* A read of the DynamoDB tag caches fails and is taken for an empty list.
LookUpFails(r) ==
    /\ Fault
    /\ reval[r] = "looking"
    /\ lost' = lost \cup {r}
    /\ \E x \in lookups[r] : lookups' = [lookups EXCEPT ![r] = @ \ {x}]
    /\ UNCHANGED <<mode, instant, store, tagCache, reval, revalTags, todo, inserts, written, took, landing, since, known,
                   crossing, overlap, setting, getting>>

\* Some of the writes under way fail, while the others may still land.  The
\* DynamoDB tag caches take that for a success, and writtenTags has the rows
\* all the same.
WritesLost(r) ==
    /\ Fault
    /\ lost' = lost \cup {r}
    /\ \/ /\ reval[r] = "stamping"
          /\ \E ts \in SUBSET todo[r] \ {{}} :
              /\ todo' = [todo EXCEPT ![r] = @ \ ts]
              /\ reval' = [reval EXCEPT ![r] = IF ts = todo[r] THEN "done" ELSE "stamping"]
          /\ UNCHANGED landing
       \/ /\ reval[r] = "landing"
          /\ \E ws \in SUBSET landing[r] \ {{}} :
              /\ landing' = [landing EXCEPT ![r] = @ \ ws]
              /\ reval' = [reval EXCEPT ![r] = IF ws = landing[r] THEN AfterTag(r) ELSE "landing"]
          /\ UNCHANGED todo
    /\ UNCHANGED <<mode, instant, store, tagCache, revalTags, lookups, inserts, written, took, since, known,
                   crossing, overlap, setting, getting>>

\* The D1 and KV tag caches throw, or the call to the handler is lost.
RevalidationFails(r) ==
    /\ Fault
    /\ r \in Revalidating
    /\ reval' = [reval EXCEPT ![r] = "failed"]
    /\ UNCHANGED <<mode, instant, store, tagCache, revalTags, todo, lookups, inserts, written, took, landing, since, known,
                   lost, crossing, overlap, setting, getting>>

----------------------------------------------------------------------------
(* get(key) *)

\* handleGet reads the entry.  A miss leaves no trace.
ReadEntry(g, k) ==
    /\ get[g] = "idle"
    /\ store[k] # Missing
    /\ getKey' = [getKey EXCEPT ![g] = k]
    /\ found' = [found EXCEPT ![g] = store[k]]
    /\ past' = [past EXCEPT ![g] = {r \in Revalidations : reval[r] = "done"}]
    /\ get' = [get EXCEPT ![g] = "checking"]
    /\ UNCHANGED <<mode, instant, store, tagCache, unchecked, setting, revalidating, overlap, faults>>

\* The rows of the page are looked at too, for a fetch without hard tags.
PathToo(k) == SoftOf[k] # {} /\ TagsOf[k] \cap HardTags = {}
KeysChecked(k) == IF PathToo(k) THEN {k, PathOf[k]} ELSE {k}

\* Mutant: the soft tags of the get are left out.
RevalidatedHard(k, at) ==
    IF mode = "nextMode" THEN \E t \in TagsOf[k] : times[t] > at
    ELSE \E t \in AllTags : rows[t][k] > at
\* checkTagRevalidation: hasBeenRevalidated(tags) or getLastModified(key) = -1.
Revalidated(k, at) ==
    IF mode = "nextMode" THEN \E t \in TagsOf[k] \cup SoftOf[k] : times[t] > at
    ELSE \E t \in AllTags : rows[t][k] > at

\* Mutant: the answer to a miss does not end the get.
MissGoesOn(g) ==
    /\ UNCHANGED <<get, getKey, past>>
    /\ found' = [found EXCEPT ![g] = Missing]
Miss(g) ==
    /\ get' = [get EXCEPT ![g] = "idle"]
    /\ getKey' = [getKey EXCEPT ![g] = SomeKey]
    /\ found' = [found EXCEPT ![g] = Missing]
    /\ past' = [past EXCEPT ![g] = {}]

\* What follows a check that found nothing.
AfterCheck(g) ==
    IF get[g] = "checking" /\ mode = "original" /\ PathToo(getKey[g]) THEN "checkingPath" ELSE "hit"

CheckTags(g) ==
    /\ get[g] = "checking"
    /\ IF Revalidated(getKey[g], found[g].at) THEN Miss(g)
       ELSE /\ get' = [get EXCEPT ![g] = AfterCheck(g)]
            /\ UNCHANGED <<getKey, found, past>>
    /\ UNCHANGED <<mode, instant, store, tagCache, unchecked, setting, revalidating, overlap, faults>>

CheckPath(g) ==
    /\ get[g] = "checkingPath"
    /\ IF Revalidated(PathOf[getKey[g]], found[g].at) THEN Miss(g)
       ELSE /\ get' = [get EXCEPT ![g] = "hit"]
            /\ UNCHANGED <<getKey, found, past>>
    /\ UNCHANGED <<mode, instant, store, tagCache, unchecked, setting, revalidating, overlap, faults>>

\* The tag cache fails.  D1, KV and DynamoDB in original mode answer that
\* nothing was revalidated.
CheckFailsSilently(g) ==
    /\ Fault
    /\ get[g] \in {"checking", "checkingPath"}
    /\ get' = [get EXCEPT ![g] = AfterCheck(g)]
    /\ unchecked' = unchecked \cup {g}
    /\ UNCHANGED <<mode, instant, store, tagCache, getKey, found, past, setting, revalidating, overlap>>

\* DynamoDB in nextMode throws; the adapter answers null to any error.
CheckThrows(g) ==
    /\ Fault
    /\ get[g] \in {"checking", "checkingPath"}
    /\ Miss(g)
    /\ UNCHANGED <<mode, instant, store, tagCache, unchecked, setting, revalidating, overlap>>

PagesTick ==
    /\ instant < MaxInstant
    /\ instant' = instant + 1
    /\ UNCHANGED <<mode, store, tagCache, setting, revalidating, overlap, getting, faults>>

PagesNext ==
    \/ \E s \in Sets, k \in Keys : Render(s, k) \/ DeleteEntry(s, k)
    \/ \E s \in Sets : StoreEntry(s) \/ StoreFails(s) \/ ListTags(s) \/ TagEntry(s) \/ TagEntryFails(s)
    \/ \E r \in Revalidations, ts \in SUBSET AllTags \ {{}} : RevalidateTags(r, ts)
    \/ \E r \in Revalidations :
          \/ TakeTime(r) \/ StampTags(r)
          \/ NextTag(r) \/ LookUpRows(r) \/ PrepareRows(r) \/ WriteRows(r)
          \/ LookUpFails(r) \/ WritesLost(r) \/ RevalidationFails(r)
    \/ \E g \in Gets, k \in Keys : ReadEntry(g, k)
    \/ \E g \in Gets : CheckTags(g) \/ CheckPath(g) \/ CheckFailsSilently(g) \/ CheckThrows(g)
    \/ PagesTick

PagesSpec == PagesInit /\ [][PagesNext]_pageVars

----------------------------------------------------------------------------
(* Properties *)

\* The keys a revalidation is to reach.  Of a path, in original mode, also the
\* keys that share a hard tag with it, and the fetches without hard tags that it
\* makes.
Reached(r) ==
    IF mode = "nextMode"
    THEN {k \in Keys : (TagsOf[k] \cup SoftOf[k]) \cap revalTags[r] # {}}
    ELSE {k \in Keys :
            \/ TagsOf[k] \cap revalTags[r] # {}
            \/ \E t \in revalTags[r] \cap SoftTags, p \in Keys, h \in HardTags :
                  {<<t, p>>, <<h, p>>, <<h, k>>} \subseteq known[r]
            \/ \E t \in revalTags[r] : \E p \in KeysChecked(k) : <<t, p>> \in known[r]}

\* The revalidation q started before r, was still writing when r took its time,
\* and both are about one tag or row: q may put its earlier time over r's.
Outruns(q, r) ==
    /\ <<q, r>> \in crossing
    /\ since[q] < since[r]
    /\ IF mode = "nextMode" THEN revalTags[q] \cap revalTags[r] # {} ELSE written[q] \cap written[r] # {}

\* A get that starts after a revalidation of its key has returned does not
\* answer an entry that was rendered from older data, unless a set of the key
\* overlapped the revalidation, the entry was written in the instant of the
\* revalidation, an earlier revalidation was still writing its earlier time, or
\* the tag cache failed without an error.
StaleOnlyByOverlap ==
    \A g \in Gets : get[g] = "hit" =>
        \A r \in past[g] \ found[g].sees :
            getKey[g] \in Reached(r) =>
                \/ \E s \in Sets : setKey[s] \in KeysChecked(getKey[g]) /\ (<<r, s>> \in overlap \/ s \in untagged)
                \/ found[g].at >= since[r]
                \/ \E q \in Revalidations : Outruns(q, r)
                \/ r \in lost
                \/ g \in unchecked

\* A time that a revalidation recorded becomes an earlier one only by a write of
\* a revalidation that was writing when the one that recorded it took the time,
\* or by a set of the key that overlapped a revalidation, or that a tag cache
\* failed silently.
RevalidationsKept ==
    [][\A t \in AllTags :
        /\ times'[t] < times[t] =>
              \E q, p \in Revalidations : <<q, p>> \in crossing /\ t \in todo[q] /\ t \in revalTags[p] \ todo[p]
        /\ \A k \in Keys : rows'[t][k] < rows[t][k] =>
              \/ \E q, p \in Revalidations :
                    <<q, p>> \in crossing /\ <<t, k>> \in landing[q] /\ <<t, k>> \in written[p] \ landing[p]
              \/ \E s \in Sets : set[s] = "tagging" /\ setKey[s] = k
                             /\ (s \in untagged \/ \E r \in Revalidations : <<r, s>> \in overlap)]_pageVars

PagesTypeOK ==
    /\ mode \in {"nextMode", "original"}
    /\ instant \in 2 .. MaxInstant
    /\ store \in [Keys -> Entry \cup {Missing}]
    /\ times \in [AllTags -> 0 .. MaxInstant]
    /\ rows \in [AllTags -> [Keys -> 0 .. MaxInstant]]
    /\ set \in [Sets -> {"idle", "rendered", "listing", "tagging", "done"}]
    /\ setKey \in [Sets -> Keys]
    /\ sees \in [Sets -> SUBSET Revalidations]
    /\ unlisted \in [Sets -> SUBSET AllTags]
    /\ untagged \subseteq Sets
    /\ reval \in [Revalidations -> {"idle", "next", "looking", "landing", "writing", "stamping", "done", "failed"}]
    /\ revalTags \in [Revalidations -> SUBSET AllTags]
    /\ todo \in [Revalidations -> SUBSET AllTags]
    /\ inserts \in [Revalidations -> SUBSET PageRows]
    /\ written \in [Revalidations -> SUBSET PageRows]
    /\ took \in [Revalidations -> 0 .. MaxInstant]
    /\ landing \in [Revalidations -> SUBSET PageRows]
    /\ known \in [Revalidations -> SUBSET PageRows]
    /\ since \in [Revalidations -> 0 .. MaxInstant]
    /\ lost \subseteq Revalidations
    /\ crossing \subseteq Revalidations \X Revalidations
    /\ overlap \subseteq Revalidations \X Sets
    /\ get \in [Gets -> {"idle", "checking", "checkingPath", "hit"}]
    /\ getKey \in [Gets -> Keys]
    /\ found \in [Gets -> Entry \cup {Missing}]
    /\ past \in [Gets -> SUBSET Revalidations]
    /\ unchecked \subseteq Gets
    /\ faults \in 0 .. MaxFaults
    /\ \A g \in Gets : get[g] # "idle" => found[g] # Missing

=============================================================================
