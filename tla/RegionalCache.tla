--------------------------- MODULE RegionalCache ---------------------------
(***************************************************************************)
(* The regional cache in front of an incremental cache:                    *)
(* packages/cloudflare/src/api/overrides/incremental-cache/                *)
(* regional-cache.ts over r2-incremental-cache.ts, for one key in one      *)
(* region.  Entries are numbered in the order in which they are written.   *)
(*                                                                         *)
(* With automatic purges a hit is answered without a look at the tag cache *)
(* and not refreshed; without them it is the other way around.  A fill and *)
(* a refresh put the entry in waitUntil, after the answer.                 *)
(***************************************************************************)
EXTENDS Integers

CONSTANTS
    RegionalOps, \* slots for calls of get, set, delete and revalidateTag
    MaxEntries   \* bound: entries written

ASSUME EntriesAssumption == MaxEntries \in Nat

VARIABLES
    purges,    \* isPurgeCacheEnabled()
    stored,    \* the entry in the bucket, or 0
    region,    \* the entry in the Cache API, or 0
    entries,   \* the entries written so far
    revalidated, \* the last entry that a revalidation made stale
    op,        \* what is left of the call in a slot
    carried,   \* the entry it is going to put
    races,     \* history: how the bucket changed since a slot has its entry
    flaws,     \* history: why the region may be behind the bucket
    refilled   \* history: the region was filled with a revalidated entry

regionVars == <<purges, stored, region, entries, revalidated, op, carried, races, flaws, refilled>>

RegionalInit ==
    /\ purges \in BOOLEAN
    /\ stored = 0
    /\ region = 0
    /\ entries = 0
    /\ revalidated = 0
    /\ op = [o \in RegionalOps |-> "idle"]
    /\ carried = [o \in RegionalOps |-> 0]
    /\ races = [o \in RegionalOps |-> {}]
    /\ flaws = {}
    /\ refilled = FALSE

\* The bucket changes while other slots carry an entry.
RacesWith(o, why) ==
    [p \in RegionalOps |-> IF p # o /\ op[p] \in {"putting", "reading"} THEN races[p] \cup {why} ELSE races[p]]

----------------------------------------------------------------------------

\* set: store.set, then the entry is to be put with the time of now.  An error
\* of R2 is swallowed there, so that the entry is put all the same.
SetInBucket(o) ==
    /\ op[o] = "idle"
    /\ entries < MaxEntries
    /\ entries' = entries + 1
    /\ op' = [op EXCEPT ![o] = "putting"]
    /\ carried' = [carried EXCEPT ![o] = entries']
    /\ \/ /\ stored' = entries'
          /\ races' = [RacesWith(o, "write") EXCEPT ![o] = {}]
       \/ /\ stored' = stored
          /\ races' = [races EXCEPT ![o] = {"unsaved"}]
    /\ UNCHANGED <<purges, region, revalidated, flaws, refilled>>

\* The bucket is written or emptied through another region.
ChangeElsewhere ==
    /\ \/ entries < MaxEntries /\ entries' = entries + 1 /\ stored' = entries'
       \/ stored # 0 /\ stored' = 0 /\ UNCHANGED entries
    /\ races' = [p \in RegionalOps |-> IF op[p] \in {"putting", "reading"} THEN races[p] \cup {"elsewhere"} ELSE races[p]]
    /\ flaws' = flaws \cup {"elsewhere"}
    /\ UNCHANGED <<purges, region, revalidated, op, carried, refilled>>

\* get, with a hit: without purges the bucket is going to be read again.
Hit(o) ==
    /\ op[o] = "idle"
    /\ region # 0
    /\ ~purges
    /\ op' = [op EXCEPT ![o] = "reading"]
    /\ UNCHANGED <<purges, stored, region, entries, revalidated, carried, races, flaws, refilled>>

\* get, without a hit, or what a hit left to do: store.get.
ReadBucket(o) ==
    /\ \/ op[o] = "reading"
       \/ op[o] = "idle" /\ region = 0
    /\ op' = [op EXCEPT ![o] = IF stored = 0 THEN "idle" ELSE "putting"]
    /\ carried' = [carried EXCEPT ![o] = stored]
    /\ races' = [races EXCEPT ![o] = {}]
    /\ UNCHANGED <<purges, stored, region, entries, revalidated, flaws, refilled>>

\* The slot is free for another call.
Finish(o) ==
    /\ op' = [op EXCEPT ![o] = "idle"]
    /\ carried' = [carried EXCEPT ![o] = 0]
    /\ races' = [races EXCEPT ![o] = {}]

\* putToCache
PutInRegion(o) ==
    /\ op[o] = "putting"
    /\ region' = carried[o]
    /\ flaws' = races[o]
    /\ refilled' = (carried[o] <= revalidated)
    /\ Finish(o)
    /\ UNCHANGED <<purges, stored, entries, revalidated>>

\* The Cache API fails; the entry it has stays.
PutFails(o) ==
    /\ op[o] = "putting"
    /\ flaws' = flaws \cup {"failed"}
    /\ Finish(o)
    /\ UNCHANGED <<purges, stored, region, entries, revalidated, refilled>>

\* delete: store.delete, then cache.delete.
DeleteInBucket(o) ==
    /\ op[o] = "idle"
    /\ stored' = 0
    /\ races' = RacesWith(o, "delete")
    /\ op' = [op EXCEPT ![o] = "deleting"]
    /\ UNCHANGED <<purges, region, entries, revalidated, carried, flaws, refilled>>

\* revalidateTag of a tag of the key with the automatic purge: the tag cache is
\* written, then the CDN is called.
RevalidateKey(o) ==
    /\ op[o] = "idle"
    /\ purges
    /\ revalidated' = entries
    /\ op' = [op EXCEPT ![o] = "purging"]
    /\ UNCHANGED <<purges, stored, region, entries, carried, races, flaws, refilled>>

\* Mutant: a delete leaves the region's entry.
KeepRegion(o) == op[o] = "purging"
\* Mutant: the purge names tags that the region's entry does not have.
KeepPurged(o) == op[o] = "deleting"
DropsRegion(o) == op[o] \in {"deleting", "purging"}

EmptyRegion(o) ==
    /\ op[o] \in {"deleting", "purging"}
    /\ region' = IF DropsRegion(o) THEN 0 ELSE region
    /\ flaws' = IF DropsRegion(o) THEN {} ELSE flaws
    /\ refilled' = IF DropsRegion(o) THEN FALSE ELSE refilled
    /\ op' = [op EXCEPT ![o] = "idle"]
    /\ UNCHANGED <<purges, stored, entries, revalidated, carried, races>>

\* cache.delete or the purge fails.
EmptyFails(o) ==
    /\ op[o] \in {"deleting", "purging"}
    /\ op' = [op EXCEPT ![o] = "idle"]
    /\ flaws' = flaws \cup {"failed"}
    /\ UNCHANGED <<purges, stored, region, entries, revalidated, carried, races, refilled>>

\* max-age, or an eviction.
Expire ==
    /\ region # 0
    /\ region' = 0
    /\ flaws' = {}
    /\ refilled' = FALSE
    /\ UNCHANGED <<purges, stored, entries, revalidated, op, carried, races>>

RegionalNext ==
    \/ \E o \in RegionalOps :
          \/ SetInBucket(o) \/ Hit(o) \/ ReadBucket(o) \/ PutInRegion(o) \/ PutFails(o)
          \/ DeleteInBucket(o) \/ RevalidateKey(o) \/ EmptyRegion(o) \/ EmptyFails(o)
    \/ ChangeElsewhere
    \/ Expire

RegionalSpec == RegionalInit /\ [][RegionalNext]_regionVars

----------------------------------------------------------------------------
(* Properties *)

RegionalTypeOK ==
    /\ purges \in BOOLEAN
    /\ entries \in 0 .. MaxEntries
    /\ stored \in 0 .. entries
    /\ region \in 0 .. entries
    /\ revalidated \in 0 .. entries
    /\ op \in [RegionalOps -> {"idle", "reading", "putting", "deleting", "purging"}]
    /\ carried \in [RegionalOps -> 0 .. entries]
    /\ races \in [RegionalOps -> SUBSET {"write", "delete", "elsewhere", "unsaved"}]
    /\ flaws \subseteq {"write", "delete", "elsewhere", "unsaved", "failed"}
    /\ refilled \in BOOLEAN

\* When nothing is in flight, the region has nothing or what the bucket has,
\* unless the put crossed a write or a delete of the bucket, the bucket changed
\* through another region since, or a step failed.
BehindOnlyByRace ==
    (\A o \in RegionalOps : op[o] = "idle") => region \in {0, stored} \/ flaws # {}

\* A hit that skips the tag cache is answered with a revalidated entry only
\* before the purge is done, when it failed, or when a put has brought such an
\* entry back: a miss puts what the bucket has before the tag cache is asked.
StaleHitOnlyByRefill ==
    purges /\ region # 0 /\ region <= revalidated =>
        \/ \E o \in RegionalOps : op[o] = "purging"
        \/ "failed" \in flaws
        \/ refilled

=============================================================================
