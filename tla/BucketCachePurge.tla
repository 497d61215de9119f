-------------------------- MODULE BucketCachePurge --------------------------
(***************************************************************************)
(* The buffered CDN purge: the Durable Object BucketCachePurge of          *)
(* packages/cloudflare/src/api/durable-objects/bucket-cache-purge.ts with  *)
(* internalPurgeCacheByTags of ../overrides/internal.ts.                   *)
(*                                                                         *)
(* Revalidations add tags to a table; an alarm purges the table in batches *)
(* with one API call per batch.  A request can be delivered while a call   *)
(* is in flight.  The call takes effect at the CDN at some point between   *)
(* the request and its answer.  When an alarm handler throws, the platform *)
(* runs it again, at most MaxAlarmRetries times; when the object is        *)
(* restarted while the handler runs, it runs it again.                     *)
(***************************************************************************)
EXTENDS Integers, FiniteSets

CONSTANTS
    Tags,
    Limit,           \* MAX_NUMBER_OF_TAGS_PER_PURGE
    MaxAlarmRetries, \* the platform's: 6
    MaxRequests,     \* bound: calls of purgeCacheByTags
    MaxCrashes       \* bound: restarts while the handler runs

ASSUME TagsAssumption == IsFiniteSet(Tags)
ASSUME LimitsAssumption == Limit \in Nat \ {0} /\ MaxAlarmRetries \in Nat
ASSUME BoundsAssumption == MaxRequests \in Nat /\ MaxCrashes \in Nat

VARIABLES
    table,     \* the table cache_purge
    alarm,     \* whether the storage holds an alarm
    pc,        \* the alarm handler: idle, or its API call calling or processed
    batch,     \* the tags of the call in flight
    retries,   \* the platform's count of retries of the handler
    owed,      \* history: tags requested and not purged by the CDN since
    failed,    \* history: owed tags whose purge call failed
    overtaken, \* history: tags requested after the CDN processed the call
               \* that names them and before its answer
    requests,  \* bound
    crashes    \* bound

vars == <<table, alarm, pc, batch, retries, owed, failed, overtaken, requests, crashes>>

Init ==
    /\ table = {}
    /\ alarm = FALSE
    /\ pc = "idle"
    /\ batch = {}
    /\ retries = 0
    /\ owed = {}
    /\ failed = {}
    /\ overtaken = {}
    /\ requests = 0
    /\ crashes = 0

----------------------------------------------------------------------------

\* purgeCacheByTags(tags): insert the tags, and set an alarm unless one is set.
\* While the handler runs getAlarm() returns null unless a request has set one.
PurgeCacheByTags(tags) ==
    /\ requests < MaxRequests
    /\ requests' = requests + 1
    /\ table' = table \cup tags
    /\ alarm' = TRUE
    /\ retries' = IF alarm THEN retries ELSE 0
    /\ owed' = owed \cup tags
    /\ failed' = failed \ tags
    /\ overtaken' = IF pc = "processed" THEN overtaken \cup (tags \cap batch) ELSE overtaken
    /\ UNCHANGED <<pc, batch, crashes>>

\* Mutant: SELECT * FROM cache_purge without the LIMIT.
BatchesUnlimited(t) == {t}
\* SELECT * FROM cache_purge LIMIT: which rows is up to the database.
Batches(t) ==
    IF Cardinality(t) <= Limit THEN {t} ELSE {b \in SUBSET t : Cardinality(b) = Limit}

\* Call the API with the next batch of a table t, or stop when it is empty.
PurgeNext(t) ==
    \E b \in Batches(t) :
        /\ batch' = b
        /\ pc' = IF b = {} THEN "idle" ELSE "calling"

AlarmFires ==
    /\ alarm
    /\ pc = "idle"
    /\ alarm' = FALSE
    /\ PurgeNext(table)
    /\ UNCHANGED <<table, retries, owed, failed, overtaken, requests, crashes>>

\* The CDN drops what it holds under the tags of the call.
CdnPurges ==
    /\ pc = "calling"
    /\ pc' = "processed"
    /\ owed' = owed \ batch
    /\ overtaken' = overtaken \ batch
    /\ UNCHANGED <<table, alarm, batch, retries, failed, requests, crashes>>

\* Mutant: a full batch ends the loop, too.
DeleteAndStop ==
    /\ table' = table \ batch
    /\ pc' = "idle"
    /\ batch' = {}
\* Mutant: every row is deleted, not only those of the batch.
DeleteAllRows ==
    /\ table' = {}
    /\ pc' = "idle"
    /\ batch' = {}
\* Mutant: the DELETE is missing.
DeleteNothing ==
    /\ UNCHANGED table
    /\ IF Cardinality(batch) < Limit THEN pc' = "idle" /\ batch' = {} ELSE PurgeNext(table')
\* Delete the rows of the batch; a batch that is not full ends the loop.
DeleteAndContinue ==
    /\ table' = table \ batch
    /\ IF Cardinality(batch) < Limit THEN pc' = "idle" /\ batch' = {} ELSE PurgeNext(table')

\* purge-success
Purged ==
    /\ pc = "processed"
    /\ DeleteAndContinue
    /\ retries' = IF pc' = "idle" THEN 0 ELSE retries
    /\ UNCHANGED <<alarm, owed, failed, overtaken, requests, crashes>>

\* purge-failed: an error of the API, or the call or its answer was lost;
\* or missing-credentials.
PurgeFailed ==
    /\ pc # "idle"
    /\ DeleteAndContinue
    /\ failed' = failed \cup (owed \cap batch)
    /\ retries' = IF pc' = "idle" THEN 0 ELSE retries
    /\ UNCHANGED <<alarm, owed, overtaken, requests, crashes>>

\* rate-limit-exceeded: the handler throws.  An alarm set meanwhile replaces
\* the retry.
RateLimited ==
    /\ pc = "calling"
    /\ pc' = "idle"
    /\ batch' = {}
    /\ alarm' = (alarm \/ retries < MaxAlarmRetries)
    /\ retries' = IF ~alarm /\ retries < MaxAlarmRetries THEN retries + 1 ELSE 0
    /\ UNCHANGED <<table, owed, failed, overtaken, requests, crashes>>

\* The object restarts while the handler runs.
Crash ==
    /\ crashes < MaxCrashes
    /\ crashes' = crashes + 1
    /\ pc # "idle"
    /\ pc' = "idle"
    /\ batch' = {}
    /\ alarm' = TRUE
    /\ UNCHANGED <<table, retries, owed, failed, overtaken, requests>>

Next ==
    \/ \E tags \in SUBSET Tags \ {{}} : PurgeCacheByTags(tags)
    \/ AlarmFires
    \/ CdnPurges
    \/ Purged
    \/ PurgeFailed
    \/ RateLimited
    \/ Crash

Spec == Init /\ [][Next]_vars

\* The platform runs a due alarm, and a call to the API is answered or fails.
Fairness == WF_vars(AlarmFires) /\ WF_vars(Purged \/ PurgeFailed \/ RateLimited)

FairSpec == Spec /\ Fairness

----------------------------------------------------------------------------
(* Properties *)

\* An API call names at least one tag and at most as many as the API allows.
TypeOK ==
    /\ table \subseteq Tags
    /\ alarm \in BOOLEAN
    /\ pc \in {"idle", "calling", "processed"}
    /\ batch \subseteq Tags
    /\ Cardinality(batch) <= Limit
    /\ pc = "idle" <=> batch = {}
    /\ retries \in 0 .. MaxAlarmRetries
    /\ owed \subseteq Tags
    /\ failed \subseteq Tags
    /\ overtaken \subseteq Tags
    /\ requests \in 0 .. MaxRequests
    /\ crashes \in 0 .. MaxCrashes

\* What is in the table will be looked at: an alarm is set or the handler runs.
Scheduled == table = {} \/ alarm \/ pc # "idle"

\* The table is left without an alarm only by an API that rate limits the last
\* retry of the platform; neither the exit of the loop after a batch, nor a
\* request that arrives while the handler runs, nor a restart strands a tag.
StrandedOnlyByRateLimit ==
    [][Scheduled /\ ~Scheduled' => RateLimited /\ retries = MaxAlarmRetries]_vars

\* A tag that was requested and not purged is in the table, unless its purge
\* failed or the request came too late in the call that names it.
OwedIsBuffered == owed \subseteq table \cup failed \cup overtaken

\* Every tag in the table leaves it, unless the platform stops retrying.
TableDrains == \A t \in Tags : t \in table ~> t \notin table \/ ~Scheduled

Buffer == INSTANCE PurgeBuffer WITH
    PurgeTags <- Tags, MaxTags <- Limit, stale <- owed, waiting <- table, called <- batch

\* The object is a buffer of purges: whatever the alarm, its retries and restarts
\* do, a tag leaves the table only when a call that named it was answered, and a
\* call names as many tags of the table as it can.
ImplementsBuffer == Buffer!BufferSpec

\* "should continue until all tags are purged": a tag that was requested and
\* not purged is in the table, unless its purge failed.
NoPurgeLost == owed \subseteq table \cup failed

=============================================================================
