# Verification of the OpenNext adapters

TLA+ models of `opennextjs/adapters-api`, the adapters that run a Next.js build
on serverless platforms. TLC checks the models on small instances; TLAPS proves
the theorems of the `*Proofs` modules for every value of the constants.
`PROJECT.json` lists components, runs, mutants, theorems, findings, hazards, and
the source lines every definition stands for.

    tlc -config Caches.cfg MCCaches.tla
    tlapm PageCacheProofs.tla

## 1. Inventory

A project is set up and *built* once, and *deployed*. A request of the deployed
application passes through the *routing pipeline*
(`core/src/core/routingHandler.ts`), may be answered from the cache by the
*cache interceptor*, and otherwise reaches the *request handler*, which runs
Next.js. Next.js reads and writes its cache through the *core cache adapter*,
which stores entries in an *incremental cache* and the times at which tags were
revalidated in a *tag cache*. A stale page makes the interceptor or the server
send a message to the *queue*, which fetches the page with a revalidation header,
and that request writes a new entry. `revalidateTag` writes the tag cache and
purges the CDN.

| component | state | operations | interacts through | hard behaviour |
|---|---|---|---|---|
| ISR revalidation queue (`cloudflare/src/api/durable-objects/queue.ts`) | map of ongoing promises, map of failed routes, tables `failed_state` and `sync`, an alarm | `revalidate`, `executeRevalidation`, `alarm`, `addToFailedState`, `addAlarm`, `initState` | messages from workers, HEAD requests to the worker, storage, the alarm | calls interleave at every fetch; blocked calls; retries with backoff; restarts |
| buffered CDN purge (`bucket-cache-purge.ts`, `overrides/internal.ts`) | table `cache_purge`, an alarm | `purgeCacheByTags`, `alarm`, `internalPurgeCacheByTags` | calls from the cache adapter, the purge API | requests during a purge, rate limits, bounded retries of the platform |
| sharded tag cache (`do-sharded-tag-cache.ts`, `sharded-tag-cache.ts`) | a table per replica of a shard, a regional cache, a dead letter queue | `getLastRevalidated`, `hasBeenRevalidated`, `writeTags`, the regional cache's get, put and delete | Durable Object calls, the Cache API, `waitUntil` | partly failed replicated writes, retries out of order, background puts |
| core cache adapter with the D1, KV, DynamoDB and file tag caches (`core/src/adapters/cache.ts`, `cache-handler.ts`, `utils/cache.ts`) | entries, times of tags or rows of tags and keys, tags written in a request | `get`, `set`, `revalidateTag` | incremental cache, tag cache, CDN | a render that overlaps a revalidation; the reads and writes of rows; silent failures |
| regional cache (`regional-cache.ts`) over the incremental cache | bucket, the Cache API | `get`, `set`, `delete`, purge on `revalidateTag` | `waitUntil`, other regions | background puts against writes, deletes and purges |
| composable cache (`composable-cache.ts`) | map of pending writes, entries | `get`, `set` | streams of entries | readers that wait for a pending write; streams that end out of order |
| multi-tier cache (`aws/.../multi-tier-ddb-s3.ts`) | a local cache per instance, DynamoDB, S3 | `get`, `set`, `delete` | three stores, one after the other | instances that compare times; a TTL; partly failed writes |
| memory queue, queue cache | a map of messages, local and regional caches of sent messages | `send` | the queue, the Cache API, HEAD | a message cached, then lost |
| cache interceptor, ISR triggers (`core/routing/util.ts`) | none | `cacheInterceptor`, `revalidateIfRequired` | cache, queue | errors while a cached answer is made |
| request context (`utils/promise.ts`, `requestHandler.ts`) | pending promises of a request | `add`, `withResolvers`, `await`, `after` | `waitUntil`, globals of the isolate | a promise added while the others are awaited; contexts of other requests |
| routing pipeline (`routingHandler.ts`, `adapters/middleware.ts`, `adapterHandler.ts`) | a request on its way | routing, middleware, rewriting, proxy, error pages | one after the other | a way out that forgets a header, a body or an answer |
| streaming response (`openNextResponse.ts`) | headers, cookies, whether the head was sent | Node's response methods | Next.js, in any order | cookies merged with the head, errors after it |
| image optimization (`templates/images.ts`) | a request on its way | fetch with redirects, transform | assets, another server, the IMAGES binding | failures between fetch and answer |
| build (`core/src/build`, `cloudflare/src/cli/build`) | the output directory | the jobs of a build | files | a build after one that failed halfway; callbacks nobody awaits |
| CLI (`migrate`, `build`, `deploy`, `upload`, `skew-protection`) | files of the project, buckets, versions of a worker | the commands | files, Wrangler, the Cloudflare API | an interruption between two writes; deployments at the same time |
| worker templates (`templates/worker.ts`, `init.ts`) | what the requests of an isolate share | `fetch`, the cache's entry point | globals | a first request that initializes for the others |
| converters, wrappers, resolvers, plugins, AWS functions | none across requests | one event or one file | I/O | see *Not modelled* |

What makes the modelled components correct:

* **Queue.** What the map of ongoing revalidations says is really running, and it
  stays within its limit; a blocked call is served; a failed route is retried, or
  is given up after its retries; a crash loses no failed route; a message is
  dropped only when it is redundant.
* **Purge.** A requested tag is purged after the request, unless the API fails;
  the table drains; only the bounded retries of the platform can leave it full.
* **Tag caches.** A read that starts after a write returned sees it; retries do
  not set a time back; nothing is reported as revalidated that was not.
* **Caches of entries.** Nobody is answered an entry that was replaced or
  revalidated before he asked. Every cache breaks this in some race or failure,
  and the property of each names them: there is no other.
* **ISR loop.** A page that is stale and asked for is rendered again.
* **A request.** It is answered once, with the headers and cookies it was given;
  both halves of a split body are settled; work that outlives it is waited for.
* **Build.** What is shipped is of this build and complete, or the build fails.
* **CLI.** However commands are interrupted, repeated or run at the same time, the
  configuration agrees with itself, a version finds its cache, and a client is
  served by the deployment it asked for.

## 2. Modules

| module | models | proofs |
|---|---|---|
| `RevalidationQueue` | `DOQueueHandler`, all of its handlers and its restart | `RevalidationQueueProofs` |
| `BucketCachePurge` | `BucketCachePurge` and the outcomes of `internalPurgeCacheByTags` | `BucketCachePurgeProofs` |
| `PurgeBuffer` | abstract: what a buffer of purges promises | `BucketCachePurgeProofs` |
| `ShardedTagCache` | `ShardedDOTagCache` and the object `DOShardedTagCache` | `ShardedTagCacheProofs` |
| `PageCache` | the core cache adapter, with tag caches of both kinds | `PageCacheProofs` |
| `RegionalCache` | the regional cache over R2 | `CachesProofs` |
| `ComposableCache` | the cache of "use cache" | `CachesProofs` |
| `MultiTierCache` | local cache, DynamoDB and S3 | `CachesProofs` |
| `Deployment` | `deploy`, `upload`, populating the cache, skew protection | `DeploymentProofs` |
| `IsrLoop` | stale page, queue cache, memory queue, HEAD | `RequestsProofs` |
| `RequestContext` | the background promises of one request | `RequestsProofs` |
| `RequestPipeline` | a request from the routing handler to its answer | `RequestsProofs` |
| `NodeResponse` | the cookies of a response | `RequestsProofs` |
| `ImageRequest` | an image request to the Cloudflare worker | `RequestsProofs` |
| `Build` | the builds of the three adapters | `WorkerProofs` |
| `ProjectSetup` | `migrate` and `build` on the files of a project | `WorkerProofs` |
| `WorkerIsolate` | the requests of one isolate of the worker | `WorkerProofs` |
| `MCRevalidationQueue`, `MCBucketCachePurge`, `MCShardedTagCache` | instances for TLC | |
| `MCCaches`, `MCRequests`, `MCWorker` | components side by side for TLC | `CachesProofs`, `RequestsProofs`, `WorkerProofs` |

`MCCaches`, `MCRequests` and `MCWorker` extend several components and choose one of
them in the variable `part`: a behaviour of the run is a behaviour of that
component, while the variables of the others stay in one initial state. This
checks each component on its own and says nothing of their interaction; that the
run's behaviours are behaviours of each component is proved (`CachesApart`,
`RequestsApart`, `WorkerApart`). Where
components interact, one module has both: `IsrLoop` (queue cache, memory queue,
request), `PageCache` (adapter, incremental cache, tag cache), `RegionalCache`
(bucket, Cache API, purge), `WorkerIsolate` (requests and cache calls),
`ProjectSetup` (migrate and build).

### The queue

A Durable Object is single threaded. An `await` on its own storage keeps its
input gate closed, so no event is delivered; an `await` on a fetch does not. One
action is therefore what runs between two points at which an event can be
delivered. `addToFailedState` awaits only storage, so changing the map, writing
the row and setting the alarm are one action (`Fail`).

| code | model |
|---|---|
| `ongoingRevalidations` | `ongoing`: for each id the call whose promise the map holds |
| `routeInFailedState`, table `failed_state` | `failed`, `rows`; a retry count of 0 is a missing entry |
| table `sync` | `sync`: the second of the last success of a route |
| `revalidate` | `Ignore` (early returns), `Accept`, `Block`, `Resume` (one round of the `while`) |
| `executeRevalidation` | `Succeed`, `GiveUp` (other 200, 404), `Fail`, `Exhaust` (500, other, error, timeout), then `Settle` after the body's cancellation |
| `alarm` | `AlarmFires` (the batch), `AlarmNext` (a round of the `for`) |
| constructor, `initState` | `Restart`, by the same build or another |

`waiting` calls hold the promises they race on (`race`), not the map: the map can
change while they wait. The continuation of a settled promise runs before any
event (`Quiet`). An upcoming event is put first by a sort that leaves ties open
(`NextToRetry`); the order of the rest of the batch is left open too.

### The purge

`PurgeCacheByTags` is a request; `AlarmFires`, `Purged`, `PurgeFailed` and
`RateLimited` are the pieces of `alarm()` between its awaits. `CdnPurges` is the
moment at which the CDN drops its entries, somewhere between the request to the
API and its answer; an answer that is lost is a `PurgeFailed` after it. Which rows
`SELECT ... LIMIT` returns is left open. `Crash` restarts the object while the
handler runs. `owed`, `failed` and `overtaken` are history: what was requested and
not purged since, and why it may not be in the table.

`PurgeBuffer` has no alarm, no retries and no restart: tags wait, one call at a
time names as many of them as a call can, and those it named wait no more when it
is answered. `ImplementsBuffer` states that the object implements it, with the
rows of the table as the waiting tags and the batch in flight as the call.

### The sharded tag cache

An object is a pair of a shard and a replica, and keeps one `table`. A writer is a
call of `writeTags`; it makes one call to every replica of the shards of its tags
at the same time, and each of these advances on its own.

| code | model |
|---|---|
| `writeTags` | `WriteTags` (one time, all calls), `WriteReturns` |
| `performWriteTagsWithRetry` | `WriteApplied`, or `WriteFails`: the error comes before or after the object ran the write; retry or give up |
| `deleteRegionalCache` | `DeleteRegional`; any of the entries may stay |
| `getFromRegionalCache` | part of `LookUp`, which answers when the cache suffices |
| the object's `hasBeenRevalidated`, `getLastRevalidated` | `AnswerHas`, `AnswerLast`, `LookUpFails` |
| `putToRegionalCache` in `waitUntil` | `FetchTimes`, then `Put` of each tag, or `PutFails` |
| `max-age`, eviction | `Tick`, `Evict` |

A *lookup* is the part of a read that asks one object. The read combines its
lookups with `some` or `Math.max`, and answers false or 0 when one of them fails,
so what holds of lookups carries over to the reads whose lookups all answer. A
slot for lookups is used again as soon as its background work ends.

The regional cache has one key for a tag in a shard, whichever replica filled it.
`before`, `past`, `outlived` and `crossed` are history: which writers were done when
a writer or a lookup started, and which deletions an entry or a fetched time
escaped. They name the exceptions of the properties:

* `NewestWriteWins`: a replica that a write reached has the write's time or a later
  one, unless an older write of the tag was in flight when the write started.
* `FinishedWritesSeen`: a lookup overlooks a finished write only if the write was
  given up at the object it asks, was set back by an older one, or, for
  `getLastRevalidated` alone, the regional cache held the tag.
* `StaleOnlyByRace`: an entry is older than a write that deleted it only if the
  deletion failed, or the time was fetched before and put after it. That the
  replicas share keys is harmless: a put between two replicas' deletions is deleted
  by the second.
* `AnswersAreWritten`: no time and no "yes" without a write.

### Pages and tags

`PageCache` has sets, revalidations and gets, each a call that is suspended at
every await. `mode` chooses the kind of tag cache: with `nextMode` a tag has the
time it was last revalidated at (`times`), in the original mode there is a row for
a tag and a key (`rows`), 1 in a row that a set wrote. Keys have *hard* tags, which
their entry carries, and *soft* ones, which `get` is given; a page, a fetch it
makes with a tag, and one without, tell them apart.

| code | model |
|---|---|
| Next.js renders, then `cache.set` | `Render` (what data the render sees), `StoreEntry`, `StoreFails`, `DeleteEntry` |
| `updateTagsOnSet` | `ListTags`, then `TagEntry` or `TagEntryFails` |
| `revalidateTag`, nextMode | `RevalidateTags`, `TakeTime` (`Date.now()`), `StampTags` (some of the writes land) |
| `revalidateTag`, original | `RevalidateTags`, `NextTag` (`getByTag`, the rows of its paths), `LookUpRows`, `PrepareRows` (`writeTags` marks what this request has not written yet, and takes the time), `WriteRows` |
| errors the tag cache throws, and those it only logs | `RevalidationFails`, `CheckThrows`; `LookUpFails`, `WritesLost`, `CheckFailsSilently` |
| `get` with `hasBeenRevalidated` or `getLastModified` | `ReadEntry`, `CheckTags`, `CheckPath` (the second look, for a fetch without hard tags) |

Every tag cache takes the time before it awaits its writes, and the last write of a
tag or a row wins, whatever its time: a revalidation that was still writing when
another one took its time may put its earlier time over the other's. `crossing` is
the history of such pairs.

A get is answered stale although a revalidation of its key had returned before it
started, `StaleOnlyByOverlap` says, only if a set of the key overlapped the
revalidation (it renders old data and is stored with the new time, or writes a row
that the revalidation did not see), the entry is of the same instant, an earlier
revalidation of one of its tags was still writing when this one took its time
(`Outruns`), or a tag cache failed and said nothing. `RevalidationsKept` says what sets
a recorded time back: the write of such an earlier revalidation, or that of a set.

### The other caches

`RegionalCache`: a slot of `RegionalOps` is a call with its background work. `Hit`
answers at once and may refresh (`ReadBucket`, `PutInRegion`), a miss reads the
bucket and puts; `SetInBucket`, `DeleteInBucket`, `RevalidateKey` change the bucket
or the tag cache and then put, or empty the region (`EmptyRegion`). Another
region's call is `ChangeElsewhere`. `flaws` and `refilled` record why the region may
be behind. `ComposableCache`: `StartSet`, `StreamEnds`, `StoreComposed` are `set` up to
its two awaits; `StartGet` finds a promise in the map, an entry, or neither.
`MultiTierCache`: a write goes through `StartWrite`, `WriteObject`, `WriteItem` to the
local cache; a get starts in the local cache (`StartRead`) and, when the TTL has
passed, asks the item (`AskItem`), and S3 (`ReadObject`).

### A request and what it leaves behind

`RequestPipeline` follows one request: `stage` is the function it is in, and each
action is one way from a stage to the next. What the configuration, the
application and the stores do is chosen; the response headers of routes and
middleware (`routed`, `headers`), the branch of the body that `tee` keeps for the
handler (`branch`), the heads sent (`heads`) and where an error was thrown
(`thrown`) are followed. `external` tells a middleware of its own, as in Cloudflare's
worker, from one function. `NodeResponse` is the order in which Next.js may call
the response: cookies, heads, and errors after a head. `ImageRequest` follows the
fetches and the answer of an image.

`RequestContext` is one request of any platform: promises are added by the handler
or by other promises, `HandlerEnds` takes the snapshot, `PlatformStops` may stop what
is not awaited. `WorkerIsolate` has several requests that share an isolate: `storage`
is the bundle that last made `globalThis.__openNextAls`, `after` whose `waitUntil` the
global request context gives to `after()`, `origins` what the resolver cached.
A promise there is registered while its part of the request runs; late ones are
`RequestContext`'s.

`IsrLoop`: a send starts when a request finds the page stale (`Request`), looks the
message up in the queue cache (`Match`), puts it there before or after it is sent
(`PutLocal`, `PutRegional`), finds it in the memory queue's map (`Deduplicate`), or
requests HEAD (`RequestHead`), which renders the page, fails or times out.

### Build, set-up, deployment

`Build` knows of a file only which build its oldest input is from (`disk`), and `at`,
the step that comes next. A bundling function is a *job*: files it reads, files it
writes. A step that misses an input fails the build with that cause. There is one
configuration for which this happens: `modifyConfig` falls back to a configuration for
Node when that for the edge does not compile (`core/src/build/adapter.ts:118`), but an
external middleware whose wrapper is Cloudflare's, or has an edge runtime, is bundled
with the edge configuration (`isEdgeRuntime`, `helper.ts:378`). On AWS, with a middleware
on Node and no edge function, nothing else requires the edge configuration, so the
build goes on until the copy of `open-next.config.edge.mjs` fails (`FallsShort`).
`FailsOnlyByTools` says that such a build never succeeds, and that no other one misses
a file. `Rebuild`
starts another build, of a configuration of the same adapter or another, on what the last one left.
`ProjectSetup` has the files that `migrate` and `build` create for the R2 cache and the
rules appended to others, with `Interrupt` between any two writes. `Deployment` has
runs of `deploy` and `upload` that populate the cache, compute a mapping from that of
the last version (`ComputeMapping`) and create a version (`CreateVersion`); runs
overlap, fail, and age out of the list.

## 3. Runs

A run that fails its property is a finding; the others pass. Every property is
broken by at least one small change of the code (the mutants), in its own run: the
instances are large enough for that.

| run | bounds | shows |
|---|---|---|
| `queue_retries` | 2 calls, 2 ids on one route, 1 slot, 2 retries, instants 0 to 6, 4 ticks a second, 1 restart | `RowsCoverFailed`, `AlarmHandlesDue`, `SyncSkipSound` |
| `queue_progress` | 3 calls, 2 ids, 1 slot, instants 0 to 2, no restart | `WaiterNotStuck`, `OngoingIsRunning`, `MapBounded`, and `WaitersServed` under fairness |
| `queue_dedup` | 4 calls, 3 ids, 2 slots | finding: `OngoingDeduped` fails |
| `queue_scheduled` | 3 calls, 3 ids, 3 slots | finding: `FailedIsScheduled` fails |
| `queue_removed` | 2 calls, 2 ids, 1 restart | finding: `RemovedStaysRemoved` fails |
| `purge_lost` | 3 tags, batches of 2 | finding: `NoPurgeLost` fails |
| `sharded_tags` | 2 writers, 1 lookup slot, 1 tag, 2 replicas, 1 retry, 2 instants | `NewestWriteWins`, `FinishedWritesSeen`, `AnswersAreWritten`, `StaleOnlyByRace` |
| `tag_replicas` | 2 writers, 2 replicas, no regional cache | finding: `WritesReachAllReplicas` fails |
| `caches` | below | `CachesTypeOK`; pages: `StaleOnlyByOverlap`, `RevalidationsKept`; region: `BehindOnlyByRace`, `StaleHitOnlyByRefill`; composable: `OlderOnlyByOverlap`; tiers: `LocalStaleOnlyInInstant`; deployment: `RoutedToOwn`, `ForgottenOnlyByRace`, `LiveIsPopulated` |
| `requests` | below | `RequestsTypeOK`; purge: `OwedIsBuffered`, `StrandedOnlyByRateLimit`, `TableDrains`, `ImplementsBuffer`; ISR: `QuietOnlyAfterHead`, `StalePageRendered`; context: `CutOnlyWhenLate`; pipeline: `RoutedHeadersSent`, `BranchSettled`; response: `CookiesSent` |
| `worker` | below | build: `FailsOnlyByTools`, `ShippedIsFresh`, `WorkerComplete`, `OutputResolves`; set-up: `CachingAgrees`; isolate: `OriginsKnown`, `CutOnlyByOthers` |
| `isolate_promises` | 2 requests, 2 hosts | finding: `PromisesAwaited` fails |

Why the bounds are enough:

* `queue_retries` lets a route use all of its retries before and after a restart,
  across a boundary of a second; the smallest retry delays make failed routes due at
  different, equal and past instants. `queue_progress` has two waiters behind one
  slot, which also overlap with a call of their own id.
* `sharded_tags` has an older and a newer write, two replicas to be written at
  different moments, and a lookup whose put can fall between any two of these
  steps; a slot is used for one lookup after the other, so that the first fills the
  cache that the next one finds. Its one tag leaves out a group of which the cache
  has only a part: that case is covered by the theorems, which hold for any tags.
* `caches`, pages: a page, a fetch with its tag and one without, a hard and a soft
  tag; one get, three instants. `PageCache` comes twice: with two sets, one
  revalidation and a failure, so that a set overlaps the revalidation with another
  one behind it (`pages`); and with two revalidations, one set of the page and no
  failure, so that the times of two revalidations cross (`revalidations`). A get starts
  after a revalidation has returned, since it is promised nothing before, and a
  behaviour ends with its answer (`Answers`). The theorems have none of these bounds.
  Region: two slots and three entries, so that a background put can cross a
  write or a delete, and another put. Composable: three sets and two gets. Tiers: two
  instances, two writes, a TTL of one of three instants. Deployment: three runs of
  either command in two environments, one chunk, two listed versions, so that a
  third version makes the first one too old.
* `requests`, purge: three tags in batches of two and three requests, so that a full
  batch is followed by another one, and a tag is requested twice. ISR: two requests
  in two isolates. Context: four promises, so that one that was awaited registers
  another one. Response: a cookie of the middleware and one of the handler, lists of
  two, two heads. Pipeline and image have no bound but two redirects: their state
  is finite.
* `worker`: two builds of any adapter, of which the first may end anywhere, with two
  split functions. The configurations are those that differ from the usual one of
  the adapter in one way, or in two of which one is where the middleware runs, or a
  warning, and those around the one that falls short (`MCSetups`); all combinations are
  too many. Four commands of set-up, so
  that a command finds what two interrupted ones left. Two requests of an isolate
  for two hosts: what one does to the other is a matter of two.

Deadlock is not checked: calls, requests, builds and time are finite, so all runs
stop. Symmetry is used over calls, tags, replicas, sets, functions and requests
where only safety is checked.

### Fairness

* `WaitersServed` assumes that a fetch is answered (every fetch of the queue carries
  `AbortSignal.timeout`), that continuations of settled promises run, that a body's
  cancellation returns and that the platform delivers a due alarm. It assumes
  nothing of the order of events. New calls may overtake blocked ones for as long as
  there are new calls; there are finitely many.
* `TableDrains` assumes that a due alarm is delivered and that an API call ends in
  an answer or an error.
* `StalePageRendered` says that neither the message's deduplication nor a cached
  message keeps a page stale for ever. Weak fairness: the page keeps being requested,
  `send` and HEAD end (HEAD has a timeout, `memory-queue.ts`), entries of the caches
  of messages age. Strong fairness: a Cache API, or a HEAD, that is asked again and
  again does not always fail. Without the last one the page could stay stale in any
  implementation.

The components without fairness have only safety properties.

### Refinement

`ImplementsBuffer` is `Buffer!BufferSpec` for `Buffer == INSTANCE PurgeBuffer WITH
stale <- owed, waiting <- table, called <- batch`: the alarm, its retries, the
restarts and the moment at which the CDN purges are steps of the buffer or
stutters. It is checked in `requests` and proved (`BufferImplemented`).

### Findings

1. `queue.ts:23`: revalidations are "deduped by the deduplication id". Only on
   entry: calls that were blocked are not looked up again when they wake up.
2. `queue.ts:84`: a failed route "will be retried later". `alarm()` retries one
   upcoming route and sets no alarm for the rest. Messages about them are dropped
   until another route fails or the object restarts.
3. `queue.ts:171` and `216`: a route is removed from the failed state and "will
   not be tried again". Its row stays in the table, and a restart brings it back.
4. `bucket-cache-purge.spec.ts:128`: "until all tags are purged". A tag requested
   again while the call that names it is in flight is deleted with its batch.
5. `do-sharded-tag-cache.ts:66`: "Write operations always apply to all of the
   shards". A write is given up at a replica after its retries and `writeTags`
   returns as if it were there; and the retry of an older write replaces a newer
   time.
6. `promise.ts:129`: "We always await all detached promises before returning the
   result". The import of the server's bundle replaces the storage of the contexts
   (`requestHandler.ts:24`), so a request that is in the middleware meanwhile awaits
   none of its promises.

The properties of the passing runs name further behaviour that a user may not
expect, in their exceptions: `getLastRevalidated` answers from the regional cache
alone; a miss of the regional cache may refill it with a revalidated entry; two
deployments at the same time lose one of them from the mapping; cookies given to
`writeHead` are lost; the page `/500` after an error of the routing handler lacks the
response headers, and the middleware's own answer has none of those that routes before
it gave (`routingHandler.ts:346`); two revalidations of a tag at the same time may leave the
earlier time; an AWS build with a middleware on Node behind a wrapper of Cloudflare's fails
with a missing file where a comment announces a fallback (`adapter.ts:118`); `after()` may be given the `waitUntil` of another request.

Smaller disagreements, seen in the code, that no run is about:

* `templates/skew-protection.ts:20`: "When the requested deployment is not supported a
  400 response is returned". Lines 51-54 serve the current version.
* `deploy.ts:32`, `populate-cache.ts:69` and `preview.ts:30` pass the OpenNext config
  to `getEnvFromPlatformProxy`, which takes the path of the Wrangler configuration and the
  environment: the variables are those of the default environment. `Deployment` has
  this as `ReadFrom`, and its properties except what follows from it.
* `installDeps.ts:74` swallows an error of the installation.
* With `skipNextBuild` the output directory is emptied and nothing is bundled: a
  build that reports success leaves a worker without any of its modules, as
  `WorkerComplete` states.
* `cacheInterceptor.ts:400` falls back to the server "in case of error", and
  `adapters/middleware.ts:97` rewrites to the page /500 "on error". Both `return` a promise
  without awaiting it (`cacheInterceptor.ts:352`, `adapters/middleware.ts:82`), so that an error
  of the queue in `generateResult`, or of the proxy, passes by the `catch`. `QueueRefuses`
  and `ProxyFails` have this; a property would only restate their guards.
* `compile-init.ts:17` compiles an empty base path, deployment id and trailing slash
  into the worker (it says so in a TODO), and `adapter.ts:57` passes no Wrangler
  configuration for `run_worker_first`.
* `migrate.ts:110` looks for its rule at the start of `public/_headers` only, not of a
  line: a rule that migrate itself appended is appended again.

## 4. Theorems

All hold for any sets of calls, ids, tags, keys, instances, functions, requests
(finite ones for the queue and the purge), any limits, retry counts and
delays. They assume only the named `ASSUME`s of the modules, such as that limits
are positive. `BuildAssumption` also says that no split function has the name of a file
that the build writes anyway: a function called `default` would be bundled over the
default one. `BackoffAssumption` (`2^n` is a positive natural number) is a fact of
arithmetic that the provers do not know; TLC evaluates it in every run.

The queue's inductive invariant `Inv` has seven parts. `OngoingIsRunning` and
`MapBounded` are inductive with the types. `WaiterNotStuck` is not: a call may
race on several promises, so that *some* of them is pending may stop to hold after
a step; `RacersPending` says that *all* of them are, which `Settle` preserves
because it wakes every call that races on the settling promise. `RowsCoverFailed`
is inductive because map and row change in one action. `DueIsPending` relates the
batch of the running alarm handler to what was due when it started;
`AlarmHandlesDue` follows when the batch is empty. `SyncIsLastSuccess` ties the
table to history, and `LaterSecond` is the arithmetic that makes the mixed rounding
of `checkSyncTable` safe. `AlarmsAreAhead`, that an alarm is never set in the past,
is proved and not in a run. So is `FailedRoutesScheduled`: the run `queue_scheduled`
shows that a failed route can be left without an alarm; the theorem shows that
nothing but an alarm handler that returns does so, neither a restart nor a late
answer, and only to routes that were not due when the handler started
(`AddAlarmSchedules`, with `DueRoutesRetried`).

The purge's invariant is the type invariant with `OwedIsBuffered`; `NextBatch` and
`AfterDelete` say what one round of the loop leaves. The refinement follows from the
same invariant: each step is a step of the buffer or leaves its variables.

The sharded tag cache's invariant adds to the four properties: how a writer and its
calls advance together (`WritersOk`), what a lookup is about (`LookupsOk`), that an
entry comes from its tag's shard (`EntriesOk`), where every time comes from
(`TimesWritten`), and `PutsOk`, the link between rows and entries: a time that is
older than a write and still to be put will be deleted by the write, or is marked
as having crossed its deletion. `NewestWriteWins` gives `PutsOk` when times are
fetched, and `PutsOk` gives `StaleOnlyByRace` when they are put. A row is set back
only by a write in flight, which is therefore not among those that were done when
the other one started: that is the exception `Overlapped`, and it stays true.

**Pages.** `RecordsKept` follows the times that are under way: of two revalidations
that are writing, the one with the later time took it while the other was writing
(`InOrder`), so a time that is later than the one a revalidation is about to write is of
one that crosses it (`LaterCrosses`); and a set that is to write a row knows that it was
revalidated only with an excuse (`UnlistedUnrevalidated`). `NoStaleAnswer` adds
`StaleInv`. It follows a revalidation through its loop: every row that was there when it
started (`known`) is, for each of its tags that is done, written with its time or a
later one, or on its way, or collected, or still to be looked up (`GoesWell`); who is still
writing a time from before its start was writing when it took its own (`Crossed`); and an
entry has the rows of its tags, known to every revalidation that its render did not see
and that no set of its overlapped (`HasRows`). A get that has read such an entry then finds
a row, or a time, that is newer, in the first look or, if that found nothing
(`HalfChecked`), in the second. `AllGoesOn` says once for all steps how little each of them
changes (rows are never taken away, a recorded time is replaced by one from before its
revalidation only with an excuse, a revalidation only goes forward); the invariant of a
component that a step does not touch follows from `AllGoesOn` alone. `PagesTyping` adds to
`StaleInv` the bounds of the model and that a get which has an answer has an entry
(`Within`).

**Region.** `CarriesStored`: what a slot is to put is what the bucket has, unless
`races` of the slot says how it changed; `BehindOnlyIfOwed`: a region that differs
has a flaw, or a put or delete to come. **Composable.** `Alone`: a set that overlaps
no other has all earlier ones behind it; so what is cached, or promised, is not
older than what was stored (`CachedNewest`, `PromiseNewest`). **Tiers.** Writes in
flight at once are all known to overlap, so that a clean write has a stamp no older
than the last clean one; the item follows it, and the local entry that an item
does not replace is as new as the item. `TierTyping` needs that a write under way has
a number (`Numbered`).

**Deployments.** `Routes`: a mapping that was computed of the versions up to *n*
routes to them, each to its own deployment, and versions only come to it.
`Remembers` is stronger than the property it is for: it says that a listed version is
in the mapping *under its own index*, and that its id is not the new one's. That
makes it inductive over versions: the last version, if it raced with none, saw all
that came before it, so its mapping has them, and the new one has the last version
itself in place of `Current`. `LiveAlwaysPopulated` needs what a run has
populated so far.

**Requests.** `Registered`, `Taken` and `Kept` follow a promise from the runner into
the snapshot to `waitUntil`. `AckedIsRequested` and `HeadIsRequested` tie a cached
message to its HEAD. `HeadInv` relates the header, the cookies and the first head.

**Routing.** Once the routes are resolved, their headers are carried to the handler
or lost with the page /500 (`HeadersCarried`), and the middleware's own answer comes without
them; `HeadOnce` counts the heads that were
sent when a stage has the request. Together they give `HeadersAlwaysSent`.
`BranchAlwaysSettled` needs that only the body of a POST is split and that no cached
answer is made for it (`BranchOfPost`).

**Build.** `BuildInv` says of every step what it finds when it starts: which files of
this build are there (`Made`), which are not made yet (`Unmade`), that the directory
was emptied of what an earlier build left (`Emptied`), and that the configuration got past
the checks (`Accepted`). `Stuck` says of a build that falls short that it has no edge
configuration and does not get past the middleware. `Parted` says where the adapters part: on Cloudflare no
function but the server is bundled, and the output is written last. A build may stop at
each of its stages and leave its files to the next one; this is why the invariant is
about the age of each file and not about its presence only. The theorems hold for any set
of projects (`Setups`), any split functions and any number of builds, where the run
has a handful.

**Worker.** `Known` is what a command knows of the files between its writes.
`IsolateInv` says in which storage a context is (`Storages`), that a promise is in the runner if
the storage is still the one of its context (`Registrations`), and that the
request's `waitUntil` was given it past that part (`Holding`).

**Side by side.** In `MCCaches`, `MCRequests` and `MCWorker` each step is a step of one
part that leaves the variables of the others; so a behaviour of the whole is one of each
part (`CachesApart`, `RequestsApart`, `WorkerApart`). All that is proved of a component
therefore holds for what TLC runs, and `CachesKeepPromises`, `RequestsKeepPromises` and
`WorkerKeepsPromises` state the properties of the three runs as they are checked.

Every invariant and every action property of a passing run is stated by a theorem.
Model-checked only are the three liveness properties `WaitersServed`, `TableDrains` and
`StalePageRendered`: they rest on fairness, whose `ENABLED` the prover cannot reason about.
What a recursive definition computes for all inputs is out of its reach as well; no
module here has one. The properties of the violation runs are refuted, and not proved.

## 5. Simplifications

* Platform semantics taken from its documentation and from how the code uses them:
  an alarm is cleared when it fires, `getAlarm()` is null while the handler runs,
  a handler that throws or is interrupted is run again; storage awaits close the
  input gate; a bound array stands for its elements in `sql.exec`; the platform may
  stop a request when it has returned and what `waitUntil` was given has settled.
* The id of a message determines its route and `lastModified`: the id is a hash of
  the page and its version.
* `parseInt` of a configuration gives a positive number; zero and NaN are left out.
* Time is a bounded counter; delays are small numbers of ticks. `Date.now()` of all
  instances is the same.
* The warning about twice the maximal number of revalidations is logging.
* The regional cache of the sharded tag cache is that of one region. A deletion made
  in another region leaves this one's entries, which is a deletion that keeps them.
* The matches of the tags of one group are one step. A call that failed has no
  later effect. The object's SQL statements do not fail.
* Replicas of all regions are replicas of the shard; which of them a read asks is
  left open, for each tag.
* The purge of the CDN at the end of `writeTags` and `revalidateTag`, and the CDN
  invalidations of the original mode, belong to the purge's model; `RegionalCache` has the
  purge of its own entries.
* In `PageCache`, the items of one `writeTags` of DynamoDB, which each call `Date.now()`
  before any is sent, have one time. Writes of a revalidation that fails with an
  error do not land after it has failed; that they land late is a revalidation that takes
  longer. KV answers reads at once with what was written: that other locations see a
  write up to 60 seconds later (`kv-next-tag-cache.ts:16`) is the platform's, and a get in that
  time is answered stale.
* A page's data changes when its tag is revalidated, just before the call; a render
  sees the data of its start.
* `RegionalCache`, `ComposableCache` and `MultiTierCache` are about one key, and the
  order of eviction of the LRU is left open.
* A message of `IsrLoop` names the page as it is; once it is rendered, messages about
  the old one have no effect on the new one's.
* A client that disconnects is left out of the streaming response and the isolate.
* In `RequestPipeline`, matching and rewriting (`@next/routing`) are chosen.
* `Build` knows files by name and age; what plugins and patches do to their text is
  left out, but for whether a tool fails. Split functions have names of their own.
* `Deployment` takes the deployment id for the build id as well.

## 6. Not modelled

* Converters, plugins, code patches and resolvers: functions of one event, one file
  or one name, without state. A model would repeat them.
* SQS, Lambda and other wrappers, the image function of AWS: one call of a
  service per operation.
* `preview`, the platform proxy, `getCloudflareContext`: they bind the platform's
  objects.
* The headers that the interceptor computes (`computeCacheControl`, `fixISRHeaders`)
  and the names of cache keys: formatting.
* `sync`'s record of when a HEAD finished, against the expiry of what it wrote
  (`queue.ts:299`): the queue's model has no cache of pages. The hazard is listed
  without a property.
* The interaction of the durable queue with the page cache, and of the regional cache
  with the page cache's tags, each of which is in one module with an abstraction of
  the other.

## 7. Plan

Done: all the components above. What remains worth doing: `PageCache` behind
`RegionalCache` (a render that overlaps a revalidation, with its entry put in the
background), and a model of `computeCacheControl` and `fixISRHeaders` against a
reference definition.
