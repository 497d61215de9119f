------------------------------ MODULE IsrLoop ------------------------------
(***************************************************************************)
(* How a stale page is rendered again: requests find it stale and send a   *)
(* message (core/src/core/routing/util.ts, cacheInterceptor.ts) to a queue *)
(* cache (cloudflare/src/api/overrides/queue/queue-cache.ts) in front of   *)
(* the memory queue (memory-queue.ts), which requests the page with HEAD.  *)
(* A message is named by the page, its lastModified and its ETag: once the *)
(* page is rendered the messages that name the old one mean nothing.       *)
(***************************************************************************)
CONSTANTS
    Isolates, \* processes, each with its own maps
    Sends     \* slots for calls of send

VARIABLES
    waitForQueueAck, \* the option
    fresh,     \* whether the page is fresh
    send,      \* where a send is
    isolate,   \* its isolate
    current,   \* whether its message names the page as it is now
    localCache, \* QueueCache.localCache: none, young, or old as the TTL has passed
    regional,  \* whether the Cache API has the message
    revalidatedPaths, \* the isolates whose memory queue has the message
    requested  \* history: HEAD was sent for the message

loopVars == <<waitForQueueAck, fresh, send, isolate, current, localCache, regional, revalidatedPaths, requested>>

LoopInit ==
    /\ waitForQueueAck \in BOOLEAN
    /\ fresh = TRUE
    /\ send = [m \in Sends |-> "idle"]
    /\ isolate \in [Sends -> Isolates]
    /\ current = [m \in Sends |-> FALSE]
    /\ localCache = [i \in Isolates |-> "none"]
    /\ regional = FALSE
    /\ revalidatedPaths = {}
    /\ requested = FALSE

GoesStale ==
    /\ fresh
    /\ fresh' = FALSE
    /\ UNCHANGED <<waitForQueueAck, send, isolate, current, localCache, regional, revalidatedPaths, requested>>

----------------------------------------------------------------------------
(* QueueCache.send *)

\* Mutant: the message is cached before it is sent, whatever the option says.
PutFirst == "putting"
\* Where the first of the two steps is.
First == IF waitForQueueAck THEN "sending" ELSE "putting"

\* Mutant: the age of the local entry is not looked at.
HasLocal(i) == localCache[i] # "none"
\* isInCache, in the isolate's own map.
IsInLocal(i) == localCache[i] = "young"

\* A request finds the page stale.  An old entry of the map is taken out and the
\* message sent; without one the Cache API is asked.  A message that is in the
\* map leaves no trace.
Request(m) ==
    /\ send[m] = "idle"
    /\ ~fresh
    /\ ~IsInLocal(isolate[m])
    /\ current' = [current EXCEPT ![m] = TRUE]
    /\ localCache' = [localCache EXCEPT ![isolate[m]] = "none"]
    /\ send' = [send EXCEPT ![m] = IF localCache[isolate[m]] = "old" THEN First ELSE "matching"]
    /\ UNCHANGED <<waitForQueueAck, fresh, isolate, regional, revalidatedPaths, requested>>

\* finally: clearLocalCache.
Done(m) ==
    /\ send' = [send EXCEPT ![m] = "idle"]
    /\ current' = [current EXCEPT ![m] = FALSE]
    /\ localCache' = [localCache EXCEPT ![isolate[m]] = IF @ = "old" THEN "none" ELSE @]

\* cache.match
Match(m) ==
    /\ send[m] = "matching"
    /\ IF current[m] /\ regional THEN Done(m)
       ELSE /\ send' = [send EXCEPT ![m] = First]
            /\ UNCHANGED <<current, localCache>>
    /\ UNCHANGED <<waitForQueueAck, fresh, isolate, regional, revalidatedPaths, requested>>

\* putToCache: the isolate's map, then cache.put.
PutLocal(m) ==
    /\ send[m] = "putting"
    /\ localCache' = IF current[m] THEN [localCache EXCEPT ![isolate[m]] = "young"] ELSE localCache
    /\ send' = [send EXCEPT ![m] = "storing"]
    /\ UNCHANGED <<waitForQueueAck, fresh, isolate, current, regional, revalidatedPaths, requested>>

PutRegional(m) ==
    /\ send[m] = "storing"
    /\ regional' = (regional \/ current[m])
    /\ IF waitForQueueAck THEN Done(m)
       ELSE send' = [send EXCEPT ![m] = "sending"] /\ UNCHANGED <<current, localCache>>
    /\ UNCHANGED <<waitForQueueAck, fresh, isolate, revalidatedPaths, requested>>

\* The Cache API fails: the error is logged, and the message not sent.
CacheFails(m) ==
    /\ send[m] \in {"matching", "storing"}
    /\ Done(m)
    /\ UNCHANGED <<waitForQueueAck, fresh, isolate, regional, revalidatedPaths, requested>>

----------------------------------------------------------------------------
(* MemoryQueue.send *)

\* The queue has answered.
Acked(m) ==
    IF waitForQueueAck
    THEN send' = [send EXCEPT ![m] = "putting"] /\ UNCHANGED <<current, localCache>>
    ELSE Done(m)

IsRevalidated(m) == current[m] /\ isolate[m] \in revalidatedPaths

Deduplicate(m) ==
    /\ send[m] = "sending"
    /\ IsRevalidated(m)
    /\ Acked(m)
    /\ UNCHANGED <<waitForQueueAck, fresh, isolate, regional, revalidatedPaths, requested>>

RequestHead(m) ==
    /\ send[m] = "sending"
    /\ ~IsRevalidated(m)
    /\ revalidatedPaths' = IF current[m] THEN revalidatedPaths \cup {isolate[m]} ELSE revalidatedPaths
    /\ requested' = (requested \/ current[m])
    /\ send' = [send EXCEPT ![m] = "revalidating"]
    /\ UNCHANGED <<waitForQueueAck, fresh, isolate, current, localCache, regional>>

\* The page is rendered and has a new lastModified: what the maps and the Cache
\* API have is about messages that nobody sends again.  A HEAD for a page that
\* is fresh renders nothing.
HeadRenders(m) ==
    /\ send[m] = "revalidating"
    /\ ~fresh
    /\ fresh' = TRUE
    /\ regional' = FALSE
    /\ revalidatedPaths' = {}
    /\ requested' = FALSE
    /\ current' = [n \in Sends |-> FALSE]
    /\ localCache' = [i \in Isolates |-> "none"]
    /\ send' = [send EXCEPT ![m] = IF waitForQueueAck THEN "putting" ELSE "idle"]
    /\ UNCHANGED <<waitForQueueAck, isolate>>

\* finally: the message is taken out.
DropRevalidated(m) == IF current[m] THEN revalidatedPaths \ {isolate[m]} ELSE revalidatedPaths

\* HEAD fails, times out, or another one has rendered the page.  The error is
\* swallowed: the queue has answered.
HeadEnds(m) ==
    /\ send[m] = "revalidating"
    /\ revalidatedPaths' = DropRevalidated(m)
    /\ Acked(m)
    /\ UNCHANGED <<waitForQueueAck, fresh, isolate, regional, requested>>

----------------------------------------------------------------------------

\* The TTL passes for an entry of a map, or of the Cache API.
LocalAges(i) ==
    /\ localCache[i] = "young"
    /\ localCache' = [localCache EXCEPT ![i] = "old"]
    /\ UNCHANGED <<waitForQueueAck, fresh, send, isolate, current, regional, revalidatedPaths, requested>>

RegionalExpires ==
    /\ regional
    /\ regional' = FALSE
    /\ UNCHANGED <<waitForQueueAck, fresh, send, isolate, current, localCache, revalidatedPaths, requested>>

LoopNext ==
    \/ GoesStale
    \/ \E m \in Sends :
          \/ Request(m) \/ Match(m) \/ PutLocal(m) \/ PutRegional(m) \/ CacheFails(m)
          \/ Deduplicate(m) \/ RequestHead(m) \/ HeadRenders(m) \/ HeadEnds(m)
    \/ \E i \in Isolates : LocalAges(i)
    \/ RegionalExpires

LoopSpec == LoopInit /\ [][LoopNext]_loopVars

\* Requests keep coming, calls end and time passes; and a Cache API or a HEAD
\* that is asked again and again does not fail for ever.
LoopFairness ==
    /\ \A m \in Sends :
        /\ WF_loopVars(Request(m))
        /\ WF_loopVars(PutLocal(m))
        /\ WF_loopVars(Deduplicate(m) \/ RequestHead(m))
        /\ WF_loopVars(HeadRenders(m) \/ HeadEnds(m))
        /\ SF_loopVars(Match(m))
        /\ SF_loopVars(PutRegional(m))
        /\ SF_loopVars(HeadRenders(m))
    /\ \A i \in Isolates : WF_loopVars(LocalAges(i))
    /\ WF_loopVars(RegionalExpires)

----------------------------------------------------------------------------
(* Properties *)

LoopTypeOK ==
    /\ waitForQueueAck \in BOOLEAN
    /\ fresh \in BOOLEAN
    /\ send \in [Sends -> {"idle", "matching", "putting", "storing", "sending", "revalidating"}]
    /\ isolate \in [Sends -> Isolates]
    /\ current \in [Sends -> BOOLEAN]
    /\ localCache \in [Isolates -> {"none", "young", "old"}]
    /\ regional \in BOOLEAN
    /\ revalidatedPaths \subseteq Isolates
    /\ requested \in BOOLEAN

\* With waitForQueueAck a message is kept from the queue only after HEAD was
\* sent for it, so that a queue that fails does not silence the page.
QuietOnlyAfterHead ==
    waitForQueueAck /\ (regional \/ \E i \in Isolates : localCache[i] # "none") => requested

\* A page that is stale and is requested again and again is rendered: neither
\* the deduplication nor the cached messages keep it stale for ever.
StalePageRendered == ~fresh ~> fresh

=============================================================================
