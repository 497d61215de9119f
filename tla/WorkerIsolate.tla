---------------------------- MODULE WorkerIsolate ----------------------------
(***************************************************************************)
(* The requests of one isolate of the Cloudflare worker and what they      *)
(* share: packages/cloudflare/src/cli/templates/worker.ts and init.ts, and *)
(* the globals of the bundles the worker runs, in packages/core.           *)
(*                                                                         *)
(* The bundle of the middleware is imported when the isolate starts and    *)
(* the one of the server by the first request that needs it; either makes  *)
(* globalThis.__openNextAls, in which a request finds its context, anew.   *)
(* A request has one context in the middleware and one in the server, each *)
(* with a promise that it may register with its runner; in the server it   *)
(* may also call Next.js' after().  A promise lives on after the request   *)
(* has returned if the waitUntil of some request was given it.  The cache  *)
(* is called over RPC, by default in the same worker: such a call is one   *)
(* of the requests here, with a context when it writes.                    *)
(***************************************************************************)
CONSTANTS
    Requests,
    Hosts,  \* host names the worker is asked under
    None

ASSUME IsolateAssumption == None \notin Requests \cup Hosts \cup {"unset"}

VARIABLES
    initialized,       \* the runtime and process.env are set up
    originInitialized, \* and process.env.OPEN_NEXT_ORIGIN
    origin,     \* process.env.OPEN_NEXT_ORIGIN
    origins,    \* the origin resolver's cachedOrigins, "unset" before it is first asked
    storage,    \* the bundle that made globalThis.__openNextAls
    after,      \* the request whose waitUntil "@next/request-context" gives away
    place,      \* where a request is
    made,       \* of each context, the storage that it is in
    progress,   \* of each promise: none, pending or settled
    registered, \* the promises that their context's runner has
    holder      \* the request whose waitUntil was given the promise

environment == <<initialized, originInitialized, origin>>
promises == <<made, progress, registered, holder>>
isolateVars == <<environment, origins, storage, after, place, promises>>

Contexts == Requests \X {"middleware", "server", "cache"}
Promises == Requests \X {"middleware", "server", "after"}

IsolateInit ==
    /\ initialized = FALSE
    /\ originInitialized = FALSE
    /\ origin = None
    /\ origins = "unset"
    /\ storage = "middleware"
    /\ after = None
    /\ place = [r \in Requests |-> "idle"]
    /\ made = [c \in Contexts |-> "none"]
    /\ progress = [p \in Promises |-> "none"]
    /\ registered = {}
    /\ holder = [p \in Promises |-> None]

MoveTo(r, there) == place' = [place EXCEPT ![r] = there]

-----------------------------------------------------------------------------
(* init *)

\* Mutant: one flag for both.
InitializeOnce(url) ==
    /\ initialized' = TRUE
    /\ originInitialized' = TRUE
    /\ origin' = IF ~initialized THEN url ELSE origin

\* init(env, url): the origin is that of the first request; a call over RPC has none.
Initialize(url) ==
    /\ initialized' = TRUE
    /\ originInitialized' = (originInitialized \/ url # None)
    /\ origin' = IF url # None /\ ~originInitialized THEN url ELSE origin

\* runWithCloudflareRequestContext.
Fetch(r, url) ==
    /\ place[r] = "idle"
    /\ Initialize(url)
    /\ MoveTo(r, "entered")
    /\ UNCHANGED <<origins, storage, after, promises>>

-----------------------------------------------------------------------------
(* runWithOpenNextRequestContext *)

\* A context in the storage of the moment; its waitUntil is after()'s from now on.
RunWithContext(r, part) ==
    /\ made' = [made EXCEPT ![<<r, part>>] = storage]
    /\ after' = r

\* globalThis.__openNextAls.getStore() finds the context.
HasStore(r, part) == made[<<r, part>>] = storage

Register(r, part) ==
    /\ progress[<<r, part>>] = "none"
    /\ progress' = [progress EXCEPT ![<<r, part>>] = "pending"]
    /\ registered' = IF HasStore(r, part) THEN registered \cup {<<r, part>>} ELSE registered
    /\ UNCHANGED <<environment, origins, storage, after, place, made, holder>>

\* Mutant: waitUntil is not given the promises of the runner.
AwaitNone(r, part) == holder' = holder

\* finally, awaitAllDetachedPromise.  Without a store there is nothing to await.
AwaitAllDetachedPromise(r, part) ==
    holder' = IF HasStore(r, part) /\ <<r, part>> \in registered
              THEN [holder EXCEPT ![<<r, part>>] = r]
              ELSE holder

-----------------------------------------------------------------------------
(* The cache, which the worker calls over RPC; runWithCloudflareContext *)

ReadCache(r) ==
    /\ place[r] = "idle"
    /\ Initialize(None)
    /\ MoveTo(r, "returned")
    /\ UNCHANGED <<origins, storage, after, promises>>

\* handleSet and handleRevalidateTags run in a context, without a waitUntil.
WriteCache(r) ==
    /\ place[r] = "idle"
    /\ Initialize(None)
    /\ RunWithContext(r, "cache")
    /\ MoveTo(r, "caching")
    /\ UNCHANGED <<origins, storage, progress, registered, holder>>

\* With a store, the call now awaits what its runner was given.
CacheWritten(r) ==
    /\ place[r] = "caching"
    /\ MoveTo(r, IF HasStore(r, "cache") THEN "returned" ELSE "stopped")
    /\ UNCHANGED <<environment, origins, storage, after, promises>>

-----------------------------------------------------------------------------
(* The worker's fetch *)

\* Another deployment or the image handler answers.
AnswerBefore(r) ==
    /\ place[r] = "entered"
    /\ MoveTo(r, "returned")
    /\ UNCHANGED <<environment, origins, storage, after, promises>>

EnterMiddleware(r) ==
    /\ place[r] = "entered"
    /\ RunWithContext(r, "middleware")
    /\ MoveTo(r, "middleware")
    /\ UNCHANGED <<environment, origins, storage, progress, registered, holder>>

RegisterInMiddleware(r) == place[r] = "middleware" /\ Register(r, "middleware")

\* Its answer, a redirect, a cached page or another server's; or it throws.
AnswerInMiddleware(r) ==
    /\ place[r] = "middleware"
    /\ AwaitAllDetachedPromise(r, "middleware")
    /\ MoveTo(r, "returned")
    /\ UNCHANGED <<environment, origins, storage, after, made, progress, registered>>

\* The resolver reads the environment when it is asked for the first time.
InitializeResolver == origins' = IF origins = "unset" THEN origin ELSE origins

MiddlewarePasses(r) ==
    /\ place[r] = "middleware"
    /\ InitializeResolver
    /\ AwaitAllDetachedPromise(r, "middleware")
    /\ MoveTo(r, "passed")
    /\ UNCHANGED <<environment, storage, after, made, progress, registered>>

\* In container mode the container answers.
AnswerElsewhere(r) ==
    /\ place[r] = "passed"
    /\ MoveTo(r, "returned")
    /\ UNCHANGED <<environment, origins, storage, after, promises>>

\* The server's bundle is evaluated once.
ImportServer(r) ==
    /\ place[r] = "passed"
    /\ storage' = "server"
    /\ MoveTo(r, "imported")
    /\ UNCHANGED <<environment, origins, after, promises>>

Serve(r) ==
    /\ place[r] = "imported"
    /\ RunWithContext(r, "server")
    /\ MoveTo(r, "serving")
    /\ UNCHANGED <<environment, origins, storage, progress, registered, holder>>

RegisterInServer(r) == place[r] = "serving" /\ Register(r, "server")

\* What keeps a promise that the waitUntil of the moment is given.  That of a call of
\* the cache adds it to the runner, too late once the call awaits the others.
Keeper == IF made[<<after, "cache">>] = "none" \/ place[after] = "caching" THEN after ELSE None

\* Next.js takes the waitUntil of the moment.
CallAfter(r) ==
    /\ place[r] = "serving"
    /\ progress[<<r, "after">>] = "none"
    /\ progress' = [progress EXCEPT ![<<r, "after">>] = "pending"]
    /\ holder' = [holder EXCEPT ![<<r, "after">>] = Keeper]
    /\ UNCHANGED <<environment, origins, storage, after, place, made, registered>>

ServerEnds(r) ==
    /\ place[r] = "serving"
    /\ AwaitAllDetachedPromise(r, "server")
    /\ MoveTo(r, "returned")
    /\ UNCHANGED <<environment, origins, storage, after, made, progress, registered>>

-----------------------------------------------------------------------------
(* The platform *)

Stopped(r) == place[r] = "stopped"

\* A promise makes progress while its request or the holder is there.
Alive(p) == ~Stopped(p[1]) \/ (holder[p] # None /\ ~Stopped(holder[p]))

WorkSettles(p) ==
    /\ progress[p] = "pending"
    /\ Alive(p)
    /\ progress' = [progress EXCEPT ![p] = "settled"]
    /\ UNCHANGED <<environment, origins, storage, after, place, made, registered, holder>>

\* The request has returned and what its waitUntil was given has settled.
Stop(r) ==
    /\ place[r] = "returned"
    /\ \A p \in Promises : holder[p] = r => progress[p] = "settled"
    /\ MoveTo(r, "stopped")
    /\ UNCHANGED <<environment, origins, storage, after, promises>>

IsolateNext ==
    \/ \E r \in Requests :
        \/ ReadCache(r)
        \/ WriteCache(r)
        \/ CacheWritten(r)
        \/ \E url \in Hosts : Fetch(r, url)
        \/ AnswerBefore(r)
        \/ EnterMiddleware(r)
        \/ RegisterInMiddleware(r)
        \/ AnswerInMiddleware(r)
        \/ MiddlewarePasses(r)
        \/ AnswerElsewhere(r)
        \/ ImportServer(r)
        \/ Serve(r)
        \/ RegisterInServer(r)
        \/ CallAfter(r)
        \/ ServerEnds(r)
        \/ Stop(r)
    \/ \E p \in Promises : WorkSettles(p)

IsolateSpec == IsolateInit /\ [][IsolateNext]_isolateVars

-----------------------------------------------------------------------------
(* Properties *)

Places ==
    {"idle", "caching", "entered", "middleware", "passed", "imported", "serving", "returned", "stopped"}

IsolateTypeOK ==
    /\ initialized \in BOOLEAN
    /\ originInitialized \in BOOLEAN
    /\ origin \in Hosts \cup {None}
    /\ origins \in Hosts \cup {None, "unset"}
    /\ storage \in {"middleware", "server"}
    /\ after \in Requests \cup {None}
    /\ place \in [Requests -> Places]
    /\ made \in [Contexts -> {"none", "middleware", "server"}]
    /\ progress \in [Promises -> {"none", "pending", "settled"}]
    /\ registered \subseteq Promises
    /\ holder \in [Promises -> Requests \cup {None}]

\* Whichever entry point is called first, over RPC or with a request, the resolver
\* never caches that there is no origin.
OriginsKnown == origins # None

\* A promise is cut off: nobody's waitUntil keeps it alive.
Cut(p) == progress[p] = "pending" /\ ~Alive(p)

\* "We always await all detached promises before returning the result."
PromisesAwaited ==
    \A r \in Requests : ~Cut(<<r, "middleware">>) /\ ~Cut(<<r, "server">>)

\* A promise that a request registers is cut off only if the request was in the
\* middleware when another one imported the server, and with it the storage of
\* the contexts was replaced; never in the server, and never once it was imported.
\* The work of after() is cut off only when another request had its waitUntil
\* given away, because it entered the middleware, the server or the cache's set in
\* between.
CutOnlyByOthers ==
    \A r \in Requests :
        /\ Cut(<<r, "middleware">>) => storage = "server" /\ made[<<r, "middleware">>] = "middleware"
        /\ ~Cut(<<r, "server">>)
        /\ Cut(<<r, "after">>) => holder[<<r, "after">>] # r

=============================================================================
