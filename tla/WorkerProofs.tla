---------------------------- MODULE WorkerProofs ----------------------------
(***************************************************************************)
(* Proofs about ProjectSetup, for any number of commands, interruptions    *)
(* and removals, about WorkerIsolate, for any number of requests and       *)
(* hosts, and about Build, for any functions, any set of configurations    *)
(* and any number of builds; and about the three side by side.             *)
(***************************************************************************)
EXTENDS MCWorker, TLAPS

-----------------------------------------------------------------------------
(* ProjectSetup *)

\* What a command knows of the files while it sets up the R2 cache: migrate has
\* found neither file, and writes the binding before the use of the cache; build
\* has found no Wrangler configuration.  A bucket that could be set up exists.
Known ==
    /\ caching => bucket
    /\ command = "migrate" /\ step \in {"install", "bucket", "wrangler", "openNext"} => openNext = "absent"
    /\ command = "migrate" /\ step \in {"install", "bucket", "wrangler"} => wrangler = "absent"
    /\ At("migrate", "openNext") /\ caching => wrangler = "r2"
    /\ command = "build" /\ step \in {"bucket", "wrangler"} => wrangler = "absent"

SetupInv == Known /\ CachingAgrees

\* The initial state satisfies the inductive invariant.
LEMMA SetupInvInit == SetupInit => SetupInv
  BY DEF SetupInit, SetupInv, Known, At, CachingAgrees

\* The end of a command leaves the files as they are.
LEMMA EndKeeps == SetupInv /\ UNCHANGED projectVars /\ End => SetupInv'
  BY DEF SetupInv, Known, CachingAgrees, At, End, projectVars

\* The steps that set up the R2 cache keep the invariant.
LEMMA SetUpSteps ==
    SetupInv /\ (MigrateBucket \/ MigrateWrangler \/ MigrateOpenNext \/ BuildBucket \/ BuildWrangler) => SetupInv'
<1> SUFFICES ASSUME SetupInv PROVE
      MigrateBucket \/ MigrateWrangler \/ MigrateOpenNext \/ BuildBucket \/ BuildWrangler => SetupInv'
  OBVIOUS
<1> USE DEF SetupInv, Known, CachingAgrees, At, GoOn, End
<1>1. CASE MigrateBucket
  BY <1>1 DEF MigrateBucket, MaybeCreateR2Bucket
<1>2. CASE MigrateWrangler
  BY <1>2 DEF MigrateWrangler, WriteWranglerConfig, WranglerConfig
<1>3. CASE MigrateOpenNext
  BY <1>3 DEF MigrateOpenNext, CreateOpenNextConfigFile
<1>4. CASE BuildBucket
  BY <1>4 DEF BuildBucket, MaybeCreateR2Bucket
<1>5. CASE BuildWrangler
  BY <1>5 DEF BuildWrangler, WranglerConfig
<1>6. QED
  BY <1>1, <1>2, <1>3, <1>4, <1>5

\* Every other step of migrate keeps the invariant.
LEMMA MigrateSteps ==
    SetupInv /\ (MaybeCreateNextConfigFileIfMissing \/ MigrateChecks \/ InstallDependencies \/ MigrateAppends) => SetupInv'
<1> SUFFICES ASSUME SetupInv PROVE
      MaybeCreateNextConfigFileIfMissing \/ MigrateChecks \/ InstallDependencies \/ MigrateAppends => SetupInv'
  OBVIOUS
<1> USE DEF SetupInv, Known, CachingAgrees, At, GoOn, End, projectVars
<1>1. CASE MaybeCreateNextConfigFileIfMissing
  BY <1>1 DEF MaybeCreateNextConfigFileIfMissing
<1>2. CASE MigrateChecks
  BY <1>2 DEF MigrateChecks, AlreadyMigrated, FindWranglerConfig, FindOpenNextConfig
<1>3. CASE InstallDependencies
  BY <1>3 DEF InstallDependencies
<1>4. ASSUME NEW file, NEW next \in {"public/_headers", ".gitignore", "next.config", "end"},
             ConditionalAppend(file, next)
      PROVE  SetupInv'
  BY <1>4 DEF ConditionalAppend
<1>5. CASE MigrateAppends
  BY <1>4, <1>5 DEF MigrateAppends
<1>6. QED
  BY <1>1, <1>2, <1>3, <1>5

\* Every step keeps the inductive invariant.
LEMMA SetupInvStep == SetupInv /\ [SetupNext]_setupVars => SetupInv'
<1> SUFFICES ASSUME SetupInv, [SetupNext]_setupVars PROVE SetupInv'
  OBVIOUS
<1> USE DEF SetupInv, Known, CachingAgrees, At
<1>1. ASSUME NEW c \in {"migrate", "build"}, Run(c) PROVE SetupInv'
  BY <1>1 DEF Run
<1>2. CASE CompileConfig
  <2>1. CASE FindOpenNextConfig /\ UNCHANGED projectVars /\ GoOn("ask")
    BY <1>2, <2>1 DEF CompileConfig, GoOn, projectVars
  <2>2. CASE CreateOpenNextConfigFile(FALSE, "ask")
    BY <1>2, <2>2 DEF CompileConfig, CreateOpenNextConfigFile, GoOn
  <2>3. QED
    BY <1>2, <2>1, <2>2, EndKeeps DEF CompileConfig
<1>3. CASE AskForWranglerConfig
  BY <1>3 DEF AskForWranglerConfig, FindWranglerConfig, GoOn, End, projectVars
<1>4. CASE Interrupt
  BY <1>4, EndKeeps DEF Interrupt
<1>5. CASE RemoveConfig
  BY <1>5 DEF RemoveConfig
<1>6. CASE UNCHANGED setupVars
  BY <1>6 DEF setupVars
<1>7. QED
  BY <1>1, <1>2, <1>3, <1>4, <1>5, <1>6, SetUpSteps, MigrateSteps DEF SetupNext

\* Whatever commands run, and wherever they are interrupted: a binding that a command
\* wrote is to a bucket that exists, and the R2 cache is used only with the binding,
\* until the user removes a configuration file.
THEOREM CachingSetUp == SetupSpec => []CachingAgrees
<1>1. SetupInv => CachingAgrees
  BY DEF SetupInv
<1>2. QED
  BY <1>1, SetupInvInit, SetupInvStep, PTL DEF SetupSpec

-----------------------------------------------------------------------------
(* WorkerIsolate *)

\* The initial state is well typed.
LEMMA IsolateTypeInit == IsolateInit => IsolateTypeOK
<1> SUFFICES ASSUME IsolateInit PROVE IsolateTypeOK
  OBVIOUS
<1>1. initialized \in BOOLEAN /\ originInitialized \in BOOLEAN /\ registered \subseteq Promises
  BY DEF IsolateInit
<1>2. /\ place \in [Requests -> Places]
      /\ made \in [Contexts -> {"none", "middleware", "server"}]
      /\ progress \in [Promises -> {"none", "pending", "settled"}]
      /\ holder \in [Promises -> Requests \cup {None}]
  BY DEF IsolateInit, Places
<1>3. QED
  BY <1>1, <1>2 DEF IsolateInit, IsolateTypeOK

\* Every step keeps the state well typed.
LEMMA IsolateTypeStep == IsolateTypeOK /\ [IsolateNext]_isolateVars => IsolateTypeOK'
<1> SUFFICES ASSUME IsolateTypeOK, [IsolateNext]_isolateVars PROVE IsolateTypeOK'
  OBVIOUS
<1> USE DEF IsolateTypeOK, Places, MoveTo, environment, promises
<1>1. ASSUME NEW r \in Requests, ReadCache(r) \/ WriteCache(r) \/ CacheWritten(r) PROVE IsolateTypeOK'
  BY <1>1 DEF ReadCache, WriteCache, CacheWritten, Initialize, RunWithContext, Contexts
<1>2. ASSUME NEW r \in Requests, NEW url \in Hosts, Fetch(r, url) PROVE IsolateTypeOK'
  BY <1>2 DEF Fetch, Initialize
<1>3. ASSUME NEW r \in Requests, AnswerBefore(r) \/ AnswerElsewhere(r) \/ ImportServer(r) \/ Stop(r) PROVE IsolateTypeOK'
  BY <1>3 DEF AnswerBefore, AnswerElsewhere, ImportServer, Stop
<1>4. ASSUME NEW r \in Requests, EnterMiddleware(r) \/ Serve(r) PROVE IsolateTypeOK'
  BY <1>4 DEF EnterMiddleware, Serve, RunWithContext, Contexts
<1>5. ASSUME NEW r \in Requests, RegisterInMiddleware(r) \/ RegisterInServer(r) PROVE IsolateTypeOK'
  BY <1>5 DEF RegisterInMiddleware, RegisterInServer, Register, Promises
<1>6. ASSUME NEW r \in Requests, AnswerInMiddleware(r) \/ MiddlewarePasses(r) \/ ServerEnds(r) PROVE IsolateTypeOK'
  BY <1>6 DEF AnswerInMiddleware, MiddlewarePasses, ServerEnds, AwaitAllDetachedPromise, InitializeResolver
<1>7. ASSUME NEW r \in Requests, CallAfter(r) PROVE IsolateTypeOK'
  BY <1>7 DEF CallAfter, Keeper
<1>8. ASSUME NEW p \in Promises, WorkSettles(p) PROVE IsolateTypeOK'
  BY <1>8 DEF WorkSettles
<1>9. CASE UNCHANGED isolateVars
  BY <1>9 DEF isolateVars
<1>10. QED
  BY <1>1, <1>2, <1>3, <1>4, <1>5, <1>6, <1>7, <1>8, <1>9 DEF IsolateNext

\* The state of an isolate is well typed.
THEOREM IsolateTyping == IsolateSpec => []IsolateTypeOK
  BY IsolateTypeInit, IsolateTypeStep, PTL DEF IsolateSpec

-----------------------------------------------------------------------------
(* The inductive invariant *)

\* Parts of a request with a runner.
Parts == {"middleware", "server"}

\* The places of a request before a part of it, and those after the part.
BeforeMiddleware == {"idle", "caching", "entered"}
BeforeServer == BeforeMiddleware \cup {"middleware", "passed", "imported"}
PastServer == {"returned", "stopped"}
PastMiddleware == {"passed", "imported", "serving"} \cup PastServer

\* The origin is known once a request has a place in fetch, before the resolver is asked.
Origins ==
    /\ originInitialized => origin \in Hosts
    /\ origins \in Hosts \cup {"unset"}
    /\ \A r \in Requests :
        place[r] \in {"entered", "middleware", "passed", "imported", "serving"} => originInitialized

\* The storage of the middleware is replaced once, and the server's never.
Storages ==
    /\ \A c \in Contexts : made[c] = "server" => storage = "server"
    /\ \A r \in Requests :
        /\ place[r] \in {"imported", "serving"} => storage = "server"
        /\ made[<<r, "server">>] # "middleware"

\* A part's promise is made in the part, in which the request has a context ...
Fresh ==
    \A r \in Requests :
        /\ place[r] \in BeforeMiddleware => progress[<<r, "middleware">>] = "none"
        /\ place[r] \in BeforeServer =>
            progress[<<r, "server">>] = "none" /\ progress[<<r, "after">>] = "none"
        /\ place[r] = "middleware" => made[<<r, "middleware">>] # "none"
        /\ place[r] = "serving" => made[<<r, "server">>] # "none"

\* ... and its runner has it, as far as the storage is still the one of the context.
Registered(r, piece) ==
    progress[<<r, piece>>] # "none" =>
        /\ made[<<r, piece>>] # "none"
        /\ HasStore(r, piece) => <<r, piece>> \in registered
Registrations == \A r \in Requests : Registered(r, "middleware") /\ Registered(r, "server")

\* Nobody is given a promise before it is made.
Givens ==
    \A p \in Promises : p \in registered \/ holder[p] # None => progress[p] # "none"

\* Past the part, the request's waitUntil was given it ...
Held(r, piece) ==
    progress[<<r, piece>>] = "pending" /\ HasStore(r, piece) => holder[<<r, piece>>] = r
Holding ==
    \A r \in Requests :
        /\ place[r] \in PastMiddleware => Held(r, "middleware")
        /\ place[r] \in PastServer => Held(r, "server")

\* ... and a request that was given its own promises stops once they are settled.
Stops ==
    \A p \in Promises : place[p[1]] = "stopped" /\ holder[p] = p[1] => progress[p] = "settled"

IsolateInv == Origins /\ Storages /\ Fresh /\ Registrations /\ Givens /\ Holding /\ Stops

\* The promises of a request, one for each part and after()'s.
LEMMA PromisesOf ==
    /\ \A r \in Requests, piece \in Parts : <<r, piece>> \in Promises /\ <<r, piece>> \in Contexts
    /\ \A r \in Requests : <<r, "after">> \in Promises /\ <<r, "cache">> \in Contexts
    /\ \A p \in Promises : p[1] \in Requests /\ p[2] \in Parts \cup {"after"} /\ p = <<p[1], p[2]>>
    /\ \A c \in Contexts : c[1] \in Requests /\ c = <<c[1], c[2]>>
  BY DEF Promises, Contexts, Parts

\* The invariant holds initially.
LEMMA IsolateInvInit == IsolateInit => IsolateInv
<1> SUFFICES ASSUME IsolateInit PROVE IsolateInv
  OBVIOUS
<1> USE PromisesOf DEF IsolateInit
<1>1. Origins /\ Storages
  BY DEF Origins, Storages, Parts
<1>2. Fresh /\ Registrations /\ Givens
  BY DEF Fresh, Registrations, Registered, Givens, Parts
<1>3. Holding /\ Stops
  BY DEF Holding, Stops, PastMiddleware, PastServer
<1>4. QED
  BY <1>1, <1>2, <1>3 DEF IsolateInv

\* What is asked of the resolver: the origin of the request that asks is set.
LEMMA OriginsStep == IsolateTypeOK /\ Origins /\ [IsolateNext]_isolateVars => Origins'
<1> SUFFICES ASSUME IsolateTypeOK, Origins, [IsolateNext]_isolateVars PROVE Origins'
  OBVIOUS
<1> USE DEF IsolateTypeOK, Origins, MoveTo, environment, promises, Initialize
<1>1. ASSUME NEW r \in Requests, ReadCache(r) \/ WriteCache(r) \/ CacheWritten(r) PROVE Origins'
  BY <1>1, IsolateAssumption DEF ReadCache, WriteCache, CacheWritten
<1>2. ASSUME NEW r \in Requests, NEW url \in Hosts, Fetch(r, url) PROVE Origins'
  BY <1>2, IsolateAssumption DEF Fetch
<1>3. ASSUME NEW r \in Requests, AnswerBefore(r) \/ AnswerElsewhere(r) \/ ImportServer(r) \/ Stop(r) PROVE Origins'
  BY <1>3 DEF AnswerBefore, AnswerElsewhere, ImportServer, Stop
<1>4. ASSUME NEW r \in Requests, EnterMiddleware(r) \/ Serve(r) PROVE Origins'
  BY <1>4 DEF EnterMiddleware, Serve
<1>5. ASSUME NEW r \in Requests, RegisterInMiddleware(r) \/ RegisterInServer(r) \/ CallAfter(r) PROVE Origins'
  BY <1>5 DEF RegisterInMiddleware, RegisterInServer, Register, CallAfter
<1>6. ASSUME NEW r \in Requests, AnswerInMiddleware(r) \/ MiddlewarePasses(r) \/ ServerEnds(r) PROVE Origins'
  BY <1>6 DEF AnswerInMiddleware, MiddlewarePasses, ServerEnds, InitializeResolver
<1>7. ASSUME NEW p \in Promises, WorkSettles(p) PROVE Origins'
  BY <1>7 DEF WorkSettles
<1>8. CASE UNCHANGED isolateVars
  BY <1>8 DEF isolateVars
<1>9. QED
  BY <1>1, <1>2, <1>3, <1>4, <1>5, <1>6, <1>7, <1>8 DEF IsolateNext

\* Contexts and storages.
LEMMA StoragesStep == IsolateTypeOK /\ Storages /\ [IsolateNext]_isolateVars => Storages'
<1> SUFFICES ASSUME IsolateTypeOK, Storages, [IsolateNext]_isolateVars PROVE Storages'
  OBVIOUS
<1> USE PromisesOf DEF IsolateTypeOK, Storages, MoveTo, environment, promises, Parts
<1>1. ASSUME NEW r \in Requests, ReadCache(r) \/ CacheWritten(r) PROVE Storages'
  BY <1>1 DEF ReadCache, CacheWritten
<1>2. ASSUME NEW r \in Requests, WriteCache(r) PROVE Storages'
  BY <1>2 DEF WriteCache, RunWithContext
<1>3. ASSUME NEW r \in Requests, NEW url \in Hosts, Fetch(r, url) PROVE Storages'
  BY <1>3 DEF Fetch
<1>4. ASSUME NEW r \in Requests, AnswerBefore(r) \/ AnswerElsewhere(r) \/ ImportServer(r) \/ Stop(r) PROVE Storages'
  BY <1>4 DEF AnswerBefore, AnswerElsewhere, ImportServer, Stop
<1>5. ASSUME NEW r \in Requests, EnterMiddleware(r) \/ Serve(r) PROVE Storages'
  BY <1>5 DEF EnterMiddleware, Serve, RunWithContext
<1>6. ASSUME NEW r \in Requests, RegisterInMiddleware(r) \/ RegisterInServer(r) \/ CallAfter(r) PROVE Storages'
  BY <1>6 DEF RegisterInMiddleware, RegisterInServer, Register, CallAfter
<1>7. ASSUME NEW r \in Requests, AnswerInMiddleware(r) \/ MiddlewarePasses(r) \/ ServerEnds(r) PROVE Storages'
  BY <1>7 DEF AnswerInMiddleware, MiddlewarePasses, ServerEnds
<1>8. ASSUME NEW p \in Promises, WorkSettles(p) PROVE Storages'
  BY <1>8 DEF WorkSettles
<1>9. CASE UNCHANGED isolateVars
  BY <1>9 DEF isolateVars
<1>10. QED
  BY <1>1, <1>2, <1>3, <1>4, <1>5, <1>6, <1>7, <1>8, <1>9 DEF IsolateNext

\* Promises are made in their part, which has a context.
LEMMA FreshStep ==
    IsolateTypeOK /\ Fresh /\ [IsolateNext]_isolateVars => Fresh'
<1> SUFFICES ASSUME IsolateTypeOK, Fresh, [IsolateNext]_isolateVars
             PROVE  Fresh'
  OBVIOUS
<1> USE PromisesOf DEF IsolateTypeOK, MoveTo, promises, Parts, Fresh, BeforeMiddleware, BeforeServer
<1>1. ASSUME NEW r \in Requests, ReadCache(r) PROVE Fresh'
  BY <1>1 DEF ReadCache
<1>2. ASSUME NEW r \in Requests, WriteCache(r) PROVE Fresh'
  BY <1>2 DEF WriteCache, RunWithContext
<1>3. ASSUME NEW r \in Requests, CacheWritten(r) PROVE Fresh'
  BY <1>3 DEF CacheWritten
<1>4. ASSUME NEW r \in Requests, NEW url \in Hosts, Fetch(r, url) PROVE Fresh'
  BY <1>4 DEF Fetch
<1>5. ASSUME NEW r \in Requests, AnswerBefore(r) PROVE Fresh'
  BY <1>5 DEF AnswerBefore
<1>6. ASSUME NEW r \in Requests, EnterMiddleware(r) PROVE Fresh'
  BY <1>6 DEF EnterMiddleware, RunWithContext
<1>7. ASSUME NEW r \in Requests, RegisterInMiddleware(r) PROVE Fresh'
  BY <1>7 DEF RegisterInMiddleware, Register
<1>8. ASSUME NEW r \in Requests, AnswerInMiddleware(r) PROVE Fresh'
  BY <1>8 DEF AnswerInMiddleware, AwaitAllDetachedPromise
<1>9. ASSUME NEW r \in Requests, MiddlewarePasses(r) PROVE Fresh'
  BY <1>9 DEF MiddlewarePasses, AwaitAllDetachedPromise
<1>10. ASSUME NEW r \in Requests, AnswerElsewhere(r) PROVE Fresh'
  BY <1>10 DEF AnswerElsewhere
<1>11. ASSUME NEW r \in Requests, ImportServer(r) PROVE Fresh'
  BY <1>11 DEF ImportServer
<1>12. ASSUME NEW r \in Requests, Serve(r) PROVE Fresh'
  BY <1>12 DEF Serve, RunWithContext
<1>13. ASSUME NEW r \in Requests, RegisterInServer(r) PROVE Fresh'
  BY <1>13 DEF RegisterInServer, Register
<1>14. ASSUME NEW r \in Requests, CallAfter(r) PROVE Fresh'
  BY <1>14 DEF CallAfter
<1>15. ASSUME NEW r \in Requests, ServerEnds(r) PROVE Fresh'
  BY <1>15 DEF ServerEnds, AwaitAllDetachedPromise
<1>16. ASSUME NEW r \in Requests, Stop(r) PROVE Fresh'
  BY <1>16 DEF Stop
<1>17. ASSUME NEW p \in Promises, WorkSettles(p) PROVE Fresh'
  BY <1>17 DEF WorkSettles
<1>18. CASE UNCHANGED isolateVars
  BY <1>18 DEF isolateVars
<1>19. QED
  BY <1>1, <1>2, <1>3, <1>4, <1>5, <1>6, <1>7, <1>8, <1>9, <1>10, <1>11, <1>12, <1>13, <1>14, <1>15, <1>16, <1>17, <1>18 DEF IsolateNext

\* The runner of a part is given the promises of the part.
LEMMA RegistrationsStep ==
    IsolateTypeOK /\ Registrations /\ Fresh /\ Storages /\ [IsolateNext]_isolateVars => Registrations'
<1> SUFFICES ASSUME IsolateTypeOK, Registrations, Fresh, Storages, [IsolateNext]_isolateVars
             PROVE  Registrations'
  OBVIOUS
<1> USE PromisesOf DEF IsolateTypeOK, MoveTo, promises, Parts, Registrations, Registered, Fresh, Storages, BeforeMiddleware, BeforeServer, HasStore
<1>1. ASSUME NEW r \in Requests, ReadCache(r) PROVE Registrations'
  BY <1>1 DEF ReadCache
<1>2. ASSUME NEW r \in Requests, WriteCache(r) PROVE Registrations'
  BY <1>2 DEF WriteCache, RunWithContext
<1>3. ASSUME NEW r \in Requests, CacheWritten(r) PROVE Registrations'
  BY <1>3 DEF CacheWritten
<1>4. ASSUME NEW r \in Requests, NEW url \in Hosts, Fetch(r, url) PROVE Registrations'
  BY <1>4 DEF Fetch
<1>5. ASSUME NEW r \in Requests, AnswerBefore(r) PROVE Registrations'
  BY <1>5 DEF AnswerBefore
<1>6. ASSUME NEW r \in Requests, EnterMiddleware(r) PROVE Registrations'
  BY <1>6 DEF EnterMiddleware, RunWithContext
<1>7. ASSUME NEW r \in Requests, RegisterInMiddleware(r) PROVE Registrations'
  BY <1>7 DEF RegisterInMiddleware, Register
<1>8. ASSUME NEW r \in Requests, AnswerInMiddleware(r) PROVE Registrations'
  BY <1>8 DEF AnswerInMiddleware, AwaitAllDetachedPromise
<1>9. ASSUME NEW r \in Requests, MiddlewarePasses(r) PROVE Registrations'
  BY <1>9 DEF MiddlewarePasses, AwaitAllDetachedPromise
<1>10. ASSUME NEW r \in Requests, AnswerElsewhere(r) PROVE Registrations'
  BY <1>10 DEF AnswerElsewhere
<1>11. ASSUME NEW r \in Requests, ImportServer(r) PROVE Registrations'
  BY <1>11 DEF ImportServer
<1>12. ASSUME NEW r \in Requests, Serve(r) PROVE Registrations'
  BY <1>12 DEF Serve, RunWithContext
<1>13. ASSUME NEW r \in Requests, RegisterInServer(r) PROVE Registrations'
  BY <1>13 DEF RegisterInServer, Register
<1>14. ASSUME NEW r \in Requests, CallAfter(r) PROVE Registrations'
  BY <1>14 DEF CallAfter
<1>15. ASSUME NEW r \in Requests, ServerEnds(r) PROVE Registrations'
  BY <1>15 DEF ServerEnds, AwaitAllDetachedPromise
<1>16. ASSUME NEW r \in Requests, Stop(r) PROVE Registrations'
  BY <1>16 DEF Stop
<1>17. ASSUME NEW p \in Promises, WorkSettles(p) PROVE Registrations'
  BY <1>17 DEF WorkSettles
<1>18. CASE UNCHANGED isolateVars
  BY <1>18 DEF isolateVars
<1>19. QED
  BY <1>1, <1>2, <1>3, <1>4, <1>5, <1>6, <1>7, <1>8, <1>9, <1>10, <1>11, <1>12, <1>13, <1>14, <1>15, <1>16, <1>17, <1>18 DEF IsolateNext

\* A promise is given away once it is made.
LEMMA GivensStep ==
    IsolateTypeOK /\ Givens /\ [IsolateNext]_isolateVars => Givens'
<1> SUFFICES ASSUME IsolateTypeOK, Givens, [IsolateNext]_isolateVars
             PROVE  Givens'
  OBVIOUS
<1> USE PromisesOf DEF IsolateTypeOK, MoveTo, promises, Parts, Givens
<1>1. ASSUME NEW r \in Requests, ReadCache(r) PROVE Givens'
  BY <1>1 DEF ReadCache
<1>2. ASSUME NEW r \in Requests, WriteCache(r) PROVE Givens'
  BY <1>2 DEF WriteCache, RunWithContext
<1>3. ASSUME NEW r \in Requests, CacheWritten(r) PROVE Givens'
  BY <1>3 DEF CacheWritten
<1>4. ASSUME NEW r \in Requests, NEW url \in Hosts, Fetch(r, url) PROVE Givens'
  BY <1>4 DEF Fetch
<1>5. ASSUME NEW r \in Requests, AnswerBefore(r) PROVE Givens'
  BY <1>5 DEF AnswerBefore
<1>6. ASSUME NEW r \in Requests, EnterMiddleware(r) PROVE Givens'
  BY <1>6 DEF EnterMiddleware, RunWithContext
<1>7. ASSUME NEW r \in Requests, RegisterInMiddleware(r) PROVE Givens'
  BY <1>7 DEF RegisterInMiddleware, Register
<1>8. ASSUME NEW r \in Requests, AnswerInMiddleware(r) PROVE Givens'
  BY <1>8 DEF AnswerInMiddleware, AwaitAllDetachedPromise
<1>9. ASSUME NEW r \in Requests, MiddlewarePasses(r) PROVE Givens'
  BY <1>9 DEF MiddlewarePasses, AwaitAllDetachedPromise
<1>10. ASSUME NEW r \in Requests, AnswerElsewhere(r) PROVE Givens'
  BY <1>10 DEF AnswerElsewhere
<1>11. ASSUME NEW r \in Requests, ImportServer(r) PROVE Givens'
  BY <1>11 DEF ImportServer
<1>12. ASSUME NEW r \in Requests, Serve(r) PROVE Givens'
  BY <1>12 DEF Serve, RunWithContext
<1>13. ASSUME NEW r \in Requests, RegisterInServer(r) PROVE Givens'
  BY <1>13 DEF RegisterInServer, Register
<1>14. ASSUME NEW r \in Requests, CallAfter(r) PROVE Givens'
  BY <1>14 DEF CallAfter
<1>15. ASSUME NEW r \in Requests, ServerEnds(r) PROVE Givens'
  BY <1>15 DEF ServerEnds, AwaitAllDetachedPromise
<1>16. ASSUME NEW r \in Requests, Stop(r) PROVE Givens'
  BY <1>16 DEF Stop
<1>17. ASSUME NEW p \in Promises, WorkSettles(p) PROVE Givens'
  BY <1>17 DEF WorkSettles
<1>18. CASE UNCHANGED isolateVars
  BY <1>18 DEF isolateVars
<1>19. QED
  BY <1>1, <1>2, <1>3, <1>4, <1>5, <1>6, <1>7, <1>8, <1>9, <1>10, <1>11, <1>12, <1>13, <1>14, <1>15, <1>16, <1>17, <1>18 DEF IsolateNext

\* Past a part, its promises are the request's own.
LEMMA HoldingStep ==
    IsolateTypeOK /\ Holding /\ Registrations /\ Fresh /\ Storages /\ [IsolateNext]_isolateVars => Holding'
<1> SUFFICES ASSUME IsolateTypeOK, Holding, Registrations, Fresh, Storages, [IsolateNext]_isolateVars
             PROVE  Holding'
  OBVIOUS
<1> USE PromisesOf DEF IsolateTypeOK, MoveTo, promises, Parts, Holding, Held, Registrations, Registered, Fresh, Storages, BeforeMiddleware, BeforeServer, PastMiddleware, PastServer, HasStore
<1>1. ASSUME NEW r \in Requests, ReadCache(r) PROVE Holding'
  BY <1>1 DEF ReadCache
<1>2. ASSUME NEW r \in Requests, WriteCache(r) PROVE Holding'
  BY <1>2 DEF WriteCache, RunWithContext
<1>3. ASSUME NEW r \in Requests, CacheWritten(r) PROVE Holding'
  BY <1>3 DEF CacheWritten
<1>4. ASSUME NEW r \in Requests, NEW url \in Hosts, Fetch(r, url) PROVE Holding'
  BY <1>4 DEF Fetch
<1>5. ASSUME NEW r \in Requests, AnswerBefore(r) PROVE Holding'
  BY <1>5 DEF AnswerBefore
<1>6. ASSUME NEW r \in Requests, EnterMiddleware(r) PROVE Holding'
  BY <1>6 DEF EnterMiddleware, RunWithContext
<1>7. ASSUME NEW r \in Requests, RegisterInMiddleware(r) PROVE Holding'
  BY <1>7 DEF RegisterInMiddleware, Register
<1>8. ASSUME NEW r \in Requests, AnswerInMiddleware(r) PROVE Holding'
  BY <1>8 DEF AnswerInMiddleware, AwaitAllDetachedPromise
<1>9. ASSUME NEW r \in Requests, MiddlewarePasses(r) PROVE Holding'
  BY <1>9 DEF MiddlewarePasses, AwaitAllDetachedPromise
<1>10. ASSUME NEW r \in Requests, AnswerElsewhere(r) PROVE Holding'
  BY <1>10 DEF AnswerElsewhere
<1>11. ASSUME NEW r \in Requests, ImportServer(r) PROVE Holding'
  <2>1. \A q \in Requests, piece \in Parts : Held(q, piece) => Held(q, piece)'
    BY <1>11 DEF ImportServer
  <2>2. \A q \in Requests : place'[q] # place[q] => q = r /\ place[r] = "passed" /\ place'[r] = "imported"
    BY <1>11 DEF ImportServer
  <2>3. \A q \in Requests :
           /\ place'[q] \in PastMiddleware => place[q] \in PastMiddleware
           /\ place'[q] \in PastServer => place[q] \in PastServer
    BY <2>2
  <2>4. \A q \in Requests :
           /\ place'[q] \in PastMiddleware => Held(q, "middleware")
           /\ place'[q] \in PastServer => Held(q, "server")
    BY <2>3
  <2>5. QED
    BY <2>1, <2>4
<1>12. ASSUME NEW r \in Requests, Serve(r) PROVE Holding'
  BY <1>12 DEF Serve, RunWithContext
<1>13. ASSUME NEW r \in Requests, RegisterInServer(r) PROVE Holding'
  BY <1>13 DEF RegisterInServer, Register
<1>14. ASSUME NEW r \in Requests, CallAfter(r) PROVE Holding'
  BY <1>14 DEF CallAfter
<1>15. ASSUME NEW r \in Requests, ServerEnds(r) PROVE Holding'
  BY <1>15 DEF ServerEnds, AwaitAllDetachedPromise
<1>16. ASSUME NEW r \in Requests, Stop(r) PROVE Holding'
  <2>1. \A q \in Requests, piece \in Parts : Held(q, piece) => Held(q, piece)'
    BY <1>16 DEF Stop
  <2>2. \A q \in Requests : place'[q] # place[q] => q = r /\ place[r] = "returned" /\ place'[r] = "stopped"
    BY <1>16 DEF Stop
  <2>3. \A q \in Requests :
           /\ place'[q] \in PastMiddleware => place[q] \in PastMiddleware
           /\ place'[q] \in PastServer => place[q] \in PastServer
    BY <2>2
  <2>4. \A q \in Requests :
           /\ place'[q] \in PastMiddleware => Held(q, "middleware")
           /\ place'[q] \in PastServer => Held(q, "server")
    BY <2>3
  <2>5. QED
    BY <2>1, <2>4
<1>17. ASSUME NEW p \in Promises, WorkSettles(p) PROVE Holding'
  BY <1>17 DEF WorkSettles
<1>18. CASE UNCHANGED isolateVars
  BY <1>18 DEF isolateVars
<1>19. QED
  BY <1>1, <1>2, <1>3, <1>4, <1>5, <1>6, <1>7, <1>8, <1>9, <1>10, <1>11, <1>12, <1>13, <1>14, <1>15, <1>16, <1>17, <1>18 DEF IsolateNext

\* A request outlives the promises that it was given of its own.
LEMMA StopsStep ==
    IsolateTypeOK /\ Stops /\ Givens /\ Fresh /\ [IsolateNext]_isolateVars => Stops'
<1> SUFFICES ASSUME IsolateTypeOK, Stops, Givens, Fresh, [IsolateNext]_isolateVars
             PROVE  Stops'
  OBVIOUS
<1> USE PromisesOf DEF IsolateTypeOK, MoveTo, promises, Parts, Stops, Givens, Fresh, BeforeMiddleware, BeforeServer
<1>1. ASSUME NEW r \in Requests, ReadCache(r) PROVE Stops'
  BY <1>1, IsolateAssumption DEF ReadCache
<1>2. ASSUME NEW r \in Requests, WriteCache(r) PROVE Stops'
  BY <1>2 DEF WriteCache, RunWithContext
<1>3. ASSUME NEW r \in Requests, CacheWritten(r) PROVE Stops'
  <2>1. \A p \in Promises : p[1] = r => progress[p] = "none"
    <3>1. \A piece \in Parts \cup {"after"} : progress[<<r, piece>>] = "none"
      BY <1>3 DEF CacheWritten
    <3>2. ASSUME NEW p \in Promises, p[1] = r PROVE p[2] \in Parts \cup {"after"} /\ p = <<r, p[2]>>
      BY <3>2
    <3>3. ASSUME NEW p \in Promises, p[1] = r PROVE progress[p] = "none"
      <4>1. PICK piece \in Parts \cup {"after"} : p = <<r, piece>>
        BY <3>2, <3>3
      <4>2. QED
        BY <3>1, <4>1
    <3>4. QED
      BY <3>3
  <2>2. \A p \in Promises : p[1] = r => holder[p] # r
    BY <2>1, IsolateAssumption
  <2>3. \A p \in Promises : p[1] # r => place'[p[1]] = place[p[1]]
    BY <1>3 DEF CacheWritten
  <2>4. progress' = progress /\ holder' = holder
    BY <1>3 DEF CacheWritten
  <2>5. QED
    BY <2>2, <2>3, <2>4
<1>4. ASSUME NEW r \in Requests, NEW url \in Hosts, Fetch(r, url) PROVE Stops'
  BY <1>4 DEF Fetch
<1>5. ASSUME NEW r \in Requests, AnswerBefore(r) PROVE Stops'
  BY <1>5 DEF AnswerBefore
<1>6. ASSUME NEW r \in Requests, EnterMiddleware(r) PROVE Stops'
  BY <1>6 DEF EnterMiddleware, RunWithContext
<1>7. ASSUME NEW r \in Requests, RegisterInMiddleware(r) PROVE Stops'
  BY <1>7 DEF RegisterInMiddleware, Register
<1>8. ASSUME NEW r \in Requests, AnswerInMiddleware(r) PROVE Stops'
  BY <1>8 DEF AnswerInMiddleware, AwaitAllDetachedPromise
<1>9. ASSUME NEW r \in Requests, MiddlewarePasses(r) PROVE Stops'
  BY <1>9 DEF MiddlewarePasses, AwaitAllDetachedPromise
<1>10. ASSUME NEW r \in Requests, AnswerElsewhere(r) PROVE Stops'
  BY <1>10 DEF AnswerElsewhere
<1>11. ASSUME NEW r \in Requests, ImportServer(r) PROVE Stops'
  BY <1>11 DEF ImportServer
<1>12. ASSUME NEW r \in Requests, Serve(r) PROVE Stops'
  BY <1>12 DEF Serve, RunWithContext
<1>13. ASSUME NEW r \in Requests, RegisterInServer(r) PROVE Stops'
  BY <1>13 DEF RegisterInServer, Register
<1>14. ASSUME NEW r \in Requests, CallAfter(r) PROVE Stops'
  BY <1>14 DEF CallAfter
<1>15. ASSUME NEW r \in Requests, ServerEnds(r) PROVE Stops'
  BY <1>15 DEF ServerEnds, AwaitAllDetachedPromise
<1>16. ASSUME NEW r \in Requests, Stop(r) PROVE Stops'
  BY <1>16 DEF Stop
<1>17. ASSUME NEW p \in Promises, WorkSettles(p) PROVE Stops'
  BY <1>17 DEF WorkSettles
<1>18. CASE UNCHANGED isolateVars
  BY <1>18 DEF isolateVars
<1>19. QED
  BY <1>1, <1>2, <1>3, <1>4, <1>5, <1>6, <1>7, <1>8, <1>9, <1>10, <1>11, <1>12, <1>13, <1>14, <1>15, <1>16, <1>17, <1>18 DEF IsolateNext

\* The invariant holds in every state.
LEMMA IsolateInvariance == IsolateSpec => [](IsolateTypeOK /\ IsolateInv)
<1>1. IsolateInit => IsolateTypeOK /\ IsolateInv
  BY IsolateTypeInit, IsolateInvInit
<1>2. IsolateTypeOK /\ IsolateInv /\ [IsolateNext]_isolateVars => (IsolateTypeOK /\ IsolateInv)'
  BY IsolateTypeStep, OriginsStep, StoragesStep, FreshStep, RegistrationsStep, GivensStep, HoldingStep, StopsStep DEF IsolateInv
<1>3. QED
  BY <1>1, <1>2, PTL DEF IsolateSpec

\* The resolver never caches that there is no origin: a request that gets to it has set
\* the origin before, though a call of the cache over RPC may have set up the rest.
THEOREM OriginAlwaysKnown == IsolateSpec => []OriginsKnown
<1>1. IsolateTypeOK /\ IsolateInv => OriginsKnown
  BY IsolateAssumption DEF IsolateInv, Origins, OriginsKnown
<1>2. QED
  BY <1>1, IsolateInvariance, PTL

\* Only another request cuts off a promise: by the import of the server while the request
\* was in the middleware, or by having its waitUntil given away to after().
THEOREM OnlyOthersCut == IsolateSpec => []CutOnlyByOthers
<1>1. IsolateTypeOK /\ IsolateInv => CutOnlyByOthers
  <2> SUFFICES ASSUME IsolateTypeOK, IsolateInv, NEW r \in Requests
               PROVE  /\ Cut(<<r, "middleware">>) =>
                            storage = "server" /\ made[<<r, "middleware">>] = "middleware"
                      /\ ~Cut(<<r, "server">>)
                      /\ Cut(<<r, "after">>) => holder[<<r, "after">>] # r
    BY DEF CutOnlyByOthers
  <2> USE PromisesOf, IsolateAssumption DEF IsolateTypeOK, Cut, Alive, Stopped
  <2>1. ASSUME NEW piece \in Parts, Cut(<<r, piece>>) PROVE ~HasStore(r, piece) /\ made[<<r, piece>>] # "none"
    <3>1. progress[<<r, piece>>] = "pending" /\ place[r] = "stopped"
      BY <2>1
    <3>2. holder[<<r, piece>>] # r
      BY <3>1 DEF IsolateInv, Stops
    <3>3. QED
      BY <3>1, <3>2 DEF IsolateInv, Holding, Held, Registrations, Registered, PastMiddleware, PastServer, Parts
  <2>2. Cut(<<r, "middleware">>) => storage = "server" /\ made[<<r, "middleware">>] = "middleware"
    BY <2>1 DEF IsolateInv, Storages, HasStore, Parts
  <2>3. ~Cut(<<r, "server">>)
    BY <2>1 DEF IsolateInv, Storages, HasStore, Parts
  <2>4. Cut(<<r, "after">>) => holder[<<r, "after">>] # r
    BY DEF IsolateInv, Stops
  <2>5. QED
    BY <2>2, <2>3, <2>4
<1>2. QED
  BY <1>1, IsolateInvariance, PTL

-----------------------------------------------------------------------------
(* Build *)

\* The files are of this build.
OfBuild(files) == \A f \in files : disk[f] = build

\* The files of this build that a step finds, besides those that the one before found.
ConfigFiles == {"config"} \cup IF setup.edgeCompiles THEN {"edgeConfig"} ELSE {}
AtNext == ConfigFiles \cup {"cache.cjs"}
AtRouting == AtNext \cup {".next"}
AtBeforeServerBundle == AtRouting \cup {"routing"}
AtMiddleware ==
    AtBeforeServerBundle
    \cup IF OnCloudflare THEN {"next-env", "runtime", "cache-function", "cache-entrypoint"} ELSE {}
AtStaticAssets == AtMiddleware \cup {IF setup.external THEN "middleware" ELSE "middleware.mjs"}
AtCacheAssets == AtStaticAssets \cup {"assets"}
Provides == ~setup.disableIncrementalCache /\ ShouldUseTagCache
AtProvider == AtCacheAssets \cup IF Provides THEN {"provider-data"} ELSE {}
AtFunctions == AtProvider \cup IF Provides THEN {"provider"} ELSE {}
AtBundles ==
    AtFunctions \cup (Split \ pending)
    \cup IF \E f \in Split : Runtime(f) = "deno" THEN {"cache.mjs"} ELSE {}
AtAfterServerBundle == AtFunctions \cup Split \cup {"default"}
AtImage == AtAfterServerBundle \cup {"revalidation"}
AtCacheFunction == AtImage \cup {"image"}
AtWarmer == AtCacheFunction \cup IF setup.disableIncrementalCache THEN {} ELSE {"cache-function"}
AtOutput == AtWarmer \cup {"warmer"}

Made ==
    /\ at = "next" => OfBuild(AtNext)
    /\ at = "routing" => OfBuild(AtRouting)
    /\ at = "beforeServerBundle" => OfBuild(AtBeforeServerBundle)
    /\ at = "middleware" => OfBuild(AtMiddleware)
    /\ at = "staticAssets" => OfBuild(AtStaticAssets)
    /\ at = "cacheAssets" => OfBuild(AtCacheAssets)
    /\ at = "provider" => OfBuild(AtProvider)
    /\ at = "functions" => OfBuild(AtFunctions)
    /\ at = "bundles" => OfBuild(AtBundles)
    /\ at = "afterServerBundle" => OfBuild(AtAfterServerBundle)
    /\ at = "revalidation" => OfBuild(AtAfterServerBundle)
    /\ at = "image" => OfBuild(AtImage)
    /\ at = "cacheFunction" => OfBuild(AtCacheFunction)
    /\ at = "warmer" => OfBuild(AtWarmer)
    /\ at \in {"output", "naming"} => OfBuild(AtOutput)

\* What no step of this build has made yet does not exist.
Unmade ==
    /\ at \in {"modifyConfig", "next", "routing", "beforeServerBundle"} => disk["next-env"] = 0
    /\ at \in {"modifyConfig", "next", "routing", "beforeServerBundle", "middleware", "staticAssets", "cacheAssets",
               "provider", "functions", "bundles", "afterServerBundle", "revalidation", "image"} => disk["image"] = 0
    /\ at \notin {"command", "failed"} => (disk["provider-data"] > 0 => Provides)

\* Once the command has started Next.js, the configuration is one that it accepts, and
\* the output directory has nothing of an earlier build.
Accepted ==
    at \notin {"command", "failed"} =>
        /\ ~ \E f \in Split : FatalSplittedFunction(f)
        /\ UsesEdgeRuntime \/ OnCloudflare => setup.edgeCompiles
        /\ OnCloudflare => EnsureCloudflareConfig
        /\ OnCloudflare /\ setup.skipNextBuild => at = "done"

\* A build that fell back to a configuration for Node has none for the edge, and does
\* not get past the middleware that asks for it.
ToMiddleware == {"next", "routing", "beforeServerBundle", "middleware"}
Stuck ==
    /\ FallsShort => at \in {"command", "modifyConfig", "failed"} \cup ToMiddleware
    /\ at \in ToMiddleware /\ ~setup.edgeCompiles => disk["edgeConfig"] = 0

Emptied == at \notin {"command", "failed"} => \A f \in OutputFiles : disk[f] \in {0, build}

\* After onBuildComplete's server bundles the adapters part.
Parted ==
    /\ at \in {"revalidation", "image", "cacheFunction", "warmer", "output", "naming"} => ~OnCloudflare
    /\ output.written => at = "done"

BuildInv ==
    /\ BuildTypeOK
    /\ Accepted
    /\ Stuck
    /\ Emptied
    /\ Made
    /\ Unmade
    /\ Parted
    /\ FailsOnlyByTools
    /\ WorkerComplete
    /\ OutputResolves

\* What was made of files of this build is of this build.
LEMMA OldestFresh ==
    ASSUME BuildTypeOK, NEW files, OfBuild(files)
    PROVE  Oldest(files) = build
<1>1. {disk[f] : f \in files} \cup {build} = {build}
  BY DEF OfBuild
<1>2. build \in Nat
  BY DEF BuildTypeOK
<1>3. Min({build}) = build
  BY <1>2 DEF Min
<1>4. QED
  BY <1>1, <1>3 DEF Oldest

\* A file is present if it is of this build.
LEMMA FreshPresent ==
    ASSUME BuildTypeOK, NEW files, files \subseteq Files, OfBuild(files)
    PROVE  files \subseteq Present
  BY DEF BuildTypeOK, OfBuild, Present

\* A job that reads files of this build does not fail, and what it writes is of this build.
LEMMA JobDone ==
    ASSUME BuildTypeOK, NEW have, have \subseteq Files, OfBuild(have),
           NEW j, j.reads \subseteq have, NEW following, Perform(j, following)
    PROVE  /\ UNCHANGED <<setup, build, cause, pending, late, output>>
           /\ at' = following
           /\ disk' = [f \in Files |-> IF f \in j.writes THEN build ELSE disk[f]]
<1>1. OfBuild(j.reads) /\ j.reads \subseteq Files
  BY DEF OfBuild
<1>2. Oldest(j.reads) = build
  BY <1>1, OldestFresh
<1>3. j.reads \subseteq Present
  BY <1>1, FreshPresent
<1>4. QED
  BY <1>2, <1>3 DEF Perform

AfterMiddleware ==
    {"staticAssets", "cacheAssets", "provider", "functions", "bundles", "afterServerBundle", "revalidation",
     "image", "cacheFunction", "warmer", "output", "naming"}

\* The step is over: the files it found, and those it wrote, are of this build, and what
\* is known of the configuration and of the output directory is known still.
Advances(have, writes, following) ==
    /\ UNCHANGED <<setup, build, pending, late, output>>
    /\ at' = following
    /\ \A f \in Files : disk'[f] = IF f \in writes THEN build ELSE disk[f]
    /\ \A f \in have \cup writes : disk'[f] = build'
    /\ BuildTypeOK' /\ Accepted' /\ Stuck' /\ Emptied' /\ FailsOnlyByTools' /\ OutputResolves'
    /\ ~output'.written

\* Whether a build falls short is a matter of its configuration.
LEMMA SameShort == ASSUME setup' = setup PROVE FallsShort' = FallsShort
  BY DEF FallsShort, UsesEdgeRuntime, Split, Runtime, OnCloudflare

\* A job that found its files keeps what is known, on the way to the middleware without
\* an edge configuration that was not compiled, and after it with nothing missing.
LEMMA JobKeeps ==
    ASSUME BuildInv, at \notin {"command", "failed", "done"},
           NEW have, have \subseteq Files, OfBuild(have),
           NEW j, j.reads \subseteq have, j.writes \subseteq Files, NEW following, Perform(j, following),
           \/ at \in ToMiddleware /\ following \in ToMiddleware /\ "edgeConfig" \notin j.writes
           \/ ~FallsShort /\ following \in AfterMiddleware \cup {"done"}
    PROVE  Advances(have, j.writes, following)
<1>1. /\ UNCHANGED <<setup, build, cause, pending, late, output>>
      /\ at' = following
      /\ disk' = [f \in Files |-> IF f \in j.writes THEN build ELSE disk[f]]
  BY JobDone DEF BuildInv
<1>2. BuildTypeOK'
  <2>1. build \in Nat /\ disk \in [Files -> 0 .. build]
    BY DEF BuildInv, BuildTypeOK
  <2>2. disk' \in [Files -> 0 .. build']
    BY <1>1, <2>1
  <2>3. QED
    BY <1>1, <2>2 DEF BuildInv, BuildTypeOK, Split, Unawaited
<1>3. Accepted'
  BY <1>1 DEF BuildInv, Accepted, Split, FatalSplittedFunction, Runtime, UsesEdgeRuntime, OnCloudflare,
              EnsureCloudflareConfig
<1>4. Emptied'
  BY <1>1 DEF BuildInv, Emptied, Files
<1>5. ~output'.written /\ OutputResolves'
  BY <1>1 DEF BuildInv, Parted, OutputResolves
<1>6. \A f \in have \cup j.writes : disk'[f] = build'
  BY <1>1 DEF OfBuild
<1>7. FallsShort' = FallsShort /\ setup'.edgeCompiles = setup.edgeCompiles
  BY <1>1, SameShort
<1>8. Stuck'
  <2>1. "edgeConfig" \in Files
    BY DEF Files, OutputFiles, BuildDir
  <2>2. CASE at \in ToMiddleware /\ following \in ToMiddleware /\ "edgeConfig" \notin j.writes
    BY <1>1, <1>7, <2>1, <2>2 DEF BuildInv, Stuck
  <2>3. CASE ~FallsShort /\ following \in AfterMiddleware \cup {"done"}
    BY <1>1, <1>7, <2>3 DEF Stuck, ToMiddleware, AfterMiddleware
  <2>4. QED
    BY <2>2, <2>3
<1>9. FailsOnlyByTools'
  BY <1>1, <1>7, <1>8 DEF BuildInv, FailsOnlyByTools, Stuck, ToMiddleware
<1>10. QED
  BY <1>1, <1>2, <1>3, <1>4, <1>5, <1>6, <1>8, <1>9 DEF Advances

\* After the middleware nothing is missing, so the steps there only advance.
LEMMA LaterJobKeeps ==
    ASSUME BuildInv, at \in AfterMiddleware,
           NEW have, have \subseteq Files, OfBuild(have),
           NEW j, j.reads \subseteq have, j.writes \subseteq Files,
           NEW following \in AfterMiddleware \cup {"done"}, Perform(j, following)
    PROVE  Advances(have, j.writes, following)
<1>1. ~FallsShort /\ at \notin {"command", "failed", "done"}
  BY DEF BuildInv, Stuck, AfterMiddleware, ToMiddleware
<1>2. QED
  BY <1>1, JobKeeps

\* The same of the steps there that are no jobs.
LEMMA LaterKeeps ==
    ASSUME BuildInv, at \in AfterMiddleware, setup' = setup, cause' = cause, at' \in AfterMiddleware \cup {"done"}
    PROVE  Stuck' /\ FailsOnlyByTools'
<1>1. ~FallsShort /\ FallsShort' = FallsShort
  BY SameShort DEF BuildInv, Stuck, AfterMiddleware, ToMiddleware
<1>2. QED
  BY <1>1 DEF BuildInv, FailsOnlyByTools, Stuck, AfterMiddleware, ToMiddleware

\* A failed step leaves the disk and is followed by no other.
LEMMA FailKeeps ==
    ASSUME BuildInv, NEW reason, reason \in {"tool", "config"} \/ (reason = "no such file" /\ FallsShort),
           Fail(reason), at # "done", UNCHANGED <<setup, build, disk, pending, late, output>>
    PROVE  BuildInv'
<1>1. BuildTypeOK'
  BY DEF BuildInv, BuildTypeOK, Split, Unawaited
<1>2. at' = "failed" /\ cause' = reason
  BY DEF Fail
<1>3. ~output'.written
  BY DEF BuildInv, Parted
<1>4. Stuck' /\ FailsOnlyByTools'
  BY <1>2, SameShort DEF Stuck, FailsOnlyByTools, ToMiddleware
<1>5. QED
  BY <1>1, <1>2, <1>3, <1>4 DEF BuildInv, Accepted, Emptied, Made, Unmade, Parted, WorkerComplete, OutputResolves

\* What the steps find are files.
LEMMA FoundAreFiles ==
    /\ AtCacheAssets \subseteq Files
    /\ AtFunctions \subseteq Files
    /\ AtBundles \subseteq Files
    /\ AtOutput \subseteq Files
<1>1. AtCacheAssets \subseteq Files
  BY DEF AtCacheAssets, AtStaticAssets, AtMiddleware, AtBeforeServerBundle, AtRouting, AtNext, ConfigFiles,
         Files, NextFiles, OutputFiles, BuildDir, Bundles, FixedBundles
<1>2. AtFunctions \subseteq Files
  BY <1>1 DEF AtFunctions, AtProvider, Files, OutputFiles, Bundles, FixedBundles
<1>3. AtBundles \subseteq Files
  BY <1>2 DEF AtBundles, Split, Files, OutputFiles, BuildDir, Bundles
<1>4. AtOutput \subseteq Files
  BY <1>2 DEF AtOutput, AtWarmer, AtCacheFunction, AtImage, AtAfterServerBundle, Split, Files, OutputFiles, Bundles,
              FixedBundles
<1>5. QED
  BY <1>1, <1>2, <1>3, <1>4

\* next build and the routing configuration.
LEMMA NextSteps == BuildInv /\ (NextBuild \/ CreateRoutingConfig) => BuildInv'
<1> SUFFICES ASSUME BuildInv, NextBuild \/ CreateRoutingConfig PROVE BuildInv'
  OBVIOUS
<1> USE DEF Job
<1>1. AtNext \subseteq Files /\ AtRouting \subseteq Files /\ NextFiles \subseteq Files
  BY FoundAreFiles DEF AtCacheAssets, AtStaticAssets, AtMiddleware, AtBeforeServerBundle, AtRouting, Files
<1>2. CASE NextBuild
  <2>1. Advances(AtNext, {".next"}, "routing")
    BY <1>1, <1>2, JobKeeps DEF NextBuild, BuildInv, Made, NextFiles, ToMiddleware
  <2>2. Made'
    BY <2>1 DEF Advances, Made, OfBuild, AtRouting, AtNext, ConfigFiles, UsesEdgeRuntime, OnCloudflare,
       Split, Runtime, Provides, ShouldUseTagCache
  <2>3. Unmade' /\ Parted' /\ WorkerComplete'
    BY <1>2, <2>1 DEF NextBuild, Advances, BuildInv, Unmade, Parted, WorkerComplete, Provides,
       ShouldUseTagCache, Split, Runtime, OnCloudflare, Files, OutputFiles, Bundles, FixedBundles
  <2>4. QED
    BY <2>1, <2>2, <2>3 DEF BuildInv, Advances
<1>3. CASE CreateRoutingConfig
  <2>1. Advances(AtRouting, {"routing"}, "beforeServerBundle")
    BY <1>1, <1>3, JobKeeps DEF CreateRoutingConfig, BuildInv, Made, NextFiles, AtRouting, ToMiddleware
  <2>2. Made'
    BY <2>1 DEF Advances, Made, OfBuild, AtBeforeServerBundle, AtRouting, AtNext, ConfigFiles,
       UsesEdgeRuntime, OnCloudflare, Split, Runtime, Provides, ShouldUseTagCache
  <2>3. Unmade' /\ Parted' /\ WorkerComplete'
    BY <1>3, <2>1 DEF CreateRoutingConfig, Advances, BuildInv, Unmade, Parted, WorkerComplete, Provides,
       ShouldUseTagCache, Split, Runtime, OnCloudflare, Files, OutputFiles, Bundles, FixedBundles
  <2>4. QED
    BY <2>1, <2>2, <2>3 DEF BuildInv, Advances
<1>4. QED
  BY <1>2, <1>3

\* The jobs of the Cloudflare adapter before the middleware.
LEMMA BeforeServerStep == BuildInv /\ (BeforeServerBundle) => BuildInv'
<1> SUFFICES ASSUME BuildInv, BeforeServerBundle PROVE BuildInv'
  OBVIOUS
<1> USE DEF Job
<1>1. AtBeforeServerBundle \subseteq Files /\ {"next-env", "runtime", "cache-function", "cache-entrypoint"} \subseteq Files
  BY FoundAreFiles DEF AtCacheAssets, AtStaticAssets, AtMiddleware, Files, OutputFiles, Bundles, FixedBundles
<1>2. CASE BeforeServerBundle
  <2>1. Advances(AtBeforeServerBundle, IF OnCloudflare THEN {"next-env", "runtime", "cache-function", "cache-entrypoint"} ELSE {}, "middleware")
    <3>1. CASE OnCloudflare
      <4> DEFINE job == Then(Then(CompileEnvFiles, CompileRuntime), BuildCacheFunction)
      <4>1. Perform(job, "middleware")
        BY <1>2, <3>1 DEF BeforeServerBundle, When
      <4>2. disk["next-env"] = 0 /\ OfBuild(AtBeforeServerBundle) /\ at = "beforeServerBundle"
        BY <1>2 DEF BeforeServerBundle, BuildInv, Unmade, Made
      <4>3. {"config", "edgeConfig", ".next"} \subseteq AtBeforeServerBundle
        BY <3>1, <4>2 DEF BuildInv, Accepted, AtBeforeServerBundle, AtRouting, AtNext, ConfigFiles
      <4>4. job.reads \subseteq AtBeforeServerBundle
        BY <4>2, <4>3 DEF Then, When, Idle, CompileEnvFiles, CompileRuntime, BuildCacheFunction, CreateCacheBundle,
                          CopyOpenNextConfig
      <4>5. job.writes = {"next-env", "runtime", "cache-function", "cache-entrypoint"}
        BY <4>2 DEF Then, When, Idle, CompileEnvFiles, CompileRuntime, BuildCacheFunction, CreateCacheBundle,
                    CopyOpenNextConfig
      <4>6. Advances(AtBeforeServerBundle, job.writes, "middleware")
        BY <1>1, <4>1, <4>2, <4>4, <4>5, JobKeeps DEF ToMiddleware
      <4>7. QED
        BY <3>1, <4>5, <4>6
    <3>2. CASE ~OnCloudflare
      BY <1>1, <1>2, <3>2, JobKeeps DEF BeforeServerBundle, BuildInv, Made, When, Idle, ToMiddleware
    <3>3. QED
      BY <3>1, <3>2
  <2>2. Made'
    BY <2>1 DEF Advances, Made, OfBuild, AtMiddleware, AtBeforeServerBundle, AtRouting, AtNext, ConfigFiles,
       UsesEdgeRuntime, OnCloudflare, Split, Runtime, Provides, ShouldUseTagCache
  <2>3. Unmade' /\ Parted' /\ WorkerComplete'
    BY <1>2, <2>1 DEF BeforeServerBundle, Advances, BuildInv, Unmade, Parted, WorkerComplete, Provides,
       ShouldUseTagCache, Split, Runtime, OnCloudflare, Files, OutputFiles, Bundles, FixedBundles
  <2>4. QED
    BY <2>1, <2>2, <2>3 DEF BuildInv, Advances
<1>3. QED
  BY <1>2

\* The middleware is bundled for where it runs; if its wrapper asks for the edge
\* configuration that was not compiled, that is missing.
LEMMA MiddlewareStep == BuildInv /\ (CreateMiddleware) => BuildInv'
<1> SUFFICES ASSUME BuildInv, CreateMiddleware PROVE BuildInv'
  OBVIOUS
<1> USE DEF Job
<1>1. AtMiddleware \subseteq Files /\ {"middleware", "middleware.mjs"} \subseteq Files
  BY FoundAreFiles DEF AtCacheAssets, AtStaticAssets, Files, OutputFiles, BuildDir, Bundles, FixedBundles
<1>2. CASE ~FallsShort
  <2>1. Advances(AtMiddleware, {IF setup.external THEN "middleware" ELSE "middleware.mjs"}, "staticAssets")
    <3>1. /\ {".next", "routing", "config"} \subseteq AtMiddleware
          /\ setup.external /\ (OnCloudflare \/ setup.edgeWrapper) => "edgeConfig" \in AtMiddleware
      BY <1>2 DEF CreateMiddleware, FallsShort, BuildInv, Accepted, AtMiddleware, AtBeforeServerBundle, AtRouting, AtNext,
                  ConfigFiles
    <3>2. OfBuild(AtMiddleware) /\ at = "middleware" /\ "staticAssets" \in AfterMiddleware
      BY DEF CreateMiddleware, BuildInv, Made, AfterMiddleware
    <3>3. setup.external \in BOOLEAN
      BY DEF BuildInv, BuildTypeOK, SetupType
    <3>4. CASE setup.middleware = "node" /\ setup.external
      <4>1. Perform(BuildExternalNodeMiddleware, "staticAssets")
        BY <3>4 DEF CreateMiddleware
      <4>2. BuildExternalNodeMiddleware.reads \subseteq AtMiddleware
        BY <3>1, <3>4 DEF Then, BuildExternalNodeMiddleware, CopyOpenNextConfig, IsEdgeRuntime
      <4>3. BuildExternalNodeMiddleware.writes = {IF setup.external THEN "middleware" ELSE "middleware.mjs"}
        BY <3>4 DEF Then, BuildExternalNodeMiddleware, CopyOpenNextConfig, IsEdgeRuntime
      <4>4. QED
        BY <1>1, <1>2, <3>2, <4>1, <4>2, <4>3, JobKeeps
    <3>5. CASE setup.middleware = "node" /\ ~setup.external
      <4>1. Perform(BuildBundledNodeMiddleware, "staticAssets")
        BY <3>5 DEF CreateMiddleware
      <4>2. BuildBundledNodeMiddleware.reads \subseteq AtMiddleware
        BY <3>1 DEF BuildBundledNodeMiddleware
      <4>3. BuildBundledNodeMiddleware.writes = {IF setup.external THEN "middleware" ELSE "middleware.mjs"}
        BY <3>5 DEF BuildBundledNodeMiddleware
      <4>4. QED
        BY <1>1, <1>2, <3>2, <4>1, <4>2, <4>3, JobKeeps
    <3>6. CASE setup.middleware # "node" /\ setup.external
      <4> DEFINE job == Then(Then(CopyMiddlewareResources, CopyOpenNextConfig(IsEdgeRuntime)), BuildEdgeBundle("middleware"))
      <4>1. Perform(job, "staticAssets")
        BY <3>6 DEF CreateMiddleware
      <4>2. job.reads \subseteq AtMiddleware
        BY <3>1, <3>6 DEF Then, CopyMiddlewareResources, BuildEdgeBundle, CopyOpenNextConfig, IsEdgeRuntime
      <4>3. job.writes = {IF setup.external THEN "middleware" ELSE "middleware.mjs"}
        BY <3>6 DEF Then, CopyMiddlewareResources, BuildEdgeBundle, CopyOpenNextConfig, IsEdgeRuntime
      <4>4. QED
        BY <1>1, <1>2, <3>2, <4>1, <4>2, <4>3, JobKeeps
    <3>7. CASE setup.middleware # "node" /\ ~setup.external
      <4>1. Perform(BuildEdgeBundle("middleware.mjs"), "staticAssets")
        BY <3>7 DEF CreateMiddleware
      <4>2. BuildEdgeBundle("middleware.mjs").reads \subseteq AtMiddleware
        BY <3>1 DEF BuildEdgeBundle
      <4>3. BuildEdgeBundle("middleware.mjs").writes = {IF setup.external THEN "middleware" ELSE "middleware.mjs"}
        BY <3>7 DEF BuildEdgeBundle
      <4>4. QED
        BY <1>1, <1>2, <3>2, <4>1, <4>2, <4>3, JobKeeps
    <3>8. QED
      BY <3>4, <3>5, <3>6, <3>7, <3>3
  <2>2. Made'
    BY <2>1 DEF Advances, Made, OfBuild, AtStaticAssets, AtMiddleware, AtBeforeServerBundle, AtRouting,
       AtNext, ConfigFiles, UsesEdgeRuntime, OnCloudflare, Split, Runtime, Provides, ShouldUseTagCache
  <2>3. Unmade' /\ Parted' /\ WorkerComplete'
    BY <2>1 DEF CreateMiddleware, Advances, BuildInv, Unmade, Parted, WorkerComplete, Provides,
       ShouldUseTagCache, Split, Runtime, OnCloudflare, Files, OutputFiles, Bundles, FixedBundles
  <2>4. QED
    BY <2>1, <2>2, <2>3 DEF BuildInv, Advances
<1>3. CASE FallsShort
  <2>1. at = "middleware" /\ setup.external /\ IsEdgeRuntime /\ disk["edgeConfig"] = 0
    BY <1>3 DEF CreateMiddleware, FallsShort, IsEdgeRuntime, BuildInv, Stuck, ToMiddleware
  <2>2. "edgeConfig" \notin Present
    BY <2>1 DEF Present
  <2>3. Fail("no such file") /\ UNCHANGED <<setup, build, disk, pending, late, output>>
    <3>1. CASE setup.middleware = "node"
      <4>1. Perform(BuildExternalNodeMiddleware, "staticAssets")
        BY <2>1, <3>1 DEF CreateMiddleware
      <4>2. "edgeConfig" \in BuildExternalNodeMiddleware.reads
        BY <2>1 DEF BuildExternalNodeMiddleware, Then, CopyOpenNextConfig
      <4>3. QED
        BY <2>2, <4>1, <4>2 DEF Perform
    <3>2. CASE setup.middleware # "node"
      <4> DEFINE job == Then(Then(CopyMiddlewareResources, CopyOpenNextConfig(IsEdgeRuntime)), BuildEdgeBundle("middleware"))
      <4>1. Perform(job, "staticAssets")
        BY <2>1, <3>2 DEF CreateMiddleware
      <4>2. "edgeConfig" \in job.reads
        BY <2>1 DEF CopyMiddlewareResources, BuildEdgeBundle, Then, CopyOpenNextConfig
      <4>3. QED
        BY <2>2, <4>1, <4>2 DEF Perform
    <3>3. QED
      BY <3>1, <3>2
  <2>4. QED
    BY <1>3, <2>1, <2>3, FailKeeps
<1>4. QED
  BY <1>2, <1>3

\* The assets, the cache and the provider of the tags.
LEMMA AssetSteps == BuildInv /\ (CreateStaticAssets \/ CreateCacheAssets \/ CompileTagCacheProvider) => BuildInv'
<1> SUFFICES ASSUME BuildInv, CreateStaticAssets \/ CreateCacheAssets \/ CompileTagCacheProvider PROVE BuildInv'
  OBVIOUS
<1> USE DEF Job, AfterMiddleware
<1>1. AtCacheAssets \subseteq Files /\ AtFunctions \subseteq Files /\ {"assets", "cache", "provider-data", "provider"} \subseteq Files
  BY FoundAreFiles DEF Files, OutputFiles, BuildDir, Bundles, FixedBundles
<1>2. CASE CreateStaticAssets
  <2>1. Advances(AtStaticAssets, {"assets"}, "cacheAssets")
    <3>1. OfBuild(AtStaticAssets) /\ AtStaticAssets \subseteq Files /\ ".next" \in AtStaticAssets
      BY <1>1, <1>2 DEF CreateStaticAssets, BuildInv, Made, AtCacheAssets, AtStaticAssets, AtMiddleware,
                        AtBeforeServerBundle, AtRouting
    <3>2. QED
      BY <1>1, <1>2, <3>1, LaterJobKeeps DEF CreateStaticAssets
  <2>2. Made'
    BY <2>1 DEF Advances, Made, OfBuild, AtCacheAssets, AtStaticAssets, AtMiddleware, AtBeforeServerBundle,
       AtRouting, AtNext, ConfigFiles, UsesEdgeRuntime, OnCloudflare, Split, Runtime, Provides,
       ShouldUseTagCache
  <2>3. Unmade' /\ Parted' /\ WorkerComplete'
    BY <1>2, <2>1 DEF CreateStaticAssets, Advances, BuildInv, Unmade, Parted, WorkerComplete, Provides,
       ShouldUseTagCache, Split, Runtime, OnCloudflare, Files, OutputFiles, Bundles, FixedBundles
  <2>4. QED
    BY <2>1, <2>2, <2>3 DEF BuildInv, Advances
<1>3. CASE CreateCacheAssets
  <2>1. Advances(AtCacheAssets, (IF setup.disableIncrementalCache THEN {} ELSE {"cache"}) \cup (IF Provides THEN {"provider-data"} ELSE {}), "provider")
    <3> DEFINE tags == When(ShouldUseTagCache, Then(CopyOpenNextConfig(FALSE), Job({}, {"provider-data"})))
               job == When(~setup.disableIncrementalCache, Then(Job({".next"}, {"cache"}), tags))
    <3>1. OfBuild(AtCacheAssets) /\ {".next", "config"} \subseteq AtCacheAssets
      BY <1>3 DEF CreateCacheAssets, BuildInv, Made, AtCacheAssets, AtStaticAssets, AtMiddleware, AtBeforeServerBundle,
                  AtRouting, AtNext, ConfigFiles
    <3>2. tags.reads \subseteq {"config"} /\ tags.writes = IF ShouldUseTagCache THEN {"provider-data"} ELSE {}
      BY DEF When, Then, Idle, CopyOpenNextConfig
    <3>3. job.reads \subseteq {".next", "config"}
      BY <3>2 DEF When, Then, Idle
    <3>4. job.writes = (IF setup.disableIncrementalCache THEN {} ELSE {"cache"}) \cup (IF Provides THEN {"provider-data"} ELSE {})
      BY <3>2 DEF When, Then, Idle, Provides
    <3>5. Perform(job, "provider") /\ at \in AfterMiddleware
      BY <1>3 DEF CreateCacheAssets
    <3>6. Advances(AtCacheAssets, job.writes, "provider")
      BY <1>1, <3>1, <3>3, <3>4, <3>5, LaterJobKeeps
    <3>7. QED
      BY <3>4, <3>6
  <2>2. Made'
    BY <2>1 DEF Advances, Made, OfBuild, AtProvider, AtCacheAssets, AtStaticAssets, AtMiddleware,
       AtBeforeServerBundle, AtRouting, AtNext, ConfigFiles, UsesEdgeRuntime, OnCloudflare, Split, Runtime,
       Provides, ShouldUseTagCache
  <2>3. Unmade' /\ Parted' /\ WorkerComplete'
    BY <1>3, <2>1 DEF CreateCacheAssets, Advances, BuildInv, Unmade, Parted, WorkerComplete, Provides,
       ShouldUseTagCache, Split, Runtime, OnCloudflare, Files, OutputFiles, Bundles, FixedBundles
  <2>4. QED
    BY <2>1, <2>2, <2>3 DEF BuildInv, Advances
<1>4. CASE CompileTagCacheProvider
  <2>1. Advances(AtProvider, IF Provides THEN {"provider"} ELSE {}, "functions")
    <3> DEFINE job == When(Provides, Job({"provider-data"}, {"provider"}))
    <3>1. OfBuild(AtProvider) /\ AtProvider \subseteq Files /\ (Provides => "provider-data" \in AtProvider)
      BY <1>1, <1>4 DEF CompileTagCacheProvider, BuildInv, Made, AtProvider, AtFunctions
    <3>2. job.reads \subseteq AtProvider /\ job.writes = IF Provides THEN {"provider"} ELSE {}
      BY <3>1 DEF When, Idle
    <3>3. Perform(job, "functions") /\ at \in AfterMiddleware
      BY <1>4 DEF CompileTagCacheProvider, Provides
    <3>4. Advances(AtProvider, job.writes, "functions")
      BY <1>1, <3>1, <3>2, <3>3, LaterJobKeeps
    <3>5. QED
      BY <3>2, <3>4
  <2>2. Made'
    BY <2>1 DEF Advances, Made, OfBuild, AtFunctions, AtProvider, AtCacheAssets, AtStaticAssets,
       AtMiddleware, AtBeforeServerBundle, AtRouting, AtNext, ConfigFiles, UsesEdgeRuntime, OnCloudflare,
       Split, Runtime, Provides, ShouldUseTagCache
  <2>3. Unmade' /\ Parted' /\ WorkerComplete'
    BY <1>4, <2>1 DEF CompileTagCacheProvider, Advances, BuildInv, Unmade, Parted, WorkerComplete, Provides,
       ShouldUseTagCache, Split, Runtime, OnCloudflare, Files, OutputFiles, Bundles, FixedBundles
  <2>4. QED
    BY <2>1, <2>2, <2>3 DEF BuildInv, Advances
<1>5. QED
  BY <1>2, <1>3, <1>4

\* The configurations and the files that a bundle of the server is made of.
GenerateReads(runtime) ==
    {IF runtime = "deno" THEN "cache.mjs" ELSE "cache.cjs", "routing", ".next",
     IF setup.adapter = "cloudflare" THEN "edgeConfig" ELSE "config"}
    \cup IF setup.external THEN {} ELSE {"middleware.mjs"}

\* What generateBundle reads and writes.
LEMMA GenerateJob ==
    ASSUME NEW f, NEW runtime
    PROVE  /\ GenerateBundle(f, runtime).reads \subseteq GenerateReads(runtime)
           /\ GenerateBundle(f, runtime).writes = {f}
  BY DEF GenerateBundle, GenerateReads, Then, Job, CopyOpenNextConfig, CopyAdapterFiles

\* All of it was made before.
LEMMA GenerateFound ==
    ASSUME OnCloudflare => setup.edgeCompiles,
           NEW runtime, runtime = "deno" => \E f \in Split : Runtime(f) = "deno"
    PROVE  GenerateReads(runtime) \subseteq AtBundles
<1>1. {"cache.cjs", "routing", ".next", "config"} \subseteq AtBundles
  BY DEF AtBundles, AtFunctions, AtProvider, AtCacheAssets, AtStaticAssets, AtMiddleware, AtBeforeServerBundle,
         AtRouting, AtNext, ConfigFiles
<1>2. setup.adapter = "cloudflare" => "edgeConfig" \in AtBundles
  BY DEF AtBundles, AtFunctions, AtProvider, AtCacheAssets, AtStaticAssets, AtMiddleware, AtBeforeServerBundle,
         AtRouting, AtNext, ConfigFiles, OnCloudflare
<1>3. ~setup.external => "middleware.mjs" \in AtBundles
  BY DEF AtBundles, AtFunctions, AtProvider, AtCacheAssets, AtStaticAssets
<1>4. runtime = "deno" => "cache.mjs" \in AtBundles
  BY DEF AtBundles
<1>5. QED
  BY <1>1, <1>2, <1>3, <1>4 DEF GenerateReads

\* An edge function of the configuration is bundled with the edge configuration.
LEMMA EdgeJob ==
    ASSUME UsesEdgeRuntime => setup.edgeCompiles, NEW f \in Split, Runtime(f) = "edge"
    PROVE  /\ GenerateEdgeBundle(f).reads \subseteq AtBundles
           /\ GenerateEdgeBundle(f).writes = {f}
<1>1. {"edgeConfig", "routing", ".next"} \subseteq AtBundles
  BY DEF AtBundles, AtFunctions, AtProvider, AtCacheAssets, AtStaticAssets, AtMiddleware, AtBeforeServerBundle,
         AtRouting, AtNext, ConfigFiles, UsesEdgeRuntime
<1>2. QED
  BY <1>1 DEF GenerateEdgeBundle, Then, Job, CopyOpenNextConfig, CopyMiddlewareResources, BuildEdgeBundle

\* The start of the bundles: all are pending, and cache.mjs is compiled for deno.
LEMMA ServerBundleStep == BuildInv /\ CreateServerBundle => BuildInv'
<1> SUFFICES ASSUME BuildInv, CreateServerBundle PROVE BuildInv'
  OBVIOUS
<1>1. /\ UNCHANGED <<setup, build, cause, late, output>> /\ pending' = Split /\ at = "functions" /\ at' = "bundles"
      /\ build \in Nat /\ disk \in [Files -> 0 .. build]
      /\ "cache.mjs" \in OutputFiles /\ OutputFiles \subseteq Files /\ "cache.mjs" \notin Bundles
  BY BuildAssumption DEF CreateServerBundle, BuildInv, BuildTypeOK, Files, OutputFiles, BuildDir, Bundles, FixedBundles
<1>2. /\ disk' \in [Files -> 0 .. build']
      /\ \A f \in Files : f # "cache.mjs" => disk'[f] = disk[f]
      /\ disk'["cache.mjs"] \in {disk["cache.mjs"], build}
      /\ (\E f \in Split : Runtime(f) = "deno") => disk'["cache.mjs"] = build
  BY <1>1 DEF CreateServerBundle
<1>3. BuildTypeOK'
  BY <1>1, <1>2 DEF BuildInv, BuildTypeOK, Split, Unawaited
<1>4. Accepted' /\ Emptied'
  BY <1>1, <1>2 DEF BuildInv, Accepted, Emptied, Split, FatalSplittedFunction, Runtime, UsesEdgeRuntime, OnCloudflare,
                    EnsureCloudflareConfig
<1>5. Made'
  <2>1. OfBuild(AtFunctions) /\ AtFunctions \subseteq Files
    BY <1>1, FoundAreFiles DEF BuildInv, Made
  <2>2. \A f \in AtFunctions : disk'[f] = build
    BY <1>2, <2>1 DEF OfBuild
  <2>3. AtFunctions' = AtFunctions
    BY <1>1 DEF AtFunctions, AtProvider, AtCacheAssets, AtStaticAssets, AtMiddleware, AtBeforeServerBundle,
       AtRouting, AtNext, ConfigFiles, UsesEdgeRuntime, OnCloudflare, Split, Runtime, Provides, ShouldUseTagCache
  <2>4. AtBundles' \subseteq AtFunctions \cup IF \E f \in Split : Runtime(f) = "deno" THEN {"cache.mjs"} ELSE {}
    BY <1>1, <2>3 DEF AtBundles, Split, Runtime
  <2>5. QED
    BY <1>1, <1>2, <2>2, <2>4 DEF Made, OfBuild
<1>6. Unmade' /\ Parted' /\ WorkerComplete' /\ OutputResolves'
  <2>1. disk'["image"] = disk["image"] /\ disk'["provider-data"] = disk["provider-data"]
    BY <1>2 DEF Files, OutputFiles, Bundles, FixedBundles
  <2>2. QED
    BY <1>1, <2>1 DEF BuildInv, Unmade, Parted, WorkerComplete, OutputResolves, Provides, ShouldUseTagCache
<1>7. Stuck' /\ FailsOnlyByTools'
  BY <1>1, LaterKeeps DEF AfterMiddleware
<1>8. QED
  BY <1>3, <1>4, <1>5, <1>6, <1>7 DEF BuildInv

\* The bundle of a split function: the configuration that was accepted has no edge
\* function of several routes, and every file it is made of is there.
LEMMA BundleStep == ASSUME NEW f \in Functions PROVE BuildInv /\ BundleFunction(f) => BuildInv'
<1> SUFFICES ASSUME BuildInv, BundleFunction(f) PROVE BuildInv'
  OBVIOUS
<1> DEFINE job == IF Runtime(f) = "edge" THEN GenerateEdgeBundle(f) ELSE GenerateBundle(f, Runtime(f))
<1>1. /\ at = "bundles" /\ f \in pending /\ f \in Split /\ f \in Files /\ BuildTypeOK
      /\ build \in Nat /\ disk \in [Files -> 0 .. build]
  <2>1. at = "bundles" /\ f \in pending
    BY DEF BundleFunction
  <2>2. QED
    BY <2>1 DEF BuildInv, BuildTypeOK, Files, OutputFiles, Bundles
<1>2. ~(Runtime(f) = "edge" /\ setup.functions[f].routes > 1)
  BY <1>1 DEF BuildInv, Accepted, FatalSplittedFunction
<1>3. job.reads \subseteq AtBundles
  <2>1. UsesEdgeRuntime \/ OnCloudflare => setup.edgeCompiles
    BY <1>1 DEF BuildInv, Accepted
  <2>2. QED
    BY <1>1, <2>1, EdgeJob, GenerateJob, GenerateFound
<1>4. OfBuild(job.reads) /\ job.reads \subseteq Files
  BY <1>1, <1>3, FoundAreFiles DEF BuildInv, Made, OfBuild
<1>5. job.reads \subseteq Present /\ Oldest(job.reads) = build
  BY <1>1, <1>4, FreshPresent, OldestFresh
<1>6. /\ disk' = [disk EXCEPT ![f] = build] /\ pending' = pending \ {f}
      /\ UNCHANGED <<setup, build, at, cause, late, output>>
  BY <1>2, <1>5 DEF BundleFunction
<1>7. disk' \in [Files -> 0 .. build'] /\ \A g \in Files : disk'[g] = IF g = f THEN build ELSE disk[g]
  BY <1>1, <1>6
<1>8. BuildTypeOK'
  BY <1>6, <1>7 DEF BuildInv, BuildTypeOK, Split, Unawaited
<1>9. Accepted' /\ Emptied'
  BY <1>6, <1>7 DEF BuildInv, Accepted, Emptied, Split, FatalSplittedFunction, Runtime, UsesEdgeRuntime, OnCloudflare,
                    EnsureCloudflareConfig, Files
<1>10. Made'
  <2>1. AtBundles' \subseteq AtBundles \cup {f}
    <3>1. AtFunctions' = AtFunctions
      BY <1>6 DEF AtFunctions, AtProvider, AtCacheAssets, AtStaticAssets, AtMiddleware, AtBeforeServerBundle,
         AtRouting, AtNext, ConfigFiles, UsesEdgeRuntime, OnCloudflare, Split, Runtime, Provides, ShouldUseTagCache
    <3>2. QED
      BY <1>6, <3>1 DEF AtBundles, Split, Runtime
  <2>2. \A g \in AtBundles \cup {f} : disk'[g] = build'
    BY <1>1, <1>6, <1>7, FoundAreFiles DEF BuildInv, Made, OfBuild
  <2>3. QED
    BY <1>1, <1>6, <2>1, <2>2 DEF Made, OfBuild
<1>11. Unmade' /\ Parted' /\ WorkerComplete' /\ OutputResolves'
  <2>1. disk'["image"] = disk["image"] /\ disk'["provider-data"] = disk["provider-data"]
    BY <1>7, BuildAssumption DEF Files, OutputFiles, Bundles, FixedBundles
  <2>2. QED
    BY <1>1, <1>6, <2>1 DEF BuildInv, Unmade, Parted, WorkerComplete, OutputResolves, Provides, ShouldUseTagCache
<1>12. Stuck' /\ FailsOnlyByTools'
  BY <1>1, <1>6, LaterKeeps DEF AfterMiddleware
<1>13. QED
  BY <1>8, <1>9, <1>10, <1>11, <1>12 DEF BuildInv

\* The default bundle comes when no split function is pending: then every one is bundled.
LEMMA DefaultStep == BuildInv /\ DefaultBundle => BuildInv'
<1> SUFFICES ASSUME BuildInv, DefaultBundle PROVE BuildInv'
  OBVIOUS
<1>1. Advances(AtBundles, {"default"}, "afterServerBundle")
  <2>1. GenerateReads("node") \subseteq AtBundles /\ AtBundles \subseteq Files /\ "default" \in Files
    BY GenerateFound, FoundAreFiles DEF DefaultBundle, BuildInv, Accepted, Files, OutputFiles, Bundles, FixedBundles
  <2>2. /\ OfBuild(AtBundles) /\ Perform(GenerateBundle("default", "node"), "afterServerBundle")
        /\ at \in AfterMiddleware
    BY DEF DefaultBundle, BuildInv, Made, AfterMiddleware
  <2>3. /\ GenerateBundle("default", "node").reads \subseteq AtBundles
        /\ GenerateBundle("default", "node").writes = {"default"}
    BY <2>1, GenerateJob
  <2>4. QED
    BY <2>1, <2>2, <2>3, LaterJobKeeps DEF AfterMiddleware
<1>2. Made'
  <2>1. AtAfterServerBundle' \subseteq AtBundles \cup {"default"}
    <3>1. AtFunctions' = AtFunctions /\ Split' = Split
      BY <1>1 DEF Advances, AtFunctions, AtProvider, AtCacheAssets, AtStaticAssets, AtMiddleware, AtBeforeServerBundle,
         AtRouting, AtNext, ConfigFiles, UsesEdgeRuntime, OnCloudflare, Split, Runtime, Provides, ShouldUseTagCache
    <3>2. pending = {}
      BY DEF DefaultBundle
    <3>3. QED
      BY <3>1, <3>2 DEF AtBundles, AtAfterServerBundle
  <2>2. QED
    BY <1>1, <2>1 DEF Advances, Made, OfBuild
<1>3. Unmade' /\ Parted' /\ WorkerComplete'
  BY <1>1 DEF DefaultBundle, Advances, BuildInv, Unmade, Parted, WorkerComplete, Provides,
     ShouldUseTagCache, Files, OutputFiles, Bundles, FixedBundles
<1>4. QED
  BY <1>1, <1>2, <1>3 DEF BuildInv, Advances

\* What the adapters add; the Cloudflare adapter ends here, with what the worker imports.
LEMMA AfterServerStep == BuildInv /\ AfterServerBundle => BuildInv'
<1> SUFFICES ASSUME BuildInv, AfterServerBundle PROVE BuildInv'
  OBVIOUS
<1> USE DEF Job, AfterMiddleware
<1> DEFINE durable == Then(CompileDurableObjects, BundleServer)
           container == Then(CompileContainer, CopyPackageCliFiles)
<1>1. /\ OfBuild(AtAfterServerBundle) /\ AtAfterServerBundle \subseteq Files
      /\ at = "afterServerBundle" /\ setup.adapter \in Adapters
  BY FoundAreFiles DEF AfterServerBundle, BuildInv, BuildTypeOK, SetupType, Made, AtOutput, AtWarmer, AtCacheFunction, AtImage
<1>2. /\ durable.reads \subseteq AtAfterServerBundle /\ durable.writes = {"durable-objects", "worker", "handler"}
      /\ container.reads \subseteq AtAfterServerBundle /\ container.writes = {"container", "worker"}
  <2>1. {".next", "default"} \subseteq AtAfterServerBundle
    BY DEF AtAfterServerBundle, AtFunctions, AtProvider, AtCacheAssets, AtStaticAssets, AtMiddleware,
       AtBeforeServerBundle, AtRouting
  <2>2. QED
    BY <2>1 DEF Then, CompileDurableObjects, BundleServer, CompileContainer, CopyPackageCliFiles
<1>3. {"durable-objects", "worker", "handler", "container"} \subseteq Files
  BY DEF Files, OutputFiles, BuildDir, Bundles, FixedBundles
<1> HIDE DEF durable, container
<1>4. CASE setup.adapter = "cloudflare"
  <2>1. Perform(durable, "done")
    BY <1>4 DEF AfterServerBundle, OnCloudflare, durable
  <2>2. Advances(AtAfterServerBundle, {"durable-objects", "worker", "handler"}, "done")
    BY <1>1, <1>2, <1>3, <2>1, LaterJobKeeps
  <2>3. Made' /\ Unmade' /\ Parted'
    BY <1>1, <1>4, <2>2 DEF Advances, BuildInv, Made, Unmade, Parted, OfBuild, AtAfterServerBundle, AtFunctions, AtProvider, AtCacheAssets, AtStaticAssets, AtMiddleware,
       AtBeforeServerBundle, AtRouting, AtNext, ConfigFiles, UsesEdgeRuntime, OnCloudflare, Split, Runtime, Provides, ShouldUseTagCache,
       Files, OutputFiles, Bundles, FixedBundles
  <2>4. WorkerComplete'
    <3>1. CASE setup.external
      <4>1. WorkerImports' \subseteq AtAfterServerBundle \cup {"durable-objects", "worker", "handler"}
        BY <1>4, <2>2, <3>1 DEF Advances, WorkerImports, AtAfterServerBundle, AtFunctions, AtProvider, AtCacheAssets,
           AtStaticAssets, AtMiddleware, OnCloudflare
      <4>2. \A g \in AtAfterServerBundle \cup {"durable-objects", "worker", "handler"} : g \in Files /\ disk'[g] = build' /\ build' > 0
        BY <1>1, <1>3, <2>2 DEF Advances, BuildTypeOK
      <4>3. QED
        BY <1>1, <2>2, <4>1, <4>2 DEF WorkerComplete, Present, BuildInv, Accepted, Advances, OnCloudflare
    <3>2. CASE ~setup.external
      BY <1>1, <1>4, <2>2, <3>2 DEF Advances, BuildInv, Accepted, EnsureCloudflareConfig, OnCloudflare, WorkerComplete
    <3>3. QED
      BY <3>1, <3>2
  <2>5. QED
    BY <2>2, <2>3, <2>4 DEF BuildInv, Advances
<1>5. CASE setup.adapter = "container"
  <2>1. Perform(container, "done")
    BY <1>5 DEF AfterServerBundle, OnCloudflare, container
  <2>2. Advances(AtAfterServerBundle, {"container", "worker"}, "done")
    BY <1>1, <1>2, <1>3, <2>1, LaterJobKeeps
  <2>3. Made' /\ Unmade' /\ Parted'
    BY <1>1, <1>5, <2>2 DEF Advances, BuildInv, Made, Unmade, Parted, OfBuild, AtAfterServerBundle, AtFunctions, AtProvider, AtCacheAssets, AtStaticAssets, AtMiddleware,
       AtBeforeServerBundle, AtRouting, AtNext, ConfigFiles, UsesEdgeRuntime, OnCloudflare, Split, Runtime, Provides, ShouldUseTagCache,
       Files, OutputFiles, Bundles, FixedBundles
  <2>4. WorkerComplete'
    <3>1. CASE setup.external
      <4>1. WorkerImports' \subseteq AtAfterServerBundle \cup {"container", "worker"}
        BY <1>5, <2>2, <3>1 DEF Advances, WorkerImports, AtAfterServerBundle, AtFunctions, AtProvider, AtCacheAssets,
           AtStaticAssets, AtMiddleware, OnCloudflare
      <4>2. \A g \in AtAfterServerBundle \cup {"container", "worker"} : g \in Files /\ disk'[g] = build' /\ build' > 0
        BY <1>1, <1>3, <2>2 DEF Advances, BuildTypeOK
      <4>3. QED
        BY <1>1, <2>2, <4>1, <4>2 DEF WorkerComplete, Present, BuildInv, Accepted, Advances, OnCloudflare
    <3>2. CASE ~setup.external
      BY <1>1, <1>5, <2>2, <3>2 DEF Advances, BuildInv, Accepted, EnsureCloudflareConfig, OnCloudflare, WorkerComplete
    <3>3. QED
      BY <3>1, <3>2
  <2>5. QED
    BY <2>2, <2>3, <2>4 DEF BuildInv, Advances
<1>6. CASE setup.adapter = "aws"
  <2>1. Perform(Idle, "revalidation")
    BY <1>6 DEF AfterServerBundle, OnCloudflare
  <2>2. Advances(AtAfterServerBundle, {}, "revalidation")
    BY <1>1, <2>1, LaterJobKeeps DEF Idle
  <2>3. Made' /\ Unmade' /\ Parted'
    BY <1>1, <1>6, <2>2 DEF Advances, BuildInv, Made, Unmade, Parted, OfBuild, AtAfterServerBundle, AtFunctions, AtProvider, AtCacheAssets, AtStaticAssets, AtMiddleware,
       AtBeforeServerBundle, AtRouting, AtNext, ConfigFiles, UsesEdgeRuntime, OnCloudflare, Split, Runtime, Provides, ShouldUseTagCache,
       Files, OutputFiles, Bundles, FixedBundles
  <2>4. QED
    BY <2>2, <2>3 DEF BuildInv, Advances, WorkerComplete
<1>7. QED
  BY <1>1, <1>4, <1>5, <1>6 DEF Adapters

\* The functions that only the AWS adapter has; the image bundle does not exist yet.
LEMMA FunctionSteps == BuildInv /\ (CreateRevalidationBundle \/ CreateImageOptimizationBundle \/ CacheBundle \/ CreateWarmerBundle) => BuildInv'
<1> SUFFICES ASSUME BuildInv, CreateRevalidationBundle \/ CreateImageOptimizationBundle \/ CacheBundle \/ CreateWarmerBundle PROVE BuildInv'
  OBVIOUS
<1> USE DEF Job, AfterMiddleware
<1>1. /\ AtOutput \subseteq Files /\ AtWarmer \subseteq Files /\ AtCacheFunction \subseteq Files
      /\ AtImage \subseteq Files /\ AtAfterServerBundle \subseteq Files
      /\ {"revalidation", "image", "cache-function", "warmer"} \subseteq Files
      /\ {".next", "config"} \subseteq AtAfterServerBundle
  BY FoundAreFiles DEF AtOutput, AtWarmer, AtCacheFunction, AtImage, AtAfterServerBundle, AtFunctions, AtProvider,
     AtCacheAssets, AtStaticAssets, AtMiddleware, AtBeforeServerBundle, AtRouting, AtNext, ConfigFiles, Files, OutputFiles,
     Bundles, FixedBundles
<1>2. CASE CreateRevalidationBundle
  <2>1. Advances(AtAfterServerBundle, {"revalidation"}, "image")
    <3>1. OfBuild(AtAfterServerBundle) /\ {".next", "config"} \subseteq AtAfterServerBundle /\ at \in AfterMiddleware
      BY <1>1, <1>2 DEF CreateRevalidationBundle, BuildInv, Made
    <3> DEFINE job == Then(CopyOpenNextConfig(FALSE), Job({".next"}, {"revalidation"}))
    <3>2. job.reads \subseteq {".next", "config"} /\ job.writes = {"revalidation"}
      BY DEF Then, CopyOpenNextConfig
    <3>3. Perform(job, "image")
      BY <1>2 DEF CreateRevalidationBundle
    <3>4. QED
      BY <1>1, <3>1, <3>2, <3>3, LaterJobKeeps
  <2>2. Made'
    BY <2>1 DEF Advances, Made, OfBuild, AtImage, AtAfterServerBundle, AtFunctions, AtProvider,
       AtCacheAssets, AtStaticAssets, AtMiddleware, AtBeforeServerBundle, AtRouting, AtNext, ConfigFiles,
       UsesEdgeRuntime, OnCloudflare, Split, Runtime, Provides, ShouldUseTagCache
  <2>3. Unmade' /\ Parted' /\ WorkerComplete'
    BY <1>2, <2>1 DEF CreateRevalidationBundle, Advances, BuildInv, Unmade, Parted, WorkerComplete,
       Provides, ShouldUseTagCache, Split, Runtime, OnCloudflare, Files, OutputFiles, Bundles, FixedBundles
  <2>4. QED
    BY <2>1, <2>2, <2>3 DEF BuildInv, Advances
<1>3. CASE CreateImageOptimizationBundle
  <2>1. Advances(AtImage, {"image"}, "cacheFunction")
    <3>1. OfBuild(AtImage) /\ {".next", "config"} \subseteq AtImage /\ at \in AfterMiddleware
      BY <1>1, <1>3 DEF CreateImageOptimizationBundle, BuildInv, Made, AtImage
    <3> DEFINE job == Then(CopyOpenNextConfig(FALSE), Job({".next"}, {"image"}))
    <3>2. job.reads \subseteq {".next", "config"} /\ job.writes = {"image"}
      BY DEF Then, CopyOpenNextConfig
    <3>3. Perform(job, "cacheFunction")
      <4>1. ~(disk["image"] > 0)
        BY <1>3 DEF CreateImageOptimizationBundle, BuildInv, Unmade
      <4>2. QED
        BY <1>3, <4>1, Zenon DEF CreateImageOptimizationBundle
    <3>4. QED
      BY <1>1, <3>1, <3>2, <3>3, LaterJobKeeps
  <2>2. Made'
    BY <2>1 DEF Advances, Made, OfBuild, AtCacheFunction, AtImage, AtAfterServerBundle, AtFunctions,
       AtProvider, AtCacheAssets, AtStaticAssets, AtMiddleware, AtBeforeServerBundle, AtRouting, AtNext,
       ConfigFiles, UsesEdgeRuntime, OnCloudflare, Split, Runtime, Provides, ShouldUseTagCache
  <2>3. Unmade' /\ Parted' /\ WorkerComplete'
    BY <1>3, <2>1 DEF CreateImageOptimizationBundle, Advances, BuildInv, Unmade, Parted, WorkerComplete,
       Provides, ShouldUseTagCache, Split, Runtime, OnCloudflare, Files, OutputFiles, Bundles, FixedBundles
  <2>4. QED
    BY <2>1, <2>2, <2>3 DEF BuildInv, Advances
<1>4. CASE CacheBundle
  <2>1. Advances(AtCacheFunction, IF setup.disableIncrementalCache THEN {} ELSE {"cache-function"}, "warmer")
    <3>1. OfBuild(AtCacheFunction) /\ {".next", "config"} \subseteq AtCacheFunction /\ at \in AfterMiddleware
      BY <1>1, <1>4 DEF CacheBundle, BuildInv, Made, AtCacheFunction, AtImage
    <3> DEFINE job == When(~setup.disableIncrementalCache, CreateCacheBundle)
    <3>2. job.reads \subseteq {".next", "config"} /\ job.writes = IF setup.disableIncrementalCache THEN {} ELSE {"cache-function"}
      BY DEF When, Idle, Then, CreateCacheBundle, CopyOpenNextConfig
    <3>3. Perform(job, "warmer")
      BY <1>4 DEF CacheBundle
    <3>4. QED
      BY <1>1, <3>1, <3>2, <3>3, LaterJobKeeps
  <2>2. Made'
    BY <2>1 DEF Advances, Made, OfBuild, AtWarmer, AtCacheFunction, AtImage, AtAfterServerBundle,
       AtFunctions, AtProvider, AtCacheAssets, AtStaticAssets, AtMiddleware, AtBeforeServerBundle,
       AtRouting, AtNext, ConfigFiles, UsesEdgeRuntime, OnCloudflare, Split, Runtime, Provides,
       ShouldUseTagCache
  <2>3. Unmade' /\ Parted' /\ WorkerComplete'
    BY <1>4, <2>1 DEF CacheBundle, Advances, BuildInv, Unmade, Parted, WorkerComplete, Provides,
       ShouldUseTagCache, Split, Runtime, OnCloudflare, Files, OutputFiles, Bundles, FixedBundles
  <2>4. QED
    BY <2>1, <2>2, <2>3 DEF BuildInv, Advances
<1>5. CASE CreateWarmerBundle
  <2>1. Advances(AtWarmer, {"warmer"}, "output")
    <3>1. OfBuild(AtWarmer) /\ {".next", "config"} \subseteq AtWarmer /\ at \in AfterMiddleware
      BY <1>1, <1>5 DEF CreateWarmerBundle, BuildInv, Made, AtWarmer, AtCacheFunction, AtImage
    <3> DEFINE job == Then(CopyOpenNextConfig(FALSE), Job({}, {"warmer"}))
    <3>2. job.reads \subseteq {".next", "config"} /\ job.writes = {"warmer"}
      BY DEF Then, CopyOpenNextConfig
    <3>3. Perform(job, "output")
      BY <1>5 DEF CreateWarmerBundle
    <3>4. QED
      BY <1>1, <3>1, <3>2, <3>3, LaterJobKeeps
  <2>2. Made'
    BY <2>1 DEF Advances, Made, OfBuild, AtOutput, AtWarmer, AtCacheFunction, AtImage, AtAfterServerBundle,
       AtFunctions, AtProvider, AtCacheAssets, AtStaticAssets, AtMiddleware, AtBeforeServerBundle,
       AtRouting, AtNext, ConfigFiles, UsesEdgeRuntime, OnCloudflare, Split, Runtime, Provides,
       ShouldUseTagCache
  <2>3. Unmade' /\ Parted' /\ WorkerComplete'
    BY <1>5, <2>1 DEF CreateWarmerBundle, Advances, BuildInv, Unmade, Parted, WorkerComplete, Provides,
       ShouldUseTagCache, Split, Runtime, OnCloudflare, Files, OutputFiles, Bundles, FixedBundles
  <2>4. QED
    BY <2>1, <2>2, <2>3 DEF BuildInv, Advances
<1>6. QED
  BY <1>2, <1>3, <1>4, <1>5

\* The output is being named: nothing is written until all that is named is known.
LEMMA NamingSteps == BuildInv /\ (StartOutput \/ \E f \in Functions : LoadOverride(f)) => BuildInv'
<1> SUFFICES ASSUME BuildInv, StartOutput \/ \E f \in Functions : LoadOverride(f) PROVE BuildInv'
  OBVIOUS
<1>1. /\ UNCHANGED <<setup, build, cause, disk, pending, output>> /\ at' = "naming" /\ at \in {"output", "naming"}
      /\ late' \subseteq {f \in Split : Unawaited(f)}
  <2>1. CASE StartOutput
    BY <2>1 DEF StartOutput
  <2>2. ASSUME NEW f \in Functions, LoadOverride(f) PROVE late' = late \ {f} /\ at = "naming"
                                                         /\ UNCHANGED <<setup, build, at, cause, disk, pending, output>>
    BY <2>2 DEF LoadOverride
  <2>3. QED
    BY <2>1, <2>2 DEF BuildInv, BuildTypeOK
<1>2. BuildTypeOK'
  BY <1>1 DEF BuildInv, BuildTypeOK, Split, Unawaited
<1>3. Accepted' /\ Emptied'
  BY <1>1 DEF BuildInv, Accepted, Emptied, Split, FatalSplittedFunction, Runtime, UsesEdgeRuntime, OnCloudflare,
              EnsureCloudflareConfig
<1>4. AtOutput' = AtOutput
  BY <1>1 DEF AtOutput, AtWarmer, AtCacheFunction, AtImage, AtAfterServerBundle, AtFunctions, AtProvider,
     AtCacheAssets, AtStaticAssets, AtMiddleware, AtBeforeServerBundle, AtRouting, AtNext, ConfigFiles, UsesEdgeRuntime,
     OnCloudflare, Split, Runtime, Provides, ShouldUseTagCache
<1>5. Made'
  BY <1>1, <1>4 DEF BuildInv, Made, OfBuild
<1>6. Unmade' /\ Parted' /\ WorkerComplete' /\ OutputResolves'
  BY <1>1 DEF BuildInv, Unmade, Parted, WorkerComplete, OutputResolves, Provides, ShouldUseTagCache, OnCloudflare
<1>7. Stuck' /\ FailsOnlyByTools'
  BY <1>1, LaterKeeps DEF AfterMiddleware
<1>8. QED
  BY <1>2, <1>3, <1>5, <1>6, <1>7 DEF BuildInv

\* All that the output names is of this build, and only late functions are not named.
LEMMA OutputStep == BuildInv /\ WriteOutput => BuildInv'
<1> SUFFICES ASSUME BuildInv, WriteOutput PROVE BuildInv'
  OBVIOUS
<1>1. /\ UNCHANGED <<setup, build, cause, pending, late>> /\ at = "naming" /\ at' = "done"
      /\ output' = BuildOpenNextOutput /\ disk' = [disk EXCEPT !["output"] = build]
  BY DEF WriteOutput
<1>2. /\ build \in Nat /\ disk \in [Files -> 0 .. build]
      /\ "output" \in OutputFiles /\ OutputFiles \subseteq Files /\ "output" \notin Bundles
      /\ Bundles \subseteq Files
  BY BuildAssumption DEF BuildInv, BuildTypeOK, Files, OutputFiles, BuildDir, Bundles, FixedBundles
<1>3. disk' \in [Files -> 0 .. build'] /\ \A f \in Files : disk'[f] = IF f = "output" THEN build ELSE disk[f]
  BY <1>1, <1>2
<1>4. Split \subseteq Functions /\ late \subseteq Split
  BY DEF Split, BuildInv, BuildTypeOK
<1>5. output'.named \subseteq Bundles /\ output'.targets \subseteq Bundles
  BY <1>1, <1>4 DEF BuildOpenNextOutput, External, NamedProps, Bundles, FixedBundles
<1>6. BuildTypeOK'
  BY <1>1, <1>3, <1>5 DEF BuildInv, BuildTypeOK, Split, Unawaited
<1>7. Accepted' /\ Emptied'
  BY <1>1, <1>3 DEF BuildInv, Accepted, Emptied, Split, FatalSplittedFunction, Runtime, UsesEdgeRuntime, OnCloudflare,
              EnsureCloudflareConfig, Files
<1>8. \A b \in output'.named : disk'[b] = build'
  <2>1. OfBuild(AtOutput)
    BY <1>1 DEF BuildInv, Made
  <2>2. disk["provider-data"] # 0 => Provides
    <3>1. disk["provider-data"] \in 0 .. build
      BY <1>2 DEF OutputFiles
    <3>2. QED
      BY <1>1, <1>2, <3>1 DEF BuildInv, Unmade
  <2>3. NamedProps \subseteq AtOutput
    BY <2>2 DEF NamedProps, AtOutput, AtWarmer, AtCacheFunction, AtImage, AtAfterServerBundle, AtFunctions
  <2>4. {"assets", "image", "default"} \cup Split \cup External \subseteq AtOutput
    BY DEF External, AtOutput, AtWarmer, AtCacheFunction, AtImage, AtAfterServerBundle, AtFunctions, AtProvider,
       AtCacheAssets, AtStaticAssets
  <2>5. output'.named \subseteq AtOutput
    BY <1>1, <2>3, <2>4 DEF BuildOpenNextOutput
  <2>6. QED
    BY <1>1, <1>2, <1>3, <1>5, <2>1, <2>5 DEF OfBuild
<1>9. output'.targets \ output'.named \subseteq late'
  BY <1>1 DEF BuildOpenNextOutput
<1>10. Made' /\ Unmade' /\ Parted' /\ WorkerComplete' /\ OutputResolves'
  <2>1. disk'["provider-data"] = disk["provider-data"]
    BY <1>3 DEF Files, OutputFiles
  <2>2. QED
    BY <1>1, <1>8, <1>9, <2>1 DEF BuildInv, Made, Unmade, Parted, WorkerComplete, OutputResolves, Provides,
       ShouldUseTagCache, OnCloudflare
<1>11. Stuck' /\ FailsOnlyByTools'
  BY <1>1, LaterKeeps DEF AfterMiddleware
<1>12. QED
  BY <1>6, <1>7, <1>10, <1>11 DEF BuildInv

\* What is compiled of a configuration that is accepted.
LEMMA Compiled ==
    ASSUME NEW compileEdge \in BOOLEAN, CompileOpenNextConfig(compileEdge) # {}
    PROVE  /\ ~ \E f \in Split : FatalSplittedFunction(f)
           /\ UsesEdgeRuntime \/ compileEdge => setup.edgeCompiles
           /\ CompileOpenNextConfig(compileEdge) =
                {"config"} \cup IF UsesEdgeRuntime \/ compileEdge THEN {"edgeConfig"} ELSE {}
<1>1. ValidateConfig # "throw"
  BY DEF CompileOpenNextConfig
<1>2. ~ \E f \in Split : FatalSplittedFunction(f)
  BY <1>1 DEF ValidateConfig
<1>3. QED
  BY <1>1, <1>2 DEF CompileOpenNextConfig

\* A new output directory has the compiled configuration and nothing else.
LEMMA NewOutputDir ==
    ASSUME BuildTypeOK, NEW compiled \in SUBSET {"config", "edgeConfig"}
    PROVE  /\ InitOutputDir(compiled) \in [Files -> 0 .. build]
           /\ \A f \in OutputFiles : InitOutputDir(compiled)[f] = IF f \in compiled THEN build ELSE 0
  BY DEF InitOutputDir, Files, BuildTypeOK

\* The command empties the output directory when it has accepted the configuration.
LEMMA CommandStep == BuildInv /\ Command => BuildInv'
<1> SUFFICES ASSUME BuildInv, Command PROVE BuildInv'
  OBVIOUS
<1> DEFINE compiled == CompileOpenNextConfig(OnCloudflare)
<1>1. at = "command" /\ UNCHANGED <<setup, build, pending, late, output>>
  BY DEF Command
<1>2. CASE compiled = {} \/ (OnCloudflare /\ ~EnsureCloudflareConfig)
  BY <1>1, <1>2, FailKeeps DEF Command
<1>3. CASE compiled # {} /\ (OnCloudflare => EnsureCloudflareConfig)
  <2>1. /\ disk' = InitOutputDir(compiled) /\ UNCHANGED cause
        /\ at' = IF OnCloudflare /\ setup.skipNextBuild THEN "done" ELSE "modifyConfig"
    BY <1>3 DEF Command
  <2>2. OnCloudflare \in BOOLEAN
    BY DEF OnCloudflare
  <2>3. /\ compiled \in SUBSET {"config", "edgeConfig"}
        /\ ~ \E f \in Split : FatalSplittedFunction(f)
        /\ UsesEdgeRuntime \/ OnCloudflare => setup.edgeCompiles
    BY <1>3, <2>2, Compiled
  <2> HIDE DEF compiled
  <2>4. /\ disk' \in [Files -> 0 .. build]
        /\ \A f \in OutputFiles : disk'[f] = IF f \in compiled THEN build ELSE 0
    BY <2>1, <2>3, NewOutputDir DEF BuildInv
  <2>5. BuildTypeOK'
    BY <1>1, <2>4 DEF BuildInv, BuildTypeOK, Split, Unawaited
  <2>6. Accepted'
    BY <1>1, <1>3, <2>1, <2>3 DEF Accepted, Split, FatalSplittedFunction, Runtime, UsesEdgeRuntime, OnCloudflare,
                            EnsureCloudflareConfig
  <2>7. Emptied'
    BY <1>1, <2>4 DEF Emptied
  <2>8. Unmade'
    <3>1. {"next-env", "image", "provider-data"} \subseteq OutputFiles
      BY DEF OutputFiles, Bundles, FixedBundles
    <3>2. disk'["next-env"] = 0 /\ disk'["image"] = 0 /\ disk'["provider-data"] = 0
      BY <2>3, <2>4, <3>1
    <3>3. QED
      BY <3>2 DEF Unmade
  <2>9. ~output'.written
    BY <1>1 DEF BuildInv, Parted
  <2>10. Made' /\ Parted' /\ OutputResolves'
    BY <1>1, <2>1, <2>9 DEF BuildInv, Made, Parted, OutputResolves, OnCloudflare
  <2>11. Stuck' /\ FailsOnlyByTools'
    <3>1. FallsShort' = FallsShort /\ (FallsShort => ~OnCloudflare)
      BY <1>1, SameShort DEF FallsShort
    <3>2. QED
      BY <2>1, <3>1 DEF BuildInv, Stuck, FailsOnlyByTools, ToMiddleware
  <2>12. WorkerComplete'
    <3>1. CASE OnCloudflare /\ setup.skipNextBuild
      <4>1. WorkerImports' \subseteq OutputFiles \ {"config", "edgeConfig"}
        BY DEF WorkerImports, OutputFiles, BuildDir, Bundles, FixedBundles
      <4>2. \A g \in WorkerImports' : disk'[g] = 0
        BY <2>3, <2>4, <4>1
      <4>3. WorkerImports' \cap Present' = {}
        BY <4>2 DEF Present
      <4>4. QED
        BY <1>1, <3>1, <4>3 DEF WorkerComplete
    <3>2. CASE ~(OnCloudflare /\ setup.skipNextBuild)
      BY <2>1, <3>2 DEF WorkerComplete
    <3>3. QED
      BY <3>1, <3>2
  <2>13. QED
    BY <2>5, <2>6, <2>7, <2>8, <2>10, <2>11, <2>12 DEF BuildInv
<1>4. QED
  BY <1>2, <1>3

\* The hook compiles the configuration again, which was accepted: it does not fail, and
\* has compiled it for the edge runtime if anything uses that.
LEMMA ModifyConfigStep == BuildInv /\ ModifyConfig => BuildInv'
<1> SUFFICES ASSUME BuildInv, ModifyConfig PROVE BuildInv'
  OBVIOUS
<1> DEFINE first == CompileOpenNextConfig(TRUE)
           compiled == IF first # {} THEN first ELSE CompileOpenNextConfig(FALSE)
<1>1. at = "modifyConfig" /\ UNCHANGED <<setup, build, pending, late, output>>
  BY DEF ModifyConfig
<1>2. CASE compiled = {}
  BY <1>1, <1>2, FailKeeps DEF ModifyConfig
<1>3. CASE compiled # {}
  <2>1. /\ disk' = [InitOutputDir(compiled) EXCEPT !["cache.cjs"] = build] /\ UNCHANGED cause /\ at' = "next"
    BY <1>3 DEF ModifyConfig
  <2>2. compiled \subseteq {"config", "edgeConfig"} /\ compiled = ConfigFiles
    <3>1. CASE first # {}
      BY <3>1, Compiled DEF ConfigFiles
    <3>2. CASE first = {}
      <4>1. ~setup.edgeCompiles
        <5>1. ValidateConfig # "throw"
          BY <1>1 DEF BuildInv, Accepted, ValidateConfig
        <5>2. QED
          BY <3>2, <5>1 DEF CompileOpenNextConfig
      <4>2. ~UsesEdgeRuntime /\ ~OnCloudflare
        BY <1>1, <4>1 DEF BuildInv, Accepted
      <4>3. QED
        BY <1>3, <3>2, <4>1, <4>2, Compiled DEF ConfigFiles
    <3>3. QED
      BY <3>1, <3>2
  <2> HIDE DEF compiled
  <2>3. /\ InitOutputDir(compiled) \in [Files -> 0 .. build]
        /\ \A f \in OutputFiles : InitOutputDir(compiled)[f] = IF f \in compiled THEN build ELSE 0
        /\ build \in Nat
        /\ "cache.cjs" \in OutputFiles /\ OutputFiles \subseteq Files /\ "cache.cjs" \notin {"config", "edgeConfig"}
    BY <2>2, NewOutputDir DEF BuildInv, BuildTypeOK, OutputFiles, BuildDir, Files
  <2>4. /\ disk' \in [Files -> 0 .. build]
        /\ \A f \in OutputFiles : disk'[f] = IF f \in compiled \cup {"cache.cjs"} THEN build ELSE 0
    BY <2>1, <2>3
  <2>5. BuildTypeOK'
    BY <1>1, <2>4 DEF BuildInv, BuildTypeOK, Split, Unawaited
  <2>6. Accepted'
    BY <1>1 DEF BuildInv, Accepted, Split, FatalSplittedFunction, Runtime, UsesEdgeRuntime, OnCloudflare,
                EnsureCloudflareConfig
  <2>7. Emptied'
    BY <1>1, <2>4 DEF Emptied
  <2>8. Unmade'
    <3>1. {"next-env", "image", "provider-data"} \subseteq OutputFiles
      BY DEF OutputFiles, Bundles, FixedBundles
    <3>2. disk'["next-env"] = 0 /\ disk'["image"] = 0 /\ disk'["provider-data"] = 0
      BY <2>2, <2>4, <3>1
    <3>3. QED
      BY <3>2 DEF Unmade
  <2>9. Made'
    <3>1. AtNext' = AtNext
      BY <1>1 DEF AtNext, ConfigFiles, UsesEdgeRuntime, OnCloudflare, Split, Runtime
    <3>2. AtNext \subseteq compiled \cup {"cache.cjs"} /\ AtNext \subseteq OutputFiles
      BY <2>2 DEF AtNext, ConfigFiles, OutputFiles, BuildDir
    <3>3. QED
      BY <1>1, <2>1, <2>4, <3>1, <3>2 DEF Made, OfBuild
  <2>10. ~output'.written
    BY <1>1 DEF BuildInv, Parted
  <2>11. Parted' /\ WorkerComplete' /\ OutputResolves'
    BY <1>1, <2>1, <2>10 DEF BuildInv, Parted, WorkerComplete, OutputResolves
  <2>12. Stuck' /\ FailsOnlyByTools'
    <3>1. ~setup.edgeCompiles => disk'["edgeConfig"] = 0
      BY <2>2, <2>4 DEF ConfigFiles, OutputFiles, BuildDir
    <3>2. QED
      BY <1>1, <2>1, <3>1, SameShort DEF BuildInv, Stuck, FailsOnlyByTools, ToMiddleware
  <2>13. QED
    BY <2>5, <2>6, <2>7, <2>8, <2>9, <2>11, <2>12 DEF BuildInv
<1>4. QED
  BY <1>2, <1>3

\* The next build knows nothing of what it finds.
LEMMA RebuildStep == BuildInv /\ Rebuild => BuildInv'
<1> SUFFICES ASSUME BuildInv, Rebuild PROVE BuildInv'
  OBVIOUS
<1>1. /\ build' = build + 1 /\ build < MaxBuilds /\ setup' \in SetupType /\ at' = "command" /\ cause' = "none"
      /\ pending' = {} /\ late' = {} /\ output' = Nothing /\ disk' = disk
  BY BuildAssumption DEF Rebuild
<1>2. BuildTypeOK'
  <2>1. build \in 1 .. MaxBuilds /\ MaxBuilds \in Nat /\ disk \in [Files -> 0 .. build]
    BY BuildAssumption DEF BuildInv, BuildTypeOK
  <2>2. build' \in 1 .. MaxBuilds /\ disk' \in [Files -> 0 .. build']
    BY <1>1, <2>1
  <2>3. QED
    BY <1>1, <2>2 DEF BuildTypeOK, Nothing
<1>3. QED
  BY <1>1, <1>2 DEF BuildInv, Accepted, Stuck, ToMiddleware, Emptied, Made, Unmade, Parted, FailsOnlyByTools,
                    WorkerComplete, OutputResolves, Nothing

\* The initial state satisfies the inductive invariant.
LEMMA BuildInvInit == BuildInit => BuildInv
<1> SUFFICES ASSUME BuildInit PROVE BuildInv
  OBVIOUS
<1>1. BuildTypeOK
  BY BuildAssumption DEF BuildInit, BuildTypeOK, Nothing
<1>2. QED
  BY <1>1 DEF BuildInit, BuildInv, Accepted, Stuck, ToMiddleware, Emptied, Made, Unmade, Parted, FailsOnlyByTools,
              WorkerComplete, OutputResolves, Nothing

\* Every step keeps the inductive invariant.
LEMMA BuildInvStep == BuildInv /\ [BuildNext]_buildVars => BuildInv'
<1> SUFFICES ASSUME BuildInv, [BuildNext]_buildVars PROVE BuildInv'
  OBVIOUS
<1>1. CASE ToolFails
  BY <1>1, FailKeeps DEF ToolFails, Ended
<1>2. CASE UNCHANGED buildVars
  <2>1. BuildTypeOK' /\ Accepted' /\ Emptied'
    BY <1>2 DEF buildVars, BuildInv, BuildTypeOK, Split, Unawaited, Accepted, Emptied, FatalSplittedFunction, Runtime,
                UsesEdgeRuntime, OnCloudflare, EnsureCloudflareConfig
  <2>2. Made'
    BY <1>2 DEF buildVars, BuildInv, Made, OfBuild, AtBundles, AtOutput, AtWarmer, AtCacheFunction, AtImage,
       AtAfterServerBundle, AtFunctions, AtProvider, AtCacheAssets, AtStaticAssets, AtMiddleware, AtBeforeServerBundle,
       AtRouting, AtNext, ConfigFiles, UsesEdgeRuntime, OnCloudflare, Split, Runtime, Provides, ShouldUseTagCache
  <2>3. Unmade' /\ Parted' /\ WorkerComplete' /\ OutputResolves'
    BY <1>2 DEF buildVars, BuildInv, Unmade, Parted, WorkerComplete, OutputResolves, WorkerImports, Present, Provides,
       ShouldUseTagCache, OnCloudflare
  <2>4. Stuck' /\ FailsOnlyByTools'
    <3>1. /\ setup' = setup /\ at' = at /\ cause' = cause /\ disk' = disk
          /\ Stuck /\ FailsOnlyByTools
      BY <1>2 DEF buildVars, BuildInv
    <3>2. FallsShort' = FallsShort
      BY <3>1, SameShort
    <3>3. QED
      BY <3>1, <3>2 DEF Stuck, FailsOnlyByTools, ToMiddleware
  <2>5. QED
    BY <2>1, <2>2, <2>3, <2>4 DEF BuildInv
<1>3. CASE \E f \in Functions : BundleFunction(f)
  BY <1>3, BundleStep
<1>4. QED
  BY <1>1, <1>2, <1>3, CommandStep, ModifyConfigStep, NextSteps, BeforeServerStep, MiddlewareStep, AssetSteps,
     ServerBundleStep, DefaultStep, AfterServerStep, FunctionSteps, NamingSteps, OutputStep, RebuildStep DEF BuildNext

\* The inductive invariant holds in every state.
LEMMA BuildInvariant == BuildSpec => []BuildInv
  BY BuildInvInit, BuildInvStep, PTL DEF BuildSpec

\* A build's state stays well typed, for any functions, configurations and number of builds.
THEOREM BuildTyping == BuildSpec => []BuildTypeOK
<1>1. BuildInv => BuildTypeOK
  BY DEF BuildInv
<1>2. QED
  BY <1>1, BuildInvariant, PTL

\* A configuration that was accepted never makes a step miss a file, or find one in its
\* way: only a tool can fail after that.  The one exception is a build that fell back to
\* a configuration for Node with a wrapper for the edge, and that one never succeeds.
THEOREM OnlyToolsFail == BuildSpec => []FailsOnlyByTools
<1>1. BuildInv => FailsOnlyByTools
  BY DEF BuildInv
<1>2. QED
  BY <1>1, BuildInvariant, PTL

\* Nothing that an earlier build left, finished or not and of whatever configuration, is
\* shipped or is in what is shipped.
THEOREM NothingStaleShipped == BuildSpec => []ShippedIsFresh
<1>1. BuildInv => ShippedIsFresh
  BY DEF BuildInv, Emptied, ShippedIsFresh, OutputFiles
<1>2. QED
  BY <1>1, BuildInvariant, PTL

\* A finished build of the Cloudflare adapter has every module that the worker imports, or
\* none if it skipped Next.js; an unchecked one without external middleware may lack some.
THEOREM WorkerAlwaysComplete == BuildSpec => []WorkerComplete
<1>1. BuildInv => WorkerComplete
  BY DEF BuildInv
<1>2. QED
  BY <1>1, BuildInvariant, PTL

\* What open-next.output.json names was bundled by this build, and it names every target
\* of a behavior but for the functions whose override answered too late.
THEOREM OutputAlwaysResolves == BuildSpec => []OutputResolves
<1>1. BuildInv => OutputResolves
  BY DEF BuildInv
<1>2. QED
  BY <1>1, BuildInvariant, PTL

-----------------------------------------------------------------------------
(* The parts side by side *)

\* Whichever part takes the steps, each part behaves as it does on its own.
THEOREM WorkerApart == MCSpec => BuildSpec /\ SetupSpec /\ IsolateSpec
<1>1. MCInit => BuildInit /\ SetupInit /\ IsolateInit
  BY DEF MCInit
<1>2. [MCNext]_<<part, buildVars, setupVars, isolateVars>> =>
        [BuildNext]_buildVars /\ [SetupNext]_setupVars /\ [IsolateNext]_isolateVars
  BY DEF MCNext
<1>3. QED
  BY <1>1, <1>2, PTL DEF MCSpec, BuildSpec, SetupSpec, IsolateSpec

\* All that a build, the set-up of a project and an isolate promise holds side by side
\* as well.
THEOREM WorkerKeepsPromises ==
    MCSpec =>
        /\ []FailsOnlyByTools /\ []ShippedIsFresh /\ []WorkerComplete /\ []OutputResolves
        /\ []CachingAgrees
        /\ []OriginsKnown /\ []CutOnlyByOthers
  BY WorkerApart, OnlyToolsFail, NothingStaleShipped, WorkerAlwaysComplete, OutputAlwaysResolves, CachingSetUp,
     OriginAlwaysKnown, OnlyOthersCut, PTL

=============================================================================
