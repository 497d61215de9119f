------------------------------- MODULE Build -------------------------------
(***************************************************************************)
(* A build: the command compiles and checks the configuration, empties the *)
(* output directory and starts Next.js, whose adapter hooks (modifyConfig  *)
(* and onBuildComplete of core's buildAdapter) bundle one function after   *)
(* the other out of files that earlier steps left on disk.  A build may    *)
(* fail at any step, and the next one, of another configuration, starts    *)
(* from what it left behind.                                               *)
(*                                                                         *)
(* A file, or a bundle, is known by the build it is from: what a step      *)
(* writes is as old as the oldest file it read.  A bundling function is a  *)
(* job: the files it reads and the files it writes.                        *)
(***************************************************************************)
EXTENDS Naturals, FiniteSets, FiniteSetsExt

CONSTANTS
    Functions, \* names of split functions
    Setups,    \* the applications and configurations that are built
    MaxBuilds

VARIABLES
    setup,   \* what is built
    build,   \* the number of the build
    at,      \* the step that comes next, or how the build ended
    cause,   \* why the build failed
    disk,    \* [file |-> the oldest build whose data the file has, 0 if it does not exist]
    pending, \* split functions whose bundle is not written yet
    late,    \* global functions that the output does not name yet
    output   \* what open-next.output.json names: a set of bundles, and the targets of behaviors

buildVars == <<setup, build, at, cause, disk, pending, late, output>>

Adapters == {"aws", "cloudflare", "container"}
FunctionSetups ==
    [runtime : {"node", "edge", "deno"}, routes : 0..2, global : BOOLEAN, lazy : BOOLEAN]
NoFunction == [runtime |-> "none", routes |-> 1, global |-> FALSE, lazy |-> FALSE]

SetupType ==
    [ adapter : Adapters,
      external : BOOLEAN,               \* config.middleware.external
      middlewareRuntime : {"edge", "node"}, \* config.middleware.runtime
      edgeWrapper : BOOLEAN,            \* config.middleware.override.wrapper is one of Cloudflare's, or its edgeRuntime is set
      middleware : {"edge", "node", "none"}, \* what the application has
      functions : [Functions -> FunctionSetups \cup {NoFunction}],
      warns : BOOLEAN,                  \* a wrapper and a converter that do not go together
      unchecked : BOOLEAN,              \* dangerousDisableConfigValidation
      edgeCompiles : BOOLEAN,           \* the configuration bundles for the edge runtime
      disableIncrementalCache : BOOLEAN,
      disableTagCache : BOOLEAN,
      tagged : BOOLEAN,                 \* prerendered pages have cache tags
      skipNextBuild : BOOLEAN ]

NextFiles == {".next", "routing"}
BuildDir == {"config", "edgeConfig", "cache.cjs", "cache.mjs", "middleware.mjs", "durable-objects", "container"}
FixedBundles ==
    {"middleware", "assets", "cache", "provider", "default", "revalidation", "image",
     "cache-function", "warmer", "next-env", "runtime", "cache-entrypoint", "handler", "worker"}
Bundles == FixedBundles \cup Functions
OutputFiles == BuildDir \cup Bundles \cup {"provider-data", "output"}
Files == NextFiles \cup OutputFiles

\* The directory of a split function is its own: none is called default.
ASSUME BuildAssumption ==
    /\ MaxBuilds \in Nat \ {0}
    /\ Setups \subseteq SetupType
    /\ Functions \cap (NextFiles \cup BuildDir \cup FixedBundles \cup {"provider-data", "output"}) = {}

Present == {f \in Files : disk[f] > 0}
Split == {f \in Functions : setup.functions[f] # NoFunction}
Runtime(f) == setup.functions[f].runtime
OnCloudflare == setup.adapter # "aws"

Nothing == [named |-> {}, targets |-> {}, written |-> FALSE]

Job(reads, writes) == [reads |-> reads, writes |-> writes]
Idle == Job({}, {})
\* First one job and then the other: what the first wrote, the second finds.
Then(j, k) == Job(j.reads \cup (k.reads \ j.writes), j.writes \cup k.writes)
When(condition, j) == IF condition THEN j ELSE Idle

Oldest(files) == Min({disk[f] : f \in files} \cup {build})

Fail(reason) ==
    /\ at' = "failed"
    /\ cause' = reason

\* A step: its job, and the step that follows.
Perform(j, following) ==
    /\ UNCHANGED <<setup, build, pending, late, output>>
    /\ \/ /\ j.reads \subseteq Present
          /\ disk' = [f \in Files |-> IF f \in j.writes THEN Oldest(j.reads) ELSE disk[f]]
          /\ at' = following
          /\ UNCHANGED cause
       \/ /\ ~ j.reads \subseteq Present
          /\ Fail("no such file")
          /\ UNCHANGED disk

-----------------------------------------------------------------------------
(* The configuration                                                       *)

FatalSplittedFunction(f) ==
    \/ setup.functions[f].routes = 0
    \/ Runtime(f) = "edge" /\ setup.functions[f].routes > 1

\* Wrong: the first issue decides.
ValidateFirstIssue ==
    IF setup.warns \/ setup.disableIncrementalCache \/ setup.disableTagCache THEN "warn"
    ELSE IF \E f \in Split : FatalSplittedFunction(f) THEN "throw"
    ELSE "success"

\* A fatal issue comes before a warning.
ValidateConfig ==
    IF \E f \in Split : FatalSplittedFunction(f) THEN "throw"
    ELSE IF setup.warns \/ setup.disableIncrementalCache \/ setup.disableTagCache THEN "warn"
    ELSE "success"

UsesEdgeRuntime ==
    \/ setup.external /\ setup.middlewareRuntime # "node"
    \/ \E f \in Split : Runtime(f) = "edge"

\* What compileOpenNextConfig leaves in a new temporary directory; nothing if it throws.
CompileOpenNextConfig(compileEdge) ==
    LET edge == UsesEdgeRuntime \/ compileEdge
    IN  IF ValidateConfig = "throw" \/ (edge /\ ~setup.edgeCompiles) THEN {}
        ELSE {"config"} \cup IF edge THEN {"edgeConfig"} ELSE {}

\* Wrong: what is in the output directory stays.
InitOutputDirKept(compiled) == [f \in Files |-> IF f \in compiled THEN build ELSE disk[f]]

\* The output directory has the compiled configuration, and nothing else.
InitOutputDir(compiled) ==
    [f \in Files |->
        IF f \in compiled THEN build
        ELSE IF f \in OutputFiles THEN 0
        ELSE disk[f]]

\* Wrong: middleware in the server's bundle passes.
EnsureNoSplit == setup.adapter = "container" => Split = {}

EnsureCloudflareConfig ==
    /\ setup.adapter = "container" => Split = {}
    /\ (setup.external /\ setup.edgeWrapper) \/ setup.unchecked

\* opennextjs-cloudflare build, and build() of the aws package.
Command ==
    /\ at = "command"
    /\ LET compiled == CompileOpenNextConfig(OnCloudflare)
       IN  \/ /\ compiled = {} \/ (OnCloudflare /\ ~EnsureCloudflareConfig)
              /\ Fail("config")
              /\ UNCHANGED disk
           \/ /\ compiled # {} /\ (OnCloudflare => EnsureCloudflareConfig)
              /\ disk' = InitOutputDir(compiled)
              /\ at' = IF OnCloudflare /\ setup.skipNextBuild THEN "done" ELSE "modifyConfig"
              /\ UNCHANGED cause
    /\ UNCHANGED <<setup, build, pending, late, output>>

-----------------------------------------------------------------------------
(* modifyConfig                                                            *)

CompileCache(file) == Job({}, {file})

\* If the configuration does not compile for the edge runtime, it is compiled for Node only.
ModifyConfig ==
    /\ at = "modifyConfig"
    /\ LET first == CompileOpenNextConfig(TRUE)
           compiled == IF first # {} THEN first ELSE CompileOpenNextConfig(FALSE)
       IN  \/ /\ compiled = {}
              /\ Fail("config")
              /\ UNCHANGED disk
           \/ /\ compiled # {}
              /\ disk' = [InitOutputDir(compiled) EXCEPT !["cache.cjs"] = build]
              /\ at' = "next"
              /\ UNCHANGED cause
    /\ UNCHANGED <<setup, build, pending, late, output>>

\* next build, between the two hooks.
NextBuild == at = "next" /\ Perform(Job({}, {".next"}), "routing")

-----------------------------------------------------------------------------
(* onBuildComplete up to the server bundles                                *)

CreateRoutingConfig == at = "routing" /\ Perform(Job({".next"}, {"routing"}), "beforeServerBundle")

CopyOpenNextConfig(isEdge) == Job({IF isEdge THEN "edgeConfig" ELSE "config"}, {})

\* Appended to: what the file has is as old as what it had.
CompileEnvFiles == Job(IF disk["next-env"] > 0 THEN {"next-env"} ELSE {}, {"next-env"})

\* init.js, images.js and skew-protection.js
CompileRuntime == Job({".next"}, {"runtime"})

CreateCacheBundle == Then(CopyOpenNextConfig(FALSE), Job({}, {"cache-function"}))

\* The edge configuration replaces the one that createCacheBundle copied, if there is one.
BuildCacheFunction ==
    Then(Then(CreateCacheBundle, When(disk["edgeConfig"] > 0, CopyOpenNextConfig(TRUE))),
         Job({"cache-function"}, {"cache-entrypoint"}))

BeforeServerBundle ==
    /\ at = "beforeServerBundle"
    /\ Perform(When(OnCloudflare, Then(Then(CompileEnvFiles, CompileRuntime), BuildCacheFunction)),
               "middleware")

IsEdgeRuntime == setup.edgeWrapper

CopyMiddlewareResources == Job({".next"}, {})

\* The Cloudflare adapter asks for the edge configuration whatever the wrapper is.
BuildExternalNodeMiddleware ==
    Then(Job({"routing", ".next"}, {}),
         Then(CopyOpenNextConfig(OnCloudflare \/ IsEdgeRuntime), Job({}, {"middleware"})))

BuildBundledNodeMiddleware == Job({}, {"middleware.mjs"})

\* The edge plugin puts the routing configuration into the bundle.
BuildEdgeBundle(outfile) == Job({".next", "routing"}, {outfile})

CreateMiddleware ==
    /\ at = "middleware"
    /\ Perform(
        CASE setup.middleware = "node" /\ setup.external -> BuildExternalNodeMiddleware
          [] setup.middleware = "node" /\ ~setup.external -> BuildBundledNodeMiddleware
          [] setup.middleware # "node" /\ setup.external ->
                Then(Then(CopyMiddlewareResources, CopyOpenNextConfig(IsEdgeRuntime)),
                     BuildEdgeBundle("middleware"))
          [] OTHER -> BuildEdgeBundle("middleware.mjs"),
        "staticAssets")

CreateStaticAssets == at = "staticAssets" /\ Perform(Job({".next"}, {"assets"}), "cacheAssets")

\* The initial tags of the pages, and with them the directory of their provider.
ShouldUseTagCache == ~setup.disableTagCache /\ setup.tagged

CreateCacheAssets ==
    /\ at = "cacheAssets"
    /\ Perform(
        When(~setup.disableIncrementalCache,
             Then(Job({".next"}, {"cache"}),
                  When(ShouldUseTagCache, Then(CopyOpenNextConfig(FALSE), Job({}, {"provider-data"}))))),
        "provider")

CompileTagCacheProvider ==
    /\ at = "provider"
    /\ Perform(When(~setup.disableIncrementalCache /\ ShouldUseTagCache,
                    Job({"provider-data"}, {"provider"})),
               "functions")

-----------------------------------------------------------------------------
(* The server bundles: the split functions side by side, the default last  *)

CopyAdapterFiles == Job({".next"}, {})

GenerateBundle(f, runtime) ==
    LET copies == {IF runtime = "deno" THEN "cache.mjs" ELSE "cache.cjs", "routing"}
                  \cup IF setup.external THEN {} ELSE {"middleware.mjs", ".next"}
    IN  Then(Then(Job(copies, {}), CopyOpenNextConfig(setup.adapter = "cloudflare")),
             Then(CopyAdapterFiles, Job({}, {f})))

GenerateEdgeBundle(f) ==
    Then(CopyOpenNextConfig(TRUE), Then(CopyMiddlewareResources, BuildEdgeBundle(f)))

CreateServerBundle ==
    /\ at = "functions"
    /\ pending' = Split
    /\ disk' = IF \E f \in Split : Runtime(f) = "deno"
               THEN [disk EXCEPT !["cache.mjs"] = build]
               ELSE disk
    /\ at' = "bundles"
    /\ UNCHANGED <<setup, build, cause, late, output>>

\* Only one of the routes' functions may be an edge function of the application.
BundleFunction(f) ==
    /\ at = "bundles"
    /\ f \in pending
    /\ \/ /\ Runtime(f) = "edge" /\ setup.functions[f].routes > 1
          /\ Fail("unsupported")
          /\ UNCHANGED <<setup, build, disk, pending, late, output>>
       \/ /\ ~(Runtime(f) = "edge" /\ setup.functions[f].routes > 1)
          /\ LET job == IF Runtime(f) = "edge" THEN GenerateEdgeBundle(f) ELSE GenerateBundle(f, Runtime(f))
             IN  \/ /\ job.reads \subseteq Present
                    /\ disk' = [disk EXCEPT ![f] = Oldest(job.reads)]
                    /\ pending' = pending \ {f}
                    /\ UNCHANGED <<at, cause>>
                 \/ /\ ~ job.reads \subseteq Present
                    /\ Fail("no such file")
                    /\ UNCHANGED <<disk, pending>>
          /\ UNCHANGED <<setup, build, late, output>>

DefaultBundle ==
    /\ at = "bundles"
    /\ pending = {}
    /\ Perform(GenerateBundle("default", "node"), "afterServerBundle")

CompileDurableObjects == Job({".next"}, {"durable-objects"})
CompileContainer == Job({}, {"container"})
CopyPackageCliFiles == Job({}, {"worker"})
BundleServer == Then(CopyPackageCliFiles, Job({"default"}, {"handler"}))

AfterServerBundle ==
    /\ at = "afterServerBundle"
    /\ Perform(
        CASE setup.adapter = "cloudflare" -> Then(CompileDurableObjects, BundleServer)
          [] setup.adapter = "container" -> Then(CompileContainer, CopyPackageCliFiles)
          [] OTHER -> Idle,
        IF OnCloudflare THEN "done" ELSE "revalidation")

-----------------------------------------------------------------------------
(* The other functions; the Cloudflare adapter skips them and the output   *)

CreateRevalidationBundle ==
    /\ at = "revalidation"
    /\ Perform(Then(CopyOpenNextConfig(FALSE), Job({".next"}, {"revalidation"})), "image")

\* The bundle's .next must not exist yet.
CreateImageOptimizationBundle ==
    /\ at = "image"
    /\ \/ /\ disk["image"] = 0
          /\ Perform(Then(CopyOpenNextConfig(FALSE), Job({".next"}, {"image"})), "cacheFunction")
       \/ /\ disk["image"] > 0
          /\ Fail("exists")
          /\ UNCHANGED <<setup, build, disk, pending, late, output>>

CacheBundle ==
    /\ at = "cacheFunction"
    /\ Perform(When(~setup.disableIncrementalCache, CreateCacheBundle), "warmer")

CreateWarmerBundle ==
    /\ at = "warmer"
    /\ Perform(Then(CopyOpenNextConfig(FALSE), Job({}, {"warmer"})), "output")

\* The entries of global functions are awaited by nobody: one whose wrapper or
\* converter is loaded with a function of the user's comes when that has answered.
Unawaited(f) == setup.functions[f].global /\ setup.functions[f].lazy

StartOutput ==
    /\ at = "output"
    /\ {"assets", ".next"} \subseteq Present
    /\ late' = {f \in Split : Unawaited(f)}
    /\ at' = "naming"
    /\ UNCHANGED <<setup, build, cause, disk, pending, output>>

LoadOverride(f) ==
    /\ at = "naming"
    /\ f \in late
    /\ late' = late \ {f}
    /\ UNCHANGED <<setup, build, at, cause, disk, pending, output>>

\* Wrong: the provider is named whether it was bundled or not.
NamedPropsUntested ==
    {"warmer"}
    \cup (IF setup.disableTagCache THEN {} ELSE {"provider"})
    \cup (IF setup.disableIncrementalCache THEN {} ELSE {"revalidation", "cache-function"})

NamedProps ==
    {"warmer"}
    \cup (IF setup.disableTagCache \/ disk["provider-data"] = 0 THEN {} ELSE {"provider"})
    \cup (IF setup.disableIncrementalCache THEN {} ELSE {"revalidation", "cache-function"})

External == IF setup.external THEN {"middleware"} ELSE {}

BuildOpenNextOutput ==
    LET edgeFunctions == External \cup ({f \in Split : setup.functions[f].global} \ late)
        origins == {"assets", "image", "default"} \cup {f \in Split : ~setup.functions[f].global}
    IN  [ named |-> edgeFunctions \cup origins \cup NamedProps,
          targets |-> {"assets", "image", "default"} \cup Split \cup External,
          written |-> TRUE ]

WriteOutput ==
    /\ at = "naming"
    /\ output' = BuildOpenNextOutput
    /\ disk' = [disk EXCEPT !["output"] = build]
    /\ at' = "done"
    /\ UNCHANGED <<setup, build, cause, pending, late>>

-----------------------------------------------------------------------------

Ended == {"done", "failed"}

\* esbuild, next build, a patch or the file system fails.
ToolFails ==
    /\ at \notin Ended
    /\ Fail("tool")
    /\ UNCHANGED <<setup, build, disk, pending, late, output>>

\* The next build, of this or another configuration, on what the last one left.
Rebuild ==
    /\ at \in Ended
    /\ build < MaxBuilds
    /\ build' = build + 1
    /\ setup' \in Setups
    /\ at' = "command"
    /\ cause' = "none"
    /\ pending' = {}
    /\ late' = {}
    /\ output' = Nothing
    /\ UNCHANGED disk

BuildInit ==
    /\ setup \in Setups
    /\ build = 1
    /\ at = "command"
    /\ cause = "none"
    /\ disk = [f \in Files |-> 0]
    /\ pending = {}
    /\ late = {}
    /\ output = Nothing

BuildNext ==
    \/ Command
    \/ ModifyConfig
    \/ NextBuild
    \/ CreateRoutingConfig
    \/ BeforeServerBundle
    \/ CreateMiddleware
    \/ CreateStaticAssets
    \/ CreateCacheAssets
    \/ CompileTagCacheProvider
    \/ CreateServerBundle
    \/ \E f \in Functions : BundleFunction(f)
    \/ DefaultBundle
    \/ AfterServerBundle
    \/ CreateRevalidationBundle
    \/ CreateImageOptimizationBundle
    \/ CacheBundle
    \/ CreateWarmerBundle
    \/ StartOutput
    \/ \E f \in Functions : LoadOverride(f)
    \/ WriteOutput
    \/ ToolFails
    \/ Rebuild

BuildSpec == BuildInit /\ [][BuildNext]_buildVars

-----------------------------------------------------------------------------

BuildTypeOK ==
    /\ setup \in SetupType
    /\ build \in 1..MaxBuilds
    /\ disk \in [Files -> 0..build]
    /\ pending \subseteq Split
    /\ late \subseteq {f \in Split : Unawaited(f)}
    /\ output.named \subseteq Bundles /\ output.targets \subseteq Bundles

\* The fallback of modifyConfig goes on without an edge configuration, though the
\* wrapper of the external middleware will ask for it.
FallsShort ==
    ~OnCloudflare /\ setup.external /\ setup.edgeWrapper /\ ~setup.edgeCompiles /\ ~UsesEdgeRuntime

\* No step misses a file that another step should have written, finds one that it
\* must create, or is given what the check of the configuration should have refused:
\* a build that got past the configuration fails only if a tool does, but for the one
\* that falls back to a configuration for Node and then copies the one for the edge,
\* which misses a file if nothing else fails, and never ends well.
FailsOnlyByTools ==
    /\ cause \in {"none", "tool", "config"} \/ (cause = "no such file" /\ FallsShort)
    /\ FallsShort => at # "done"

\* What a finished build ships is of this build: nothing was made of a file that an
\* earlier build, finished or not, left behind.
ShippedIsFresh ==
    at = "done" => \A f \in Bundles \cup {"output"} : disk[f] \in {0, build}

WorkerImports ==
    {"runtime", "worker", "middleware", "next-env"}
    \cup IF setup.adapter = "container"
         THEN {"container"}
         ELSE {"durable-objects", "cache-entrypoint", "cache-function", "handler"}

\* Every module that the entry point of the Worker imports was bundled, unless the
\* check of the configuration was switched off for one without external middleware;
\* but a build that skips Next.js has removed all of them and bundled none.
WorkerComplete ==
    at = "done" /\ OnCloudflare =>
        \/ WorkerImports \subseteq Present /\ ~setup.skipNextBuild
        \/ WorkerImports \cap Present = {} /\ setup.skipNextBuild
        \/ setup.unchecked /\ ~setup.external

\* What open-next.output.json names was bundled by this build, and every behavior's
\* target is among it, but for a global function whose override answered too late.
OutputResolves ==
    output.written =>
        /\ \A b \in output.named : disk[b] = build
        /\ output.targets \ output.named \subseteq late

=============================================================================
