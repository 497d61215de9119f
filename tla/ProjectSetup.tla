---------------------------- MODULE ProjectSetup ----------------------------
(***************************************************************************)
(* What "opennextjs-cloudflare migrate" and "... build" do to the files of *)
(* a project: both may create the configuration of Wrangler and of         *)
(* OpenNext, one after the other, and either may be interrupted between    *)
(* two of its writes, and run again.  The R2 cache is set up in three      *)
(* places that have to agree: a bucket in the account, its binding in the  *)
(* Wrangler configuration and its use in open-next.config.ts.              *)
(***************************************************************************)
EXTENDS Naturals

CONSTANT MaxCommands

VARIABLES
    step,       \* the step of the running command that comes next
    command,    \* the command that runs
    commands,   \* how many were started
    nextConfig, \* whether there is a next.config file
    wrangler,   \* the Wrangler configuration
    openNext,   \* open-next.config.ts
    bucket,     \* whether the account has the bucket
    caching,    \* whether the running command could set up the bucket
    rules,      \* [file |-> how often it has the line that migrate appends]
    headersFirst, \* whether public/_headers begins with the rule for static files
    removed     \* whether the user removed a configuration file

setupVars ==
    <<step, command, commands, nextConfig, wrangler, openNext, bucket, caching, rules, headersFirst, removed>>
projectVars == <<nextConfig, wrangler, openNext, bucket, caching, rules>>

\* A configuration with the R2 cache or without, or the user's own.
Configurations == {"absent", "r2", "plain", "own"}
Appended == {".dev.vars", "public/_headers", ".gitignore", "next.config"}

GoOn(next) ==
    /\ step' = next
    /\ UNCHANGED <<command, commands, headersFirst, removed>>

\* Returns, exits or throws: the command has ended.
End ==
    /\ step' = "ended"
    /\ command' = "none"
    /\ UNCHANGED <<commands, headersFirst, removed>>

At(c, s) == command = c /\ step = s

-----------------------------------------------------------------------------
(* The two files                                                           *)

FindWranglerConfig == wrangler # "absent"
FindOpenNextConfig == openNext # "absent"

\* Asks Wrangler who is logged in, and the API for the bucket; either may fail.
MaybeCreateR2Bucket(next) ==
    /\ \/ bucket' = TRUE /\ caching' = TRUE
       \/ UNCHANGED bucket /\ caching' = FALSE
    /\ UNCHANGED <<nextConfig, wrangler, openNext, rules>>
    /\ GoOn(next)

\* Wrong: the binding stays although there is no bucket.
WranglerConfigWithBinding == "r2"

WranglerConfig == IF caching THEN "r2" ELSE "plain"

WriteWranglerConfig(next) ==
    /\ wrangler' = WranglerConfig
    /\ UNCHANGED <<nextConfig, openNext, bucket, caching, rules>>
    /\ GoOn(next)

CreateOpenNextConfigFile(cache, next) ==
    /\ openNext' = IF cache THEN "r2" ELSE "plain"
    /\ UNCHANGED <<nextConfig, wrangler, bucket, caching, rules>>
    /\ GoOn(next)

-----------------------------------------------------------------------------
(* migrate                                                                 *)

MaybeCreateNextConfigFileIfMissing ==
    /\ At("migrate", "start")
    /\ \/ nextConfig /\ UNCHANGED projectVars /\ GoOn("checks")
       \/ ~nextConfig
          /\ nextConfig' = TRUE
          /\ UNCHANGED <<wrangler, openNext, bucket, caching, rules>>
          /\ GoOn("checks")
       \/ ~nextConfig /\ UNCHANGED projectVars /\ End \* declined, or no supported Next.js

AlreadyMigrated == FindWranglerConfig \/ FindOpenNextConfig

MigrateChecks ==
    /\ At("migrate", "checks")
    /\ UNCHANGED projectVars
    /\ IF AlreadyMigrated THEN End ELSE GoOn("install")

InstallDependencies ==
    /\ At("migrate", "install")
    /\ UNCHANGED projectVars
    /\ GoOn("bucket") \/ End

MigrateBucket == At("migrate", "bucket") /\ MaybeCreateR2Bucket("wrangler")
MigrateWrangler == At("migrate", "wrangler") /\ WriteWranglerConfig("openNext")
MigrateOpenNext == At("migrate", "openNext") /\ CreateOpenNextConfigFile(caching, ".dev.vars")

\* The test of public/_headers looks at the first line of the file only, so
\* that it does not find the rule that migrate appends below a comment.
AppendIf(file) ==
    IF file = "public/_headers" THEN ~headersFirst ELSE rules[file] = 0

ConditionalAppend(file, next) ==
    /\ At("migrate", file)
    /\ rules' = IF AppendIf(file) THEN [rules EXCEPT ![file] = @ + 1] ELSE rules
    /\ UNCHANGED <<nextConfig, wrangler, openNext, bucket, caching>>
    /\ IF next = "end" THEN End ELSE GoOn(next)

MigrateAppends ==
    \/ ConditionalAppend(".dev.vars", "public/_headers")
    \/ ConditionalAppend("public/_headers", ".gitignore")
    \/ ConditionalAppend(".gitignore", "next.config")
    \/ ConditionalAppend("next.config", "end")

-----------------------------------------------------------------------------
(* build, up to the build itself                                           *)

CompileConfig ==
    /\ At("build", "start")
    /\ \/ FindOpenNextConfig /\ UNCHANGED projectVars /\ GoOn("ask")
       \/ ~FindOpenNextConfig /\ CreateOpenNextConfigFile(FALSE, "ask")
       \/ ~FindOpenNextConfig /\ UNCHANGED projectVars /\ End

AskForWranglerConfig ==
    /\ At("build", "ask")
    /\ UNCHANGED projectVars
    /\ \/ ~FindWranglerConfig /\ GoOn("bucket")
       \/ End

BuildBucket == At("build", "bucket") /\ MaybeCreateR2Bucket("wrangler")

\* Unlike migrate, build does not look at whether the bucket was set up.
BuildWrangler ==
    /\ At("build", "wrangler")
    /\ wrangler' = WranglerConfig
    /\ UNCHANGED <<nextConfig, openNext, bucket, caching, rules>>
    /\ End

-----------------------------------------------------------------------------

Run(c) ==
    /\ command = "none"
    /\ commands < MaxCommands
    /\ commands' = commands + 1
    /\ command' = c
    /\ step' = "start"
    /\ caching' = FALSE
    /\ UNCHANGED <<nextConfig, wrangler, openNext, bucket, rules, headersFirst, removed>>

\* The user stops the command, or a write fails.
Interrupt ==
    /\ command # "none"
    /\ UNCHANGED projectVars
    /\ End

\* migrate tells the user to delete the Wrangler configuration and try again.
RemoveConfig ==
    /\ command = "none"
    /\ \/ FindWranglerConfig /\ wrangler' = "absent" /\ UNCHANGED openNext
       \/ FindOpenNextConfig /\ openNext' = "absent" /\ UNCHANGED wrangler
    /\ removed' = TRUE
    /\ UNCHANGED <<step, command, commands, nextConfig, bucket, caching, rules, headersFirst>>

SetupInit ==
    /\ step = "ended"
    /\ command = "none"
    /\ commands = 0
    /\ nextConfig \in BOOLEAN
    /\ wrangler \in {"absent", "own"}
    /\ openNext \in {"absent", "own"}
    /\ bucket \in BOOLEAN
    /\ caching = FALSE
    /\ headersFirst \in BOOLEAN
    /\ rules \in {r \in [Appended -> 0..1] : r["public/_headers"] = IF headersFirst THEN 1 ELSE 0}
    /\ removed = FALSE

SetupNext ==
    \/ \E c \in {"migrate", "build"} : Run(c)
    \/ MaybeCreateNextConfigFileIfMissing
    \/ MigrateChecks
    \/ InstallDependencies
    \/ MigrateBucket
    \/ MigrateWrangler
    \/ MigrateOpenNext
    \/ MigrateAppends
    \/ CompileConfig
    \/ AskForWranglerConfig
    \/ BuildBucket
    \/ BuildWrangler
    \/ Interrupt
    \/ RemoveConfig

SetupSpec == SetupInit /\ [][SetupNext]_setupVars

-----------------------------------------------------------------------------

SetupTypeOK ==
    /\ command \in {"none", "migrate", "build"}
    /\ commands \in 0..MaxCommands
    /\ {nextConfig, bucket, caching, headersFirst, removed} \subseteq BOOLEAN
    /\ {wrangler, openNext} \subseteq Configurations
    /\ rules \in [Appended -> 0..(MaxCommands + 1)]

\* A binding that a command wrote is to a bucket that exists, and an open-next.config.ts
\* that a command wrote uses the R2 cache only with the binding: also after an
\* interruption between the three, and when build finishes what migrate began.  Only a
\* user who removes one of the two files can get them apart.
CachingAgrees ==
    /\ wrangler = "r2" => bucket
    /\ openNext = "r2" => wrangler = "r2" \/ removed

=============================================================================
