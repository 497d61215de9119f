----------------------------- MODULE Deployment -----------------------------
(***************************************************************************)
(* The deploy and upload commands of packages/cloudflare/src/cli/commands: *)
(* the cache is populated, the mapping of skew protection is computed from *)
(* the one of the last version, and Wrangler makes a new version.  The     *)
(* mapping tells the worker which version serves a deployment that a       *)
(* client asks for (templates/skew-protection.ts).                         *)
(*                                                                         *)
(* A run is one execution of a command; runs are numbered as they start.   *)
(* Its deployment id is given by the configuration of Next.js, and taken   *)
(* for the build id as well; it may be the one of an earlier run.  The     *)
(* worker of an environment has its own versions and its own prefix of     *)
(* cache keys.                                                             *)
(***************************************************************************)
EXTENDS Integers, Sequences

CONSTANTS
    MaxRuns,     \* a bound for the model
    Chunks,      \* how many calls of Wrangler it takes to populate the cache
    MaxVersions  \* maxNumberOfVersions

ASSUME DeploymentAssumption == MaxRuns \in Nat /\ Chunks \in Nat /\ MaxVersions \in Nat \ {0}

VARIABLES
    runs,       \* where each run is and what it knows
    versions,   \* of each worker, oldest first
    oldest,     \* of each worker, the oldest version that is not too old to list
    live,       \* of each worker, the version that serves its domain
    populated,  \* the chunks in the cache of each worker, with their prefix
    tables      \* the workers whose table of tags was created

deploymentVars == <<runs, versions, oldest, live, populated, tables>>

Runs == 1 .. MaxRuns
DeploymentIds == 1 .. MaxRuns

Workers == {"default", "named"}

\* A mapping gives a deployment the index of a version, Current for
\* CURRENT_VERSION_ID, or Absent.
Current == 0
Absent == -1
NoMapping == [d \in DeploymentIds |-> Absent]

Idle == [at |-> "idle", command |-> "none", worker |-> "default", id |-> 1, chunk |-> 0,
         mapping |-> NoMapping, seen |-> 0, floor |-> 0]

DeploymentInit ==
    /\ runs = [r \in Runs |-> Idle]
    /\ versions = [w \in Workers |-> <<>>]
    /\ oldest = [w \in Workers |-> 1]
    /\ live = [w \in Workers |-> 0]
    /\ populated = [w \in Workers |-> {}]
    /\ tables = {}

\* getEnvFromPlatformProxy: the variables a command reads, the name of the worker
\* and the prefix of the keys, are those of the environment only for an upload;
\* deploy passes the OpenNext config in place of the environment.
ReadFrom(r) == IF runs[r].command = "upload" THEN runs[r].worker ELSE "default"

FirstStep == [deploy |-> "populate", upload |-> "mapping"]
AfterPopulate == [deploy |-> "mapping", upload |-> "create"]
AfterMapping == [deploy |-> "create", upload |-> "populate"]

StartRun(r) ==
    /\ runs[r].at = "idle"
    /\ \A other \in Runs : other < r => runs[other].at # "idle"
    /\ \E c \in {"deploy", "upload"}, w \in Workers, d \in 1 .. r :
           runs' = [runs EXCEPT ![r] = [Idle EXCEPT !.at = FirstStep[c], !.command = c, !.worker = w, !.id = d]]
    /\ UNCHANGED <<versions, oldest, live, populated, tables>>

\* The command is over: by process.exit(1), or by an error that nobody catches.
Fails(r) == runs' = [runs EXCEPT ![r] = [Idle EXCEPT !.at = "over"]]

\* Mutant: a call of Wrangler that failed is no error.
GoesOn(r) == runs' = [runs EXCEPT ![r].chunk = @ + 1]
\* populateKVIncrementalCache: the chunks before the one that failed remain.
ChunkFails(r) == Fails(r)

PopulateChunk(r) ==
    /\ runs[r].at = "populate"
    /\ runs[r].chunk < Chunks
    /\ \/ /\ populated' = [populated EXCEPT ![runs[r].worker] =
                               @ \cup {[prefix |-> ReadFrom(r), id |-> runs[r].id, chunk |-> runs[r].chunk]}]
          /\ runs' = [runs EXCEPT ![r].chunk = @ + 1]
       \/ ChunkFails(r) /\ UNCHANGED populated
    /\ UNCHANGED <<versions, oldest, live, tables>>

\* populateD1TagCache
CreateTable(r) ==
    /\ runs[r].at = "populate"
    /\ runs[r].chunk = Chunks
    /\ \/ tables' = tables \cup {runs[r].worker} /\ runs' = [runs EXCEPT ![r].at = AfterPopulate[runs[r].command]]
       \/ Fails(r) /\ UNCHANGED tables
    /\ UNCHANGED <<versions, oldest, live, populated>>

\* listWorkerVersions: the oldest version that is listed.
Floor(w) == LET newest == Len(versions[w]) - MaxVersions + 1 IN IF oldest[w] > newest THEN oldest[w] ELSE newest

\* getExistingDeploymentMapping: of the newest version that is listed.
Existing(w) ==
    IF Floor(w) <= Len(versions[w]) THEN versions[w][Len(versions[w])].mapping ELSE NoMapping

\* Mutant: the deployment of the last version stays the current one.
StillCurrent(w) == Current
\* Mutant: the deployment of the last version is left out.
NotKept(w) == Absent
\* The version of the deployment that was the current one.
Replaced(w) == Len(versions[w])

Listed(version, w) == version >= Floor(w)

\* updateDeploymentMapping
NewMapping(old, id, w) ==
    [d \in DeploymentIds |->
        IF d = id THEN Current
        ELSE IF old[d] = Current THEN Replaced(w)
        ELSE IF Listed(old[d], w) THEN old[d]
        ELSE Absent]

\* getDeploymentMapping; a deployment id that is in the mapping ends the run.
ComputeMapping(r) ==
    LET w == ReadFrom(r)
    IN  /\ runs[r].at = "mapping"
        /\ IF Existing(w)[runs[r].id] # Absent
           THEN Fails(r)
           ELSE runs' = [runs EXCEPT ![r].at = AfterMapping[runs[r].command],
                                     ![r].mapping = NewMapping(Existing(w), runs[r].id, w),
                                     ![r].seen = Len(versions[w]),
                                     ![r].floor = Floor(w)]
        /\ UNCHANGED <<versions, oldest, live, populated, tables>>

\* The API refuses to list or to read the versions.
MappingFails(r) ==
    /\ runs[r].at = "mapping"
    /\ Fails(r)
    /\ UNCHANGED <<versions, oldest, live, populated, tables>>

\* wrangler deploy or wrangler versions upload, with the mapping as a variable.
CreateVersion(r) ==
    LET w == runs[r].worker
    IN  /\ runs[r].at = "create"
        /\ versions' = [versions EXCEPT ![w] =
                            Append(@, [id |-> runs[r].id, mapping |-> runs[r].mapping, seen |-> runs[r].seen,
                                       floor |-> runs[r].floor, from |-> ReadFrom(r)])]
        /\ live' = [live EXCEPT ![w] = IF runs[r].command = "deploy" THEN Len(versions[w]) + 1 ELSE @]
        /\ runs' = [runs EXCEPT ![r] = [Idle EXCEPT !.at = "over"]]
        /\ UNCHANGED <<oldest, populated, tables>>

CreationFails(r) ==
    /\ runs[r].at = "create"
    /\ Fails(r)
    /\ UNCHANGED <<versions, oldest, live, populated, tables>>

\* An uploaded version, or an old one, is made the live one.
Promote(w) ==
    /\ \E v \in DOMAIN versions[w] : live' = [live EXCEPT ![w] = v]
    /\ UNCHANGED <<runs, versions, oldest, populated, tables>>

\* maxVersionAgeDays
VersionAges(w) ==
    /\ oldest[w] <= Len(versions[w])
    /\ oldest' = [oldest EXCEPT ![w] = @ + 1]
    /\ UNCHANGED <<runs, versions, live, populated, tables>>

DeploymentNext ==
    \/ \E r \in Runs :
           \/ StartRun(r) \/ PopulateChunk(r) \/ CreateTable(r) \/ ComputeMapping(r) \/ MappingFails(r)
           \/ CreateVersion(r) \/ CreationFails(r)
    \/ \E w \in Workers : Promote(w) \/ VersionAges(w)

DeploymentSpec == DeploymentInit /\ [][DeploymentNext]_deploymentVars

----------------------------------------------------------------------------
(* Properties *)

Mappings == [DeploymentIds -> Int]

DeploymentTypeOK ==
    /\ runs \in [Runs -> [at : {"idle", "populate", "mapping", "create", "over"},
                          command : {"none", "deploy", "upload"}, worker : Workers,
                          id : Nat, chunk : 0 .. Chunks,
                          mapping : Mappings, seen : Nat, floor : Int]]
    /\ versions \in [Workers -> Seq([id : Nat, mapping : Mappings, seen : Nat, floor : Int, from : Workers])]
    /\ oldest \in [Workers -> Nat]
    /\ live \in [Workers -> Nat]
    /\ \A w \in Workers : live[w] \in 0 .. Len(versions[w])
    /\ populated \in [Workers -> SUBSET [prefix : Workers, id : Nat, chunk : 0 .. Chunks]]
    /\ tables \subseteq Workers

\* A deployment that was made with the variables of another worker.
Misread(w) == \E v \in DOMAIN versions[w] : versions[w][v].from # w

\* maybeGetSkewProtectionResponse: whichever version serves, the deployment a
\* client asks for is served by a version of that deployment when it is in the
\* mapping, and "current" is the deployment of the version itself; unless deploy
\* was used for another environment, whose mapping is made of another worker's.
RoutedToOwn ==
    \A w \in Workers : ~Misread(w) =>
        \A v \in DOMAIN versions[w] : \A d \in DeploymentIds :
            LET to == versions[w][v].mapping[d]
            IN  \/ to = Absent
                \/ to = Current /\ d = versions[w][v].id
                \/ to \in 1 .. v - 1 /\ versions[w][to].id = d

\* The version was made of a mapping that another version has replaced since.
Raced(w, v) == versions[w][v].seen < v - 1

\* "Remove versions that are not passed in": a deployment whose version was listed
\* is in the mapping of a new version, unless some version since raced with
\* another one: both were made of the same mapping, and the later lacks the
\* deployment of the earlier, for good.
ForgottenOnlyByRace ==
    \A w \in Workers : ~Misread(w) =>
        \A v \in DOMAIN versions[w] : \A old \in versions[w][v].floor .. versions[w][v].seen :
            \/ old \in DOMAIN versions[w] /\ versions[w][v].mapping[versions[w][old].id] # Absent
            \/ \E u \in old + 1 .. v : Raced(w, u)

\* A version that serves finds its part of the cache and the table of tags,
\* whatever runs failed before; unless deploy was used for another environment,
\* whose prefix it does not read.
LiveIsPopulated ==
    \A w \in Workers : live[w] # 0 /\ versions[w][live[w]].from = w =>
        /\ w \in tables
        /\ \A c \in 0 .. Chunks - 1 : [prefix |-> w, id |-> versions[w][live[w]].id, chunk |-> c] \in populated[w]

=============================================================================
