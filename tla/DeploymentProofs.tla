-------------------------- MODULE DeploymentProofs --------------------------
(***************************************************************************)
(* Proofs about Deployment, for any number of runs, chunks and versions.   *)
(***************************************************************************)
EXTENDS Deployment, TLAPS

\* What a run and a version are.
RunStates ==
    [at : {"idle", "populate", "mapping", "create", "over"},
     command : {"none", "deploy", "upload"}, worker : Workers,
     id : Nat, chunk : 0 .. Chunks, mapping : Mappings, seen : Nat, floor : Int]
VersionStates == [id : Nat, mapping : Mappings, seen : Nat, floor : Int, from : Workers]
ChunkStates == [prefix : Workers, id : Nat, chunk : 0 .. Chunks]

\* The types that the proofs need.
Typed ==
    /\ runs \in [Runs -> RunStates]
    /\ versions \in [Workers -> Seq(VersionStates)]
    /\ oldest \in [Workers -> Nat \ {0}]
    /\ live \in [Workers -> Nat]
    /\ \A w \in Workers : live[w] \in 0 .. Len(versions[w])
    /\ populated \in [Workers -> SUBSET ChunkStates]
    /\ tables \subseteq Workers

\* The start of a run and its end are states of a run.
LEMMA IdleState ==
    /\ Idle \in RunStates
    /\ [Idle EXCEPT !.at = "over"] \in RunStates
    /\ \A c \in {"deploy", "upload"}, w \in Workers, d \in Nat :
        [Idle EXCEPT !.at = FirstStep[c], !.command = c, !.worker = w, !.id = d] \in RunStates
<1>1. NoMapping \in Mappings
  BY DEF NoMapping, Mappings, Absent
<1>2. 0 \in 0 .. Chunks
  BY DeploymentAssumption
<1>3. Idle \in RunStates
  BY <1>1, <1>2 DEF Idle, RunStates, Workers
<1>4. [Idle EXCEPT !.at = "over"] \in RunStates
  BY <1>3 DEF RunStates
<1>5. \A c \in {"deploy", "upload"} : FirstStep[c] \in {"populate", "mapping"}
  BY DEF FirstStep
<1>6. ASSUME NEW c \in {"deploy", "upload"}, NEW w \in Workers, NEW d \in Nat
      PROVE  [Idle EXCEPT !.at = FirstStep[c], !.command = c, !.worker = w, !.id = d] \in RunStates
  BY <1>3, <1>5 DEF RunStates
<1>7. QED
  BY <1>3, <1>4, <1>6

\* A command is started before its steps.
LEMMA Steps ==
    /\ FirstStep = [deploy |-> "populate", upload |-> "mapping"]
    /\ \A c \in {"deploy", "upload"} :
        /\ AfterPopulate[c] \in {"mapping", "create"}
        /\ AfterMapping[c] \in {"create", "populate"}
    /\ AfterPopulate["deploy"] = "mapping" /\ AfterPopulate["upload"] = "create"
    /\ AfterMapping["deploy"] = "create" /\ AfterMapping["upload"] = "populate"
  BY DEF FirstStep, AfterPopulate, AfterMapping

\* A run that is under way is one of a command.
Commanded == \A r \in Runs : runs[r].at \in {"populate", "mapping", "create"} => runs[r].command # "none"

\* The invariant holds initially.
LEMMA TypedInit == DeploymentInit => Typed /\ Commanded
<1> SUFFICES ASSUME DeploymentInit PROVE Typed /\ Commanded
  OBVIOUS
<1>1. runs \in [Runs -> RunStates]
  BY IdleState DEF DeploymentInit
<1>2. \A w \in Workers : versions[w] = <<>> /\ <<>> \in Seq(VersionStates)
  BY DEF DeploymentInit
<1>3. versions \in [Workers -> Seq(VersionStates)]
  BY <1>2 DEF DeploymentInit
<1>4. /\ oldest \in [Workers -> Nat \ {0}] /\ live \in [Workers -> Nat]
      /\ populated \in [Workers -> SUBSET ChunkStates] /\ tables \subseteq Workers
  BY DEF DeploymentInit
<1>5. \A w \in Workers : live[w] \in 0 .. Len(versions[w])
  BY <1>2 DEF DeploymentInit
<1>6. Commanded
  BY DEF DeploymentInit, Commanded, Idle
<1>7. QED
  BY <1>1, <1>3, <1>4, <1>5, <1>6 DEF Typed

\* The oldest version that is listed is one.
LEMMA FloorTyped == ASSUME Typed, NEW w \in Workers PROVE Floor(w) \in Nat \ {0} /\ Floor(w) >= oldest[w]
<1>1. Len(versions[w]) \in Nat /\ oldest[w] \in Nat \ {0}
  BY DEF Typed
<1>2. QED
  BY <1>1, DeploymentAssumption DEF Floor

\* Mappings are made of mappings.
LEMMA MappingTyped ==
    ASSUME Typed, NEW w \in Workers
    PROVE  /\ Existing(w) \in Mappings
           /\ \A id \in Nat : NewMapping(Existing(w), id, w) \in Mappings
<1>1. versions[w] \in Seq(VersionStates) /\ Len(versions[w]) \in Nat /\ Floor(w) \in Nat \ {0}
  BY FloorTyped DEF Typed
<1>2. Existing(w) \in Mappings
  <2>1. CASE Floor(w) <= Len(versions[w])
    <3>1. versions[w][Len(versions[w])] \in VersionStates
      BY <1>1, <2>1
    <3>2. QED
      BY <2>1, <3>1 DEF Existing, VersionStates
  <2>2. CASE ~(Floor(w) <= Len(versions[w]))
    BY <2>2 DEF Existing, NoMapping, Mappings, Absent
  <2>3. QED
    BY <2>1, <2>2
<1>3. ASSUME NEW id \in Nat PROVE NewMapping(Existing(w), id, w) \in Mappings
  <2>1. Replaced(w) \in Int
    BY <1>1 DEF Replaced
  <2>2. \A d \in DeploymentIds : Existing(w)[d] \in Int
    BY <1>2 DEF Mappings
  <2>3. QED
    BY <2>1, <2>2 DEF NewMapping, Mappings, Current, Absent
<1>4. QED
  BY <1>2, <1>3

\* What a run reads the variables of is a worker.
LEMMA ReadFromTyped == ASSUME Typed, NEW r \in Runs PROVE ReadFrom(r) \in Workers /\ runs[r].worker \in Workers
  BY DEF Typed, RunStates, ReadFrom, Workers

\* A run that only goes on or ends: what it leaves alone.
World == <<versions, oldest, live, populated, tables>>

\* A run may become any state of a run of a command.
LEMMA RunTyped ==
    ASSUME Typed, Commanded, NEW r \in Runs, NEW state \in RunStates,
           runs' = [runs EXCEPT ![r] = state],
           state.at \in {"populate", "mapping", "create"} => state.command # "none"
    PROVE  runs' \in [Runs -> RunStates] /\ Commanded'
  BY DEF Typed, Commanded

\* Every step keeps the types.
LEMMA TypedStep ==
    Typed /\ Commanded /\ [DeploymentNext]_deploymentVars => (Typed /\ Commanded)'
<1> SUFFICES ASSUME Typed, Commanded, [DeploymentNext]_deploymentVars PROVE Typed' /\ Commanded'
  OBVIOUS
<1>1. ASSUME UNCHANGED World, NEW r \in Runs, NEW state \in RunStates,
             runs' = [runs EXCEPT ![r] = state],
             state.at \in {"populate", "mapping", "create"} => state.command # "none"
      PROVE  Typed' /\ Commanded'
  BY <1>1, RunTyped DEF Typed, World
<1>2. ASSUME UNCHANGED World, NEW r \in Runs, Fails(r) PROVE Typed' /\ Commanded'
  BY <1>1, <1>2, IdleState DEF Fails, Idle
<1>3. ASSUME NEW r \in Runs, StartRun(r) PROVE Typed' /\ Commanded'
  <2>1. PICK c \in {"deploy", "upload"}, w \in Workers, d \in 1 .. r :
          runs' = [runs EXCEPT ![r] = [Idle EXCEPT !.at = FirstStep[c], !.command = c, !.worker = w, !.id = d]]
    BY <1>3 DEF StartRun
  <2>2. d \in Nat
    BY DEF Runs
  <2>3. [Idle EXCEPT !.at = FirstStep[c], !.command = c, !.worker = w, !.id = d].command # "none"
    BY DEF Idle
  <2>4. QED
    BY <1>1, <1>3, <2>1, <2>2, <2>3, IdleState DEF StartRun, World
<1>4. ASSUME NEW r \in Runs, PopulateChunk(r) PROVE Typed' /\ Commanded'
  <2>1. CASE ChunkFails(r) /\ UNCHANGED populated
    BY <1>2, <1>4, <2>1 DEF PopulateChunk, ChunkFails, World
  <2> DEFINE new == [prefix |-> ReadFrom(r), id |-> runs[r].id, chunk |-> runs[r].chunk]
  <2>2. CASE /\ populated' = [populated EXCEPT ![runs[r].worker] = @ \cup {new}]
             /\ runs' = [runs EXCEPT ![r].chunk = @ + 1]
    <3>1. runs[r] \in RunStates /\ new \in ChunkStates /\ runs[r].worker \in Workers
      BY ReadFromTyped DEF Typed, RunStates, ChunkStates
    <3>2. [runs[r] EXCEPT !.chunk = @ + 1] \in RunStates
      BY <1>4, <3>1, DeploymentAssumption DEF PopulateChunk, RunStates
    <3>3. runs' \in [Runs -> RunStates] /\ Commanded'
      BY <2>2, <3>1, <3>2 DEF Typed, Commanded, RunStates
    <3>4. populated' \in [Workers -> SUBSET ChunkStates]
      BY <2>2, <3>1 DEF Typed
    <3>5. QED
      BY <1>4, <3>3, <3>4 DEF Typed, PopulateChunk
  <2>3. QED
    BY <1>4, <2>1, <2>2 DEF PopulateChunk
<1>5. ASSUME NEW r \in Runs, CreateTable(r) PROVE Typed' /\ Commanded'
  <2>1. CASE Fails(r) /\ UNCHANGED tables
    BY <1>2, <1>5, <2>1 DEF CreateTable, World
  <2>2. CASE tables' = tables \cup {runs[r].worker} /\ runs' = [runs EXCEPT ![r].at = AfterPopulate[runs[r].command]]
    <3>1. runs[r] \in RunStates /\ runs[r].worker \in Workers /\ runs[r].command \in {"deploy", "upload"}
      BY <1>5, ReadFromTyped DEF Typed, Commanded, CreateTable, RunStates
    <3>2. [runs[r] EXCEPT !.at = AfterPopulate[runs[r].command]] \in RunStates
      BY <3>1, Steps DEF RunStates
    <3>3. runs' \in [Runs -> RunStates] /\ Commanded'
      BY <2>2, <3>1, <3>2 DEF Typed, Commanded, RunStates
    <3>4. QED
      BY <1>5, <2>2, <3>1, <3>3 DEF Typed, CreateTable
  <2>3. QED
    BY <1>5, <2>1, <2>2 DEF CreateTable
<1>6. ASSUME NEW r \in Runs, ComputeMapping(r) PROVE Typed' /\ Commanded'
  <2> DEFINE w == ReadFrom(r)
  <2> DEFINE state == [runs[r] EXCEPT !.at = AfterMapping[runs[r].command],
                                      !.mapping = NewMapping(Existing(w), runs[r].id, w),
                                      !.seen = Len(versions[w]), !.floor = Floor(w)]
  <2>1. UNCHANGED World /\ (Fails(r) \/ runs' = [runs EXCEPT ![r] = state])
    BY <1>6 DEF ComputeMapping, World
  <2>2. runs[r] \in RunStates /\ runs[r].command \in {"deploy", "upload"} /\ w \in Workers /\ runs[r].id \in Nat
    BY <1>6, ReadFromTyped DEF Typed, Commanded, ComputeMapping, RunStates
  <2>3. Len(versions[w]) \in Nat /\ Floor(w) \in Int /\ NewMapping(Existing(w), runs[r].id, w) \in Mappings
    BY <2>2, FloorTyped, MappingTyped DEF Typed
  <2>4. state \in RunStates /\ state.command # "none"
    BY <2>2, <2>3, Steps DEF RunStates
  <2>5. QED
    BY <1>1, <1>2, <2>1, <2>4
<1>7. ASSUME NEW r \in Runs, MappingFails(r) \/ CreationFails(r) PROVE Typed' /\ Commanded'
  BY <1>2, <1>7 DEF MappingFails, CreationFails, World
<1>8. ASSUME NEW r \in Runs, CreateVersion(r) PROVE Typed' /\ Commanded'
  <2> DEFINE w == runs[r].worker
  <2> DEFINE new == [id |-> runs[r].id, mapping |-> runs[r].mapping, seen |-> runs[r].seen,
                     floor |-> runs[r].floor, from |-> ReadFrom(r)]
  <2>1. w \in Workers /\ new \in VersionStates
    BY ReadFromTyped DEF Typed, RunStates, VersionStates
  <2>2. versions' = [versions EXCEPT ![w] = Append(@, new)] /\ UNCHANGED <<oldest, populated, tables>>
    BY <1>8 DEF CreateVersion
  <2>3. versions[w] \in Seq(VersionStates) /\ Append(versions[w], new) \in Seq(VersionStates)
    BY <2>1 DEF Typed
  <2>4. versions' \in [Workers -> Seq(VersionStates)]
    BY <2>1, <2>2, <2>3 DEF Typed
  <2>5. \A u \in Workers : Len(versions'[u]) = IF u = w THEN Len(versions[u]) + 1 ELSE Len(versions[u])
    BY <2>1, <2>2, <2>3 DEF Typed
  <2>6. \A u \in Workers : live'[u] = live[u] \/ (u = w /\ live'[u] = Len(versions[w]) + 1)
    <3>1. live' = [live EXCEPT ![w] = IF runs[r].command = "deploy" THEN Len(versions[w]) + 1 ELSE @]
      BY <1>8 DEF CreateVersion
    <3>2. live \in [Workers -> Nat]
      BY DEF Typed
    <3>3. CASE runs[r].command = "deploy"
      BY <2>1, <3>1, <3>2, <3>3
    <3>4. CASE runs[r].command # "deploy"
      BY <2>1, <3>1, <3>2, <3>4
    <3>5. QED
      BY <3>3, <3>4
  <2>7. live' \in [Workers -> Nat] /\ \A u \in Workers : live'[u] \in 0 .. Len(versions'[u])
    <3>1. \A u \in Workers : Len(versions[u]) \in Nat /\ live[u] \in 0 .. Len(versions[u])
      BY DEF Typed
    <3>2. \A u \in Workers : live'[u] \in 0 .. Len(versions'[u])
      BY <2>5, <2>6, <3>1
    <3>3. live' \in [Workers -> Nat]
      BY <1>8, <2>1, <3>1 DEF CreateVersion, Typed
    <3>4. QED
      BY <3>2, <3>3
  <2>8. runs' \in [Runs -> RunStates] /\ Commanded'
    BY <1>8, RunTyped, IdleState DEF CreateVersion, Idle
  <2>9. QED
    BY <2>2, <2>4, <2>7, <2>8 DEF Typed
<1>9. ASSUME NEW w \in Workers, Promote(w) PROVE Typed' /\ Commanded'
  <2>1. PICK v \in DOMAIN versions[w] : live' = [live EXCEPT ![w] = v]
    BY <1>9 DEF Promote
  <2>2. v \in 1 .. Len(versions[w])
    BY DEF Typed
  <2>3. QED
    BY <1>9, <2>1, <2>2 DEF Promote, Typed, Commanded
<1>10. ASSUME NEW w \in Workers, VersionAges(w) PROVE Typed' /\ Commanded'
  BY <1>10 DEF VersionAges, Typed, Commanded
<1>11. CASE UNCHANGED deploymentVars
  BY <1>11 DEF deploymentVars, Typed, Commanded
<1>12. QED
  BY <1>3, <1>4, <1>5, <1>6, <1>7, <1>8, <1>9, <1>10, <1>11 DEF DeploymentNext

\* The state of the commands and of the workers is well typed.
THEOREM DeploymentTyping == DeploymentSpec => []DeploymentTypeOK
<1>1. Typed => DeploymentTypeOK
  BY DEF Typed, DeploymentTypeOK, RunStates, VersionStates, ChunkStates
<1>2. QED
  BY <1>1, TypedInit, TypedStep, PTL DEF DeploymentSpec

-----------------------------------------------------------------------------
(* The cache of a version *)

\* The part of the cache that a run makes for its deployment, as far as a chunk.
Populated(r, chunks) ==
    \A c \in 0 .. chunks - 1 :
        [prefix |-> ReadFrom(r), id |-> runs[r].id, chunk |-> c] \in populated[runs[r].worker]

\* deploy populates the cache first, and upload after the mapping.
RunPopulates ==
    \A r \in Runs :
        /\ runs[r].at = "mapping" /\ runs[r].command = "upload" => runs[r].chunk = 0
        /\ runs[r].at = "populate" => Populated(r, runs[r].chunk)
        /\ runs[r].at = "create" \/ (runs[r].at = "mapping" /\ runs[r].command = "deploy") =>
            Populated(r, Chunks) /\ runs[r].worker \in tables

\* Each version has its part of the cache.
VersionPopulated(w, v) ==
    /\ w \in tables
    /\ \A c \in 0 .. Chunks - 1 :
        [prefix |-> versions[w][v].from, id |-> versions[w][v].id, chunk |-> c] \in populated[w]
VersionsPopulated == \A w \in Workers, v \in Nat : v \in DOMAIN versions[w] => VersionPopulated(w, v)

\* A step that neither populates for a run nor changes it keeps what it has.
LEMMA PopulatedKept ==
    ASSUME Typed, VersionsPopulated, tables \subseteq tables',
           \A w \in Workers : populated[w] \subseteq populated'[w]
    PROVE  /\ \A r \in Runs, n \in Nat : runs'[r] = runs[r] /\ Populated(r, n) => Populated(r, n)'
           /\ versions' = versions => VersionsPopulated'
<1>1. \A r \in Runs, n \in Nat : runs'[r] = runs[r] /\ Populated(r, n) => Populated(r, n)'
  BY ReadFromTyped DEF Populated, ReadFrom
<1>2. versions' = versions => VersionsPopulated'
  BY DEF VersionsPopulated, VersionPopulated
<1>3. QED
  BY <1>1, <1>2

\* Every step keeps the populated caches.
LEMMA PopulatedStep ==
    Typed /\ Commanded /\ RunPopulates /\ VersionsPopulated /\ [DeploymentNext]_deploymentVars
        => (RunPopulates /\ VersionsPopulated)'
<1> SUFFICES ASSUME Typed, Commanded, RunPopulates, VersionsPopulated, [DeploymentNext]_deploymentVars
             PROVE  RunPopulates' /\ VersionsPopulated'
  OBVIOUS
<1> USE DEF World
<1>1. Chunks \in Nat /\ \A r \in Runs : runs[r].chunk \in Nat
  BY DeploymentAssumption DEF Typed, RunStates
<1>2. ASSUME NEW r \in Runs, \A q \in Runs : q # r => runs'[q] = runs[q],
             tables \subseteq tables', \A w \in Workers : populated[w] \subseteq populated'[w],
             runs'[r].at = "mapping" /\ runs'[r].command = "upload" => runs'[r].chunk = 0,
             runs'[r].at = "populate" => Populated(r, runs[r].chunk)',
             runs'[r].at = "create" \/ (runs'[r].at = "mapping" /\ runs'[r].command = "deploy") =>
                Populated(r, Chunks)' /\ runs'[r].worker \in tables'
      PROVE  RunPopulates'
  BY <1>1, <1>2, PopulatedKept DEF RunPopulates
<1>3. ASSUME NEW r \in Runs, Fails(r), UNCHANGED World PROVE RunPopulates' /\ VersionsPopulated'
  <2>1. \A q \in Runs : runs'[q] = IF q = r THEN [Idle EXCEPT !.at = "over"] ELSE runs[q]
    BY <1>3 DEF Fails, Typed
  <2>2. runs'[r].at = "over"
    BY <2>1 DEF Idle
  <2>3. QED
    BY <1>2, <1>3, <2>1, <2>2, PopulatedKept
<1>4. ASSUME NEW r \in Runs, StartRun(r) PROVE RunPopulates' /\ VersionsPopulated'
  <2>1. PICK c \in {"deploy", "upload"}, w \in Workers, d \in 1 .. r :
          runs' = [runs EXCEPT ![r] = [Idle EXCEPT !.at = FirstStep[c], !.command = c, !.worker = w, !.id = d]]
    BY <1>4 DEF StartRun
  <2>2. \A q \in Runs : q # r => runs'[q] = runs[q]
    BY <2>1 DEF Typed
  <2>3. /\ runs'[r].at = FirstStep[c] /\ runs'[r].command = c /\ runs'[r].chunk = 0
    BY <2>1 DEF Typed, Idle
  <2>4. Populated(r, runs[r].chunk)'
    BY <2>3 DEF Populated
  <2>5. ~(runs'[r].at = "create" \/ (runs'[r].at = "mapping" /\ runs'[r].command = "deploy"))
    BY <2>3, Steps
  <2>6. UNCHANGED World
    BY <1>4 DEF StartRun
  <2>7. QED
    BY <1>2, <2>2, <2>3, <2>4, <2>5, <2>6, PopulatedKept
<1>5. ASSUME NEW r \in Runs, PopulateChunk(r) PROVE RunPopulates' /\ VersionsPopulated'
  <2>1. CASE ChunkFails(r) /\ UNCHANGED populated
    BY <1>3, <1>5, <2>1 DEF PopulateChunk, ChunkFails
  <2> DEFINE new == [prefix |-> ReadFrom(r), id |-> runs[r].id, chunk |-> runs[r].chunk]
  <2>2. CASE /\ populated' = [populated EXCEPT ![runs[r].worker] = @ \cup {new}]
             /\ runs' = [runs EXCEPT ![r].chunk = @ + 1]
    <3>1. /\ \A q \in Runs : q # r => runs'[q] = runs[q]
          /\ \A w \in Workers : populated[w] \subseteq populated'[w]
          /\ runs'[r] = [runs[r] EXCEPT !.chunk = @ + 1]
          /\ runs[r].worker \in Workers /\ new \in populated'[runs[r].worker]
      BY <2>2, ReadFromTyped DEF Typed
    <3>2. /\ runs'[r].at = "populate" /\ runs'[r].worker = runs[r].worker /\ runs'[r].id = runs[r].id
          /\ runs'[r].chunk = runs[r].chunk + 1 /\ ReadFrom(r)' = ReadFrom(r)
      BY <1>5, <3>1 DEF PopulateChunk, Typed, RunStates, ReadFrom
    <3>3. Populated(r, runs[r].chunk)
      BY <1>5 DEF RunPopulates, PopulateChunk
    <3>4. Populated(r, runs[r].chunk)'
      <4>1. ASSUME NEW c \in 0 .. runs[r].chunk
            PROVE  [prefix |-> ReadFrom(r), id |-> runs[r].id, chunk |-> c] \in populated'[runs[r].worker]
        BY <1>1, <3>1, <3>3 DEF Populated
      <4>2. QED
        BY <1>1, <3>2, <4>1 DEF Populated
    <3>5. UNCHANGED <<versions, tables>>
      BY <1>5 DEF PopulateChunk
    <3>6. QED
      BY <1>2, <3>1, <3>2, <3>4, <3>5, PopulatedKept
  <2>3. QED
    BY <1>5, <2>1, <2>2 DEF PopulateChunk
<1>6. ASSUME NEW r \in Runs, CreateTable(r) PROVE RunPopulates' /\ VersionsPopulated'
  <2>1. CASE Fails(r) /\ UNCHANGED tables
    BY <1>3, <1>6, <2>1 DEF CreateTable
  <2>2. CASE tables' = tables \cup {runs[r].worker} /\ runs' = [runs EXCEPT ![r].at = AfterPopulate[runs[r].command]]
    <3>1. /\ \A q \in Runs : q # r => runs'[q] = runs[q]
          /\ runs'[r] = [runs[r] EXCEPT !.at = AfterPopulate[runs[r].command]]
          /\ runs[r].command \in {"deploy", "upload"} /\ runs[r] \in RunStates
      BY <1>6, <2>2 DEF Typed, Commanded, CreateTable, RunStates
    <3>2. /\ runs'[r].at = AfterPopulate[runs[r].command] /\ runs'[r].worker = runs[r].worker
          /\ runs'[r].command = runs[r].command /\ runs'[r].id = runs[r].id /\ ReadFrom(r)' = ReadFrom(r)
      BY <3>1 DEF RunStates, ReadFrom
    <3>3. Populated(r, Chunks) /\ populated' = populated /\ versions' = versions
      BY <1>6 DEF RunPopulates, CreateTable
    <3>4. Populated(r, Chunks)'
      BY <3>2, <3>3 DEF Populated
    <3>5. runs'[r].at # "populate" /\ ~(runs'[r].at = "mapping" /\ runs'[r].command = "upload")
      BY <3>1, <3>2, Steps
    <3>6. QED
      BY <1>2, <2>2, <3>1, <3>2, <3>3, <3>4, <3>5, PopulatedKept
  <2>3. QED
    BY <1>6, <2>1, <2>2 DEF CreateTable
<1>7. ASSUME NEW r \in Runs, ComputeMapping(r) PROVE RunPopulates' /\ VersionsPopulated'
  <2> DEFINE w == ReadFrom(r)
  <2> DEFINE state == [runs[r] EXCEPT !.at = AfterMapping[runs[r].command],
                                      !.mapping = NewMapping(Existing(w), runs[r].id, w),
                                      !.seen = Len(versions[w]), !.floor = Floor(w)]
  <2>1. UNCHANGED World
    BY <1>7 DEF ComputeMapping
  <2>2. CASE Fails(r)
    BY <1>3, <2>1, <2>2
  <2>3. CASE runs' = [runs EXCEPT ![r] = state]
    <3>1. \A q \in Runs : q # r => runs'[q] = runs[q]
      BY <2>3 DEF Typed
    <3>2. runs'[r] = state /\ runs[r] \in RunStates /\ runs[r].command \in {"deploy", "upload"}
      BY <1>7, <2>3 DEF Typed, Commanded, ComputeMapping, RunStates
    <3>3. /\ runs'[r].at = AfterMapping[runs[r].command] /\ runs'[r].worker = runs[r].worker
          /\ runs'[r].command = runs[r].command /\ runs'[r].id = runs[r].id
          /\ runs'[r].chunk = runs[r].chunk /\ ReadFrom(r)' = ReadFrom(r)
      BY <3>2 DEF RunStates, ReadFrom
    <3>4. CASE runs[r].command = "deploy"
      <4>1. Populated(r, Chunks) /\ runs[r].worker \in tables
        BY <1>7, <3>4 DEF RunPopulates, ComputeMapping
      <4>2. Populated(r, Chunks)'
        BY <2>1, <3>3, <4>1 DEF Populated
      <4>3. QED
        BY <1>2, <2>1, <3>1, <3>3, <3>4, <4>1, <4>2, Steps, PopulatedKept
    <3>5. CASE runs[r].command = "upload"
      <4>1. runs'[r].chunk = 0 /\ runs'[r].at = "populate"
        BY <1>7, <3>3, <3>5, Steps DEF RunPopulates, ComputeMapping
      <4>2. Populated(r, runs[r].chunk)'
        BY <4>1 DEF Populated
      <4>3. QED
        BY <1>2, <2>1, <3>1, <4>1, <4>2, PopulatedKept
    <3>6. QED
      BY <3>2, <3>4, <3>5
  <2>4. QED
    BY <1>7, <2>2, <2>3 DEF ComputeMapping
<1>8. ASSUME NEW r \in Runs, MappingFails(r) \/ CreationFails(r) PROVE RunPopulates' /\ VersionsPopulated'
  BY <1>3, <1>8 DEF MappingFails, CreationFails
<1>9. ASSUME NEW r \in Runs, CreateVersion(r) PROVE RunPopulates' /\ VersionsPopulated'
  <2> DEFINE w == runs[r].worker
  <2> DEFINE new == [id |-> runs[r].id, mapping |-> runs[r].mapping, seen |-> runs[r].seen,
                     floor |-> runs[r].floor, from |-> ReadFrom(r)]
  <2>1. versions' = [versions EXCEPT ![w] = Append(@, new)] /\ UNCHANGED <<populated, tables>>
    BY <1>9 DEF CreateVersion
  <2>2. w \in Workers /\ \A u \in Workers : versions[u] \in Seq(VersionStates)
    BY ReadFromTyped DEF Typed
  <2>3. Populated(r, Chunks) /\ w \in tables
    <3>1. runs[r].at = "create"
      BY <1>9 DEF CreateVersion
    <3>2. QED
      BY <3>1 DEF RunPopulates
  <2>4. \A q \in Runs : runs'[q] = IF q = r THEN [Idle EXCEPT !.at = "over"] ELSE runs[q]
    BY <1>9 DEF CreateVersion, Typed
  <2>5. runs'[r].at = "over"
    BY <2>4 DEF Idle
  <2>6. RunPopulates'
    BY <1>2, <2>1, <2>4, <2>5
  <2>7. ASSUME NEW u \in Workers, NEW v \in Nat, v \in DOMAIN versions'[u] PROVE VersionPopulated(u, v)'
    <3>1. CASE u = w /\ v = Len(versions[w]) + 1
      <4>1. versions'[w] = Append(versions[w], new) /\ versions[w] \in Seq(VersionStates)
        BY <2>1, <2>2 DEF Typed
      <4>2. versions'[u][v] = new
        BY <3>1, <4>1
      <4>3. QED
        BY <2>1, <2>3, <3>1, <4>2 DEF VersionPopulated, Populated
    <3>2. CASE ~(u = w /\ v = Len(versions[w]) + 1)
      <4>1. v \in DOMAIN versions[u] /\ versions'[u][v] = versions[u][v]
        BY <2>1, <2>2, <2>7, <3>2
      <4>2. QED
        BY <2>1, <4>1 DEF VersionsPopulated, VersionPopulated
    <3>3. QED
      BY <3>1, <3>2
  <2>8. QED
    BY <2>6, <2>7 DEF VersionsPopulated
<1>10. ASSUME UNCHANGED <<runs, versions, populated, tables>> PROVE RunPopulates' /\ VersionsPopulated'
  BY <1>10 DEF RunPopulates, Populated, ReadFrom, VersionsPopulated, VersionPopulated
<1>11. QED
  BY <1>4, <1>5, <1>6, <1>7, <1>8, <1>9, <1>10 DEF DeploymentNext, Promote, VersionAges, deploymentVars

\* A version that serves finds its part of the cache and the table of tags, however many
\* runs fail before or run at the same time.
THEOREM LiveAlwaysPopulated == DeploymentSpec => []LiveIsPopulated
<1>1. DeploymentInit => RunPopulates /\ VersionsPopulated
  BY DEF DeploymentInit, RunPopulates, VersionsPopulated, Idle
<1>2. Typed /\ VersionsPopulated => LiveIsPopulated
  BY DEF Typed, VersionsPopulated, VersionPopulated, LiveIsPopulated
<1>3. QED
  BY <1>1, <1>2, TypedInit, TypedStep, PopulatedStep, PTL DEF DeploymentSpec

-----------------------------------------------------------------------------
(* The mapping of a version *)

\* A mapping, of a deployment, that routes to the first versions of a worker.
Routes(mapping, id, w, n) ==
    \A d \in DeploymentIds :
        \/ mapping[d] = Absent
        \/ mapping[d] = Current /\ d = id
        \/ mapping[d] \in 1 .. n /\ versions[w][mapping[d]].id = d

\* A run whose mapping is computed.
Mapped(r) == runs[r].at = "create" \/ (runs[r].at = "populate" /\ runs[r].command = "upload")

\* The mapping of a run was right when it was computed, and versions only come to it.
RunsRoute ==
    \A r \in Runs :
        Mapped(r) /\ ~Misread(ReadFrom(r)) =>
            Routes(runs[r].mapping, runs[r].id, ReadFrom(r), Len(versions[ReadFrom(r)]))

\* The mapping of a version routes to the ones before it.
VersionsRoute ==
    \A w \in Workers : ~Misread(w) =>
        \A v \in 1 .. Len(versions[w]) : Routes(versions[w][v].mapping, versions[w][v].id, w, v - 1)

\* The mapping that is computed of the last version's routes to it and to the ones before.
LEMMA NewRoutes ==
    ASSUME Typed, VersionsRoute, NEW w \in Workers, ~Misread(w), NEW id \in Nat
    PROVE  Routes(NewMapping(Existing(w), id, w), id, w, Len(versions[w]))
<1> DEFINE n == Len(versions[w])
<1>1. n \in Nat /\ Floor(w) \in Nat \ {0}
  BY FloorTyped DEF Typed
<1>2. SUFFICES ASSUME NEW d \in DeploymentIds
               PROVE  LET to == NewMapping(Existing(w), id, w)[d]
                      IN  \/ to = Absent
                          \/ to = Current /\ d = id
                          \/ to \in 1 .. n /\ versions[w][to].id = d
  BY DEF Routes
<1>3. NewMapping(Existing(w), id, w)[d] =
        IF d = id THEN Current
        ELSE IF Existing(w)[d] = Current THEN Replaced(w)
        ELSE IF Listed(Existing(w)[d], w) THEN Existing(w)[d]
        ELSE Absent
  BY DEF NewMapping
<1>4. CASE Floor(w) <= n
  <2>1. n \in 1 .. n /\ Existing(w) = versions[w][n].mapping
    BY <1>1, <1>4 DEF Existing
  <2>2. Routes(versions[w][n].mapping, versions[w][n].id, w, n - 1)
    BY <2>1 DEF VersionsRoute
  <2>3. \/ Existing(w)[d] = Absent
        \/ Existing(w)[d] = Current /\ d = versions[w][n].id
        \/ Existing(w)[d] \in 1 .. n - 1 /\ versions[w][Existing(w)[d]].id = d
    BY <2>1, <2>2 DEF Routes
  <2>4. ~Listed(Absent, w)
    BY <1>1 DEF Listed, Absent
  <2>5. QED
    BY <1>1, <1>3, <2>1, <2>3, <2>4 DEF Replaced, Current, Absent
<1>5. CASE ~(Floor(w) <= n)
  <2>1. Existing(w)[d] = Absent
    BY <1>5 DEF Existing, NoMapping
  <2>2. ~Listed(Absent, w)
    BY <1>1 DEF Listed, Absent
  <2>3. QED
    BY <1>3, <2>1, <2>2 DEF Current, Absent
<1>6. QED
  BY <1>4, <1>5

\* A version more leaves the ones before as they are.
LEMMA VersionsGrow ==
    ASSUME Typed, NEW w \in Workers, NEW new \in VersionStates,
           versions' = [versions EXCEPT ![w] = Append(@, new)]
    PROVE  /\ \A u \in Workers : Misread(u) => Misread(u)'
           /\ new.from # w => Misread(w)'
           /\ \A u \in Workers : Len(versions'[u]) \in Nat /\ Len(versions'[u]) >= Len(versions[u])
           /\ \A u \in Workers : u # w => Len(versions'[u]) = Len(versions[u])
           /\ Len(versions'[w]) = Len(versions[w]) + 1
           /\ \A u \in Workers : \A v \in 1 .. Len(versions[u]) : versions'[u][v] = versions[u][v]
           /\ versions'[w][Len(versions[w]) + 1] = new
<1>1. versions[w] \in Seq(VersionStates) /\ versions'[w] = Append(versions[w], new)
  BY DEF Typed
<1>2. \A u \in Workers : u # w => versions'[u] = versions[u]
  BY DEF Typed
<1>3. \A u \in Workers : versions[u] \in Seq(VersionStates)
  BY DEF Typed
<1>4. /\ Len(versions'[w]) = Len(versions[w]) + 1 /\ Len(versions[w]) \in Nat
      /\ \A v \in 1 .. Len(versions[w]) : versions'[w][v] = versions[w][v]
      /\ versions'[w][Len(versions[w]) + 1] = new
      /\ DOMAIN versions'[w] = 1 .. Len(versions[w]) + 1
  BY <1>1
<1>5. \A u \in Workers : Len(versions'[u]) \in Nat /\ Len(versions'[u]) >= Len(versions[u])
  BY <1>2, <1>3, <1>4
<1>6. \A u \in Workers : \A v \in 1 .. Len(versions[u]) : versions'[u][v] = versions[u][v]
  BY <1>2, <1>4
<1>7. \A u \in Workers : Misread(u) => Misread(u)'
  <2>1. ASSUME NEW u \in Workers, Misread(u) PROVE Misread(u)'
    <3>1. PICK v \in DOMAIN versions[u] : versions[u][v].from # u
      BY <2>1 DEF Misread
    <3>2. v \in 1 .. Len(versions[u]) /\ v \in DOMAIN versions'[u]
      BY <1>2, <1>3, <1>4
    <3>3. QED
      BY <1>6, <3>1, <3>2 DEF Misread
  <2>2. QED
    BY <2>1
<1>8. new.from # w => Misread(w)'
  BY <1>4 DEF Misread
<1>9. QED
  BY <1>2, <1>4, <1>5, <1>6, <1>7, <1>8

\* A step that makes no version keeps the routes; the run that makes it has its own right.
LEMMA RunsRouteKept ==
    ASSUME Typed, RunsRoute, VersionsRoute, versions' = versions, NEW r \in Runs,
           \A q \in Runs : q # r => runs'[q] = runs[q],
           \/ ~Mapped(r)'
           \/ /\ Mapped(r)
              /\ runs'[r].mapping = runs[r].mapping /\ runs'[r].id = runs[r].id
              /\ ReadFrom(r)' = ReadFrom(r)
           \/ ~Misread(ReadFrom(r)') =>
                Routes(runs'[r].mapping, runs'[r].id, ReadFrom(r)', Len(versions[ReadFrom(r)']))
    PROVE  RunsRoute' /\ VersionsRoute'
<1>1. VersionsRoute'
  BY DEF VersionsRoute, Misread, Routes
<1>2. ASSUME NEW q \in Runs, Mapped(q)', ~Misread(ReadFrom(q))'
      PROVE  Routes(runs[q].mapping, runs[q].id, ReadFrom(q), Len(versions[ReadFrom(q)]))'
  <2>1. CASE q # r
    <3>1. Mapped(q) /\ ReadFrom(q)' = ReadFrom(q) /\ runs'[q] = runs[q]
      BY <1>2, <2>1 DEF Mapped, ReadFrom
    <3>2. ~Misread(ReadFrom(q))
      BY <1>2, <3>1 DEF Misread
    <3>3. Routes(runs[q].mapping, runs[q].id, ReadFrom(q), Len(versions[ReadFrom(q)]))
      BY <3>1, <3>2 DEF RunsRoute
    <3>4. QED
      BY <3>1, <3>3 DEF Routes
  <2>2. CASE q = r /\ Mapped(r) /\ runs'[r].mapping = runs[r].mapping /\ runs'[r].id = runs[r].id
             /\ ReadFrom(r)' = ReadFrom(r)
    <3>1. ~Misread(ReadFrom(r))
      BY <1>2, <2>2 DEF Misread
    <3>2. Routes(runs[r].mapping, runs[r].id, ReadFrom(r), Len(versions[ReadFrom(r)]))
      BY <2>2, <3>1 DEF RunsRoute
    <3>3. QED
      BY <2>2, <3>2 DEF Routes
  <2>3. CASE q = r /\ (~Misread(ReadFrom(r)') =>
                Routes(runs'[r].mapping, runs'[r].id, ReadFrom(r)', Len(versions[ReadFrom(r)'])))
    <3>1. ~Misread(ReadFrom(r)')
      BY <1>2, <2>3 DEF Misread
    <3>2. QED
      BY <2>3, <3>1 DEF Routes
  <2>4. QED
    BY <1>2, <2>1, <2>2, <2>3
<1>3. QED
  BY <1>1, <1>2 DEF RunsRoute

\* Every step keeps the routes.
LEMMA RoutesStep ==
    Typed /\ Commanded /\ RunsRoute /\ VersionsRoute /\ [DeploymentNext]_deploymentVars
        => (RunsRoute /\ VersionsRoute)'
<1> SUFFICES ASSUME Typed, Commanded, RunsRoute, VersionsRoute, [DeploymentNext]_deploymentVars
             PROVE  RunsRoute' /\ VersionsRoute'
  OBVIOUS
<1>1. ASSUME NEW r \in Runs, Fails(r), versions' = versions PROVE RunsRoute' /\ VersionsRoute'
  <2>1. \A q \in Runs : runs'[q] = IF q = r THEN [Idle EXCEPT !.at = "over"] ELSE runs[q]
    BY <1>1 DEF Fails, Typed
  <2>2. ~Mapped(r)'
    BY <2>1 DEF Mapped, Idle
  <2>3. QED
    BY <1>1, <2>1, <2>2, RunsRouteKept
<1>2. ASSUME NEW r \in Runs, StartRun(r) PROVE RunsRoute' /\ VersionsRoute'
  <2>1. PICK c \in {"deploy", "upload"}, w \in Workers, d \in 1 .. r :
          runs' = [runs EXCEPT ![r] = [Idle EXCEPT !.at = FirstStep[c], !.command = c, !.worker = w, !.id = d]]
    BY <1>2 DEF StartRun
  <2>2. \A q \in Runs : q # r => runs'[q] = runs[q]
    BY <2>1 DEF Typed
  <2>3. runs'[r].at = FirstStep[c] /\ runs'[r].command = c
    BY <2>1 DEF Typed, Idle
  <2>4. ~Mapped(r)'
    BY <2>3, Steps DEF Mapped
  <2>5. QED
    BY <1>2, <2>2, <2>4, RunsRouteKept DEF StartRun
<1>3. ASSUME NEW r \in Runs, PopulateChunk(r) PROVE RunsRoute' /\ VersionsRoute'
  <2>1. CASE ChunkFails(r)
    BY <1>1, <1>3, <2>1 DEF PopulateChunk, ChunkFails
  <2>2. CASE runs' = [runs EXCEPT ![r].chunk = @ + 1]
    <3>1. (\A q \in Runs : q # r => runs'[q] = runs[q]) /\ runs'[r] = [runs[r] EXCEPT !.chunk = @ + 1]
      BY <2>2 DEF Typed
    <3>2. /\ Mapped(r)' = Mapped(r) /\ ReadFrom(r)' = ReadFrom(r)
          /\ runs'[r].mapping = runs[r].mapping /\ runs'[r].id = runs[r].id
      BY <3>1 DEF Mapped, ReadFrom, Typed, RunStates
    <3>3. QED
      BY <1>3, <3>1, <3>2, RunsRouteKept DEF PopulateChunk
  <2>3. QED
    BY <1>3, <2>1, <2>2 DEF PopulateChunk
<1>4. ASSUME NEW r \in Runs, CreateTable(r) PROVE RunsRoute' /\ VersionsRoute'
  <2>1. CASE Fails(r)
    BY <1>1, <1>4, <2>1 DEF CreateTable
  <2>2. CASE runs' = [runs EXCEPT ![r].at = AfterPopulate[runs[r].command]]
    <3>1. /\ \A q \in Runs : q # r => runs'[q] = runs[q]
          /\ runs'[r] = [runs[r] EXCEPT !.at = AfterPopulate[runs[r].command]]
          /\ runs[r].at = "populate" /\ runs[r].command \in {"deploy", "upload"} /\ runs[r] \in RunStates
      BY <1>4, <2>2 DEF Typed, Commanded, CreateTable, RunStates
    <3>2. /\ runs'[r].at = AfterPopulate[runs[r].command] /\ runs'[r].command = runs[r].command
          /\ ReadFrom(r)' = ReadFrom(r)
          /\ runs'[r].mapping = runs[r].mapping /\ runs'[r].id = runs[r].id
      BY <3>1 DEF ReadFrom, RunStates
    <3>3. Mapped(r) \/ ~Mapped(r)'
      BY <3>1, <3>2, Steps DEF Mapped
    <3>4. QED
      BY <1>4, <3>1, <3>2, <3>3, RunsRouteKept DEF CreateTable
  <2>3. QED
    BY <1>4, <2>1, <2>2 DEF CreateTable
<1>5. ASSUME NEW r \in Runs, ComputeMapping(r) PROVE RunsRoute' /\ VersionsRoute'
  <2> DEFINE w == ReadFrom(r)
  <2> DEFINE state == [runs[r] EXCEPT !.at = AfterMapping[runs[r].command],
                                      !.mapping = NewMapping(Existing(w), runs[r].id, w),
                                      !.seen = Len(versions[w]), !.floor = Floor(w)]
  <2>1. versions' = versions /\ (Fails(r) \/ runs' = [runs EXCEPT ![r] = state])
    BY <1>5 DEF ComputeMapping
  <2>2. CASE Fails(r)
    BY <1>1, <2>1, <2>2
  <2>3. CASE runs' = [runs EXCEPT ![r] = state]
    <3>1. \A q \in Runs : q # r => runs'[q] = runs[q]
      BY <2>3 DEF Typed
    <3>2. runs'[r] = state /\ runs[r] \in RunStates
      BY <2>3 DEF Typed
    <3>3. /\ runs'[r].mapping = NewMapping(Existing(w), runs[r].id, w)
          /\ runs'[r].id = runs[r].id /\ ReadFrom(r)' = ReadFrom(r) /\ runs[r].id \in Nat
      BY <3>2 DEF RunStates, ReadFrom
    <3>4. ~Misread(w) => Routes(NewMapping(Existing(w), runs[r].id, w), runs[r].id, w, Len(versions[w]))
      BY <3>3, ReadFromTyped, NewRoutes
    <3>5. ~Misread(ReadFrom(r)') => Routes(runs'[r].mapping, runs'[r].id, ReadFrom(r)', Len(versions[ReadFrom(r)']))
      BY <3>3, <3>4
    <3>6. QED
      BY <2>1, <3>1, <3>5, RunsRouteKept
  <2>4. QED
    BY <2>1, <2>2, <2>3
<1>6. ASSUME NEW r \in Runs, MappingFails(r) \/ CreationFails(r) PROVE RunsRoute' /\ VersionsRoute'
  BY <1>1, <1>6 DEF MappingFails, CreationFails
<1>7. ASSUME NEW r \in Runs, CreateVersion(r) PROVE RunsRoute' /\ VersionsRoute'
  <2>0. runs[r].worker \in Workers /\ ReadFrom(r) \in Workers
    BY ReadFromTyped
  <2>1. PICK w \in Workers : w = runs[r].worker
    BY <2>0
  <2>2. PICK new \in VersionStates :
          new = [id |-> runs[r].id, mapping |-> runs[r].mapping, seen |-> runs[r].seen,
                 floor |-> runs[r].floor, from |-> ReadFrom(r)]
    BY <2>0 DEF Typed, RunStates, VersionStates
  <2>a. versions' = [versions EXCEPT ![w] = Append(@, new)]
    BY <1>7, <2>1, <2>2 DEF CreateVersion
  <2>3. /\ \A u \in Workers : Misread(u) => Misread(u)'
        /\ new.from # w => Misread(w)'
        /\ \A u \in Workers : Len(versions'[u]) \in Nat /\ Len(versions'[u]) >= Len(versions[u])
        /\ \A u \in Workers : u # w => Len(versions'[u]) = Len(versions[u])
        /\ Len(versions'[w]) = Len(versions[w]) + 1
        /\ \A u \in Workers : \A v \in 1 .. Len(versions[u]) : versions'[u][v] = versions[u][v]
        /\ versions'[w][Len(versions[w]) + 1] = new
    BY <2>a, VersionsGrow
  <2>4. \A u \in Workers : Len(versions[u]) \in Nat
    BY DEF Typed
  <2>5. \A u \in Workers : \A n \in 0 .. Len(versions[u]) : \A to \in 1 .. n : versions'[u][to] = versions[u][to]
    BY <2>3, <2>4
  <2>6. \A q \in Runs : runs'[q] = IF q = r THEN [Idle EXCEPT !.at = "over"] ELSE runs[q]
    BY <1>7 DEF CreateVersion, Typed
  <2>7. RunsRoute'
    <3>1. ASSUME NEW q \in Runs, Mapped(q)', ~Misread(ReadFrom(q))'
          PROVE  Routes(runs[q].mapping, runs[q].id, ReadFrom(q), Len(versions[ReadFrom(q)]))'
      <4>1. q # r
        BY <2>6, <3>1 DEF Mapped, Idle
      <4>2. runs'[q] = runs[q] /\ ReadFrom(q)' = ReadFrom(q) /\ Mapped(q) /\ ReadFrom(q) \in Workers
        BY <2>6, <3>1, <4>1, ReadFromTyped DEF Mapped, ReadFrom
      <4>3. ~Misread(ReadFrom(q))
        BY <2>3, <3>1, <4>2 DEF Misread
      <4>4. Routes(runs[q].mapping, runs[q].id, ReadFrom(q), Len(versions[ReadFrom(q)]))
        BY <4>2, <4>3 DEF RunsRoute
      <4>5. Len(versions'[ReadFrom(q)]) \in Nat /\ Len(versions'[ReadFrom(q)]) >= Len(versions[ReadFrom(q)])
        BY <2>3, <2>4, <4>2
      <4>6. QED
        BY <2>3, <2>4, <4>2, <4>4, <4>5 DEF Routes
    <3>2. QED
      BY <3>1 DEF RunsRoute
  <2>8. VersionsRoute'
    <3>1. ASSUME NEW u \in Workers, ~Misread(u)', NEW v \in 1 .. Len(versions'[u])
          PROVE  Routes(versions[u][v].mapping, versions[u][v].id, u, v - 1)'
      <4>1. ~Misread(u)
        BY <2>3, <3>1
      <4>2. CASE v \in 1 .. Len(versions[u])
        <5>1. Routes(versions[u][v].mapping, versions[u][v].id, u, v - 1)
          BY <4>1, <4>2 DEF VersionsRoute
        <5>2. v - 1 \in 0 .. Len(versions[u]) /\ versions'[u][v] = versions[u][v]
          BY <2>3, <2>4, <4>2
        <5>3. Routes(versions[u][v].mapping, versions[u][v].id, u, v - 1)'
          BY <2>5, <5>1, <5>2 DEF Routes
        <5>4. QED
          BY <5>3
      <4>3. CASE v \notin 1 .. Len(versions[u])
        <5>1. u = w /\ v = Len(versions[w]) + 1 /\ versions'[u][v] = new
          BY <2>3, <2>4, <3>1, <4>3
        <5>2. ReadFrom(r) = w
          BY <2>2, <2>3, <3>1, <5>1
        <5>3. Mapped(r)
          BY <1>7 DEF CreateVersion, Mapped
        <5>4. Routes(runs[r].mapping, runs[r].id, w, Len(versions[w]))
          BY <4>1, <5>1, <5>2, <5>3 DEF RunsRoute
        <5>5. new.mapping = runs[r].mapping /\ new.id = runs[r].id /\ v - 1 = Len(versions[w])
          BY <2>2, <2>4, <5>1
        <5>6. \A to \in 1 .. Len(versions[w]) : versions'[w][to] = versions[w][to]
          BY <2>3
        <5>7. Routes(new.mapping, new.id, w, Len(versions[w]))
          BY <5>4, <5>5
        <5>8. Routes(versions[u][v].mapping, versions[u][v].id, u, v - 1)'
          <6>1. versions'[u][v].mapping = new.mapping /\ versions'[u][v].id = new.id
            BY <5>1
          <6>2. QED
            BY <5>1, <5>5, <5>6, <5>7, <6>1 DEF Routes
        <5>9. QED
          BY <5>8
      <4>4. QED
        BY <4>2, <4>3
    <3>2. QED
      BY <3>1 DEF VersionsRoute
  <2>9. QED
    BY <2>7, <2>8
<1>8. ASSUME UNCHANGED <<runs, versions>> PROVE RunsRoute' /\ VersionsRoute'
  <2>1. RunsRoute'
    BY <1>8 DEF RunsRoute, Mapped, ReadFrom, Misread, Routes
  <2>2. VersionsRoute'
    BY <1>8 DEF VersionsRoute, Misread, Routes
  <2>3. QED
    BY <2>1, <2>2
<1>9. QED
  BY <1>2, <1>3, <1>4, <1>5, <1>6, <1>7, <1>8 DEF DeploymentNext, Promote, VersionAges, deploymentVars

\* Whichever runs race, are repeated or fail: the deployment a client asks for is served by
\* a version of that deployment when it is in the mapping of the version that serves, as
\* long as no version was made with the variables of another worker.
THEOREM AlwaysRoutedToOwn == DeploymentSpec => []RoutedToOwn
<1>1. DeploymentInit => RunsRoute /\ VersionsRoute
  BY DEF DeploymentInit, RunsRoute, Mapped, Idle, VersionsRoute
<1>2. Typed /\ VersionsRoute => RoutedToOwn
  <2> SUFFICES ASSUME Typed, VersionsRoute, NEW w \in Workers, ~Misread(w), NEW v \in DOMAIN versions[w],
                      NEW d \in DeploymentIds
               PROVE  LET to == versions[w][v].mapping[d]
                      IN  \/ to = Absent
                          \/ to = Current /\ d = versions[w][v].id
                          \/ to \in 1 .. v - 1 /\ versions[w][to].id = d
    BY DEF RoutedToOwn
  <2>1. v \in 1 .. Len(versions[w])
    BY DEF Typed
  <2>2. QED
    BY <2>1 DEF VersionsRoute, Routes
<1>3. QED
  BY <1>1, <1>2, TypedInit, TypedStep, RoutesStep, PTL DEF DeploymentSpec

-----------------------------------------------------------------------------
(* The deployments that a mapping keeps *)

\* The deployment of a run, and so of a version, is one of the mapping's.
IdsKnown ==
    /\ \A r \in Runs : runs[r].id \in DeploymentIds
    /\ \A w \in Workers : \A v \in 1 .. Len(versions[w]) : versions[w][v].id \in DeploymentIds

\* A mapping, of a deployment, that has the versions of a worker that were listed from floor
\* to seen, but for the ones that a later one raced with.
Remembers(mapping, id, w, floor, seen) ==
    \A old \in floor .. seen :
        (\A u \in old + 1 .. seen : ~Raced(w, u)) =>
            mapping[versions[w][old].id] = old /\ versions[w][old].id # id

\* A run or a version that has such a mapping, made of the first n versions at most.
Remembering(it, w, n) ==
    /\ it.mapping[it.id] = Current
    /\ it.floor \in 1 .. Floor(w)
    /\ it.seen \in 0 .. n
    /\ Remembers(it.mapping, it.id, w, it.floor, it.seen)

RunsRemember ==
    \A r \in Runs :
        Mapped(r) /\ ~Misread(ReadFrom(r)) =>
            Remembering(runs[r], ReadFrom(r), Len(versions[ReadFrom(r)]))
VersionsRemember ==
    \A w \in Workers : ~Misread(w) =>
        \A v \in 1 .. Len(versions[w]) : Remembering(versions[w][v], w, v - 1)

\* The mapping that is computed of the last version's has its deployment and the ones that
\* it remembers: the id of the new deployment is in neither, or the run ends.
LEMMA NewRemembers ==
    ASSUME Typed, IdsKnown, VersionsRemember, NEW w \in Workers, ~Misread(w),
           NEW id \in DeploymentIds, Existing(w)[id] = Absent
    PROVE  /\ NewMapping(Existing(w), id, w)[id] = Current
           /\ Remembers(NewMapping(Existing(w), id, w), id, w, Floor(w), Len(versions[w]))
<1> DEFINE n == Len(versions[w])
<1>1. n \in Nat /\ Floor(w) \in Nat \ {0}
  BY FloorTyped DEF Typed
<1>2. \A d \in DeploymentIds : NewMapping(Existing(w), id, w)[d] =
        IF d = id THEN Current
        ELSE IF Existing(w)[d] = Current THEN Replaced(w)
        ELSE IF Listed(Existing(w)[d], w) THEN Existing(w)[d]
        ELSE Absent
  BY DEF NewMapping
<1>3. ASSUME NEW old \in Floor(w) .. n, \A u \in old + 1 .. n : ~Raced(w, u)
      PROVE  NewMapping(Existing(w), id, w)[versions[w][old].id] = old /\ versions[w][old].id # id
  <2>1. n \in 1 .. n /\ old \in 1 .. n /\ Existing(w) = versions[w][n].mapping
    BY <1>1 DEF Existing
  <2>2. versions[w][old].id \in DeploymentIds
    BY <2>1 DEF IdsKnown
  <2>3. Remembering(versions[w][n], w, n - 1)
    BY <2>1 DEF VersionsRemember
  <2>4. CASE old = n
    <3>1. Existing(w)[versions[w][old].id] = Current
      BY <2>1, <2>3, <2>4 DEF Remembering
    <3>2. versions[w][old].id # id
      BY <3>1 DEF Current, Absent
    <3>3. QED
      BY <1>2, <2>2, <2>4, <3>1, <3>2 DEF Replaced
  <2>5. CASE old # n
    <3>1. versions[w][n].seen = n - 1
      <4>1. ~Raced(w, n)
        BY <1>1, <1>3, <2>1, <2>5
      <4>2. versions[w][n].seen \in 0 .. n - 1
        BY <2>3 DEF Remembering
      <4>3. QED
        BY <1>1, <4>1, <4>2 DEF Raced
    <3>2. versions[w][n].floor \in 1 .. Floor(w)
      BY <2>3 DEF Remembering
    <3>3. old \in versions[w][n].floor .. n - 1
      BY <1>1, <2>1, <2>5, <3>2
    <3>4. \A u \in old + 1 .. n - 1 : ~Raced(w, u)
      BY <1>1, <1>3
    <3>5. Remembers(versions[w][n].mapping, versions[w][n].id, w, versions[w][n].floor, n - 1)
      BY <2>3, <3>1 DEF Remembering
    <3>6. Existing(w)[versions[w][old].id] = old
      BY <2>1, <3>3, <3>4, <3>5 DEF Remembers
    <3>7. versions[w][old].id # id /\ old # Current /\ Listed(old, w)
      BY <1>1, <2>1, <3>6 DEF Current, Absent, Listed
    <3>8. QED
      BY <1>2, <2>2, <3>6, <3>7
  <2>6. QED
    BY <2>4, <2>5
<1>4. QED
  BY <1>2, <1>3 DEF Remembers

\* What a mapping was made of does not change.
LEMMA RememberingKept ==
    ASSUME Typed, NEW w \in Workers, NEW it, NEW n \in Nat, Remembering(it, w, n),
           n <= Len(versions[w]),
           \A v \in 1 .. Len(versions[w]) : versions'[w][v] = versions[w][v],
           Floor(w)' \in Nat, Floor(w)' >= Floor(w)
    PROVE  Remembering(it, w, n)'
<1>1. Len(versions[w]) \in Nat /\ Floor(w) \in Nat
  BY FloorTyped DEF Typed
<1>2. \A v \in 1 .. n : versions'[w][v] = versions[w][v]
  BY <1>1
<1>3. it.floor \in 1 .. Floor(w)' /\ it.seen \in 0 .. n /\ it.floor \in Nat \ {0}
  BY <1>1 DEF Remembering
<1>4. ASSUME NEW old \in it.floor .. it.seen, \A u \in old + 1 .. it.seen : ~Raced(w, u)'
      PROVE  it.mapping[versions'[w][old].id] = old /\ versions'[w][old].id # it.id
  <2>1. \A u \in old + 1 .. it.seen : ~Raced(w, u)
    BY <1>2, <1>3, <1>4 DEF Raced
  <2>2. it.mapping[versions[w][old].id] = old /\ versions[w][old].id # it.id
    BY <2>1 DEF Remembering, Remembers
  <2>3. old \in 1 .. n
    BY <1>3
  <2>4. QED
    BY <1>2, <2>2, <2>3
<1>5. Remembers(it.mapping, it.id, w, it.floor, it.seen)'
  BY <1>4 DEF Remembers
<1>6. QED
  BY <1>3, <1>5 DEF Remembering

\* The versions that are listed only become newer.
LEMMA FloorGrows ==
    ASSUME Typed, Typed', NEW w \in Workers, Len(versions'[w]) >= Len(versions[w]), oldest'[w] >= oldest[w]
    PROVE  Floor(w)' \in Nat /\ Floor(w)' >= Floor(w)
<1>1. Len(versions[w]) \in Nat /\ oldest[w] \in Nat /\ Len(versions'[w]) \in Nat /\ oldest'[w] \in Nat
  BY DEF Typed
<1>2. QED
  BY <1>1, DeploymentAssumption DEF Floor

\* A step that makes no version keeps what mappings remember.
LEMMA RunsRememberKept ==
    ASSUME Typed, Typed', RunsRemember, VersionsRemember, versions' = versions, NEW r \in Runs,
           \A w \in Workers : oldest'[w] >= oldest[w],
           \A q \in Runs : q # r => runs'[q] = runs[q],
           \/ ~Mapped(r)'
           \/ /\ Mapped(r)
              /\ runs'[r].mapping = runs[r].mapping /\ runs'[r].id = runs[r].id
              /\ runs'[r].floor = runs[r].floor /\ runs'[r].seen = runs[r].seen
              /\ ReadFrom(r)' = ReadFrom(r)
           \/ ~Misread(ReadFrom(r)') => Remembering(runs'[r], ReadFrom(r)', Len(versions[ReadFrom(r)']))
    PROVE  RunsRemember' /\ VersionsRemember'
<1>1. \A w \in Workers : Floor(w)' \in Nat /\ Floor(w)' >= Floor(w) /\ Len(versions[w]) \in Nat
  BY FloorGrows DEF Typed
<1>2. \A w \in Workers : Misread(w)' = Misread(w)
  BY DEF Misread
<1>3. ASSUME NEW w \in Workers, NEW it, NEW n \in Nat, Remembering(it, w, n), n <= Len(versions[w])
      PROVE  Remembering(it, w, n)'
  BY <1>1, <1>3, RememberingKept
<1>4. VersionsRemember'
  <2>1. ASSUME NEW w \in Workers, ~Misread(w)', NEW v \in 1 .. Len(versions'[w])
        PROVE  Remembering(versions[w][v], w, v - 1)'
    <3>1. PICK it : it = versions[w][v]
      OBVIOUS
    <3>2. Remembering(it, w, v - 1) /\ v - 1 \in Nat /\ v - 1 <= Len(versions[w])
      BY <1>1, <1>2, <2>1, <3>1 DEF VersionsRemember
    <3>3. Remembering(it, w, v - 1)'
      BY <1>3, <3>2
    <3>4. QED
      BY <3>1, <3>3
  <2>2. QED
    BY <2>1 DEF VersionsRemember
<1>5. ASSUME NEW q \in Runs, Mapped(q)', ~Misread(ReadFrom(q))'
      PROVE  Remembering(runs[q], ReadFrom(q), Len(versions[ReadFrom(q)]))'
  <2>1. PICK w \in Workers : w = ReadFrom(q)'
    <3>1. runs'[q].worker \in Workers
      BY DEF Typed, RunStates
    <3>2. QED
      BY <3>1 DEF ReadFrom, Workers
  <2>2. PICK it : it = runs'[q]
    OBVIOUS
  <2>3. PICK n \in Nat : n = Len(versions[w])
    BY <1>1
  <2>4. Remembering(it, w, n)
    <3>1. CASE q # r
      <4>1. Mapped(q) /\ ReadFrom(q) = w /\ runs[q] = it
        BY <1>5, <2>1, <2>2, <3>1 DEF Mapped, ReadFrom
      <4>2. QED
        BY <1>2, <1>5, <2>1, <2>3, <4>1 DEF RunsRemember
    <3>2. CASE q = r /\ Mapped(r) /\ runs'[r].mapping = runs[r].mapping /\ runs'[r].id = runs[r].id
               /\ runs'[r].floor = runs[r].floor /\ runs'[r].seen = runs[r].seen
               /\ ReadFrom(r)' = ReadFrom(r)
      <4>1. Remembering(runs[r], w, n)
        BY <1>2, <1>5, <2>1, <2>3, <3>2 DEF RunsRemember
      <4>2. QED
        BY <2>2, <3>2, <4>1 DEF Remembering
    <3>3. CASE q = r /\ (~Misread(ReadFrom(r)') => Remembering(runs'[r], ReadFrom(r)', Len(versions[ReadFrom(r)'])))
      BY <1>2, <1>5, <2>1, <2>2, <2>3, <3>3
    <3>4. QED
      BY <1>5, <3>1, <3>2, <3>3
  <2>5. Remembering(it, w, n)'
    BY <1>3, <2>3, <2>4
  <2>6. QED
    BY <2>1, <2>2, <2>3, <2>5
<1>6. QED
  BY <1>4, <1>5 DEF RunsRemember

\* Every step keeps the ids of deployments.
LEMMA IdsStep == Typed /\ Typed' /\ IdsKnown /\ [DeploymentNext]_deploymentVars => IdsKnown'
<1> SUFFICES ASSUME Typed, Typed', IdsKnown, [DeploymentNext]_deploymentVars PROVE IdsKnown'
  OBVIOUS
<1>1. ASSUME NEW r \in Runs, \A q \in Runs : q # r => runs'[q] = runs[q],
             runs'[r].id \in DeploymentIds, versions' = versions
      PROVE  IdsKnown'
  BY <1>1 DEF IdsKnown
<1>2. \A r \in Runs : 1 \in DeploymentIds
  BY DeploymentAssumption DEF Runs, DeploymentIds
<1>3. ASSUME NEW r \in Runs, Fails(r), versions' = versions PROVE IdsKnown'
  <2>1. (\A q \in Runs : q # r => runs'[q] = runs[q]) /\ runs'[r].id = 1
    BY <1>3 DEF Fails, Typed, Idle
  <2>2. QED
    BY <1>1, <1>2, <1>3, <2>1
<1>4. ASSUME NEW r \in Runs, StartRun(r) PROVE IdsKnown'
  <2>1. PICK c \in {"deploy", "upload"}, w \in Workers, d \in 1 .. r :
          runs' = [runs EXCEPT ![r] = [Idle EXCEPT !.at = FirstStep[c], !.command = c, !.worker = w, !.id = d]]
    BY <1>4 DEF StartRun
  <2>2. (\A q \in Runs : q # r => runs'[q] = runs[q]) /\ runs'[r].id = d
    BY <2>1 DEF Typed, Idle
  <2>3. d \in DeploymentIds
    BY DeploymentAssumption DEF Runs, DeploymentIds
  <2>4. QED
    BY <1>1, <1>4, <2>2, <2>3 DEF StartRun
<1>5. ASSUME NEW r \in Runs, NEW state \in RunStates, runs' = [runs EXCEPT ![r] = state],
             state.id = runs[r].id, versions' = versions
      PROVE  IdsKnown'
  <2>1. (\A q \in Runs : q # r => runs'[q] = runs[q]) /\ runs'[r].id = runs[r].id
    BY <1>5 DEF Typed
  <2>2. QED
    BY <1>1, <1>5, <2>1 DEF IdsKnown
<1>6. ASSUME NEW r \in Runs, PopulateChunk(r) \/ CreateTable(r) \/ ComputeMapping(r) PROVE IdsKnown'
  <2>1. versions' = versions
    BY <1>6 DEF PopulateChunk, CreateTable, ComputeMapping
  <2>2. CASE Fails(r)
    BY <1>3, <2>1, <2>2
  <2>3. CASE ~Fails(r)
    <3>1. runs[r] \in RunStates /\ runs' \in [Runs -> RunStates]
      BY DEF Typed
    <3>2. \/ runs' = [runs EXCEPT ![r].chunk = @ + 1]
          \/ runs' = [runs EXCEPT ![r].at = AfterPopulate[runs[r].command]]
          \/ \E m, n, f : runs' = [runs EXCEPT ![r].at = AfterMapping[runs[r].command],
                                               ![r].mapping = m, ![r].seen = n, ![r].floor = f]
      <4>1. CASE PopulateChunk(r) \/ CreateTable(r)
        BY <2>3, <4>1 DEF PopulateChunk, ChunkFails, CreateTable
      <4>2. CASE ComputeMapping(r)
        <5> DEFINE w == ReadFrom(r)
        <5>1. runs' = [runs EXCEPT ![r].at = AfterMapping[runs[r].command],
                                   ![r].mapping = NewMapping(Existing(w), runs[r].id, w),
                                   ![r].seen = Len(versions[w]),
                                   ![r].floor = Floor(w)]
          BY <2>3, <4>2 DEF ComputeMapping
        <5> HIDE DEF w
        <5>2. QED
          BY <5>1
      <4>3. QED
        BY <1>6, <4>1, <4>2
    <3>3. CASE runs' = [runs EXCEPT ![r].chunk = @ + 1]
      BY <1>1, <2>1, <3>1, <3>3 DEF IdsKnown, RunStates, Typed
    <3>4. CASE runs' = [runs EXCEPT ![r].at = AfterPopulate[runs[r].command]]
      BY <1>1, <2>1, <3>1, <3>4 DEF IdsKnown, RunStates, Typed
    <3>5. CASE \E m, n, f : runs' = [runs EXCEPT ![r].at = AfterMapping[runs[r].command],
                                               ![r].mapping = m, ![r].seen = n, ![r].floor = f]
      <4>1. PICK m, n, f : runs' = [runs EXCEPT ![r].at = AfterMapping[runs[r].command],
                                               ![r].mapping = m, ![r].seen = n, ![r].floor = f]
        BY <3>5
      <4>2. \A q \in Runs : q # r => runs'[q] = runs[q]
        BY <4>1 DEF Typed
      <4>3. runs'[r] = [runs[r] EXCEPT !.at = AfterMapping[runs[r].command], !.mapping = m, !.seen = n, !.floor = f]
        BY <4>1 DEF Typed
      <4>4. runs'[r].id = runs[r].id
        BY <3>1, <4>3 DEF RunStates
      <4>5. QED
        BY <1>1, <2>1, <4>2, <4>4 DEF IdsKnown
    <3>6. QED
      BY <3>2, <3>3, <3>4, <3>5
  <2>4. QED
    BY <2>2, <2>3
<1>7. ASSUME NEW r \in Runs, MappingFails(r) \/ CreationFails(r) PROVE IdsKnown'
  BY <1>3, <1>7 DEF MappingFails, CreationFails
<1>8. ASSUME NEW r \in Runs, CreateVersion(r) PROVE IdsKnown'
  <2>0. runs[r].worker \in Workers /\ ReadFrom(r) \in Workers
    BY ReadFromTyped
  <2>1. PICK w \in Workers : w = runs[r].worker
    BY <2>0
  <2>2. PICK new \in VersionStates :
          new = [id |-> runs[r].id, mapping |-> runs[r].mapping, seen |-> runs[r].seen,
                 floor |-> runs[r].floor, from |-> ReadFrom(r)]
    BY <2>0 DEF Typed, RunStates, VersionStates
  <2>3. versions' = [versions EXCEPT ![w] = Append(@, new)]
    BY <1>8, <2>1, <2>2 DEF CreateVersion
  <2>4. /\ \A u \in Workers : u # w => Len(versions'[u]) = Len(versions[u])
        /\ Len(versions'[w]) = Len(versions[w]) + 1
        /\ \A u \in Workers : \A v \in 1 .. Len(versions[u]) : versions'[u][v] = versions[u][v]
        /\ versions'[w][Len(versions[w]) + 1] = new
        /\ \A u \in Workers : Len(versions[u]) \in Nat
    BY <2>3, VersionsGrow DEF Typed
  <2>5. new.id \in DeploymentIds
    BY <2>2 DEF IdsKnown
  <2>6. \A u \in Workers : \A v \in 1 .. Len(versions'[u]) : versions'[u][v].id \in DeploymentIds
    <3>1. ASSUME NEW u \in Workers, NEW v \in 1 .. Len(versions'[u]) PROVE versions'[u][v].id \in DeploymentIds
      <4>1. v \in 1 .. Len(versions[u]) \/ (u = w /\ v = Len(versions[w]) + 1)
        BY <2>4
      <4>2. QED
        BY <2>4, <2>5, <4>1 DEF IdsKnown
    <3>2. QED
      BY <3>1
  <2>7. \A q \in Runs : runs'[q].id \in DeploymentIds
    BY <1>2, <1>8 DEF CreateVersion, Typed, Idle, IdsKnown
  <2>8. QED
    BY <2>6, <2>7 DEF IdsKnown
<1>9. ASSUME UNCHANGED <<runs, versions>> PROVE IdsKnown'
  BY <1>9 DEF IdsKnown
<1>10. QED
  BY <1>4, <1>6, <1>7, <1>8, <1>9 DEF DeploymentNext, Promote, VersionAges, deploymentVars

\* A new version remembers what its run does, and leaves the others as they are.
LEMMA CreationRemembers ==
    ASSUME Typed, Typed', RunsRemember, VersionsRemember, NEW r \in Runs, CreateVersion(r)
    PROVE  RunsRemember' /\ VersionsRemember'
<1>0. runs[r].worker \in Workers /\ ReadFrom(r) \in Workers
  BY ReadFromTyped
<1>1. PICK w \in Workers : w = runs[r].worker
  BY <1>0
<1>2. PICK new \in VersionStates :
        new = [id |-> runs[r].id, mapping |-> runs[r].mapping, seen |-> runs[r].seen,
               floor |-> runs[r].floor, from |-> ReadFrom(r)]
  BY <1>0 DEF Typed, RunStates, VersionStates
<1>3. versions' = [versions EXCEPT ![w] = Append(@, new)]
  BY <1>1, <1>2 DEF CreateVersion
<1>4. /\ \A u \in Workers : Misread(u) => Misread(u)'
      /\ new.from # w => Misread(w)'
      /\ \A u \in Workers : Len(versions'[u]) \in Nat /\ Len(versions'[u]) >= Len(versions[u])
      /\ \A u \in Workers : u # w => Len(versions'[u]) = Len(versions[u])
      /\ Len(versions'[w]) = Len(versions[w]) + 1
      /\ \A u \in Workers : \A v \in 1 .. Len(versions[u]) : versions'[u][v] = versions[u][v]
      /\ versions'[w][Len(versions[w]) + 1] = new
  BY <1>3, VersionsGrow
<1>5. \A u \in Workers : Len(versions[u]) \in Nat /\ oldest[u] \in Nat /\ oldest'[u] = oldest[u]
  BY DEF Typed, CreateVersion
<1>6. \A u \in Workers : Floor(u)' \in Nat /\ Floor(u)' >= Floor(u)
  BY <1>4, <1>5, FloorGrows
<1>7. \A q \in Runs : runs'[q] = IF q = r THEN [Idle EXCEPT !.at = "over"] ELSE runs[q]
  BY DEF CreateVersion, Typed
<1>8. ASSUME NEW u \in Workers, NEW it, NEW n \in Nat, Remembering(it, u, n), n <= Len(versions[u])
      PROVE  Remembering(it, u, n)'
  BY <1>4, <1>6, <1>8, RememberingKept
<1>9. ASSUME NEW q \in Runs, Mapped(q)', ~Misread(ReadFrom(q))'
      PROVE  Remembering(runs[q], ReadFrom(q), Len(versions[ReadFrom(q)]))'
  <2>1. q # r
    BY <1>7, <1>9 DEF Mapped, Idle
  <2>2. runs'[q] = runs[q] /\ ReadFrom(q)' = ReadFrom(q) /\ Mapped(q) /\ ReadFrom(q) \in Workers
    BY <1>7, <1>9, <2>1, ReadFromTyped DEF Mapped, ReadFrom
  <2>3. PICK u \in Workers : u = ReadFrom(q)
    BY <2>2
  <2>4. PICK it : it = runs[q]
    OBVIOUS
  <2>5. ~Misread(u)
    BY <1>4, <1>9, <2>2, <2>3
  <2>6. PICK n \in Nat : n = Len(versions[u])
    BY <1>5
  <2>7. Remembering(it, u, n)
    BY <2>2, <2>3, <2>4, <2>5, <2>6 DEF RunsRemember
  <2>8. Remembering(it, u, n)'
    BY <1>8, <2>6, <2>7
  <2>9. n \in Nat /\ n <= Len(versions'[u]) /\ Len(versions'[u]) \in Nat
    BY <1>4, <2>6
  <2>10. Remembering(it, u, Len(versions[u]))'
    BY <2>8, <2>9 DEF Remembering
  <2>11. QED
    BY <2>2, <2>3, <2>4, <2>10
<1>10. ASSUME NEW u \in Workers, ~Misread(u)', NEW v \in 1 .. Len(versions'[u])
       PROVE  Remembering(versions[u][v], u, v - 1)'
  <2>1. ~Misread(u)
    BY <1>4, <1>10
  <2>2. PICK it : it = versions'[u][v]
    OBVIOUS
  <2>3. v - 1 \in Nat /\ v - 1 <= Len(versions[u])
    BY <1>4, <1>5
  <2>4. Remembering(it, u, v - 1)
    <3>1. CASE v \in 1 .. Len(versions[u])
      BY <1>4, <2>1, <2>2, <3>1 DEF VersionsRemember
    <3>2. CASE v \notin 1 .. Len(versions[u])
      <4>1. u = w /\ v = Len(versions[w]) + 1 /\ it = new
        BY <1>4, <1>5, <1>10, <2>2, <3>2
      <4>2. ReadFrom(r) = w /\ Mapped(r)
        BY <1>2, <1>4, <1>10, <4>1 DEF CreateVersion, Mapped
      <4>3. Remembering(runs[r], w, Len(versions[w]))
        BY <2>1, <4>1, <4>2 DEF RunsRemember
      <4>4. /\ new.mapping = runs[r].mapping /\ new.id = runs[r].id
            /\ new.floor = runs[r].floor /\ new.seen = runs[r].seen
            /\ v - 1 = Len(versions[w])
        BY <1>2, <1>5, <4>1
      <4>5. QED
        BY <4>1, <4>3, <4>4 DEF Remembering
    <3>3. QED
      BY <3>1, <3>2
  <2>5. Remembering(it, u, v - 1)'
    BY <1>8, <2>3, <2>4
  <2>6. QED
    BY <2>2, <2>5
<1>11. QED
  BY <1>9, <1>10 DEF RunsRemember, VersionsRemember

\* Every step keeps what mappings remember.
LEMMA RemembersStep ==
    Typed /\ Typed' /\ Commanded /\ IdsKnown /\ RunsRemember /\ VersionsRemember /\ [DeploymentNext]_deploymentVars
        => (RunsRemember /\ VersionsRemember)'
<1> SUFFICES ASSUME Typed, Typed', Commanded, IdsKnown, RunsRemember, VersionsRemember,
                    [DeploymentNext]_deploymentVars
             PROVE  RunsRemember' /\ VersionsRemember'
  OBVIOUS
<1>0. \A w \in Workers : oldest[w] \in Nat
  BY DEF Typed
<1>1. ASSUME NEW r \in Runs, Fails(r), UNCHANGED <<versions, oldest>> PROVE RunsRemember' /\ VersionsRemember'
  <2>1. \A q \in Runs : runs'[q] = IF q = r THEN [Idle EXCEPT !.at = "over"] ELSE runs[q]
    BY <1>1 DEF Fails, Typed
  <2>2. ~Mapped(r)'
    BY <2>1 DEF Mapped, Idle
  <2>3. QED
    BY <1>0, <1>1, <2>1, <2>2, RunsRememberKept
<1>2. ASSUME NEW r \in Runs, StartRun(r) PROVE RunsRemember' /\ VersionsRemember'
  <2>1. PICK c \in {"deploy", "upload"}, w \in Workers, d \in 1 .. r :
          runs' = [runs EXCEPT ![r] = [Idle EXCEPT !.at = FirstStep[c], !.command = c, !.worker = w, !.id = d]]
    BY <1>2 DEF StartRun
  <2>2. \A q \in Runs : q # r => runs'[q] = runs[q]
    BY <2>1 DEF Typed
  <2>3. runs'[r].at = FirstStep[c] /\ runs'[r].command = c
    BY <2>1 DEF Typed, Idle
  <2>4. ~Mapped(r)'
    BY <2>3, Steps DEF Mapped
  <2>5. QED
    BY <1>0, <1>2, <2>2, <2>4, RunsRememberKept DEF StartRun
<1>3. ASSUME NEW r \in Runs, PopulateChunk(r) PROVE RunsRemember' /\ VersionsRemember'
  <2>0. versions' = versions /\ oldest' = oldest /\ \A w \in Workers : oldest'[w] >= oldest[w]
    BY <1>0, <1>3 DEF PopulateChunk
  <2>1. CASE ChunkFails(r)
    BY <1>1, <1>3, <2>1 DEF PopulateChunk, ChunkFails
  <2>2. CASE runs' = [runs EXCEPT ![r].chunk = @ + 1]
    <3>1. (\A q \in Runs : q # r => runs'[q] = runs[q]) /\ runs'[r] = [runs[r] EXCEPT !.chunk = @ + 1]
      BY <2>2 DEF Typed
    <3>2. /\ Mapped(r)' = Mapped(r) /\ ReadFrom(r)' = ReadFrom(r)
          /\ runs'[r].mapping = runs[r].mapping /\ runs'[r].id = runs[r].id
          /\ runs'[r].floor = runs[r].floor /\ runs'[r].seen = runs[r].seen
      BY <3>1 DEF Mapped, ReadFrom, Typed, RunStates
    <3>3. QED
      BY <2>0, <3>1, <3>2, RunsRememberKept
  <2>3. QED
    BY <1>3, <2>1, <2>2 DEF PopulateChunk
<1>4. ASSUME NEW r \in Runs, CreateTable(r) PROVE RunsRemember' /\ VersionsRemember'
  <2>0. versions' = versions /\ oldest' = oldest /\ \A w \in Workers : oldest'[w] >= oldest[w]
    BY <1>0, <1>4 DEF CreateTable
  <2>1. CASE Fails(r)
    BY <1>1, <1>4, <2>1 DEF CreateTable
  <2>2. CASE runs' = [runs EXCEPT ![r].at = AfterPopulate[runs[r].command]]
    <3>1. /\ \A q \in Runs : q # r => runs'[q] = runs[q]
          /\ runs'[r] = [runs[r] EXCEPT !.at = AfterPopulate[runs[r].command]]
          /\ runs[r].at = "populate" /\ runs[r].command \in {"deploy", "upload"} /\ runs[r] \in RunStates
      BY <1>4, <2>2 DEF Typed, Commanded, CreateTable, RunStates
    <3>2. /\ runs'[r].at = AfterPopulate[runs[r].command] /\ runs'[r].command = runs[r].command
          /\ ReadFrom(r)' = ReadFrom(r)
          /\ runs'[r].mapping = runs[r].mapping /\ runs'[r].id = runs[r].id
          /\ runs'[r].floor = runs[r].floor /\ runs'[r].seen = runs[r].seen
      BY <3>1 DEF ReadFrom, RunStates
    <3>3. Mapped(r) \/ ~Mapped(r)'
      BY <3>1, <3>2, Steps DEF Mapped
    <3>4. QED
      BY <2>0, <3>1, <3>2, <3>3, RunsRememberKept
  <2>3. QED
    BY <1>4, <2>1, <2>2 DEF CreateTable
<1>5. ASSUME NEW r \in Runs, ComputeMapping(r) PROVE RunsRemember' /\ VersionsRemember'
  <2> DEFINE w == ReadFrom(r)
  <2> DEFINE state == [runs[r] EXCEPT !.at = AfterMapping[runs[r].command],
                                      !.mapping = NewMapping(Existing(w), runs[r].id, w),
                                      !.seen = Len(versions[w]), !.floor = Floor(w)]
  <2>1. UNCHANGED <<versions, oldest>>
    BY <1>5 DEF ComputeMapping
  <2>2. CASE Fails(r)
    BY <1>1, <2>1, <2>2
  <2>3. CASE Existing(w)[runs[r].id] = Absent /\ runs' = [runs EXCEPT ![r] = state]
    <3>1. \A q \in Runs : q # r => runs'[q] = runs[q]
      BY <2>3 DEF Typed
    <3>2. runs'[r] = state /\ runs[r] \in RunStates
      BY <2>3 DEF Typed
    <3>3. /\ runs'[r].mapping = NewMapping(Existing(w), runs[r].id, w)
          /\ runs'[r].seen = Len(versions[w]) /\ runs'[r].floor = Floor(w)
          /\ runs'[r].id = runs[r].id /\ ReadFrom(r)' = ReadFrom(r) /\ runs[r].id \in DeploymentIds
      BY <3>2 DEF RunStates, ReadFrom, IdsKnown
    <3>4. w \in Workers /\ Floor(w) \in Nat \ {0} /\ Len(versions[w]) \in Nat
      BY ReadFromTyped, FloorTyped DEF Typed
    <3>5. ASSUME ~Misread(w) PROVE Remembering(runs'[r], w, Len(versions[w]))
      <4>1. /\ NewMapping(Existing(w), runs[r].id, w)[runs[r].id] = Current
            /\ Remembers(NewMapping(Existing(w), runs[r].id, w), runs[r].id, w, Floor(w), Len(versions[w]))
        BY <2>3, <3>3, <3>4, <3>5, NewRemembers
      <4>2. QED
        BY <3>3, <3>4, <4>1 DEF Remembering
    <3>6. ~Misread(ReadFrom(r)') => Remembering(runs'[r], ReadFrom(r)', Len(versions[ReadFrom(r)']))
      BY <3>3, <3>5
    <3>7. QED
      BY <1>0, <2>1, <3>1, <3>6, RunsRememberKept
  <2>4. QED
    BY <1>5, <2>2, <2>3 DEF ComputeMapping
<1>6. ASSUME NEW r \in Runs, MappingFails(r) \/ CreationFails(r) PROVE RunsRemember' /\ VersionsRemember'
  BY <1>1, <1>6 DEF MappingFails, CreationFails
<1>7. ASSUME NEW r \in Runs, CreateVersion(r) PROVE RunsRemember' /\ VersionsRemember'
  BY <1>7, CreationRemembers
<1>8. ASSUME UNCHANGED <<runs, versions>>, \A w \in Workers : oldest'[w] >= oldest[w]
      PROVE  RunsRemember' /\ VersionsRemember'
  <2>1. CASE Runs # {}
    <3>1. PICK r \in Runs : TRUE
      BY <2>1
    <3>2. Mapped(r)' = Mapped(r) /\ ReadFrom(r)' = ReadFrom(r) /\ runs'[r] = runs[r]
      BY <1>8 DEF Mapped, ReadFrom
    <3>3. QED
      BY <1>8, <3>2, RunsRememberKept
  <2>2. CASE Runs = {}
    <3>1. RunsRemember'
      BY <2>2 DEF RunsRemember
    <3>2. \A w \in Workers : versions[w] \in Seq(VersionStates) /\ Len(versions[w]) \in Nat
      BY DEF Typed
    <3>3. DeploymentIds = {}
      BY <2>2 DEF Runs, DeploymentIds
    <3>4. VersionsRemember'
      BY <1>8, <3>2, <3>3 DEF VersionsRemember, IdsKnown
    <3>5. QED
      BY <3>1, <3>4
  <2>3. QED
    BY <2>1, <2>2
<1>9. ASSUME NEW w \in Workers, Promote(w) \/ VersionAges(w) PROVE RunsRemember' /\ VersionsRemember'
  <2>1. \A u \in Workers : oldest'[u] >= oldest[u]
    BY <1>0, <1>9 DEF Promote, VersionAges, Typed
  <2>2. QED
    BY <1>8, <1>9, <2>1 DEF Promote, VersionAges
<1>10. CASE UNCHANGED deploymentVars
  BY <1>0, <1>8, <1>10 DEF deploymentVars
<1>11. QED
  BY <1>2, <1>3, <1>4, <1>5, <1>6, <1>7, <1>9, <1>10 DEF DeploymentNext

\* A deployment whose version was listed stays in the mapping, for any number of runs that
\* race or fail and however versions age, unless a version since raced with another one.
THEOREM NotForgotten == DeploymentSpec => []ForgottenOnlyByRace
<1>1. DeploymentInit => IdsKnown /\ RunsRemember /\ VersionsRemember
  <2> SUFFICES ASSUME DeploymentInit PROVE IdsKnown /\ RunsRemember /\ VersionsRemember
    OBVIOUS
  <2>1. \A w \in Workers : versions[w] = <<>>
    BY DEF DeploymentInit
  <2>2. \A r \in Runs : runs[r].at = "idle" /\ runs[r].id = 1 /\ 1 \in DeploymentIds
    BY DeploymentAssumption DEF DeploymentInit, Idle, Runs, DeploymentIds
  <2>3. QED
    BY <2>1, <2>2 DEF IdsKnown, RunsRemember, Mapped, VersionsRemember
<1>2. Typed /\ IdsKnown /\ VersionsRemember => ForgottenOnlyByRace
  <2> SUFFICES ASSUME Typed, IdsKnown, VersionsRemember, NEW w \in Workers, ~Misread(w),
                      NEW v \in DOMAIN versions[w],
                      NEW old \in versions[w][v].floor .. versions[w][v].seen,
                      ~\E u \in old + 1 .. v : Raced(w, u)
               PROVE  old \in DOMAIN versions[w] /\ versions[w][v].mapping[versions[w][old].id] # Absent
    BY DEF ForgottenOnlyByRace
  <2>1. v \in 1 .. Len(versions[w]) /\ DOMAIN versions[w] = 1 .. Len(versions[w]) /\ Len(versions[w]) \in Nat
    BY DEF Typed
  <2>2. Remembering(versions[w][v], w, v - 1)
    BY <2>1 DEF VersionsRemember
  <2>3. versions[w][v].floor \in Nat \ {0} /\ versions[w][v].seen \in 0 .. v - 1
    BY <2>1, <2>2, FloorTyped DEF Remembering
  <2>4. old \in 1 .. Len(versions[w]) /\ \A u \in old + 1 .. versions[w][v].seen : ~Raced(w, u)
    BY <2>1, <2>3
  <2>5. versions[w][v].mapping[versions[w][old].id] = old
    BY <2>2, <2>4 DEF Remembering, Remembers
  <2>6. QED
    BY <2>1, <2>4, <2>5 DEF Absent
<1>3. QED
  BY <1>1, <1>2, TypedInit, TypedStep, IdsStep, RemembersStep, PTL DEF DeploymentSpec

=============================================================================
