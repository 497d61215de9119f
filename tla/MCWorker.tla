------------------------------ MODULE MCWorker ------------------------------
(***************************************************************************)
(* The commands that set up and build a worker, and an isolate that runs   *)
(* one, for TLC, side by side: a behaviour is one of ProjectSetup, Build   *)
(* or WorkerIsolate, and the others stay in an initial state.              *)
(***************************************************************************)
EXTENDS Build, ProjectSetup, WorkerIsolate, TLC

VARIABLE part

Sorts ==
    { NoFunction,
      [runtime |-> "node", routes |-> 2, global |-> FALSE, lazy |-> TRUE],
      [runtime |-> "node", routes |-> 1, global |-> TRUE, lazy |-> TRUE],
      [runtime |-> "edge", routes |-> 1, global |-> TRUE, lazy |-> FALSE],
      [runtime |-> "edge", routes |-> 2, global |-> FALSE, lazy |-> FALSE],
      [runtime |-> "deno", routes |-> 0, global |-> FALSE, lazy |-> FALSE],
      [runtime |-> "deno", routes |-> 1, global |-> FALSE, lazy |-> FALSE] }

\* Configurations of each adapter that differ from the usual one in one way, or in two of
\* which one is where the middleware runs, or a warning; and those that differ in one way
\* from one of AWS with a Node middleware in front that has a wrapper of Cloudflare's.
Usual(a) ==
    [ adapter |-> a,
      external |-> a # "aws",
      middlewareRuntime |-> "edge",
      edgeWrapper |-> a # "aws",
      middleware |-> "edge",
      functions |-> [f \in Functions |-> NoFunction],
      warns |-> FALSE,
      unchecked |-> FALSE,
      edgeCompiles |-> TRUE,
      disableIncrementalCache |-> FALSE,
      disableTagCache |-> FALSE,
      tagged |-> TRUE,
      skipNextBuild |-> FALSE ]

Varied(s) ==
    { [s EXCEPT !.external = ~s.external],
      [s EXCEPT !.middlewareRuntime = "node"],
      [s EXCEPT !.edgeWrapper = ~s.edgeWrapper],
      [s EXCEPT !.middleware = "node"],
      [s EXCEPT !.middleware = "none"],
      [s EXCEPT !.warns = TRUE],
      [s EXCEPT !.unchecked = TRUE],
      [s EXCEPT !.edgeCompiles = FALSE],
      [s EXCEPT !.disableIncrementalCache = TRUE],
      [s EXCEPT !.disableTagCache = TRUE],
      [s EXCEPT !.tagged = FALSE],
      [s EXCEPT !.skipNextBuild = TRUE] }
    \cup {[s EXCEPT !.functions[f] = sort] : f \in Functions, sort \in Sorts \ {NoFunction}}
    \cup {[s EXCEPT !.functions = [f \in Functions |-> sort]] : sort \in {o \in Sorts : o.global}}

Once(S) == UNION {Varied(s) : s \in S}
MCSetups ==
    LET usual == {Usual(a) : a \in Adapters}
        wrapped == [Usual("aws") EXCEPT !.external = TRUE, !.middlewareRuntime = "node", !.edgeWrapper = TRUE]
    IN  usual \cup Once(usual) \cup {wrapped} \cup
        Once({wrapped} \cup {[s EXCEPT !.external = ~s.external] : s \in usual} \cup {[s EXCEPT !.warns = TRUE] : s \in usual})

MCInit ==
    /\ part \in {"build", "setup", "isolate"}
    /\ BuildInit
    /\ SetupInit
    /\ IsolateInit
    /\ part # "build" => setup = Usual("cloudflare")
    /\ part # "setup" =>
        nextConfig /\ wrangler = "own" /\ openNext = "own" /\ bucket /\ rules[".gitignore"] = 1
            /\ ~headersFirst /\ rules[".dev.vars"] = 1 /\ rules["next.config"] = 1

MCNext ==
    /\ UNCHANGED part
    /\ \/ part = "build" /\ BuildNext /\ UNCHANGED <<setupVars, isolateVars>>
       \/ part = "setup" /\ SetupNext /\ UNCHANGED <<buildVars, isolateVars>>
       \/ part = "isolate" /\ IsolateNext /\ UNCHANGED <<buildVars, setupVars>>

MCSpec == MCInit /\ [][MCNext]_<<part, buildVars, setupVars, isolateVars>>

Alike == Permutations(Functions) \cup Permutations(Requests) \cup Permutations(Hosts)

=============================================================================
