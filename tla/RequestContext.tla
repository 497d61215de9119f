--------------------------- MODULE RequestContext ---------------------------
(***************************************************************************)
(* The context of one request and the work that outlives its response:     *)
(* packages/core/src/utils/promise.ts.  A promise is registered with the   *)
(* request's DetachedPromiseRunner, or through the waitUntil that Next.js' *)
(* after() is given.  The platform runs until the request has returned and *)
(* what waitUntil was given has settled, and may stop then.                *)
(***************************************************************************)
CONSTANTS
    Works \* promises that the request or its promises may register

VARIABLES
    waitUntil,  \* whether the platform has one
    request,    \* where the request is
    work,       \* of each promise: none, pending or settled
    runner,     \* the runner's promises
    awaited,    \* the ones its await() took
    kept,       \* what waitUntil keeps alive
    late        \* history: promises added to the runner after await()

contextVars == <<waitUntil, request, work, runner, awaited, kept, late>>

ContextInit ==
    /\ waitUntil \in BOOLEAN
    /\ request = "running"
    /\ work = [w \in Works |-> "none"]
    /\ runner = {}
    /\ awaited = {}
    /\ kept = {}
    /\ late = {}

Unsettled(ws) == {w \in ws : work[w] = "pending"}

\* Code runs for the request: its handler, or the continuation of a promise.
Active == request # "stopped" /\ (request = "running" \/ Unsettled(Works) # {})

\* withResolvers or add: of the cache, the tag cache, a revalidation, a stream.
AddToRunner(w) ==
    /\ Active
    /\ work[w] = "none"
    /\ work' = [work EXCEPT ![w] = "pending"]
    /\ runner' = runner \cup {w}
    /\ late' = IF request = "running" THEN late ELSE late \cup {w}
    /\ UNCHANGED <<waitUntil, request, awaited, kept>>

\* The waitUntil of nextAfterContext: the platform's, or else the runner's add.
After(w) ==
    IF ~waitUntil THEN AddToRunner(w)
    ELSE /\ Active
         /\ work[w] = "none"
         /\ work' = [work EXCEPT ![w] = "pending"]
         /\ kept' = kept \cup {w}
         /\ UNCHANGED <<waitUntil, request, runner, awaited, late>>

\* A promise resolves or rejects; add() turns a rejection into a resolution,
\* and await() takes either.
Settle(w) ==
    /\ request # "stopped"
    /\ work[w] = "pending"
    /\ work' = [work EXCEPT ![w] = "settled"]
    /\ UNCHANGED <<waitUntil, request, runner, awaited, kept, late>>

\* Mutant: no promise is taken.
AwaitNothing == {}
\* await(): a snapshot of the promises.
Snapshot == runner

\* The handler returns or throws: finally, awaitAllDetachedPromise.  With
\* waitUntil the request returns at once.
HandlerEnds ==
    /\ request = "running"
    /\ awaited' = Snapshot
    /\ IF waitUntil
       THEN request' = "returned" /\ kept' = kept \cup Snapshot
       ELSE request' = "awaiting" /\ UNCHANGED kept
    /\ UNCHANGED <<waitUntil, work, runner, late>>

AwaitEnds ==
    /\ request = "awaiting"
    /\ Unsettled(awaited) = {}
    /\ request' = "returned"
    /\ UNCHANGED <<waitUntil, work, runner, awaited, kept, late>>

\* The platform freezes or ends the process.
PlatformStops ==
    /\ request = "returned"
    /\ Unsettled(kept) = {}
    /\ request' = "stopped"
    /\ UNCHANGED <<waitUntil, work, runner, awaited, kept, late>>

ContextNext ==
    \/ \E w \in Works : AddToRunner(w) \/ After(w) \/ Settle(w)
    \/ HandlerEnds
    \/ AwaitEnds
    \/ PlatformStops

ContextSpec == ContextInit /\ [][ContextNext]_contextVars

----------------------------------------------------------------------------
(* Properties *)

ContextTypeOK ==
    /\ waitUntil \in BOOLEAN
    /\ request \in {"running", "awaiting", "returned", "stopped"}
    /\ work \in [Works -> {"none", "pending", "settled"}]
    /\ runner \subseteq Works
    /\ awaited \subseteq runner
    /\ kept \subseteq Works
    /\ late \subseteq runner

\* A promise is cut off only when it was added to the runner after the handler
\* had ended, by a promise that was still pending: await() took a snapshot.
CutOnlyWhenLate == request = "stopped" => Unsettled(Works) \subseteq late

=============================================================================
