-------------------------- MODULE ComposableCache --------------------------
(***************************************************************************)
(* The cache of "use cache": packages/core/src/adapters/                   *)
(* composable-cache.ts, for one key.  A set waits for the stream of its    *)
(* entry before it stores it; until then a get finds its promise in        *)
(* pendingWritePromiseMap.  Sets are numbered in the order they start in.  *)
(***************************************************************************)
EXTENDS Integers

CONSTANTS
    MaxComposed,  \* bound: sets
    ComposedGets  \* calls of get

ASSUME ComposedAssumption == MaxComposed \in Nat

VARIABLES
    writing,   \* where a set is
    pending,   \* the set whose promise is in the map, or 0
    cached,    \* the set whose entry globalThis.cache has, or 0
    crossed,   \* history: the sets that overlapped another one
    reading,   \* where a get is
    promise,   \* the set whose promise it answers with
    answer,    \* what it answered, 0 for undefined
    settled    \* history: the sets that had returned when it started

composableVars == <<writing, pending, cached, crossed, reading, promise, answer, settled>>

Composed == 1 .. MaxComposed

ComposableInit ==
    /\ writing = [w \in Composed |-> "idle"]
    /\ pending = 0
    /\ cached = 0
    /\ crossed = {}
    /\ reading = [g \in ComposedGets |-> "idle"]
    /\ promise = [g \in ComposedGets |-> 0]
    /\ answer = [g \in ComposedGets |-> 0]
    /\ settled = [g \in ComposedGets |-> {}]

InFlight == {w \in Composed : writing[w] \in {"streaming", "storing"}}

----------------------------------------------------------------------------
(* set *)

StartSet(w) ==
    /\ writing[w] = "idle"
    /\ \A v \in Composed : v < w => writing[v] # "idle"
    /\ writing' = [writing EXCEPT ![w] = "streaming"]
    /\ pending' = w
    /\ crossed' = IF InFlight = {} THEN crossed ELSE crossed \cup InFlight \cup {w}
    /\ UNCHANGED <<cached, reading, promise, answer, settled>>

\* finally: the key is deleted, whosever promise it has.
DeletePending(w) == 0

\* The stream ends, or breaks: the promise is settled.
StreamEnds(w) ==
    /\ writing[w] = "streaming"
    /\ \E next \in {"storing", "broken"} : writing' = [writing EXCEPT ![w] = next]
    /\ pending' = DeletePending(w)
    /\ UNCHANGED <<cached, crossed, reading, promise, answer, settled>>

\* Mutant: the set returns before its entry is stored.
StoreLater(w) ==
    /\ \/ writing[w] = "storing" /\ writing' = [writing EXCEPT ![w] = "stored"] /\ UNCHANGED cached
       \/ writing[w] = "stored" /\ cached < w /\ cached' = w /\ UNCHANGED writing
    /\ UNCHANGED <<pending, crossed, reading, promise, answer, settled>>
\* globalThis.cache.set, which swallows its errors.
StoreComposed(w) ==
    /\ writing[w] = "storing"
    /\ \/ writing' = [writing EXCEPT ![w] = "stored"] /\ cached' = w
       \/ writing' = [writing EXCEPT ![w] = "unstored"] /\ UNCHANGED cached
    /\ UNCHANGED <<pending, crossed, reading, promise, answer, settled>>

----------------------------------------------------------------------------
(* get *)

StartGet(g) ==
    /\ reading[g] = "idle"
    /\ reading' = [reading EXCEPT ![g] = IF pending # 0 THEN "awaiting" ELSE "reading"]
    /\ promise' = [promise EXCEPT ![g] = pending]
    /\ settled' = [settled EXCEPT ![g] = {w \in Composed : writing[w] = "stored"}]
    /\ UNCHANGED <<writing, pending, cached, crossed, answer>>

\* The promise of the map.  It is returned, not awaited, so that the get
\* rejects when the promise does, in spite of its catch.
AnswerPromise(g) ==
    /\ reading[g] = "awaiting"
    /\ writing[promise[g]] # "streaming"
    /\ IF writing[promise[g]] = "broken"
       THEN reading' = [reading EXCEPT ![g] = "rejected"] /\ UNCHANGED answer
       ELSE /\ reading' = [reading EXCEPT ![g] = "answered"]
            /\ answer' = [answer EXCEPT ![g] = promise[g]]
    /\ UNCHANGED <<writing, pending, cached, crossed, promise, settled>>

\* globalThis.cache.get; an error is answered with undefined.
AnswerCached(g) ==
    /\ reading[g] = "reading"
    /\ reading' = [reading EXCEPT ![g] = "answered"]
    /\ \E found \in {cached, 0} : answer' = [answer EXCEPT ![g] = found]
    /\ UNCHANGED <<writing, pending, cached, crossed, promise, settled>>

ComposableNext ==
    \/ \E w \in Composed : StartSet(w) \/ StreamEnds(w) \/ StoreComposed(w)
    \/ \E g \in ComposedGets : StartGet(g) \/ AnswerPromise(g) \/ AnswerCached(g)

ComposableSpec == ComposableInit /\ [][ComposableNext]_composableVars

----------------------------------------------------------------------------
(* Properties *)

ComposableTypeOK ==
    /\ writing \in [Composed -> {"idle", "streaming", "broken", "storing", "stored", "unstored"}]
    /\ pending \in 0 .. MaxComposed
    /\ cached \in 0 .. MaxComposed
    /\ crossed \subseteq Composed
    /\ reading \in [ComposedGets -> {"idle", "awaiting", "reading", "answered", "rejected"}]
    /\ promise \in [ComposedGets -> 0 .. MaxComposed]
    /\ answer \in [ComposedGets -> 0 .. MaxComposed]
    /\ settled \in [ComposedGets -> SUBSET Composed]

\* A get that starts after a set has stored its entry answers undefined, that
\* entry or a newer one, unless the set overlapped another one, which may then
\* store an older entry over it.
OlderOnlyByOverlap ==
    \A g \in ComposedGets : reading[g] = "answered" /\ answer[g] # 0 =>
        \A w \in settled[g] : answer[g] >= w \/ w \in crossed

=============================================================================
