----------------------------- MODULE PurgeBuffer -----------------------------
(***************************************************************************)
(* What a buffer of purges promises, without the alarm, its retries and    *)
(* the restarts of the object that keeps it: the tags it is asked for wait *)
(* until a call to the CDN has named them.  There is one call at a time,   *)
(* it names as many waiting tags as a call can, and its tags wait no more  *)
(* when it is answered, with success or not; a call that is given up       *)
(* leaves them waiting.                                                    *)
(***************************************************************************)
EXTENDS Naturals, FiniteSets

CONSTANTS
    PurgeTags,
    MaxTags   \* the tags a call can name

VARIABLES
    stale,   \* the tags the CDN has pages of though their purge was asked for
    waiting, \* the tags a call is still to name
    called   \* the tags of the call

bufferVars == <<stale, waiting, called>>

BufferInit == stale = {} /\ waiting = {} /\ called = {}

Ask(tags) ==
    /\ stale' = stale \cup tags
    /\ waiting' = waiting \cup tags
    /\ UNCHANGED called

\* No call, or one of a part of the waiting tags: of all that a call can name.
CallOf(tags) ==
    \/ called' = {}
    \/ /\ called' \in SUBSET tags
       /\ Cardinality(called') <= MaxTags
       /\ Cardinality(called') < MaxTags => called' = tags

StartCall ==
    /\ called = {}
    /\ CallOf(waiting)
    /\ UNCHANGED <<stale, waiting>>

CallPurges ==
    /\ called # {}
    /\ stale' = stale \ called
    /\ UNCHANGED <<waiting, called>>

CallAnswered ==
    /\ called # {}
    /\ waiting' = waiting \ called
    /\ CallOf(waiting')
    /\ UNCHANGED stale

CallGivenUp ==
    /\ called' = {}
    /\ UNCHANGED <<stale, waiting>>

BufferNext ==
    \/ \E tags \in SUBSET PurgeTags : Ask(tags)
    \/ StartCall
    \/ CallPurges
    \/ CallAnswered
    \/ CallGivenUp

BufferSpec == BufferInit /\ [][BufferNext]_bufferVars

=============================================================================
