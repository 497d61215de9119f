--------------------------- MODULE MultiTierCache ---------------------------
(***************************************************************************)
(* The incremental cache of packages/aws/src/overrides/incrementalCache/   *)
(* multi-tier-ddb-s3.ts for one key: a local cache in each instance        *)
(* (packages/core/src/utils/lru.ts), an item about the key in DynamoDB,    *)
(* and the entry in S3 (s3-lite.ts).  A write, a set or a delete, goes to  *)
(* S3, to DynamoDB and to the instance's own local cache, in this order.   *)
(* Writes are numbered in the order in which they start; an instance does  *)
(* one thing at a time.                                                    *)
(***************************************************************************)
EXTENDS Integers

CONSTANTS
    Instances,
    TTL,        \* OPEN_NEXT_LOCAL_CACHE_TTL_MS, in instants
    MaxWrites,  \* bound: writes
    MaxTime     \* bound

ASSUME MultiTierAssumption == TTL \in Nat /\ MaxWrites \in Nat /\ MaxTime \in Nat \ {0}

VARIABLES
    time,      \* Date.now(), the same for all
    object,    \* the object in S3: the write it is of, 0 for none, and its Last-Modified
    item,      \* the item in DynamoDB: revalidatedAt, Deleted, or 0 without one
    local,     \* each local cache: the write it has and its lastModified
    task,      \* what an instance does next
    mine,      \* the number of its write
    stamp,     \* revalidatedAt of its write
    writes,    \* writes so far
    unclean,   \* history: the writes that overlapped another or that DynamoDB refused
    complete,  \* history: the last other write that is done, and its stamp
    due        \* history: complete when an instance's get started

tierVars == <<time, object, item, local, task, mine, stamp, writes, unclean, complete, due>>

Writes == 1 .. MaxWrites
Deleted == -1
Nothing == [write |-> 0, at |-> 0]

TierInit ==
    /\ time = 1
    /\ object = Nothing
    /\ item = 0
    /\ local = [i \in Instances |-> Nothing]
    /\ task = [i \in Instances |-> "idle"]
    /\ mine = [i \in Instances |-> 0]
    /\ stamp = [i \in Instances |-> 0]
    /\ writes = 0
    /\ unclean = {}
    /\ complete = Nothing
    /\ due = [i \in Instances |-> Nothing]

Writers == {i \in Instances : task[i] \in {"put", "putMeta", "delete", "deleteMeta"}}

----------------------------------------------------------------------------
(* set and delete *)

StartWrite(i) ==
    /\ task[i] = "idle"
    /\ writes < MaxWrites
    /\ writes' = writes + 1
    /\ \E kind \in {"put", "delete"} : task' = [task EXCEPT ![i] = kind]
    /\ mine' = [mine EXCEPT ![i] = writes']
    /\ stamp' = [stamp EXCEPT ![i] = time]
    /\ unclean' = IF Writers = {} THEN unclean ELSE unclean \cup {mine[j] : j \in Writers} \cup {writes'}
    /\ UNCHANGED <<time, object, item, local, complete, due>>

\* S3Cache.set or S3Cache.delete.  S3 gives times in seconds.
WriteObject(i) ==
    /\ \/ /\ task[i] = "put"
          /\ \E at \in {time, time - 1} : object' = [write |-> mine[i], at |-> at]
          /\ task' = [task EXCEPT ![i] = "putMeta"]
       \/ /\ task[i] = "delete"
          /\ object' = Nothing
          /\ task' = [task EXCEPT ![i] = "deleteMeta"]
    /\ UNCHANGED <<time, item, local, mine, stamp, writes, unclean, complete, due>>

\* The instance is idle again.
EndTask(i) ==
    /\ task' = [task EXCEPT ![i] = "idle"]
    /\ mine' = [mine EXCEPT ![i] = 0]
    /\ stamp' = [stamp EXCEPT ![i] = 0]
    /\ due' = [due EXCEPT ![i] = Nothing]

\* S3 refuses: the write throws.
WriteFails(i) ==
    /\ task[i] \in {"put", "delete"}
    /\ EndTask(i)
    /\ UNCHANGED <<time, object, item, local, writes, unclean, complete>>

\* Mutant: revalidatedAt is not part of the item.
ItemUntimed(i) == IF task[i] = "putMeta" THEN 0 ELSE Deleted
\* The item that is put.
Item(i) == IF task[i] = "putMeta" THEN stamp[i] ELSE Deleted

\* The item is put, then the local cache is written.  The status of DynamoDB's
\* answer is not looked at.
WriteItem(i) ==
    /\ task[i] \in {"putMeta", "deleteMeta"}
    /\ \/ item' = Item(i) /\ UNCHANGED unclean
       \/ UNCHANGED item /\ unclean' = unclean \cup {mine[i]}
    /\ local' = [local EXCEPT ![i] = IF task[i] = "putMeta" THEN [write |-> mine[i], at |-> stamp[i]] ELSE Nothing]
    /\ complete' = IF mine[i] \in unclean' THEN complete ELSE [write |-> mine[i], at |-> stamp[i]]
    /\ EndTask(i)
    /\ UNCHANGED <<time, object, writes>>

----------------------------------------------------------------------------
(* get *)

\* A local entry that is younger than the TTL is answered at once.
Young(i) == time - local[i].at < TTL

StartRead(i) ==
    /\ task[i] = "idle"
    /\ local[i] = Nothing \/ ~Young(i)
    /\ task' = [task EXCEPT ![i] = IF local[i] = Nothing THEN "read" ELSE "ask"]
    /\ due' = [due EXCEPT ![i] = complete]
    /\ UNCHANGED <<time, object, item, local, mine, stamp, writes, unclean, complete>>

\* The answer is the local entry.
AnswersLocal(i) == task[i] = "ask" /\ item # Deleted /\ item <= local[i].at

\* The item of DynamoDB, of time 0 when there is none; S3 is read when the item
\* is newer than the local entry, or DynamoDB fails.
AskItem(i) ==
    /\ task[i] = "ask"
    /\ \/ AnswersLocal(i) /\ EndTask(i) /\ UNCHANGED local
       \/ item = Deleted /\ EndTask(i) /\ local' = [local EXCEPT ![i] = Nothing]
       \/ /\ task' = [task EXCEPT ![i] = "read"]
          /\ UNCHANGED <<local, mine, stamp, due>>
    /\ UNCHANGED <<time, object, item, writes, unclean, complete>>

\* S3Cache.get; without an object it throws, and the local entry stays.
ReadObject(i) ==
    /\ task[i] = "read"
    /\ local' = [local EXCEPT ![i] = IF object = Nothing THEN @ ELSE object]
    /\ EndTask(i)
    /\ UNCHANGED <<time, object, item, writes, unclean, complete>>

\* LRUCache.set of other keys at the maximal size.
EvictLocal(i) ==
    /\ task[i] # "ask"
    /\ local[i] # Nothing
    /\ local' = [local EXCEPT ![i] = Nothing]
    /\ UNCHANGED <<time, object, item, task, mine, stamp, writes, unclean, complete, due>>

TierTick ==
    /\ time < MaxTime
    /\ time' = time + 1
    /\ UNCHANGED <<object, item, local, task, mine, stamp, writes, unclean, complete, due>>

TierNext ==
    \/ \E i \in Instances :
          \/ StartWrite(i) \/ WriteObject(i) \/ WriteFails(i) \/ WriteItem(i)
          \/ StartRead(i) \/ AskItem(i) \/ ReadObject(i) \/ EvictLocal(i)
    \/ TierTick

TierSpec == TierInit /\ [][TierNext]_tierVars

----------------------------------------------------------------------------
(* Properties *)

TierTypeOK ==
    /\ time \in 1 .. MaxTime
    /\ writes \in 0 .. MaxWrites
    /\ object \in [write : 0 .. MaxWrites, at : 0 .. MaxTime]
    /\ item \in Deleted .. MaxTime
    /\ local \in [Instances -> [write : 0 .. MaxWrites, at : 0 .. MaxTime]]
    /\ task \in [Instances -> {"idle", "put", "putMeta", "delete", "deleteMeta", "ask", "read"}]
    /\ mine \in [Instances -> 0 .. writes]
    /\ stamp \in [Instances -> 0 .. time]
    /\ unclean \subseteq Writes

\* A local cache that asked DynamoDB does not answer an entry that was replaced
\* or deleted before the get started, unless the replacement started in the
\* instant of the entry: the comparison takes equal times for the same write.
\* Writes that overlapped another one, and those DynamoDB refused, are left out.
LocalStaleOnlyInInstant ==
    \A i \in Instances : AnswersLocal(i) /\ local[i].write < due[i].write => local[i].at >= due[i].at

=============================================================================
