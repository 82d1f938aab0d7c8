---------------------------- MODULE LocalStorage ----------------------------
(***************************************************************************)
(* The local storage of blank-sr (src/localstorage/localstorage.go): items *)
(* the clients keep in one bolt bucket, through src/bdb/bdb.go.            *)
(*                                                                         *)
(* Every bolt transaction is atomic and survives a crash.  Clear answers   *)
(* before it has begun: its goroutine deletes the bucket later, or never   *)
(* when the process dies first.                                            *)
(***************************************************************************)
EXTENDS Integers

CONSTANTS Items, Unstorable,  \* ids; those bolt refuses as keys: the empty id
          ItemValues, NoItem, \* contents, and none
          MaxClears           \* bound: goroutines of clear waiting at a time

ASSUME StorageAssumption ==
    /\ Unstorable \subseteq Items
    /\ NoItem \notin ItemValues
    /\ MaxClears \in Nat

VARIABLES
    stored,      \* the bucket
    clearing,    \* goroutines of clear that have not run
    lastSet,     \* what the last setItem or removeItem of each item asked for
    threatened,  \* items set or removed while, or before, a clear was waiting
    doomed       \* items stored when clear was called, and not yet wiped or set again

storageVars == <<stored, clearing, lastSet, threatened, doomed>>

ItemOrNone == ItemValues \cup {NoItem}

StorageTypeOK ==
    /\ stored \in [Items -> ItemOrNone]
    /\ clearing \in 0..MaxClears
    /\ lastSet \in [Items -> ItemOrNone]
    /\ threatened \subseteq Items /\ doomed \subseteq Items

StorageInit ==
    /\ stored = [i \in Items |-> NoItem]
    /\ clearing = 0
    /\ lastSet = [i \in Items |-> NoItem]
    /\ threatened = {}
    /\ doomed = {}
-----------------------------------------------------------------------------
SaveItem_IfAbsent(i, v) ==
    IF i \in Unstorable \/ stored[i] # NoItem THEN stored ELSE [stored EXCEPT ![i] = v]
\* bdb.Save: the error of the transaction is lost, a refused key is reported as saved.
SaveItem(i, v) == IF i \in Unstorable THEN stored ELSE [stored EXCEPT ![i] = v]

\* bdb.Delete, which finds nothing to delete when the bucket is gone.
DeleteItem(i) == [stored EXCEPT ![i] = NoItem]

\* bdb.Get, whose error is answered as no item.
GetItem(i) == stored[i]

\* The bookkeeping of a set or remove of i: it counts from now on, unless a clear is waiting.
Asked(i, v) ==
    /\ lastSet' = [lastSet EXCEPT ![i] = v]
    /\ threatened' = IF clearing > 0 THEN threatened \cup {i} ELSE threatened \ {i}
    /\ doomed' = doomed \ {i}

SetItem(i, v) ==
    /\ stored' = SaveItem(i, v)
    /\ Asked(i, v)
    /\ UNCHANGED clearing

RemoveItem(i) ==
    /\ stored' = DeleteItem(i)
    /\ Asked(i, NoItem)
    /\ UNCHANGED clearing

\* Clear: the answer is on its way, the work is in a goroutine.
Clear ==
    /\ clearing < MaxClears
    /\ clearing' = clearing + 1
    /\ threatened' = Items
    /\ doomed' = {i \in Items : stored[i] # NoItem}
    /\ UNCHANGED <<stored, lastSet>>

\* bdb.DeleteBucket, which finds nothing to delete either when there is no bucket.
Emptied == [i \in Items |-> NoItem]

RunClear_OneItem ==
    /\ clearing > 0
    /\ clearing' = clearing - 1
    /\ \E i \in Items :
        /\ stored' = DeleteItem(i)
        /\ doomed' = doomed \ {i}
    /\ UNCHANGED <<lastSet, threatened>>

\* clear, in its goroutine.
RunClear ==
    /\ clearing > 0
    /\ clearing' = clearing - 1
    /\ stored' = Emptied
    /\ doomed' = {}
    /\ UNCHANGED <<lastSet, threatened>>

\* The process dies and starts again: bolt has the bucket, the goroutines are gone.
StorageRestart ==
    /\ clearing' = 0
    /\ doomed' = {}
    /\ UNCHANGED <<stored, lastSet, threatened>>

StorageNext ==
    \/ \E i \in Items, v \in ItemValues : SetItem(i, v)
    \/ \E i \in Items : RemoveItem(i)
    \/ Clear
    \/ RunClear
    \/ StorageRestart

StorageFairness == WF_storageVars(RunClear)

StorageSpec == StorageInit /\ [][StorageNext]_storageVars /\ StorageFairness
-----------------------------------------------------------------------------
\* getItem returns what the last setItem or removeItem left, across restarts, unless
\* a clear was called after it or was still waiting for its goroutine when it was made.
LostOnlyByClear ==
    \A i \in Items \ Unstorable : i \notin threatened => GetItem(i) = lastSet[i]

\* localstorage.go:34: "Clear removes all items from localStorage": what was stored
\* when it was called is gone in the end, if the process lives and nobody sets it again.
ClearWorks == \A i \in Items : i \in doomed ~> i \notin doomed
=============================================================================
