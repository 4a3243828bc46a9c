--------------------------- MODULE IndexMutation ----------------------------
(***************************************************************************)
(* EventStore.mutateIndex (server/store.go): concurrent callers change one *)
(* index key of the plugin KV store with a bounded read / compare-and-set  *)
(* loop.  Every KV call is one step; between the steps of one caller the   *)
(* others may do anything.                                                 *)
(***************************************************************************)
EXTENDS IndexOps, FiniteSets

CONSTANTS
    Callers,        \* the goroutines, each making one call
    Calls,          \* the calls they may make, records [kind, id]
    InitialData,    \* what the KV key may hold at the start
    Limits,         \* the values MaxEventsStored takes
    MaxRetries,     \* maxIndexMutationRetries
    KVMayFail       \* whether a KV call may return an error

ASSUME CallersAssumption == IsFiniteSet(Callers)
ASSUME MaxRetriesAssumption == MaxRetries \in Nat \ {0}
ASSUME CallsAssumption == \A k \in Calls : k.kind \in {"prepend", "retain", "remove"}
ASSUME LimitsAssumption == Limits \subseteq Nat

Elements(ids) == {ids[i] : i \in DOMAIN ids}

NoDup(ids) == \A i, j \in DOMAIN ids : ids[i] = ids[j] => i = j

IDs == {k.id : k \in Calls} \union UNION {Elements(d) : d \in InitialData \ {Absent, Corrupt}}

(* What the key holds at the start was written by calls like these.        *)
ASSUME InitialDataAssumption ==
    \A d \in InitialData \ {Absent, Corrupt} : d \in Seq(IDs) /\ NoDup(d)

VARIABLES
    data,       \* what the KV key holds
    limit,      \* the store's maxEvents, an atomic integer
    call,       \* the call each caller makes
    pc,         \* where each caller is: "get", "cas", "ok" or "failed"
    attempt,    \* the attempt each caller is on, from 0
    snapshot,   \* the data the last KVGet of the caller returned
    next        \* what its mutation computed from that data

vars == <<data, limit, call, pc, attempt, snapshot, next>>

NoMutation == [changed |-> FALSE, data |-> Absent, pruned |-> << >>]

Init ==
    /\ data \in InitialData
    /\ limit \in Limits
    /\ call \in [Callers -> Calls]
    /\ pc = [c \in Callers |-> "get"]
    /\ attempt = [c \in Callers |-> 0]
    /\ snapshot = [c \in Callers |-> Absent]
    /\ next = [c \in Callers |-> NoMutation]

(* KVGet, then the mutation on the data just read (a pure computation that *)
(* loads maxEvents once).  A mutation that changes nothing ends the call.  *)
Get(c) ==
    /\ pc[c] = "get"
    /\ LET m == Mutation(call[c], data, limit) IN
         /\ snapshot' = [snapshot EXCEPT ![c] = data]
         /\ next' = [next EXCEPT ![c] = m]
         /\ pc' = [pc EXCEPT ![c] = IF m.changed THEN "cas" ELSE "ok"]
    /\ UNCHANGED <<data, limit, call, attempt>>

(* Mutated: a plain KVSet.                                                 *)
SetBlindly(c) ==
    /\ pc[c] = "cas"
    /\ data' = next[c].data
    /\ pc' = [pc EXCEPT ![c] = "ok"]
    /\ UNCHANGED <<limit, call, attempt, snapshot, next>>

CompareAndSet(c) ==
    /\ pc[c] = "cas"
    /\ data = snapshot[c]
    /\ data' = next[c].data
    /\ pc' = [pc EXCEPT ![c] = "ok"]
    /\ UNCHANGED <<limit, call, attempt, snapshot, next>>

(* Mutated: a conflict counts twice.                                       *)
ConflictTwice(c) ==
    /\ pc[c] = "cas"
    /\ data # snapshot[c]
    /\ attempt' = [attempt EXCEPT ![c] = @ + 2]
    /\ pc' = [pc EXCEPT ![c] = IF attempt[c] + 1 < MaxRetries THEN "get" ELSE "failed"]
    /\ UNCHANGED <<data, limit, call, snapshot, next>>

(* KVCompareAndSet returned false: try again, up to MaxRetries attempts.   *)
Conflict(c) ==
    /\ pc[c] = "cas"
    /\ data # snapshot[c]
    /\ attempt' = [attempt EXCEPT ![c] = @ + 1]
    /\ pc' = [pc EXCEPT ![c] = IF attempt[c] + 1 < MaxRetries THEN "get" ELSE "failed"]
    /\ UNCHANGED <<data, limit, call, snapshot, next>>

KVError(c) ==
    /\ KVMayFail
    /\ pc[c] \in {"get", "cas"}
    /\ pc' = [pc EXCEPT ![c] = "failed"]
    /\ UNCHANGED <<data, limit, call, attempt, snapshot, next>>

SetMaxEvents(n) ==
    /\ limit' = n
    /\ UNCHANGED <<data, call, pc, attempt, snapshot, next>>

Step(c) == Get(c) \/ CompareAndSet(c) \/ Conflict(c) \/ KVError(c)

Next == (\E c \in Callers : Step(c)) \/ (\E n \in Limits : SetMaxEvents(n))

Spec == Init /\ [][Next]_vars

-----------------------------------------------------------------------------
Done(c, kinds) == pc[c] = "ok" /\ call[c].kind \in kinds

(* Type correctness.  A successful compare-and-set never writes Corrupt.   *)
TypeOK ==
    /\ data \in {Absent, Corrupt} \/ data \in Seq(IDs)
    /\ limit \in Limits
    /\ call \in [Callers -> Calls]
    /\ pc \in [Callers -> {"get", "cas", "ok", "failed"}]
    /\ attempt \in [Callers -> 0 .. MaxRetries]

(* The index never lists an event twice, whatever calls interleave         *)
(* (prependUnique and removeID, store.go:555-585): a duplicate would show  *)
(* the event twice in the feed and prune it while it is still listed.      *)
NoDuplicates == data \notin {Absent, Corrupt} => NoDup(data)

(* A truncating insertion hands over exactly what it dropped: an ID in the *)
(* caller's prune list, whose event is deleted next, is not in the index   *)
(* unless another call put it back (store.go:538-553; a prune list kept    *)
(* from a lost attempt would name events that are still indexed).          *)
PrunedLeftTheIndex ==
    \A c \in Callers : Done(c, {"retain"}) =>
        \A id \in Elements(next[c].pruned) \intersect Elements(Decode(data)) :
            \E d \in Callers \ {c} : Done(d, {"prepend", "retain"}) /\ call[d].id = id

(* An attempt is lost only to another call that changed the index during   *)
(* it, and to each such call once: whoever runs out of attempts has lost   *)
(* to MaxRetries others (store.go:488, 520-525).                           *)
LosesOnlyToChanges ==
    \A c \in Callers :
        attempt[c] <= Cardinality({d \in Callers \ {c} : pc[d] = "ok" /\ next[d].changed})

-----------------------------------------------------------------------------
(* The abstract index: a caller has succeeded once its compare-and-set (or *)
(* the read that found nothing to change) happened.                        *)
AbstractStatus == [c \in Callers |-> IF pc[c] \in {"get", "cas"} THEN "running" ELSE pc[c]]
AbstractPruned == [c \in Callers |-> IF pc[c] = "ok" THEN next[c].pruned ELSE << >>]

Abstract == INSTANCE AtomicIndex WITH status <- AbstractStatus, pruned <- AbstractPruned

(* The retry loop implements the atomic index: a lost update, a torn one,  *)
(* or a change made by a call that reports an error would be a step the    *)
(* abstract index does not have.                                           *)
ImplementsAtomicIndex == Abstract!Spec
=============================================================================
