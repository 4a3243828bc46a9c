---------------------------- MODULE AtomicIndex -----------------------------
(***************************************************************************)
(* What callers of EventStore.mutateIndex rely on: each call changes the   *)
(* index in one indivisible step, or fails and changes nothing.            *)
(***************************************************************************)
EXTENDS IndexOps

CONSTANTS
    Callers,        \* the goroutines, each making one call
    Calls,          \* the calls they may make
    InitialData,    \* what the KV key may hold at the start
    Limits          \* the values MaxEventsStored takes

VARIABLES
    data,           \* what the KV key holds
    call,           \* the call each caller makes
    status,         \* "running", "ok" or "failed"
    pruned          \* the IDs prependToTeamIndex hands to its caller

vars == <<data, call, status, pruned>>

Init ==
    /\ data \in InitialData
    /\ call \in [Callers -> Calls]
    /\ status = [c \in Callers |-> "running"]
    /\ pruned = [c \in Callers |-> << >>]

Succeed(c) ==
    /\ status[c] = "running"
    /\ \E limit \in Limits :
         LET m == Mutation(call[c], data, limit) IN
         /\ data' = m.data
         /\ pruned' = [pruned EXCEPT ![c] = m.pruned]
    /\ status' = [status EXCEPT ![c] = "ok"]
    /\ UNCHANGED call

Fail(c) ==
    /\ status[c] = "running"
    /\ status' = [status EXCEPT ![c] = "failed"]
    /\ UNCHANGED <<data, call, pruned>>

Next == \E c \in Callers : Succeed(c) \/ Fail(c)

Spec == Init /\ [][Next]_vars
=============================================================================
