--------------------------- MODULE AtomicReadState ---------------------------
(***************************************************************************)
(* What the handlers of the feed and of "mark read" rely on: each request  *)
(* reads or changes the read state in one indivisible step, or fails and   *)
(* changes nothing.                                                        *)
(***************************************************************************)
EXTENDS ReadStateOps

CONSTANTS
    Requests,   \* requests of the user
    Ops,        \* what they may do
    Limits      \* values of MaxEventsStored

VARIABLES
    state,      \* the read state
    op,         \* what each request does
    page,       \* what it loaded
    baseline,   \* the newest timestamp on the page, or the time of the request
    status,     \* "loading", "running", "ok" or "failed"
    unread      \* the events a feed request reports unread

vars == <<state, op, page, baseline, status, unread>>

Init ==
    /\ state = EmptyState
    /\ op \in [Requests -> Ops]
    /\ page = [r \in Requests |-> [e \in Events |-> 0]]
    /\ baseline = [r \in Requests |-> 0]
    /\ status = [r \in Requests |-> "loading"]
    /\ unread = [r \in Requests |-> {}]

Load(r) ==
    /\ status[r] = "loading"
    /\ status' = [status EXCEPT ![r] = "running"]
    /\ page' \in [Requests -> [Events -> Nat]]
    /\ baseline' \in [Requests -> Nat]
    /\ \A s \in Requests \ {r} : page'[s] = page[s] /\ baseline'[s] = baseline[s]
    /\ UNCHANGED <<state, op, unread>>

Mark(r) ==
    /\ status[r] = "running" /\ op[r].kind = "mark"
    /\ \E limit \in Limits : state' = Marked(state, op[r].context, page[r], limit)
    /\ status' = [status EXCEPT ![r] = "ok"]
    /\ UNCHANGED <<op, page, baseline, unread>>

(* The first look at a context sets its baseline and reports nothing.      *)
Initialise(r) ==
    /\ status[r] = "running" /\ op[r].kind # "mark"
    /\ state.readAt[op[r].context] = Unset
    /\ state' = Initialised(state, op[r].context, baseline[r])
    /\ status' = [status EXCEPT ![r] = "ok"]
    /\ UNCHANGED <<op, page, baseline, unread>>

Report(r) ==
    /\ status[r] = "running" /\ op[r].kind # "mark"
    /\ state.readAt[op[r].context] # Unset
    /\ unread' = [unread EXCEPT ![r] = Unread(state, op[r].context, page[r])]
    /\ status' = [status EXCEPT ![r] = "ok"]
    /\ UNCHANGED <<state, op, page, baseline>>

Fail(r) ==
    /\ status[r] \in {"loading", "running"}
    /\ status' = [status EXCEPT ![r] = "failed"]
    /\ UNCHANGED <<state, op, page, baseline, unread>>

Next == \E r \in Requests : Load(r) \/ Mark(r) \/ Initialise(r) \/ Report(r) \/ Fail(r)

Spec == Init /\ [][Next]_vars
=============================================================================
