------------------------------ MODULE ReadState ------------------------------
(***************************************************************************)
(* What one user has read in one team (server/store.go, handleGetEvents    *)
(* and handleMarkEventsRead in server/api.go), while webhooks add and      *)
(* update events and the user's tabs load and mark the feed concurrently.  *)
(*                                                                         *)
(* Every access to the read state is one step.  Loading a page of the feed *)
(* is one step too (EventStore has its KV calls), and so is the storing of *)
(* an event a while after it got its timestamp; an event stays in its      *)
(* scope, and the clock counts what happens.                               *)
(***************************************************************************)
EXTENDS ReadStateOps, Sequences

CONSTANTS
    Requests,       \* requests of the user
    Ops,            \* what they may do: [kind, context, ids, offset]
    Global,         \* the team-wide context
    ScopeOf,        \* the context each event is listed in
    Limits,         \* values of MaxEventsStored
    MaxDisplayed,   \* MaxEventsDisplayed
    MaxRetries,     \* maxIndexMutationRetries
    MaxClock,       \* bound on the clock
    MaxInFlight,    \* bound on the events stamped and not yet stored
    KVMayFail       \* whether a KV call may return an error

ASSUME LimitsAssumption == Limits \subseteq Nat \ {0}
ASSUME MaxRetriesAssumption == MaxRetries \in Nat \ {0}
ASSUME MaxClockAssumption == MaxClock \in Nat \ {0}
ASSUME OpsAssumption ==
    \A o \in Ops :
        /\ o.kind \in {"get", "filter", "mark"} /\ o.context \in Contexts
        /\ o.offset \in Nat /\ (o.kind # "get" => o.offset = 0)

VARIABLES
    clock,      \* the time
    writes,     \* events stamped and not yet stored: pairs <<event, timestamp>>
    ts,         \* the timestamp of each stored event, 0 when it is not stored
    listed,     \* the scope indexes, newest event first
    feed,       \* the retention index, last stored event first
    gone,       \* events that were pruned once
    limit,      \* the store's maxEvents
    state,      \* read_state:<user>:<team>
    op,         \* what each request does
    pc,         \* where it is
    page,       \* the events it works on
    baseline,   \* the newest timestamp on its page, or the time it loaded it
    snapshot,   \* the read state it read last
    next,       \* the read state it is about to write
    attempt,    \* the attempt it is on, from 0
    unread      \* the events it reports unread

team == <<clock, writes, ts, listed, feed, gone, limit>>
vars == <<clock, writes, ts, listed, feed, gone, limit, state,
          op, pc, page, baseline, snapshot, next, attempt, unread>>

Goto(r, place) == pc' = [pc EXCEPT ![r] = place]

NoPage == [e \in Events |-> 0]

Init ==
    /\ clock = 1 /\ writes = {} /\ ts = NoPage /\ listed = << >> /\ feed = << >>
    /\ gone = {}
    /\ limit \in Limits
    /\ state = EmptyState
    /\ op \in [Requests -> Ops]
    /\ pc = [r \in Requests |-> "load"]
    /\ page = [r \in Requests |-> NoPage]
    /\ baseline = [r \in Requests |-> 0]
    /\ snapshot = [r \in Requests |-> EmptyState]
    /\ next = [r \in Requests |-> EmptyState]
    /\ attempt = [r \in Requests |-> 0]
    /\ unread = [r \in Requests |-> {}]

-----------------------------------------------------------------------------
Elements(s) == {s[i] : i \in DOMAIN s}

(* newWebhookEvent and applyWebhookUpdate take the time, for a new event   *)
(* or one that is stored.  Two may take the same millisecond ...           *)
Stamp(e) ==
    /\ Cardinality(writes) < MaxInFlight
    /\ ts[e] > 0 \/ (e \notin gone /\ \A w \in writes : w[1] # e)
    /\ clock' \in {clock, clock + 1}
    /\ clock' <= MaxClock
    /\ writes' = writes \union {<<e, clock'>>}
    /\ UNCHANGED <<ts, listed, feed, gone, limit, state,
                   op, pc, page, baseline, snapshot, next, attempt, unread>>

ToFront(ids, e) == <<e>> \o SelectSeq(ids, LAMBDA f : f # e)

Kept(ids, n) == SubSeq(ids, 1, IF Len(ids) > n THEN n ELSE Len(ids))

(* ... and AddEvent, which lists the event and prunes, or UpdateEvent      *)
(* stores it with that time, in any order.  An update brings an event back *)
(* that was pruned meanwhile, but not into its scope index.                *)
Store(e, t) ==
    /\ <<e, t>> \in writes
    /\ writes' = writes \ {<<e, t>>}
    /\ LET update == ts[e] > 0 \/ e \in gone
           new == IF update THEN ToFront(feed, e) ELSE Kept(ToFront(feed, e), limit)
       IN /\ feed' = new
          /\ ts' = [f \in Events |-> IF f \notin Elements(new) THEN 0 ELSE IF f = e THEN t ELSE ts[f]]
          /\ listed' = SelectSeq(IF update THEN listed ELSE <<e>> \o listed,
                                 LAMBDA f : f \in Elements(new))
    /\ gone' = gone \union {f \in Events : ts[f] > 0 /\ ts'[f] = 0}
    /\ UNCHANGED <<clock, limit, state, op, pc, page, baseline, snapshot, next, attempt, unread>>

SetMaxEvents(n) ==
    /\ limit' = n
    /\ UNCHANGED <<clock, writes, ts, listed, feed, gone, state,
                   op, pc, page, baseline, snapshot, next, attempt, unread>>

-----------------------------------------------------------------------------
(* The feed of a context: the team-wide feed in index order, a channel's   *)
(* merged with it and sorted by time (unstably).                           *)
InFeed(c) == {e \in Elements(listed) : ScopeOf[e] \in {Global, c}}

Feeds(c) ==
    IF c = Global THEN {SelectSeq(listed, LAMBDA e : ScopeOf[e] = Global)}
    ELSE {s \in [1 .. Cardinality(InFeed(c)) -> InFeed(c)] :
            \A i, j \in DOMAIN s : i < j => s[i] # s[j] /\ ts[s[i]] >= ts[s[j]]}

Page(ids) == [e \in Events |-> IF e \in ids THEN ts[e] ELSE 0]

Newest(p) == CHOOSE t \in {p[e] : e \in Events} : \A e \in Events : p[e] <= t

(* The part of the feed a request loads; filters look at all of it.        *)
Window(o, s) ==
    IF o.kind = "filter" THEN Elements(s)
    ELSE {s[i] : i \in DOMAIN s \intersect (o.offset + 1 .. o.offset + MaxDisplayed)}

(* Mutated: "mark read" takes the whole page.                              *)
ChosenAll(o, ids) == ids

Chosen(o, ids) == IF o.kind = "mark" /\ o.ids # {} THEN ids \intersect o.ids ELSE ids

(* getVisibleEventsForUser; "mark read" looks at the first page only, and  *)
(* keeps the requested events of it.                                       *)
Load(r) ==
    /\ pc[r] = "load"
    /\ \E s \in Feeds(op[r].context) :
         LET p == Page(Chosen(op[r], Window(op[r], s)))
         IN /\ page' = [page EXCEPT ![r] = p]
            /\ baseline' = [baseline EXCEPT ![r] = IF OnPage(p) = {} THEN clock ELSE Newest(p)]
    /\ Goto(r, IF op[r].kind = "mark" THEN "read" ELSE "look")
    /\ UNCHANGED <<team, state, op, snapshot, next, attempt, unread>>

(* GetUnreadEventsForContext reads the state; a context without baseline   *)
(* is initialised.                                                         *)
Look(r) ==
    /\ pc[r] = "look"
    /\ \/ /\ state.readAt[op[r].context] = Unset
          /\ Goto(r, "read")
          /\ UNCHANGED unread
       \/ /\ state.readAt[op[r].context] # Unset
          /\ unread' = [unread EXCEPT ![r] = Unread(state, op[r].context, page[r])]
          /\ Goto(r, "ok")
    /\ UNCHANGED <<team, state, op, page, baseline, snapshot, next, attempt>>

(* What the callback passed to mutateReadState makes of the state ...      *)
Wanted(r) ==
    IF op[r].kind = "mark" THEN Marked(state, op[r].context, page[r], limit)
    ELSE Initialised(state, op[r].context, baseline[r])

(* Mutated: does not look whether the context was initialised meanwhile.   *)
ChangedAgain(r) ==
    op[r].kind = "mark" => OnPage(page[r]) # {}

(* ... and whether it reports a change: pruning may drop again what was    *)
(* just added.                                                             *)
Changed(r) ==
    IF op[r].kind = "mark"
    THEN /\ OnPage(page[r]) # {}
         /\ \/ state.readAt[op[r].context] = Unset
            \/ SeenWith(state.seen, page[r]) # state.seen
            \/ Pruned(state.seen, limit) # state.seen
    ELSE state.readAt[op[r].context] = Unset

(* mutateReadState reads the state.  If there is nothing to change, a mark *)
(* request is done; for a feed request another one has initialised the     *)
(* context, and it reports by that baseline.                               *)
Read(r) ==
    /\ pc[r] = "read"
    /\ \/ /\ Changed(r)
          /\ snapshot' = [snapshot EXCEPT ![r] = state]
          /\ next' = [next EXCEPT ![r] = Wanted(r)]
          /\ Goto(r, "cas")
          /\ UNCHANGED unread
       \/ /\ ~Changed(r)
          /\ UNCHANGED <<snapshot, next>>
          /\ Goto(r, "ok")
          /\ unread' = IF op[r].kind = "mark" THEN unread
                       ELSE [unread EXCEPT ![r] = Unread(state, op[r].context, page[r])]
    /\ UNCHANGED <<team, state, op, page, baseline, attempt>>

(* Mutated: a plain KVSet.                                                 *)
SetState(r) ==
    /\ pc[r] = "cas"
    /\ state' = next[r]
    /\ Goto(r, "ok")
    /\ UNCHANGED <<team, op, page, baseline, snapshot, next, attempt, unread>>

CompareAndSet(r) ==
    /\ pc[r] = "cas"
    /\ state = snapshot[r]
    /\ state' = next[r]
    /\ Goto(r, "ok")
    /\ UNCHANGED <<team, op, page, baseline, snapshot, next, attempt, unread>>

(* Mutated: counts an attempt twice.                                      *)
ConflictTwice(r) ==
    /\ pc[r] = "cas"
    /\ state # snapshot[r]
    /\ attempt' = [attempt EXCEPT ![r] = @ + 2]
    /\ Goto(r, IF attempt[r] + 1 < MaxRetries THEN "read" ELSE "failed")
    /\ UNCHANGED <<team, state, op, page, baseline, snapshot, next, unread>>

Conflict(r) ==
    /\ pc[r] = "cas"
    /\ state # snapshot[r]
    /\ attempt' = [attempt EXCEPT ![r] = @ + 1]
    /\ Goto(r, IF attempt[r] + 1 < MaxRetries THEN "read" ELSE "failed")
    /\ UNCHANGED <<team, state, op, page, baseline, snapshot, next, unread>>

(* A KV call fails, or the user is no member.                              *)
RequestFails(r) ==
    /\ KVMayFail
    /\ pc[r] \in {"load", "look", "read", "cas"}
    /\ Goto(r, "failed")
    /\ UNCHANGED <<team, state, op, page, baseline, snapshot, next, attempt, unread>>

Step(r) == Load(r) \/ Look(r) \/ Read(r) \/ CompareAndSet(r) \/ Conflict(r) \/ RequestFails(r)

Environment ==
    \/ \E e \in Events : Stamp(e)
    \/ \E w \in writes : Store(w[1], w[2])
    \/ \E n \in Limits : SetMaxEvents(n)

Next == (\E r \in Requests : Step(r)) \/ Environment

Spec == Init /\ [][Next]_vars

-----------------------------------------------------------------------------
Places == {"load", "look", "read", "cas", "ok", "failed"}

(* Type correctness; a request under way has an attempt left.              *)
TypeOK ==
    /\ clock \in 1 .. MaxClock
    /\ writes \subseteq Events \X (1 .. MaxClock)
    /\ ts \in [Events -> 0 .. MaxClock]
    /\ limit \in Limits
    /\ gone \subseteq Events
    /\ state \in States
    /\ op \in [Requests -> Ops]
    /\ pc \in [Requests -> Places]
    /\ page \in [Requests -> [Events -> 0 .. MaxClock]]
    /\ baseline \in [Requests -> 0 .. MaxClock]
    /\ snapshot \in [Requests -> States]
    /\ next \in [Requests -> States]
    /\ attempt \in [Requests -> Nat]
    /\ unread \in [Requests -> SUBSET Events]
    /\ \A r \in Requests : pc[r] \in {"load", "look", "read", "cas"} => attempt[r] < MaxRetries

Marks == {r \in Requests : pc[r] = "ok" /\ op[r].kind = "mark"}

SmallestLimit == CHOOSE n \in Limits : \A m \in Limits : n <= m

(* Nothing becomes read by itself: an event is seen up to a timestamp only *)
(* if a "mark read" that asked for it, loaded it with that timestamp and   *)
(* was answered without error (store.go:220-242, api.go:731-746).          *)
OnlyRequestedAreSeen ==
    \A e \in Events : state.seen[e] > 0 =>
        \E r \in Marks : page[r][e] = state.seen[e] /\ (op[r].ids = {} \/ e \in op[r].ids)

(* What was marked read stays so, whatever tabs race and however webhooks  *)
(* are stamped and stored, unless at least as many entries as pruning      *)
(* keeps, twice the limit, are as new as the marked one and pushed it out  *)
(* of the map (store.go:233-240, 249-276).                                 *)
MarkedStaysSeen ==
    \A r \in Marks : \A e \in OnPage(page[r]) :
        \/ state.seen[e] >= page[r][e]
        \/ Cardinality({f \in Events \ {e} : state.seen[f] >= page[r][e]}) >= 2 * SmallestLimit

(* The baseline of a context is set once, also when several tabs open it   *)
(* at a time (store.go:186-201, 228).                                      *)
BaselineKept ==
    [][\A c \in Contexts : state.readAt[c] # Unset => state'.readAt[c] = state.readAt[c]]_vars

-----------------------------------------------------------------------------
(* The abstract request loads its page, then takes effect at once.         *)
AbstractStatus ==
    [r \in Requests |-> IF pc[r] = "load" THEN "loading"
                        ELSE IF pc[r] \in {"look", "read", "cas"} THEN "running" ELSE pc[r]]

Abstract == INSTANCE AtomicReadState WITH status <- AbstractStatus

(* Retries, the early look and the lost races of an initialisation cannot  *)
(* be told from requests that take effect one after the other.             *)
ImplementsAtomicReadState == Abstract!Spec

=============================================================================
