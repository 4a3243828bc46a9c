----------------------------- MODULE EventStore -----------------------------
(***************************************************************************)
(* The events of one team in the plugin KV store (server/store.go) under   *)
(* concurrent webhook requests (storeWebhookEvent in server/api.go).       *)
(*                                                                         *)
(* Every KV call of a request is one step.  A call of mutateIndex is one   *)
(* step too, which changes the index once or fails: IndexMutation models   *)
(* its retry loop, and IndexMutationProofs shows that it is such a step.   *)
(* It may fail whether or not KV calls do, for it gives up after three     *)
(* compare-and-sets lost to others; the model lets it fail at any time.    *)
(* A KV call that returns an error has changed nothing.                    *)
(*                                                                         *)
(* A request adds at most one event and the event's uuid is new, so the    *)
(* request itself serves as the ID of the event it adds.  An event keeps   *)
(* the two fields the store looks at; the channel list is a set, and its   *)
(* keys are visited in any order.  Scope indexes are sets too: the order   *)
(* and the duplicates of an index are IndexMutation's subject.             *)
(***************************************************************************)
EXTENDS Naturals, Sequences, FiniteSets

CONSTANTS
    Requests,       \* webhook deliveries; also the IDs of the events they add
    ExtIds,         \* external IDs
    NoExt,          \* the webhook carries no external ID
    Channels,       \* channels of the team
    Global,         \* the scope of events without channels
    Unrestricted,   \* a credential without channel restriction
    Webhooks,       \* valid webhooks: [ext, channels, allowed]
    Limits,         \* values of MaxEventsStored
    NoId,           \* an external ID that maps to no event
    Missing,        \* an event key that holds nothing
    KVMayFail,      \* whether a KV call may return an error
    NodesMayDie     \* whether the server process running a request may die

Scopes == Channels \union {Global}

Events == [ext : ExtIds \union {NoExt}, channels : SUBSET Channels]

ASSUME RequestsAssumption == IsFiniteSet(Requests)
ASSUME LimitsAssumption == Limits \subseteq Nat \ {0}
ASSUME WebhooksAssumption ==
    \A w \in Webhooks :
        /\ w.ext \in ExtIds \union {NoExt}
        /\ w.channels \subseteq Channels
        /\ w.allowed = Unrestricted \/ w.allowed \subseteq Channels
ASSUME NamesAssumption ==
    NoExt \notin ExtIds /\ NoId \notin Requests /\ Missing \notin Events

VARIABLES
    events,         \* event:<id>
    extMap,         \* ext_id:<team>:<external id>
    scopeIndex,     \* event_index:<team>:<channel> and event_index:<team>:_global
    retention,      \* event_index:<team>, newest first
    maxEvents,      \* EventStore.maxEvents
    pc,             \* where each request is
    webhook,        \* the webhook it carries
    target,         \* the event it adds or updates
    copy,           \* the event it read last
    leave,          \* scope indexes it has yet to remove an ID from
    join,           \* scope indexes it has yet to add the ID to
    prune,          \* events it has yet to prune
    warned          \* events that the server logged a failed pruning of

store == <<events, extMap, scopeIndex, retention>>
vars == <<events, extMap, scopeIndex, retention, maxEvents,
          pc, webhook, target, copy, leave, join, prune, warned>>

-----------------------------------------------------------------------------
ScopeKeys(channels) == IF channels = {} THEN {Global} ELSE channels

(* Moves id to the front of ids, or puts it there; the others keep their   *)
(* order.  The retention index never repeats an ID.                        *)
ToFront(ids, id) ==
    IF \E i \in DOMAIN ids : ids[i] = id
    THEN LET at == CHOOSE i \in DOMAIN ids : ids[i] = id IN
         [i \in 1 .. Len(ids) |->
            IF i = 1 THEN id ELSE IF i <= at THEN ids[i - 1] ELSE ids[i]]
    ELSE [i \in 1 .. Len(ids) + 1 |-> IF i = 1 THEN id ELSE ids[i - 1]]

(* Mutated: nothing is cut off.                                            *)
KeptAll(ids, limit) == ids

(* prependToTeamIndex splits the index at the limit.                       *)
Kept(ids, limit) == SubSeq(ids, 1, IF Len(ids) > limit THEN limit ELSE Len(ids))

Dropped(ids, limit) == SubSeq(ids, limit + 1, Len(ids))

(* enforceWebhookCredentialScope                                           *)
InScope(allowed, channels) ==
    allowed = Unrestricted \/ (channels # {} /\ channels \subseteq allowed)

Goto(r, place) == pc' = [pc EXCEPT ![r] = place]

Init ==
    /\ events = [id \in Requests |-> Missing]
    /\ extMap = [x \in ExtIds |-> NoId]
    /\ scopeIndex = [k \in Scopes |-> {}]
    /\ retention = << >>
    /\ maxEvents \in Limits
    /\ webhook \in [Requests -> {w \in Webhooks : InScope(w.allowed, w.channels)}]
    /\ pc = [r \in Requests |-> IF webhook[r].ext = NoExt THEN "store" ELSE "lookup"]
    /\ target = [r \in Requests |-> r]
    /\ copy = [r \in Requests |-> Missing]
    /\ leave = [r \in Requests |-> {}]
    /\ join = [r \in Requests |-> {}]
    /\ prune = [r \in Requests |-> << >>]
    /\ warned = {}

-----------------------------------------------------------------------------
(* Mutated: takes the mapping for the event even when there is none.       *)
LookupBlindly(r) ==
    /\ pc[r] = "lookup"
    /\ target' = [target EXCEPT ![r] = extMap[webhook[r].ext]]
    /\ Goto(r, IF extMap[webhook[r].ext] = NoId THEN "claim" ELSE "get")
    /\ UNCHANGED <<store, maxEvents, webhook, warned, copy, leave, join, prune>>

(* storeWebhookEvent looks the external ID up ...                          *)
Lookup(r) ==
    /\ pc[r] = "lookup"
    /\ LET id == extMap[webhook[r].ext] IN
       \/ id = NoId /\ Goto(r, "claim") /\ UNCHANGED target
       \/ id # NoId /\ Goto(r, "get") /\ target' = [target EXCEPT ![r] = id]
    /\ UNCHANGED <<store, maxEvents, webhook, warned, copy, leave, join, prune>>

(* ... and reads the event it names: a missing one is an internal error.   *)
GetExisting(r) ==
    /\ pc[r] = "get"
    /\ LET event == events[target[r]] IN
       /\ copy' = [copy EXCEPT ![r] = event]
       /\ Goto(r, IF event = Missing THEN "error"
                  ELSE IF InScope(webhook[r].allowed, event.channels) THEN "rewrite"
                  ELSE "forbidden")
    /\ UNCHANGED <<store, maxEvents, webhook, warned, target, leave, join, prune>>

(* UpdateEvent stores the edited copy without comparing, then brings the   *)
(* scope indexes from the channels of the copy to those of the webhook.    *)
Rewrite(r) ==
    /\ pc[r] = "rewrite"
    /\ events' = [events EXCEPT ![target[r]] =
                    [ext |-> copy[r].ext, channels |-> webhook[r].channels]]
    /\ LET old == ScopeKeys(copy[r].channels)
           new == ScopeKeys(webhook[r].channels) IN
       /\ leave' = [leave EXCEPT ![r] = old \ new]
       /\ join' = [join EXCEPT ![r] = new \ old]
    /\ Goto(r, "sync")
    /\ UNCHANGED <<extMap, scopeIndex, retention, maxEvents, webhook, warned, target, copy, prune>>

Leave(r, k) ==
    /\ pc[r] = "sync"
    /\ k \in leave[r]
    /\ scopeIndex' = [scopeIndex EXCEPT ![k] = @ \ {target[r]}]
    /\ leave' = [leave EXCEPT ![r] = @ \ {k}]
    /\ UNCHANGED <<events, extMap, retention, maxEvents, pc, webhook, warned, target, copy, join, prune>>

(* syncEventScopeIndexes after its removals, and addEventToScopeIndexes.   *)
Join(r, k) ==
    /\ pc[r] \in {"sync", "list"}
    /\ leave[r] = {}
    /\ k \in join[r]
    /\ scopeIndex' = [scopeIndex EXCEPT ![k] = @ \union {target[r]}]
    /\ join' = [join EXCEPT ![r] = @ \ {k}]
    /\ UNCHANGED <<events, extMap, retention, maxEvents, pc, webhook, warned, target, copy, leave, prune>>

(* UpdateEvent ends by moving the event to the front of the retention      *)
(* index, whether or not it is still there; nothing is pruned.             *)
MoveToFront(r) ==
    /\ pc[r] = "sync"
    /\ leave[r] = {} /\ join[r] = {}
    /\ retention' = ToFront(retention, target[r])
    /\ Goto(r, "updated")
    /\ UNCHANGED <<events, extMap, scopeIndex, maxEvents, webhook, warned, target, copy, leave, join, prune>>

-----------------------------------------------------------------------------
(* Mutated: sets the mapping without comparing.                            *)
ClaimBlindly(r) ==
    /\ pc[r] = "claim"
    /\ extMap' = [extMap EXCEPT ![webhook[r].ext] = r]
    /\ Goto(r, "store")
    /\ UNCHANGED <<events, scopeIndex, retention, maxEvents, webhook, warned, target, copy, leave, join, prune>>

(* AddEvent claims the external ID with a compare-and-set from nothing.    *)
Claim(r) ==
    /\ pc[r] = "claim"
    /\ \/ /\ extMap[webhook[r].ext] = NoId
          /\ extMap' = [extMap EXCEPT ![webhook[r].ext] = r]
          /\ Goto(r, "store")
       \/ /\ extMap[webhook[r].ext] # NoId
          /\ Goto(r, "conflict")
          /\ UNCHANGED extMap
    /\ UNCHANGED <<events, scopeIndex, retention, maxEvents, webhook, warned, target, copy, leave, join, prune>>

Store(r) ==
    /\ pc[r] = "store"
    /\ events' = [events EXCEPT ![r] = [ext |-> webhook[r].ext, channels |-> webhook[r].channels]]
    /\ join' = [join EXCEPT ![r] = ScopeKeys(webhook[r].channels)]
    /\ Goto(r, "list")
    /\ UNCHANGED <<extMap, scopeIndex, retention, maxEvents, webhook, warned, target, copy, leave, prune>>

(* Mutated: takes the claim back on errors after the event is stored, too. *)
StoreOrListFails(r) ==
    /\ KVMayFail
    /\ pc[r] \in {"store", "list"}
    /\ Goto(r, IF webhook[r].ext = NoExt THEN "error" ELSE "unclaim")
    /\ UNCHANGED <<store, maxEvents, webhook, warned, target, copy, leave, join, prune>>

(* The KVSet failed: AddEvent takes its claim back.                        *)
StoreFails(r) ==
    /\ KVMayFail
    /\ pc[r] = "store"
    /\ Goto(r, IF webhook[r].ext = NoExt THEN "error" ELSE "unclaim")
    /\ UNCHANGED <<store, maxEvents, webhook, warned, target, copy, leave, join, prune>>

Unclaim(r) ==
    /\ pc[r] = "unclaim"
    /\ extMap' = [extMap EXCEPT ![webhook[r].ext] = NoId]
    /\ Goto(r, "error")
    /\ UNCHANGED <<events, scopeIndex, retention, maxEvents, webhook, warned, target, copy, leave, join, prune>>

(* Mutated: retains the event before it is listed everywhere.              *)
RetainEarly(r) ==
    /\ pc[r] = "list"
    /\ LET ids == ToFront(retention, r) IN
       /\ retention' = Kept(ids, maxEvents)
       /\ prune' = [prune EXCEPT ![r] = Dropped(ids, maxEvents)]
       /\ Goto(r, IF Len(ids) > maxEvents THEN "prune" ELSE "created")
    /\ UNCHANGED <<events, extMap, scopeIndex, maxEvents, webhook, warned, target, copy, leave, join>>

(* prependToTeamIndex truncates the retention index to the current limit.  *)
Retain(r) ==
    /\ pc[r] = "list"
    /\ join[r] = {}
    /\ LET ids == ToFront(retention, r) IN
       /\ retention' = Kept(ids, maxEvents)
       /\ prune' = [prune EXCEPT ![r] = Dropped(ids, maxEvents)]
       /\ Goto(r, IF Len(ids) > maxEvents THEN "prune" ELSE "created")
    /\ UNCHANGED <<events, extMap, scopeIndex, maxEvents, webhook, warned, target, copy, leave, join>>

(* Mutated: takes the event out of one of its scopes.                      *)
PruneGetOne(r) ==
    /\ pc[r] = "prune"
    /\ LET event == events[Head(prune[r])] IN
       /\ copy' = [copy EXCEPT ![r] = event]
       /\ leave' = [leave EXCEPT ![r] = IF event = Missing THEN {} ELSE {CHOOSE k \in ScopeKeys(event.channels) : TRUE}]
    /\ Goto(r, "unlist")
    /\ UNCHANGED <<store, maxEvents, webhook, warned, target, join, prune>>

(* pruneEvents, one ID after the other: read the event, take it out of the *)
(* scope indexes of the channels read, delete it.                          *)
PruneGet(r) ==
    /\ pc[r] = "prune"
    /\ LET event == events[Head(prune[r])] IN
       /\ copy' = [copy EXCEPT ![r] = event]
       /\ leave' = [leave EXCEPT ![r] = IF event = Missing THEN {} ELSE ScopeKeys(event.channels)]
    /\ Goto(r, "unlist")
    /\ UNCHANGED <<store, maxEvents, webhook, warned, target, join, prune>>

Unlist(r, k) ==
    /\ pc[r] = "unlist"
    /\ k \in leave[r]
    /\ scopeIndex' = [scopeIndex EXCEPT ![k] = @ \ {Head(prune[r])}]
    /\ leave' = [leave EXCEPT ![r] = @ \ {k}]
    /\ UNCHANGED <<events, extMap, retention, maxEvents, pc, webhook, warned, target, copy, join, prune>>

(* Mutated: does not advance in the list.                                  *)
SamePruned(r) ==
    /\ Goto(r, IF Len(prune[r]) > 0 THEN "prune" ELSE "created")
    /\ UNCHANGED prune

NextPruned(r) ==
    /\ prune' = [prune EXCEPT ![r] = Tail(@)]
    /\ Goto(r, IF Len(prune[r]) > 1 THEN "prune" ELSE "created")

(* Mutated: deletes without waiting for the scope indexes.                 *)
DeleteEarly(r) ==
    /\ pc[r] = "unlist"
    /\ events' = [events EXCEPT ![Head(prune[r])] = Missing]
    /\ NextPruned(r)
    /\ UNCHANGED <<extMap, scopeIndex, retention, maxEvents, webhook, warned, target, copy, leave, join>>

Delete(r) ==
    /\ pc[r] = "unlist"
    /\ leave[r] = {}
    /\ events' = [events EXCEPT ![Head(prune[r])] = Missing]
    /\ NextPruned(r)
    /\ UNCHANGED <<extMap, scopeIndex, retention, maxEvents, webhook, warned, target, copy, leave, join>>

-----------------------------------------------------------------------------
(* Errors.  Everything outside pruning reports the first one: an error of  *)
(* a KV call of its own ...                                                *)
RequestFails(r) ==
    /\ KVMayFail
    /\ pc[r] \in {"lookup", "get", "claim", "rewrite", "unclaim"}
    /\ Goto(r, "error")
    /\ UNCHANGED <<store, maxEvents, webhook, warned, target, copy, leave, join, prune>>

(* ... or of mutateIndex, for an error of its KV calls or because others   *)
(* changed the index each time.                                            *)
IndexFails(r) ==
    /\ pc[r] \in {"sync", "list"}
    /\ Goto(r, "error")
    /\ UNCHANGED <<store, maxEvents, webhook, warned, target, copy, leave, join, prune>>

(* pruneEvents logs errors: an event that cannot be read ...               *)
PruneGetFails(r) ==
    /\ KVMayFail
    /\ pc[r] = "prune"
    /\ leave' = [leave EXCEPT ![r] = {}]
    /\ Goto(r, "unlist")
    /\ warned' = warned \union {Head(prune[r])}
    /\ UNCHANGED <<store, maxEvents, webhook, target, copy, join, prune>>

(* ... or taken out of an index is deleted all the same, ...               *)
UnlistFails(r) ==
    /\ pc[r] = "unlist"
    /\ leave[r] # {}
    /\ leave' = [leave EXCEPT ![r] = {}]
    /\ warned' = warned \union {Head(prune[r])}
    /\ UNCHANGED <<store, maxEvents, pc, webhook, target, copy, join, prune>>

(* ... and one that cannot be deleted stays.                               *)
DeleteFails(r) ==
    /\ KVMayFail
    /\ pc[r] = "unlist"
    /\ leave[r] = {}
    /\ NextPruned(r)
    /\ warned' = warned \union {Head(prune[r])}
    /\ UNCHANGED <<store, maxEvents, webhook, target, copy, leave, join>>

Answered == {"created", "updated", "conflict", "forbidden", "error"}

Die(r) ==
    /\ NodesMayDie
    /\ pc[r] \notin Answered \union {"lost"}
    /\ Goto(r, "lost")
    /\ UNCHANGED <<store, maxEvents, webhook, warned, target, copy, leave, join, prune>>

(* OnConfigurationChange and handleUpdateWebhookTokens                     *)
SetMaxEvents(n) ==
    /\ maxEvents' = n
    /\ UNCHANGED <<store, pc, webhook, warned, target, copy, leave, join, prune>>

Step(r) ==
    \/ Lookup(r) \/ GetExisting(r) \/ Rewrite(r) \/ MoveToFront(r)
    \/ Claim(r) \/ Store(r) \/ Unclaim(r) \/ Retain(r) \/ PruneGet(r) \/ Delete(r)
    \/ \E k \in Scopes : Leave(r, k) \/ Join(r, k) \/ Unlist(r, k)

Fault(r) ==
    \/ StoreFails(r) \/ RequestFails(r) \/ IndexFails(r)
    \/ PruneGetFails(r) \/ UnlistFails(r) \/ DeleteFails(r)
    \/ Die(r)

Next ==
    \/ \E r \in Requests : Step(r) \/ Fault(r)
    \/ \E n \in Limits : SetMaxEvents(n)

(* A request runs in its own goroutine and holds no lock: as long as its   *)
(* process lives it is scheduled until it answers; nothing makes it fail.  *)
Spec == Init /\ [][Next]_vars /\ \A r \in Requests : WF_vars(Step(r))

-----------------------------------------------------------------------------
Places == Answered \union
    {"lost", "lookup", "get", "rewrite", "sync", "claim", "store", "unclaim",
     "list", "prune", "unlist"}

(* Type correctness of the store and of every request's local state.       *)
TypeOK ==
    /\ events \in [Requests -> Events \union {Missing}]
    /\ extMap \in [ExtIds -> Requests \union {NoId}]
    /\ scopeIndex \in [Scopes -> SUBSET Requests]
    /\ retention \in Seq(Requests)
    /\ maxEvents \in Limits
    /\ pc \in [Requests -> Places]
    /\ webhook \in [Requests -> Webhooks]
    /\ target \in [Requests -> Requests]
    /\ copy \in [Requests -> Events \union {Missing}]
    /\ leave \in [Requests -> SUBSET Scopes]
    /\ join \in [Requests -> SUBSET Scopes]
    /\ prune \in [Requests -> Seq(Requests)]
    /\ warned \subseteq Requests

Elements(ids) == {ids[i] : i \in DOMAIN ids}

Stored(id) == events[id] # Missing

ListedIn(id) == {k \in Scopes : id \in scopeIndex[k]}

Settled == \A r \in Requests : pc[r] \in Answered

(* Two stored events of the team never carry the same external ID, however *)
(* deliveries of it race, fail or die: the mapping is claimed before the   *)
(* event is stored and taken back only while it is not (store.go:367-413). *)
ExternalIdUnique ==
    \A i, j \in Requests :
        Stored(i) /\ Stored(j) /\ events[i].ext = events[j].ext /\ events[i].ext # NoExt => i = j

(* The mapping of a stored event leads back to it, so that the next        *)
(* delivery of its external ID finds it (store.go:317, 404).               *)
StoredIsMapped ==
    \A id \in Requests :
        Stored(id) /\ events[id].ext # NoExt => extMap[events[id].ext] = id

(* At most one delivery of an external ID is answered 201: a sender that   *)
(* retries or races never gets two items (api.go:381-394).                 *)
CreatedOnce ==
    \A r, s \in Requests :
        /\ pc[r] = "created" /\ pc[s] = "created"
        /\ webhook[r].ext = webhook[s].ext /\ webhook[r].ext # NoExt
        => r = s

(* Insertions keep the retention index within the largest limit in force;  *)
(* only an update of an event that was dropped meanwhile can put it over,  *)
(* by one event each (store.go:346-364, 538-553).                          *)
RetentionBounded ==
    \E n \in Limits :
        Len(retention) <= n + Cardinality({r \in Requests : pc[r] = "updated"})

(* Another delivery of its external ID found the event.                    *)
Updated(id) == \E r \in Requests \ {id} : target[r] = id

(* A retained event is visible: it is stored and listed in all its scopes  *)
(* and in no other, even if calls fail and nodes die (AddEvent's order:    *)
(* store, list, retain; store.go:382-399).  Updates can break it, but only *)
(* for the event they update.                                              *)
RetainedIsVisible ==
    \A id \in Elements(retention) :
        \/ Stored(id) /\ ListedIn(id) = ScopeKeys(events[id].channels)
        \/ Updated(id)

(* A feed that follows a listed ID finds the event, and in a scope it is   *)
(* meant for: an event is stored before it is listed and unlisted before   *)
(* it is deleted (store.go:367-402, 587-610).  Only updates of the event   *)
(* break it, and a pruning that failed, by KV errors or by contention      *)
(* alone, which leaves a line in the log.                                  *)
ListedIsStored ==
    \A id \in Requests, k \in Scopes :
        id \in scopeIndex[k] =>
            \/ Stored(id) /\ k \in ScopeKeys(events[id].channels)
            \/ Updated(id) \/ id \in warned

(* Once all requests have been answered, an event whose insertion was      *)
(* answered 201 is either retained, stored and listed in exactly its       *)
(* scopes, or pruned without trace; and an insertion that was not leaves   *)
(* nothing retained, and nothing stored unless it was answered with an     *)
(* error: one that fails after its KVSet leaves the event behind, in no    *)
(* retention index that would ever prune it (store.go:391-399, 525).  The  *)
(* exceptions are the same: updates, and prunings in the log.              *)
SettledIsConsistent ==
    Settled =>
        \A id \in Requests :
            \/ Updated(id) \/ id \in warned
            \/ /\ pc[id] = "created"
               /\ Stored(id) <=> id \in Elements(retention)
               /\ ListedIn(id) = IF Stored(id) THEN ScopeKeys(events[id].channels) ELSE {}
            \/ /\ pc[id] # "created"
               /\ id \notin Elements(retention)
               /\ Stored(id) => pc[id] = "error"

(* A mapping once made is never redirected to another event, and is taken  *)
(* back only for an event that was never stored (store.go:382-389).        *)
MappingKept ==
    [][\A x \in ExtIds :
         extMap[x] # NoId /\ extMap'[x] # extMap[x] => extMap'[x] = NoId /\ ~Stored(extMap[x])]_vars

(* Every request is answered, unless its node dies.                        *)
EveryRequestAnswered == \A r \in Requests : <>(pc[r] \in Answered \union {"lost"})

-----------------------------------------------------------------------------
(* README.md:132: "A later webhook with the same external_id updates the   *)
(* existing timeline item instead of creating a duplicate."  Later: every  *)
(* other request has been answered when it reads the item.                 *)
LaterWebhookAccepted ==
    [][\A r \in Requests :
         pc[r] = "get" /\ (\A s \in Requests \ {r} : pc[s] \in Answered) => pc'[r] # "error"]_vars
=============================================================================
