---------------------------- MODULE EventRecord ----------------------------
(***************************************************************************)
(* One event:<id> key of the plugin KV store, as reactions, webhook        *)
(* updates and pruning change it concurrently (server/reactions_store.go,  *)
(* server/reactions_api.go, UpdateEvent and pruneEvents in                 *)
(* server/store.go).  Reactions compare and set; updates read the record   *)
(* and set it later without comparing; pruning deletes it.                 *)
(*                                                                         *)
(* Of the record the model keeps which webhook wrote its text and time,    *)
(* the link URLs, and the users of one reaction icon in the order they     *)
(* reacted.  The indexes are EventStore's subject.                         *)
(***************************************************************************)
EXTENDS Naturals, Sequences, FiniteSets

CONSTANTS
    Requests,       \* concurrent HTTP requests and prunings
    Users,
    Links,          \* link URLs
    Ops,            \* what requests may do, records [kind, user, links]
    InitialRecords, \* what the key may hold at the start
    Original,       \* the webhook that created the event
    Missing,        \* the key holds nothing
    MaxRetries,     \* maxReactionRetries
    KVMayFail       \* whether a KV call may return an error

NoRepeats(s) == \A i, j \in DOMAIN s : s[i] = s[j] => i = j

Records == [text : Requests \union {Original}, links : SUBSET Links, users : Seq(Users)]

Kinds == {"add", "remove", "merge", "replace", "prune"}

ASSUME RequestsAssumption == IsFiniteSet(Requests)
ASSUME MaxRetriesAssumption == MaxRetries \in Nat \ {0}
ASSUME OpsAssumption ==
    \A o \in Ops : o.kind \in Kinds /\ o.user \in Users /\ o.links \subseteq Links
ASSUME InitialRecordsAssumption ==
    InitialRecords \subseteq {e \in Records : NoRepeats(e.users)}
ASSUME MissingAssumption == Missing \notin Records

VARIABLES
    record,     \* what the key holds
    op,         \* what each request does
    pc,         \* where it is
    copy,       \* the record it read last
    attempt,    \* the attempt a reaction is on, from 0
    sent        \* user lists published over the websocket, in no order

vars == <<record, op, pc, copy, attempt, sent>>

IsReaction(r) == op[r].kind \in {"add", "remove"}
IsUpdate(r) == op[r].kind \in {"merge", "replace"}

-----------------------------------------------------------------------------
Elements(s) == {s[i] : i \in DOMAIN s}

(* Mutated: does not look whether the user already reacted.                *)
AddedAlways(users, u) == Append(users, u)

Added(users, u) == IF u \in Elements(users) THEN users ELSE Append(users, u)

(* users without u, who is in it once (NoUserTwice below).                 *)
Dropped(users, u) ==
    IF u \in Elements(users)
    THEN LET at == CHOOSE i \in DOMAIN users : users[i] = u IN
         [i \in 1 .. Len(users) - 1 |-> IF i < at THEN users[i] ELSE users[i + 1]]
    ELSE users

(* What the callbacks of AddReaction and RemoveReaction make of a record.  *)
Reacted(o, e) ==
    [e EXCEPT !.users = IF o.kind = "add" THEN Added(@, o.user) ELSE Dropped(@, o.user)]

(* applyWebhookUpdate: text and time are the webhook's, links are merged   *)
(* by URL or replaced, reactions are those of the copy.                    *)
Updated(r, e) ==
    [text  |-> r,
     links |-> IF op[r].kind = "merge" THEN e.links \union op[r].links ELSE op[r].links,
     users |-> e.users]

-----------------------------------------------------------------------------
Goto(r, place) == pc' = [pc EXCEPT ![r] = place]

Start(o) ==
    CASE o.kind \in {"add", "remove"}    -> "authorize"
      [] o.kind \in {"merge", "replace"} -> "read"
      [] o.kind = "prune"                -> "delete"

Init ==
    /\ record \in InitialRecords
    /\ op \in [Requests -> Ops]
    /\ pc = [r \in Requests |-> Start(op[r])]
    /\ copy = [r \in Requests |-> Missing]
    /\ attempt = [r \in Requests |-> 0]
    /\ sent = {record.users}

(* prepareReactionRequest: reactions may be disabled, the event be gone or *)
(* the user not be a member.                                               *)
Authorize(r) ==
    /\ pc[r] = "authorize"
    /\ Goto(r, "refused") \/ (record # Missing /\ Goto(r, "get"))
    /\ UNCHANGED <<record, op, copy, attempt, sent>>

(* mutateReaction reads the record; a callback that changes nothing ends   *)
(* the loop.                                                               *)
Get(r) ==
    /\ pc[r] = "get"
    /\ \/ record = Missing /\ Goto(r, "error") /\ UNCHANGED copy
       \/ /\ record # Missing
          /\ copy' = [copy EXCEPT ![r] = record]
          /\ Goto(r, IF Reacted(op[r], record) = record THEN "publish" ELSE "cas")
    /\ UNCHANGED <<record, op, attempt, sent>>

(* Mutated: sets the record without comparing.                             *)
SetReaction(r) ==
    /\ pc[r] = "cas"
    /\ record' = Reacted(op[r], copy[r])
    /\ Goto(r, "publish")
    /\ UNCHANGED <<op, copy, attempt, sent>>

CompareAndSet(r) ==
    /\ pc[r] = "cas"
    /\ record = copy[r]
    /\ record' = Reacted(op[r], copy[r])
    /\ Goto(r, "publish")
    /\ UNCHANGED <<op, copy, attempt, sent>>

(* Mutated: compares again with the old copy, without counting.            *)
ConflictUncounted(r) ==
    /\ pc[r] = "cas"
    /\ record # copy[r]
    /\ UNCHANGED vars

(* Mutated: tries once too often.                                          *)
ConflictLate(r) ==
    /\ pc[r] = "cas"
    /\ record # copy[r]
    /\ attempt' = [attempt EXCEPT ![r] = @ + 1]
    /\ Goto(r, IF attempt[r] < MaxRetries THEN "get" ELSE "conflict")
    /\ UNCHANGED <<record, op, copy, sent>>

(* Mutated: gives up one attempt early.                                    *)
ConflictEarly(r) ==
    /\ pc[r] = "cas"
    /\ record # copy[r]
    /\ attempt' = [attempt EXCEPT ![r] = @ + 1]
    /\ Goto(r, IF attempt[r] + 2 < MaxRetries THEN "get" ELSE "conflict")
    /\ UNCHANGED <<record, op, copy, sent>>

Conflict(r) ==
    /\ pc[r] = "cas"
    /\ record # copy[r]
    /\ attempt' = [attempt EXCEPT ![r] = @ + 1]
    /\ Goto(r, IF attempt[r] + 1 < MaxRetries THEN "get" ELSE "conflict")
    /\ UNCHANGED <<record, op, copy, sent>>

(* Mutated: publishes the users as they were before the change.            *)
PublishStale(r) ==
    /\ pc[r] = "publish"
    /\ sent' = sent \union {copy[r].users}
    /\ Goto(r, "ok")
    /\ UNCHANGED <<record, op, copy, attempt>>

(* publishReactionUpdate, or publishTimelineEvent once an update is done.  *)
Publish(r) ==
    /\ pc[r] = "publish"
    /\ sent' = sent \union {IF IsReaction(r) THEN Reacted(op[r], copy[r]).users ELSE copy[r].users}
    /\ Goto(r, "ok")
    /\ UNCHANGED <<record, op, copy, attempt>>

(* storeWebhookEvent reads the event its external ID maps to ...           *)
Read(r) ==
    /\ pc[r] = "read"
    /\ copy' = [copy EXCEPT ![r] = record]
    /\ Goto(r, IF record = Missing THEN "error" ELSE "set")
    /\ UNCHANGED <<record, op, attempt, sent>>

(* ... and UpdateEvent sets the edited copy, whatever the key holds now.   *)
Set(r) ==
    /\ pc[r] = "set"
    /\ record' = Updated(r, copy[r])
    /\ Goto(r, "publish")
    /\ UNCHANGED <<op, copy, attempt, sent>>

(* pruneEvents                                                             *)
Delete(r) ==
    /\ pc[r] = "delete"
    /\ record' = Missing
    /\ Goto(r, "ok")
    /\ UNCHANGED <<op, copy, attempt, sent>>

(* A KV call fails: one of this key, or one of the index changes between   *)
(* an update's KVSet and its answer.                                       *)
KVError(r) ==
    /\ KVMayFail
    /\ \/ pc[r] \in {"authorize", "get", "cas", "read", "set", "delete"}
       \/ pc[r] = "publish" /\ IsUpdate(r)
    /\ Goto(r, "error")
    /\ UNCHANGED <<record, op, copy, attempt, sent>>

Step(r) ==
    \/ Authorize(r) \/ Get(r) \/ CompareAndSet(r) \/ Conflict(r)
    \/ Read(r) \/ Set(r) \/ Publish(r) \/ Delete(r)

Answered == {"ok", "refused", "conflict", "error"}

Settled == \A r \in Requests : pc[r] \in Answered

Next == (\E r \in Requests : Step(r) \/ KVError(r)) \/ (Settled /\ UNCHANGED vars)

(* Every request runs in a goroutine of its own and holds no lock; nothing *)
(* makes a KV call fail.                                                   *)
Spec == Init /\ [][Next]_vars /\ \A r \in Requests : WF_vars(Step(r))

-----------------------------------------------------------------------------
(* A request that has changed the record, or found nothing to change.      *)
Done(r) == pc[r] \in {"publish", "ok"}

HasChanged(r) == Done(r) /\ (IsReaction(r) => Reacted(op[r], copy[r]) # copy[r])

(* An update that may have set the record.                                 *)
SetByUpdate == \E r \in Requests : IsUpdate(r) /\ pc[r] \in {"publish", "ok", "error"}

Places == Answered \union {"authorize", "get", "cas", "read", "set", "publish", "delete"}

(* Type correctness; a reaction under way has an attempt left              *)
(* (reactions_store.go:66).                                                *)
TypeOK ==
    /\ record \in Records \union {Missing}
    /\ op \in [Requests -> Ops]
    /\ pc \in [Requests -> Places]
    /\ copy \in [Requests -> Records \union {Missing}]
    /\ attempt \in [Requests -> 0 .. MaxRetries]
    /\ sent \in SUBSET Seq(Users)
    /\ \A r \in Requests : pc[r] \in {"get", "cas"} => attempt[r] < MaxRetries

(* However the same user's clicks race, in two tabs or as a double click,  *)
(* the user counts once: the count of an icon is the length of its list    *)
(* (reactions_store.go:18-25).                                             *)
NoUserTwice == record # Missing => NoRepeats(record.users)

(* No reaction is lost or comes back among reactions: once an addition has *)
(* succeeded the user is listed, once a removal has, the user is not,      *)
(* unless a contrary request of the same user succeeded too.  Only a       *)
(* webhook update may undo it (ReactionSurvives below).                    *)
NoLostReaction ==
    record # Missing /\ ~SetByUpdate =>
        \A r \in Requests : Done(r) /\ IsReaction(r) =>
            \/ (op[r].kind = "add") <=> (op[r].user \in Elements(record.users))
            \/ \E s \in Requests : /\ Done(s) /\ IsReaction(s)
                                   /\ op[s].user = op[r].user /\ op[s].kind # op[r].kind

(* A reaction never undoes an update and never brings a pruned event back: *)
(* the text of the record changes, or the record returns, only when an     *)
(* update sets it (reactions_store.go:89, store.go:352).                   *)
OnlyUpdatesRewrite ==
    [][record' # Missing /\ (record = Missing \/ record'.text # record.text)
         => \E r \in Requests : IsUpdate(r) /\ pc[r] = "set" /\ record'.text = r]_vars

(* The list of users the record ends with was published, so that an open   *)
(* client can show it, whatever requests failed (reactions_api.go:23, 52;  *)
(* api.go:474), unless an update failed after it had set the record.       *)
EveryChangeIsPublished ==
    Settled /\ record # Missing =>
        record.users \in sent \/ \E r \in Requests : IsUpdate(r) /\ pc[r] = "error"

(* A reaction is rejected only under contention: MaxRetries other requests *)
(* must have changed the record during it (reactions_store.go:66, 98).     *)
RejectedOnlyUnderContention ==
    \A r \in Requests : pc[r] = "conflict" =>
        Cardinality({s \in Requests \ {r} : HasChanged(s) \/ pc[s] = "error"}) >= MaxRetries

(* Every request is answered: a reaction cannot retry for ever, however    *)
(* many others change the record (reactions_store.go:66, 98).              *)
EveryRequestAnswered == \A r \in Requests : <>(pc[r] \in Answered)

-----------------------------------------------------------------------------
(* reactions_store.go:10: "AddReaction adds a user's reaction to an event  *)
(* using KVCompareAndSet for concurrency safety."  An addition answered    *)
(* without error is still there unless it was removed or the event pruned. *)
ReactionSurvives ==
    Settled /\ record # Missing =>
        \A r \in Requests : pc[r] = "ok" /\ op[r].kind = "add" =>
            \/ op[r].user \in Elements(record.users)
            \/ \E s \in Requests : op[s].kind = "remove" /\ op[s].user = op[r].user
=============================================================================
