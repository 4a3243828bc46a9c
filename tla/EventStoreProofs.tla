-------------------------- MODULE EventStoreProofs --------------------------
(***************************************************************************)
(* What holds of the event store for every number of requests, channels    *)
(* and external IDs, with KV errors and dying nodes.                       *)
(***************************************************************************)
EXTENDS EventStore, SequenceTheorems, FiniteSetTheorems, TLAPS

USE LimitsAssumption, WebhooksAssumption, NamesAssumption

NoRepeats(ids) == \A i, j \in DOMAIN ids : ids[i] = ids[j] => i = j

(* Moving to the front keeps a list of requests one, and adds no repeat.   *)
LEMMA ToFrontType ==
    ASSUME NEW ids \in Seq(Requests), NEW id \in Requests
    PROVE  ToFront(ids, id) \in Seq(Requests)
  BY DEF ToFront

LEMMA ToFrontNoRepeats ==
    ASSUME NEW ids \in Seq(Requests), NEW id \in Requests, NoRepeats(ids)
    PROVE  NoRepeats(ToFront(ids, id))
  <1>1. CASE \E i \in DOMAIN ids : ids[i] = id
    <2> DEFINE at == CHOOSE i \in DOMAIN ids : ids[i] = id
    <2>1. at \in 1 .. Len(ids) /\ ids[at] = id
      BY <1>1
    <2>2. ToFront(ids, id) = [i \in 1 .. Len(ids) |->
                                IF i = 1 THEN id ELSE IF i <= at THEN ids[i - 1] ELSE ids[i]]
      BY <1>1 DEF ToFront
    <2> HIDE DEF at
    <2>3. QED
      BY <2>1, <2>2 DEF NoRepeats
  <1>2. CASE ~ \E i \in DOMAIN ids : ids[i] = id
    <2>1. ToFront(ids, id) = [i \in 1 .. Len(ids) + 1 |-> IF i = 1 THEN id ELSE ids[i - 1]]
      BY <1>2, Zenon DEF ToFront
    <2>2. \A i \in 1 .. Len(ids) : ids[i] # id
      BY <1>2
    <2>3. QED
      BY <2>1, <2>2 DEF NoRepeats
  <1>3. QED
    BY <1>1, <1>2

LEMMA KeptType ==
    ASSUME NEW ids \in Seq(Requests), NEW n \in Nat
    PROVE  Kept(ids, n) \in Seq(Requests)
  BY DEF Kept

LEMMA KeptNoRepeats ==
    ASSUME NEW ids \in Seq(Requests), NEW n \in Nat, NoRepeats(ids)
    PROVE  NoRepeats(Kept(ids, n))
  BY DEF Kept, NoRepeats

LEMMA DroppedType ==
    ASSUME NEW ids \in Seq(Requests), NEW n \in Nat
    PROVE  /\ Dropped(ids, n) \in Seq(Requests)
           /\ Len(ids) > n => Dropped(ids, n) # << >>
  <1>1. Dropped(ids, n) \in Seq(Requests)
    BY DEF Dropped
  <1>2. Len(ids) > n => Len(Dropped(ids, n)) = Len(ids) - n
    BY DEF Dropped
  <1>3. QED
    BY <1>1, <1>2

LEMMA TailType ==
    ASSUME NEW ids \in Seq(Requests), ids # << >>
    PROVE  /\ Tail(ids) \in Seq(Requests)
           /\ Len(ids) > 1 => Tail(ids) # << >>
  <1>1. Tail(ids) \in Seq(Requests) /\ Len(Tail(ids)) = Len(ids) - 1
    BY HeadTailProperties
  <1>2. Len(ids) \in Nat
    BY LenProperties
  <1>3. Len(ids) > 1 => Len(Tail(ids)) # 0
    BY <1>1, <1>2
  <1>4. QED
    BY <1>1, <1>3

-----------------------------------------------------------------------------
(* What a request holds at each place, as far as types depend on it.       *)
LocalInv ==
    \A r \in Requests :
        /\ pc[r] \in {"lookup", "claim", "unclaim"} => webhook[r].ext # NoExt
        /\ pc[r] = "rewrite" => copy[r] # Missing
        /\ pc[r] \in {"prune", "unlist"} => prune[r] # << >>

TypeInv == TypeOK /\ LocalInv

LEMMA InitTypeInv == Init => TypeInv
  BY DEF Init, TypeInv, TypeOK, LocalInv, Places, Answered

(* Pruning goes on exactly as long as the list is not empty.               *)
LEMMA NextPrunedType ==
    ASSUME TypeInv, NEW r \in Requests, pc[r] = "unlist", NextPruned(r)
    PROVE  /\ prune' \in [Requests -> Seq(Requests)]
           /\ pc' \in [Requests -> Places]
           /\ pc'[r] = "prune" => prune'[r] # << >>
           /\ pc'[r] \in {"prune", "created"}
           /\ \A s \in Requests \ {r} : pc'[s] = pc[s] /\ prune'[s] = prune[s]
  <1>1. prune[r] \in Seq(Requests) /\ prune[r] # << >>
    BY DEF TypeInv, TypeOK, LocalInv
  <1>2. Tail(prune[r]) \in Seq(Requests) /\ (Len(prune[r]) > 1 => Tail(prune[r]) # << >>)
    BY <1>1, TailType
  <1>3. QED
    BY <1>2 DEF TypeInv, TypeOK, NextPruned, Goto, Places, Answered

LEMMA StepTypeInv == TypeInv /\ [Next]_vars => TypeInv'
  <1> SUFFICES ASSUME TypeInv, [Next]_vars PROVE TypeInv'
    OBVIOUS
  <1> USE DEF TypeInv, TypeOK, LocalInv, Places, Answered, Goto, store
  <1>1. ASSUME NEW r \in Requests, Lookup(r) PROVE TypeInv'
    BY ZenonT(40), <1>1 DEF Lookup
  <1>2. ASSUME NEW r \in Requests, GetExisting(r) PROVE TypeInv'
    BY <1>2 DEF GetExisting
  <1>3. ASSUME NEW r \in Requests, Rewrite(r) PROVE TypeInv'
    BY <1>3 DEF Rewrite, Scopes, ScopeKeys, Events
  <1>4. ASSUME NEW r \in Requests, MoveToFront(r) PROVE TypeInv'
    BY <1>4, ToFrontType DEF MoveToFront
  <1>5. ASSUME NEW r \in Requests, Claim(r) PROVE TypeInv'
    <2>1. webhook[r].ext \in ExtIds
      BY <1>5 DEF Claim
    <2>2. CASE extMap[webhook[r].ext] = NoId
      <3>1. extMap' = [extMap EXCEPT ![webhook[r].ext] = r] /\ pc' = [pc EXCEPT ![r] = "store"]
        BY <1>5, <2>2 DEF Claim
      <3>2. UNCHANGED <<events, scopeIndex, retention, maxEvents, webhook, warned, target, copy, leave, join, prune>>
        BY <1>5 DEF Claim
      <3>3. QED
        BY <2>1, <3>1, <3>2
    <2>3. CASE extMap[webhook[r].ext] # NoId
      <3>1. UNCHANGED extMap /\ pc' = [pc EXCEPT ![r] = "conflict"]
        BY <1>5, <2>3 DEF Claim
      <3>2. UNCHANGED <<events, scopeIndex, retention, maxEvents, webhook, warned, target, copy, leave, join, prune>>
        BY <1>5 DEF Claim
      <3>3. QED
        BY <3>1, <3>2
    <2>4. QED
      BY <2>2, <2>3
  <1>6. ASSUME NEW r \in Requests, Store(r) PROVE TypeInv'
    BY <1>6 DEF Store, Scopes, ScopeKeys, Events
  <1>7. ASSUME NEW r \in Requests, StoreFails(r) PROVE TypeInv'
    BY <1>7 DEF StoreFails
  <1>8. ASSUME NEW r \in Requests, Unclaim(r) PROVE TypeInv'
    BY <1>8 DEF Unclaim
  <1>9. ASSUME NEW r \in Requests, Retain(r) PROVE TypeInv'
    <2> DEFINE ids == ToFront(retention, r)
    <2>1. ids \in Seq(Requests) /\ maxEvents \in Nat
      BY ToFrontType
    <2>2. /\ retention' = Kept(ids, maxEvents)
          /\ prune' = [prune EXCEPT ![r] = Dropped(ids, maxEvents)]
          /\ pc' = [pc EXCEPT ![r] = IF Len(ids) > maxEvents THEN "prune" ELSE "created"]
          /\ UNCHANGED <<events, extMap, scopeIndex, maxEvents, webhook, warned, target, copy, leave, join>>
      BY <1>9 DEF Retain
    <2> HIDE DEF ids
    <2>3. /\ Kept(ids, maxEvents) \in Seq(Requests)
          /\ Dropped(ids, maxEvents) \in Seq(Requests)
          /\ Len(ids) > maxEvents => Dropped(ids, maxEvents) # << >>
      BY <2>1, KeptType, DroppedType
    <2>4. QED
      BY <2>2, <2>3
  <1>10. ASSUME NEW r \in Requests, PruneGet(r) PROVE TypeInv'
    BY <1>10 DEF PruneGet, Scopes, ScopeKeys, Events
  <1>11. ASSUME NEW r \in Requests, Delete(r) PROVE TypeInv'
    <2>1. /\ prune' \in [Requests -> Seq(Requests)]
          /\ pc' \in [Requests -> Places]
          /\ pc'[r] = "prune" => prune'[r] # << >>
          /\ pc'[r] \in {"prune", "created"}
          /\ \A s \in Requests \ {r} : pc'[s] = pc[s] /\ prune'[s] = prune[s]
      BY <1>11, NextPrunedType DEF Delete
    <2>2. /\ events' = [events EXCEPT ![Head(prune[r])] = Missing]
          /\ UNCHANGED <<extMap, scopeIndex, retention, maxEvents, webhook, warned, target, copy, leave, join>>
      BY <1>11 DEF Delete
    <2>3. TypeOK'
      BY <2>1, <2>2
    <2>4. LocalInv'
      BY <2>1, <2>2
    <2>5. QED
      BY <2>3, <2>4
  <1>12. ASSUME NEW r \in Requests, RequestFails(r) \/ IndexFails(r) PROVE TypeInv'
    <2>1. /\ pc' = [pc EXCEPT ![r] = "error"]
          /\ UNCHANGED <<store, maxEvents, webhook, warned, target, copy, leave, join, prune>>
      BY <1>12 DEF RequestFails, IndexFails
    <2>2. TypeOK'
      BY <2>1
    <2>3. LocalInv'
      BY <2>1
    <2> QED
      BY <2>2, <2>3
  <1>13. ASSUME NEW r \in Requests, PruneGetFails(r) \/ UnlistFails(r) \/ DeleteFails(r) PROVE TypeInv'
    <2>1. Head(prune[r]) \in Requests
      <3>1. prune[r] \in Seq(Requests) /\ prune[r] # << >>
        BY <1>13 DEF PruneGetFails, UnlistFails, DeleteFails
      <3>2. QED
        BY <3>1, HeadTailProperties
    <2>2. CASE DeleteFails(r)
      BY <2>1, <2>2, NextPrunedType DEF DeleteFails
    <2>3. CASE PruneGetFails(r)
      BY ZenonT(40), <2>1, <2>3 DEF PruneGetFails
    <2>4. CASE UnlistFails(r)
      BY ZenonT(40), <2>1, <2>4 DEF UnlistFails
    <2>5. QED
      BY <1>13, <2>2, <2>3, <2>4
  <1>14. ASSUME NEW r \in Requests, Die(r) PROVE TypeInv'
    BY <1>14 DEF Die
  <1>15. ASSUME NEW r \in Requests, NEW k \in Scopes, Leave(r, k) PROVE TypeInv'
    BY <1>15 DEF Leave
  <1>16. ASSUME NEW r \in Requests, NEW k \in Scopes, Join(r, k) PROVE TypeInv'
    BY <1>16 DEF Join
  <1>17. ASSUME NEW r \in Requests, NEW k \in Scopes, Unlist(r, k) PROVE TypeInv'
    BY <1>17 DEF Unlist
  <1>18. ASSUME NEW m \in Limits, SetMaxEvents(m) PROVE TypeInv'
    BY <1>18 DEF SetMaxEvents
  <1>19. CASE UNCHANGED vars
    BY <1>19 DEF vars
  <1>20. QED
    BY <1>1, <1>2, <1>3, <1>4, <1>5, <1>6, <1>7, <1>8, <1>9, <1>10, <1>11, <1>12, <1>13, <1>14, <1>15, <1>16, <1>17, <1>18, <1>19 DEF Next, Step, Fault

(* TypeOK is inductive once LocalInv is added to it.                       *)
THEOREM TypeCorrect == Spec => []TypeOK
  <1>1. TypeInv => TypeOK
    BY DEF TypeInv
  <1>2. QED
    BY <1>1, InitTypeInv, StepTypeInv, PTL DEF Spec

LEMMA TypeInvariance == Spec => []TypeInv
  BY InitTypeInv, StepTypeInv, PTL DEF Spec

-----------------------------------------------------------------------------
(* The argument for external IDs.  A request that holds a claim owns the   *)
(* mapping from Claim on; a stored event was stored by its own request,    *)
(* which then never takes the claim back; and a request about to rewrite   *)
(* an event read it when it was stored, so that the mapping still leads to *)
(* it although the event may have been pruned since.                       *)
Holding == {"store", "unclaim", "list", "prune", "unlist", "created"}
HasStored == {"list", "prune", "unlist", "created", "error", "lost"}

ClaimInv ==
    \A r \in Requests :
        pc[r] \in Holding /\ webhook[r].ext # NoExt => extMap[webhook[r].ext] = r

OwnInv(id, event) ==
    /\ pc[id] \in HasStored
    /\ event.ext = webhook[id].ext
    /\ event.ext # NoExt => extMap[event.ext] = id

StoredInv == \A id \in Requests : Stored(id) => OwnInv(id, events[id])

RewriteInv == \A r \in Requests : pc[r] = "rewrite" => OwnInv(target[r], copy[r])

MappingInv == ClaimInv /\ StoredInv /\ RewriteInv

LEMMA InitMappingInv == Init => MappingInv
  BY DEF Init, MappingInv, ClaimInv, StoredInv, RewriteInv, Holding, Stored

LEMMA StepMappingInv == TypeInv /\ MappingInv /\ [Next]_vars => MappingInv'
  <1> SUFFICES ASSUME TypeInv, MappingInv, [Next]_vars PROVE MappingInv'
    OBVIOUS
  <1> USE DEF TypeInv, TypeOK, LocalInv, MappingInv, ClaimInv, StoredInv, RewriteInv, OwnInv,
              Holding, HasStored, Stored, Goto, store
  <1>1. ASSUME NEW r \in Requests, Lookup(r) PROVE MappingInv'
    <2>1. /\ UNCHANGED <<events, extMap, webhook, copy>>
          /\ \A s \in Requests \ {r} : pc'[s] = pc[s]
          /\ pc[r] = "lookup" /\ pc'[r] \in {"claim", "get"}
          /\ \A s \in Requests \ {r} : target'[s] = target[s]
      BY <1>1 DEF Lookup
    <2>2. ClaimInv'
      BY <2>1
    <2>3. StoredInv'
      BY <2>1
    <2>4. RewriteInv'
      <3>1. \A s \in Requests : pc'[s] = "rewrite" => s # r /\ pc[s] = "rewrite"
        BY <2>1
      <3>2. \A s \in Requests : pc[s] \in HasStored => pc'[s] \in HasStored
        BY <2>1
      <3>3. QED
        BY <2>1, <3>1, <3>2
    <2>5. QED
      BY <2>2, <2>3, <2>4
  <1>2. ASSUME NEW r \in Requests, GetExisting(r) PROVE MappingInv'
    BY <1>2 DEF GetExisting
  <1>3. ASSUME NEW r \in Requests, Rewrite(r) PROVE MappingInv'
    BY <1>3 DEF Rewrite
  <1>4. ASSUME NEW r \in Requests, MoveToFront(r) PROVE MappingInv'
    BY <1>4 DEF MoveToFront
  <1>5. ASSUME NEW r \in Requests, Claim(r) PROVE MappingInv'
    <2>1. webhook[r].ext \in ExtIds
      BY <1>5 DEF Claim
    <2>2. UNCHANGED <<events, webhook, copy, target>>
      BY <1>5 DEF Claim
    <2>3. CASE extMap[webhook[r].ext] = NoId
      <3>1. extMap' = [extMap EXCEPT ![webhook[r].ext] = r] /\ pc' = [pc EXCEPT ![r] = "store"]
        BY <1>5, <2>3 DEF Claim
      <3>2. \A s \in Requests : extMap[webhook[r].ext] # s
        BY <2>3
      <3>3. QED
        BY <1>5, <2>1, <2>2, <3>1, <3>2 DEF Claim
    <2>4. CASE extMap[webhook[r].ext] # NoId
      <3>1. UNCHANGED extMap /\ pc' = [pc EXCEPT ![r] = "conflict"]
        BY <1>5, <2>4 DEF Claim
      <3>2. QED
        BY <1>5, <2>2, <3>1 DEF Claim
    <2>5. QED
      BY <2>3, <2>4
  <1>6. ASSUME NEW r \in Requests, Store(r) PROVE MappingInv'
    BY <1>6 DEF Store
  <1>7. ASSUME NEW r \in Requests, StoreFails(r) PROVE MappingInv'
    BY <1>7 DEF StoreFails
  <1>8. ASSUME NEW r \in Requests, Unclaim(r) PROVE MappingInv'
    BY <1>8 DEF Unclaim
  <1>9. ASSUME NEW r \in Requests, Retain(r) PROVE MappingInv'
    BY <1>9 DEF Retain
  <1>10. ASSUME NEW r \in Requests, PruneGet(r) PROVE MappingInv'
    BY <1>10 DEF PruneGet
  <1>11. ASSUME NEW r \in Requests, Delete(r) PROVE MappingInv'
    <2>1. /\ \A s \in Requests \ {r} : pc'[s] = pc[s]
          /\ pc[r] = "unlist" /\ pc'[r] \in {"prune", "created"}
          /\ events' = [events EXCEPT ![Head(prune[r])] = Missing]
          /\ UNCHANGED <<extMap, webhook, copy, target>>
      BY <1>11 DEF Delete, NextPruned
    <2>2. ClaimInv'
      BY <2>1
    <2>3. StoredInv'
      BY ZenonT(40), <2>1
    <2>4. RewriteInv'
      <3>1. \A s \in Requests : pc'[s] = "rewrite" => s # r /\ pc[s] = "rewrite"
        BY <2>1
      <3>2. \A s \in Requests : pc[s] \in HasStored => pc'[s] \in HasStored
        BY <2>1
      <3>3. QED
        BY <2>1, <3>1, <3>2
    <2>5. QED
      BY <2>2, <2>3, <2>4
  <1>12. ASSUME NEW r \in Requests, RequestFails(r) \/ IndexFails(r) PROVE MappingInv'
    <2>1. CASE RequestFails(r)
      BY <2>1 DEF RequestFails
    <2>2. CASE IndexFails(r)
      BY <2>2 DEF IndexFails
    <2>3. QED
      BY <1>12, <2>1, <2>2
  <1>13. ASSUME NEW r \in Requests, PruneGetFails(r) \/ UnlistFails(r) \/ DeleteFails(r) PROVE MappingInv'
    <2>1. /\ \A s \in Requests \ {r} : pc'[s] = pc[s]
          /\ pc[r] \in {"prune", "unlist"} /\ pc'[r] \in {"prune", "unlist", "created"}
          /\ UNCHANGED <<events, extMap, webhook, copy, target>>
      BY <1>13 DEF PruneGetFails, UnlistFails, DeleteFails, NextPruned
    <2>2. ClaimInv'
      BY <2>1
    <2>3. StoredInv'
      BY <2>1
    <2>4. RewriteInv'
      <3>1. \A s \in Requests : pc'[s] = "rewrite" => s # r /\ pc[s] = "rewrite"
        BY <2>1
      <3>2. \A s \in Requests : pc[s] \in HasStored => pc'[s] \in HasStored
        BY <2>1
      <3>3. QED
        BY <2>1, <3>1, <3>2
    <2>5. QED
      BY <2>2, <2>3, <2>4
  <1>14. ASSUME NEW r \in Requests, Die(r) PROVE MappingInv'
    BY <1>14 DEF Die, Answered
  <1>15. ASSUME NEW r \in Requests, NEW k \in Scopes, Leave(r, k) PROVE MappingInv'
    BY <1>15 DEF Leave
  <1>16. ASSUME NEW r \in Requests, NEW k \in Scopes, Join(r, k) PROVE MappingInv'
    BY <1>16 DEF Join
  <1>17. ASSUME NEW r \in Requests, NEW k \in Scopes, Unlist(r, k) PROVE MappingInv'
    BY <1>17 DEF Unlist
  <1>18. ASSUME NEW m \in Limits, SetMaxEvents(m) PROVE MappingInv'
    BY <1>18 DEF SetMaxEvents
  <1>19. CASE UNCHANGED vars
    BY <1>19 DEF vars
  <1>20. QED
    BY <1>1, <1>2, <1>3, <1>4, <1>5, <1>6, <1>7, <1>8, <1>9, <1>10, <1>11, <1>12, <1>13, <1>14, <1>15, <1>16, <1>17, <1>18, <1>19 DEF Next, Step, Fault

LEMMA MappingInvariance == Spec => []MappingInv
  BY TypeInvariance, InitMappingInv, StepMappingInv, PTL DEF Spec

(* The next delivery of the external ID of a stored event finds the event. *)
THEOREM StoredMapped == Spec => []StoredIsMapped
  <1>1. MappingInv => StoredIsMapped
    BY DEF MappingInv, StoredInv, OwnInv, StoredIsMapped
  <1>2. QED
    BY <1>1, MappingInvariance, PTL

(* No two stored events carry the same external ID.                        *)
THEOREM UniqueExternalId == Spec => []ExternalIdUnique
  <1>1. MappingInv => ExternalIdUnique
    BY DEF MappingInv, StoredInv, OwnInv, ExternalIdUnique
  <1>2. QED
    BY <1>1, MappingInvariance, PTL

(* No two deliveries of an external ID are both answered 201.              *)
THEOREM OneCreation == Spec => []CreatedOnce
  <1>1. MappingInv => CreatedOnce
    BY DEF MappingInv, ClaimInv, Holding, CreatedOnce
  <1>2. QED
    BY <1>1, MappingInvariance, PTL

(* A claimed mapping is never redirected, and is taken back only while its *)
(* event has never been stored.                                            *)
THEOREM MappingIsKept == Spec => MappingKept
  <1> DEFINE Keep == \A x \in ExtIds :
                       extMap[x] # NoId /\ extMap'[x] # extMap[x] => extMap'[x] = NoId /\ ~Stored(extMap[x])
  <1>1. TypeInv /\ MappingInv /\ [Next]_vars => Keep \/ UNCHANGED vars
    <2> SUFFICES ASSUME TypeInv, MappingInv, Next PROVE Keep
      BY DEF vars
    <2>1. CASE \E r \in Requests : Claim(r)
      BY <2>1 DEF Claim, TypeInv, TypeOK
    <2>2. CASE \E r \in Requests : Unclaim(r)
      <3>1. PICK r \in Requests : Unclaim(r)
        BY <2>2
      <3>2. extMap[webhook[r].ext] = r /\ ~Stored(r)
        BY <3>1 DEF Unclaim, TypeInv, LocalInv, MappingInv, ClaimInv, StoredInv, OwnInv, Holding, HasStored
      <3>3. QED
        BY <3>1, <3>2 DEF Unclaim, TypeInv, TypeOK
    <2>3. CASE UNCHANGED extMap
      BY <2>3
    <2>4. QED
      BY ZenonT(40), <2>1, <2>2, <2>3 DEF Next, Step, Fault, Lookup, GetExisting, Rewrite, MoveToFront, Store, StoreFails, Retain,
         PruneGet, Delete, RequestFails, IndexFails, PruneGetFails, UnlistFails, DeleteFails, Die, Leave, Join, Unlist, SetMaxEvents, store
  <1>2. QED
    BY <1>1, TypeInvariance, MappingInvariance, PTL DEF MappingKept, Spec

-----------------------------------------------------------------------------
(* The retention index is only ever changed by moving one ID to its front  *)
(* and by cutting off its tail, neither of which repeats an ID.            *)
LEMMA NoDuplicates == Spec => []NoRepeats(retention)
  <1>1. Init => NoRepeats(retention)
    BY DEF Init, NoRepeats
  <1>2. TypeInv /\ NoRepeats(retention) /\ [Next]_vars => NoRepeats(retention)'
    <2> SUFFICES ASSUME TypeInv, NoRepeats(retention), [Next]_vars PROVE NoRepeats(retention)'
      OBVIOUS
    <2>1. CASE \E r \in Requests : MoveToFront(r)
      <3>1. PICK r \in Requests : MoveToFront(r)
        BY <2>1
      <3>2. retention' = ToFront(retention, target[r]) /\ target[r] \in Requests /\ retention \in Seq(Requests)
        BY <3>1 DEF MoveToFront, TypeInv, TypeOK
      <3>3. QED
        BY <3>2, ToFrontNoRepeats
    <2>2. CASE \E r \in Requests : Retain(r)
      <3>1. PICK r \in Requests : Retain(r)
        BY <2>2
      <3> DEFINE ids == ToFront(retention, r)
      <3>2. retention' = Kept(ids, maxEvents) /\ retention \in Seq(Requests) /\ maxEvents \in Nat
        BY <3>1 DEF Retain, TypeInv, TypeOK
      <3>3. ids \in Seq(Requests) /\ NoRepeats(ids)
        BY <3>2, ToFrontType, ToFrontNoRepeats
      <3> HIDE DEF ids
      <3>4. QED
        BY <3>2, <3>3, KeptNoRepeats
    <2>3. CASE UNCHANGED retention
      BY <2>3
    <2>4. QED
      BY ZenonT(40), <2>1, <2>2, <2>3 DEF Next, Step, Fault, Lookup, GetExisting, Rewrite, Claim, Store, StoreFails, Unclaim,
         PruneGet, Delete, RequestFails, IndexFails, PruneGetFails, UnlistFails, DeleteFails, Die, Leave, Join, Unlist, SetMaxEvents, store, vars
  <1>3. QED
    BY <1>1, <1>2, TypeInvariance, PTL DEF Spec

-----------------------------------------------------------------------------
(* Insertions cut the retention index off at the limit; an update adds at  *)
(* most one ID, and is then counted as updated for good (store.go:346-364, *)
(* 538-553).                                                               *)
Updaters == {r \in Requests : pc[r] = "updated"}

LEMMA UpdatersCounted == IsFiniteSet(Updaters) /\ Cardinality(Updaters) \in Nat
BY RequestsAssumption, FS_Subset, FS_CardinalityType DEF Updaters

LEMMA ToFrontLength ==
    ASSUME NEW ids \in Seq(Requests), NEW id \in Requests
    PROVE  Len(ToFront(ids, id)) \in Nat /\ Len(ToFront(ids, id)) <= Len(ids) + 1
  BY DEF ToFront

LEMMA KeptLength ==
    ASSUME NEW ids \in Seq(Requests), NEW n \in Nat
    PROVE  Len(Kept(ids, n)) <= n
  BY DEF Kept

LEMMA BoundKept ==
    ASSUME TypeInv, RetentionBounded, UNCHANGED retention, Updaters \subseteq Updaters',
           IsFiniteSet(Updaters')
    PROVE  RetentionBounded'
  <1>1. PICK n \in Limits : Len(retention) <= n + Cardinality(Updaters)
    BY DEF RetentionBounded, Updaters
  <1>2. Cardinality(Updaters) <= Cardinality(Updaters') /\ Cardinality(Updaters') \in Nat
    BY FS_Subset, FS_CardinalityType
  <1>3. Len(retention) \in Nat /\ n \in Nat
    BY LimitsAssumption DEF TypeInv, TypeOK
  <1>4. Len(retention') <= n + Cardinality(Updaters')
    BY <1>1, <1>2, <1>3, UpdatersCounted
  <1>5. QED
    BY <1>4 DEF RetentionBounded, Updaters

LEMMA BoundStep == TypeInv /\ RetentionBounded /\ [Next]_vars => RetentionBounded'
  <1> SUFFICES ASSUME TypeInv, RetentionBounded, [Next]_vars PROVE RetentionBounded'
    OBVIOUS
  <1>1. IsFiniteSet(Updaters') /\ Cardinality(Updaters') \in Nat
    BY RequestsAssumption, FS_Subset, FS_CardinalityType DEF Updaters
  <1>2. CASE \E r \in Requests : MoveToFront(r)
    <2>1. PICK r \in Requests : MoveToFront(r)
      BY <1>2
    <2>2. /\ retention' = ToFront(retention, target[r])
          /\ retention \in Seq(Requests) /\ target[r] \in Requests
          /\ r \notin Updaters /\ Updaters' = Updaters \union {r}
      BY <2>1 DEF MoveToFront, Goto, TypeInv, TypeOK, Updaters
    <2>3. Cardinality(Updaters') = Cardinality(Updaters) + 1
      BY <2>2, UpdatersCounted, FS_AddElement
    <2>4. PICK n \in Limits : Len(retention) <= n + Cardinality(Updaters)
      BY DEF RetentionBounded, Updaters
    <2>5. Len(retention') \in Nat /\ Len(retention') <= Len(retention) + 1 /\ Len(retention) \in Nat
      BY <2>2, ToFrontLength
    <2>6. Len(retention') <= n + Cardinality(Updaters')
      BY <2>3, <2>4, <2>5, LimitsAssumption, UpdatersCounted
    <2>7. QED
      BY <2>6 DEF RetentionBounded, Updaters
  <1>3. CASE \E r \in Requests : Retain(r)
    <2>1. PICK r \in Requests : Retain(r)
      BY <1>3
    <2>2. retention' = Kept(ToFront(retention, r), maxEvents) /\ maxEvents \in Limits
      BY <2>1 DEF Retain, TypeInv, TypeOK
    <2>3. ToFront(retention, r) \in Seq(Requests)
      BY ToFrontType DEF TypeInv, TypeOK
    <2>4. Len(retention') <= maxEvents /\ Len(retention') \in Nat
      BY <2>2, <2>3, KeptLength, KeptType, LenProperties, LimitsAssumption
    <2>5. Len(retention') <= maxEvents + Cardinality(Updaters')
      BY <1>1, <2>2, <2>4, LimitsAssumption
    <2>6. QED
      BY <2>2, <2>5 DEF RetentionBounded, Updaters
  <1>4. CASE ~ \E r \in Requests : MoveToFront(r) \/ Retain(r)
    <2>1. UNCHANGED retention
      BY ZenonT(40), <1>4 DEF Next, Step, Fault, Lookup, GetExisting, Rewrite, Claim, Store, StoreFails, Unclaim,
         PruneGet, Delete, RequestFails, IndexFails, PruneGetFails, UnlistFails, DeleteFails, Die, Leave, Join, Unlist, SetMaxEvents, store, vars
    <2>2. Updaters \subseteq Updaters'
      <3>1. ASSUME NEW s \in Requests, pc[s] = "updated" PROVE pc'[s] = "updated"
        <4>1. UNCHANGED pc \/ \E r \in Requests : pc[r] # "updated" /\ \E place : pc' = [pc EXCEPT ![r] = place]
          <5> USE DEF Goto
          <5>1. ASSUME NEW r \in Requests, Step(r)
                PROVE  UNCHANGED pc \/ (pc[r] # "updated" /\ \E place : pc' = [pc EXCEPT ![r] = place])
            BY <5>1 DEF Step, Lookup, GetExisting, Rewrite, MoveToFront, Claim, Store, Unclaim, Retain,
               PruneGet, Delete, NextPruned, Leave, Join, Unlist
          <5>2. ASSUME NEW r \in Requests, Fault(r)
                PROVE  UNCHANGED pc \/ (pc[r] # "updated" /\ \E place : pc' = [pc EXCEPT ![r] = place])
            BY <5>2 DEF Fault, StoreFails, RequestFails, IndexFails, PruneGetFails, UnlistFails, DeleteFails, Die, NextPruned, Answered
          <5>3. CASE (\E n \in Limits : SetMaxEvents(n)) \/ UNCHANGED vars
            BY <5>3 DEF SetMaxEvents, vars
          <5>4. QED
            BY <5>1, <5>2, <5>3 DEF Next
        <4>2. QED
          BY <3>1, <4>1 DEF TypeInv, TypeOK
      <3>2. QED
        BY <3>1 DEF Updaters
    <2>3. QED
      BY <1>1, <2>1, <2>2, BoundKept
  <1>5. QED
    BY <1>2, <1>3, <1>4

(* The retention index exceeds the limit only by concurrent updates: each   *)
(* insertion cuts it off at the limit it read, and only updates that raced  *)
(* a pruning put an event back without cutting (store.go:346-364, 538-553). *)
THEOREM Bounded == Spec => []RetentionBounded
  <1>1. Init => RetentionBounded
    <2> SUFFICES ASSUME Init PROVE RetentionBounded
      OBVIOUS
    <2>1. Len(retention) = 0 /\ maxEvents \in Limits
      BY DEF Init
    <2>2. Len(retention) <= maxEvents + Cardinality(Updaters)
      BY <2>1, LimitsAssumption, UpdatersCounted
    <2>3. QED
      BY <2>1, <2>2 DEF RetentionBounded, Updaters
  <1>2. QED
    BY <1>1, BoundStep, TypeInvariance, PTL DEF Spec

-----------------------------------------------------------------------------
(* What feeds rely on: a retained event that no other request updates is   *)
(* stored, and listed in all its scopes and in no other.                   *)
(*                                                                         *)
(* The invariant follows an event through its own request: it is listed    *)
(* nowhere before it is stored, is retained once, when it is listed        *)
(* everywhere, and whoever is to prune it took it out of the retention     *)
(* index.                                                                  *)

(* Requests create themselves, and update others only.                     *)
TargetInv ==
    \A r \in Requests :
        /\ pc[r] \in {"lookup", "claim", "store", "list"} => target[r] = r
        /\ pc[r] \in {"get", "rewrite", "sync"} => target[r] # r
        /\ pc[r] = "lookup" => \A y \in ExtIds : extMap[y] # r

Unstored == {"lookup", "claim", "store"}
Past == {"prune", "unlist", "created", "lost"}

(* An event whose request is past listing it.                              *)
PastInv(id) ==
    /\ id \in Elements(retention) => pc[id] \in Past
    /\ \A r \in Requests :
         id \in Elements(prune[r]) => pc[id] \in Past /\ id \notin Elements(retention)

(* An event is listed scope by scope after it was stored.                  *)
ListingInv(id) ==
    /\ pc[id] \in Unstored => ListedIn(id) = {}
    /\ pc[id] = "list" =>
         /\ Stored(id) /\ join[id] \subseteq ScopeKeys(events[id].channels)
         /\ ListedIn(id) = ScopeKeys(events[id].channels) \ join[id]

Visible(id) == Stored(id) /\ ListedIn(id) = ScopeKeys(events[id].channels)

EventInv(id) ==
    Updated(id) \/ /\ PastInv(id) /\ ListingInv(id)
                   /\ id \in Elements(retention) => Visible(id)

VisibleInv ==
    /\ TypeInv
    /\ NoRepeats(retention)
    /\ TargetInv
    /\ \A id \in Requests : EventInv(id)

-----------------------------------------------------------------------------
(* The elements of lists.                                                  *)
LEMMA ToFrontElements ==
    ASSUME NEW ids \in Seq(Requests), NEW id \in Requests
    PROVE  Elements(ToFront(ids, id)) \subseteq Elements(ids) \union {id}
<1> DEFINE new == ToFront(ids, id)
<1>1. CASE \E i \in DOMAIN ids : ids[i] = id
    <2> DEFINE at == CHOOSE i \in DOMAIN ids : ids[i] = id
    <2>1. new = [i \in 1 .. Len(ids) |->
                   IF i = 1 THEN id ELSE IF i <= at THEN ids[i - 1] ELSE ids[i]]
        BY <1>1 DEF ToFront
    <2>2. at \in DOMAIN ids
        BY <1>1
    <2> HIDE DEF new, at
    <2>3. \A i \in DOMAIN new : new[i] = id \/ \E j \in DOMAIN ids : new[i] = ids[j]
        BY <2>1, <2>2
    <2> QED
        BY <2>3 DEF Elements, new
<1>2. CASE ~ \E i \in DOMAIN ids : ids[i] = id
    <2>1. new = [i \in 1 .. Len(ids) + 1 |-> IF i = 1 THEN id ELSE ids[i - 1]]
        BY <1>2, Zenon DEF ToFront
    <2> HIDE DEF new
    <2>2. \A i \in DOMAIN new : new[i] = id \/ \E j \in DOMAIN ids : new[i] = ids[j]
        BY <2>1
    <2> QED
        BY <2>2 DEF Elements, new
<1> QED
    BY <1>1, <1>2

LEMMA SplitElements ==
    ASSUME NEW ids \in Seq(Requests), NEW n \in Nat, NoRepeats(ids)
    PROVE  /\ Elements(Kept(ids, n)) \subseteq Elements(ids)
           /\ Elements(Dropped(ids, n)) \subseteq Elements(ids) \ Elements(Kept(ids, n))
<1>1. Elements(Kept(ids, n)) \subseteq Elements(ids)
    BY DEF Elements, Kept
<1>2. Elements(Dropped(ids, n)) \subseteq Elements(ids)
    BY DEF Elements, Dropped
<1>3. ASSUME NEW i \in DOMAIN Kept(ids, n), NEW j \in DOMAIN Dropped(ids, n)
      PROVE  Kept(ids, n)[i] # Dropped(ids, n)[j]
    BY <1>3 DEF NoRepeats, Kept, Dropped
<1> QED
    BY <1>1, <1>2, <1>3 DEF Elements

LEMMA HeadTailElements ==
    ASSUME NEW ids \in Seq(Requests), ids # << >>
    PROVE  /\ Head(ids) \in Elements(ids)
           /\ Elements(Tail(ids)) \subseteq Elements(ids)
BY DEF Elements


-----------------------------------------------------------------------------
(* Events whose lists, record and scopes stay, or who is on fewer lists,   *)
(* are as good as before, while their requests go on the ways they go.     *)
Follows(old, new) ==
    /\ old \in Past => new \in Past
    /\ new \in Unstored => old \in Unstored
    /\ new = "list" => old = "list"

LEMMA EventKept ==
    ASSUME NEW id \in Requests, EventInv(id), Updated(id) => Updated(id)',
           Follows(pc[id], pc'[id]),
           id \in Elements(retention') => id \in Elements(retention),
           \A r \in Requests : id \in Elements(prune'[r]) => id \in Elements(prune[r]),
           events'[id] = events[id], join'[id] = join[id],
           \A k \in Scopes : id \in scopeIndex'[k] <=> id \in scopeIndex[k]
    PROVE  EventInv(id)'
<1>1. CASE Updated(id)
    BY <1>1 DEF EventInv
<1>2. CASE ~Updated(id)
    <2>1. PastInv(id) /\ ListingInv(id) /\ (id \in Elements(retention) => Visible(id))
        BY <1>2 DEF EventInv
    <2>2. ListedIn(id)' = ListedIn(id) /\ (Stored(id)' <=> Stored(id))
        BY DEF ListedIn, Stored
    <2>3. PastInv(id)'
        BY <2>1 DEF PastInv, Follows
    <2>4. ListingInv(id)'
        BY <2>1, <2>2 DEF ListingInv, Follows
    <2>5. (id \in Elements(retention) => Visible(id))'
        BY <2>1, <2>2 DEF Visible
    <2> QED
        BY <2>3, <2>4, <2>5 DEF EventInv
<1> QED
    BY <1>1, <1>2

(* Targets change only for a request that takes an existing mapping.       *)
LEMMA LookupTargets ==
    ASSUME VisibleInv, NEW r \in Requests, Lookup(r)
    PROVE  /\ TargetInv'
           /\ \A id \in Requests : Updated(id) => Updated(id)'
<1>1. /\ pc[r] = "lookup" /\ target[r] = r /\ UNCHANGED extMap
      /\ \A s \in Requests \ {r} : pc'[s] = pc[s] /\ target'[s] = target[s]
      /\ \/ pc'[r] = "claim" /\ target'[r] = r
         \/ pc'[r] = "get" /\ target'[r] = extMap[webhook[r].ext]
      /\ extMap[webhook[r].ext] # r
    <2>1. webhook[r].ext \in ExtIds
        BY WebhooksAssumption DEF Lookup, VisibleInv, TypeInv, TypeOK, LocalInv
    <2>2. pc[r] = "lookup" /\ target[r] = r /\ extMap[webhook[r].ext] # r
        BY <2>1 DEF Lookup, VisibleInv, TargetInv
    <2>3. UNCHANGED extMap
        BY DEF Lookup, store
    <2>4. \/ pc' = [pc EXCEPT ![r] = "claim"] /\ target' = target
          \/ /\ pc' = [pc EXCEPT ![r] = "get"]
             /\ target' = [target EXCEPT ![r] = extMap[webhook[r].ext]]
        BY DEF Lookup, Goto
    <2> QED
        BY <2>2, <2>3, <2>4 DEF VisibleInv, TypeInv, TypeOK
<1>2. TargetInv'
    BY <1>1 DEF VisibleInv, TargetInv
<1>3. ASSUME NEW id \in Requests, Updated(id) PROVE Updated(id)'
    BY <1>1, <1>3 DEF Updated
<1> QED
    BY <1>2, <1>3

(* No other step brings a request back to where its target would matter.   *)
Settling(r) ==
    /\ pc'[r] = "lookup" => pc[r] = "lookup"
    /\ pc'[r] \in {"claim", "store", "list"} => pc[r] \in {"claim", "store", "list"}
    /\ pc'[r] \in {"get", "rewrite", "sync"} => pc[r] \in {"get", "rewrite", "sync"}

LEMMA StepsSettle ==
    ASSUME TypeInv, [Next]_vars, ~ \E r \in Requests : Lookup(r)
    PROVE  UNCHANGED target /\ \A s \in Requests : Settling(s)
<1> DEFINE Goal == UNCHANGED target /\ \A s \in Requests : Settling(s)
<1> USE DEF TypeInv, TypeOK, Goto, Settling, store
<1>1. ASSUME NEW r \in Requests, GetExisting(r) PROVE Goal
    BY <1>1 DEF GetExisting
<1>2. ASSUME NEW r \in Requests, Rewrite(r) PROVE Goal
    BY <1>2 DEF Rewrite
<1>3. ASSUME NEW r \in Requests, MoveToFront(r) PROVE Goal
    BY <1>3 DEF MoveToFront
<1>4. ASSUME NEW r \in Requests, Claim(r) PROVE Goal
    BY <1>4 DEF Claim
<1>5. ASSUME NEW r \in Requests, Store(r) PROVE Goal
    BY <1>5 DEF Store
<1>6. ASSUME NEW r \in Requests, Unclaim(r) PROVE Goal
    BY <1>6 DEF Unclaim
<1>7. ASSUME NEW r \in Requests, Retain(r) PROVE Goal
    <2>1. \E place \in {"prune", "created"} : pc' = [pc EXCEPT ![r] = place]
        BY <1>7 DEF Retain
    <2> QED
        BY <1>7, <2>1 DEF Retain
<1>8. ASSUME NEW r \in Requests, PruneGet(r) PROVE Goal
    BY <1>8 DEF PruneGet
<1>9. ASSUME NEW r \in Requests, Delete(r) PROVE Goal
    BY <1>9 DEF Delete, NextPruned
<1>10. ASSUME NEW r \in Requests, StoreFails(r) \/ RequestFails(r) \/ IndexFails(r) \/ Die(r) PROVE Goal
    BY <1>10 DEF StoreFails, RequestFails, IndexFails, Die
<1>11. ASSUME NEW r \in Requests, PruneGetFails(r) \/ UnlistFails(r) \/ DeleteFails(r) PROVE Goal
    BY <1>11 DEF PruneGetFails, UnlistFails, DeleteFails, NextPruned
<1>12. ASSUME NEW r \in Requests, NEW k \in Scopes, Leave(r, k) \/ Join(r, k) \/ Unlist(r, k) PROVE Goal
    BY <1>12 DEF Leave, Join, Unlist
<1>13. CASE (\E n \in Limits : SetMaxEvents(n)) \/ UNCHANGED vars
    BY <1>13 DEF SetMaxEvents, vars
<1> QED
    BY <1>1, <1>2, <1>3, <1>4, <1>5, <1>6, <1>7, <1>8, <1>9, <1>10, <1>11, <1>12, <1>13
       DEF Next, Step, Fault

LEMMA TargetsKept ==
    ASSUME VisibleInv, [Next]_vars
    PROVE  /\ TargetInv'
           /\ \A id \in Requests : Updated(id) => Updated(id)'
<1>1. CASE \E r \in Requests : Lookup(r)
    BY <1>1, LookupTargets
<1>2. CASE ~ \E r \in Requests : Lookup(r)
    <2>1. UNCHANGED target /\ \A s \in Requests : Settling(s)
        BY <1>2, StepsSettle DEF VisibleInv
    <2>4. ASSUME NEW s \in Requests, pc'[s] = "lookup", NEW y \in ExtIds PROVE extMap'[y] # s
        <3>1. pc[s] = "lookup" /\ extMap[y] # s
            BY <2>1, <2>4 DEF Settling, VisibleInv, TargetInv
        <3>2. CASE \E r \in Requests : Claim(r)
            BY <2>4, <3>1, <3>2 DEF Claim, Goto, VisibleInv, TypeInv, TypeOK
        <3>3. CASE \E r \in Requests : Unclaim(r)
            BY <2>4, <3>1, <3>3, NamesAssumption DEF Unclaim, Goto, VisibleInv, TypeInv, TypeOK
        <3>4. CASE ~ \E r \in Requests : Claim(r) \/ Unclaim(r)
            <4>1. UNCHANGED extMap
                BY ZenonT(40), <1>2, <3>4 DEF Next, Step, Fault, GetExisting, Rewrite, MoveToFront, Store, StoreFails,
                       Retain, PruneGet, Delete, RequestFails, IndexFails, PruneGetFails, UnlistFails, DeleteFails, Die, Leave, Join, Unlist,
                       SetMaxEvents, store, vars
            <4> QED
                BY <3>1, <4>1
        <3> QED
            BY <3>2, <3>3, <3>4
    <2>5. TargetInv'
        BY <2>1, <2>4 DEF Settling, VisibleInv, TargetInv
    <2> QED
        BY <2>1, <2>5 DEF Updated
<1> QED
    BY <1>1, <1>2

-----------------------------------------------------------------------------
(* The actions, as they disturb events.  Most leave them alone.            *)
LEMMA QuietSteps ==
    ASSUME VisibleInv, NEW r \in Requests, NEW id \in Requests, Updated(id) => Updated(id)',
           \/ Lookup(r) \/ GetExisting(r) \/ Claim(r) \/ Unclaim(r) \/ PruneGet(r)
           \/ StoreFails(r) \/ RequestFails(r) \/ IndexFails(r) \/ Die(r)
           \/ PruneGetFails(r) \/ UnlistFails(r) \/ DeleteFails(r)
    PROVE  EventInv(id)'
<1>1. UNCHANGED <<events, scopeIndex, retention, join>>
    BY DEF Lookup, GetExisting, Claim, Unclaim, PruneGet, StoreFails, RequestFails, IndexFails, PruneGetFails, UnlistFails, DeleteFails, Die, store
<1>2. Follows(pc[id], pc'[id])
    <2> USE DEF VisibleInv, TypeInv, TypeOK, Goto, Follows, Past, Unstored
    <2>1. CASE Lookup(r) \/ GetExisting(r)
        BY <2>1 DEF Lookup, GetExisting
    <2>2. CASE Claim(r) \/ Unclaim(r) \/ PruneGet(r)
        BY <2>2 DEF Claim, Unclaim, PruneGet
    <2>3. CASE StoreFails(r) \/ RequestFails(r) \/ IndexFails(r) \/ Die(r)
        BY <2>3 DEF StoreFails, RequestFails, IndexFails, Die, Answered
    <2>4. CASE PruneGetFails(r) \/ UnlistFails(r) \/ DeleteFails(r)
        BY <2>4 DEF PruneGetFails, UnlistFails, DeleteFails, NextPruned
    <2> QED
        BY <2>1, <2>2, <2>3, <2>4
<1>3. \A s \in Requests : id \in Elements(prune'[s]) => id \in Elements(prune[s])
    <2>1. CASE UNCHANGED prune
        BY <2>1
    <2>2. CASE prune' = [prune EXCEPT ![r] = Tail(@)] /\ pc[r] = "unlist"
        <3>1. prune[r] \in Seq(Requests) /\ prune[r] # << >>
            BY <2>2 DEF VisibleInv, TypeInv, TypeOK, LocalInv
        <3>2. Elements(Tail(prune[r])) \subseteq Elements(prune[r])
            BY <3>1, HeadTailElements
        <3> QED
            BY <2>2, <3>2 DEF VisibleInv, TypeInv, TypeOK
    <2> QED
        BY <2>1, <2>2 DEF Lookup, GetExisting, Claim, Unclaim, PruneGet, StoreFails, RequestFails, IndexFails,
           PruneGetFails, UnlistFails, DeleteFails,
           Die, NextPruned
<1> QED
    BY <1>1, <1>2, <1>3, EventKept DEF VisibleInv

(* Updates disturb the event they update, and nothing is claimed of it.    *)
LEMMA UpdateSteps ==
    ASSUME VisibleInv, NEW r \in Requests, NEW id \in Requests, Updated(id) => Updated(id)',
           \/ Rewrite(r) \/ MoveToFront(r)
           \/ \E k \in Scopes : Leave(r, k) \/ (Join(r, k) /\ pc[r] = "sync")
    PROVE  EventInv(id)'
<1>1. pc[r] \in {"rewrite", "sync"} /\ target[r] # r
    BY DEF Rewrite, MoveToFront, Leave, Join, VisibleInv, TargetInv
<1>2. CASE id = target[r]
    <2>1. Updated(id)
        BY <1>1, <1>2 DEF Updated
    <2> QED
        BY <2>1 DEF EventInv
<1>3. CASE id # target[r]
    <2> USE DEF VisibleInv, TypeInv, TypeOK
    <2>1. UNCHANGED prune /\ events'[id] = events[id]
        BY <1>3 DEF Rewrite, MoveToFront, Leave, Join
    <2>2. \A k \in Scopes : id \in scopeIndex'[k] <=> id \in scopeIndex[k]
        <3>1. \/ UNCHANGED scopeIndex
              \/ \E q \in Scopes : scopeIndex' = [scopeIndex EXCEPT ![q] = @ \ {target[r]}]
              \/ \E q \in Scopes : scopeIndex' = [scopeIndex EXCEPT ![q] = @ \union {target[r]}]
            BY DEF Rewrite, MoveToFront, Leave, Join
        <3>2. scopeIndex \in [Scopes -> SUBSET Requests]
            OBVIOUS
        <3> HIDE DEF VisibleInv, TypeInv, TypeOK
        <3> QED
            BY <1>3, <3>1, <3>2
    <2>3. id \in Elements(retention') => id \in Elements(retention)
        <3>1. CASE UNCHANGED retention
            BY <3>1
        <3>2. CASE retention' = ToFront(retention, target[r])
            BY <1>3, <3>2, ToFrontElements
        <3> QED
            BY <3>1, <3>2 DEF Rewrite, MoveToFront, Leave, Join
    <2>4. Follows(pc[id], pc'[id])
        BY DEF Rewrite, MoveToFront, Leave, Join, Goto, Follows, Past, Unstored
    <2>5. CASE id # r
        <3>1. join'[id] = join[id]
            BY <2>5 DEF Rewrite, MoveToFront, Leave, Join
        <3> QED
            BY <2>1, <2>2, <2>3, <2>4, <3>1, EventKept
    <2>6. CASE id = r
        <3>1. pc[id] \notin Past \union Unstored \union {"list"}
            BY <1>1, <2>6 DEF Past, Unstored
        <3>2. pc'[id] \notin Unstored \union {"list"}
            BY <3>1, <2>4 DEF Follows
        <3>3. Updated(id) \/ PastInv(id)
            BY DEF EventInv
        <3>4. CASE Updated(id)
            BY <3>4 DEF EventInv
        <3>5. CASE PastInv(id)
            <4>1. id \notin Elements(retention) /\ \A s \in Requests : id \notin Elements(prune[s])
                BY <3>1, <3>5 DEF PastInv
            <4>2. id \notin Elements(retention') /\ \A s \in Requests : id \notin Elements(prune'[s])
                BY <4>1, <2>1, <2>3
            <4> QED
                BY <3>2, <4>2 DEF EventInv, PastInv, ListingInv
        <3> QED
            BY <3>3, <3>4, <3>5
    <2> QED
        BY <2>5, <2>6
<1> QED
    BY <1>2, <1>3

(* An event is listed by its own request, scope by scope.                  *)
LEMMA JoinSteps ==
    ASSUME VisibleInv, NEW r \in Requests, NEW id \in Requests, Updated(id) => Updated(id)',
           NEW k \in Scopes, Join(r, k), pc[r] = "list"
    PROVE  EventInv(id)'
<1>1. /\ target[r] = r /\ k \in join[r]
      /\ scopeIndex' = [scopeIndex EXCEPT ![k] = @ \union {r}]
      /\ join' = [join EXCEPT ![r] = @ \ {k}]
      /\ UNCHANGED <<events, retention, pc, prune>>
    BY DEF Join, VisibleInv, TargetInv
<1>2. \A h \in Scopes : \A e \in Requests : e \in scopeIndex'[h] <=> e \in scopeIndex[h] \/ (h = k /\ e = r)
    BY <1>1 DEF VisibleInv, TypeInv, TypeOK
<1>3. Follows(pc[id], pc'[id])
    BY <1>1 DEF Follows
<1>4. CASE id # r
    <2>1. join'[id] = join[id]
        BY <1>1, <1>4 DEF VisibleInv, TypeInv, TypeOK
    <2> QED
        BY <1>1, <1>2, <1>3, <1>4, <2>1, EventKept DEF VisibleInv
<1>5. CASE id = r
    <2>1. CASE Updated(id)
        BY <2>1 DEF EventInv
    <2>2. CASE ~Updated(id)
        <3>1. PastInv(id) /\ ListingInv(id)
            BY <2>2 DEF VisibleInv, EventInv
        <3>2. ListedIn(id)' = ListedIn(id) \union {k}
            BY <1>2, <1>5 DEF ListedIn
        <3>3. join'[id] = join[id] \ {k}
            BY <1>1, <1>5 DEF VisibleInv, TypeInv, TypeOK
        <3>4. ListingInv(id)'
            BY <1>1, <1>5, <3>1, <3>2, <3>3 DEF ListingInv, Stored, Unstored
        <3>5. PastInv(id)'
            BY <1>1, <3>1 DEF PastInv
        <3>6. id \notin Elements(retention')
            BY <1>1, <1>5, <3>1 DEF PastInv, Past
        <3> QED
            BY <3>4, <3>5, <3>6 DEF EventInv
    <2> QED
        BY <2>1, <2>2
<1> QED
    BY <1>4, <1>5

LEMMA StoreSteps ==
    ASSUME VisibleInv, NEW r \in Requests, NEW id \in Requests, Updated(id) => Updated(id)', Store(r)
    PROVE  EventInv(id)'
<1> DEFINE event == [ext |-> webhook[r].ext, channels |-> webhook[r].channels]
<1>1. /\ pc[r] = "store" /\ pc' = [pc EXCEPT ![r] = "list"]
      /\ events' = [events EXCEPT ![r] = event]
      /\ join' = [join EXCEPT ![r] = ScopeKeys(webhook[r].channels)]
      /\ UNCHANGED <<scopeIndex, retention, prune>>
    BY DEF Store, Goto
<1>2. CASE id # r
    <2>1. pc'[id] = pc[id] /\ events'[id] = events[id] /\ join'[id] = join[id]
        BY <1>1, <1>2 DEF VisibleInv, TypeInv, TypeOK
    <2> QED
        BY <1>1, <2>1, EventKept DEF VisibleInv, Follows
<1>3. CASE id = r
    <2>1. CASE Updated(id)
        BY <2>1 DEF EventInv
    <2>2. CASE ~Updated(id)
        <3>1. PastInv(id) /\ ListedIn(id) = {}
            BY <1>1, <1>3, <2>2 DEF VisibleInv, EventInv, ListingInv, Unstored
        <3>2. /\ pc'[id] = "list" /\ events'[id] = event
              /\ join'[id] = ScopeKeys(webhook[r].channels)
            BY <1>1, <1>3 DEF VisibleInv, TypeInv, TypeOK
        <3>3. event \in Events
            BY WebhooksAssumption DEF VisibleInv, TypeInv, TypeOK, Events
        <3>4. Stored(id)'
            BY <3>2, <3>3, NamesAssumption DEF Stored
        <3>5. ListedIn(id)' = {}
            BY <1>1, <3>1 DEF ListedIn
        <3>6. ListingInv(id)'
            BY <3>2, <3>4, <3>5 DEF ListingInv, Unstored
        <3>7. id \notin Elements(retention') /\ \A s \in Requests : id \notin Elements(prune'[s])
            BY <1>1, <1>3, <3>1 DEF PastInv, Past
        <3> QED
            BY <3>6, <3>7 DEF EventInv, PastInv
    <2> QED
        BY <2>1, <2>2
<1> QED
    BY <1>2, <1>3

(* An event listed everywhere is retained, and what is cut off is not.     *)
LEMMA RetainSteps ==
    ASSUME VisibleInv, NEW r \in Requests, NEW id \in Requests, Updated(id) => Updated(id)', Retain(r)
    PROVE  EventInv(id)'
<1> DEFINE ids == ToFront(retention, r)
<1>1. /\ pc[r] = "list" /\ join[r] = {}
      /\ retention' = Kept(ids, maxEvents)
      /\ prune' = [prune EXCEPT ![r] = Dropped(ids, maxEvents)]
      /\ pc' = [pc EXCEPT ![r] = IF Len(ids) > maxEvents THEN "prune" ELSE "created"]
      /\ UNCHANGED <<events, scopeIndex, join>>
    BY DEF Retain, Goto
<1>2. /\ Elements(ids) \subseteq Elements(retention) \union {r}
      /\ Elements(retention') \subseteq Elements(ids)
      /\ Elements(prune'[r]) \subseteq Elements(ids) \ Elements(retention')
    <2>1. retention \in Seq(Requests) /\ maxEvents \in Nat /\ NoRepeats(retention)
        BY LimitsAssumption DEF VisibleInv, TypeInv, TypeOK
    <2>2. ids \in Seq(Requests) /\ NoRepeats(ids) /\ Elements(ids) \subseteq Elements(retention) \union {r}
        BY <2>1, ToFrontType, ToFrontNoRepeats, ToFrontElements
    <2>3. prune'[r] = Dropped(ids, maxEvents)
        BY <1>1 DEF VisibleInv, TypeInv, TypeOK
    <2> HIDE DEF ids
    <2> QED
        BY <1>1, <2>1, <2>2, <2>3, SplitElements
<1> HIDE DEF ids
<1>3. \A s \in Requests \ {r} : prune'[s] = prune[s] /\ pc'[s] = pc[s]
    BY <1>1 DEF VisibleInv, TypeInv, TypeOK
<1>4. pc'[r] \in {"prune", "created"}
    BY <1>1 DEF VisibleInv, TypeInv, TypeOK
<1>5. CASE Updated(id)
    BY <1>5 DEF EventInv
<1>6. CASE ~Updated(id) /\ id # r
    <2>1. PastInv(id) /\ ListingInv(id) /\ (id \in Elements(retention) => Visible(id))
        BY <1>6 DEF VisibleInv, EventInv
    <2>2. pc'[id] = pc[id] /\ (id \in Elements(retention') => id \in Elements(retention))
        BY <1>2, <1>3, <1>6
    <2>3. PastInv(id)'
        <3>1. ASSUME NEW s \in Requests, id \in Elements(prune'[s])
              PROVE  pc[id] \in Past /\ id \notin Elements(retention')
            <4>1. CASE s = r
                BY <1>2, <1>6, <2>1, <3>1, <4>1 DEF PastInv
            <4>2. CASE s # r
                BY <1>3, <2>1, <2>2, <3>1, <4>2 DEF PastInv
            <4> QED
                BY <4>1, <4>2
        <3> QED
            BY <2>1, <2>2, <3>1 DEF PastInv
    <2>4. ListingInv(id)'
        BY <1>1, <2>1, <2>2 DEF ListingInv, ListedIn, Stored
    <2>5. (id \in Elements(retention) => Visible(id))'
        BY <1>1, <2>1, <2>2 DEF Visible, ListedIn, Stored
    <2> QED
        BY <2>3, <2>4, <2>5 DEF EventInv
<1>7. CASE ~Updated(id) /\ id = r
    <2>1. PastInv(id) /\ Visible(id)
        BY <1>1, <1>7 DEF VisibleInv, EventInv, ListingInv, Visible
    <2>2. \A s \in Requests : id \notin Elements(prune[s])
        BY <1>1, <1>7, <2>1 DEF PastInv, Past
    <2>3. PastInv(id)'
        BY <1>2, <1>3, <1>4, <1>7, <2>2 DEF PastInv, Past
    <2>4. ListingInv(id)'
        BY <1>4, <1>7 DEF ListingInv, Unstored
    <2>5. Visible(id)'
        BY <1>1, <2>1 DEF Visible, ListedIn, Stored
    <2> QED
        BY <2>3, <2>4, <2>5 DEF EventInv
<1> QED
    BY <1>5, <1>6, <1>7

(* Pruning takes events out of the scope indexes, and deletes them, that   *)
(* have left the retention index.                                          *)
LEMMA PruneSteps ==
    ASSUME VisibleInv, NEW r \in Requests, NEW id \in Requests, Updated(id) => Updated(id)',
           Delete(r) \/ \E k \in Scopes : Unlist(r, k)
    PROVE  EventInv(id)'
<1> DEFINE h == Head(prune[r])
<1>1. pc[r] = "unlist" /\ prune[r] \in Seq(Requests) /\ prune[r] # << >>
    BY DEF Delete, Unlist, VisibleInv, TypeInv, TypeOK, LocalInv
<1>2. h \in Elements(prune[r]) /\ Elements(Tail(prune[r])) \subseteq Elements(prune[r])
    BY <1>1, HeadTailElements
<1>3. UNCHANGED <<retention, join>>
    BY DEF Delete, Unlist
<1>4. \A s \in Requests : id \in Elements(prune'[s]) => id \in Elements(prune[s])
    <2>1. UNCHANGED prune \/ prune' = [prune EXCEPT ![r] = Tail(@)]
        BY DEF Delete, Unlist, NextPruned
    <2> QED
        BY <1>2, <2>1 DEF VisibleInv, TypeInv, TypeOK
<1>5. Follows(pc[id], pc'[id])
    <2>1. UNCHANGED pc \/ \E place \in {"prune", "created"} : pc' = [pc EXCEPT ![r] = place]
        BY DEF Delete, Unlist, NextPruned, Goto
    <2> QED
        BY <1>1, <2>1 DEF Follows, Past, Unstored, VisibleInv, TypeInv, TypeOK
<1>6. CASE Updated(id)
    BY <1>6 DEF EventInv
<1>7. CASE ~Updated(id) /\ id = h
    <2>1. PastInv(id)
        BY <1>7 DEF VisibleInv, EventInv
    <2>2. pc[id] \in Past /\ id \notin Elements(retention)
        BY <1>2, <1>7, <2>1 DEF PastInv
    <2>3. pc'[id] \in Past /\ id \notin Elements(retention')
        BY <1>3, <1>5, <2>2 DEF Follows
    <2> QED
        BY <2>3 DEF EventInv, PastInv, ListingInv, Past, Unstored
<1>8. CASE id # h
    <2>1. events'[id] = events[id] /\ \A k \in Scopes : id \in scopeIndex'[k] <=> id \in scopeIndex[k]
        <3>1. \/ events' = [events EXCEPT ![h] = Missing] /\ UNCHANGED scopeIndex
              \/ /\ UNCHANGED events
                 /\ \E k \in Scopes : scopeIndex' = [scopeIndex EXCEPT ![k] = @ \ {h}]
            BY DEF Delete, Unlist
        <3>2. /\ scopeIndex \in [Scopes -> SUBSET Requests]
              /\ events \in [Requests -> Events \union {Missing}]
            BY DEF VisibleInv, TypeInv, TypeOK
        <3> HIDE DEF h, VisibleInv
        <3> QED
            BY <1>8, <3>1, <3>2
    <2> QED
        BY <1>3, <1>4, <1>5, <2>1, EventKept DEF VisibleInv
<1> QED
    BY <1>6, <1>7, <1>8

LEMMA InitVisibleInv == Init => VisibleInv
<1> SUFFICES ASSUME Init PROVE VisibleInv
    OBVIOUS
<1>1. NoRepeats(retention)
    BY DEF Init, NoRepeats
<1>2. TargetInv
    BY NamesAssumption DEF Init, TargetInv
<1>3. ASSUME NEW id \in Requests PROVE EventInv(id)
    <2>1. id \notin Elements(retention) /\ \A r \in Requests : id \notin Elements(prune[r])
        BY DEF Init, Elements
    <2>2. ListedIn(id) = {} /\ pc[id] # "list"
        BY DEF Init, ListedIn
    <2> QED
        BY <2>1, <2>2 DEF EventInv, PastInv, ListingInv
<1> QED
    BY <1>1, <1>2, <1>3, InitTypeInv DEF VisibleInv

LEMMA StepVisibleInv ==
    VisibleInv /\ TypeInv' /\ NoRepeats(retention)' /\ [Next]_vars => VisibleInv'
<1> SUFFICES ASSUME VisibleInv, [Next]_vars PROVE TargetInv' /\ \A id \in Requests : EventInv(id)'
    BY DEF VisibleInv
<1>1. TargetInv'
    BY TargetsKept
<1>2. ASSUME NEW id \in Requests PROVE EventInv(id)'
    <2>1. Updated(id) => Updated(id)'
        BY TargetsKept
    <2>2. ASSUME NEW r \in Requests, Step(r) PROVE EventInv(id)'
        <3>1. CASE Lookup(r) \/ GetExisting(r) \/ Claim(r) \/ Unclaim(r) \/ PruneGet(r)
            BY <2>1, <3>1, QuietSteps
        <3>2. CASE Rewrite(r) \/ MoveToFront(r) \/ \E k \in Scopes : Leave(r, k)
            BY <2>1, <3>2, UpdateSteps
        <3>3. ASSUME NEW k \in Scopes, Join(r, k) PROVE EventInv(id)'
            <4>1. pc[r] \in {"sync", "list"}
                BY <3>3 DEF Join
            <4> QED
                BY <2>1, <3>3, <4>1, UpdateSteps, JoinSteps
        <3>4. CASE Store(r)
            BY <2>1, <3>4, StoreSteps
        <3>5. CASE Retain(r)
            BY <2>1, <3>5, RetainSteps
        <3>6. CASE Delete(r) \/ \E k \in Scopes : Unlist(r, k)
            BY <2>1, <3>6, PruneSteps
        <3> QED
            BY <2>2, <3>1, <3>2, <3>3, <3>4, <3>5, <3>6 DEF Step
    <2>3. ASSUME NEW r \in Requests, Fault(r) PROVE EventInv(id)'
        BY <2>1, <2>3, QuietSteps DEF Fault
    <2>4. CASE (\E n \in Limits : SetMaxEvents(n)) \/ UNCHANGED vars
        <3>1. UNCHANGED <<events, scopeIndex, retention, join, pc, prune>>
            BY <2>4 DEF SetMaxEvents, vars, store
        <3> QED
            BY <2>1, <3>1, EventKept DEF Follows, VisibleInv
    <2> QED
        BY <2>2, <2>3, <2>4 DEF Next
<1> QED
    BY <1>1, <1>2

LEMMA VisibleInvariance == Spec => []VisibleInv
BY InitVisibleInv, StepVisibleInv, TypeInvariance, NoDuplicates, PTL DEF Spec

(* A retained event that no other request updates is stored, and listed in *)
(* all its scopes and in no other, with KV errors and dying nodes: AddEvent *)
(* stores, lists and retains in this order (store.go:382-399), and         *)
(* pruneEvents touches only what left the index (store.go:587-610).        *)
THEOREM RetainedAreVisible == Spec => []RetainedIsVisible
<1>1. VisibleInv => RetainedIsVisible
    <2> SUFFICES ASSUME VisibleInv, NEW id \in Elements(retention)
                 PROVE  Updated(id) \/ Visible(id)
        BY DEF RetainedIsVisible, Updated, Visible
    <2>1. id \in Requests
        BY DEF VisibleInv, TypeInv, TypeOK, Elements
    <2> QED
        BY <2>1 DEF VisibleInv, EventInv
<1> QED
    BY <1>1, VisibleInvariance, PTL

-----------------------------------------------------------------------------
(* What feeds rely on besides: what is listed is stored, and in the end    *)
(* what is stored is retained.  The exceptions are events that others      *)
(* update, and those that could not be pruned, which the log names.        *)

(* A stored event is being listed, failed to be listed, is retained or is  *)
(* to be pruned, unless its node died.                                     *)
Accounted(id) ==
    \/ pc[id] \in {"list", "lost", "error"}
    \/ id \in Elements(retention)
    \/ \E r \in Requests : id \in Elements(prune[r])

(* An event is unlisted before it is deleted.                              *)
KeptInv(id) ==
    /\ \A k \in Scopes :
         id \in scopeIndex[k] => Stored(id) /\ k \in ScopeKeys(events[id].channels)
    /\ \A r \in Requests :
         pc[r] = "unlist" /\ Head(prune[r]) = id => ListedIn(id) \subseteq leave[r]
    /\ Stored(id) => Accounted(id)

TraceInv(id) == Updated(id) \/ id \in warned \/ KeptInv(id)

(* Only a request that is pruning, or died at it, has something to prune.  *)
IdleInv ==
    \A r \in Requests : pc[r] \notin {"prune", "unlist", "lost"} => prune[r] = << >>

SettleInv ==
    /\ VisibleInv
    /\ IdleInv
    /\ \A id \in Requests : TraceInv(id)

LEMMA InitSettleInv == Init => SettleInv
<1> SUFFICES ASSUME Init PROVE IdleInv /\ \A id \in Requests : TraceInv(id)
    BY InitVisibleInv DEF SettleInv
<1>1. IdleInv
    BY DEF Init, IdleInv
<1>2. ASSUME NEW id \in Requests PROVE KeptInv(id)
    BY DEF Init, KeptInv, Stored
<1> QED
    BY <1>1, <1>2 DEF TraceInv

(* No ID is lost in between.                                               *)
LEMMA ToFrontCovers ==
    ASSUME NEW ids \in Seq(Requests), NEW id \in Requests
    PROVE  Elements(ids) \union {id} \subseteq Elements(ToFront(ids, id))
<1> DEFINE new == ToFront(ids, id)
<1>1. CASE \E i \in DOMAIN ids : ids[i] = id
    <2> DEFINE at == CHOOSE i \in DOMAIN ids : ids[i] = id
    <2>1. new = [i \in 1 .. Len(ids) |->
                   IF i = 1 THEN id ELSE IF i <= at THEN ids[i - 1] ELSE ids[i]]
        BY <1>1 DEF ToFront
    <2>2. at \in DOMAIN ids /\ ids[at] = id
        BY <1>1
    <2> HIDE DEF new, at
    <2>3. 1 \in DOMAIN new /\ new[1] = id
        BY <2>1, <2>2
    <2>4. ASSUME NEW j \in DOMAIN ids PROVE \E i \in DOMAIN new : new[i] = ids[j]
        <3>1. CASE j < at
            <4>1. j + 1 \in DOMAIN new /\ new[j + 1] = ids[j]
                BY <2>1, <2>2, <3>1
            <4> QED
                BY <4>1
        <3>2. CASE j = at
            BY <2>2, <2>3, <3>2
        <3>3. CASE j > at
            <4>1. j \in DOMAIN new /\ new[j] = ids[j]
                BY <2>1, <2>2, <3>3
            <4> QED
                BY <4>1
        <3> QED
            BY <2>2, <3>1, <3>2, <3>3
    <2> QED
        BY <2>3, <2>4 DEF Elements, new
<1>2. CASE ~ \E i \in DOMAIN ids : ids[i] = id
    <2>1. new = [i \in 1 .. Len(ids) + 1 |-> IF i = 1 THEN id ELSE ids[i - 1]]
        BY <1>2, Zenon DEF ToFront
    <2> HIDE DEF new
    <2>2. 1 \in DOMAIN new /\ new[1] = id
        BY <2>1
    <2>3. ASSUME NEW j \in DOMAIN ids PROVE j + 1 \in DOMAIN new /\ new[j + 1] = ids[j]
        BY <2>1
    <2> QED
        BY <2>2, <2>3 DEF Elements, new
<1> QED
    BY <1>1, <1>2

LEMMA SplitCovers ==
    ASSUME NEW ids \in Seq(Requests), NEW n \in Nat
    PROVE  /\ Elements(ids) \subseteq Elements(Kept(ids, n)) \union Elements(Dropped(ids, n))
           /\ Len(ids) <= n => Dropped(ids, n) = << >>
<1>1. ASSUME NEW i \in DOMAIN ids, i <= n
      PROVE  i \in DOMAIN Kept(ids, n) /\ Kept(ids, n)[i] = ids[i]
    BY <1>1 DEF Kept
<1>2. ASSUME NEW i \in DOMAIN ids, i > n
      PROVE  i - n \in DOMAIN Dropped(ids, n) /\ Dropped(ids, n)[i - n] = ids[i]
    BY <1>2 DEF Dropped
<1>3. Len(ids) <= n => Dropped(ids, n) = << >>
    BY DEF Dropped
<1> QED
    BY <1>1, <1>2, <1>3 DEF Elements

LEMMA TailCovers ==
    ASSUME NEW ids \in Seq(Requests), ids # << >>
    PROVE  /\ Elements(ids) \subseteq Elements(Tail(ids)) \union {Head(ids)}
           /\ ~(Len(ids) > 1) => Tail(ids) = << >>
<1>1. Len(ids) \in Nat /\ Len(ids) # 0 /\ DOMAIN ids = 1 .. Len(ids) /\ Head(ids) = ids[1]
    BY EmptySeq, LenProperties
<1>2. /\ Tail(ids) \in Seq(Requests) /\ Len(Tail(ids)) = Len(ids) - 1
      /\ \A i \in 1 .. Len(Tail(ids)) : Tail(ids)[i] = ids[i + 1]
    BY HeadTailProperties
<1>3. DOMAIN Tail(ids) = 1 .. Len(ids) - 1
    BY <1>2, LenProperties
<1>4. ASSUME NEW i \in DOMAIN ids, i # 1
      PROVE  i - 1 \in DOMAIN Tail(ids) /\ Tail(ids)[i - 1] = ids[i]
    BY <1>1, <1>2, <1>3, <1>4
<1>5. Elements(ids) \subseteq Elements(Tail(ids)) \union {Head(ids)}
    BY <1>1, <1>4 DEF Elements
<1>6. ~(Len(ids) > 1) => Len(Tail(ids)) = 0
    BY <1>1, <1>2
<1> QED
    BY <1>2, <1>5, <1>6, EmptySeq

-----------------------------------------------------------------------------
LEMMA HeadPruned ==
    ASSUME TypeInv, NEW r \in Requests, pc[r] \in {"prune", "unlist"}
    PROVE  /\ prune[r] \in Seq(Requests) /\ prune[r] # << >>
           /\ Head(prune[r]) \in Elements(prune[r])
           /\ Head(prune[r]) \in Requests
<1>1. prune[r] \in Seq(Requests) /\ prune[r] # << >>
    BY DEF TypeInv, TypeOK, LocalInv
<1> QED
    BY <1>1, HeadTailElements, HeadTailProperties

(* The list of a request is empty again when it has gone through it.       *)
LEMMA PrunedAdvance ==
    ASSUME TypeInv, NEW r \in Requests, pc[r] = "unlist", NextPruned(r)
    PROVE  /\ pc'[r] = "prune" \/ (pc'[r] = "created" /\ prune'[r] = << >>)
           /\ prune'[r] = Tail(prune[r])
           /\ \A s \in Requests \ {r} : pc'[s] = pc[s] /\ prune'[s] = prune[s]
<1>1. /\ prune' = [prune EXCEPT ![r] = Tail(@)]
      /\ pc' = [pc EXCEPT ![r] = IF Len(prune[r]) > 1 THEN "prune" ELSE "created"]
    BY DEF NextPruned, Goto
<1>2. ~(Len(prune[r]) > 1) => Tail(prune[r]) = << >>
    BY HeadPruned, TailCovers
<1>3. prune'[r] = Tail(prune[r]) /\ \A s \in Requests \ {r} : pc'[s] = pc[s] /\ prune'[s] = prune[s]
    BY <1>1 DEF TypeInv, TypeOK
<1>4. pc'[r] = IF Len(prune[r]) > 1 THEN "prune" ELSE "created"
    BY <1>1 DEF TypeInv, TypeOK
<1> QED
    BY <1>2, <1>3, <1>4

LEMMA RetainAdvance ==
    ASSUME TypeInv, NEW r \in Requests, Retain(r)
    PROVE  /\ pc'[r] = "prune" \/ (pc'[r] = "created" /\ prune'[r] = << >>)
           /\ Elements(retention) \union {r} \subseteq Elements(retention') \union Elements(prune'[r])
           /\ \A s \in Requests \ {r} : pc'[s] = pc[s] /\ prune'[s] = prune[s]
<1> DEFINE ids == ToFront(retention, r)
           more == Len(ids) > maxEvents
<1>1. /\ retention' = Kept(ids, maxEvents)
      /\ prune' = [prune EXCEPT ![r] = Dropped(ids, maxEvents)]
      /\ pc' = [pc EXCEPT ![r] = IF more THEN "prune" ELSE "created"]
    BY DEF Retain, Goto
<1>2. \A s \in Requests :
        /\ pc'[s] = IF s = r THEN (IF more THEN "prune" ELSE "created") ELSE pc[s]
        /\ prune'[s] = IF s = r THEN Dropped(ids, maxEvents) ELSE prune[s]
    <2> HIDE DEF ids, more
    <2> QED
        BY <1>1 DEF TypeInv, TypeOK
<1>3. /\ Elements(retention) \union {r} \subseteq Elements(retention') \union Elements(prune'[r])
      /\ ~more => prune'[r] = << >>
    <2>1. retention \in Seq(Requests) /\ maxEvents \in Nat
        BY LimitsAssumption DEF TypeInv, TypeOK
    <2>2. ids \in Seq(Requests) /\ Elements(retention) \union {r} \subseteq Elements(ids)
        BY <2>1, ToFrontType, ToFrontCovers
    <2>3. Len(ids) \in Nat
        BY <2>2, LenProperties
    <2> HIDE DEF ids
    <2> QED
        BY <1>1, <1>2, <2>1, <2>2, <2>3, SplitCovers
<1> HIDE DEF ids, more
<1> QED
    BY <1>2, <1>3

LEMMA IdleStep ==
    ASSUME TypeInv, IdleInv, [Next]_vars
    PROVE  IdleInv'
<1>1. ASSUME NEW r \in Requests, Delete(r) \/ DeleteFails(r) PROVE IdleInv'
    BY <1>1, PrunedAdvance DEF Delete, DeleteFails, IdleInv
<1>2. ASSUME NEW r \in Requests, Retain(r) PROVE IdleInv'
    BY <1>2, RetainAdvance DEF IdleInv
<1>3. ASSUME UNCHANGED prune,
             \A s \in Requests : pc'[s] \notin {"prune", "unlist", "lost"} => pc[s] \notin {"prune", "unlist", "lost"}
      PROVE  IdleInv'
    BY <1>3 DEF IdleInv
<1> USE DEF TypeInv, TypeOK, Goto, store
<1>4. ASSUME NEW r \in Requests, Step(r), ~Delete(r), ~Retain(r) PROVE IdleInv'
    <2>1. CASE Lookup(r) \/ GetExisting(r) \/ Rewrite(r) \/ MoveToFront(r)
        BY <1>3, <2>1 DEF Lookup, GetExisting, Rewrite, MoveToFront
    <2>2. CASE Claim(r) \/ Store(r) \/ Unclaim(r) \/ PruneGet(r)
        BY <1>3, <2>2 DEF Claim, Store, Unclaim, PruneGet
    <2>3. CASE \E k \in Scopes : Leave(r, k) \/ Join(r, k) \/ Unlist(r, k)
        BY <1>3, <2>3 DEF Leave, Join, Unlist
    <2> QED
        BY <1>4, <2>1, <2>2, <2>3 DEF Step
<1>5. ASSUME NEW r \in Requests, Fault(r), ~DeleteFails(r) PROVE IdleInv'
    <2>1. CASE StoreFails(r) \/ RequestFails(r) \/ IndexFails(r) \/ Die(r)
        BY <1>3, <2>1 DEF StoreFails, RequestFails, IndexFails, Die
    <2>2. CASE PruneGetFails(r) \/ UnlistFails(r)
        BY <1>3, <2>2 DEF PruneGetFails, UnlistFails
    <2> QED
        BY <1>5, <2>1, <2>2 DEF Fault
<1>6. CASE (\E n \in Limits : SetMaxEvents(n)) \/ UNCHANGED vars
    BY <1>3, <1>6 DEF SetMaxEvents, vars
<1> QED
    BY <1>1, <1>2, <1>4, <1>5, <1>6 DEF Next, Fault

(* Events whose record and listing stay, and of which nothing is forgotten *)
(* that accounts for them, are as good as before.                          *)
LEMMA TraceKept ==
    ASSUME NEW id \in Requests, TraceInv(id), Updated(id) => Updated(id)', warned \subseteq warned',
           events'[id] = events[id],
           \A k \in Scopes : id \in scopeIndex'[k] => id \in scopeIndex[k],
           \A s \in Requests :
               pc'[s] = "unlist" /\ Head(prune'[s]) = id =>
                   pc[s] = "unlist" /\ Head(prune[s]) = id /\ leave'[s] = leave[s],
           Accounted(id) => Accounted(id)'
    PROVE  TraceInv(id)'
<1>1. CASE Updated(id) \/ id \in warned
    BY <1>1 DEF TraceInv
<1>2. CASE KeptInv(id)
    <2>1. ListedIn(id)' \subseteq ListedIn(id) /\ (Stored(id)' <=> Stored(id))
        BY DEF ListedIn, Stored
    <2>2. KeptInv(id)'
        BY <1>2, <2>1 DEF KeptInv
    <2> QED
        BY <2>2 DEF TraceInv
<1> QED
    BY <1>1, <1>2 DEF TraceInv

(* Nothing is said of an event others update or that failed to be pruned.  *)
LEMMA TraceExcused ==
    ASSUME NEW id \in Requests, Updated(id)' \/ id \in warned' PROVE TraceInv(id)'
BY DEF TraceInv

(* Requests that move on without touching the lists they prune.            *)
LEMMA QuietTraces ==
    ASSUME SettleInv, NEW r \in Requests, NEW id \in Requests, Updated(id) => Updated(id)',
           \/ Lookup(r) \/ GetExisting(r) \/ Claim(r) \/ Unclaim(r)
           \/ StoreFails(r) \/ RequestFails(r) \/ IndexFails(r) \/ Die(r)
    PROVE  TraceInv(id)'
<1>1. UNCHANGED <<events, scopeIndex, retention, leave, prune, warned>>
    BY DEF Lookup, GetExisting, Claim, Unclaim, StoreFails, RequestFails, IndexFails, Die, store
<1>2. \E place : /\ pc' = [pc EXCEPT ![r] = place] /\ place # "unlist"
                 /\ pc[r] \in {"list", "lost", "error"} => place \in {"list", "lost", "error"}
    <2>1. CASE Lookup(r) \/ GetExisting(r)
        BY <2>1 DEF Lookup, GetExisting, Goto
    <2>2. CASE Claim(r) \/ Unclaim(r)
        BY <2>2 DEF Claim, Unclaim, Goto
    <2>3. CASE StoreFails(r) \/ RequestFails(r)
        BY <2>3 DEF StoreFails, RequestFails, Goto
    <2>4. CASE IndexFails(r) \/ Die(r)
        BY <2>4 DEF IndexFails, Die, Goto
    <2> QED
        BY <2>1, <2>2, <2>3, <2>4
<1>3. \A s \in Requests :
        /\ pc'[s] = "unlist" => pc[s] = "unlist"
        /\ pc[s] \in {"list", "lost", "error"} => pc'[s] \in {"list", "lost", "error"}
    BY <1>2 DEF SettleInv, VisibleInv, TypeInv, TypeOK
<1>4. Accounted(id) => Accounted(id)'
    BY <1>1, <1>3 DEF Accounted
<1> QED
    BY <1>1, <1>3, <1>4, TraceKept DEF SettleInv

(* Updates disturb the event they update.                                  *)
LEMMA UpdateTraces ==
    ASSUME SettleInv, NEW r \in Requests, NEW id \in Requests, Updated(id) => Updated(id)',
           \/ Rewrite(r) \/ MoveToFront(r)
           \/ \E k \in Scopes : Leave(r, k) \/ (Join(r, k) /\ pc[r] = "sync")
    PROVE  TraceInv(id)'
<1>1. pc[r] \in {"rewrite", "sync"} /\ target[r] # r
    BY DEF Rewrite, MoveToFront, Leave, Join, SettleInv, VisibleInv, TargetInv
<1>2. CASE id = target[r]
    BY <1>1, <1>2, TraceExcused DEF Updated
<1>3. CASE id # target[r]
    <2> USE DEF SettleInv, VisibleInv, TypeInv, TypeOK
    <2>1. UNCHANGED <<prune, warned>> /\ events'[id] = events[id]
        BY <1>3 DEF Rewrite, MoveToFront, Leave, Join
    <2>2. \A k \in Scopes : id \in scopeIndex'[k] => id \in scopeIndex[k]
        <3>1. \/ UNCHANGED scopeIndex
              \/ \E q \in Scopes : scopeIndex' = [scopeIndex EXCEPT ![q] = @ \ {target[r]}]
              \/ \E q \in Scopes : scopeIndex' = [scopeIndex EXCEPT ![q] = @ \union {target[r]}]
            BY DEF Rewrite, MoveToFront, Leave, Join
        <3>2. scopeIndex \in [Scopes -> SUBSET Requests]
            OBVIOUS
        <3> HIDE DEF SettleInv, VisibleInv, TypeInv, TypeOK
        <3> QED
            BY <1>3, <3>1, <3>2
    <2>3. Elements(retention) \subseteq Elements(retention')
        <3>1. CASE UNCHANGED retention
            BY <3>1
        <3>2. CASE retention' = ToFront(retention, target[r])
            BY <3>2, ToFrontCovers
        <3> QED
            BY <3>1, <3>2 DEF Rewrite, MoveToFront, Leave, Join
    <2>4. \A s \in Requests \ {r} : pc'[s] = pc[s] /\ leave'[s] = leave[s]
        BY DEF Rewrite, MoveToFront, Leave, Join, Goto
    <2>5. pc'[r] # "unlist"
        BY <1>1 DEF Rewrite, MoveToFront, Leave, Join, Goto
    <2>6. Accounted(id) => Accounted(id)'
        BY <1>1, <2>1, <2>3, <2>4 DEF Accounted
    <2> QED
        BY <2>1, <2>2, <2>4, <2>5, <2>6, TraceKept
<1> QED
    BY <1>2, <1>3

(* An event being listed is stored, and nobody prunes it yet.              *)
LEMMA JoinTraces ==
    ASSUME SettleInv, NEW r \in Requests, NEW id \in Requests, Updated(id) => Updated(id)',
           NEW k \in Scopes, Join(r, k), pc[r] = "list"
    PROVE  TraceInv(id)'
<1>1. /\ target[r] = r /\ k \in join[r]
      /\ scopeIndex' = [scopeIndex EXCEPT ![k] = @ \union {r}]
      /\ UNCHANGED <<events, retention, pc, prune, leave, warned>>
    BY DEF Join, SettleInv, VisibleInv, TargetInv
<1>2. \A h \in Scopes : \A e \in Requests : e \in scopeIndex'[h] => e \in scopeIndex[h] \/ (h = k /\ e = r)
    BY <1>1 DEF SettleInv, VisibleInv, TypeInv, TypeOK
<1>3. Accounted(id) => Accounted(id)'
    BY <1>1 DEF Accounted
<1>4. CASE id # r
    BY <1>1, <1>2, <1>3, <1>4, TraceKept DEF SettleInv
<1>5. CASE Updated(id) \/ id \in warned
    BY <1>1, <1>5, TraceExcused
<1>6. CASE id = r /\ ~Updated(id) /\ id \notin warned
    <2>1. PastInv(id) /\ ListingInv(id) /\ KeptInv(id)
        BY <1>6 DEF SettleInv, VisibleInv, EventInv, TraceInv
    <2>2. Stored(id) /\ k \in ScopeKeys(events[id].channels)
        BY <1>1, <1>6, <2>1 DEF ListingInv
    <2>3. \A s \in Requests : pc[s] = "unlist" => Head(prune[s]) # id
        BY <1>6, <2>1, HeadPruned DEF PastInv, Past, SettleInv, VisibleInv
    <2>4. KeptInv(id)'
        BY <1>1, <1>2, <1>3, <2>1, <2>2, <2>3 DEF KeptInv, Stored
    <2> QED
        BY <2>4 DEF TraceInv
<1> QED
    BY <1>4, <1>5, <1>6

LEMMA StoreTraces ==
    ASSUME SettleInv, NEW r \in Requests, NEW id \in Requests, Updated(id) => Updated(id)', Store(r)
    PROVE  TraceInv(id)'
<1> DEFINE event == [ext |-> webhook[r].ext, channels |-> webhook[r].channels]
<1>1. /\ pc[r] = "store" /\ pc' = [pc EXCEPT ![r] = "list"]
      /\ events' = [events EXCEPT ![r] = event]
      /\ UNCHANGED <<scopeIndex, retention, prune, leave, warned>>
    BY DEF Store, Goto
<1> HIDE DEF event
<1>2. \A s \in Requests : pc'[s] = IF s = r THEN "list" ELSE pc[s]
    BY <1>1 DEF SettleInv, VisibleInv, TypeInv, TypeOK
<1>3. Accounted(id) => Accounted(id)'
    BY <1>1, <1>2 DEF Accounted
<1>4. CASE id # r
    <2>1. events'[id] = events[id]
        BY <1>1, <1>4 DEF SettleInv, VisibleInv, TypeInv, TypeOK
    <2> QED
        BY <1>1, <1>2, <1>3, <2>1, TraceKept DEF SettleInv
<1>5. CASE Updated(id) \/ id \in warned
    BY <1>1, <1>5, TraceExcused
<1>6. CASE id = r /\ ~Updated(id) /\ id \notin warned
    <2>1. PastInv(id) /\ ListedIn(id) = {}
        BY <1>1, <1>6 DEF SettleInv, VisibleInv, EventInv, ListingInv, Unstored
    <2>2. \A s \in Requests : pc'[s] = "unlist" => Head(prune[s]) # id
        BY <1>1, <1>2, <1>6, <2>1, HeadPruned DEF PastInv, Past, SettleInv, VisibleInv
    <2>3. \A k \in Scopes : id \notin scopeIndex'[k]
        BY <1>1, <2>1 DEF ListedIn
    <2>4. KeptInv(id)'
        BY <1>1, <1>2, <1>6, <2>2, <2>3 DEF KeptInv, Accounted
    <2> QED
        BY <2>4 DEF TraceInv
<1> QED
    BY <1>4, <1>5, <1>6

(* What is cut off the retention index is to be pruned.                    *)
LEMMA RetainTraces ==
    ASSUME SettleInv, NEW r \in Requests, NEW id \in Requests, Updated(id) => Updated(id)', Retain(r)
    PROVE  TraceInv(id)'
<1>1. pc[r] = "list" /\ UNCHANGED <<events, scopeIndex, leave, warned>>
    BY DEF Retain
<1>2. /\ pc'[r] \in {"prune", "created"}
      /\ Elements(retention) \union {r} \subseteq Elements(retention') \union Elements(prune'[r])
      /\ \A s \in Requests \ {r} : pc'[s] = pc[s] /\ prune'[s] = prune[s]
    BY RetainAdvance DEF SettleInv, VisibleInv
<1>3. prune[r] = << >>
    BY <1>1 DEF SettleInv, IdleInv
<1>4. Accounted(id) => Accounted(id)'
    <2>1. CASE id = r \/ id \in Elements(retention)
        BY <1>2, <2>1 DEF Accounted
    <2>2. CASE id # r /\ pc[id] \in {"list", "lost", "error"}
        BY <1>2, <2>2 DEF Accounted
    <2>3. ASSUME NEW s \in Requests, id \in Elements(prune[s]) PROVE Accounted(id)'
        <3>1. s # r
            BY <1>3, <2>3 DEF Elements
        <3> QED
            BY <1>2, <2>3, <3>1 DEF Accounted
    <2> QED
        BY <2>1, <2>2, <2>3 DEF Accounted
<1>5. \A s \in Requests : pc'[s] = "unlist" => pc[s] = "unlist" /\ prune'[s] = prune[s]
    BY <1>2
<1> QED
    BY <1>1, <1>4, <1>5, TraceKept DEF SettleInv

(* An event read is to leave all indexes that list it.                     *)
LEMMA PruneGetTraces ==
    ASSUME SettleInv, NEW r \in Requests, NEW id \in Requests, Updated(id) => Updated(id)', PruneGet(r)
    PROVE  TraceInv(id)'
<1> DEFINE h == Head(prune[r])
           keys == IF events[h] = Missing THEN {} ELSE ScopeKeys(events[h].channels)
<1>1. /\ pc[r] = "prune" /\ pc' = [pc EXCEPT ![r] = "unlist"]
      /\ leave' = [leave EXCEPT ![r] = keys]
      /\ UNCHANGED <<events, scopeIndex, retention, prune, warned>>
    BY DEF PruneGet, Goto, store
<1>2. \A s \in Requests : /\ pc'[s] = IF s = r THEN "unlist" ELSE pc[s]
                          /\ leave'[s] = IF s = r THEN keys ELSE leave[s]
    <2> HIDE DEF keys
    <2> QED
        BY <1>1 DEF SettleInv, VisibleInv, TypeInv, TypeOK
<1>3. Accounted(id) => Accounted(id)'
    BY <1>1, <1>2 DEF Accounted
<1>4. CASE Updated(id) \/ id \in warned
    BY <1>1, <1>4, TraceExcused
<1>5. CASE KeptInv(id)
    <2>1. id = h => ListedIn(id) \subseteq keys
        BY <1>5 DEF KeptInv, ListedIn, Stored
    <2>2. ASSUME NEW s \in Requests, pc'[s] = "unlist", Head(prune[s]) = id
          PROVE  ListedIn(id) \subseteq leave'[s]
        <3>1. CASE s = r
            BY <1>2, <2>1, <2>2, <3>1
        <3>2. CASE s # r
            BY <1>2, <1>5, <2>2, <3>2 DEF KeptInv
        <3> QED
            BY <3>1, <3>2
    <2>3. KeptInv(id)'
        BY <1>1, <1>3, <1>5, <2>2 DEF KeptInv, ListedIn, Stored
    <2> QED
        BY <2>3 DEF TraceInv
<1> QED
    BY <1>4, <1>5 DEF SettleInv, TraceInv

LEMMA UnlistTraces ==
    ASSUME SettleInv, NEW r \in Requests, NEW id \in Requests, Updated(id) => Updated(id)',
           NEW k \in Scopes, Unlist(r, k)
    PROVE  TraceInv(id)'
<1> DEFINE h == Head(prune[r])
<1>1. /\ pc[r] = "unlist" /\ k \in leave[r]
      /\ scopeIndex' = [scopeIndex EXCEPT ![k] = @ \ {h}]
      /\ leave' = [leave EXCEPT ![r] = @ \ {k}]
      /\ UNCHANGED <<events, retention, pc, prune, warned>>
    BY DEF Unlist
<1> HIDE DEF h
<1>2. \A g \in Scopes : \A e \in Requests :
        e \in scopeIndex'[g] <=> e \in scopeIndex[g] /\ ~(g = k /\ e = h)
    BY <1>1 DEF SettleInv, VisibleInv, TypeInv, TypeOK
<1>3. \A s \in Requests : leave'[s] = IF s = r THEN leave[r] \ {k} ELSE leave[s]
    BY <1>1 DEF SettleInv, VisibleInv, TypeInv, TypeOK
<1>4. Accounted(id) => Accounted(id)'
    BY <1>1 DEF Accounted
<1>5. CASE Updated(id) \/ id \in warned
    BY <1>1, <1>5, TraceExcused
<1>6. CASE KeptInv(id)
    <2>1. ASSUME NEW s \in Requests, pc[s] = "unlist", Head(prune[s]) = id
          PROVE  ListedIn(id)' \subseteq leave'[s]
        <3>1. ListedIn(id) \subseteq leave[s]
            BY <1>6, <2>1 DEF KeptInv
        <3>2. ListedIn(id)' \subseteq ListedIn(id) /\ (id = h => k \notin ListedIn(id)')
            BY <1>2 DEF ListedIn
        <3>3. s = r => id = h
            BY <2>1 DEF h
        <3> QED
            BY <1>3, <3>1, <3>2, <3>3
    <2>2. KeptInv(id)'
        BY <1>1, <1>2, <1>4, <1>6, <2>1 DEF KeptInv, Stored
    <2> QED
        BY <2>2 DEF TraceInv
<1> QED
    BY <1>5, <1>6 DEF SettleInv, TraceInv

(* Going on to the next one forgets the first only.                        *)
LEMMA AdvanceAccounts ==
    ASSUME TypeInv, NEW r \in Requests, pc[r] = "unlist", NextPruned(r), UNCHANGED retention,
           NEW id \in Requests, id # Head(prune[r])
    PROVE  Accounted(id) => Accounted(id)'
<1>1. /\ prune'[r] = Tail(prune[r])
      /\ \A s \in Requests \ {r} : pc'[s] = pc[s] /\ prune'[s] = prune[s]
    BY PrunedAdvance
<1>2. Elements(prune[r]) \subseteq Elements(prune'[r]) \union {Head(prune[r])}
    BY <1>1, HeadPruned, TailCovers
<1>3. ASSUME NEW s \in Requests, id \in Elements(prune[s]) PROVE id \in Elements(prune'[s])
    BY <1>1, <1>2, <1>3
<1> QED
    BY <1>1, <1>3 DEF Accounted

LEMMA DeleteTraces ==
    ASSUME SettleInv, NEW r \in Requests, NEW id \in Requests, Updated(id) => Updated(id)', Delete(r)
    PROVE  TraceInv(id)'
<1> DEFINE h == Head(prune[r])
<1>1. /\ pc[r] = "unlist" /\ leave[r] = {} /\ NextPruned(r)
      /\ events' = [events EXCEPT ![h] = Missing]
      /\ UNCHANGED <<scopeIndex, retention, leave, warned>>
    BY DEF Delete
<1>2. /\ pc'[r] # "unlist"
      /\ \A s \in Requests \ {r} : pc'[s] = pc[s] /\ prune'[s] = prune[s]
    BY <1>1, PrunedAdvance DEF SettleInv, VisibleInv
<1>3. CASE Updated(id) \/ id \in warned
    BY <1>1, <1>3, TraceExcused
<1>4. CASE id # h
    <2>1. events'[id] = events[id]
        <3> HIDE DEF h
        <3> QED
            BY <1>1, <1>4 DEF SettleInv, VisibleInv, TypeInv, TypeOK
    <2>2. Accounted(id) => Accounted(id)'
        BY <1>1, <1>4, AdvanceAccounts DEF SettleInv, VisibleInv
    <2> QED
        BY <1>1, <1>2, <2>1, <2>2, TraceKept DEF SettleInv
<1>5. CASE KeptInv(id) /\ id = h
    <2>1. ListedIn(id) = {}
        BY <1>1, <1>5 DEF KeptInv
    <2>2. ~Stored(id)'
        <3> HIDE DEF h
        <3> QED
            BY <1>1, <1>5 DEF SettleInv, VisibleInv, TypeInv, TypeOK, Stored
    <2>3. ListedIn(id)' = {} /\ \A k \in Scopes : id \notin scopeIndex'[k]
        BY <1>1, <2>1 DEF ListedIn
    <2>4. KeptInv(id)'
        BY <2>2, <2>3 DEF KeptInv
    <2> QED
        BY <2>4 DEF TraceInv
<1> QED
    BY <1>3, <1>4, <1>5 DEF SettleInv, TraceInv

(* A pruning that fails is logged, and disturbs no other event.            *)
LEMMA FailedTraces ==
    ASSUME SettleInv, NEW r \in Requests, NEW id \in Requests, Updated(id) => Updated(id)',
           PruneGetFails(r) \/ UnlistFails(r) \/ DeleteFails(r)
    PROVE  TraceInv(id)'
<1>1. /\ warned' = warned \union {Head(prune[r])}
      /\ UNCHANGED <<events, scopeIndex, retention>>
    BY DEF PruneGetFails, UnlistFails, DeleteFails, store
<1>2. CASE id = Head(prune[r])
    BY <1>1, <1>2, TraceExcused
<1>3. CASE id # Head(prune[r]) /\ DeleteFails(r)
    <2>1. pc[r] = "unlist" /\ NextPruned(r) /\ UNCHANGED leave
        BY <1>3 DEF DeleteFails
    <2>2. /\ pc'[r] # "unlist"
          /\ \A s \in Requests \ {r} : pc'[s] = pc[s] /\ prune'[s] = prune[s]
        BY <2>1, PrunedAdvance DEF SettleInv, VisibleInv
    <2>3. Accounted(id) => Accounted(id)'
        BY <1>1, <1>3, <2>1, AdvanceAccounts DEF SettleInv, VisibleInv
    <2> QED
        BY <1>1, <2>1, <2>2, <2>3, TraceKept DEF SettleInv
<1>4. CASE id # Head(prune[r]) /\ (PruneGetFails(r) \/ UnlistFails(r))
    <2>1. /\ UNCHANGED prune /\ leave' = [leave EXCEPT ![r] = {}]
          /\ pc[r] \in {"prune", "unlist"} /\ pc' = [pc EXCEPT ![r] = "unlist"]
        BY <1>4 DEF PruneGetFails, UnlistFails, Goto, SettleInv, VisibleInv, TypeInv, TypeOK
    <2>2. \A s \in Requests \ {r} : pc'[s] = pc[s] /\ leave'[s] = leave[s]
        BY <2>1 DEF SettleInv, VisibleInv, TypeInv, TypeOK
    <2>3. Accounted(id) => Accounted(id)'
        BY <1>1, <2>1, <2>2 DEF Accounted
    <2> QED
        BY <1>1, <1>4, <2>1, <2>2, <2>3, TraceKept DEF SettleInv
<1> QED
    BY <1>2, <1>3, <1>4

LEMMA StepSettleInv == SettleInv /\ VisibleInv' /\ [Next]_vars => SettleInv'
<1> SUFFICES ASSUME SettleInv, [Next]_vars PROVE IdleInv' /\ \A id \in Requests : TraceInv(id)'
    BY DEF SettleInv
<1>1. IdleInv'
    BY IdleStep DEF SettleInv, VisibleInv
<1>2. ASSUME NEW id \in Requests PROVE TraceInv(id)'
    <2>1. Updated(id) => Updated(id)'
        BY TargetsKept DEF SettleInv
    <2>2. ASSUME NEW r \in Requests, Step(r) PROVE TraceInv(id)'
        <3>1. CASE Lookup(r) \/ GetExisting(r) \/ Claim(r) \/ Unclaim(r)
            BY <2>1, <3>1, QuietTraces
        <3>2. CASE Rewrite(r) \/ MoveToFront(r) \/ \E k \in Scopes : Leave(r, k)
            BY <2>1, <3>2, UpdateTraces
        <3>3. ASSUME NEW k \in Scopes, Join(r, k) PROVE TraceInv(id)'
            <4>1. pc[r] \in {"sync", "list"}
                BY <3>3 DEF Join
            <4> QED
                BY <2>1, <3>3, <4>1, UpdateTraces, JoinTraces
        <3>4. CASE Store(r) \/ Retain(r)
            BY <2>1, <3>4, StoreTraces, RetainTraces
        <3>5. CASE PruneGet(r) \/ Delete(r)
            BY <2>1, <3>5, PruneGetTraces, DeleteTraces
        <3>6. CASE \E k \in Scopes : Unlist(r, k)
            BY <2>1, <3>6, UnlistTraces
        <3> QED
            BY <2>2, <3>1, <3>2, <3>3, <3>4, <3>5, <3>6 DEF Step
    <2>3. ASSUME NEW r \in Requests, Fault(r) PROVE TraceInv(id)'
        BY <2>1, <2>3, QuietTraces, FailedTraces DEF Fault
    <2>4. CASE (\E n \in Limits : SetMaxEvents(n)) \/ UNCHANGED vars
        <3>1. UNCHANGED <<events, scopeIndex, retention, pc, prune, leave, warned>>
            BY <2>4 DEF SetMaxEvents, vars, store
        <3> QED
            BY <2>1, <3>1, TraceKept DEF Accounted, SettleInv
    <2> QED
        BY <2>2, <2>3, <2>4 DEF Next
<1> QED
    BY <1>1, <1>2

LEMMA SettleInvariance == Spec => []SettleInv
BY InitSettleInv, StepSettleInv, VisibleInvariance, PTL DEF Spec

(* A feed that follows a listed ID finds the event, and in a scope it is   *)
(* meant for, with KV errors, indexes lost to contention and dying nodes:  *)
(* an event is stored before it is listed, and unlisted everywhere before  *)
(* it is deleted (store.go:367-402, 587-610).  Excepted are events that    *)
(* other deliveries update, and prunings that failed and were logged.      *)
THEOREM ListedAreStored == Spec => []ListedIsStored
<1>1. SettleInv => ListedIsStored
    BY DEF SettleInv, TraceInv, KeptInv, ListedIsStored
<1> QED
    BY <1>1, SettleInvariance, PTL

(* Once everything has been answered, an event answered 201 is retained    *)
(* and listed in exactly its scopes or pruned without trace, and any other *)
(* is not retained, nor stored unless its insertion failed (store.go:      *)
(* 367-402, 538-553, 587-610), with the same exceptions.                   *)
THEOREM SettledConsistently == Spec => []SettledIsConsistent
<1>1. SettleInv /\ MappingInv => SettledIsConsistent
    <2> SUFFICES ASSUME SettleInv, MappingInv, Settled, NEW id \in Requests,
                        ~Updated(id), id \notin warned
                 PROVE  \/ /\ pc[id] = "created"
                           /\ Stored(id) <=> id \in Elements(retention)
                           /\ ListedIn(id) = IF Stored(id) THEN ScopeKeys(events[id].channels) ELSE {}
                        \/ /\ pc[id] # "created"
                           /\ id \notin Elements(retention)
                           /\ Stored(id) => pc[id] = "error"
        BY DEF SettledIsConsistent
    <2>1. pc[id] \in Answered /\ \A r \in Requests : id \notin Elements(prune[r])
        <3>1. \A r \in Requests : prune[r] = << >>
            BY DEF Settled, Answered, SettleInv, IdleInv
        <3> QED
            BY <3>1 DEF Settled, Elements
    <2>2. KeptInv(id) /\ PastInv(id) /\ (id \in Elements(retention) => Visible(id))
        BY DEF SettleInv, VisibleInv, EventInv, TraceInv
    <2>3. Stored(id) => pc[id] \in {"created", "error"}
        BY <2>1 DEF MappingInv, StoredInv, OwnInv, HasStored, Answered
    <2>4. CASE pc[id] = "created"
        <3>1. Stored(id) => id \in Elements(retention)
            BY <2>1, <2>2, <2>4 DEF KeptInv, Accounted
        <3>2. ~Stored(id) => ListedIn(id) = {}
            BY <2>2 DEF KeptInv, ListedIn
        <3> QED
            BY <2>2, <2>4, <3>1, <3>2 DEF Visible
    <2>5. CASE pc[id] # "created"
        <3>1. id \notin Elements(retention)
            BY <2>1, <2>2, <2>5 DEF PastInv, Past, Answered
        <3> QED
            BY <2>3, <2>5, <3>1
    <2> QED
        BY <2>4, <2>5
<1> QED
    BY <1>1, SettleInvariance, MappingInvariance, PTL
=============================================================================
