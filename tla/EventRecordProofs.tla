------------------------- MODULE EventRecordProofs -------------------------
(***************************************************************************)
(* Proofs about EventRecord: reactions of concurrent requests are neither  *)
(* lost nor doubled, never undo an update, are published, and are rejected *)
(* under contention only, for any number of requests, users and links and  *)
(* any retry limit.                                                        *)
(***************************************************************************)
EXTENDS EventRecord, FiniteSetTheorems, TLAPS

(* A reaction appended to a list that lacks the user.                      *)
LEMMA AddedFacts ==
    ASSUME NEW users \in Seq(Users), NEW u \in Users, NoRepeats(users)
    PROVE  /\ Added(users, u) \in Seq(Users)
           /\ NoRepeats(Added(users, u))
           /\ u \in Elements(Added(users, u))
           /\ \A v : v # u => (v \in Elements(Added(users, u)) <=> v \in Elements(users))
           /\ Added(users, u) = users => u \in Elements(users)
  <1>1. CASE u \in Elements(users)
    BY <1>1 DEF Added
  <1>2. CASE u \notin Elements(users)
    <2> DEFINE new == Append(users, u)
    <2>1. /\ new \in Seq(Users)
          /\ Len(new) = Len(users) + 1
          /\ DOMAIN new = 1 .. Len(users) + 1
          /\ DOMAIN users = 1 .. Len(users)
          /\ Len(users) \in Nat
      OBVIOUS
    <2>2. /\ \A i \in 1 .. Len(users) : new[i] = users[i]
          /\ new[Len(users) + 1] = u
      OBVIOUS
    <2>3. NoRepeats(new)
      BY <1>2, <2>1, <2>2 DEF NoRepeats, Elements
    <2>4. u \in Elements(new)
      BY <2>1, <2>2 DEF Elements
    <2>5. \A v : v # u => (v \in Elements(new) <=> v \in Elements(users))
      BY <2>1, <2>2 DEF Elements
    <2>6. new # users
      <3>1. Len(users) + 1 \in DOMAIN new /\ Len(users) + 1 \notin DOMAIN users
        BY <2>1
      <3> QED
        BY <3>1
    <2>7. Added(users, u) = new
      BY <1>2 DEF Added
    <2> QED
      BY <2>1, <2>3, <2>4, <2>5, <2>6, <2>7
  <1> QED
    BY <1>1, <1>2

(* A reaction taken out of a list that holds the user at most once.        *)
LEMMA DroppedFacts ==
    ASSUME NEW users \in Seq(Users), NEW u \in Users, NoRepeats(users)
    PROVE  /\ Dropped(users, u) \in Seq(Users)
           /\ NoRepeats(Dropped(users, u))
           /\ u \notin Elements(Dropped(users, u))
           /\ \A v : v # u => (v \in Elements(Dropped(users, u)) <=> v \in Elements(users))
           /\ Dropped(users, u) = users => u \notin Elements(users)
  <1>1. CASE u \notin Elements(users)
    BY <1>1 DEF Dropped
  <1>2. CASE u \in Elements(users)
    <2> DEFINE at == CHOOSE i \in DOMAIN users : users[i] = u
               new == [i \in 1 .. Len(users) - 1 |-> IF i < at THEN users[i] ELSE users[i + 1]]
    <2>1. at \in 1 .. Len(users) /\ users[at] = u /\ Len(users) \in Nat
      BY <1>2 DEF Elements
    <2>2. Dropped(users, u) = new
      BY <1>2 DEF Dropped
    <2> HIDE DEF at
    <2>3. Len(users) - 1 \in Nat
      BY <2>1
    <2>4. \A i \in 1 .. Len(users) - 1 : i \in 1 .. Len(users) /\ i + 1 \in 1 .. Len(users)
      BY <2>1
    <2>5. new \in [1 .. Len(users) - 1 -> Users]
      BY <2>4
    <2>6. new \in Seq(Users) /\ Len(new) = Len(users) - 1 /\ DOMAIN new = 1 .. Len(users) - 1
      BY <2>3, <2>5
    <2>7. NoRepeats(new)
      <3> SUFFICES ASSUME NEW i \in 1 .. Len(users) - 1, NEW j \in 1 .. Len(users) - 1, new[i] = new[j]
                   PROVE  i = j
        BY <2>6 DEF NoRepeats
      <3> DEFINE old(k) == IF k < at THEN k ELSE k + 1
      <3>1. old(i) \in DOMAIN users /\ old(j) \in DOMAIN users /\ users[old(i)] = users[old(j)]
        BY <2>1, <2>4
      <3>2. old(i) = old(j)
        BY <3>1 DEF NoRepeats
      <3> QED
        BY <2>1, <3>2
    <2>8. \A i \in 1 .. Len(users) - 1 : new[i] # u
      <3> SUFFICES ASSUME NEW i \in 1 .. Len(users) - 1, new[i] = u PROVE FALSE
        OBVIOUS
      <3> DEFINE k == IF i < at THEN i ELSE i + 1
      <3>1. k \in DOMAIN users /\ users[k] = u /\ k # at
        BY <2>1, <2>4
      <3> QED
        BY <2>1, <3>1 DEF NoRepeats
    <2>9. u \notin Elements(new)
      BY <2>6, <2>8 DEF Elements
    <2>10. ASSUME NEW v, v # u PROVE v \in Elements(new) <=> v \in Elements(users)
      <3>1. ASSUME v \in Elements(new) PROVE v \in Elements(users)
        BY <2>4, <2>6, <3>1 DEF Elements
      <3>2. ASSUME v \in Elements(users) PROVE v \in Elements(new)
        <4>1. PICK i \in 1 .. Len(users) : users[i] = v
          BY <3>2 DEF Elements
        <4>2. i # at
          BY <2>1, <2>10, <4>1
        <4>3. CASE i < at
          <5>1. i \in 1 .. Len(users) - 1 /\ new[i] = v
            BY <2>1, <4>1, <4>3
          <5> QED
            BY <2>6, <5>1 DEF Elements
        <4>4. CASE i > at
          <5>1. i - 1 \in 1 .. Len(users) - 1 /\ ~(i - 1 < at) /\ (i - 1) + 1 = i
            BY <2>1, <4>1, <4>4
          <5>2. new[i - 1] = v
            BY <4>1, <5>1
          <5> QED
            BY <2>6, <5>1, <5>2 DEF Elements
        <4> QED
          BY <2>1, <4>2, <4>3, <4>4
      <3> QED
        BY <3>1, <3>2
    <2>11. new # users
      <3>1. Len(new) # Len(users)
        BY <2>1, <2>6
      <3> QED
        BY <3>1
    <2> QED
      BY <2>2, <2>6, <2>7, <2>9, <2>10, <2>11
  <1> QED
    BY <1>1, <1>2

-----------------------------------------------------------------------------
(* What the loop keeps true of every request: where it is fits what it     *)
(* does, and the copy it works on is a record in which nobody reacted      *)
(* twice.                                                                  *)
LocalInv ==
    \A r \in Requests :
        /\ pc[r] \in {"authorize", "get", "cas", "refused", "conflict"} => IsReaction(r)
        /\ pc[r] \in {"read", "set"} => IsUpdate(r)
        /\ pc[r] = "delete" => op[r].kind = "prune"
        /\ pc[r] \in {"cas", "set", "publish"} => copy[r] # Missing
        /\ pc[r] = "authorize" => attempt[r] = 0
        /\ copy[r] # Missing => NoRepeats(copy[r].users)

RecordInv == TypeOK /\ LocalInv /\ NoUserTwice

(* The callbacks map records to records in which nobody reacted twice.     *)
LEMMA ReactedFacts ==
    ASSUME NEW o \in Ops, o.kind \in {"add", "remove"}, NEW e \in Records, NoRepeats(e.users)
    PROVE  /\ Reacted(o, e) \in Records
           /\ NoRepeats(Reacted(o, e).users)
           /\ Reacted(o, e).text = e.text
           /\ Reacted(o, e).links = e.links
           /\ (o.kind = "add") <=> (o.user \in Elements(Reacted(o, e).users))
           /\ \A v : v # o.user => (v \in Elements(Reacted(o, e).users) <=> v \in Elements(e.users))
  <1>1. o.user \in Users
    BY OpsAssumption
  <1>2. e.users \in Seq(Users)
    BY DEF Records
  <1>3. CASE o.kind = "add"
    <2>1. Reacted(o, e) = [e EXCEPT !.users = Added(e.users, o.user)]
      BY <1>3 DEF Reacted
    <2>2. Added(e.users, o.user) \in Seq(Users)
      BY <1>1, <1>2, AddedFacts
    <2>3. /\ Reacted(o, e) \in Records
          /\ Reacted(o, e).users = Added(e.users, o.user)
          /\ Reacted(o, e).text = e.text
          /\ Reacted(o, e).links = e.links
      BY <2>1, <2>2 DEF Records
    <2> QED
      BY <1>1, <1>2, <1>3, <2>3, AddedFacts
  <1>4. CASE o.kind = "remove"
    <2>1. Reacted(o, e) = [e EXCEPT !.users = Dropped(e.users, o.user)]
      BY <1>4 DEF Reacted
    <2>2. Dropped(e.users, o.user) \in Seq(Users)
      BY <1>1, <1>2, DroppedFacts
    <2>3. /\ Reacted(o, e) \in Records
          /\ Reacted(o, e).users = Dropped(e.users, o.user)
          /\ Reacted(o, e).text = e.text
          /\ Reacted(o, e).links = e.links
      BY <2>1, <2>2 DEF Records
    <2> QED
      BY <1>1, <1>2, <1>4, <2>3, DroppedFacts
  <1> QED
    BY <1>3, <1>4

(* Updates keep the reactions of the copy.                                 *)
LEMMA UpdatedFacts ==
    ASSUME NEW r \in Requests, op \in [Requests -> Ops], NEW e \in Records
    PROVE  /\ Updated(r, e) \in Records
           /\ Updated(r, e).users = e.users
           /\ Updated(r, e).text = r
  <1>1. op[r].links \subseteq Links
    BY OpsAssumption
  <1>2. e.links \in SUBSET Links
    BY DEF Records
  <1> DEFINE l == IF op[r].kind = "merge" THEN e.links \union op[r].links ELSE op[r].links
  <1>3. l \in SUBSET Links
    BY <1>1, <1>2
  <1> QED
    BY <1>3 DEF Records, Updated

LEMMA InitRecordInv == Init => RecordInv
  <1> SUFFICES ASSUME Init PROVE RecordInv
    OBVIOUS
  <1>1. record \in Records /\ NoRepeats(record.users) /\ record.users \in Seq(Users)
    BY InitialRecordsAssumption DEF Init, Records
  <1>2. \A r \in Requests :
          /\ op[r] \in Ops
          /\ op[r].kind \in Kinds
          /\ pc[r] = Start(op[r])
          /\ attempt[r] = 0
          /\ copy[r] = Missing
    BY OpsAssumption DEF Init
  <1>3. \A r \in Requests :
          /\ IsReaction(r) => pc[r] = "authorize"
          /\ IsUpdate(r) => pc[r] = "read"
          /\ op[r].kind = "prune" => pc[r] = "delete"
          /\ IsReaction(r) \/ IsUpdate(r) \/ op[r].kind = "prune"
    BY <1>2 DEF Start, IsReaction, IsUpdate, Kinds
  <1>4. LocalInv
    BY <1>2, <1>3 DEF LocalInv
  <1>5. TypeOK
    <2>1. pc \in [Requests -> {"authorize", "read", "delete"}]
      BY <1>3 DEF Init
    <2> QED
      BY <1>1, <1>2, <2>1, MaxRetriesAssumption DEF Init, TypeOK, Answered, Places
  <1> QED
    BY <1>1, <1>4, <1>5 DEF RecordInv, NoUserTwice

(* Only CompareAndSet, Set and Delete write the record.                    *)
LEMMA StepRecordInv == RecordInv /\ [Next]_vars => RecordInv'
  <1> SUFFICES ASSUME RecordInv, [Next]_vars PROVE RecordInv'
    OBVIOUS
  <1> USE MaxRetriesAssumption, MissingAssumption
      DEF RecordInv, TypeOK, LocalInv, NoUserTwice, Answered, Places, Goto, IsReaction, IsUpdate
  <1>1. ASSUME NEW r \in Requests, Authorize(r) PROVE RecordInv'
    BY <1>1 DEF Authorize
  <1>2. ASSUME NEW r \in Requests, Get(r) PROVE RecordInv'
    BY <1>2 DEF Get
  <1>3. ASSUME NEW r \in Requests, CompareAndSet(r) PROVE RecordInv'
    <2>1. /\ op[r] \in Ops /\ op[r].kind \in {"add", "remove"}
          /\ copy[r] \in Records /\ NoRepeats(copy[r].users)
      BY <1>3 DEF CompareAndSet
    <2>2. Reacted(op[r], copy[r]) \in Records /\ NoRepeats(Reacted(op[r], copy[r]).users)
      BY <2>1, ReactedFacts
    <2> QED
      BY <1>3, <2>2 DEF CompareAndSet
  <1>4. ASSUME NEW r \in Requests, Conflict(r) PROVE RecordInv'
    BY <1>4 DEF Conflict
  <1>5. ASSUME NEW r \in Requests, Read(r) PROVE RecordInv'
    BY <1>5 DEF Read
  <1>6. ASSUME NEW r \in Requests, Set(r) PROVE RecordInv'
    <2>1. copy[r] \in Records /\ NoRepeats(copy[r].users)
      BY <1>6 DEF Set
    <2>2. Updated(r, copy[r]) \in Records /\ NoRepeats(Updated(r, copy[r]).users)
      BY <2>1, UpdatedFacts
    <2> QED
      BY <1>6, <2>2 DEF Set
  <1>7. ASSUME NEW r \in Requests, Publish(r) PROVE RecordInv'
    <2> DEFINE list == IF IsReaction(r) THEN Reacted(op[r], copy[r]).users ELSE copy[r].users
    <2>1. copy[r] \in Records /\ NoRepeats(copy[r].users) /\ op[r] \in Ops
      BY <1>7 DEF Publish
    <2>2. IsReaction(r) => Reacted(op[r], copy[r]) \in Records
      BY <2>1, ReactedFacts
    <2>3. list \in Seq(Users)
      BY <2>1, <2>2 DEF Records
    <2> HIDE DEF list
    <2>4. sent' = sent \union {list} /\ pc[r] = "publish" /\ pc' = [pc EXCEPT ![r] = "ok"]
      BY <1>7 DEF Publish, list
    <2> QED
      BY <1>7, <2>3, <2>4 DEF Publish
  <1>8. ASSUME NEW r \in Requests, Delete(r) PROVE RecordInv'
    BY <1>8 DEF Delete
  <1>9. ASSUME NEW r \in Requests, KVError(r) PROVE RecordInv'
    BY <1>9 DEF KVError
  <1>10. CASE UNCHANGED vars
    BY <1>10 DEF vars
  <1> QED
    BY <1>1, <1>2, <1>3, <1>4, <1>5, <1>6, <1>7, <1>8, <1>9, <1>10 DEF Next, Step

LEMMA RecordInvariance == Spec => []RecordInv
  BY InitRecordInv, StepRecordInv, PTL DEF Spec

(* The record and every request's local state are well-formed.             *)
THEOREM TypeCorrect == Spec => []TypeOK
  <1>1. RecordInv => TypeOK
    BY DEF RecordInv
  <1> QED
    BY <1>1, RecordInvariance, PTL

(* No user is ever listed twice under an icon.                             *)
THEOREM ReactsOnce == Spec => []NoUserTwice
  <1>1. RecordInv => NoUserTwice
    BY DEF RecordInv
  <1> QED
    BY <1>1, RecordInvariance, PTL

-----------------------------------------------------------------------------
(* The argument that no reaction is lost.  A step that leaves record and   *)
(* the set of requests that are done as they are keeps NoLostReaction; Get *)
(* and CompareAndSet add a request to that set whose reaction the record   *)
(* then shows; Set makes SetByUpdate true, for good, and Delete leaves no  *)
(* record.                                                                 *)
Shows(r, e) == (op[r].kind = "add") <=> (op[r].user \in Elements(e.users))

Contrary(r, s) == IsReaction(s) /\ op[s].user = op[r].user /\ op[s].kind # op[r].kind

LEMMA StepNoLostReaction ==
    RecordInv /\ NoLostReaction /\ [Next]_vars => NoLostReaction'
  <1> SUFFICES ASSUME RecordInv, NoLostReaction, [Next]_vars, (record # Missing /\ ~SetByUpdate)',
                      NEW q \in Requests, Done(q)', IsReaction(q)'
               PROVE  Shows(q, record)' \/ \E s \in Requests : Done(s)' /\ Contrary(q, s)'
    BY DEF NoLostReaction, Shows, Contrary
  <1>1. op' = op /\ op \in [Requests -> Ops] /\ pc \in [Requests -> Places]
    <2>1. op' = op
      BY DEF Next, Step, vars, Authorize, Get, CompareAndSet, Conflict, Read, Set, Publish, Delete,
             KVError
    <2> QED
      BY <2>1 DEF RecordInv, TypeOK
  <1>2. ASSUME record' = record, \A s \in Requests : Done(s) <=> Done(s)', ~SetByUpdate
        PROVE  Shows(q, record)' \/ \E s \in Requests : Done(s)' /\ Contrary(q, s)'
    BY <1>1, <1>2 DEF NoLostReaction, Shows, Contrary, IsReaction
  <1>3. SetByUpdate => SetByUpdate'
    <2> SUFFICES ASSUME NEW s \in Requests, IsUpdate(s), pc[s] \in {"publish", "ok", "error"}
                 PROVE  pc'[s] \in {"publish", "ok", "error"}
      BY <1>1 DEF SetByUpdate, IsUpdate
    <2> QED
      BY <1>1 DEF Next, Step, vars, Goto, Authorize, Get, CompareAndSet, Conflict, Read, Set,
                  Publish, Delete, KVError
  <1>4. ASSUME NEW r \in Requests, Authorize(r) \/ Conflict(r) \/ Read(r)
        PROVE  Shows(q, record)' \/ \E s \in Requests : Done(s)' /\ Contrary(q, s)'
    BY <1>1, <1>2, <1>3, <1>4 DEF Authorize, Conflict, Read, Goto, Done
  <1>5. ASSUME NEW r \in Requests, Publish(r)
        PROVE  Shows(q, record)' \/ \E s \in Requests : Done(s)' /\ Contrary(q, s)'
    BY <1>1, <1>2, <1>3, <1>5 DEF Publish, Goto, Done
  <1>6. ASSUME NEW r \in Requests, KVError(r)
        PROVE  Shows(q, record)' \/ \E s \in Requests : Done(s)' /\ Contrary(q, s)'
    <2>1. CASE pc[r] = "publish" /\ IsUpdate(r)
      BY <1>3, <2>1 DEF SetByUpdate
    <2>2. CASE pc[r] # "publish"
      BY <1>1, <1>2, <1>3, <1>6, <2>2 DEF KVError, Goto, Done
    <2> QED
      BY <1>6, <2>1, <2>2 DEF KVError
  <1>7. ASSUME NEW r \in Requests, Set(r) PROVE FALSE
    BY <1>1, <1>7 DEF Set, Goto, SetByUpdate, RecordInv, LocalInv, IsUpdate
  <1>8. ASSUME NEW r \in Requests, Delete(r) PROVE FALSE
    BY <1>8 DEF Delete
  <1>9. ASSUME NEW r \in Requests, Get(r)
        PROVE  Shows(q, record)' \/ \E s \in Requests : Done(s)' /\ Contrary(q, s)'
    <2>1. CASE pc'[r] # "publish"
      BY <1>1, <1>2, <1>3, <1>9, <2>1 DEF Get, Goto, Done
    <2>2. CASE pc'[r] = "publish"
      <3>1. /\ op[r] \in Ops /\ op[r].kind \in {"add", "remove"}
            /\ record \in Records /\ NoRepeats(record.users)
            /\ Reacted(op[r], record) = record /\ record' = record
        BY <1>1, <1>9, <2>2 DEF Get, Goto, RecordInv, TypeOK, LocalInv, NoUserTwice, IsReaction
      <3>2. Shows(r, record)
        BY <3>1, ReactedFacts DEF Shows
      <3>3. CASE q = r
        BY <1>1, <3>1, <3>2, <3>3 DEF Shows
      <3>4. CASE q # r
        <4>1. Done(q) /\ IsReaction(q) /\ \A s \in Requests : Done(s) => Done(s)'
          BY <1>1, <1>9, <3>4 DEF Get, Goto, Done, IsReaction
        <4> QED
          BY <1>1, <1>3, <3>1, <4>1 DEF NoLostReaction, Shows, Contrary, IsReaction
      <3> QED
        BY <3>3, <3>4
    <2> QED
      BY <2>1, <2>2
  <1>10. ASSUME NEW r \in Requests, CompareAndSet(r)
         PROVE  Shows(q, record)' \/ \E s \in Requests : Done(s)' /\ Contrary(q, s)'
    <2>1. /\ op[r] \in Ops /\ op[r].kind \in {"add", "remove"} /\ IsReaction(r)
          /\ record \in Records /\ NoRepeats(record.users) /\ record # Missing
          /\ record' = Reacted(op[r], record)
      BY <1>1, <1>10 DEF CompareAndSet, RecordInv, TypeOK, LocalInv, NoUserTwice, IsReaction
    <2>2. Done(r)' /\ \A s \in Requests : Done(s) => Done(s)'
      BY <1>1, <1>10 DEF CompareAndSet, Goto, Done
    <2>3. /\ (op[r].kind = "add") <=> (op[r].user \in Elements(record'.users))
          /\ \A v : v # op[r].user => (v \in Elements(record'.users) <=> v \in Elements(record.users))
      BY <2>1, ReactedFacts
    <2>4. CASE op[q].user = op[r].user /\ op[q].kind = op[r].kind
      BY <1>1, <2>3, <2>4 DEF Shows
    <2>5. CASE op[q].user = op[r].user /\ op[q].kind # op[r].kind
      BY <1>1, <2>1, <2>2, <2>5 DEF Contrary, IsReaction
    <2>6. CASE op[q].user # op[r].user
      <3>1. q # r /\ Done(q) /\ IsReaction(q)
        BY <1>1, <1>10, <2>6 DEF CompareAndSet, Goto, Done, IsReaction
      <3>2. Shows(q, record) \/ \E s \in Requests : Done(s) /\ Contrary(q, s)
        BY <1>3, <2>1, <3>1 DEF NoLostReaction, Shows, Contrary
      <3>3. CASE Shows(q, record)
        BY <1>1, <2>3, <2>6, <3>3 DEF Shows
      <3>4. CASE \E s \in Requests : Done(s) /\ Contrary(q, s)
        BY <1>1, <2>2, <3>4 DEF Contrary, IsReaction
      <3> QED
        BY <3>2, <3>3, <3>4
    <2> QED
      BY <2>4, <2>5, <2>6
  <1>11. CASE UNCHANGED vars
    BY <1>1, <1>2, <1>3, <1>11 DEF vars, Done
  <1> QED
    BY <1>4, <1>5, <1>6, <1>7, <1>8, <1>9, <1>10, <1>11 DEF Next, Step

(* However many requests race, only a webhook update can undo a reaction   *)
(* that was answered without error.                                        *)
THEOREM ReactionsKept == Spec => []NoLostReaction
  <1>1. Init => NoLostReaction
    <2> SUFFICES ASSUME Init, NEW r \in Requests PROVE ~Done(r)
      BY DEF NoLostReaction
    <2>1. pc[r] \in {"authorize", "read", "delete"}
      BY OpsAssumption DEF Init, Start, Kinds
    <2> QED
      BY <2>1 DEF Done
  <1> QED
    BY <1>1, StepNoLostReaction, RecordInvariance, PTL DEF Spec

(* A reaction never undoes an update and never revives a pruned event.     *)
THEOREM UpdatesAlone == Spec => OnlyUpdatesRewrite
  <1> DEFINE Rewritten == record' # Missing /\ (record = Missing \/ record'.text # record.text)
             BySet == \E r \in Requests : IsUpdate(r) /\ pc[r] = "set" /\ record'.text = r
  <1>1. RecordInv /\ [Next]_vars => (Rewritten => BySet) \/ UNCHANGED vars
    <2> SUFFICES ASSUME RecordInv, Next, Rewritten PROVE BySet
      BY DEF vars
    <2>1. CASE \E r \in Requests : Set(r)
      <3>1. PICK r \in Requests : Set(r)
        BY <2>1
      <3>2. IsUpdate(r) /\ pc[r] = "set" /\ record' = Updated(r, copy[r])
        BY <3>1 DEF Set, RecordInv, LocalInv
      <3>3. record'.text = r
        BY <3>2 DEF Updated
      <3> QED
        BY <3>2, <3>3
    <2>2. CASE \E r \in Requests : CompareAndSet(r)
      <3>1. PICK r \in Requests : CompareAndSet(r)
        BY <2>2
      <3>2. /\ op[r] \in Ops /\ op[r].kind \in {"add", "remove"}
            /\ record \in Records /\ NoRepeats(record.users) /\ record # Missing
            /\ record' = Reacted(op[r], record)
        BY <3>1 DEF CompareAndSet, RecordInv, TypeOK, LocalInv, NoUserTwice, IsReaction
      <3>3. record'.text = record.text
        BY <3>2, ReactedFacts
      <3> QED
        BY <3>2, <3>3
    <2>3. CASE record' = record \/ record' = Missing
      BY <2>3
    <2> QED
      BY <2>1, <2>2, <2>3 DEF Next, Step, Authorize, Get, Conflict, Read, Publish, Delete, KVError, vars
  <1> QED
    BY <1>1, RecordInvariance, PTL DEF Spec, OnlyUpdatesRewrite

-----------------------------------------------------------------------------
(* What a request publishes is what it left in the record.                 *)

Publishes(r) == IF IsReaction(r) THEN Reacted(op[r], copy[r]).users ELSE copy[r].users

WillBePublished ==
    record # Missing =>
        \/ record.users \in sent
        \/ \E r \in Requests : pc[r] = "publish" /\ Publishes(r) = record.users
        \/ \E r \in Requests : IsUpdate(r) /\ pc[r] = "error"

LEMMA StepWillBePublished == RecordInv /\ WillBePublished /\ [Next]_vars => WillBePublished'
  <1> SUFFICES ASSUME RecordInv, WillBePublished, [Next]_vars PROVE WillBePublished'
    OBVIOUS
  <1>1. pc \in [Requests -> Places] /\ copy = [r \in Requests |-> copy[r]]
    BY DEF RecordInv, TypeOK
  <1>2. ASSUME NEW r \in Requests, UNCHANGED <<record, op>>,
               pc[r] # "publish", pc[r] # "error",
               \A s \in Requests \ {r} : pc'[s] = pc[s] /\ copy'[s] = copy[s],
               sent \subseteq sent'
        PROVE  WillBePublished'
    BY <1>2 DEF WillBePublished, Publishes, IsReaction, IsUpdate
  <1>3. ASSUME NEW r \in Requests, Authorize(r) \/ Get(r) \/ Conflict(r) \/ Read(r)
        PROVE  WillBePublished'
    <2>1. /\ UNCHANGED <<record, op, sent>>
          /\ pc[r] # "publish" /\ pc[r] # "error"
          /\ \A s \in Requests \ {r} : pc'[s] = pc[s] /\ copy'[s] = copy[s]
      BY <1>1, <1>3 DEF Authorize, Get, Conflict, Read, Goto
    <2> QED
      BY <1>2, <2>1
  <1>4. ASSUME NEW r \in Requests, CompareAndSet(r) PROVE WillBePublished'
    <2>1. IsReaction(r) /\ pc'[r] = "publish"
      BY <1>1, <1>4 DEF CompareAndSet, Goto, RecordInv, LocalInv
    <2>2. record' = Reacted(op[r], copy[r]) /\ UNCHANGED <<op, copy>>
      BY <1>4 DEF CompareAndSet
    <2> QED
      BY <2>1, <2>2 DEF WillBePublished, Publishes, IsReaction
  <1>5. ASSUME NEW r \in Requests, Set(r) PROVE WillBePublished'
    <2>1. IsUpdate(r) /\ ~IsReaction(r) /\ pc'[r] = "publish"
      BY <1>1, <1>5 DEF Set, Goto, RecordInv, LocalInv, IsReaction, IsUpdate
    <2>2. record'.users = copy[r].users /\ UNCHANGED <<op, copy>>
      BY <1>5 DEF Set, Updated
    <2> QED
      BY <2>1, <2>2 DEF WillBePublished, Publishes, IsReaction
  <1>6. ASSUME NEW r \in Requests, Publish(r) PROVE WillBePublished'
    <2>1. /\ sent' = sent \union {Publishes(r)} /\ UNCHANGED <<record, op, copy>>
          /\ pc[r] = "publish" /\ \A s \in Requests \ {r} : pc'[s] = pc[s]
      BY <1>1, <1>6 DEF Publish, Publishes, Goto
    <2> QED
      BY <2>1 DEF WillBePublished, Publishes, IsReaction, IsUpdate
  <1>7. ASSUME NEW r \in Requests, Delete(r) PROVE WillBePublished'
    BY <1>7 DEF Delete, WillBePublished
  <1>8. ASSUME NEW r \in Requests, KVError(r) PROVE WillBePublished'
    <2>1. /\ UNCHANGED <<record, op, copy, sent>> /\ pc'[r] = "error"
          /\ pc[r] = "publish" => IsUpdate(r)
          /\ \A s \in Requests \ {r} : pc'[s] = pc[s]
      BY <1>1, <1>8 DEF KVError, Goto
    <2> QED
      BY <2>1 DEF WillBePublished, Publishes, IsReaction, IsUpdate
  <1>9. CASE UNCHANGED vars
    BY <1>9 DEF vars, WillBePublished, Publishes, IsReaction, IsUpdate
  <1> QED
    BY <1>3, <1>4, <1>5, <1>6, <1>7, <1>8, <1>9 DEF Next, Step

(* The list of users the record ends with was published, unless an update  *)
(* failed after it had set the record (reactions_api.go:23, 52).           *)
THEOREM ChangesArePublished == Spec => []EveryChangeIsPublished
  <1>1. Init => WillBePublished
    BY DEF Init, WillBePublished
  <1>2. WillBePublished => EveryChangeIsPublished
    BY DEF WillBePublished, EveryChangeIsPublished, Settled, Answered
  <1> QED
    BY <1>1, <1>2, StepWillBePublished, RecordInvariance, PTL DEF Spec

-----------------------------------------------------------------------------
(* A reaction loses an attempt only to a request that has changed the      *)
(* record meanwhile, and to each of them once.                             *)

Changed(r) == HasChanged(r) \/ pc[r] = "error"

Changers(r) == {s \in Requests \ {r} : Changed(s)}

Counted(r) ==
    /\ attempt[r] <= Cardinality(Changers(r))
    /\ pc[r] = "cas" /\ record # copy[r] => attempt[r] + 1 <= Cardinality(Changers(r))
    /\ pc[r] = "cas" => Reacted(op[r], copy[r]) # copy[r]
    /\ pc[r] = "conflict" => attempt[r] >= MaxRetries

CountInv == RecordInv /\ \A r \in Requests : Counted(r)

LEMMA ChangersFinite ==
    ASSUME NEW r PROVE IsFiniteSet(Changers(r)) /\ Cardinality(Changers(r)) \in Nat
  <1>1. Changers(r) \subseteq Requests
    BY DEF Changers
  <1> QED
    BY <1>1, RequestsAssumption, FS_Subset, FS_CardinalityType

(* Who has changed the record stays among those who have.                  *)
LEMMA ChangedForGood ==
    ASSUME RecordInv, [Next]_vars, NEW r \in Requests, Changed(r)
    PROVE  Changed(r)'
  <1>1. pc \in [Requests -> Places] /\ pc[r] \in {"publish", "ok", "error"}
    BY DEF RecordInv, TypeOK, Changed, HasChanged, Done
  <1>2. CASE pc'[r] = pc[r] /\ copy'[r] = copy[r] /\ op' = op
    BY <1>2 DEF Changed, HasChanged, Done, IsReaction
  <1>3. CASE Publish(r)
    BY <1>1, <1>3 DEF Publish, Goto, Changed, HasChanged, Done, IsReaction
  <1>4. CASE KVError(r)
    BY <1>1, <1>4 DEF KVError, Goto, Changed
  <1>5. ASSUME NEW s \in Requests, Step(s) \/ KVError(s), s # r
        PROVE  pc'[r] = pc[r] /\ copy'[r] = copy[r] /\ op' = op
    BY <1>1, <1>5 DEF RecordInv, TypeOK, Step, Authorize, Get, CompareAndSet, Conflict, Read, Set, Publish, Delete,
       KVError, Goto
  <1>6. CASE Step(r)
    BY <1>1, <1>3, <1>6 DEF Step, Authorize, Get, CompareAndSet, Conflict, Read, Set, Delete
  <1>7. CASE UNCHANGED vars
    BY <1>2, <1>7 DEF vars
  <1> QED
    BY <1>2, <1>4, <1>5, <1>6, <1>7 DEF Next

LEMMA ChangersGrow ==
    ASSUME RecordInv, [Next]_vars, NEW r \in Requests
    PROVE  Cardinality(Changers(r)) <= Cardinality(Changers(r)')
  <1>1. Changers(r) \subseteq Changers(r)'
    BY ChangedForGood DEF Changers
  <1>2. IsFiniteSet(Changers(r)')
    <2>1. Changers(r)' \subseteq Requests
      BY DEF Changers
    <2> QED
      BY <2>1, RequestsAssumption, FS_Subset
  <1> QED
    BY <1>1, <1>2, FS_Subset

(* A step that changes the record adds its request to the changers of all  *)
(* others.                                                                 *)
LEMMA OneMoreChanger ==
    ASSUME CountInv, [Next]_vars, record' # record, NEW r \in Requests, pc[r] = "cas", pc'[r] = "cas"
    PROVE  Cardinality(Changers(r)) + 1 <= Cardinality(Changers(r)')
  <1>1. pc \in [Requests -> Places]
    BY DEF CountInv, RecordInv, TypeOK
  <1>2. PICK s \in Requests : CompareAndSet(s) \/ Set(s) \/ Delete(s)
    BY DEF Next, Step, Authorize, Get, Conflict, Read, Publish, KVError, vars
  <1>3. pc[s] \in {"cas", "set", "delete"} /\ pc'[s] \in {"publish", "ok"} /\ UNCHANGED <<op, copy>>
    BY <1>1, <1>2 DEF CompareAndSet, Set, Delete, Goto
  <1>4. s # r /\ ~Changed(s)
    BY <1>3 DEF Changed, HasChanged, Done
  <1>5. Changed(s)'
    <2>1. CASE pc[s] = "cas"
      BY <1>3, <2>1 DEF CountInv, Counted, Changed, HasChanged, Done, IsReaction
    <2>2. CASE pc[s] # "cas"
      <3>1. ~IsReaction(s)
        BY <1>3, <2>2 DEF CountInv, RecordInv, LocalInv, IsReaction, IsUpdate
      <3> QED
        BY <1>3, <3>1 DEF Changed, HasChanged, Done, IsReaction
    <2> QED
      BY <2>1, <2>2
  <1>6. Changers(r) \union {s} \subseteq Changers(r)' /\ s \notin Changers(r)
    BY <1>4, <1>5, ChangedForGood DEF Changers, CountInv
  <1>7. IsFiniteSet(Changers(r)')
    <2>1. Changers(r)' \subseteq Requests
      BY DEF Changers
    <2> QED
      BY <2>1, RequestsAssumption, FS_Subset
  <1>8. Cardinality(Changers(r) \union {s}) = Cardinality(Changers(r)) + 1
    BY <1>6, ChangersFinite, FS_AddElement
  <1> QED
    BY <1>6, <1>7, <1>8, FS_Subset

LEMMA StepCountInv == CountInv /\ [Next]_vars => CountInv'
  <1> SUFFICES ASSUME CountInv, [Next]_vars, NEW r \in Requests PROVE Counted(r)'
    BY StepRecordInv DEF CountInv
  <1> DEFINE before == Cardinality(Changers(r))
             after == Cardinality(Changers(r)')
  <1>1. /\ RecordInv /\ Counted(r) /\ before <= after /\ before \in Nat
        /\ pc \in [Requests -> Places] /\ copy = [s \in Requests |-> copy[s]]
        /\ attempt \in [Requests -> Nat]
    BY ChangersGrow, ChangersFinite, MaxRetriesAssumption DEF CountInv, RecordInv, TypeOK
  <1>2. after \in Nat
    <2>1. Changers(r)' \subseteq Requests
      BY DEF Changers
    <2> QED
      BY <2>1, RequestsAssumption, FS_Subset, FS_CardinalityType
  <1>3. record' # record /\ pc[r] = "cas" /\ pc'[r] = "cas" => before + 1 <= after
    BY OneMoreChanger
  <1> HIDE DEF before, after
  <1>4. CASE pc'[r] = pc[r] /\ copy'[r] = copy[r] /\ attempt'[r] = attempt[r] /\ op' = op
    BY <1>1, <1>2, <1>3, <1>4 DEF Counted, before, after
  <1>5. CASE Get(r)
    <2>1. /\ attempt'[r] = attempt[r] /\ pc'[r] \in {"error", "publish", "cas"} /\ op' = op
          /\ record' = record
          /\ pc'[r] = "cas" => copy'[r] = record /\ Reacted(op[r], record) # record
      BY <1>1, <1>5 DEF Get, Goto
    <2> QED
      BY <1>1, <1>2, <2>1 DEF Counted, before, after
  <1>6. CASE Conflict(r)
    <2>1. /\ pc[r] = "cas" /\ record # copy[r] /\ attempt'[r] = attempt[r] + 1
          /\ pc'[r] = IF attempt[r] + 1 < MaxRetries THEN "get" ELSE "conflict"
      BY <1>1, <1>6 DEF Conflict, Goto
    <2>2. attempt[r] \in Nat /\ MaxRetries \in Nat
      BY <1>1, MaxRetriesAssumption
    <2> QED
      BY <1>1, <1>2, <2>1, <2>2 DEF Counted, before, after
  <1>7. CASE \/ Authorize(r) \/ CompareAndSet(r) \/ Read(r) \/ Set(r) \/ Publish(r) \/ Delete(r)
             \/ KVError(r)
    <2>1. attempt'[r] = attempt[r] /\ pc'[r] \notin {"cas", "conflict"}
      BY <1>1, <1>7 DEF Authorize, CompareAndSet, Read, Set, Publish, Delete, KVError, Goto
    <2> QED
      BY <1>1, <1>2, <2>1 DEF Counted, before, after
  <1>8. ASSUME NEW s \in Requests, s # r, Step(s) \/ KVError(s)
        PROVE  pc'[r] = pc[r] /\ copy'[r] = copy[r] /\ attempt'[r] = attempt[r] /\ op' = op
    BY <1>1, <1>8 DEF Step, Authorize, Get, CompareAndSet, Conflict, Read, Set, Publish, Delete,
       KVError, Goto
  <1>9. CASE UNCHANGED vars
    BY <1>4, <1>9 DEF vars
  <1> QED
    BY <1>4, <1>5, <1>6, <1>7, <1>8, <1>9 DEF Next, Step

(* A reaction is rejected only when MaxRetries other requests have changed *)
(* the record, or failed, during it (reactions_store.go:66, 98).           *)
THEOREM RejectedUnderContention == Spec => []RejectedOnlyUnderContention
  <1>1. Init => CountInv
    <2> SUFFICES ASSUME Init, NEW r \in Requests PROVE Counted(r)
      BY InitRecordInv DEF CountInv
    <2>1. pc[r] \in {"authorize", "read", "delete"} /\ attempt[r] = 0
      BY OpsAssumption DEF Init, Start, Kinds
    <2> QED
      BY <2>1, ChangersFinite DEF Counted
  <1>2. CountInv => RejectedOnlyUnderContention
    <2> SUFFICES ASSUME CountInv, NEW r \in Requests, pc[r] = "conflict"
                 PROVE  Cardinality(Changers(r)) >= MaxRetries
      BY DEF RejectedOnlyUnderContention, Changers, Changed
    <2>1. attempt[r] \in Nat /\ attempt[r] >= MaxRetries /\ attempt[r] <= Cardinality(Changers(r))
      BY MaxRetriesAssumption DEF CountInv, Counted, RecordInv, TypeOK
    <2> QED
      BY <2>1, ChangersFinite, MaxRetriesAssumption
  <1> QED
    BY <1>1, <1>2, StepCountInv, PTL DEF Spec
=============================================================================
