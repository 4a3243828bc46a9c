------------------------ MODULE IndexMutationProofs -------------------------
(***************************************************************************)
(* The retry loop of mutateIndex implements the atomic index and loses an  *)
(* attempt only to a change, for every number of callers, retries and      *)
(* limits and whatever the key holds.                                      *)
(***************************************************************************)
EXTENDS IndexMutation, DataLemmas

(* A caller about to compare-and-set holds a mutation of the data it read, *)
(* computed for one of the limits; a caller that returned without writing  *)
(* found nothing to change.                                                *)
Prepared(c) ==
    pc[c] = "cas" =>
        /\ next[c].changed
        /\ \E n \in Limits : next[c] = Mutation(call[c], snapshot[c], n)

IInv ==
    /\ limit \in Limits
    /\ call \in [Callers -> Calls]
    /\ pc \in [Callers -> {"get", "cas", "ok", "failed"}]
    /\ snapshot = [c \in Callers |-> snapshot[c]]
    /\ next = [c \in Callers |-> next[c]]
    /\ \A c \in Callers : Prepared(c)

LEMMA InitIInv == Init => IInv
  BY DEF Init, IInv, Prepared

LEMMA StepIInv == IInv /\ [Next]_vars => IInv'
  <1> SUFFICES ASSUME IInv, [Next]_vars PROVE IInv'
    OBVIOUS
  <1> USE DEF IInv, Prepared
  <1>1. ASSUME NEW c \in Callers, Get(c) PROVE IInv'
    <2> DEFINE m == Mutation(call[c], data, limit)
    <2>1. /\ snapshot' = [snapshot EXCEPT ![c] = data]
          /\ next' = [next EXCEPT ![c] = m]
          /\ pc' = [pc EXCEPT ![c] = IF m.changed THEN "cas" ELSE "ok"]
          /\ UNCHANGED <<data, limit, call, attempt>>
      BY <1>1 DEF Get
    <2> HIDE DEF m
    <2>2. Prepared(c)'
      <3>1. next'[c] = m /\ snapshot'[c] = data /\ call'[c] = call[c] /\ limit \in Limits
        BY <2>1
      <3>2. pc'[c] = "cas" => m.changed
        BY <2>1
      <3>3. QED
        BY <3>1, <3>2 DEF m
    <2>3. \A e \in Callers \ {c} : Prepared(e)'
      BY <2>1
    <2>4. QED
      BY <2>1, <2>2, <2>3
  <1>2. ASSUME NEW c \in Callers, CompareAndSet(c) PROVE IInv'
    BY <1>2 DEF CompareAndSet
  <1>3. ASSUME NEW c \in Callers, Conflict(c) PROVE IInv'
    BY <1>3 DEF Conflict
  <1>4. ASSUME NEW c \in Callers, KVError(c) PROVE IInv'
    BY <1>4 DEF KVError
  <1>5. ASSUME NEW n \in Limits, SetMaxEvents(n) PROVE IInv'
    BY <1>5 DEF SetMaxEvents
  <1>6. CASE UNCHANGED vars
    BY <1>6 DEF vars
  <1>7. QED
    BY <1>1, <1>2, <1>3, <1>4, <1>5, <1>6 DEF Next, Step

(* Whatever calls interleave, a caller about to compare holds what its     *)
(* mutation makes of the data it compares with (store.go:488-519).         *)
THEOREM Invariance == Spec => []IInv
  <1>1. QED
    BY InitIInv, StepIInv, PTL DEF Spec

(* A mutation that reports no change leaves the data as it was.            *)
LEMMA UnchangedMutation ==
    ASSUME NEW k \in Calls, NEW d, NEW n, ~Mutation(k, d, n).changed
    PROVE  /\ Mutation(k, d, n).data = d
           /\ Mutation(k, d, n).pruned = << >>
  <1>1. CASE k.kind = "prepend"
    <2>1. Mutation(k, d, n) = Prepended(d, k.id)
      BY <1>1 DEF Mutation
    <2>2. QED
      BY <2>1 DEF Prepended
  <1>2. CASE k.kind = "retain"
    <2>1. Mutation(k, d, n) = Retained(d, k.id, n)
      BY <1>2 DEF Mutation
    <2>2. Retained(d, k.id, n).changed
      BY DEF Retained
    <2>3. QED
      BY <2>1, <2>2
  <1>3. CASE k.kind = "remove"
    <2>1. Mutation(k, d, n) = Removed(d, k.id)
      BY <1>3 DEF Mutation
    <2>2. QED
      BY <2>1 DEF Removed
  <1>4. QED
    BY <1>1, <1>2, <1>3, CallsAssumption

(* The abstract module brings its own copy of the pure operators.          *)
LEMMA SameMutation ==
    ASSUME NEW k, NEW d, NEW n PROVE Abstract!Mutation(k, d, n) = Mutation(k, d, n)
  BY Zenon DEF Abstract!Mutation, Mutation, Abstract!Prepended, Prepended, Abstract!Retained, Retained,
     Abstract!Removed, Removed, Abstract!PrependUnique, PrependUnique, Abstract!RemoveID, RemoveID,
     Abstract!Decode, Decode, Abstract!Sublist, Sublist

LEMMA RefinesInit == Init => Abstract!Init
  BY DEF Init, Abstract!Init, AbstractStatus, AbstractPruned

LEMMA RefinesNext == IInv /\ [Next]_vars => [Abstract!Next]_(Abstract!vars)
  <1> SUFFICES ASSUME IInv, [Next]_vars PROVE [Abstract!Next]_(Abstract!vars)
    OBVIOUS
  <1> USE DEF IInv, AbstractStatus, AbstractPruned
  <1>1. ASSUME NEW c \in Callers, Get(c) PROVE [Abstract!Next]_(Abstract!vars)
    <2> DEFINE m == Mutation(call[c], data, limit)
    <2>1. /\ pc[c] = "get"
          /\ next' = [next EXCEPT ![c] = m]
          /\ pc' = [pc EXCEPT ![c] = IF m.changed THEN "cas" ELSE "ok"]
          /\ UNCHANGED <<data, limit, call, attempt>>
      BY <1>1 DEF Get
    <2>2. CASE m.changed
      <3>1. UNCHANGED AbstractStatus
        BY <2>1, <2>2
      <3>2. UNCHANGED AbstractPruned
        BY <2>1, <2>2
      <3>3. QED
        BY <3>1, <3>2, <2>1 DEF Abstract!vars
    <2>3. CASE ~m.changed
      <3>1. m.data = data /\ m.pruned = << >>
        BY <2>3, UnchangedMutation DEF m
      <3> HIDE DEF m
      <3>2. AbstractStatus' = [AbstractStatus EXCEPT ![c] = "ok"]
        BY <2>1, <2>3
      <3>3. AbstractPruned' = [AbstractPruned EXCEPT ![c] = m.pruned]
        BY <2>1, <2>3
      <3>4. AbstractStatus[c] = "running"
        BY <2>1
      <3>5. Abstract!Succeed(c)
        BY <2>1, <3>1, <3>2, <3>3, <3>4, SameMutation DEF Abstract!Succeed, m
      <3>6. QED
        BY <3>5 DEF Abstract!Next
    <2>4. QED
      BY <2>2, <2>3
  <1>2. ASSUME NEW c \in Callers, CompareAndSet(c) PROVE [Abstract!Next]_(Abstract!vars)
    <2>1. PICK n \in Limits : next[c] = Mutation(call[c], data, n)
      BY <1>2 DEF CompareAndSet, Prepared
    <2>2. AbstractStatus' = [AbstractStatus EXCEPT ![c] = "ok"] /\ AbstractStatus[c] = "running"
      BY <1>2 DEF CompareAndSet
    <2>3. AbstractPruned' = [AbstractPruned EXCEPT ![c] = next[c].pruned]
      BY <1>2 DEF CompareAndSet
    <2>4. /\ data' = Abstract!Mutation(call[c], data, n).data
          /\ AbstractPruned' = [AbstractPruned EXCEPT ![c] = Abstract!Mutation(call[c], data, n).pruned]
          /\ UNCHANGED call
      BY <1>2, <2>1, <2>3, SameMutation DEF CompareAndSet
    <2>5. Abstract!Succeed(c)
      BY <2>2, <2>4, Zenon DEF Abstract!Succeed
    <2>6. QED
      BY <2>5 DEF Abstract!Next
  <1>3. ASSUME NEW c \in Callers, Conflict(c) PROVE [Abstract!Next]_(Abstract!vars)
    <2>1. CASE attempt[c] + 1 < MaxRetries
      BY <1>3, <2>1 DEF Conflict, Abstract!vars
    <2>2. CASE ~(attempt[c] + 1 < MaxRetries)
      <3>1. Abstract!Fail(c)
        BY <1>3, <2>2 DEF Conflict, Abstract!Fail
      <3>2. QED
        BY <3>1 DEF Abstract!Next
    <2>3. QED
      BY <2>1, <2>2
  <1>4. ASSUME NEW c \in Callers, KVError(c) PROVE [Abstract!Next]_(Abstract!vars)
    <2>1. Abstract!Fail(c)
      BY <1>4 DEF KVError, Abstract!Fail
    <2>2. QED
      BY <2>1 DEF Abstract!Next
  <1>5. ASSUME NEW n \in Limits, SetMaxEvents(n) PROVE [Abstract!Next]_(Abstract!vars)
    BY <1>5 DEF SetMaxEvents, Abstract!vars
  <1>6. CASE UNCHANGED vars
    BY <1>6 DEF vars, Abstract!vars
  <1>7. QED
    BY <1>1, <1>2, <1>3, <1>4, <1>5, <1>6 DEF Next, Step

(* Every behaviour of the retry loop, faults included, is a behaviour of   *)
(* the atomic index: callers may treat mutateIndex as one step that either *)
(* happens or fails without effect.                                        *)
THEOREM Refinement == Spec => ImplementsAtomicIndex
  <1>1. QED
    BY Invariance, RefinesInit, RefinesNext, PTL DEF Spec, Abstract!Spec, ImplementsAtomicIndex

-----------------------------------------------------------------------------
(* Lost attempts                                                           *)

Changers(c) == {d \in Callers \ {c} : pc[d] = "ok" /\ next[d].changed}

(* A caller whose snapshot is out of date is about to lose one attempt     *)
(* more, so one change more has been made by then.                         *)
Counted(c) ==
    /\ attempt[c] \in Nat
    /\ attempt[c] <= Cardinality(Changers(c))
    /\ pc[c] = "cas" /\ data # snapshot[c] => attempt[c] + 1 <= Cardinality(Changers(c))

CInv ==
    /\ IInv
    /\ attempt = [c \in Callers |-> attempt[c]]
    /\ \A c \in Callers : Counted(c)

LEMMA ChangersFinite ==
    ASSUME NEW c PROVE IsFiniteSet(Changers(c)) /\ Cardinality(Changers(c)) \in Nat
  <1>1. Changers(c) \subseteq Callers
    BY DEF Changers
  <1>2. QED
    BY <1>1, CallersAssumption, FS_Subset, FS_CardinalityType

(* A step of a caller that has changed nothing, before or after it.        *)
LEMMA SameChangers ==
    ASSUME NEW c \in Callers,
           \A e \in Callers \ {c} : pc'[e] = pc[e] /\ next'[e] = next[e],
           ~(pc[c] = "ok" /\ next[c].changed),
           ~(pc'[c] = "ok" /\ next'[c].changed)
    PROVE  \A e \in Callers : Changers(e)' = Changers(e)
  BY DEF Changers

LEMMA InitCInv == Init => CInv
  <1> SUFFICES ASSUME Init PROVE CInv
    OBVIOUS
  <1>1. \A c \in Callers : Counted(c)
    BY ChangersFinite DEF Init, Counted
  <1>2. QED
    BY <1>1, InitIInv DEF CInv, Init

LEMMA StepCInv == CInv /\ [Next]_vars => CInv'
  <1> SUFFICES ASSUME CInv, [Next]_vars PROVE CInv'
    OBVIOUS
  <1>0. IInv /\ IInv'
    BY StepIInv DEF CInv
  <1>1. ASSUME NEW c \in Callers, Get(c) PROVE CInv'
    <2>1. /\ pc[c] = "get"
          /\ pc'[c] = "ok" => ~next'[c].changed
          /\ \A e \in Callers \ {c} : pc'[e] = pc[e] /\ next'[e] = next[e] /\ snapshot'[e] = snapshot[e]
          /\ snapshot'[c] = data /\ UNCHANGED <<data, attempt>>
      BY <1>0, <1>1 DEF Get, IInv
    <2>2. \A e \in Callers : Changers(e)' = Changers(e)
      BY <2>1, SameChangers
    <2>3. \A e \in Callers : Counted(e)'
      BY <2>1, <2>2 DEF CInv, Counted
    <2>4. QED
      BY <1>0, <2>1, <2>3 DEF CInv
  <1>2. ASSUME NEW c \in Callers, CompareAndSet(c) PROVE CInv'
    <2>1. /\ pc[c] = "cas" /\ pc'[c] = "ok" /\ next[c].changed
          /\ \A e \in Callers \ {c} : pc'[e] = pc[e]
          /\ UNCHANGED <<next, snapshot, attempt>>
      BY <1>0, <1>2 DEF CompareAndSet, IInv, Prepared
    <2>2. Changers(c)' = Changers(c)
      BY <2>1 DEF Changers
    <2>3. ASSUME NEW e \in Callers \ {c} PROVE Counted(e)'
      <3>1. Changers(e)' = Changers(e) \union {c} /\ c \notin Changers(e)
        BY <2>1 DEF Changers
      <3>2. Cardinality(Changers(e)') = Cardinality(Changers(e)) + 1
        BY <3>1, ChangersFinite, FS_AddElement
      <3>3. QED
        BY <2>1, <3>2, ChangersFinite DEF CInv, Counted
    <2>4. Counted(c)'
      BY <2>1, <2>2 DEF CInv, Counted
    <2>5. QED
      BY <1>0, <2>1, <2>3, <2>4 DEF CInv
  <1>3. ASSUME NEW c \in Callers, Conflict(c) PROVE CInv'
    <2>1. /\ pc[c] = "cas" /\ pc'[c] \in {"get", "failed"} /\ data # snapshot[c]
          /\ \A e \in Callers \ {c} : pc'[e] = pc[e] /\ attempt'[e] = attempt[e]
          /\ attempt'[c] = attempt[c] + 1 /\ attempt' = [e \in Callers |-> attempt'[e]]
          /\ UNCHANGED <<data, next, snapshot>>
      BY <1>0, <1>3 DEF CInv, Conflict, IInv
    <2>2. \A e \in Callers : Changers(e)' = Changers(e)
      BY <2>1, SameChangers
    <2>3. \A e \in Callers \ {c} : Counted(e)'
      BY <2>1, <2>2 DEF CInv, Counted
    <2>4. Counted(c)'
      BY <2>1, <2>2 DEF CInv, Counted
    <2>5. QED
      BY <1>0, <2>1, <2>3, <2>4 DEF CInv
  <1>4. ASSUME NEW c \in Callers, KVError(c) PROVE CInv'
    <2>1. /\ pc[c] \in {"get", "cas"} /\ pc'[c] = "failed"
          /\ \A e \in Callers \ {c} : pc'[e] = pc[e]
          /\ UNCHANGED <<data, next, snapshot, attempt>>
      BY <1>0, <1>4 DEF KVError, IInv
    <2>2. \A e \in Callers : Changers(e)' = Changers(e)
      BY <2>1, SameChangers
    <2>3. \A e \in Callers : Counted(e)'
      BY <2>1, <2>2 DEF CInv, Counted
    <2>4. QED
      BY <1>0, <2>1, <2>3 DEF CInv
  <1>5. ASSUME UNCHANGED <<data, pc, next, snapshot, attempt>> PROVE CInv'
    <2>1. \A e \in Callers : Changers(e)' = Changers(e)
      BY <1>5 DEF Changers
    <2>2. QED
      BY <1>0, <1>5, <2>1 DEF CInv, Counted
  <1>6. QED
    BY <1>1, <1>2, <1>3, <1>4, <1>5 DEF Next, Step, SetMaxEvents, vars

(* An attempt is lost only to another call that changed the index during   *)
(* it, and to each such call once: whoever runs out of attempts has lost   *)
(* to MaxRetries others (store.go:488, 520-525).                           *)
THEOREM LosesToChanges == Spec => []LosesOnlyToChanges
  <1>1. CInv => LosesOnlyToChanges
    BY DEF CInv, Counted, Changers, LosesOnlyToChanges
  <1>2. QED
    BY InitCInv, StepCInv, <1>1, PTL DEF Spec

-----------------------------------------------------------------------------
(* What mutations do to a list without duplicates.                         *)
Fine(d) == d \in {Absent, Corrupt} \/ (d \in Seq(IDs) /\ NoDup(d))

Inserts(k) == k.kind \in {"prepend", "retain"}

LEMMA RemoveIDProperties ==
    ASSUME NEW ids \in Seq(IDs), NoDup(ids), NEW id
    PROVE  /\ RemoveID(ids, id) \in Seq(IDs)
           /\ NoDup(RemoveID(ids, id))
           /\ Elements(RemoveID(ids, id)) \subseteq Elements(ids) \ {id}
<1> DEFINE rest == {i \in DOMAIN ids : ids[i] # id}
           sub == Sublist(ids, rest)
<1>1. /\ sub \in Seq(IDs)
      /\ \A i \in DOMAIN sub : \E p \in rest : sub[i] = ids[p]
      /\ (\A p, q \in rest : ids[p] = ids[q] => p = q)
           => \A i, j \in DOMAIN sub : sub[i] = sub[j] => i = j
    BY SublistProperties
<1>2. \A p, q \in rest : ids[p] = ids[q] => p = q
    BY DEF NoDup
<1> HIDE DEF sub
<1> QED
    BY <1>1, <1>2 DEF NoDup, Elements, RemoveID, sub

LEMMA PrependUniqueProperties ==
    ASSUME NEW ids \in Seq(IDs), NoDup(ids), NEW id \in IDs
    PROVE  /\ PrependUnique(ids, id) \in Seq(IDs)
           /\ NoDup(PrependUnique(ids, id))
           /\ Elements(PrependUnique(ids, id)) \subseteq Elements(ids) \union {id}
<1> DEFINE rest == RemoveID(ids, id)
           new == PrependUnique(ids, id)
<1>1. rest \in Seq(IDs) /\ NoDup(rest) /\ Elements(rest) \subseteq Elements(ids) \ {id}
    BY RemoveIDProperties
<1>2. /\ new \in Seq(IDs) /\ Len(rest) \in Nat /\ Len(new) = Len(rest) + 1
      /\ \A i \in 1 .. Len(new) : new[i] = IF i = 1 THEN id ELSE rest[i - 1]
    BY <1>1 DEF PrependUnique
<1>3. DOMAIN new = 1 .. Len(new) /\ DOMAIN rest = 1 .. Len(rest)
    BY <1>1, <1>2, LenProperties
<1> HIDE DEF rest, new
<1>4. \A i \in DOMAIN new : i = 1 \/ (i - 1 \in DOMAIN rest /\ new[i] = rest[i - 1])
    BY <1>2, <1>3
<1>5. \A i \in DOMAIN rest : rest[i] \in Elements(ids) /\ rest[i] # id
    BY <1>1 DEF Elements
<1>6. new[1] = id
    BY <1>2
<1>7. NoDup(new)
    <2> SUFFICES ASSUME NEW i \in DOMAIN new, NEW j \in DOMAIN new, new[i] = new[j] PROVE i = j
        BY DEF NoDup
    <2>1. i = 1 <=> j = 1
        BY <1>4, <1>5, <1>6
    <2>2. i # 1 /\ j # 1 => i - 1 = j - 1
        BY <1>1, <1>4 DEF NoDup
    <2> QED
        BY <1>3, <2>1, <2>2
<1>8. Elements(new) \subseteq Elements(ids) \union {id}
    BY <1>4, <1>5, <1>6 DEF Elements
<1> QED
    BY <1>2, <1>7, <1>8 DEF new

LEMMA RetainedProperties ==
    ASSUME NEW d, NEW id, NEW n \in Nat, NEW ids \in Seq(IDs), NoDup(ids),
           ids = PrependUnique(Decode(d), id)
    PROVE  LET m == Retained(d, id, n) IN
           /\ m.data \in Seq(IDs) /\ NoDup(m.data)
           /\ Elements(m.data) \subseteq Elements(ids)
           /\ Elements(m.pruned) \intersect Elements(m.data) = {}
<1> DEFINE m == Retained(d, id, n)
<1>1. Len(ids) \in Nat /\ DOMAIN ids = 1 .. Len(ids)
    BY LenProperties
<1>2. CASE Len(ids) > n
    <2>1. m.data = SubSeq(ids, 1, n) /\ m.pruned = SubSeq(ids, n + 1, Len(ids))
        BY <1>2 DEF Retained
    <2>2. /\ m.data \in Seq(IDs) /\ DOMAIN m.data = 1 .. n
          /\ \A i \in 1 .. n : i \in DOMAIN ids /\ m.data[i] = ids[i]
        <3>1. /\ SubSeq(ids, 1, n) \in Seq(IDs) /\ Len(SubSeq(ids, 1, n)) = n
              /\ \A i \in 1 .. n : SubSeq(ids, 1, n)[i] = ids[i]
            BY <1>1, <1>2
        <3> QED
            BY <1>1, <1>2, <2>1, <3>1, LenProperties
    <2>3. \A i \in DOMAIN m.pruned :
            /\ i + n \in DOMAIN ids /\ i + n \notin 1 .. n
            /\ m.pruned[i] = ids[i + n]
        <3>1. DOMAIN SubSeq(ids, n + 1, Len(ids)) = 1 .. Len(ids) - n
            BY <1>1, <1>2
        <3>2. \A i \in 1 .. Len(ids) - n : SubSeq(ids, n + 1, Len(ids))[i] = ids[i + n]
            BY <1>1, <1>2
        <3> QED
            BY <1>1, <1>2, <2>1, <3>1, <3>2
    <2> HIDE DEF m
    <2> QED
        BY <2>2, <2>3 DEF NoDup, Elements, m
<1>3. CASE ~(Len(ids) > n)
    <2>1. m.data = ids /\ m.pruned = << >>
        BY <1>3 DEF Retained
    <2> QED
        BY <2>1 DEF Elements
<1> QED
    BY <1>2, <1>3

LEMMA MutationProperties ==
    ASSUME NEW k \in Calls, NEW d, Fine(d), NEW n \in Nat, Mutation(k, d, n).changed
    PROVE  LET m == Mutation(k, d, n) IN
           /\ m.data \in Seq(IDs) /\ NoDup(m.data)
           /\ \A id \in Elements(m.data) : id \in Elements(Decode(d)) \/ (Inserts(k) /\ id = k.id)
           /\ Elements(m.pruned) \intersect Elements(m.data) = {}
<1> DEFINE ids == Decode(d)
<1>1. ids \in Seq(IDs) /\ NoDup(ids) /\ k.id \in IDs
    BY DEF Decode, Fine, NoDup, IDs
<1>2. CASE k.kind = "prepend"
    <2>1. Mutation(k, d, n) = Prepended(d, k.id)
        BY <1>2 DEF Mutation
    <2>2. /\ PrependUnique(ids, k.id) \in Seq(IDs) /\ NoDup(PrependUnique(ids, k.id))
          /\ Elements(PrependUnique(ids, k.id)) \subseteq Elements(ids) \union {k.id}
        BY <1>1, PrependUniqueProperties
    <2>3. Elements(<< >>) = {}
        BY DEF Elements
    <2> QED
        BY <1>2, <2>1, <2>2, <2>3 DEF Prepended, Inserts
<1>3. CASE k.kind = "retain"
    <2>1. Mutation(k, d, n) = Retained(d, k.id, n)
        BY <1>3 DEF Mutation
    <2>2. /\ PrependUnique(ids, k.id) \in Seq(IDs) /\ NoDup(PrependUnique(ids, k.id))
          /\ Elements(PrependUnique(ids, k.id)) \subseteq Elements(ids) \union {k.id}
        BY <1>1, PrependUniqueProperties
    <2>3. LET m == Retained(d, k.id, n) IN
          /\ m.data \in Seq(IDs) /\ NoDup(m.data)
          /\ Elements(m.data) \subseteq Elements(PrependUnique(ids, k.id))
          /\ Elements(m.pruned) \intersect Elements(m.data) = {}
        BY <2>2, RetainedProperties
    <2> QED
        BY <1>3, <2>1, <2>2, <2>3 DEF Inserts
<1>4. CASE k.kind = "remove"
    <2>1. Mutation(k, d, n) = Removed(d, k.id)
        BY <1>4 DEF Mutation
    <2>2. d \notin {Absent, Corrupt} /\ Removed(d, k.id).data = RemoveID(d, k.id)
          /\ Removed(d, k.id).pruned = << >>
        BY <2>1 DEF Removed
    <2>3. /\ RemoveID(ids, k.id) \in Seq(IDs) /\ NoDup(RemoveID(ids, k.id))
          /\ Elements(RemoveID(ids, k.id)) \subseteq Elements(ids) \ {k.id}
        BY <1>1, RemoveIDProperties
    <2>4. ids = d /\ Elements(<< >>) = {}
        BY <2>2 DEF Decode, Elements
    <2> QED
        BY <2>1, <2>2, <2>3, <2>4
<1> QED
    BY <1>2, <1>3, <1>4, CallsAssumption

-----------------------------------------------------------------------------
(* The index stays a list without duplicates, callers that may try again   *)
(* have attempts left, and pruned IDs are gone.                            *)
IndexInv ==
    /\ IInv
    /\ Fine(data)
    /\ attempt \in [Callers -> 0 .. MaxRetries]
    /\ \A c \in Callers : pc[c] \in {"get", "cas"} => attempt[c] < MaxRetries
    /\ PrunedLeftTheIndex

LEMMA InitIndexInv == Init => IndexInv
<1> SUFFICES ASSUME Init PROVE IndexInv
    OBVIOUS
<1>1. Fine(data)
    BY InitialDataAssumption DEF Init, Fine
<1>2. PrunedLeftTheIndex
    BY DEF Init, PrunedLeftTheIndex, Done
<1> QED
    BY <1>1, <1>2, InitIInv, MaxRetriesAssumption DEF Init, IndexInv

LEMMA StepIndexInv == IndexInv /\ IInv' /\ [Next]_vars => IndexInv'
<1> SUFFICES ASSUME IndexInv, IInv', [Next]_vars PROVE IndexInv'
    OBVIOUS
<1> USE DEF IndexInv
<1>1. ASSUME NEW c \in Callers, Get(c) PROVE IndexInv'
    <2> DEFINE m == Mutation(call[c], data, limit)
    <2>1. /\ pc[c] = "get"
          /\ next' = [next EXCEPT ![c] = m]
          /\ pc' = [pc EXCEPT ![c] = IF m.changed THEN "cas" ELSE "ok"]
          /\ UNCHANGED <<data, limit, call, attempt>>
        BY <1>1 DEF Get
    <2>2. ~m.changed => m.pruned = << >>
        BY UnchangedMutation DEF IInv
    <2> HIDE DEF m
    <2>3. \A e \in Callers : Done(e, {"retain"})' =>
            next'[e].pruned = << >> \/ (Done(e, {"retain"}) /\ next'[e] = next[e])
        BY <2>1, <2>2 DEF Done, IInv
    <2>4. \A e \in Callers : Done(e, {"prepend", "retain"}) => Done(e, {"prepend", "retain"})'
        BY <2>1 DEF Done, IInv
    <2>5. Elements(<< >>) = {}
        BY DEF Elements
    <2>6. PrunedLeftTheIndex'
        <3> SUFFICES ASSUME NEW e \in Callers, Done(e, {"retain"})',
                            NEW id \in Elements(next'[e].pruned) \intersect Elements(Decode(data))
                     PROVE  \E f \in Callers \ {e} : Done(f, {"prepend", "retain"})' /\ call[f].id = id
            BY <2>1 DEF PrunedLeftTheIndex
        <3>1. Done(e, {"retain"}) /\ next'[e] = next[e]
            BY <2>3, <2>5
        <3>2. PICK f \in Callers \ {e} : Done(f, {"prepend", "retain"}) /\ call[f].id = id
            BY <3>1 DEF PrunedLeftTheIndex
        <3> QED
            BY <2>4, <3>2
    <2>7. \A e \in Callers : pc'[e] \in {"get", "cas"} => pc[e] \in {"get", "cas"}
        BY <2>1 DEF IInv
    <2> QED
        BY <2>1, <2>6, <2>7
<1>2. ASSUME NEW c \in Callers, CompareAndSet(c) PROVE IndexInv'
    <2>1. PICK n \in Limits : next[c] = Mutation(call[c], data, n)
        BY <1>2 DEF CompareAndSet, IInv, Prepared
    <2>2. /\ pc[c] = "cas" /\ next[c].changed
          /\ data' = next[c].data
          /\ pc' = [pc EXCEPT ![c] = "ok"]
          /\ UNCHANGED <<limit, call, attempt, next>>
          /\ call[c] \in Calls
        BY <1>2 DEF CompareAndSet, IInv, Prepared
    <2> DEFINE m == next[c]
    <2>3. /\ m.data \in Seq(IDs) /\ NoDup(m.data)
          /\ \A id \in Elements(m.data) :
                id \in Elements(Decode(data)) \/ (Inserts(call[c]) /\ id = call[c].id)
          /\ Elements(m.pruned) \intersect Elements(m.data) = {}
        BY ZenonT(40), <2>1, <2>2, LimitsAssumption, MutationProperties
    <2>4. Elements(Decode(data')) \subseteq Elements(m.data)
        BY <2>2 DEF Decode, Elements
    <2>5. Fine(data')
        BY <2>2, <2>3 DEF Fine
    <2>6. \A e \in Callers : pc'[e] = IF e = c THEN "ok" ELSE pc[e]
        BY <2>2 DEF IInv
    <2>7. PrunedLeftTheIndex'
        <3> SUFFICES ASSUME NEW e \in Callers, Done(e, {"retain"})',
                            NEW id \in Elements(next[e].pruned) \intersect Elements(Decode(data'))
                     PROVE  \E f \in Callers \ {e} : Done(f, {"prepend", "retain"})' /\ call[f].id = id
            BY <2>2 DEF PrunedLeftTheIndex
        <3>1. e # c
            BY <2>3, <2>4
        <3>2. CASE Inserts(call[c]) /\ id = call[c].id
            BY <2>2, <2>6, <3>1, <3>2 DEF Done, Inserts
        <3>3. CASE id \in Elements(Decode(data))
            <4>1. Done(e, {"retain"})
                BY <2>2, <2>6, <3>1 DEF Done
            <4>2. PICK f \in Callers \ {e} : Done(f, {"prepend", "retain"}) /\ call[f].id = id
                BY <3>3, <4>1 DEF PrunedLeftTheIndex
            <4> QED
                BY <2>2, <2>6, <4>2 DEF Done
        <3> QED
            BY <2>3, <2>4, <3>2, <3>3
    <2> QED
        BY <2>2, <2>5, <2>6, <2>7
<1>3. ASSUME NEW c \in Callers, Conflict(c) PROVE IndexInv'
    <2>1. /\ pc[c] = "cas" /\ UNCHANGED <<data, call, next>>
          /\ attempt' = [attempt EXCEPT ![c] = @ + 1]
          /\ pc' = [pc EXCEPT ![c] = IF attempt[c] + 1 < MaxRetries THEN "get" ELSE "failed"]
        BY <1>3 DEF Conflict
    <2>2. PrunedLeftTheIndex'
        BY <2>1 DEF PrunedLeftTheIndex, Done, IInv
    <2>3. attempt' \in [Callers -> 0 .. MaxRetries]
        <3>1. attempt[c] \in Nat /\ attempt[c] < MaxRetries /\ MaxRetries \in Nat
            BY <2>1, MaxRetriesAssumption
        <3> QED
            BY <2>1, <3>1
    <2>4. \A e \in Callers : pc'[e] \in {"get", "cas"} => attempt'[e] < MaxRetries
        BY <2>1 DEF IInv
    <2> QED
        BY <2>1, <2>2, <2>3, <2>4
<1>4. ASSUME NEW c \in Callers, KVError(c) PROVE IndexInv'
    BY <1>4 DEF KVError, PrunedLeftTheIndex, Done, IInv
<1>5. ASSUME NEW n \in Limits, SetMaxEvents(n) PROVE IndexInv'
    BY <1>5 DEF SetMaxEvents, PrunedLeftTheIndex, Done
<1>6. CASE UNCHANGED vars
    BY <1>6 DEF vars, PrunedLeftTheIndex, Done
<1> QED
    BY <1>1, <1>2, <1>3, <1>4, <1>5, <1>6 DEF Next, Step

LEMMA IndexInvariance == Spec => []IndexInv
<1> QED
    BY InitIndexInv, StepIndexInv, Invariance, PTL DEF Spec

(* The key holds a list of known IDs, nothing, or what was undecodable all *)
(* along, and no caller makes more attempts than it may (store.go:487-526). *)
THEOREM TypeCorrect == Spec => []TypeOK
<1>1. IndexInv => TypeOK
    BY DEF IndexInv, IInv, Fine, TypeOK
<1> QED
    BY <1>1, IndexInvariance, PTL

(* An index never lists an event twice, whatever insertions and removals   *)
(* race (store.go:528-585).                                                *)
THEOREM IndexNoDuplicates == Spec => []NoDuplicates
<1>1. IndexInv => NoDuplicates
    BY DEF IndexInv, Fine, NoDuplicates
<1> QED
    BY <1>1, IndexInvariance, PTL

(* Whoever deletes the events it pruned deletes none that is indexed,      *)
(* unless another call put it back (store.go:538-553).                     *)
THEOREM PrunedAreGone == Spec => []PrunedLeftTheIndex
<1>1. IndexInv => PrunedLeftTheIndex
    BY DEF IndexInv
<1> QED
    BY <1>1, IndexInvariance, PTL
=============================================================================
