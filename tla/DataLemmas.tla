----------------------------- MODULE DataLemmas -----------------------------
(***************************************************************************)
(* Induction over data.  The induction theorems of the library take an     *)
(* operator; here induction is over a set of numbers instead, from the     *)
(* fact that it has a least one.  From that follow what Sublist computes,  *)
(* and that as many elements come first in an order as one asks for.       *)
(***************************************************************************)
EXTENDS Sublists, SequenceTheorems, FiniteSetTheorems, WellFoundedInduction, TLAPS

Below == {ss \in Nat \X Nat : ss[1] < ss[2]}

(* A set of numbers has a least one, so that what fails for no least       *)
(* number holds for all.                                                   *)
LEMMA LeastNumber ==
    ASSUME NEW T, T \subseteq Nat, T # {}
    PROVE  \E m \in T : \A n \in T : m <= n
<1>1. Below = OpToRel(<, Nat)
    BY Zenon DEF OpToRel, Below
<1>2. IsWellFoundedOn(Below, Nat)
    BY <1>1, NatLessThanWellFounded, Zenon
<1>3. \E m \in T : \A n \in T : <<n, m>> \notin Below
    BY <1>2, WFMin
<1>4. \A m, n \in Nat : <<n, m>> \notin Below => m <= n
    BY DEF Below
<1> QED
    BY <1>3, <1>4

LEMMA Induction ==
    ASSUME NEW N \in Nat, NEW T, 0 \in T, \A n \in 1 .. N : n - 1 \in T => n \in T
    PROVE  0 .. N \subseteq T
<1> SUFFICES ASSUME (0 .. N) \ T # {} PROVE FALSE
    OBVIOUS
<1>0. (0 .. N) \ T \subseteq Nat
    OBVIOUS
<1>1. PICK m \in (0 .. N) \ T : \A n \in (0 .. N) \ T : m <= n
    BY <1>0, LeastNumber
<1>2. m \in 1 .. N /\ m - 1 \in 0 .. N /\ ~(m <= m - 1)
    BY <1>1
<1> QED
    BY <1>1, <1>2

-----------------------------------------------------------------------------
UpTo(list, positions, n, f) ==
    f = [i \in 0 .. n |-> IF i = 0 THEN << >>
                          ELSE IF i \in positions THEN Append(f[i - 1], list[i])
                          ELSE f[i - 1]]

LEMMA UpToExists ==
    ASSUME NEW S, NEW list \in Seq(S), NEW positions
    PROVE  \E f : UpTo(list, positions, Len(list), f)
<1> DEFINE T == {n \in Nat : \E f : UpTo(list, positions, n, f)}
<1>1. 0 \in T
    <2>1. UpTo(list, positions, 0, [i \in 0 .. 0 |-> << >>])
        BY DEF UpTo
    <2> QED
        BY <2>1
<1>2. ASSUME NEW n \in 1 .. Len(list), n - 1 \in T PROVE n \in T
    <2>1. PICK f : UpTo(list, positions, n - 1, f)
        BY <1>2
    <2> DEFINE last == IF n \in positions THEN Append(f[n - 1], list[n]) ELSE f[n - 1]
               g == [i \in 0 .. n |-> IF i = n THEN last ELSE f[i]]
    <2>2. n \in Nat /\ n # 0 /\ n - 1 \in 0 .. n
        BY LenProperties
    <2>3. \A i \in 0 .. n - 1 : g[i] = f[i]
        BY <2>2
    <2>4. \A i \in 1 .. n : i - 1 \in 0 .. n - 1
        BY <2>2
    <2>5. \A i \in 0 .. n - 1 : f[i] = IF i = 0 THEN << >>
                          ELSE IF i \in positions THEN Append(f[i - 1], list[i])
                          ELSE f[i - 1]
        <3> HIDE DEF T
        <3> QED BY <2>1, Zenon DEF UpTo
    <2>6. \A i \in 0 .. n : g[i] = IF i = 0 THEN << >>
                          ELSE IF i \in positions THEN Append(g[i - 1], list[i])
                          ELSE g[i - 1]
        <3> SUFFICES ASSUME NEW i \in 0 .. n
                     PROVE  g[i] = IF i = 0 THEN << >>
                          ELSE IF i \in positions THEN Append(g[i - 1], list[i])
                          ELSE g[i - 1]
             OBVIOUS
        <3>1. CASE i = n
             BY <3>1, <2>2, <2>3, <2>4
        <3>2. CASE i = 0
             BY <3>2, <2>2, <2>3, <2>5
        <3>3. CASE i # 0 /\ i # n
             <4>1. i \in 0 .. n - 1 /\ i - 1 \in 0 .. n - 1
                 BY <2>2, <3>3
             <4> QED
                 BY <2>3, <2>5, <3>3, <4>1
        <3> QED BY <3>1, <3>2, <3>3
    <2>7. UpTo(list, positions, n, g)
        BY <2>6, Zenon DEF UpTo
    <2> QED
        BY <2>2, <2>7
<1> HIDE DEF T
<1>3. 0 .. Len(list) \subseteq T
    BY <1>1, <1>2, Induction, LenProperties
<1>4. Len(list) \in T
    BY <1>3, LenProperties
<1> QED
    BY <1>4 DEF T

-----------------------------------------------------------------------------
(* h leads from the places of a sublist to those of its elements in list.  *)
Embeds(h, sub, list, positions) ==
    /\ h \in [1 .. Len(sub) -> positions]
    /\ \A i \in 1 .. Len(sub) : sub[i] = list[h[i]]
    /\ \A i, j \in 1 .. Len(sub) : i < j => h[i] < h[j]
    /\ \A p \in positions : \E i \in 1 .. Len(sub) : h[i] = p

LEMMA EmbedsNext ==
    ASSUME NEW S, NEW list \in Seq(S), NEW n \in 1 .. Len(list), NEW P,
           P \subseteq 1 .. n - 1, NEW sub \in Seq(S), NEW h, Embeds(h, sub, list, P)
    PROVE  \E g : Embeds(g, Append(sub, list[n]), list, P \union {n})
<1> DEFINE new == Append(sub, list[n])
           g == [i \in 1 .. Len(new) |-> IF i = Len(new) THEN n ELSE h[i]]
<1>1. /\ Len(sub) \in Nat /\ Len(new) = Len(sub) + 1 /\ new[Len(new)] = list[n]
      /\ \A i \in 1 .. Len(sub) : new[i] = sub[i]
    BY LenProperties, ElementOfSeq, AppendProperties
<1> HIDE DEF new
<1>2. \A i \in 1 .. Len(sub) : g[i] = h[i] /\ h[i] \in P /\ h[i] < n
    <2> SUFFICES ASSUME NEW i \in 1 .. Len(sub)
                 PROVE  g[i] = h[i] /\ h[i] \in P /\ h[i] < n
        OBVIOUS
    <2>1. i \in 1 .. Len(new) /\ i # Len(new)
        BY <1>1
    <2>2. h[i] \in P
        BY DEF Embeds
    <2>3. n \in Nat
        BY LenProperties
    <2>4. \A p \in P : p < n
        BY <2>3
    <2>5. h[i] < n
        BY <2>2, <2>4
    <2> QED
        BY <2>1, <2>2, <2>5
<1>3. g[Len(new)] = n
    BY <1>1
<1>4. \A i \in 1 .. Len(new) : i \in 1 .. Len(sub) \/ i = Len(new)
    BY <1>1
<1>5. g \in [1 .. Len(new) -> P \union {n}]
    BY <1>2, <1>3, <1>4
<1> HIDE DEF g
<1>6. \A i \in 1 .. Len(new) : new[i] = list[g[i]]
    BY <1>1, <1>2, <1>3, <1>4 DEF Embeds
<1>7. \A i, j \in 1 .. Len(new) : i < j => g[i] < g[j]
    <2> SUFFICES ASSUME NEW i \in 1 .. Len(new), NEW j \in 1 .. Len(new), i < j
                 PROVE  g[i] < g[j]
        OBVIOUS
    <2>1. i \in 1 .. Len(sub)
        BY <1>1
    <2> QED
        BY <2>1, <1>2, <1>3, <1>4 DEF Embeds
<1>8. \A p \in P \union {n} : \E i \in 1 .. Len(new) : g[i] = p
    <2>1. Len(new) \in 1 .. Len(new) /\ \A i \in 1 .. Len(sub) : i \in 1 .. Len(new)
        BY <1>1
    <2> QED
        BY <2>1, <1>2, <1>3 DEF Embeds
<1> QED
    BY SMTT(30), <1>5, <1>6, <1>7, <1>8 DEF Embeds, new

LEMMA SublistEmbeds ==
    ASSUME NEW S, NEW list \in Seq(S), NEW positions, positions \subseteq DOMAIN list
    PROVE  /\ Sublist(list, positions) \in Seq(S)
           /\ \E h : Embeds(h, Sublist(list, positions), list, positions)
<1> DEFINE N == Len(list)
           f == CHOOSE g : UpTo(list, positions, N, g)
           Here(n) == positions \intersect (1 .. n)
           T == {n \in 0 .. N : f[n] \in Seq(S) /\ \E h : Embeds(h, f[n], list, Here(n))}
<1>1. UpTo(list, positions, N, f)
    BY UpToExists
<1>2. Sublist(list, positions) = f[N]
    BY DEF Sublist, UpTo
<1> HIDE DEF f
<1>3. N \in Nat /\ DOMAIN list = 1 .. N /\ \A i \in 1 .. N : list[i] \in S
    BY LenProperties, ElementOfSeq
<1>4. \A n \in 0 .. N : f[n] = IF n = 0 THEN << >>
                               ELSE IF n \in positions THEN Append(f[n - 1], list[n])
                               ELSE f[n - 1]
    BY <1>1, Zenon DEF UpTo
<1>5. 0 \in T
    <2>1. f[0] = << >> /\ Here(0) = {}
        BY <1>3, <1>4
    <2>2. Embeds([i \in 1 .. 0 |-> 0], << >>, list, {})
        <3>1. 1 .. Len(<< >>) = {} /\ 1 .. 0 = {}
            OBVIOUS
        <3> QED
            BY <3>1 DEF Embeds
    <2>3. \E h : Embeds(h, f[0], list, Here(0))
        <3> HIDE DEF Here, N, T
        <3> QED
            BY <2>1, <2>2
    <2>4. f[0] \in Seq(S) /\ 0 \in 0 .. N
        BY <1>3, <2>1
    <2> QED
        BY <2>3, <2>4
<1>6. ASSUME NEW n \in 1 .. N, n - 1 \in T PROVE n \in T
    <2>1. PICK h : Embeds(h, f[n - 1], list, Here(n - 1))
        BY <1>6
    <2>2. f[n - 1] \in Seq(S) /\ n \in 0 .. N /\ n # 0 /\ Here(n - 1) \subseteq 1 .. n - 1
        BY <1>3, <1>6
    <2>3. CASE n \in positions
        <3>1. f[n] = Append(f[n - 1], list[n])
            BY <1>4, <2>2, <2>3
        <3>0. Here(n) = Here(n - 1) \union {n}
            BY <1>3, <2>2, <2>3
        <3>2. f[n] \in Seq(S)
            BY <1>3, <2>2, <3>1, AppendProperties
        <3>3. \E g : Embeds(g, f[n], list, Here(n))
            <4>1. n \in 1 .. Len(list) /\ Here(n - 1) \subseteq 1 .. n - 1 /\ f[n - 1] \in Seq(S)
                BY <2>2
            <4> HIDE DEF Here, N, T
            <4>2. \E g : Embeds(g, Append(f[n - 1], list[n]), list, Here(n - 1) \union {n})
                BY <2>1, <4>1, EmbedsNext
            <4> QED
                BY <4>2, <3>0, <3>1
        <3> QED
            BY <2>2, <3>2, <3>3
    <2>4. CASE n \notin positions
        <3>1. f[n] = f[n - 1] /\ Here(n) = Here(n - 1)
            BY <1>3, <1>4, <2>2, <2>4
        <3> QED
            BY <2>1, <2>2, <3>1
    <2> QED
        BY <2>3, <2>4
<1>7. N \in T
    <2> HIDE DEF T
    <2>1. 0 .. N \subseteq T
        BY <1>3, <1>5, <1>6, Induction
    <2> QED
        BY <1>3, <2>1
<1>8. Here(N) = positions
    BY <1>3
<1> QED
    BY <1>2, <1>7, <1>8

-----------------------------------------------------------------------------
LEMMA SublistProperties ==
    ASSUME NEW S, NEW list \in Seq(S), NEW positions, positions \subseteq DOMAIN list
    PROVE  LET sub == Sublist(list, positions) IN
           /\ sub \in Seq(S) /\ Len(sub) \in Nat /\ DOMAIN sub = 1 .. Len(sub)
           /\ \A i \in DOMAIN sub : \E p \in positions : sub[i] = list[p]
           /\ \A p \in positions : \E i \in DOMAIN sub : sub[i] = list[p]
           /\ (\A p, q \in positions : list[p] = list[q] => p = q)
                => \A i, j \in DOMAIN sub : sub[i] = sub[j] => i = j
<1> DEFINE sub == Sublist(list, positions)
<1>1. sub \in Seq(S) /\ \E h : Embeds(h, sub, list, positions)
    BY SublistEmbeds
<1>2. PICK h : Embeds(h, sub, list, positions)
    BY <1>1
<1>3. Len(sub) \in Nat /\ DOMAIN sub = 1 .. Len(sub)
    BY <1>1, LenProperties
<1> HIDE DEF sub
<1>4. \A i \in DOMAIN sub : h[i] \in positions /\ sub[i] = list[h[i]]
    BY <1>2, <1>3 DEF Embeds
<1>5. \A p \in positions : \E i \in DOMAIN sub : h[i] = p
    BY <1>2, <1>3 DEF Embeds
<1>6. \A i, j \in DOMAIN sub : h[i] = h[j] => i = j
    <2> SUFFICES ASSUME NEW i \in DOMAIN sub, NEW j \in DOMAIN sub, i < j PROVE h[i] # h[j]
        BY <1>3
    <2>1. h[i] < h[j]
        BY <1>2, <1>3 DEF Embeds
    <2>2. h[i] \in Nat /\ h[j] \in Nat
        <3>1. DOMAIN list \subseteq Nat
            BY LenProperties
        <3> QED
            BY <1>4, <3>1
    <2> QED
        BY <2>1, <2>2
<1> QED
    BY <1>1, <1>3, <1>4, <1>5, <1>6 DEF sub

-----------------------------------------------------------------------------
(* ahead gives the elements of H that come before another one in an order. *)
(* At least n elements have fewer than n before them, if there are n.      *)
LEMMA FirstInOrder ==
    ASSUME NEW H, IsFiniteSet(H), NEW ahead \in [H -> SUBSET H],
           \A x \in H : x \notin ahead[x],
           \A x \in H : \A y \in ahead[x] : ahead[y] \subseteq ahead[x],
           NEW n \in Nat, n <= Cardinality(H)
    PROVE  Cardinality({x \in H : Cardinality(ahead[x]) < n}) >= n
<1> DEFINE First(k) == {x \in H : Cardinality(ahead[x]) < k}
           N == Cardinality(H)
           T == {k \in 0 .. N : Cardinality(First(k)) >= k}
<1>1. N \in Nat
    BY FS_CardinalityType
<1>2. \A x \in H : IsFiniteSet(ahead[x]) /\ Cardinality(ahead[x]) \in Nat
    BY FS_Subset, FS_CardinalityType
<1>3. \A k : IsFiniteSet(First(k)) /\ Cardinality(First(k)) \in Nat
    <2> TAKE k
    <2>1. First(k) \in SUBSET H
        OBVIOUS
    <2> HIDE DEF First
    <2> QED
        BY <2>1, FS_Subset, FS_CardinalityType
<1>4. 0 \in T
    BY <1>1, <1>3
<1>5. ASSUME NEW k \in 1 .. N, k - 1 \in T PROVE k \in T
    <2> DEFINE old == First(k - 1)
               rest == H \ old
               sizes == {Cardinality(ahead[x]) : x \in rest}
    <2>1. k \in Nat /\ k - 1 \in Nat /\ k - 1 < k /\ Cardinality(old) >= k - 1 /\ k <= N
        BY <1>1, <1>5
    <2>0. IsFiniteSet(old) /\ Cardinality(old) \in Nat
        <3> HIDE DEF First
        <3> QED
            BY <1>3
    <2>2. old \subseteq First(k)
        <3> SUFFICES ASSUME NEW x \in H, Cardinality(ahead[x]) < k - 1 PROVE Cardinality(ahead[x]) < k
            OBVIOUS
        <3> QED
            BY <1>2, <2>1
    <2>3. CASE Cardinality(old) >= k
        <3> HIDE DEF First
        <3>1. Cardinality(old) <= Cardinality(First(k))
            BY <1>3, <2>2, FS_Subset
        <3> QED
            BY <1>1, <1>3, <2>1, <2>3, <3>1
    <2>4. CASE ~(Cardinality(old) >= k)
        <3>1. Cardinality(old) = k - 1
            <4> HIDE DEF old
            <4> QED
                BY <2>0, <2>1, <2>4
        <3>2. rest # {}
            <4>1. rest = {} => old = H
                OBVIOUS
            <4>2. k - 1 # N
                BY <1>1, <2>1
            <4> HIDE DEF old, rest
            <4> QED
                BY <4>1, <4>2, <3>1
        <3>3. PICK m \in rest : \A x \in rest : Cardinality(ahead[m]) <= Cardinality(ahead[x])
            <4>1. sizes \subseteq Nat /\ sizes # {}
                BY <1>2, <3>2
            <4>2. PICK j \in sizes : \A i \in sizes : j <= i
                <5> HIDE DEF sizes
                <5> QED
                    BY <4>1, LeastNumber
            <4> QED
                BY <4>2
        <3>4. ahead[m] \subseteq old
            <4> SUFFICES ASSUME NEW x \in ahead[m], x \in rest PROVE FALSE
                OBVIOUS
            <4>1. ahead[x] \subseteq ahead[m] /\ ahead[x] # ahead[m]
                BY <3>3
            <4>2. Cardinality(ahead[x]) <= Cardinality(ahead[m]) /\ Cardinality(ahead[x]) # Cardinality(ahead[m])
                BY <1>2, <3>3, <4>1, FS_Subset
            <4>3. Cardinality(ahead[m]) <= Cardinality(ahead[x])
                BY <3>3
            <4> QED
                BY <1>2, <3>3, <4>2, <4>3
        <3>5. Cardinality(ahead[m]) <= k - 1
            BY <1>3, <3>1, <3>4, FS_Subset
        <3>6. m \in First(k)
            BY <1>2, <2>1, <3>3, <3>5
        <3>7. m \notin old
            BY <3>3
        <3> HIDE DEF First, old
        <3>8. Cardinality(old \union {m}) = k
            <4>1. Cardinality(old \union {m}) = Cardinality(old) + 1
                BY <2>0, <3>7, FS_AddElement
            <4> QED
                BY <2>1, <3>1, <4>1
        <3>9. Cardinality(old \union {m}) <= Cardinality(First(k))
            BY <1>3, <2>2, <3>6, FS_Subset
        <3> QED
            BY <1>1, <1>3, <2>1, <3>8, <3>9
    <2> QED
        BY <2>3, <2>4
<1>6. n \in T
    <2>1. n \in 0 .. N
        BY <1>1
    <2> HIDE DEF T
    <2>2. 0 .. N \subseteq T
        BY <1>1, <1>4, <1>5, Induction
    <2> QED
        BY <2>1, <2>2
<1> QED
    BY <1>6
=============================================================================
