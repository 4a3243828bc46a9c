-------------------------- MODULE ReadStateProofs --------------------------
(***************************************************************************)
(* The read state (ReadState) for any requests, events, contexts, limits   *)
(* and numbers of attempts: baselines stay, nothing becomes read by        *)
(* itself, and the handlers cannot be told from atomic requests.           *)
(*                                                                         *)
(* The invariant says what a request is about to write: what it wants, by  *)
(* some limit, of the state it read last.  A compare-and-set that succeeds *)
(* is then the abstract step.                                              *)
(***************************************************************************)
EXTENDS ReadState, DataLemmas

(* What r is about to write follows from what it read; only feed requests  *)
(* look at the state before.                                               *)
AboutToMark(r) ==
    \E n \in Limits : next[r] = Marked(snapshot[r], op[r].context, page[r], n)

AboutToInitialise(r) ==
    /\ snapshot[r].readAt[op[r].context] = Unset
    /\ next[r] = Initialised(snapshot[r], op[r].context, baseline[r])

Pending(r) ==
    /\ pc[r] = "look" => op[r].kind # "mark"
    /\ pc[r] = "cas" => IF op[r].kind = "mark" THEN AboutToMark(r) ELSE AboutToInitialise(r)

(* A "mark read" with IDs has no other events on its page.                 *)
Asked(r) ==
    op[r].kind = "mark" /\ op[r].ids # {} => OnPage(page[r]) \subseteq op[r].ids

IInv ==
    /\ TypeOK
    /\ \A r \in Requests : Pending(r) /\ Asked(r)
    /\ OnlyRequestedAreSeen

-----------------------------------------------------------------------------
(* Facts about the operators.                                              *)
LEMMA OpTyped ==
    ASSUME TypeOK, NEW r \in Requests
    PROVE  op[r] \in Ops /\ op[r].context \in Contexts /\ op[r].kind \in {"get", "filter", "mark"}
BY OpsAssumption DEF TypeOK

LEMMA MarkedTyped ==
    ASSUME NEW s \in States, NEW c \in Contexts, NEW p \in [Events -> Nat], NEW n
    PROVE  Marked(s, c, p, n) \in States
<1> DEFINE q == [s.readAt EXCEPT ![c] = IF @ = Unset THEN 0 ELSE @]
<1>1. q \in [Contexts -> Nat \union {Unset}]
    BY DEF States
<1>2. SeenWith(s.seen, p) \in [Events -> Nat]
    BY DEF States, SeenWith
<1>3. Pruned(SeenWith(s.seen, p), n) \in [Events -> Nat]
    BY <1>2 DEF Pruned
<1> QED
    BY <1>1, <1>3 DEF Marked, States

(* "Mark read" gives events the time on the page, or leaves or drops them. *)
LEMMA MarkedSees ==
    ASSUME NEW s \in States, NEW c \in Contexts, NEW p \in [Events -> Nat], NEW n,
           NEW e \in Events
    PROVE  Marked(s, c, p, n).seen[e] \in {0, s.seen[e], p[e]}
<1>1. SeenWith(s.seen, p)[e] \in {s.seen[e], p[e]}
    BY DEF SeenWith
<1>2. Pruned(SeenWith(s.seen, p), n)[e] \in {0, SeenWith(s.seen, p)[e]}
    BY DEF Pruned
<1> QED
    BY <1>1, <1>2 DEF Marked

LEMMA MarkedKeepsBaselines ==
    ASSUME NEW s \in States, NEW c \in Contexts, NEW p, NEW n, NEW d \in Contexts,
           s.readAt[d] # Unset
    PROVE  Marked(s, c, p, n).readAt[d] = s.readAt[d]
BY DEF Marked, States

LEMMA InitialisedTyped ==
    ASSUME NEW s \in States, NEW c \in Contexts, NEW b \in Nat
    PROVE  Initialised(s, c, b) \in States /\ Initialised(s, c, b).seen = s.seen
BY DEF Initialised, States

LEMMA InitialisedKeepsBaselines ==
    ASSUME NEW s \in States, NEW c \in Contexts, NEW b, NEW d \in Contexts,
           s.readAt[c] = Unset, s.readAt[d] # Unset
    PROVE  Initialised(s, c, b).readAt[d] = s.readAt[d]
BY DEF Initialised, States

(* A page with timestamps up to a bound has a newest one.                  *)
LEMMA NewestBounded ==
    ASSUME NEW m \in Nat, NEW p \in [Events -> 0 .. m], OnPage(p) # {}
    PROVE  Newest(p) \in 0 .. m
<1> DEFINE T == {m - p[e] : e \in Events}
<1>1. T \subseteq Nat /\ T # {}
    BY DEF OnPage
<1>2. PICK x \in T : \A y \in T : x <= y
    <2> HIDE DEF T
    <2> QED
        BY <1>1, LeastNumber
<1>3. \A y \in T : x <= y
    BY <1>2
<1>4. PICK f \in Events : x = m - p[f]
    BY <1>2
<1>5. \A e \in Events : p[e] <= p[f]
    BY <1>3, <1>4
<1>6. \E t \in {p[e] : e \in Events} : \A e \in Events : p[e] <= t
    BY <1>5
<1>7. Newest(p) \in {p[e] : e \in Events}
    BY <1>6 DEF Newest
<1> QED
    BY <1>7

LEMMA Typed ==
    ASSUME TypeOK, NEW r \in Requests
    PROVE  /\ page[r] \in [Events -> Nat] /\ baseline[r] \in Nat
           /\ limit \in Limits /\ state \in States /\ attempt[r] \in Nat
<1>1. page[r] \in [Events -> 0 .. MaxClock]
    BY DEF TypeOK
<1>2. baseline[r] \in Nat
    BY MaxClockAssumption DEF TypeOK
<1>3. page[r] \in [Events -> Nat]
    BY <1>1, MaxClockAssumption
<1> QED
    BY <1>2, <1>3 DEF TypeOK

-----------------------------------------------------------------------------
(* The inductive invariant, one lemma per action.                          *)
LEMMA InitIInv == Init => IInv
<1> SUFFICES ASSUME Init PROVE IInv
    OBVIOUS
<1>1. EmptyState \in States
    BY DEF EmptyState, States
<1>2. TypeOK
    <2>1. clock \in 1 .. MaxClock /\ writes = {} /\ gone = {} /\ limit \in Limits
        BY MaxClockAssumption DEF Init
    <2>2. ts \in [Events -> 0 .. MaxClock] /\ page \in [Requests -> [Events -> 0 .. MaxClock]]
        BY MaxClockAssumption DEF Init, NoPage
    <2>3. baseline \in [Requests -> 0 .. MaxClock] /\ attempt \in [Requests -> Nat]
        BY MaxClockAssumption DEF Init
    <2>4. /\ state \in States /\ snapshot \in [Requests -> States] /\ next \in [Requests -> States]
          /\ op \in [Requests -> Ops] /\ pc \in [Requests -> Places]
          /\ unread \in [Requests -> SUBSET Events]
        BY <1>1 DEF Init, Places
    <2>5. \A r \in Requests : attempt[r] < MaxRetries
        BY MaxRetriesAssumption DEF Init
    <2> QED
        BY <2>1, <2>2, <2>3, <2>4, <2>5 DEF TypeOK
<1>3. \A r \in Requests : Pending(r) /\ Asked(r)
    BY DEF Init, Pending, Asked, OnPage, NoPage
<1>4. OnlyRequestedAreSeen
    BY DEF Init, OnlyRequestedAreSeen, EmptyState
<1> QED
    BY <1>2, <1>3, <1>4 DEF IInv

(* Requests that stay where they are, with what they have, are as good.    *)
LEMMA RequestKept ==
    ASSUME IInv, NEW r \in Requests, UNCHANGED op,
           page'[r] = page[r], baseline'[r] = baseline[r],
           \/ pc'[r] \notin {"look", "cas"}
           \/ pc'[r] = pc[r] /\ snapshot'[r] = snapshot[r] /\ next'[r] = next[r]
    PROVE  Pending(r)' /\ Asked(r)'
<1>1. Asked(r)'
    BY DEF IInv, Asked
<1>2. Pending(r)'
    BY DEF IInv, Pending, AboutToMark, AboutToInitialise
<1> QED
    BY <1>1, <1>2

(* What was seen stays requested while "mark reads" stay done.             *)
LEMMA SeenKept ==
    ASSUME IInv, UNCHANGED <<state, op>>,
           \A r \in Requests : pc[r] = "ok" => pc'[r] = "ok" /\ page'[r] = page[r]
    PROVE  OnlyRequestedAreSeen'
<1>1. \A r \in Marks : r \in Marks' /\ page'[r] = page[r]
    BY DEF Marks
<1> QED
    BY <1>1 DEF IInv, OnlyRequestedAreSeen

LEMMA StampStep ==
    ASSUME IInv, NEW e \in Events, Stamp(e)
    PROVE  IInv'
<1>1. clock' \in 1 .. MaxClock
    BY MaxClockAssumption DEF IInv, TypeOK, Stamp
<1>2. writes' \subseteq Events \X (1 .. MaxClock)
    BY <1>1 DEF IInv, TypeOK, Stamp
<1>3. TypeOK'
    BY <1>1, <1>2 DEF IInv, TypeOK, Stamp
<1>4. \A r \in Requests : Pending(r)' /\ Asked(r)'
    <2> SUFFICES ASSUME NEW r \in Requests PROVE Pending(r)' /\ Asked(r)'
        OBVIOUS
    <2> QED
        BY RequestKept DEF Stamp
<1>5. OnlyRequestedAreSeen'
    BY SeenKept DEF Stamp
<1> QED
    BY <1>3, <1>4, <1>5 DEF IInv

LEMMA StoreStep ==
    ASSUME IInv, NEW w \in writes, Store(w[1], w[2])
    PROVE  IInv'
<1> DEFINE e == w[1]
           t == w[2]
<1>1. e \in Events /\ t \in 0 .. MaxClock
    BY DEF IInv, TypeOK
<1>2. /\ writes' \subseteq writes
      /\ UNCHANGED <<clock, limit, state, op, pc, page, baseline, snapshot, next, attempt, unread>>
    BY DEF Store
<1>3. PICK new : ts' = [f \in Events |-> IF f \notin Elements(new) THEN 0
                                         ELSE IF f = e THEN t ELSE ts[f]]
    BY DEF Store
<1>4. ts' \in [Events -> 0 .. MaxClock]
    BY <1>1, <1>3, MaxClockAssumption DEF IInv, TypeOK
<1>5. gone' \subseteq Events
    BY DEF IInv, TypeOK, Store
<1>6. TypeOK'
    BY <1>2, <1>4, <1>5 DEF IInv, TypeOK
<1>7. \A r \in Requests : Pending(r)' /\ Asked(r)'
    <2> SUFFICES ASSUME NEW r \in Requests PROVE Pending(r)' /\ Asked(r)'
        OBVIOUS
    <2> QED
        BY <1>2, RequestKept
<1>8. OnlyRequestedAreSeen'
    BY <1>2, SeenKept
<1> QED
    BY <1>6, <1>7, <1>8 DEF IInv

LEMMA SetMaxEventsStep ==
    ASSUME IInv, NEW n \in Limits, SetMaxEvents(n)
    PROVE  IInv'
<1>1. TypeOK'
    BY DEF IInv, TypeOK, SetMaxEvents
<1>2. \A r \in Requests : Pending(r)' /\ Asked(r)'
    <2> SUFFICES ASSUME NEW r \in Requests PROVE Pending(r)' /\ Asked(r)'
        OBVIOUS
    <2> QED
        BY RequestKept DEF SetMaxEvents
<1>3. OnlyRequestedAreSeen'
    BY SeenKept DEF SetMaxEvents
<1> QED
    BY <1>1, <1>2, <1>3 DEF IInv

LEMMA LoadStep ==
    ASSUME IInv, NEW r \in Requests, Load(r)
    PROVE  IInv'
<1>1. PICK s : /\ page' = [page EXCEPT ![r] = Page(Chosen(op[r], Window(op[r], s)))]
               /\ baseline' = [baseline EXCEPT ![r] =
                      IF OnPage(Page(Chosen(op[r], Window(op[r], s)))) = {} THEN clock
                      ELSE Newest(Page(Chosen(op[r], Window(op[r], s))))]
    BY DEF Load
<1> DEFINE ids == Chosen(op[r], Window(op[r], s))
           p == Page(ids)
<1>2. p \in [Events -> 0 .. MaxClock]
    <2> HIDE DEF ids
    <2> QED
        BY MaxClockAssumption DEF IInv, TypeOK, Page
<1>3. baseline'[r] \in 0 .. MaxClock
    <2>1. baseline'[r] = IF OnPage(p) = {} THEN clock ELSE Newest(p)
        BY <1>1 DEF IInv, TypeOK
    <2> HIDE DEF p
    <2>2. OnPage(p) # {} => Newest(p) \in 0 .. MaxClock
        BY <1>2, NewestBounded, MaxClockAssumption
    <2>3. clock \in 0 .. MaxClock
        BY MaxClockAssumption DEF IInv, TypeOK
    <2> QED
        BY <2>1, <2>2, <2>3
<1>4. /\ pc[r] = "load"
      /\ pc' = [pc EXCEPT ![r] = IF op[r].kind = "mark" THEN "read" ELSE "look"]
      /\ UNCHANGED <<team, state, op, snapshot, next, attempt, unread>>
    BY DEF Load, Goto
<1>5. page' \in [Requests -> [Events -> 0 .. MaxClock]] /\ page'[r] = p
    <2>1. page' = [page EXCEPT ![r] = p]
        BY <1>1
    <2> HIDE DEF p
    <2> QED
        BY <2>1, <1>2 DEF IInv, TypeOK
<1>6. baseline' \in [Requests -> 0 .. MaxClock]
    BY <1>1, <1>3 DEF IInv, TypeOK
<1>7. TypeOK'
    <2>1. \A q \in Requests : pc'[q] \in {"load", "look", "read", "cas"} => attempt'[q] < MaxRetries
        BY <1>4 DEF IInv, TypeOK
    <2> QED
        BY <1>4, <1>5, <1>6, <2>1 DEF IInv, TypeOK, Places, team
<1>8. Asked(r)'
    <2> SUFFICES ASSUME op[r].kind = "mark", op[r].ids # {} PROVE OnPage(p) \subseteq op[r].ids
        <3> HIDE DEF p
        <3> QED
            BY <1>4, <1>5 DEF Asked
    <2>1. ids \subseteq op[r].ids
        BY DEF Chosen
    <2> HIDE DEF ids
    <2> QED
        BY <2>1 DEF OnPage, Page
<1>9. \A q \in Requests : Pending(q)' /\ Asked(q)'
    <2> SUFFICES ASSUME NEW q \in Requests PROVE Pending(q)' /\ Asked(q)'
        OBVIOUS
    <2>1. CASE q = r
        <3>1. pc'[r] = IF op[r].kind = "mark" THEN "read" ELSE "look"
            BY <1>4 DEF IInv, TypeOK
        <3> QED
            BY <2>1, <3>1, <1>4, <1>8 DEF Pending
    <2>2. CASE q # r
        <3>1. page'[q] = page[q] /\ baseline'[q] = baseline[q]
            BY <1>1, <2>2 DEF IInv, TypeOK
        <3>2. pc'[q] = pc[q]
            BY <1>4, <2>2 DEF IInv, TypeOK
        <3> QED
            BY <3>1, <3>2, <1>4, RequestKept
    <2> QED
        BY <2>1, <2>2
<1>10. OnlyRequestedAreSeen'
    <2>1. \A q \in Requests : pc[q] = "ok" => pc'[q] = "ok" /\ page'[q] = page[q]
        BY <1>1, <1>4 DEF IInv, TypeOK
    <2> QED
        BY <1>4, <2>1, SeenKept
<1> QED
    BY <1>7, <1>9, <1>10 DEF IInv

(* The steps that leave the state, the pages and the prepared states alone *)
(* and take a request to a place that asks nothing of it.                  *)
LEMMA RequestMoves ==
    ASSUME IInv, NEW r \in Requests, NEW place \in {"read", "ok", "failed"},
           pc[r] # "ok",
           pc' = [pc EXCEPT ![r] = place],
           unread' \in [Requests -> SUBSET Events],
           attempt' \in [Requests -> Nat],
           \A q \in Requests \ {r} : attempt'[q] = attempt[q],
           place = "read" => attempt'[r] < MaxRetries,
           UNCHANGED <<team, state, op, page, baseline, snapshot, next>>
    PROVE  IInv'
<1>1. \A q \in Requests : pc'[q] = IF q = r THEN place ELSE pc[q]
    BY DEF IInv, TypeOK
<1>2. \A q \in Requests : pc'[q] \in {"load", "look", "read", "cas"} => attempt'[q] < MaxRetries
    BY <1>1 DEF IInv, TypeOK
<1>3. pc' \in [Requests -> Places]
    BY DEF IInv, TypeOK, Places
<1>4. TypeOK'
    BY <1>2, <1>3 DEF IInv, TypeOK, team
<1>5. \A q \in Requests : Pending(q)' /\ Asked(q)'
    <2> SUFFICES ASSUME NEW q \in Requests PROVE Pending(q)' /\ Asked(q)'
        OBVIOUS
    <2> QED
        BY <1>1, RequestKept
<1>6. OnlyRequestedAreSeen'
    BY <1>1, SeenKept
<1> QED
    BY <1>4, <1>5, <1>6 DEF IInv

LEMMA LookStep ==
    ASSUME IInv, NEW r \in Requests, Look(r)
    PROVE  IInv'
<1>1. PICK place \in {"read", "ok"} : pc' = [pc EXCEPT ![r] = place]
    BY DEF Look, Goto
<1>2. Unread(state, op[r].context, page[r]) \in SUBSET Events
    BY DEF Unread, OnPage
<1>3. unread' \in [Requests -> SUBSET Events]
    BY <1>2 DEF Look, IInv, TypeOK
<1>4. pc[r] = "look" /\ attempt[r] < MaxRetries /\ attempt \in [Requests -> Nat]
    BY DEF Look, IInv, TypeOK
<1>5. UNCHANGED <<team, state, op, page, baseline, snapshot, next, attempt>>
    BY DEF Look
<1> QED
    BY <1>1, <1>3, <1>4, <1>5, RequestMoves

LEMMA ConflictStep ==
    ASSUME IInv, NEW r \in Requests, Conflict(r)
    PROVE  IInv'
<1>1. PICK place \in {"read", "failed"} :
        /\ pc' = [pc EXCEPT ![r] = place]
        /\ place = "read" => attempt[r] + 1 < MaxRetries
    BY DEF Conflict, Goto
<1>2. /\ attempt' = [attempt EXCEPT ![r] = attempt[r] + 1]
      /\ attempt \in [Requests -> Nat] /\ pc[r] = "cas"
      /\ UNCHANGED <<team, state, op, page, baseline, snapshot, next, unread>>
      /\ unread \in [Requests -> SUBSET Events]
    BY DEF Conflict, IInv, TypeOK
<1>3. /\ attempt' \in [Requests -> Nat] /\ attempt'[r] = attempt[r] + 1
      /\ \A q \in Requests \ {r} : attempt'[q] = attempt[q]
    BY <1>2
<1> QED
    BY <1>1, <1>2, <1>3, RequestMoves

LEMMA FailStep ==
    ASSUME IInv, NEW r \in Requests, RequestFails(r)
    PROVE  IInv'
<1>1. /\ pc[r] # "ok"
      /\ pc' = [pc EXCEPT ![r] = "failed"]
      /\ UNCHANGED <<team, state, op, page, baseline, snapshot, next, attempt, unread>>
      /\ attempt \in [Requests -> Nat] /\ unread \in [Requests -> SUBSET Events]
    BY DEF RequestFails, Goto, IInv, TypeOK
<1> QED
    BY <1>1, RequestMoves

LEMMA WantedTyped ==
    ASSUME TypeOK, NEW r \in Requests
    PROVE  Wanted(r) \in States
<1>1. op[r].context \in Contexts
    BY OpTyped
<1> QED
    BY <1>1, Typed, MarkedTyped, InitialisedTyped DEF Wanted

LEMMA ReadStep ==
    ASSUME IInv, NEW r \in Requests, Read(r)
    PROVE  IInv'
<1>1. CASE ~Changed(r)
    <2>1. Unread(state, op[r].context, page[r]) \in SUBSET Events
        BY DEF Unread, OnPage
    <2>2. unread' \in [Requests -> SUBSET Events]
        BY <1>1, <2>1 DEF Read, IInv, TypeOK
    <2>3. /\ pc[r] = "read" /\ pc' = [pc EXCEPT ![r] = "ok"]
          /\ UNCHANGED <<team, state, op, page, baseline, snapshot, next, attempt>>
          /\ attempt \in [Requests -> Nat]
        BY <1>1 DEF Read, Goto, IInv, TypeOK
    <2> QED
        BY <2>2, <2>3, RequestMoves
<1>2. CASE Changed(r)
    <2>1. /\ pc[r] = "read" /\ pc' = [pc EXCEPT ![r] = "cas"]
          /\ snapshot' = [snapshot EXCEPT ![r] = state]
          /\ next' = [next EXCEPT ![r] = Wanted(r)]
          /\ UNCHANGED <<team, state, op, page, baseline, attempt, unread>>
        BY <1>2 DEF Read, Goto
    <2>2. Wanted(r) \in States
        BY WantedTyped DEF IInv
    <2>3. snapshot' \in [Requests -> States] /\ next' \in [Requests -> States]
        BY <2>1, <2>2 DEF IInv, TypeOK
    <2>4. pc' \in [Requests -> Places]
        BY <2>1 DEF IInv, TypeOK, Places
    <2>5. \A q \in Requests : pc'[q] \in {"load", "look", "read", "cas"} => attempt'[q] < MaxRetries
        BY <2>1 DEF IInv, TypeOK
    <2>6. TypeOK'
        BY <2>1, <2>3, <2>4, <2>5 DEF IInv, TypeOK, team
    <2>7. \A q \in Requests \ {r} : pc'[q] = pc[q] /\ snapshot'[q] = snapshot[q] /\ next'[q] = next[q]
        BY <2>1 DEF IInv, TypeOK
    <2>8. snapshot'[r] = state /\ next'[r] = Wanted(r)
        BY <2>1 DEF IInv, TypeOK
    <2>9. Pending(r)'
        <3>1. CASE op[r].kind = "mark"
            <4>1. next'[r] = Marked(snapshot'[r], op'[r].context, page'[r], limit)
                BY <3>1, <2>1, <2>8 DEF Wanted
            <4>2. limit \in Limits
                BY DEF IInv, TypeOK
            <4>3. AboutToMark(r)'
                BY <4>1, <4>2 DEF AboutToMark
            <4> QED
                BY <3>1, <4>3, <2>1 DEF Pending
        <3>2. CASE op[r].kind # "mark"
            <4>1. AboutToInitialise(r)'
                BY <3>2, <1>2, <2>1, <2>8 DEF AboutToInitialise, Wanted, Changed
            <4> QED
                BY <3>2, <4>1, <2>1 DEF Pending
        <3> QED
            BY <3>1, <3>2
    <2>10. Asked(r)'
        BY <2>1 DEF IInv, Asked
    <2>11. \A q \in Requests : Pending(q)' /\ Asked(q)'
        <3> SUFFICES ASSUME NEW q \in Requests, q # r PROVE Pending(q)' /\ Asked(q)'
            BY <2>9, <2>10
        <3> QED
            BY <2>1, <2>7, RequestKept
    <2>12. OnlyRequestedAreSeen'
        <3>1. \A q \in Requests : pc[q] = "ok" => pc'[q] = "ok" /\ page'[q] = page[q]
            BY <2>1, <2>7
        <3> QED
            BY <2>1, <3>1, SeenKept
    <2> QED
        BY <2>6, <2>11, <2>12 DEF IInv
<1> QED
    BY <1>1, <1>2

LEMMA CompareAndSetStep ==
    ASSUME IInv, NEW r \in Requests, CompareAndSet(r)
    PROVE  IInv'
<1>1. /\ pc[r] = "cas" /\ state = snapshot[r] /\ state' = next[r]
      /\ pc' = [pc EXCEPT ![r] = "ok"]
      /\ UNCHANGED <<team, op, page, baseline, snapshot, next, attempt, unread>>
    BY DEF CompareAndSet, Goto
<1>2. \A q \in Requests : pc'[q] = IF q = r THEN "ok" ELSE pc[q]
    BY <1>1 DEF IInv, TypeOK
<1>3. TypeOK'
    <2>1. \A q \in Requests : pc'[q] \in {"load", "look", "read", "cas"} => attempt'[q] < MaxRetries
        BY <1>1, <1>2 DEF IInv, TypeOK
    <2>2. pc' \in [Requests -> Places] /\ state' \in States
        BY <1>1 DEF IInv, TypeOK, Places
    <2> QED
        BY <1>1, <2>1, <2>2 DEF IInv, TypeOK, team
<1>4. \A q \in Requests : Pending(q)' /\ Asked(q)'
    <2> SUFFICES ASSUME NEW q \in Requests PROVE Pending(q)' /\ Asked(q)'
        OBVIOUS
    <2> QED
        BY <1>1, <1>2, RequestKept
<1>5. OnlyRequestedAreSeen'
    <2> SUFFICES ASSUME NEW e \in Events, state'.seen[e] > 0
                 PROVE  \E q \in Marks' : /\ page'[q][e] = state'.seen[e]
                                          /\ op'[q].ids = {} \/ e \in op'[q].ids
        BY DEF OnlyRequestedAreSeen
    <2>1. CASE state'.seen[e] = state.seen[e]
        <3>1. PICK q \in Marks : page[q][e] = state.seen[e] /\ (op[q].ids = {} \/ e \in op[q].ids)
            BY <2>1 DEF IInv, OnlyRequestedAreSeen
        <3>2. q \in Marks'
            BY <1>1, <1>2, <3>1 DEF Marks
        <3> QED
            BY <1>1, <2>1, <3>1, <3>2
    <2>2. CASE op[r].kind = "mark"
        <3>1. PICK n \in Limits : next[r] = Marked(state, op[r].context, page[r], n)
            BY <1>1, <2>2 DEF IInv, Pending, AboutToMark
        <3>2. state'.seen[e] \in {0, state.seen[e], page[r][e]}
            BY <1>1, <3>1, OpTyped, Typed, MarkedSees DEF IInv
        <3>3. CASE state'.seen[e] = page[r][e]
            <4>1. r \in Marks'
                BY <1>1, <1>2, <2>2 DEF Marks
            <4>2. e \in OnPage(page[r])
                BY <3>3 DEF OnPage
            <4>3. op[r].ids = {} \/ e \in op[r].ids
                BY <4>2, <2>2 DEF IInv, Asked
            <4> QED
                BY <1>1, <3>3, <4>1, <4>3
        <3> QED
            BY <2>1, <3>2, <3>3
    <2>3. CASE op[r].kind # "mark"
        <3>1. next[r] = Initialised(state, op[r].context, baseline[r])
            BY <1>1, <2>3 DEF IInv, Pending, AboutToInitialise
        <3>2. state'.seen[e] = state.seen[e]
            BY <1>1, <3>1, OpTyped, Typed, InitialisedTyped DEF IInv
        <3> QED
            BY <2>1, <3>2
    <2> QED
        BY <2>2, <2>3
<1> QED
    BY <1>3, <1>4, <1>5 DEF IInv

LEMMA StutterStep == IInv /\ UNCHANGED vars => IInv'
<1> SUFFICES ASSUME IInv, UNCHANGED vars PROVE IInv'
    OBVIOUS
<1>1. TypeOK'
    BY DEF IInv, TypeOK, vars
<1>2. \A r \in Requests : Pending(r)' /\ Asked(r)'
    <2> SUFFICES ASSUME NEW r \in Requests PROVE Pending(r)' /\ Asked(r)'
        OBVIOUS
    <2> QED
        BY RequestKept DEF vars
<1>3. OnlyRequestedAreSeen'
    BY SeenKept DEF vars
<1> QED
    BY <1>1, <1>2, <1>3 DEF IInv

LEMMA StepIInv == IInv /\ [Next]_vars => IInv'
BY StampStep, StoreStep, SetMaxEventsStep, LoadStep, LookStep, ReadStep, CompareAndSetStep,
   ConflictStep, FailStep, StutterStep DEF Next, Step, Environment

(* The invariant of the read state (store.go:186-276, api.go:651-746),     *)
(* whose parts the next theorems read off.                                 *)
THEOREM Invariance == Spec => []IInv
<1> QED
    BY InitIInv, StepIInv, PTL DEF Spec

(* All state is typed, and a request that still reads or writes the read   *)
(* state has an attempt left (store.go:286-314).                           *)
THEOREM TypeCorrect == Spec => []TypeOK
<1>1. IInv => TypeOK
    BY DEF IInv
<1> QED
    BY <1>1, Invariance, PTL

(* An event is seen up to a time only if a "mark read" that asked for it   *)
(* loaded it with that time and was answered without error                 *)
(* (store.go:220-242, api.go:731-746).                                     *)
THEOREM NothingReadByItself == Spec => []OnlyRequestedAreSeen
<1>1. IInv => OnlyRequestedAreSeen
    BY DEF IInv
<1> QED
    BY <1>1, Invariance, PTL

(* What a request is about to write has the baselines it read.             *)
LEMMA PendingKeepsBaselines ==
    ASSUME IInv, NEW r \in Requests, CompareAndSet(r), NEW c \in Contexts,
           state.readAt[c] # Unset
    PROVE  state'.readAt[c] = state.readAt[c]
<1>1. pc[r] = "cas" /\ state = snapshot[r] /\ state' = next[r]
    BY DEF CompareAndSet
<1>2. CASE op[r].kind = "mark"
    <2>1. PICK n \in Limits : next[r] = Marked(state, op[r].context, page[r], n)
        BY <1>1, <1>2 DEF IInv, Pending, AboutToMark
    <2> QED
        BY <1>1, <2>1, OpTyped, Typed, MarkedKeepsBaselines DEF IInv
<1>3. CASE op[r].kind # "mark"
    <2>1. /\ state.readAt[op[r].context] = Unset
          /\ next[r] = Initialised(state, op[r].context, baseline[r])
        BY <1>1, <1>3 DEF IInv, Pending, AboutToInitialise
    <2> QED
        BY <1>1, <2>1, OpTyped, Typed, InitialisedKeepsBaselines DEF IInv
<1> QED
    BY <1>2, <1>3

LEMMA BaselineStep ==
    ASSUME IInv, [Next]_vars, NEW c \in Contexts, state.readAt[c] # Unset
    PROVE  state'.readAt[c] = state.readAt[c]
<1>1. ASSUME NEW r \in Requests, CompareAndSet(r) PROVE state'.readAt[c] = state.readAt[c]
    BY <1>1, PendingKeepsBaselines
<1>2. \/ state' = state
      \/ \E r \in Requests : CompareAndSet(r)
    BY DEF Next, Step, Environment, vars, Load, Look, Read, Conflict, RequestFails, Stamp, Store,
           SetMaxEvents
<1> QED
    BY <1>1, <1>2

(* However many tabs open a context at a time, its baseline is set once    *)
(* (store.go:186-201, 228).                                                *)
THEOREM BaselineIsKept == Spec => BaselineKept
<1>1. IInv /\ [Next]_vars =>
        [\A c \in Contexts : state.readAt[c] # Unset => state'.readAt[c] = state.readAt[c]]_vars
    BY BaselineStep
<1> QED
    BY <1>1, Invariance, PTL DEF Spec, BaselineKept

-----------------------------------------------------------------------------
(* Requests implement atomic requests.  The abstract module brings its own *)
(* copy of the pure operators.                                             *)
LEMMA SameOperators ==
    ASSUME NEW s, NEW c, NEW p, NEW n, NEW b
    PROVE  /\ Abstract!Marked(s, c, p, n) = Marked(s, c, p, n)
           /\ Abstract!Initialised(s, c, b) = Initialised(s, c, b)
           /\ Abstract!Unread(s, c, p) = Unread(s, c, p)
<1>1. Abstract!OnPage(p) = OnPage(p)
    BY DEF Abstract!OnPage, OnPage
<1>2. Abstract!Unread(s, c, p) = Unread(s, c, p)
    BY <1>1 DEF Abstract!Unread, Unread
<1>3. Abstract!Initialised(s, c, b) = Initialised(s, c, b)
    BY Zenon DEF Abstract!Initialised, Initialised
<1>4. ASSUME NEW S PROVE Abstract!Cardinality(S) = Cardinality(S)
    BY Zenon DEF Abstract!Cardinality, Cardinality
<1>5. Abstract!SeenWith(s.seen, p) = SeenWith(s.seen, p)
    BY Zenon DEF Abstract!SeenWith, SeenWith
<1>6. ASSUME NEW seen PROVE Abstract!Pruned(seen, n) = Pruned(seen, n)
    <2>1. ASSUME NEW e PROVE Abstract!Ahead(seen, e) = Ahead(seen, e)
        BY Zenon DEF Abstract!Ahead, Ahead
    <2>2. ASSUME NEW e
          PROVE  Abstract!Cardinality(Abstract!Ahead(seen, e)) = Cardinality(Ahead(seen, e))
        BY <2>1, <1>4
    <2> QED
        BY <2>2 DEF Abstract!Pruned, Pruned
<1>7. Abstract!Marked(s, c, p, n) = Marked(s, c, p, n)
    BY <1>1, <1>5, <1>6, Zenon DEF Abstract!Marked, Marked
<1> QED
    BY <1>2, <1>3, <1>7

(* A "mark read" that has nothing to change has its effect all the same.   *)
LEMMA UnchangedMark ==
    ASSUME TypeOK, NEW r \in Requests, op[r].kind = "mark", ~Changed(r)
    PROVE  Marked(state, op[r].context, page[r], limit) = state
<1>1. CASE OnPage(page[r]) = {}
    BY <1>1 DEF Marked
<1>2. CASE OnPage(page[r]) # {}
    <2> DEFINE c == op[r].context
               q == [state.readAt EXCEPT ![c] = IF @ = Unset THEN 0 ELSE @]
    <2>1. /\ state.readAt[c] # Unset /\ SeenWith(state.seen, page[r]) = state.seen
          /\ Pruned(state.seen, limit) = state.seen
        BY <1>2 DEF Changed
    <2>2. state \in States
        BY Typed
    <2>3. q = state.readAt
        BY <2>1, <2>2 DEF States
    <2>4. Marked(state, c, page[r], limit) = [readAt |-> q, seen |-> state.seen]
        BY <1>2, <2>1 DEF Marked
    <2> QED
        BY <2>2, <2>3, <2>4 DEF States
<1> QED
    BY <1>1, <1>2

LEMMA RefinesInit == Init => Abstract!Init
BY DEF Init, Abstract!Init, AbstractStatus, EmptyState, Abstract!EmptyState, NoPage

LEMMA StatusMoves ==
    ASSUME TypeOK, NEW r \in Requests, NEW place \in Places, pc' = [pc EXCEPT ![r] = place]
    PROVE  AbstractStatus' = [AbstractStatus EXCEPT ![r] =
               IF place = "load" THEN "loading"
               ELSE IF place \in {"look", "read", "cas"} THEN "running" ELSE place]
BY DEF TypeOK, AbstractStatus

(* A step among the places of a request under way is no abstract step.     *)
LEMMA StutterInside ==
    ASSUME TypeOK, NEW r \in Requests, NEW place \in {"look", "read", "cas"},
           pc[r] \in {"look", "read", "cas"}, pc' = [pc EXCEPT ![r] = place],
           UNCHANGED <<state, op, page, baseline, unread>>
    PROVE  UNCHANGED Abstract!vars
<1>1. AbstractStatus' = AbstractStatus
    BY DEF TypeOK, AbstractStatus
<1> QED
    BY <1>1 DEF Abstract!vars

LEMMA RefinesFail ==
    ASSUME TypeOK, NEW r \in Requests, pc[r] \in {"load", "look", "read", "cas"},
           pc' = [pc EXCEPT ![r] = "failed"],
           UNCHANGED <<state, op, page, baseline, unread>>
    PROVE  Abstract!Next
<1>1. AbstractStatus' = [AbstractStatus EXCEPT ![r] = "failed"]
    BY StatusMoves DEF Places
<1>2. AbstractStatus[r] \in {"loading", "running"}
    BY DEF AbstractStatus
<1>3. Abstract!Fail(r)
    BY <1>1, <1>2 DEF Abstract!Fail
<1> QED
    BY <1>3 DEF Abstract!Next

(* A feed request that finds a baseline reports what is unread by it.      *)
LEMMA RefinesReport ==
    ASSUME TypeOK, NEW r \in Requests, pc[r] \in {"look", "read"}, op[r].kind # "mark",
           pc' = [pc EXCEPT ![r] = "ok"],
           state.readAt[op[r].context] # Unset,
           unread' = [unread EXCEPT ![r] = Unread(state, op[r].context, page[r])],
           UNCHANGED <<state, op, page, baseline>>
    PROVE  Abstract!Next
<1>1. AbstractStatus' = [AbstractStatus EXCEPT ![r] = "ok"] /\ AbstractStatus[r] = "running"
    BY StatusMoves DEF Places, AbstractStatus
<1>2. unread' = [unread EXCEPT ![r] = Abstract!Unread(state, op[r].context, page[r])]
    BY SameOperators
<1>3. Abstract!Report(r)
    BY <1>1, <1>2 DEF Abstract!Report
<1> QED
    BY <1>3 DEF Abstract!Next

LEMMA RefinesMark ==
    ASSUME TypeOK, NEW r \in Requests, pc[r] \in {"read", "cas"}, op[r].kind = "mark",
           pc' = [pc EXCEPT ![r] = "ok"],
           NEW n \in Limits, state' = Marked(state, op[r].context, page[r], n),
           UNCHANGED <<op, page, baseline, unread>>
    PROVE  Abstract!Next
<1>1. AbstractStatus' = [AbstractStatus EXCEPT ![r] = "ok"] /\ AbstractStatus[r] = "running"
    BY StatusMoves DEF Places, AbstractStatus
<1>2. state' = Abstract!Marked(state, op[r].context, page[r], n)
    BY SameOperators
<1>3. Abstract!Mark(r)
    BY <1>1, <1>2 DEF Abstract!Mark
<1> QED
    BY <1>3 DEF Abstract!Next

LEMMA RefinesInitialise ==
    ASSUME TypeOK, NEW r \in Requests, pc[r] = "cas", op[r].kind # "mark",
           pc' = [pc EXCEPT ![r] = "ok"],
           state.readAt[op[r].context] = Unset,
           state' = Initialised(state, op[r].context, baseline[r]),
           UNCHANGED <<op, page, baseline, unread>>
    PROVE  Abstract!Next
<1>1. AbstractStatus' = [AbstractStatus EXCEPT ![r] = "ok"] /\ AbstractStatus[r] = "running"
    BY StatusMoves DEF Places, AbstractStatus
<1>2. state' = Abstract!Initialised(state, op[r].context, baseline[r])
    BY SameOperators
<1>3. Abstract!Initialise(r)
    BY <1>1, <1>2 DEF Abstract!Initialise
<1> QED
    BY <1>3 DEF Abstract!Next

LEMMA RefinesLoad ==
    ASSUME IInv, NEW r \in Requests, Load(r), IInv'
    PROVE  Abstract!Next
<1>1. PICK place \in {"read", "look"} : pc' = [pc EXCEPT ![r] = place]
    BY DEF Load, Goto
<1>2. AbstractStatus' = [AbstractStatus EXCEPT ![r] = "running"] /\ AbstractStatus[r] = "loading"
    BY <1>1, StatusMoves DEF Load, IInv, Places, AbstractStatus
<1>3. /\ page' \in [Requests -> [Events -> Nat]]
      /\ baseline' \in [Requests -> Nat]
    <2>1. page' \in [Requests -> [Events -> 0 .. MaxClock]] /\ baseline' \in [Requests -> 0 .. MaxClock]
        BY DEF IInv, TypeOK
    <2>2. 0 .. MaxClock \subseteq Nat
        BY MaxClockAssumption
    <2>3. \A q \in Requests : page'[q] \in [Events -> Nat]
        BY <2>1, <2>2
    <2> QED
        BY <2>1, <2>2, <2>3
<1>4. \A q \in Requests \ {r} : page'[q] = page[q] /\ baseline'[q] = baseline[q]
    BY DEF Load, IInv, TypeOK
<1>5. Abstract!Load(r)
    BY <1>2, <1>3, <1>4 DEF Load, Abstract!Load
<1> QED
    BY <1>5 DEF Abstract!Next

LEMMA RefinesRead ==
    ASSUME IInv, NEW r \in Requests, Read(r)
    PROVE  Abstract!Next \/ UNCHANGED Abstract!vars
<1>1. CASE Changed(r)
    BY <1>1, StutterInside DEF Read, Goto, IInv
<1>2. CASE ~Changed(r) /\ op[r].kind = "mark"
    <2>1. /\ pc[r] = "read" /\ pc' = [pc EXCEPT ![r] = "ok"]
          /\ UNCHANGED <<state, op, page, baseline, unread>>
        BY <1>2 DEF Read, Goto
    <2>2. state' = Marked(state, op[r].context, page[r], limit)
        BY <1>2, <2>1, UnchangedMark DEF IInv
    <2> QED
        BY <1>2, <2>1, <2>2, RefinesMark, Typed DEF IInv
<1>3. CASE ~Changed(r) /\ op[r].kind # "mark"
    <2>1. /\ pc[r] = "read" /\ pc' = [pc EXCEPT ![r] = "ok"]
          /\ state.readAt[op[r].context] # Unset
          /\ unread' = [unread EXCEPT ![r] = Unread(state, op[r].context, page[r])]
          /\ UNCHANGED <<state, op, page, baseline>>
        BY <1>3 DEF Read, Goto, Changed
    <2> QED
        BY <1>3, <2>1, RefinesReport DEF IInv
<1> QED
    BY <1>1, <1>2, <1>3

LEMMA RefinesCompareAndSet ==
    ASSUME IInv, NEW r \in Requests, CompareAndSet(r)
    PROVE  Abstract!Next
<1>1. /\ pc[r] = "cas" /\ state = snapshot[r] /\ state' = next[r]
      /\ pc' = [pc EXCEPT ![r] = "ok"]
      /\ UNCHANGED <<op, page, baseline, unread>>
    BY DEF CompareAndSet, Goto
<1>2. CASE op[r].kind = "mark"
    <2>1. PICK n \in Limits : state' = Marked(state, op[r].context, page[r], n)
        BY <1>1, <1>2 DEF IInv, Pending, AboutToMark
    <2> QED
        BY <1>1, <1>2, <2>1, RefinesMark DEF IInv
<1>3. CASE op[r].kind # "mark"
    <2>1. /\ state.readAt[op[r].context] = Unset
          /\ state' = Initialised(state, op[r].context, baseline[r])
        BY <1>1, <1>3 DEF IInv, Pending, AboutToInitialise
    <2> QED
        BY <1>1, <1>3, <2>1, RefinesInitialise DEF IInv
<1> QED
    BY <1>2, <1>3

LEMMA RefinesNext == IInv /\ IInv' /\ [Next]_vars => [Abstract!Next]_(Abstract!vars)
<1> SUFFICES ASSUME IInv, IInv', [Next]_vars PROVE Abstract!Next \/ UNCHANGED Abstract!vars
    OBVIOUS
<1>1. ASSUME NEW r \in Requests, Load(r) PROVE Abstract!Next
    BY <1>1, RefinesLoad
<1>2. ASSUME NEW r \in Requests, Look(r) PROVE Abstract!Next \/ UNCHANGED Abstract!vars
    <2>1. CASE state.readAt[op[r].context] = Unset
        BY <1>2, <2>1, StutterInside DEF Look, Goto, IInv
    <2>2. CASE state.readAt[op[r].context] # Unset /\ op[r].kind # "mark"
        BY <1>2, <2>2, RefinesReport DEF Look, Goto, IInv
    <2>3. op[r].kind # "mark"
        BY <1>2 DEF Look, IInv, Pending
    <2> QED
        BY <2>1, <2>2, <2>3
<1>3. ASSUME NEW r \in Requests, Read(r) PROVE Abstract!Next \/ UNCHANGED Abstract!vars
    BY <1>3, RefinesRead
<1>4. ASSUME NEW r \in Requests, CompareAndSet(r) PROVE Abstract!Next
    BY <1>4, RefinesCompareAndSet
<1>5. ASSUME NEW r \in Requests, Conflict(r) PROVE Abstract!Next \/ UNCHANGED Abstract!vars
    <2>1. CASE attempt[r] + 1 < MaxRetries
        BY <1>5, <2>1, StutterInside DEF Conflict, Goto, IInv
    <2>2. CASE ~(attempt[r] + 1 < MaxRetries)
        BY <1>5, <2>2, RefinesFail DEF Conflict, Goto, IInv
    <2> QED
        BY <2>1, <2>2
<1>6. ASSUME NEW r \in Requests, RequestFails(r) PROVE Abstract!Next
    BY <1>6, RefinesFail DEF RequestFails, Goto, IInv
<1>7. CASE Environment \/ UNCHANGED vars
    <2>1. UNCHANGED <<state, op, page, baseline, pc, unread>>
        BY <1>7 DEF Environment, vars, Stamp, Store, SetMaxEvents
    <2> QED
        BY <2>1 DEF Abstract!vars, AbstractStatus
<1> QED
    BY <1>1, <1>2, <1>3, <1>4, <1>5, <1>6, <1>7 DEF Next, Step

(* Handlers that load a page, look at the read state, and change it by     *)
(* attempts, cannot be told from requests that take effect one after the   *)
(* other (store.go:186-242, 286-314).                                      *)
THEOREM Refinement == Spec => ImplementsAtomicReadState
<1> QED
    BY Invariance, RefinesInit, RefinesNext, PTL
       DEF Spec, Abstract!Spec, ImplementsAtomicReadState

-----------------------------------------------------------------------------
(* What was marked stays seen, unless pushed out by newer entries.         *)
AtLeast(seen, e, t) == {f \in Events \ {e} : seen[f] >= t}

SeenOrPushedOut(seen, e, t) ==
    seen[e] >= t \/ Cardinality(AtLeast(seen, e, t)) >= 2 * SmallestLimit

LEMMA SmallestIsALimit ==
    ASSUME Limits # {}
    PROVE  /\ SmallestLimit \in Limits /\ SmallestLimit \in Nat
           /\ \A m \in Limits : SmallestLimit <= m
BY LimitsAssumption, LeastNumber DEF SmallestLimit

LEMMA AtLeastFinite ==
    ASSUME NEW seen, NEW e, NEW t
    PROVE  IsFiniteSet(AtLeast(seen, e, t)) /\ Cardinality(AtLeast(seen, e, t)) \in Nat
BY EventsAssumption, FS_Subset, FS_CardinalityType DEF AtLeast

(* Entries that grow leave nobody behind.                                  *)
LEMMA GrownStaysSeen ==
    ASSUME NEW seen \in [Events -> Nat], NEW new \in [Events -> Nat],
           \A f \in Events : seen[f] <= new[f],
           NEW e \in Events, NEW t \in Nat, Limits # {}, SeenOrPushedOut(seen, e, t)
    PROVE  SeenOrPushedOut(new, e, t)
<1>1. AtLeast(seen, e, t) \subseteq AtLeast(new, e, t)
    BY DEF AtLeast
<1>2. Cardinality(AtLeast(seen, e, t)) <= Cardinality(AtLeast(new, e, t))
    BY <1>1, AtLeastFinite, FS_Subset
<1>3. seen[e] >= t => new[e] >= t
    OBVIOUS
<1> QED
    BY <1>2, <1>3, AtLeastFinite, SmallestIsALimit DEF SeenOrPushedOut

(* Pruning keeps the first entries of the order by time, so that whatever  *)
(* it drops at a time t, it keeps its number of entries from t on.         *)
LEMMA PrunedKeeps ==
    ASSUME NEW seen \in [Events -> Nat], NEW n \in Limits,
           NEW e \in Events, NEW t \in Nat \ {0}, SeenOrPushedOut(seen, e, t)
    PROVE  SeenOrPushedOut(Pruned(seen, n), e, t)
<1> DEFINE H == {f \in Events : seen[f] >= t}
           ahead == [f \in H |-> Ahead(seen, f)]
           new == Pruned(seen, n)
           kept == {f \in H : Cardinality(ahead[f]) < 2 * n}
           M == 2 * SmallestLimit
<1>1. n \in Nat /\ n > 0 /\ 2 * n \in Nat /\ M \in Nat /\ M <= 2 * n
    BY SmallestIsALimit, LimitsAssumption
<1>2. IsFiniteSet(H) /\ Cardinality(H) \in Nat
    BY EventsAssumption, FS_Subset, FS_CardinalityType
<1>3. ahead \in [H -> SUBSET H]
    <2> SUFFICES ASSUME NEW f \in H, NEW g \in Ahead(seen, f) PROVE g \in H
        OBVIOUS
    <2>1. g \in Events /\ seen[g] \in Nat /\ seen[f] \in Nat /\ seen[f] >= t /\ seen[g] >= seen[f]
        BY DEF Ahead
    <2> QED
        BY <2>1
<1>4. \A x \in H : x \notin ahead[x]
    BY EventsAssumption DEF Ahead
<1>5. \A x \in H : \A y \in ahead[x] : ahead[y] \subseteq ahead[x]
    <2> SUFFICES ASSUME NEW x \in H, NEW y \in Ahead(seen, x), NEW z \in Ahead(seen, y)
                 PROVE  z \in Ahead(seen, x)
        BY <1>3
    <2> QED
        BY EventsAssumption DEF Ahead
<1>6. \A f \in kept : new[f] = seen[f] /\ seen[f] >= t
    BY DEF Pruned
<1>7. kept \subseteq AtLeast(new, e, t) \union {e}
    BY <1>6 DEF AtLeast
<1>8. e \in kept => new[e] >= t
    BY <1>6
<1>9. e \notin kept => kept \subseteq AtLeast(new, e, t)
    BY <1>7
<1>10. IsFiniteSet(kept) /\ Cardinality(kept) \in Nat
    <2>1. kept \in SUBSET H
        OBVIOUS
    <2> HIDE DEF kept, H
    <2> QED
        BY <1>2, <2>1, FS_Subset, FS_CardinalityType
<1>11. CASE 2 * n <= Cardinality(H)
    <2>1. Cardinality(kept) >= 2 * n
        <3> HIDE DEF H, ahead
        <3> QED
            BY <1>1, <1>2, <1>3, <1>4, <1>5, <1>11, FirstInOrder
    <2>2. CASE e \in kept
        BY <1>8, <2>2 DEF SeenOrPushedOut
    <2>3. CASE e \notin kept
        <3> HIDE DEF kept, new
        <3>1. Cardinality(kept) <= Cardinality(AtLeast(new, e, t))
            BY <1>9, <2>3, AtLeastFinite, FS_Subset
        <3>2. Cardinality(AtLeast(new, e, t)) >= M
            BY <1>1, <1>10, <2>1, <3>1, AtLeastFinite
        <3> QED
            BY <3>2 DEF SeenOrPushedOut, new
    <2> QED
        BY <2>2, <2>3
<1>12. CASE ~(2 * n <= Cardinality(H))
    <2>1. \A f \in H : Cardinality(ahead[f]) < 2 * n
        <3> SUFFICES ASSUME NEW f \in H PROVE Cardinality(ahead[f]) < 2 * n
            OBVIOUS
        <3> HIDE DEF H, ahead
        <3>1. ahead[f] \in SUBSET H
            BY <1>3
        <3>2. IsFiniteSet(ahead[f]) /\ Cardinality(ahead[f]) \in Nat /\ Cardinality(ahead[f]) <= Cardinality(H)
            BY <1>2, <3>1, FS_Subset, FS_CardinalityType
        <3> QED
            BY <1>1, <1>2, <1>12, <3>2
    <2>2. kept = H
        BY <2>1
    <2>3. CASE e \in kept
        BY <1>8, <2>3 DEF SeenOrPushedOut
    <2>4. CASE e \notin kept
        <3>1. Cardinality(AtLeast(seen, e, t)) >= M
            BY <2>2, <2>4 DEF SeenOrPushedOut
        <3>2. AtLeast(seen, e, t) \subseteq kept
            BY <2>2 DEF AtLeast
        <3>3. AtLeast(seen, e, t) \subseteq AtLeast(new, e, t)
            BY <1>9, <2>4, <3>2
        <3> HIDE DEF kept, new
        <3>4. Cardinality(AtLeast(seen, e, t)) <= Cardinality(AtLeast(new, e, t))
            BY <3>3, AtLeastFinite, FS_Subset
        <3>5. Cardinality(AtLeast(new, e, t)) >= M
            BY <1>1, <3>1, <3>4, AtLeastFinite
        <3> QED
            BY <3>5 DEF SeenOrPushedOut, new
    <2> QED
        BY <2>3, <2>4
<1> QED
    BY <1>11, <1>12

LEMMA MarkedKeepsSeen ==
    ASSUME NEW s \in States, NEW c \in Contexts, NEW p \in [Events -> Nat], NEW n \in Limits,
           NEW e \in Events, NEW t \in Nat \ {0},
           SeenOrPushedOut(s.seen, e, t) \/ t = p[e]
    PROVE  SeenOrPushedOut(Marked(s, c, p, n).seen, e, t)
<1> DEFINE grown == SeenWith(s.seen, p)
<1>1. /\ s.seen \in [Events -> Nat] /\ grown \in [Events -> Nat]
      /\ \A f \in Events : s.seen[f] <= grown[f] /\ p[f] <= grown[f]
    BY DEF States, SeenWith
<1>2. CASE OnPage(p) = {}
    <2>1. t # p[e] /\ Marked(s, c, p, n) = s
        BY <1>2 DEF OnPage, Marked
    <2> QED
        BY <2>1
<1>3. CASE OnPage(p) # {}
    <2>1. Marked(s, c, p, n).seen = Pruned(grown, n)
        BY <1>3 DEF Marked
    <2> HIDE DEF grown
    <2>2. SeenOrPushedOut(grown, e, t)
        <3>1. CASE t = p[e]
            BY <1>1, <3>1 DEF SeenOrPushedOut
        <3>2. CASE SeenOrPushedOut(s.seen, e, t)
            BY <1>1, <3>2, GrownStaysSeen
        <3> QED
            BY <3>1, <3>2
    <2> QED
        BY <1>1, <2>1, <2>2, PrunedKeeps
<1> QED
    BY <1>2, <1>3

LEMMA SameMarks ==
    ASSUME IInv, MarkedStaysSeen, UNCHANGED <<state, op>>,
           \A r \in Requests : pc'[r] = "ok" /\ op[r].kind = "mark" =>
               pc[r] = "ok" /\ page'[r] = page[r]
    PROVE  MarkedStaysSeen'
BY DEF MarkedStaysSeen, Marks

LEMMA ReadMarks ==
    ASSUME IInv, MarkedStaysSeen, NEW r \in Requests, Read(r)
    PROVE  MarkedStaysSeen'
<1>1. /\ UNCHANGED <<state, op, page>>
      /\ pc[r] = "read"
      /\ \/ pc' = [pc EXCEPT ![r] = "cas"]
         \/ ~Changed(r) /\ pc' = [pc EXCEPT ![r] = "ok"]
    BY DEF Read, Goto
<1>2. \A q \in Requests \ {r} : pc'[q] = pc[q]
    BY <1>1 DEF IInv, TypeOK
<1>3. CASE r \notin Marks'
    BY <1>1, <1>2, <1>3, SameMarks DEF Marks
<1>4. CASE r \in Marks'
    <2>1. op[r].kind = "mark" /\ ~Changed(r)
        BY <1>1, <1>4 DEF Marks, IInv, TypeOK
    <2>2. OnPage(page[r]) # {} => SeenWith(state.seen, page[r]) = state.seen
        BY <2>1 DEF Changed
    <2>3. \A e \in OnPage(page[r]) : state.seen[e] >= page[r][e]
        <3> SUFFICES ASSUME NEW e \in OnPage(page[r]) PROVE state.seen[e] >= page[r][e]
            OBVIOUS
        <3>1. SeenWith(state.seen, page[r])[e] = state.seen[e] /\ e \in Events
            BY <2>2 DEF OnPage
        <3>2. state.seen[e] \in Nat /\ page[r][e] \in Nat
            BY <3>1, Typed DEF IInv, States
        <3> QED
            BY <3>1, <3>2 DEF SeenWith
    <2> QED
        BY <1>1, <1>2, <2>3 DEF MarkedStaysSeen, Marks
<1> QED
    BY <1>3, <1>4

LEMMA CompareAndSetMarks ==
    ASSUME IInv, MarkedStaysSeen, NEW r \in Requests, CompareAndSet(r)
    PROVE  MarkedStaysSeen'
<1>1. /\ pc[r] = "cas" /\ state = snapshot[r] /\ state' = next[r]
      /\ pc' = [pc EXCEPT ![r] = "ok"] /\ UNCHANGED <<op, page>>
    BY DEF CompareAndSet, Goto
<1>2. \A q \in Requests \ {r} : pc'[q] = pc[q]
    BY <1>1 DEF IInv, TypeOK
<1> SUFFICES ASSUME NEW q \in Marks', NEW e \in OnPage(page[q])
             PROVE  SeenOrPushedOut(state'.seen, e, page[q][e])
    BY <1>1 DEF MarkedStaysSeen, SeenOrPushedOut, AtLeast
<1> DEFINE t == page[q][e]
<1>3. q \in Requests /\ op[q].kind = "mark" /\ e \in Events /\ t \in Nat \ {0}
    <2>1. q \in Requests /\ op[q].kind = "mark" /\ e \in Events /\ t > 0
        BY <1>1 DEF Marks, OnPage
    <2> QED
        BY <2>1, Typed DEF IInv
<1>4. SeenOrPushedOut(state.seen, e, t) \/ q = r
    BY <1>1, <1>2, <1>3 DEF Marks, MarkedStaysSeen, SeenOrPushedOut, AtLeast
<1>5. CASE op[r].kind = "mark"
    <2>1. PICK n \in Limits : next[r] = Marked(state, op[r].context, page[r], n)
        BY <1>1, <1>5 DEF IInv, Pending, AboutToMark
    <2>2. SeenOrPushedOut(state.seen, e, t) \/ t = page[r][e]
        BY <1>4
    <2> HIDE DEF t
    <2>3. SeenOrPushedOut(Marked(state, op[r].context, page[r], n).seen, e, t)
        BY <1>3, <2>2, OpTyped, Typed, MarkedKeepsSeen DEF IInv
    <2> QED
        BY <1>1, <2>1, <2>3 DEF t
<1>6. CASE op[r].kind # "mark"
    <2>1. next[r] = Initialised(state, op[r].context, baseline[r])
        BY <1>1, <1>6 DEF IInv, Pending, AboutToInitialise
    <2>2. state'.seen = state.seen
        BY <1>1, <2>1, OpTyped, Typed, InitialisedTyped DEF IInv
    <2> QED
        BY <1>3, <1>4, <1>6, <2>2
<1> QED
    BY <1>5, <1>6

LEMMA MarksStep == IInv /\ MarkedStaysSeen /\ [Next]_vars => MarkedStaysSeen'
<1> SUFFICES ASSUME IInv, MarkedStaysSeen, [Next]_vars PROVE MarkedStaysSeen'
    OBVIOUS
<1>1. ASSUME NEW r \in Requests, Load(r) PROVE MarkedStaysSeen'
    <2>1. /\ UNCHANGED <<state, op>> /\ pc[r] = "load"
          /\ pc' = [pc EXCEPT ![r] = IF op[r].kind = "mark" THEN "read" ELSE "look"]
          /\ \A q \in Requests \ {r} : page'[q] = page[q]
        BY <1>1 DEF Load, Goto, IInv, TypeOK
    <2> QED
        BY <2>1, SameMarks DEF IInv, TypeOK
<1>2. ASSUME NEW r \in Requests, Look(r) PROVE MarkedStaysSeen'
    <2>1. /\ UNCHANGED <<state, op, page>> /\ op[r].kind # "mark"
          /\ pc' = [pc EXCEPT ![r] = "read"] \/ pc' = [pc EXCEPT ![r] = "ok"]
        BY <1>2 DEF Look, Goto, IInv, Pending
    <2> QED
        BY <2>1, SameMarks DEF IInv, TypeOK
<1>3. ASSUME NEW r \in Requests, Conflict(r) \/ RequestFails(r) PROVE MarkedStaysSeen'
    <2>1. /\ UNCHANGED <<state, op, page>>
          /\ pc' = [pc EXCEPT ![r] = "read"] \/ pc' = [pc EXCEPT ![r] = "failed"]
        BY <1>3 DEF Conflict, RequestFails, Goto
    <2> QED
        BY <2>1, SameMarks DEF IInv, TypeOK
<1>4. CASE Environment \/ UNCHANGED vars
    BY <1>4, SameMarks DEF Environment, Stamp, Store, SetMaxEvents, vars
<1> QED
    BY <1>1, <1>2, <1>3, <1>4, ReadMarks, CompareAndSetMarks DEF Next, Step

(* What was marked read is unread again only when pruning kept as many     *)
(* newer entries instead (store.go:220-276).                               *)
THEOREM MarkedIsKept == Spec => []MarkedStaysSeen
<1>1. Init => MarkedStaysSeen
    BY DEF Init, MarkedStaysSeen, Marks
<1> QED
    BY <1>1, MarksStep, Invariance, PTL DEF Spec
=============================================================================
