------------------------ MODULE TimelineClientProofs ------------------------
(***************************************************************************)
(* What holds of the client feed (TimelineClient) for any contexts,        *)
(* events, pages and number of operations.                                 *)
(***************************************************************************)
EXTENDS TimelineClient, DataLemmas

-----------------------------------------------------------------------------
(* Types                                                                   *)

Sources == Publications \union InitialEvents

Event ==
    [id : Nat, version : Nat, team : {p.team : p \in Sources} \ {NoTeam},
     channels : {p.channels : p \in Sources},
     look : Looks \union {p.look : p \in Sources},
     reactions : {NoReactions} \union {e.reactions : e \in InitialEvents}]

Known(ids) == {e \in Event : e.id \in ids}

Views == Contexts \union {NoView}

Sidebars ==
    [mounted : BOOLEAN, filter : Filters, loaded : Views,
     deps : {<< >>} \union [context : Views, filter : Filters, revision : Nat],
     lastFilter : Filters \union {<< >>}, lastRevision : Nat,
     marked : {<< >>} \union [view : Views, shown : Seq(Nat \X Nat), ids : SUBSET Nat]]

Answers(ids) == [events : Seq(Known(ids)), total : Nat, unread : SUBSET ids, at : Nat]

Requests(ids) ==
    [kind : {"page", "more", "refresh", "mark"}, context : Contexts, filter : Filters,
     offset : Nat, ids : SUBSET ids, answer : {Pending, Failed} \union Answers(ids),
     overtaken : BOOLEAN, unmarked : BOOLEAN]

Calls(ids) == {c \in Requests(ids) : c.kind = "mark" => c.ids # {}}

Ghosts ==
    [context : Views, filter : Filters, at : Nat, behind : BOOLEAN, shifted : BOOLEAN,
     pushed : SUBSET Nat, miscounted : BOOLEAN]

IsFeed(events) ==
    events \in Seq(Event) /\ ListsOnce(events) /\ IdsOf(events) = 1 .. Len(events)

ServerTypes == IsFeed(feed) /\ clock \in Nat /\ unread \subseteq Published

(* The list holds events that were published, and a parent window has no   *)
(* others.                                                                 *)
StoreTypes ==
    /\ store \in Stores(Known(Published), Published)
    /\ \A p \in Parents : p.known => p.state \in Stores(Known(Published), Published)

WireTypes ==
    \A m \in wire : /\ m.kind \in {"new", "updated"} /\ m.event \in Known(Published)
                    /\ m.seq \in 1 .. clock
                    /\ m.kind = "new" => m.event.version = 0

TypeInv ==
    /\ ServerTypes /\ StoreTypes /\ WireTypes
    /\ host \in Views /\ icon \in Views /\ rhs \in Sidebars
    /\ calls \in Seq(Calls(Published))
    /\ ghost \in Ghosts

-----------------------------------------------------------------------------
(* Where the list comes from                                               *)

InFlight == Elements(calls)
Answered == {c \in InFlight : c.answer \notin {Pending, Failed}}

(* What a closed sidebar remembers.                                        *)
SidebarStarts == ~rhs.mounted => rhs = Unmounted

(* The fetch effect has asked for a page by its dependencies.              *)
Fetched == rhs.deps # << >> /\ rhs.deps.context.team # NoTeam

(* A page on its way is the one the effect asked for last.                 *)
PagesAreAsked ==
    \A c \in InFlight : c.kind = "page" =>
        /\ c.offset = 0 /\ c.filter = rhs.lastFilter
        /\ rhs.deps # << >> => Fetched /\ c.context = rhs.deps.context

AnswersFit ==
    \A c \in Answered : \A k \in DOMAIN c.answer.events : Fits(c.answer.events[k], c.context)

ListFits ==
    /\ ghost.context = store.view
    /\ Fetched => ghost.context \in {NoView, rhs.deps.context}
    /\ \A k \in DOMAIN store.events :
         Fits(store.events[k], ghost.context) \/ store.events[k].id \in ghost.pushed

ContextInv == SidebarStarts /\ PagesAreAsked /\ AnswersFit /\ (~ghost.shifted => ListFits)

PageAsked == \E c \in InFlight : c.kind = "page"

(* The last page asked for was answered, if none is on its way and no      *)
(* error is shown.                                                         *)
FetchInv ==
    /\ rhs.lastRevision <= store.websocketRevision
    /\ Fetched => rhs.lastFilter = rhs.deps.filter /\ rhs.lastRevision = rhs.deps.revision
    /\ ghost.context = NoView => ghost.filter = NoFilter
    /\ ~ghost.shifted =>
         /\ ghost.context # NoView /\ rhs.lastFilter # << >> => ghost.filter = rhs.lastFilter
         /\ Fetched /\ store.error = NoError /\ ~PageAsked => ghost.context = rhs.deps.context

-----------------------------------------------------------------------------
(* What the list holds.  F[n] is the feed after n changes.                 *)

(* No message changed what a filtered view asks for, since it asked.       *)
Unrevised == rhs.lastFilter = PinnedOnly /\ rhs.lastRevision = store.websocketRevision

ListedAt(F) ==
    store.events = Page(FeedFor(F[ghost.at], {}, ghost.context, ghost.filter), 0, Len(store.events))

(* Every change after n is about to be told.                               *)
OnWire(n) == \A s \in n + 1 .. clock : \E m \in wire : m.seq = s

AnswerInv(F) ==
    \A c \in Answered :
        /\ c.answer.at \in 0 .. clock
        /\ ListsOnce(c.answer.events)
        /\ c.filter # UnreadOnly =>
             c.answer.events = Page(FeedFor(F[c.answer.at], {}, c.context, c.filter), c.offset, PageSize)
        /\ ~c.overtaken => OnWire(c.answer.at)

(* A new event was in no earlier feed.                                     *)
HistoryInv(F) ==
    /\ F \in [Nat -> Seq(Event)] /\ F[clock] = feed
    /\ \A n \in 0 .. clock : IsFeed(F[n]) /\ Len(F[n]) <= Len(feed)
    /\ \A m \in wire : m.kind = "new" => \A n \in 0 .. m.seq - 1 : m.event.id \notin IdsOf(F[n])

HeldInv(F) ==
    /\ ListsOnce(store.events)
    /\ ghost.filter # UnreadOnly /\ (ghost.pushed = {} \/ Unrevised) => ListedAt(F)
    /\ Unrevised /\ ~ghost.behind /\ ghost.context # NoView => OnWire(ghost.at)

ListInv(F) ==
    /\ HistoryInv(F) /\ AnswerInv(F)
    /\ ghost.at \in 0 .. clock
    /\ ~ghost.shifted => HeldInv(F)
-----------------------------------------------------------------------------
(* Sequences                                                               *)

LEMMA InLargerSeq ==
    ASSUME NEW S, NEW T, S \subseteq T, NEW s \in Seq(S)
    PROVE  s \in Seq(T)
BY LenProperties

LEMMA PageProperties ==
    ASSUME NEW S, NEW s \in Seq(S), NEW o \in Nat, NEW l \in Nat
    PROVE  LET p == Page(s, o, l) IN
           /\ p \in Seq(S) /\ Len(p) \in Nat /\ DOMAIN p = 1 .. Len(p) /\ Len(p) <= l
           /\ \A i \in DOMAIN p : o + i \in DOMAIN s /\ p[i] = s[o + i]
           /\ \A i \in 1 .. l : o + i \in DOMAIN s => i \in DOMAIN p
<1> DEFINE last == IF Len(s) < o + l THEN Len(s) ELSE o + l
           p == Page(s, o, l)
<1>1. Len(s) \in Nat /\ DOMAIN s = 1 .. Len(s) /\ \A i \in 1 .. Len(s) : s[i] \in S
    BY LenProperties, ElementOfSeq
<1>2. last \in Int /\ o + 1 \in Int /\ \A i \in o + 1 .. last : s[i] \in S
    BY <1>1
<1>3. p = SubSeq(s, o + 1, last)
    BY DEF Page
<1>4. last \in Int /\ last <= o + l /\ last <= Len(s) /\ (last = Len(s) \/ last = o + l)
    <2>1. Len(s) \in Int /\ o + l \in Int
        BY <1>1
    <2>2. CASE Len(s) < o + l
        BY <2>1, <2>2
    <2>3. CASE ~(Len(s) < o + l)
        BY <2>1, <2>3
    <2> QED
        BY <2>2, <2>3
<1> HIDE DEF last, p
<1>5. /\ p \in Seq(S)
      /\ Len(p) = IF o + 1 <= last THEN last - (o + 1) + 1 ELSE 0
      /\ \A i \in 1 .. last - (o + 1) + 1 : p[i] = s[o + 1 + i - 1]
    BY <1>2, <1>3, SubSeqProperties
<1>6. DOMAIN p = 1 .. Len(p) /\ Len(p) \in Nat
    BY <1>5, LenProperties
<1>7. ASSUME NEW i \in DOMAIN p
      PROVE  /\ o + i \in DOMAIN s /\ i \in 1 .. last - (o + 1) + 1
             /\ o + 1 + i - 1 = o + i
    <2>1. i \in Nat /\ 1 <= i /\ i <= Len(p)
        BY <1>6
    <2>2. o + 1 <= last /\ Len(p) = last - o
        BY <1>4, <1>5, <2>1
    <2>0. last \in Int /\ last <= Len(s) /\ Len(s) \in Nat
        BY <1>1, <1>4
    <2>3. 1 <= o + i /\ o + i <= last
        BY <2>0, <2>1, <2>2
    <2>4. o + i \in 1 .. Len(s)
        BY <2>0, <2>1, <2>3
    <2>5. i \in 1 .. last - (o + 1) + 1 /\ o + 1 + i - 1 = o + i
        BY <2>0, <2>1, <2>3
    <2> QED
        BY <1>1, <2>4, <2>5
<1>8. \A i \in DOMAIN p : p[i] = s[o + i]
    BY <1>5, <1>7
<1>9. Len(p) <= l
    BY <1>4, <1>5
<1>10. ASSUME NEW i \in 1 .. l, o + i \in DOMAIN s PROVE i \in DOMAIN p
    <2>1. i \in Nat /\ 1 <= i /\ i <= l /\ o + i <= Len(s)
        BY <1>1, <1>10
    <2>0. last = Len(s) \/ last = o + l
        BY <1>4
    <2>2. o + i <= last
        <3>1. CASE last = Len(s)
            BY <2>1, <3>1
        <3>2. CASE last = o + l
            BY <2>0, <2>1, <3>2
        <3> QED
            BY <2>0, <3>1, <3>2
    <2>3. o + 1 <= last /\ Len(p) = last - o
        BY <1>4, <1>5, <2>1, <2>2
    <2> QED
        BY <1>4, <1>6, <2>1, <2>2, <2>3
<1> QED
    BY <1>5, <1>6, <1>7, <1>8, <1>9, <1>10 DEF p

(* What is left of the requests when one is taken.                         *)
LEMMA TakenProperties ==
    ASSUME NEW S, NEW s \in Seq(S), NEW i \in DOMAIN s
    PROVE  /\ Taken(s, i) \in Seq(S)
           /\ Elements(Taken(s, i)) \subseteq Elements(s)
           /\ \A j \in DOMAIN s : j # i => s[j] \in Elements(Taken(s, i))
<1>1. Len(s) \in Nat /\ DOMAIN s = 1 .. Len(s) /\ \A j \in 1 .. Len(s) : s[j] \in S
    BY LenProperties, ElementOfSeq
<1>2. \A j \in 1 .. Len(s) - 1 : j \in DOMAIN s /\ j + 1 \in DOMAIN s
    BY <1>1
<1>3. DOMAIN Taken(s, i) = 1 .. Len(s) - 1
    BY DEF Taken
<1>4. \A j \in 1 .. Len(s) - 1 : Taken(s, i)[j] = IF j < i THEN s[j] ELSE s[j + 1]
    BY DEF Taken
<1>5. Taken(s, i) \in Seq(S)
    <2>1. \A j \in 1 .. Len(s) - 1 : (IF j < i THEN s[j] ELSE s[j + 1]) \in S
        BY <1>1, <1>2
    <2>2. Len(s) - 1 \in Nat
        BY <1>1
    <2> QED
        BY <2>1, <2>2 DEF Taken
<1>6. Elements(Taken(s, i)) \subseteq Elements(s)
    BY <1>2, <1>3, <1>4 DEF Elements
<1>7. ASSUME NEW j \in DOMAIN s, j # i PROVE s[j] \in Elements(Taken(s, i))
    <2>1. CASE j < i
        <3>1. j \in 1 .. Len(s) - 1
            BY <1>1, <2>1
        <3> QED
            BY <1>3, <1>4, <2>1, <3>1 DEF Elements
    <2>2. CASE j > i
        <3>1. j - 1 \in 1 .. Len(s) - 1 /\ ~(j - 1 < i) /\ (j - 1) + 1 = j
            BY <1>1, <2>2
        <3>2. Taken(s, i)[j - 1] = s[j]
            BY <1>4, <3>1
        <3> QED
            BY <1>3, <3>1, <3>2 DEF Elements
    <2> QED
        BY <1>1, <1>7, <2>1, <2>2
<1> QED
    BY <1>5, <1>6, <1>7

LEMMA AbortProperties ==
    ASSUME NEW S, NEW s \in Seq(S)
    PROVE  /\ Abort(s) \in Seq(S)
           /\ \A c \in Elements(Abort(s)) : c \in Elements(s) /\ c.kind # "page"
<1> DEFINE P == {i \in DOMAIN s : s[i].kind # "page"}
<1>1. P \subseteq DOMAIN s
    OBVIOUS
<1>2. Abort(s) = Sublist(s, P)
    BY DEF Abort
<1>3. Abort(s) \in Seq(S) /\ \A i \in DOMAIN Abort(s) : \E p \in P : Abort(s)[i] = s[p]
    <2> HIDE DEF P
    <2> QED
        BY <1>1, <1>2, SublistProperties
<1> QED
    BY <1>3 DEF Elements

LEMMA AppendElements ==
    ASSUME NEW S, NEW s \in Seq(S), NEW x \in S
    PROVE  Append(s, x) \in Seq(S) /\ Elements(Append(s, x)) = Elements(s) \union {x}
<1>1. /\ Append(s, x) \in Seq(S) /\ Len(Append(s, x)) = Len(s) + 1
      /\ \A i \in 1 .. Len(s) : Append(s, x)[i] = s[i]
      /\ Append(s, x)[Len(s) + 1] = x
    BY AppendProperties
<1>2. /\ Len(s) \in Nat /\ DOMAIN s = 1 .. Len(s)
      /\ DOMAIN Append(s, x) = 1 .. Len(s) + 1
    BY <1>1, LenProperties
<1>3. \A i \in DOMAIN Append(s, x) : i \in DOMAIN s \/ i = Len(s) + 1
    BY <1>2
<1>4. Len(s) + 1 \in DOMAIN Append(s, x) /\ DOMAIN s \subseteq DOMAIN Append(s, x)
    BY <1>2
<1>5. Elements(Append(s, x)) \subseteq Elements(s) \union {x}
    BY <1>1, <1>2, <1>3 DEF Elements
<1>6. Elements(s) \union {x} \subseteq Elements(Append(s, x))
    BY <1>1, <1>2, <1>4 DEF Elements
<1> QED
    BY <1>1, <1>5, <1>6

LEMMA ConcatElements ==
    ASSUME NEW S, NEW s \in Seq(S), NEW t \in Seq(S)
    PROVE  s \o t \in Seq(S) /\ Elements(s \o t) = Elements(s) \union Elements(t)
<1> DEFINE c == s \o t
<1>1. /\ c \in Seq(S) /\ Len(c) = Len(s) + Len(t)
      /\ \A i \in 1 .. Len(s) + Len(t) : c[i] = IF i <= Len(s) THEN s[i] ELSE t[i - Len(s)]
    BY ConcatProperties
<1>2. /\ Len(s) \in Nat /\ DOMAIN s = 1 .. Len(s) /\ Len(t) \in Nat /\ DOMAIN t = 1 .. Len(t)
      /\ DOMAIN c = 1 .. Len(s) + Len(t)
    BY <1>1, LenProperties
<1> HIDE DEF c
<1>3. ASSUME NEW i \in DOMAIN c PROVE c[i] \in Elements(s) \union Elements(t)
    <2>1. CASE i <= Len(s)
        BY <1>1, <1>2, <2>1 DEF Elements
    <2>2. CASE ~(i <= Len(s))
        <3>1. i - Len(s) \in DOMAIN t /\ c[i] = t[i - Len(s)]
            BY <1>1, <1>2, <2>2
        <3> QED
            BY <3>1 DEF Elements
    <2> QED
        BY <2>1, <2>2
<1>4. ASSUME NEW i \in DOMAIN s PROVE s[i] \in Elements(c)
    <2>1. i \in DOMAIN c /\ c[i] = s[i]
        BY <1>1, <1>2
    <2> QED
        BY <2>1 DEF Elements
<1>5. ASSUME NEW i \in DOMAIN t PROVE t[i] \in Elements(c)
    <2>1. Len(s) + i \in DOMAIN c /\ ~(Len(s) + i <= Len(s)) /\ (Len(s) + i) - Len(s) = i
        BY <1>2
    <2>2. c[Len(s) + i] = t[i]
        BY <1>1, <1>2, <2>1
    <2> QED
        BY <2>1, <2>2 DEF Elements
<1>6. Elements(c) \subseteq Elements(s) \union Elements(t)
    BY <1>3 DEF Elements
<1>7. Elements(s) \union Elements(t) \subseteq Elements(c)
    BY <1>4, <1>5 DEF Elements
<1> QED
    BY <1>1, <1>6, <1>7 DEF c


-----------------------------------------------------------------------------
(* Views and states                                                        *)

LEMMA ContextTeams ==
    \A c \in Contexts : c.team # NoTeam
<1> SUFFICES ASSUME NEW c \in Contexts, c.team = NoTeam PROVE FALSE
    OBVIOUS
<1>1. c = [team |-> c.team, channel |-> c.channel]
    BY ContextsAssumption
<1>2. [c EXCEPT !.channel = NoChannel] = NoView
    BY <1>1 DEF NoView
<1> QED
    BY <1>2, ContextsAssumption

LEMMA CurrentView ==
    ASSUME host \in Views, store.view \in Views
    PROVE  /\ Current \in Views
           /\ Current.team # NoTeam => Current \in Contexts
           /\ Current = [team |-> Current.team, channel |-> Current.channel]
           /\ Current.team = NoTeam => store.view = NoView
<1>1. \A c \in Contexts : c = [team |-> c.team, channel |-> c.channel] /\ c.team # NoTeam
    BY ContextTeams, ContextsAssumption
<1>2. \A c, d \in Contexts : [team |-> c.team, channel |-> d.channel] \in Contexts
    <2> SUFFICES ASSUME NEW c \in Contexts, NEW d \in Contexts
                 PROVE  [team |-> c.team, channel |-> d.channel] \in Contexts
        OBVIOUS
    <2>1. [c EXCEPT !.channel = d.channel] = [team |-> c.team, channel |-> d.channel]
        BY <1>1
    <2>2. [c EXCEPT !.channel = d.channel] \in Contexts
        BY ContextsAssumption
    <2> QED
        BY <2>1, <2>2
<1>3. NoView.team = NoTeam /\ NoView.channel = NoChannel /\ NoView = [team |-> NoTeam, channel |-> NoChannel]
    BY DEF NoView
<1>4. CASE host = NoView
    <2>1. Current = [team |-> store.view.team, channel |-> store.view.channel]
        BY <1>3, <1>4 DEF Current
    <2>2. Current = store.view
        BY <1>1, <1>3, <2>1 DEF Views
    <2> QED
        BY <1>1, <1>3, <2>2 DEF Views
<1>5. CASE host \in Contexts
    <2>1. Current = [team |-> host.team, channel |-> IF host.channel # NoChannel THEN host.channel ELSE store.view.channel]
        BY <1>1, <1>5 DEF Current
    <2>2. Current \in {[team |-> host.team, channel |-> host.channel],
                       [team |-> host.team, channel |-> store.view.channel]}
        BY <2>1
    <2>3. [team |-> host.team, channel |-> host.channel] \in Contexts
        BY <1>2, <1>5
    <2>4. CASE store.view \in Contexts
        BY <1>1, <1>2, <1>5, <2>2, <2>3, <2>4 DEF Views
    <2>5. CASE store.view = NoView
        <3>1. Current = [team |-> host.team, channel |-> host.channel]
            BY <1>3, <2>1, <2>5
        <3> QED
            BY <1>1, <1>5, <2>3, <3>1 DEF Views
    <2> QED
        BY <2>4, <2>5 DEF Views
<1> QED
    BY <1>4, <1>5 DEF Views

LEMMA StoreFields ==
    ASSUME NEW E, NEW P, NEW s \in Stores(E, P)
    PROVE  /\ s.events \in Seq(E) /\ s.total \in Nat /\ s.isLoading \in BOOLEAN
           /\ s.error \in {NoError, LoadError} /\ s.newEventIds \subseteq P
           /\ s.updatedEventIds \subseteq P /\ s.websocketRevision \in Nat
           /\ s.unread \in [Contexts -> SUBSET P] /\ s.view \in Views
BY DEF Stores, Views

LEMMA KnownGrows ==
    ASSUME NEW P, NEW Q, P \subseteq Q
    PROVE  /\ Known(P) \subseteq Known(Q) /\ Seq(Known(P)) \subseteq Seq(Known(Q))
           /\ Stores(Known(P), P) \subseteq Stores(Known(Q), Q)
           /\ Calls(P) \subseteq Calls(Q) /\ Seq(Calls(P)) \subseteq Seq(Calls(Q))
<1>1. Known(P) \subseteq Known(Q)
    BY DEF Known
<1>2. Seq(Known(P)) \subseteq Seq(Known(Q))
    BY <1>1, InLargerSeq
<1>3. Stores(Known(P), P) \subseteq Stores(Known(Q), Q)
    BY <1>2 DEF Stores
<1>4. Answers(P) \subseteq Answers(Q)
    BY <1>2 DEF Answers
<1>5. Calls(P) \subseteq Calls(Q)
    BY <1>4 DEF Calls, Requests
<1>6. Seq(Calls(P)) \subseteq Seq(Calls(Q))
    BY <1>5, InLargerSeq
<1> QED
    BY <1>1, <1>2, <1>3, <1>5, <1>6

LEMMA KnownFields ==
    ASSUME NEW P, NEW e \in Known(P)
    PROVE  /\ e \in Event /\ e.id \in P /\ e.id \in Nat /\ e.version \in Nat /\ e.team # NoTeam
           /\ e = [id |-> e.id, version |-> e.version, team |-> e.team,
                   channels |-> e.channels, look |-> e.look, reactions |-> e.reactions]
BY DEF Known, Event

LEMMA IdsAreKnown ==
    ASSUME NEW P, NEW s \in Seq(Known(P))
    PROVE  IdsOf(s) \subseteq P
<1>1. \A i \in DOMAIN s : s[i] \in Known(P)
    BY ElementOfSeq, LenProperties
<1> QED
    BY <1>1, KnownFields DEF IdsOf

LEMMA UnreadTypes ==
    ASSUME NEW P, NEW u \in [Contexts -> SUBSET P], NEW c \in Contexts, NEW ids, ids \subseteq P,
           NEW team, NEW visible
    PROVE  /\ RemoveIdsForTeam(u, team, visible) \in [Contexts -> SUBSET P]
           /\ ReconcileUnreadContext(u, c, visible, ids) \in [Contexts -> SUBSET P]
<1>1. \A t : RemoveIdsForTeam(u, t, visible) \in [Contexts -> SUBSET P]
    <2> SUFFICES ASSUME NEW t PROVE RemoveIdsForTeam(u, t, visible) \in [Contexts -> SUBSET P]
        OBVIOUS
    <2>1. \A d \in Contexts : (IF d.team = t THEN u[d] \ visible ELSE u[d]) \subseteq P
        OBVIOUS
    <2> QED
        BY <2>1 DEF RemoveIdsForTeam
<1>2. RemoveIdsForTeam(u, c.team, visible) \in [Contexts -> SUBSET P]
    BY <1>1
<1>3. ReconcileUnreadContext(u, c, visible, ids) = [RemoveIdsForTeam(u, c.team, visible) EXCEPT ![c] = ids]
    BY DEF ReconcileUnreadContext
<1>4. ReconcileUnreadContext(u, c, visible, ids) \in [Contexts -> SUBSET P]
    BY <1>2, <1>3
<1> QED
    BY <1>1, <1>4

LEMMA WithoutProperties ==
    ASSUME NEW S, NEW s \in Seq(S), NEW id
    PROVE  /\ Without(s, id) \in Seq(S)
           /\ Elements(Without(s, id)) = {e \in Elements(s) : e.id # id}
<1> DEFINE P == {i \in DOMAIN s : s[i].id # id}
<1>1. P \subseteq DOMAIN s /\ Without(s, id) = Sublist(s, P)
    BY DEF Without
<1>2. /\ Without(s, id) \in Seq(S)
      /\ \A i \in DOMAIN Without(s, id) : \E p \in P : Without(s, id)[i] = s[p]
      /\ \A p \in P : \E i \in DOMAIN Without(s, id) : Without(s, id)[i] = s[p]
    <2> HIDE DEF P
    <2> QED
        BY <1>1, SublistProperties
<1>3. \A i \in DOMAIN Without(s, id) : Without(s, id)[i] \in {e \in Elements(s) : e.id # id}
    BY <1>2 DEF Elements
<1>4. \A e \in Elements(s) : e.id # id => e \in Elements(Without(s, id))
    BY <1>2 DEF Elements
<1> QED
    BY <1>2, <1>3, <1>4 DEF Elements

-----------------------------------------------------------------------------
(* What the actions of the reducer make of a state                         *)

SameView(r, s) ==
    /\ r.events = s.events /\ r.view = s.view
    /\ r.error = s.error /\ r.websocketRevision = s.websocketRevision

LEMMA SmallUpdates ==
    ASSUME NEW E, NEW P, NEW s \in Stores(E, P), NEW loading \in BOOLEAN, NEW id, NEW team, NEW ids
    PROVE  /\ SetLoading(s, loading) \in Stores(E, P) /\ SameView(SetLoading(s, loading), s)
           /\ ClearNewEventFlag(s, id) \in Stores(E, P) /\ SameView(ClearNewEventFlag(s, id), s)
           /\ ClearUpdatedEventFlag(s, id) \in Stores(E, P)
           /\ SameView(ClearUpdatedEventFlag(s, id), s)
           /\ MarkEventsRead(s, team, ids) \in Stores(E, P)
           /\ SameView(MarkEventsRead(s, team, ids), s)
<1>1. SetLoading(s, loading) \in Stores(E, P) /\ SameView(SetLoading(s, loading), s)
    BY DEF SetLoading, SameView, Stores
<1>2. ClearNewEventFlag(s, id) \in Stores(E, P) /\ SameView(ClearNewEventFlag(s, id), s)
    BY DEF ClearNewEventFlag, SameView, Stores
<1>3. ClearUpdatedEventFlag(s, id) \in Stores(E, P) /\ SameView(ClearUpdatedEventFlag(s, id), s)
    BY DEF ClearUpdatedEventFlag, SameView, Stores
<1>4. MarkEventsRead(s, team, ids) \in Stores(E, P) /\ SameView(MarkEventsRead(s, team, ids), s)
    <2>1. RemoveIdsForTeam(s.unread, team, ids) \in [Contexts -> SUBSET P]
        <3>1. s.unread \in [Contexts -> SUBSET P]
            BY StoreFields
        <3>2. \A c \in Contexts : (IF c.team = team THEN s.unread[c] \ ids ELSE s.unread[c]) \subseteq P
            BY <3>1
        <3> QED
            BY <3>2 DEF RemoveIdsForTeam
    <2> QED
        BY <2>1 DEF MarkEventsRead, SameView, Stores
<1> QED
    BY <1>1, <1>2, <1>3, <1>4

LEMMA ErrorUpdate ==
    ASSUME NEW E, NEW P, NEW s \in Stores(E, P), NEW error \in {NoError, LoadError}
    PROVE  LET r == SetError(s, error) IN
           /\ r \in Stores(E, P) /\ r.events = s.events /\ r.view = s.view /\ r.error = error
           /\ r.websocketRevision = s.websocketRevision
BY DEF SetError, Stores

LEMMA ClearUpdate ==
    ASSUME NEW E, NEW P, NEW s \in Stores(E, P)
    PROVE  LET r == ClearEvents(s) IN
           /\ r \in Stores(E, P) /\ r.events = << >> /\ r.view = NoView /\ r.error = NoError
           /\ r.websocketRevision = s.websocketRevision
<1>1. << >> \in Seq(E)
    BY EmptySeq
<1> QED
    BY <1>1 DEF ClearEvents, Stores

LEMMA UnreadUpdate ==
    ASSUME NEW E, NEW P, NEW s \in Stores(E, P), NEW c \in Contexts, NEW visible, NEW ids,
           ids \subseteq P
    PROVE  LET r == ReceivedContextUnreadEvents(s, c, visible, ids) IN
           r \in Stores(E, P) /\ SameView(r, s)
<1>1. ReconcileUnreadContext(s.unread, c, visible, ids) \in [Contexts -> SUBSET P]
    BY StoreFields, UnreadTypes
<1> QED
    BY <1>1 DEF ReceivedContextUnreadEvents, SameView, Stores

LEMMA UnreadEventUpdate ==
    ASSUME NEW E, NEW P, NEW s \in Stores(E, P), NEW event, event.id \in P
    PROVE  LET r == ReceivedUnreadEvent(s, event) IN r \in Stores(E, P) /\ SameView(r, s)
<1> DEFINE u == [c \in Contexts |-> IF c \in ContextKeys(event)
                                    THEN s.unread[c] \union {event.id} ELSE s.unread[c]]
<1>1. s.unread \in [Contexts -> SUBSET P]
    BY StoreFields
<1>2. u \in [Contexts -> SUBSET P]
    <2>1. \A c \in Contexts : (IF c \in ContextKeys(event) THEN s.unread[c] \union {event.id}
                               ELSE s.unread[c]) \subseteq P
        BY <1>1
    <2> QED
        BY <2>1
<1>3. ReceivedUnreadEvent(s, event) = [s EXCEPT !.unread = u]
    BY DEF ReceivedUnreadEvent
<1> HIDE DEF u
<1> QED
    BY <1>2, <1>3 DEF SameView, Stores

LEMMA AnswerUpdate ==
    ASSUME NEW P, NEW s \in Stores(Known(P), P), NEW answer \in Answers(P), NEW append,
           NEW c \in Contexts
    PROVE  LET r == ReceivedEvents(s, answer, append, c) IN
           /\ r \in Stores(Known(P), P)
           /\ r.events = IF append THEN s.events \o answer.events ELSE answer.events
           /\ r.view = c /\ r.error = NoError /\ r.websocketRevision = s.websocketRevision
<1> DEFINE list == IF append THEN s.events \o answer.events ELSE answer.events
           u == ReconcileUnreadContext(s.unread, c, IdsOf(answer.events), answer.unread)
<1>1. answer.events \in Seq(Known(P)) /\ answer.total \in Nat /\ answer.unread \subseteq P
    BY DEF Answers
<1>2. s.events \in Seq(Known(P)) /\ s.unread \in [Contexts -> SUBSET P]
    BY StoreFields
<1>3. list \in Seq(Known(P))
    BY <1>1, <1>2, ConcatElements
<1>4. u \in [Contexts -> SUBSET P]
    BY <1>1, <1>2, UnreadTypes
<1>5. ReceivedEvents(s, answer, append, c) =
        [s EXCEPT !.events = list, !.total = answer.total, !.error = NoError, !.unread = u, !.view = c]
    BY DEF ReceivedEvents
<1>6. c \in Contexts \union {NoView}
    OBVIOUS
<1> HIDE DEF list, u
<1>7. LET r == ReceivedEvents(s, answer, append, c) IN
      /\ r \in Stores(Known(P), P) /\ r.events = list
      /\ r.view = c /\ r.error = NoError /\ r.websocketRevision = s.websocketRevision
    BY ZenonT(40), <1>1, <1>3, <1>4, <1>5, <1>6 DEF Stores
<1> QED
    BY <1>7 DEF list

LEMMA FirstElements ==
    ASSUME NEW S, NEW e \in S, NEW s \in Seq(S)
    PROVE  /\ <<e>> \o s \in Seq(S) /\ Elements(<<e>> \o s) = {e} \union Elements(s)
           /\ Len(<<e>> \o s) = Len(s) + 1 /\ Len(s) \in Nat
           /\ DOMAIN s = 1 .. Len(s) /\ DOMAIN (<<e>> \o s) = 1 .. Len(s) + 1
           /\ (<<e>> \o s)[1] = e
           /\ \A i \in 1 .. Len(s) : (<<e>> \o s)[i + 1] = s[i]
<1>1. <<e>> \in Seq(S) /\ Len(<<e>>) = 1 /\ <<e>>[1] = e /\ DOMAIN <<e>> = 1 .. 1
    OBVIOUS
<1>2. Elements(<<e>>) = {e}
    BY <1>1 DEF Elements
<1>3. /\ Len(<<e>> \o s) = Len(<<e>>) + Len(s)
      /\ \A i \in 1 .. Len(<<e>>) + Len(s) :
            (<<e>> \o s)[i] = IF i <= Len(<<e>>) THEN <<e>>[i] ELSE s[i - Len(<<e>>)]
    BY <1>1, ConcatProperties
<1>4. <<e>> \o s \in Seq(S) /\ Elements(<<e>> \o s) = {e} \union Elements(s)
    <2> DEFINE one == <<e>>
    <2> HIDE DEF one
    <2>1. one \in Seq(S)
        BY <1>1 DEF one
    <2>2. one \o s \in Seq(S) /\ Elements(one \o s) = Elements(one) \union Elements(s)
        BY <2>1, ConcatElements
    <2> QED
        BY <1>2, <2>2 DEF one
<1>5. Len(s) \in Nat /\ DOMAIN s = 1 .. Len(s)
    BY LenProperties
<1>6. Len(<<e>> \o s) = Len(s) + 1
    BY <1>1, <1>3, <1>5
<1>7. DOMAIN (<<e>> \o s) = 1 .. Len(s) + 1
    BY <1>4, <1>6, LenProperties
<1>8. \A i \in 1 .. 1 + Len(s) : (<<e>> \o s)[i] = IF i <= 1 THEN e ELSE s[i - 1]
    <2>1. \A i \in 1 .. 1 + Len(s) : i <= 1 => i = 1
        BY <1>5
    <2> QED
        BY <1>1, <1>3, <2>1
<1>9. (<<e>> \o s)[1] = e
    BY <1>5, <1>8
<1>10. ASSUME NEW i \in 1 .. Len(s) PROVE (<<e>> \o s)[i + 1] = s[i]
    <2>1. i + 1 \in 1 .. 1 + Len(s) /\ ~(i + 1 <= 1) /\ (i + 1) - 1 = i
        BY <1>5
    <2> QED
        BY <1>8, <2>1
<1> QED
    BY <1>4, <1>5, <1>6, <1>7, <1>9, <1>10

LEMMA NewEventUpdate ==
    ASSUME NEW P, NEW s \in Stores(Known(P), P), NEW event \in Known(P)
    PROVE  LET r == ReceivedNewEvent(s, event) IN
           /\ r \in Stores(Known(P), P) /\ r.view = s.view /\ r.error = s.error
           /\ event.id \in IdsOf(s.events) => r = s
           /\ event.id \notin IdsOf(s.events) =>
                /\ r.events = <<event>> \o s.events
                /\ r.websocketRevision = s.websocketRevision + 1
<1> DEFINE list == <<event>> \o s.events
           new == s.newEventIds \union {event.id}
           total == s.total + 1
           revision == s.websocketRevision + 1
           next == [s EXCEPT !.events = list, !.total = total, !.newEventIds = new,
                             !.websocketRevision = revision]
<1>1. list \in Seq(Known(P))
    BY StoreFields, FirstElements
<1>2. new \subseteq P /\ event.id \in P
    BY StoreFields, KnownFields
<1>3. ReceivedNewEvent(s, event) = IF event.id \in IdsOf(s.events) THEN s ELSE next
    BY DEF ReceivedNewEvent
<1>4. /\ next \in Stores(Known(P), P) /\ next.view = s.view /\ next.error = s.error
      /\ next.events = list /\ next.websocketRevision = revision
    <2>1. total \in Nat /\ revision \in Nat
        BY StoreFields
    <2> HIDE DEF list, new, total, revision
    <2> QED
        BY <1>1, <1>2, <2>1 DEF Stores
<1> HIDE DEF next
<1> QED
    BY <1>3, <1>4

LEMMA MergedProperties ==
    ASSUME NEW P, NEW events \in Seq(Known(P)), NEW event \in Known(P)
    PROVE  LET m == Merged(event, events) IN
           /\ m \in Known(P) /\ m.id = event.id /\ m.version = event.version
           /\ m.team = event.team /\ m.channels = event.channels /\ m.look = event.look
           /\ m = event \/ \E i \in DOMAIN events : events[i].id = event.id
                                                    /\ m.reactions = events[i].reactions
<1> DEFINE listed == {i \in DOMAIN events : events[i].id = event.id}
           first == CHOOSE i \in listed : \A j \in listed : i <= j
           m == Merged(event, events)
<1>1. CASE event.reactions = NoReactions /\ listed # {}
    <2>1. listed \subseteq Nat
        BY LenProperties
    <2>2. first \in listed
        BY <1>1, <2>1, LeastNumber
    <2>3. m = [event EXCEPT !.reactions = events[first].reactions]
        BY <1>1 DEF Merged
    <2>4. events[first] \in Known(P) /\ first \in DOMAIN events /\ events[first].id = event.id
        BY <2>2, ElementOfSeq, LenProperties
    <2> HIDE DEF first, listed, m
    <2>5. m \in Known(P) /\ m.id = event.id /\ m.version = event.version
          /\ m.team = event.team /\ m.channels = event.channels /\ m.look = event.look
          /\ m.reactions = events[first].reactions
        BY <2>3, <2>4 DEF Known, Event
    <2> QED
        BY <2>4, <2>5 DEF m
<1>2. CASE ~(event.reactions = NoReactions /\ listed # {})
    <2>1. m = event
        BY <1>2 DEF Merged
    <2> QED
        BY <2>1
<1> QED
    BY <1>1, <1>2

LEMMA UpdatedEventUpdate ==
    ASSUME NEW P, NEW s \in Stores(Known(P), P), NEW event \in Known(P)
    PROVE  LET r == ReceivedUpdatedEvent(s, event) IN
           /\ r \in Stores(Known(P), P) /\ r.view = s.view /\ r.error = s.error
           /\ r.events = <<Merged(event, s.events)>> \o Without(s.events, event.id)
           /\ r.websocketRevision = s.websocketRevision + 1
<1> DEFINE list == <<Merged(event, s.events)>> \o Without(s.events, event.id)
           updated == s.updatedEventIds \union {event.id}
           revision == s.websocketRevision + 1
<1>1. list \in Seq(Known(P))
    BY StoreFields, MergedProperties, WithoutProperties, FirstElements
<1>2. updated \subseteq P
    BY StoreFields, KnownFields
<1>3. ReceivedUpdatedEvent(s, event) =
        [s EXCEPT !.events = list, !.updatedEventIds = updated, !.websocketRevision = revision]
    BY DEF ReceivedUpdatedEvent
<1>0. revision \in Nat
    BY StoreFields
<1> HIDE DEF list, updated, revision
<1>4. LET r == ReceivedUpdatedEvent(s, event) IN
      /\ r \in Stores(Known(P), P) /\ r.view = s.view /\ r.error = s.error
      /\ r.events = list /\ r.websocketRevision = revision
    BY <1>0, <1>1, <1>2, <1>3 DEF Stores
<1> QED
    BY <1>4 DEF list, revision

-----------------------------------------------------------------------------
(* What the server answers                                                 *)

LEMMA FeedFacts ==
    ASSUME NEW events, IsFeed(events)
    PROVE  /\ Len(events) \in Nat /\ DOMAIN events = 1 .. Len(events)
           /\ \A i \in DOMAIN events : events[i] \in Event /\ events[i].id \in 1 .. Len(events)
           /\ events \in Seq(Known(1 .. Len(events)))
           /\ \A n \in 1 .. Len(events) : \E k \in DOMAIN events : events[k].id = n
           /\ \A i, j \in DOMAIN events : events[i].id = events[j].id => i = j
<1>1. events \in Seq(Event) /\ ListsOnce(events) /\ IdsOf(events) = 1 .. Len(events)
    BY DEF IsFeed
<1>2. Len(events) \in Nat /\ DOMAIN events = 1 .. Len(events)
    BY <1>1, LenProperties
<1>3. \A i \in DOMAIN events : events[i] \in Event /\ events[i].id \in 1 .. Len(events)
    BY <1>1, <1>2, ElementOfSeq DEF IdsOf
<1>4. \A n \in 1 .. Len(events) : \E k \in DOMAIN events : events[k].id = n
    BY <1>1 DEF IdsOf
<1>5. \A i \in 1 .. Len(events) : events[i] \in Known(1 .. Len(events))
    BY <1>2, <1>3 DEF Known
<1>6. events = [i \in 1 .. Len(events) |-> events[i]]
    BY <1>1, <1>2
<1>7. events \in Seq(Known(1 .. Len(events)))
    <2> DEFINE K == Known(1 .. Len(events))
    <2>1. events \in [1 .. Len(events) -> K]
        BY <1>5, <1>6
    <2> HIDE DEF K
    <2>2. events \in Seq(K)
        BY <1>2, <2>1
    <2> QED
        BY <2>2 DEF K
<1> QED
    BY <1>1, <1>2, <1>3, <1>4, <1>7 DEF ListsOnce

LEMMA ListedProperties ==
    ASSUME NEW events, IsFeed(events), NEW context
    PROVE  LET listed == Listed(events, context) IN
           /\ listed \in Seq(Known(1 .. Len(events))) /\ DOMAIN listed = DOMAIN events
           /\ Elements(listed) = Elements(events)
           /\ \A i, j \in DOMAIN listed : listed[i].id = listed[j].id => i = j
           /\ context.channel = NoChannel =>
                \A i \in DOMAIN listed : listed[i].id = Len(events) + 1 - i
<1> DEFINE L == NewestFirst(events)
           K == Known(1 .. Len(events))
<1>1. /\ Len(events) \in Nat /\ DOMAIN events = 1 .. Len(events) /\ events \in Seq(K)
      /\ \A n \in 1 .. Len(events) : \E k \in DOMAIN events : events[k].id = n
      /\ \A i, j \in DOMAIN events : events[i].id = events[j].id => i = j
      /\ \A i \in DOMAIN events : events[i].id \in 1 .. Len(events)
    BY FeedFacts
<1>2. DOMAIN L = DOMAIN events
    BY DEF NewestFirst
<1>3. ASSUME NEW i \in DOMAIN L
      PROVE  L[i] \in Elements(events) /\ L[i] \in K /\ L[i].id = Len(events) + 1 - i
    <2> DEFINE k == CHOOSE k \in DOMAIN events : events[k].id = Len(events) + 1 - i
    <2>1. Len(events) + 1 - i \in 1 .. Len(events)
        BY <1>1, <1>2
    <2>2. k \in DOMAIN events /\ events[k].id = Len(events) + 1 - i
        BY <1>1, <2>1
    <2>3. L[i] = events[k]
        BY <1>2, <1>3 DEF NewestFirst
    <2> HIDE DEF k
    <2>4. events[k] \in K
        BY <1>1, <2>2, ElementOfSeq
    <2> QED
        BY <2>2, <2>3, <2>4 DEF Elements
<1>4. ASSUME NEW j \in DOMAIN events PROVE events[j] \in Elements(L)
    <2> DEFINE i == Len(events) + 1 - events[j].id
    <2>1. i \in DOMAIN L
        BY SMTT(30), <1>1, <1>2
    <2>2. L[i].id = Len(events) + 1 - i /\ L[i] \in Elements(events)
        BY <1>3, <2>1
    <2>3. Len(events) + 1 - i = events[j].id
        BY <1>1
    <2> HIDE DEF i
    <2>4. PICK k \in DOMAIN events : L[i] = events[k]
        BY <2>2 DEF Elements
    <2>5. k = j
        BY <1>1, <2>2, <2>3, <2>4
    <2> QED
        BY <2>1, <2>4, <2>5 DEF Elements
<1>5. L \in Seq(K)
    <2> DEFINE place(i) == events[CHOOSE k \in DOMAIN events : events[k].id = Len(events) + 1 - i]
    <2>1. L = [i \in DOMAIN events |-> place(i)]
        BY DEF NewestFirst
    <2> HIDE DEF L, K, place
    <2>2. \A i \in DOMAIN events : place(i) = L[i]
        BY <2>1
    <2>3. \A i \in DOMAIN events : L[i] \in K
        BY <1>2, <1>3
    <2>4. \A i \in DOMAIN events : place(i) \in K
        BY <2>2, <2>3
    <2>5. L \in [1 .. Len(events) -> K]
        BY <1>1, <2>1, <2>4
    <2> QED
        BY <1>1, <2>5
<1>6. Elements(L) = Elements(events)
    <2>1. Elements(L) \subseteq Elements(events)
        BY <1>3 DEF Elements
    <2>2. Elements(events) \subseteq Elements(L)
        BY <1>4 DEF Elements
    <2> QED
        BY <2>1, <2>2
<1>7. \A i, j \in DOMAIN L : L[i].id = L[j].id => i = j
    <2> HIDE DEF L
    <2> SUFFICES ASSUME NEW i \in DOMAIN L, NEW j \in DOMAIN L, L[i].id = L[j].id PROVE i = j
        OBVIOUS
    <2>1. L[i].id = Len(events) + 1 - i /\ L[j].id = Len(events) + 1 - j
        BY <1>3
    <2>2. i \in Nat /\ j \in Nat /\ Len(events) \in Nat
        BY <1>1, <1>2
    <2>3. Len(events) + 1 - i = Len(events) + 1 - j
        BY <2>1
    <2> QED
        BY <2>2, <2>3
<1>8. \A i \in DOMAIN L : L[i].id = Len(events) + 1 - i
    BY <1>3
<1>9. Listed(events, context) = IF context.channel = NoChannel THEN L ELSE events
    BY DEF Listed
<1> HIDE DEF L, K
<1>10. CASE context.channel = NoChannel
    BY <1>2, <1>5, <1>6, <1>7, <1>8, <1>9, <1>10 DEF K
<1>11. CASE context.channel # NoChannel
    BY <1>1, <1>9, <1>11 DEF K
<1> QED
    BY <1>10, <1>11

LEMMA FeedForProperties ==
    ASSUME NEW events, IsFeed(events), NEW ids, NEW context, NEW filter
    PROVE  LET answered == FeedFor(events, ids, context, filter) IN
           /\ answered \in Seq(Known(1 .. Len(events)))
           /\ Len(answered) \in Nat /\ DOMAIN answered = 1 .. Len(answered)
           /\ \A i \in DOMAIN answered :
                /\ answered[i] \in Elements(events) /\ answered[i] \in Known(1 .. Len(events))
                /\ Fits(answered[i], context) /\ Matches(answered[i], ids, filter)
           /\ \A e \in Elements(events) :
                Fits(e, context) /\ Matches(e, ids, filter) => e \in Elements(answered)
           /\ ListsOnce(answered)
<1> DEFINE L == Listed(events, context)
           A == FeedFor(events, ids, context, filter)
           K == Known(1 .. Len(events))
           T == {i \in DOMAIN events : Fits(L[i], context) /\ Matches(L[i], ids, filter)}
<1>1. /\ L \in Seq(K) /\ DOMAIN L = DOMAIN events
      /\ Elements(L) = Elements(events)
      /\ \A i, j \in DOMAIN L : L[i].id = L[j].id => i = j
    BY ListedProperties
<1>2. A = Sublist(L, T)
    BY DEF FeedFor
<1>3. T \subseteq DOMAIN L
    BY <1>1
<1>4. \A p \in T : Fits(L[p], context) /\ Matches(L[p], ids, filter)
    OBVIOUS
<1>5. \A p \in DOMAIN L : Fits(L[p], context) /\ Matches(L[p], ids, filter) => p \in T
    BY <1>1
<1> HIDE DEF L, T, A, K
<1>6. /\ A \in Seq(K) /\ Len(A) \in Nat /\ DOMAIN A = 1 .. Len(A)
      /\ \E h : Embeds(h, A, L, T)
    BY <1>1, <1>2, <1>3, SublistEmbeds, LenProperties
<1>7. PICK h : Embeds(h, A, L, T)
    BY <1>6
<1>8. \A i \in DOMAIN A : h[i] \in T /\ h[i] \in DOMAIN L /\ A[i] = L[h[i]]
    BY <1>3, <1>6, <1>7 DEF Embeds
<1>9. ASSUME NEW i \in DOMAIN A
      PROVE  /\ A[i] \in Elements(events) /\ A[i] \in K
             /\ Fits(A[i], context) /\ Matches(A[i], ids, filter)
    <2>1. A[i] \in Elements(L)
        BY <1>8 DEF Elements
    <2>2. A[i] \in K
        BY <1>6, ElementOfSeq
    <2> QED
        BY <1>1, <1>4, <1>8, <2>1, <2>2
<1>10. ASSUME NEW e \in Elements(events), Fits(e, context), Matches(e, ids, filter)
       PROVE  e \in Elements(A)
    <2>1. PICK p \in DOMAIN L : e = L[p]
        BY <1>1 DEF Elements
    <2>2. PICK i \in 1 .. Len(A) : h[i] = p
        BY <1>5, <1>7, <1>10, <2>1 DEF Embeds
    <2> QED
        BY <1>6, <1>8, <2>1, <2>2 DEF Elements
<1>11. ASSUME NEW i \in DOMAIN A, NEW j \in DOMAIN A, A[i].id = A[j].id PROVE i = j
    <2>1. h[i] = h[j]
        BY <1>1, <1>8, <1>11
    <2>2. h[i] \in Nat /\ h[j] \in Nat
        BY <1>1, <1>8, LenProperties
    <2>3. \A k, l \in DOMAIN A : k < l => h[k] < h[l]
        BY <1>6, <1>7 DEF Embeds
    <2>4. ~(i < j) /\ ~(j < i)
        BY <2>1, <2>2, <2>3
    <2> QED
        BY <1>6, <2>4
<1> QED
    BY <1>6, <1>9, <1>10, <1>11 DEF A, K, ListsOnce

LEMMA SameFeedFor ==
    ASSUME NEW events, NEW ids, NEW context, NEW filter, filter # UnreadOnly
    PROVE  FeedFor(events, ids, context, filter) = FeedFor(events, {}, context, filter)
BY DEF FeedFor, Matches

LEMMA PageOfFeed ==
    ASSUME NEW P, NEW s \in Seq(Known(P)), NEW o \in Nat, NEW l \in Nat
    PROVE  /\ Page(s, o, l) \in Seq(Known(P))
           /\ Elements(Page(s, o, l)) \subseteq Elements(s)
           /\ ListsOnce(s) => ListsOnce(Page(s, o, l))
<1> DEFINE p == Page(s, o, l)
<1>1. p \in Seq(Known(P)) /\ Len(p) \in Nat /\ DOMAIN p = 1 .. Len(p)
      /\ \A i \in DOMAIN p : o + i \in DOMAIN s /\ p[i] = s[o + i]
    BY PageProperties
<1> HIDE DEF p
<1>2. Elements(p) \subseteq Elements(s)
    BY <1>1 DEF Elements
<1>3. ASSUME ListsOnce(s), NEW i \in DOMAIN p, NEW j \in DOMAIN p, p[i].id = p[j].id
      PROVE  i = j
    <2>1. o + i = o + j
        BY <1>1, <1>3 DEF ListsOnce
    <2>2. i \in Nat /\ j \in Nat
        BY <1>1
    <2> QED
        BY <2>1, <2>2
<1> QED
    BY <1>1, <1>2, <1>3 DEF p, ListsOnce

-----------------------------------------------------------------------------
(* Requests                                                                *)

LEMMA CallFields ==
    ASSUME NEW P, NEW c \in Calls(P)
    PROVE  /\ c.kind \in {"page", "more", "refresh", "mark"} /\ c.context \in Contexts
           /\ c.filter \in Filters /\ c.offset \in Nat /\ c.ids \subseteq P
           /\ c.overtaken \in BOOLEAN /\ c.unmarked \in BOOLEAN
           /\ c.kind = "mark" => c.ids # {}
           /\ c.answer \notin {Pending, Failed} => c.answer \in Answers(P)
BY DEF Calls, Requests

LEMMA CallType ==
    ASSUME NEW P, NEW kind \in {"page", "more", "refresh", "mark"}, NEW context \in Contexts,
           NEW filter \in Filters, NEW offset \in Nat, NEW ids, ids \subseteq P,
           kind = "mark" => ids # {}
    PROVE  Call(kind, context, filter, offset, ids) \in Calls(P)
BY DEF Call, Calls, Requests

(* Requests that differ in their answer or marks from those of cs.         *)
LEMMA ChangedCalls ==
    ASSUME NEW P, NEW cs \in Seq(Calls(P)), NEW f(_), \A i \in DOMAIN cs : f(i) \in Calls(P)
    PROVE  [i \in DOMAIN cs |-> f(i)] \in Seq(Calls(P))
<1>1. DOMAIN cs = 1 .. Len(cs) /\ Len(cs) \in Nat
    BY LenProperties
<1>2. [i \in DOMAIN cs |-> f(i)] \in [1 .. Len(cs) -> Calls(P)]
    BY <1>1
<1> QED
    BY <1>1, <1>2

LEMMA AnsweredCall ==
    ASSUME NEW P, NEW cs \in Seq(Calls(P)), NEW i \in DOMAIN cs,
           NEW a \in {Pending, Failed} \union Answers(P)
    PROVE  LET r == [cs EXCEPT ![i].answer = a] IN
           /\ r \in Seq(Calls(P)) /\ DOMAIN r = DOMAIN cs
           /\ r[i] = [cs[i] EXCEPT !.answer = a]
           /\ \A j \in DOMAIN cs : j # i => r[j] = cs[j]
<1> DEFINE d == [cs[i] EXCEPT !.answer = a]
           r == [cs EXCEPT ![i] = d]
<1>1. cs[i] \in Calls(P)
    BY ElementOfSeq, LenProperties
<1>2. d \in Calls(P)
    BY <1>1 DEF Calls, Requests
<1>3. [cs EXCEPT ![i].answer = a] = r
    OBVIOUS
<1> HIDE DEF d
<1>4. r \in Seq(Calls(P)) /\ r[i] = d /\ DOMAIN r = DOMAIN cs
      /\ \A j \in DOMAIN cs : j # i => r[j] = cs[j]
    BY <1>2, ExceptSeq
<1> QED
    BY <1>3, <1>4 DEF d

LEMMA MarkedCalls ==
    ASSUME NEW P, NEW cs \in Seq(Calls(P)), NEW T
    PROVE  /\ [i \in DOMAIN cs |-> IF i \in T THEN cs[i] ELSE [cs[i] EXCEPT !.overtaken = TRUE]]
                \in Seq(Calls(P))
           /\ [i \in DOMAIN cs |-> IF i \in T THEN cs[i] ELSE [cs[i] EXCEPT !.unmarked = TRUE]]
                \in Seq(Calls(P))
<1>1. \A i \in DOMAIN cs : cs[i] \in Calls(P)
    BY ElementOfSeq, LenProperties
<1>2. \A c \in Calls(P) : [c EXCEPT !.overtaken = TRUE] \in Calls(P)
                          /\ [c EXCEPT !.unmarked = TRUE] \in Calls(P)
    BY DEF Calls, Requests
<1>3. \A i \in DOMAIN cs :
        (IF i \in T THEN cs[i] ELSE [cs[i] EXCEPT !.overtaken = TRUE]) \in Calls(P)
    BY <1>1, <1>2
<1>4. \A i \in DOMAIN cs :
        (IF i \in T THEN cs[i] ELSE [cs[i] EXCEPT !.unmarked = TRUE]) \in Calls(P)
    BY <1>1, <1>2
<1> DEFINE f(i) == IF i \in T THEN cs[i] ELSE [cs[i] EXCEPT !.overtaken = TRUE]
           g(i) == IF i \in T THEN cs[i] ELSE [cs[i] EXCEPT !.unmarked = TRUE]
<1> QED
    BY <1>3, <1>4, ChangedCalls

-----------------------------------------------------------------------------
(* Types are kept                                                          *)

LEMMA InitialElements ==
    ASSUME NEW e \in InitialEvents
    PROVE  e \in Event
<1>1. IsEvent(e)
    BY EventsAssumption
<1>2. e \in Sources
    BY DEF Sources
<1>3. /\ e.id \in Nat /\ e.version \in Nat
      /\ e.team \in {p.team : p \in Sources} \ {NoTeam}
      /\ e.channels \in {p.channels : p \in Sources}
      /\ e.look \in Looks \union {p.look : p \in Sources}
      /\ e.reactions \in {NoReactions} \union {x.reactions : x \in InitialEvents}
    BY <1>1, <1>2 DEF IsEvent
<1>4. e = [id |-> e.id, version |-> e.version, team |-> e.team, channels |-> e.channels,
           look |-> e.look, reactions |-> e.reactions]
    BY <1>1 DEF IsEvent
<1> DEFINE teams == {p.team : p \in Sources} \ {NoTeam}
           audiences == {p.channels : p \in Sources}
           looks == Looks \union {p.look : p \in Sources}
           reactions == {NoReactions} \union {x.reactions : x \in InitialEvents}
<1>5. Event = [id : Nat, version : Nat, team : teams, channels : audiences, look : looks,
               reactions : reactions]
    BY DEF Event
<1> HIDE DEF teams, audiences, looks, reactions
<1>6. e.team \in teams /\ e.channels \in audiences /\ e.look \in looks /\ e.reactions \in reactions
    BY <1>3 DEF teams, audiences, looks, reactions
<1> QED
    BY <1>3, <1>4, <1>5, <1>6

LEMMA InitialTypes ==
    ASSUME Init
    PROVE  TypeInv
<1>1. PICK s \in Scenarios :
        /\ host = s.host /\ feed = s.feed /\ unread = s.unread
        /\ icon = IF s.refreshed THEN s.host ELSE NoView
        /\ store = IF s.refreshed
                   THEN ReceivedContextUnreadEvents(InitialState, s.host, {}, s.unread)
                   ELSE InitialState
        /\ rhs = Unmounted /\ calls = << >> /\ clock = 0 /\ wire = {} /\ ghost = NoPage
    BY DEF Init
<1>2. /\ s.host \in Contexts \union {NoView} /\ s.feed \in Seq(InitialEvents)
      /\ ListsOnce(s.feed) /\ IdsOf(s.feed) = 1 .. Len(s.feed)
      /\ s.unread \subseteq IdsOf(s.feed)
      /\ s.refreshed \in BOOLEAN /\ (s.refreshed => s.host # NoView)
    BY ScenariosAssumption
<1>3. InitialEvents \subseteq Event
    BY InitialElements
<1>4. ServerTypes
    <2>1. s.feed \in Seq(Event)
        BY <1>2, <1>3, InLargerSeq
    <2> QED
        BY <1>1, <1>2, <2>1 DEF ServerTypes, IsFeed, Published
<1>5. StoreTypes
    <2>1. InitialState \in Stores(Known(Published), Published)
        <3>1. << >> \in Seq(Known(Published))
            BY EmptySeq
        <3>2. [c \in Contexts |-> {}] \in [Contexts -> SUBSET Published]
            OBVIOUS
        <3> QED
            BY <3>1, <3>2 DEF InitialState, Stores
    <2>2. store \in Stores(Known(Published), Published)
        <3>1. CASE s.refreshed
            <4>1. s.host \in Contexts /\ s.unread \subseteq Published
                BY <1>1, <1>2, <3>1 DEF Published
            <4>2. ReceivedContextUnreadEvents(InitialState, s.host, {}, s.unread)
                    \in Stores(Known(Published), Published)
                BY <2>1, <4>1, UnreadUpdate
            <4> QED
                BY <1>1, <3>1, <4>2
        <3>2. CASE ~s.refreshed
            BY <1>1, <2>1, <3>2
        <3> QED
            BY <3>1, <3>2
    <2>3. ASSUME NEW p \in Parents, p.known
          PROVE  p.state \in Stores(Known(Published), Published)
        <3>1. p.state \in Stores(InitialEvents, IdsOf(s.feed)) /\ IdsOf(p.state.events) \subseteq IdsOf(s.feed)
            BY <2>3, ParentsAssumption
        <3>2. IdsOf(s.feed) = Published
            BY <1>1, <1>2 DEF Published
        <3>3. p.state.events \in Seq(InitialEvents)
            BY <3>1 DEF Stores
        <3>4. \A i \in DOMAIN p.state.events : p.state.events[i] \in Known(Published)
            <4> SUFFICES ASSUME NEW i \in DOMAIN p.state.events
                         PROVE  p.state.events[i] \in Known(Published)
                OBVIOUS
            <4>1. p.state.events[i] \in InitialEvents
                BY <3>3, ElementOfSeq, LenProperties
            <4>2. p.state.events[i].id \in Published
                BY <3>1, <3>2 DEF IdsOf
            <4> QED
                BY <1>3, <4>1, <4>2 DEF Known
        <3>5. p.state.events \in Seq(Known(Published))
            <4> DEFINE K == Known(Published)
                       t == p.state.events
            <4>1. Len(t) \in Nat /\ t \in [1 .. Len(t) -> InitialEvents]
                BY <3>3, LenProperties
            <4>2. \A i \in 1 .. Len(t) : t[i] \in K
                BY <3>4, <4>1
            <4> HIDE DEF K, t
            <4>3. t \in [1 .. Len(t) -> K]
                BY <4>1, <4>2
            <4>4. t \in Seq(K)
                BY <4>1, <4>3
            <4> QED
                BY <4>4 DEF K, t
        <3> QED
            BY <3>1, <3>2, <3>5 DEF Stores
    <2> QED
        BY <2>2, <2>3 DEF StoreTypes
<1>6. WireTypes
    BY <1>1 DEF WireTypes
<1>7. host \in Views /\ icon \in Views
    BY <1>1, <1>2 DEF Views
<1>8. rhs \in Sidebars
    BY <1>1 DEF Unmounted, Sidebars, Views, Filters
<1>9. calls \in Seq(Calls(Published))
    BY <1>1, EmptySeq
<1>10. ghost \in Ghosts
    BY <1>1 DEF NoPage, Ghosts, Views, Filters
<1> QED
    BY <1>4, <1>5, <1>6, <1>7, <1>8, <1>9, <1>10 DEF TypeInv

(* What the server publishes is an event of the next number.               *)
LEMMA PublishTypes ==
    ASSUME TypeInv, NEW p \in Publications, Publish(p)
    PROVE  /\ IsFeed(feed') /\ TypeInv'
           /\ \E event \in Event :
                /\ event = [id |-> Len(feed) + 1, version |-> 0, team |-> p.team,
                            channels |-> p.channels, look |-> p.look, reactions |-> NoReactions]
                /\ feed' = <<event>> \o feed /\ wire' = wire \union Broadcast("new", event)
           /\ Published' = Published \union {Len(feed) + 1} /\ Len(feed') = Len(feed) + 1
<1> DEFINE event == [id |-> Len(feed) + 1, version |-> 0, team |-> p.team,
                     channels |-> p.channels, look |-> p.look, reactions |-> NoReactions]
<1>1. /\ feed' = <<event>> \o feed /\ unread' = unread \union {event.id} /\ clock' = clock + 1
      /\ wire' = wire \union Broadcast("new", event)
      /\ UNCHANGED <<store, host, rhs, icon, calls, ghost>>
    BY DEF Publish
<1>2. IsFeed(feed) /\ clock \in Nat /\ unread \subseteq Published /\ Len(feed) \in Nat
    BY FeedFacts DEF TypeInv, ServerTypes
<1>3. event \in Event
    <2>1. p \in Sources /\ p.team # NoTeam
        BY EventsAssumption DEF Sources
    <2>2. /\ p.team \in {q.team : q \in Sources} \ {NoTeam}
          /\ p.channels \in {q.channels : q \in Sources}
          /\ p.look \in Looks \union {q.look : q \in Sources}
          /\ NoReactions \in {NoReactions} \union {e.reactions : e \in InitialEvents}
        BY <2>1
    <2>3. Len(feed) + 1 \in Nat /\ 0 \in Nat
        BY <1>2
    <2> QED
        BY <2>2, <2>3 DEF Event
<1>4. event.id = Len(feed) + 1 /\ event.version = 0
    OBVIOUS
<1> HIDE DEF event
<1>5. /\ feed' \in Seq(Event) /\ Len(feed') = Len(feed) + 1 /\ feed'[1] = event
      /\ DOMAIN feed = 1 .. Len(feed) /\ DOMAIN feed' = 1 .. Len(feed) + 1
      /\ \A i \in 1 .. Len(feed) : feed'[i + 1] = feed[i]
    BY <1>1, <1>2, <1>3, FirstElements DEF IsFeed
<1>6. \A i \in DOMAIN feed' : i = 1 \/ (i - 1 \in DOMAIN feed /\ feed'[i] = feed[i - 1])
    <2> SUFFICES ASSUME NEW i \in DOMAIN feed', i # 1
                 PROVE  i - 1 \in DOMAIN feed /\ feed'[i] = feed[i - 1]
        OBVIOUS
    <2>1. i - 1 \in 1 .. Len(feed) /\ (i - 1) + 1 = i
        BY <1>2, <1>5
    <2> QED
        BY <1>5, <2>1
<1>7. \A i \in DOMAIN feed : feed[i].id \in 1 .. Len(feed)
    BY <1>2, FeedFacts
<1>8. ListsOnce(feed')
    <2> SUFFICES ASSUME NEW i \in DOMAIN feed', NEW j \in DOMAIN feed', feed'[i].id = feed'[j].id
                 PROVE  i = j
        BY DEF ListsOnce
    <2>1. \A k \in DOMAIN feed' : k # 1 => feed'[k].id # Len(feed) + 1
        BY <1>2, <1>6, <1>7
    <2>2. i = 1 <=> j = 1
        BY <1>4, <1>5, <2>1
    <2>3. CASE i # 1 /\ j # 1
        <3>1. /\ i - 1 \in DOMAIN feed /\ feed'[i] = feed[i - 1]
              /\ j - 1 \in DOMAIN feed /\ feed'[j] = feed[j - 1]
            BY <1>6, <2>3
        <3>2. i - 1 = j - 1
            BY <1>2, <3>1, FeedFacts
        <3> QED
            BY <1>5, <3>2
    <2> QED
        BY <2>2, <2>3
<1>9. IdsOf(feed') = 1 .. Len(feed')
    <2>1. \A i \in DOMAIN feed' : feed'[i].id \in 1 .. Len(feed')
        BY <1>2, <1>4, <1>5, <1>6, <1>7
    <2>2. ASSUME NEW n \in 1 .. Len(feed') PROVE \E i \in DOMAIN feed' : feed'[i].id = n
        <3>1. CASE n = Len(feed) + 1
            BY <1>2, <1>4, <1>5, <3>1
        <3>2. CASE n # Len(feed) + 1
            <4>1. n \in 1 .. Len(feed)
                BY <1>2, <1>5, <3>2
            <4>2. PICK k \in DOMAIN feed : feed[k].id = n
                BY <1>2, <4>1, FeedFacts
            <4>3. k + 1 \in DOMAIN feed' /\ feed'[k + 1] = feed[k]
                BY <1>2, <1>5
            <4> QED
                BY <4>2, <4>3
        <3> QED
            BY <3>1, <3>2
    <2> QED
        BY <2>1, <2>2 DEF IdsOf
<1>10. IsFeed(feed')
    BY <1>5, <1>8, <1>9 DEF IsFeed
<1>11. Published' = Published \union {Len(feed) + 1} /\ Published \subseteq Published'
    BY <1>2, <1>5 DEF Published
<1>12. ServerTypes'
    BY <1>1, <1>2, <1>4, <1>10, <1>11 DEF ServerTypes
<1>13. StoreTypes'
    BY <1>1, <1>11, KnownGrows DEF TypeInv, StoreTypes
<1>14. WireTypes'
    <2> SUFFICES ASSUME NEW m \in wire'
                 PROVE  /\ m.kind \in {"new", "updated"} /\ m.event \in Known(Published')
                        /\ m.seq \in 1 .. clock' /\ (m.kind = "new" => m.event.version = 0)
        BY DEF WireTypes
    <2>1. CASE m \in wire
        <3>1. m.kind \in {"new", "updated"} /\ m.event \in Known(Published) /\ m.seq \in 1 .. clock
              /\ (m.kind = "new" => m.event.version = 0)
            BY <2>1 DEF TypeInv, WireTypes
        <3>2. m.event \in Known(Published')
            BY <1>11, <3>1, KnownGrows
        <3> QED
            BY <1>1, <1>2, <3>1, <3>2
    <2>2. CASE m \in Broadcast("new", event)
        <3>1. m.kind = "new" /\ m.event = event /\ m.seq = clock + 1
            BY <2>2 DEF Broadcast
        <3>2. event \in Known(Published')
            BY <1>3, <1>4, <1>11 DEF Known
        <3> QED
            BY <1>1, <1>2, <1>4, <3>1, <3>2
    <2> QED
        BY <1>1, <2>1, <2>2
<1>15. calls' \in Seq(Calls(Published'))
    <2>1. \A P, Q : P \subseteq Q => Seq(Calls(P)) \subseteq Seq(Calls(Q))
        BY KnownGrows
    <2>2. calls' \in Seq(Calls(Published)) /\ Published \subseteq Published'
        BY <1>1, <1>11 DEF TypeInv
    <2> QED
        BY <2>1, <2>2
<1>16. TypeInv'
    BY <1>1, <1>12, <1>13, <1>14, <1>15 DEF TypeInv
<1> QED
    BY <1>1, <1>3, <1>5, <1>10, <1>11, <1>16 DEF event

LEMMA FirstOnce ==
    ASSUME NEW S, NEW e \in S, NEW s \in Seq(S), ListsOnce(s), e.id \notin IdsOf(s)
    PROVE  ListsOnce(<<e>> \o s)
<1> DEFINE r == <<e>> \o s
<1>1. /\ Len(s) \in Nat /\ DOMAIN s = 1 .. Len(s) /\ DOMAIN r = 1 .. Len(s) + 1 /\ r[1] = e
      /\ \A i \in 1 .. Len(s) : r[i + 1] = s[i]
    BY FirstElements
<1> HIDE DEF r
<1>2. \A i \in DOMAIN r : i # 1 => i - 1 \in DOMAIN s /\ r[i] = s[i - 1]
    <2> SUFFICES ASSUME NEW i \in DOMAIN r, i # 1 PROVE i - 1 \in DOMAIN s /\ r[i] = s[i - 1]
        OBVIOUS
    <2>1. i - 1 \in 1 .. Len(s) /\ (i - 1) + 1 = i
        BY <1>1
    <2> QED
        BY <1>1, <2>1
<1>3. \A i \in DOMAIN r : i # 1 => r[i].id # e.id
    BY <1>2 DEF IdsOf
<1>4. ASSUME NEW i \in DOMAIN r, NEW j \in DOMAIN r, r[i].id = r[j].id PROVE i = j
    <2>1. CASE i = 1 \/ j = 1
        BY <1>1, <1>3, <1>4, <2>1
    <2>2. CASE i # 1 /\ j # 1
        <3>1. i - 1 = j - 1
            BY <1>2, <1>4, <2>2 DEF ListsOnce
        <3> QED
            BY <1>1, <3>1
    <2> QED
        BY <2>1, <2>2
<1> QED
    BY <1>4 DEF ListsOnce, r

LEMMA WithoutOnce ==
    ASSUME NEW S, NEW s \in Seq(S), NEW id, ListsOnce(s)
    PROVE  ListsOnce(Without(s, id))
<1> DEFINE P == {i \in DOMAIN s : s[i].id # id}
<1>1. P \subseteq DOMAIN s /\ Without(s, id) = Sublist(s, P)
    BY DEF Without
<1>2. \A p, q \in P : s[p] = s[q] => p = q
    BY DEF ListsOnce
<1> HIDE DEF P
<1>3. /\ \A i \in DOMAIN Without(s, id) : \E p \in P : Without(s, id)[i] = s[p]
      /\ \A i, j \in DOMAIN Without(s, id) : Without(s, id)[i] = Without(s, id)[j] => i = j
    BY <1>1, <1>2, SublistProperties
<1> QED
    BY <1>1, <1>3 DEF ListsOnce

(* An event is taken out of a list and put first again.                    *)
LEMMA MovedFirst ==
    ASSUME NEW S, NEW e \in S, NEW s \in Seq(S)
    PROVE  LET r == <<e>> \o Without(s, e.id) IN
           /\ r \in Seq(S) /\ Elements(r) = {e} \union {x \in Elements(s) : x.id # e.id}
           /\ IdsOf(r) = IdsOf(s) \union {e.id}
           /\ ListsOnce(s) => ListsOnce(r)
<1> DEFINE w == Without(s, e.id)
           r == <<e>> \o w
<1>1. w \in Seq(S) /\ Elements(w) = {x \in Elements(s) : x.id # e.id}
    BY WithoutProperties
<1>2. r \in Seq(S) /\ Elements(r) = {e} \union Elements(w)
    BY <1>1, FirstElements
<1>3. \A t : IdsOf(t) = {x.id : x \in Elements(t)}
    BY DEF IdsOf, Elements
<1> HIDE DEF w, r
<1>4. IdsOf(r) = IdsOf(s) \union {e.id}
    BY <1>1, <1>2, <1>3
<1>5. ASSUME ListsOnce(s) PROVE ListsOnce(r)
    <2>1. ListsOnce(w)
        BY <1>5, WithoutOnce DEF w
    <2>2. e.id \notin IdsOf(w)
        BY <1>1, <1>3
    <2> QED
        BY <1>1, <2>1, <2>2, FirstOnce DEF r
<1> QED
    BY <1>1, <1>2, <1>4, <1>5 DEF w, r

(* A list without repetitions has as many ids as places.                   *)
LEMMA IdsCount ==
    ASSUME NEW S, NEW s \in Seq(S), ListsOnce(s)
    PROVE  IsFiniteSet(IdsOf(s)) /\ Cardinality(IdsOf(s)) = Len(s)
<1> DEFINE f == [i \in 1 .. Len(s) |-> s[i].id]
<1>1. Len(s) \in Nat /\ DOMAIN s = 1 .. Len(s)
    BY LenProperties
<1>2. f \in [1 .. Len(s) -> IdsOf(s)]
    BY <1>1 DEF IdsOf
<1>3. \A i, j \in 1 .. Len(s) : f[i] = f[j] => i = j
    BY <1>1 DEF ListsOnce
<1>4. \A id \in IdsOf(s) : \E i \in 1 .. Len(s) : f[i] = id
    BY <1>1 DEF IdsOf
<1> HIDE DEF f
<1>5. ExistsBijection(1 .. Len(s), IdsOf(s))
    <2>1. f \in Injection(1 .. Len(s), IdsOf(s))
        BY <1>2, <1>3 DEF Injection, IsInjective
    <2>2. f \in Surjection(1 .. Len(s), IdsOf(s))
        BY <1>2, <1>4 DEF Surjection
    <2> QED
        BY <2>1, <2>2 DEF ExistsBijection, Bijection
<1>6. IsFiniteSet(1 .. Len(s)) /\ Cardinality(1 .. Len(s)) = Len(s)
    <2>1. Cardinality(1 .. Len(s)) = IF 1 > Len(s) THEN 0 ELSE Len(s) - 1 + 1
        BY <1>1, FS_Interval
    <2>2. IsFiniteSet(1 .. Len(s))
        BY <1>1, FS_Interval
    <2> QED
        BY <1>1, <2>1, <2>2
<1> QED
    BY <1>5, <1>6, FS_Bijection

(* A list whose numbers are those up to n has n events.                    *)
LEMMA FeedLength ==
    ASSUME NEW s \in Seq(Event), ListsOnce(s), NEW n \in Nat, IdsOf(s) = 1 .. n
    PROVE  Len(s) = n
<1>1. Cardinality(1 .. n) = Len(s)
    BY IdsCount
<1>2. Cardinality(1 .. n) = IF 1 > n THEN 0 ELSE n - 1 + 1
    BY FS_Interval
<1> QED
    BY <1>1, <1>2

(* An update publishes the next version of an event.                       *)
LEMMA UpdateTypes ==
    ASSUME TypeInv, NEW i \in DOMAIN feed, NEW look \in Looks, Update(i, look)
    PROVE  /\ IsFeed(feed') /\ TypeInv'
           /\ \E event \in Known(Published) :
                /\ event = [feed[i] EXCEPT !.version = @ + 1, !.look = look]
                /\ event.id = feed[i].id /\ event.version = feed[i].version + 1
                /\ event.team = feed[i].team /\ event.channels = feed[i].channels
                /\ event.reactions = feed[i].reactions
                /\ feed' = <<event>> \o Without(feed, event.id)
                /\ wire' = wire \union Broadcast("updated", event)
           /\ Published' = Published /\ Len(feed') = Len(feed)
<1> DEFINE event == [feed[i] EXCEPT !.version = @ + 1, !.look = look]
<1>1. /\ feed' = <<event>> \o Without(feed, event.id) /\ unread' = unread \union {event.id}
      /\ clock' = clock + 1 /\ wire' = wire \union Broadcast("updated", event)
      /\ UNCHANGED <<store, host, rhs, icon, calls, ghost>>
    BY DEF Update
<1>2. IsFeed(feed) /\ clock \in Nat /\ unread \subseteq Published /\ Len(feed) \in Nat
    BY FeedFacts DEF TypeInv, ServerTypes
<1>3. feed[i] \in Event /\ feed[i].id \in Published
    BY <1>2, FeedFacts DEF Published
<1>4. /\ event \in Event /\ event.id = feed[i].id /\ event.version = feed[i].version + 1
      /\ event.team = feed[i].team /\ event.channels = feed[i].channels
      /\ event.reactions = feed[i].reactions
    <2>1. feed[i].version + 1 \in Nat /\ look \in Looks \union {p.look : p \in Sources}
        BY <1>3 DEF Event
    <2> QED
        BY <1>3, <2>1 DEF Event
<1>5. event \in Known(Published)
    BY <1>3, <1>4 DEF Known
<1> HIDE DEF event
<1>6. feed' \in Seq(Event) /\ ListsOnce(feed') /\ IdsOf(feed') = IdsOf(feed) \union {event.id}
    BY <1>1, <1>2, <1>4, MovedFirst DEF IsFeed
<1>7. IdsOf(feed') = 1 .. Len(feed)
    BY <1>2, <1>3, <1>4, <1>6 DEF IsFeed, Published
<1>8. Len(feed') = Len(feed)
    BY <1>2, <1>6, <1>7, FeedLength
<1>9. IsFeed(feed') /\ Published' = Published
    BY <1>6, <1>7, <1>8 DEF IsFeed, Published
<1>10. ServerTypes'
    BY <1>1, <1>2, <1>3, <1>4, <1>9 DEF ServerTypes
<1>11. StoreTypes'
    BY <1>1, <1>9 DEF TypeInv, StoreTypes
<1>12. WireTypes'
    <2> SUFFICES ASSUME NEW m \in wire'
                 PROVE  /\ m.kind \in {"new", "updated"} /\ m.event \in Known(Published)
                        /\ m.seq \in 1 .. clock' /\ (m.kind = "new" => m.event.version = 0)
        BY <1>9 DEF WireTypes
    <2>1. CASE m \in wire
        <3>1. m.kind \in {"new", "updated"} /\ m.event \in Known(Published) /\ m.seq \in 1 .. clock
              /\ (m.kind = "new" => m.event.version = 0)
            BY <2>1 DEF TypeInv, WireTypes
        <3> QED
            BY <1>1, <1>2, <3>1
    <2>2. CASE m \in Broadcast("updated", event)
        <3>1. m.kind = "updated" /\ m.event = event /\ m.seq = clock + 1
            BY <2>2 DEF Broadcast
        <3> QED
            BY <1>1, <1>2, <1>5, <3>1
    <2> QED
        BY <1>1, <2>1, <2>2
<1>13. TypeInv'
    BY <1>1, <1>9, <1>10, <1>11, <1>12 DEF TypeInv
<1> QED
    BY <1>1, <1>4, <1>5, <1>8, <1>9, <1>13 DEF event

LEMMA SidebarFields ==
    ASSUME rhs \in Sidebars
    PROVE  /\ rhs.mounted \in BOOLEAN /\ rhs.filter \in Filters /\ rhs.loaded \in Views
           /\ rhs.deps = << >> \/ rhs.deps \in [context : Views, filter : Filters, revision : Nat]
           /\ rhs.lastFilter \in Filters \union {<< >>} /\ rhs.lastRevision \in Nat
           /\ \A m \in BOOLEAN, f \in Filters : [rhs EXCEPT !.filter = f] \in Sidebars
           /\ [rhs EXCEPT !.deps = << >>] \in Sidebars
BY DEF Sidebars

LEMMA UnmountedType == Unmounted \in Sidebars /\ [Unmounted EXCEPT !.mounted = TRUE] \in Sidebars
BY DEF Unmounted, Sidebars, Views, Filters

(* Steps of the view and its requests leave the server and the messages.   *)
LEMMA ClientTypes ==
    ASSUME TypeInv, UNCHANGED <<feed, clock, wire>>, unread' \subseteq Published,
           store' \in Stores(Known(Published), Published),
           host' \in Views, icon' \in Views, rhs' \in Sidebars,
           calls' \in Seq(Calls(Published)), ghost' \in Ghosts
    PROVE  TypeInv'
<1>1. Published' = Published
    BY DEF Published
<1>2. ServerTypes'
    BY <1>1 DEF TypeInv, ServerTypes
<1>3. StoreTypes'
    BY <1>1 DEF TypeInv, StoreTypes
<1>4. WireTypes'
    BY <1>1 DEF TypeInv, WireTypes
<1> QED
    BY <1>1, <1>2, <1>3, <1>4 DEF TypeInv

LEMMA TypeFacts ==
    ASSUME TypeInv
    PROVE  /\ IsFeed(feed) /\ clock \in Nat /\ unread \subseteq Published
           /\ store \in Stores(Known(Published), Published)
           /\ host \in Views /\ icon \in Views /\ rhs \in Sidebars
           /\ calls \in Seq(Calls(Published)) /\ ghost \in Ghosts
           /\ store.view \in Views /\ store.events \in Seq(Known(Published))
           /\ \A i \in DOMAIN calls : calls[i] \in Calls(Published)
           /\ Current \in Views /\ (Current.team # NoTeam => Current \in Contexts)
<1>1. /\ IsFeed(feed) /\ clock \in Nat /\ unread \subseteq Published
      /\ store \in Stores(Known(Published), Published)
      /\ host \in Views /\ icon \in Views /\ rhs \in Sidebars
      /\ calls \in Seq(Calls(Published)) /\ ghost \in Ghosts
    BY DEF TypeInv, ServerTypes, StoreTypes
<1>2. store.view \in Views /\ store.events \in Seq(Known(Published))
    BY <1>1, StoreFields
<1>3. \A i \in DOMAIN calls : calls[i] \in Calls(Published)
    BY <1>1, ElementOfSeq, LenProperties
<1> QED
    BY <1>1, <1>2, <1>3, CurrentView

LEMMA UserTypes ==
    ASSUME TypeInv, UserStep
    PROVE  TypeInv'
<1>0. /\ unread \subseteq Published /\ store \in Stores(Known(Published), Published)
      /\ host \in Views /\ icon \in Views /\ rhs \in Sidebars
      /\ calls \in Seq(Calls(Published)) /\ ghost \in Ghosts
      /\ Current.team # NoTeam => Current \in Contexts
    BY TypeFacts
<1>1. ASSUME NEW c \in Hosts, SelectContext(c) PROVE TypeInv'
    <2>1. c \in Views
        BY HostsAssumption DEF Views
    <2> QED
        BY <1>0, <1>1, <2>1, ClientTypes DEF SelectContext, server
<1>2. CASE Open
    BY <1>0, <1>2, UnmountedType, ClientTypes DEF Open, server
<1>3. CASE Close
    <2>1. Abort(calls) \in Seq(Calls(Published))
        BY <1>0, AbortProperties
    <2> QED
        BY <1>0, <1>3, <2>1, UnmountedType, ClientTypes DEF Close, server
<1>4. ASSUME NEW f \in Filters, SetFilter(f) PROVE TypeInv'
    <2>1. rhs' \in Sidebars
        BY <1>0, <1>4, SidebarFields DEF SetFilter
    <2> QED
        BY <1>0, <1>4, <2>1, ClientTypes DEF SetFilter, server
<1>5. CASE Retype
    <2>1. rhs' \in Sidebars
        BY <1>0, <1>5, SidebarFields DEF Retype
    <2> QED
        BY <1>0, <1>5, <2>1, ClientTypes DEF Retype, server
<1>6. CASE LoadMore
    <2>1. store' \in Stores(Known(Published), Published)
        BY <1>0, <1>6, SmallUpdates DEF LoadMore
    <2>2. Len(store.events) \in Nat
        BY <1>0, StoreFields, LenProperties
    <2>3. Call("more", Current, rhs.filter, Len(store.events), {}) \in Calls(Published)
        <3>1. Current \in Contexts /\ rhs.filter \in Filters
            BY <1>0, <1>6, SidebarFields DEF LoadMore
        <3> QED
            BY <2>2, <3>1, CallType
    <2>4. calls' \in Seq(Calls(Published))
        BY <1>0, <1>6, <2>3, AppendElements DEF LoadMore
    <2> QED
        BY <1>0, <1>6, <2>1, <2>4, ClientTypes DEF LoadMore, server
<1>7. ASSUME NEW id \in IdsOf(store.events), AnimationEnd(id) PROVE TypeInv'
    <2>1. store' \in Stores(Known(Published), Published)
        BY <1>0, <1>7, SmallUpdates DEF AnimationEnd
    <2> QED
        BY <1>0, <1>7, <2>1, ClientTypes DEF AnimationEnd, server
<1> QED
    BY <1>1, <1>2, <1>3, <1>4, <1>5, <1>6, <1>7 DEF UserStep

LEMMA RefreshTypes ==
    ASSUME TypeInv, RefreshUnread
    PROVE  TypeInv'
<1>0. /\ unread \subseteq Published /\ store \in Stores(Known(Published), Published)
      /\ host \in Views /\ icon \in Views /\ rhs \in Sidebars
      /\ calls \in Seq(Calls(Published)) /\ ghost \in Ghosts
      /\ Current \in Views /\ (Current.team # NoTeam => Current \in Contexts)
    BY TypeFacts
<1>1. calls' \in Seq(Calls(Published))
    <2>1. CASE Current.team = NoTeam
        BY <1>0, <2>1 DEF RefreshUnread
    <2>2. CASE Current.team # NoTeam
        <3>1. Call("refresh", Current, NoFilter, 0, {}) \in Calls(Published)
            <4>1. Current \in Contexts /\ NoFilter \in Filters /\ {} \subseteq Published
                BY <1>0, <2>2 DEF Filters
            <4> QED
                BY <4>1, CallType
        <3> QED
            BY <1>0, <2>2, <3>1, AppendElements DEF RefreshUnread
    <2> QED
        BY <2>1, <2>2
<1> QED
    BY <1>0, <1>1, ClientTypes DEF RefreshUnread, server

LEMMA ServeTypes ==
    ASSUME TypeInv, NEW i \in DOMAIN calls, Serve(i)
    PROVE  /\ TypeInv'
           /\ LET call == calls[i]
                  events == FeedFor(feed, unread, call.context, call.filter)
              IN  /\ Answer(events, call.offset) \in Answers(Published)
                  /\ calls' = [calls EXCEPT ![i].answer = Answer(events, call.offset)]
<1> DEFINE call == calls[i]
           events == FeedFor(feed, unread, call.context, call.filter)
           page == Page(events, call.offset, PageSize)
<1>0. /\ unread \subseteq Published /\ store \in Stores(Known(Published), Published)
      /\ host \in Views /\ icon \in Views /\ rhs \in Sidebars /\ clock \in Nat
      /\ calls \in Seq(Calls(Published)) /\ ghost \in Ghosts /\ IsFeed(feed)
      /\ call \in Calls(Published)
    BY TypeFacts
<1>1. events \in Seq(Known(Published)) /\ Len(events) \in Nat
    BY <1>0, FeedForProperties DEF Published
<1>2. page \in Seq(Known(Published))
    <2>1. call.offset \in Nat /\ PageSize \in Nat
        BY <1>0, CallFields, PageSizeAssumption
    <2> HIDE DEF call, events
    <2> QED
        BY <1>1, <2>1, PageOfFeed
<1>3. Answer(events, call.offset) \in Answers(Published)
    <2>1. unread \intersect IdsOf(page) \subseteq Published
        BY <1>0
    <2> HIDE DEF events, call
    <2> QED
        BY <1>0, <1>1, <1>2, <2>1 DEF Answer, Answers
<1>4. calls' = [calls EXCEPT ![i].answer = Answer(events, call.offset)]
    BY DEF Serve
<1>5. calls' \in Seq(Calls(Published))
    <2> HIDE DEF events, call
    <2> QED
        BY <1>0, <1>3, <1>4, AnsweredCall
<1>6. unread' \subseteq Published
    <2>1. unread' \subseteq unread
        BY DEF Serve
    <2> QED
        BY <1>0, <2>1
<1>7. UNCHANGED <<store, host, rhs, icon, feed, clock, wire, left, ghost>>
    BY DEF Serve
<1>8. TypeInv'
    BY <1>0, <1>5, <1>6, <1>7, ClientTypes
<1> QED
    BY <1>3, <1>4, <1>8

LEMMA FailTypes ==
    ASSUME TypeInv, NEW i \in DOMAIN calls, Fail(i)
    PROVE  TypeInv'
<1>0. /\ unread \subseteq Published /\ store \in Stores(Known(Published), Published)
      /\ host \in Views /\ icon \in Views /\ rhs \in Sidebars
      /\ calls \in Seq(Calls(Published)) /\ ghost \in Ghosts
    BY TypeFacts
<1>1. calls' \in Seq(Calls(Published))
    BY <1>0, AnsweredCall DEF Fail
<1> QED
    BY <1>0, <1>1, ClientTypes DEF Fail, server

(* What the effects see of the view.                                       *)
LEMMA ViewTypes ==
    ASSUME TypeInv
    PROVE  /\ Deps \in [context : Views, filter : Filters, revision : Nat]
           /\ Deps.context = Current /\ Deps.filter = rhs.filter
           /\ Deps.revision = (IF rhs.filter = NoFilter THEN 0 ELSE store.websocketRevision)
           /\ Signature \in [view : Views, shown : Seq(Nat \X Nat), ids : SUBSET Nat]
           /\ ToMark \subseteq Published
           /\ MarkDue => store.view \in Contexts /\ ToMark # {}
<1>0. /\ rhs \in Sidebars /\ store \in Stores(Known(Published), Published) /\ IsFeed(feed)
      /\ Current \in Views /\ store.view \in Views /\ store.events \in Seq(Known(Published))
    BY TypeFacts
<1>1. Deps \in [context : Views, filter : Filters, revision : Nat]
    <2>1. rhs.filter \in Filters /\ store.websocketRevision \in Nat
        BY <1>0, SidebarFields, StoreFields
    <2> QED
        BY <1>0, <2>1 DEF Deps
<1>2. Deps.context = Current /\ Deps.filter = rhs.filter
      /\ Deps.revision = (IF rhs.filter = NoFilter THEN 0 ELSE store.websocketRevision)
    BY DEF Deps
<1>3. ToMark \subseteq Published
    <2>1. IdsOf(store.events) \subseteq Published
        BY <1>0, IdsAreKnown
    <2> QED
        BY <2>1 DEF ToMark
<1>4. Published \subseteq Nat
    BY <1>0, FeedFacts DEF Published
<1> DEFINE active == {i \in DOMAIN store.events : IsTimelineEventActive(store.events[i])}
           rendered == RenderedEvents(store.events)
           K == Known(Published)
<1>5. rendered \in Seq(K)
    <2>1. active \subseteq DOMAIN store.events /\ DOMAIN store.events \ active \subseteq DOMAIN store.events
        OBVIOUS
    <2>2. rendered = Sublist(store.events, active) \o Sublist(store.events, DOMAIN store.events \ active)
        BY DEF RenderedEvents
    <2> HIDE DEF active, K, rendered
    <2>3. store.events \in Seq(K)
        BY <1>0 DEF K
    <2>4. Sublist(store.events, active) \in Seq(K)
        BY <2>1, <2>3, SublistProperties
    <2>5. Sublist(store.events, DOMAIN store.events \ active) \in Seq(K)
        BY <2>1, <2>3, SublistProperties
    <2> QED
        BY <2>2, <2>4, <2>5, ConcatElements
<1>6. [i \in DOMAIN rendered |-> <<rendered[i].id, rendered[i].version>>] \in Seq(Nat \X Nat)
    <2> HIDE DEF rendered
    <2>1. DOMAIN rendered = 1 .. Len(rendered) /\ Len(rendered) \in Nat
        BY <1>5, LenProperties
    <2>2. \A i \in DOMAIN rendered : rendered[i].id \in Nat /\ rendered[i].version \in Nat
        BY <1>5, <2>1, ElementOfSeq, KnownFields
    <2>3. [i \in DOMAIN rendered |-> <<rendered[i].id, rendered[i].version>>]
            \in [1 .. Len(rendered) -> Nat \X Nat]
        BY <2>1, <2>2
    <2> QED
        BY <2>1, <2>3
<1>7. Signature \in [view : Views, shown : Seq(Nat \X Nat), ids : SUBSET Nat]
    <2>1. Signature = [view |-> store.view,
                       shown |-> [i \in DOMAIN rendered |-> <<rendered[i].id, rendered[i].version>>],
                       ids |-> ToMark]
        BY DEF Signature
    <2> HIDE DEF rendered
    <2>2. ToMark \in SUBSET Nat
        BY <1>3, <1>4
    <2> QED
        BY <1>0, <1>6, <2>1, <2>2
<1>8. ASSUME MarkDue PROVE store.view \in Contexts /\ ToMark # {}
    BY <1>0, <1>8 DEF MarkDue, Views, NoView
<1> QED
    BY <1>1, <1>2, <1>3, <1>7, <1>8

(* The requests the effects send.                                          *)
LEMMA EffectCalls ==
    ASSUME TypeInv, Effects
    PROVE  LET page == Call("page", Current, rhs.filter, 0, {})
               mark == Call("mark", store.view, NoFilter, 0, ToMark)
           IN  /\ calls' \in Seq(Calls(Published))
               /\ FetchDue /\ Current.team # NoTeam => page \in Calls(Published)
               /\ \A c \in Elements(calls') :
                    \/ c \in Elements(calls) /\ (FetchDue => c.kind # "page")
                    \/ FetchDue /\ Current.team # NoTeam /\ c = page
                    \/ c = mark
               /\ FetchDue /\ Current.team # NoTeam => page \in Elements(calls')
               /\ ~FetchDue => Elements(calls) \subseteq Elements(calls')
<1> DEFINE S == Calls(Published)
           aborted == IF FetchDue THEN Abort(calls) ELSE calls
           fetches == FetchDue /\ Current.team # NoTeam
           page == Call("page", Current, rhs.filter, 0, {})
           mark == Call("mark", store.view, NoFilter, 0, ToMark)
           fetched == IF fetches THEN Append(aborted, page) ELSE aborted
<1>0. /\ calls \in Seq(S) /\ (Current.team # NoTeam => Current \in Contexts)
      /\ rhs \in Sidebars
    BY TypeFacts
<1>1. calls' = IF MarkDue THEN Append(fetched, mark) ELSE fetched
    BY DEF Effects
<1>2. fetches => page \in S
    <2> SUFFICES ASSUME fetches PROVE page \in S
        OBVIOUS
    <2>1. Current \in Contexts /\ rhs.filter \in Filters /\ {} \subseteq Published
        BY <1>0, SidebarFields
    <2> QED
        BY <2>1, CallType
<1>3. MarkDue => mark \in S
    <2> SUFFICES ASSUME MarkDue PROVE mark \in S
        OBVIOUS
    <2>1. store.view \in Contexts /\ NoFilter \in Filters /\ ToMark \subseteq Published /\ ToMark # {}
        BY ViewTypes DEF Filters
    <2> QED
        BY <2>1, CallType
<1>4. /\ aborted \in Seq(S)
      /\ \A c \in Elements(aborted) : c \in Elements(calls) /\ (FetchDue => c.kind # "page")
      /\ ~FetchDue => aborted = calls
    <2> HIDE DEF S
    <2>1. CASE FetchDue
        BY <1>0, <2>1, AbortProperties
    <2>2. CASE ~FetchDue
        BY <1>0, <2>2
    <2> QED
        BY <2>1, <2>2
<1> HIDE DEF S, aborted, page, mark
<1>5. /\ fetched \in Seq(S)
      /\ fetches => Elements(fetched) = Elements(aborted) \union {page}
      /\ ~fetches => fetched = aborted
    BY <1>2, <1>4, AppendElements
<1> HIDE DEF fetched
<1>6. /\ calls' \in Seq(S)
      /\ MarkDue => Elements(calls') = Elements(fetched) \union {mark}
      /\ ~MarkDue => calls' = fetched
    BY <1>1, <1>3, <1>5, AppendElements
<1>7. \A c \in Elements(calls') :
        \/ c \in Elements(calls) /\ (FetchDue => c.kind # "page")
        \/ fetches /\ c = page
        \/ c = mark
    BY <1>4, <1>5, <1>6
<1>8. fetches => page \in Elements(calls')
    BY <1>5, <1>6
<1>9. ~FetchDue => Elements(calls) \subseteq Elements(calls')
    BY <1>4, <1>5, <1>6
<1> QED
    BY <1>2, <1>6, <1>7, <1>8, <1>9 DEF S, page, mark

(* What the effects make of the state.                                     *)
LEMMA EffectStore ==
    ASSUME TypeInv, Effects
    PROVE  LET fetches == FetchDue /\ Current.team # NoTeam
               same == /\ store.view = Current /\ rhs.lastFilter = rhs.filter
                       /\ rhs.lastRevision = Deps.revision
           IN  /\ store' \in Stores(Known(Published), Published)
               /\ ~fetches => store' = store
               /\ fetches /\ same => SameView(store', store)
               /\ fetches /\ ~same =>
                    /\ store'.events = << >> /\ store'.view = NoView /\ store'.error = NoError
                    /\ store'.websocketRevision = store.websocketRevision
<1> DEFINE fetches == FetchDue /\ Current.team # NoTeam
           same == /\ store.view = Current /\ rhs.lastFilter = rhs.filter
                   /\ rhs.lastRevision = Deps.revision
           T == Stores(Known(Published), Published)
<1>0. store \in T
    BY TypeFacts
<1>1. store' = IF ~fetches THEN store
               ELSE SetLoading(IF same THEN store ELSE ClearEvents(store), TRUE)
    BY DEF Effects
<1> HIDE DEF fetches, same
<1>2. CASE ~fetches
    BY <1>0, <1>1, <1>2 DEF fetches
<1>3. CASE fetches /\ same
    <2>1. store' = SetLoading(store, TRUE)
        BY <1>1, <1>3
    <2>2. store' \in T /\ SameView(store', store)
        BY <1>0, <2>1, SmallUpdates
    <2> QED
        BY <1>3, <2>2 DEF fetches, same
<1>4. CASE fetches /\ ~same
    <2> DEFINE cleared == ClearEvents(store)
    <2>1. store' = SetLoading(cleared, TRUE)
        BY <1>1, <1>4
    <2>2. /\ cleared \in T /\ cleared.events = << >> /\ cleared.view = NoView /\ cleared.error = NoError
          /\ cleared.websocketRevision = store.websocketRevision
        BY <1>0, ClearUpdate
    <2> HIDE DEF cleared
    <2>3. store' \in T /\ SameView(store', cleared)
        BY <2>1, <2>2, SmallUpdates
    <2> QED
        BY <1>4, <2>2, <2>3 DEF fetches, same, SameView
<1> QED
    BY <1>2, <1>3, <1>4

LEMMA EffectTypes ==
    ASSUME TypeInv, Effects
    PROVE  TypeInv'
<1>0. /\ unread \subseteq Published /\ host \in Views /\ icon \in Views /\ rhs \in Sidebars
      /\ ghost \in Ghosts /\ store.view \in Views
    BY TypeFacts
<1>1. calls' \in Seq(Calls(Published)) /\ store' \in Stores(Known(Published), Published)
    BY EffectCalls, EffectStore
<1>2. rhs' \in Sidebars
    <2> DEFINE fetches == FetchDue /\ Current.team # NoTeam
               lf == IF fetches THEN rhs.filter ELSE rhs.lastFilter
               lr == IF fetches THEN Deps.revision ELSE rhs.lastRevision
               k == IF MarkDue THEN Signature ELSE rhs.marked
    <2>1. rhs' = [rhs EXCEPT !.loaded = store.view, !.deps = Deps, !.lastFilter = lf,
                             !.lastRevision = lr, !.marked = k]
        BY DEF Effects
    <2>2. /\ Deps \in [context : Views, filter : Filters, revision : Nat]
          /\ Signature \in [view : Views, shown : Seq(Nat \X Nat), ids : SUBSET Nat]
        BY ViewTypes
    <2>3. Deps.revision \in Nat
        BY <2>2
    <2>4. lf \in Filters \union {<< >>} /\ lr \in Nat
        BY <1>0, <2>3, SidebarFields
    <2>5. k \in {<< >>} \union [view : Views, shown : Seq(Nat \X Nat), ids : SUBSET Nat]
        BY <1>0, <2>2 DEF Sidebars
    <2> HIDE DEF lf, lr, k
    <2> QED
        BY <1>0, <2>1, <2>2, <2>4, <2>5 DEF Sidebars
<1>3. ghost' \in Ghosts
    <2> DEFINE b == ghost.miscounted /\ ~MarkDue
               g == IF FetchDue /\ Current.team # NoTeam
                       /\ ~(/\ store.view = Current /\ rhs.lastFilter = rhs.filter
                            /\ rhs.lastRevision = Deps.revision) THEN NoPage ELSE ghost
    <2>1. ghost' = [g EXCEPT !.miscounted = b]
        BY DEF Effects
    <2>2. g \in Ghosts
        BY <1>0 DEF NoPage, Ghosts, Views, Filters
    <2>3. b \in BOOLEAN
        OBVIOUS
    <2> HIDE DEF b, g
    <2> QED
        BY <2>1, <2>2, <2>3 DEF Ghosts
<1> QED
    BY <1>0, <1>1, <1>2, <1>3, ClientTypes DEF Effects, server

(* What is made of the answer of a page, or of an older page.              *)
LEMMA ReceiveEventsEffect ==
    ASSUME TypeInv, NEW i \in DOMAIN calls, ReceiveEvents(i)
    PROVE  LET call == calls[i] IN
           /\ call \in Calls(Published) /\ call \in Elements(calls)
           /\ call.kind \in {"page", "more"} /\ call.answer \notin {Pending, Failed}
           /\ call.answer \in Answers(Published)
           /\ store' \in Stores(Known(Published), Published)
           /\ store'.events = IF call.offset > 0 THEN store.events \o call.answer.events
                              ELSE call.answer.events
           /\ store'.view = call.context /\ store'.error = NoError
           /\ store'.websocketRevision = store.websocketRevision
           /\ calls' \in Seq(Calls(Published)) /\ Elements(calls') \subseteq Elements(calls)
           /\ \A j \in DOMAIN calls : j # i => calls[j] \in Elements(calls')
<1> DEFINE call == calls[i]
           old == SetError(store, NoError)
           append == call.offset > 0
           received == ReceivedEvents(old, call.answer, append, call.context)
           T == Stores(Known(Published), Published)
<1>0. store \in T /\ calls \in Seq(Calls(Published)) /\ call \in Calls(Published)
    BY TypeFacts
<1>1. /\ call.kind \in {"page", "more"} /\ call.answer \notin {Pending, Failed}
      /\ store' = SetLoading(received, FALSE) /\ calls' = Taken(calls, i)
    BY DEF ReceiveEvents
<1>2. call.answer \in Answers(Published) /\ call.context \in Contexts
    BY <1>0, <1>1, CallFields
<1>3. old \in T /\ old.events = store.events /\ old.websocketRevision = store.websocketRevision
    BY <1>0, ErrorUpdate
<1> HIDE DEF old, call, append
<1>4. /\ received \in T
      /\ received.events = IF append THEN old.events \o call.answer.events
                           ELSE call.answer.events
      /\ received.view = call.context /\ received.error = NoError
      /\ received.websocketRevision = old.websocketRevision
    BY <1>2, <1>3, AnswerUpdate
<1> HIDE DEF received
<1>5. store' \in T /\ SameView(store', received)
    BY <1>1, <1>4, SmallUpdates
<1>6. /\ calls' \in Seq(Calls(Published)) /\ Elements(calls') \subseteq Elements(calls)
      /\ \A j \in DOMAIN calls : j # i => calls[j] \in Elements(calls')
    BY <1>0, <1>1, TakenProperties
<1>7. call \in Elements(calls)
    BY DEF Elements, call
<1> QED
    BY <1>0, <1>1, <1>2, <1>3, <1>4, <1>5, <1>6, <1>7
    DEF call, append, SameView

LEMMA ReceiveUnreadEffect ==
    ASSUME TypeInv, NEW i \in DOMAIN calls, ReceiveUnread(i)
    PROVE  /\ store' \in Stores(Known(Published), Published) /\ SameView(store', store)
           /\ calls' \in Seq(Calls(Published)) /\ Elements(calls') \subseteq Elements(calls)
           /\ \A j \in DOMAIN calls : j # i => calls[j] \in Elements(calls')
           /\ calls[i].kind = "refresh"
<1> DEFINE call == calls[i]
<1>0. /\ store \in Stores(Known(Published), Published) /\ calls \in Seq(Calls(Published))
      /\ call \in Calls(Published)
    BY TypeFacts
<1>1. /\ call.answer \notin {Pending, Failed} /\ calls' = Taken(calls, i) /\ call.kind = "refresh"
      /\ store' = ReceivedContextUnreadEvents(store, call.context, IdsOf(call.answer.events),
                                              call.answer.unread)
    BY DEF ReceiveUnread
<1>2. call.answer \in Answers(Published) /\ call.context \in Contexts
    BY <1>0, <1>1, CallFields
<1>3. call.answer.unread \subseteq Published
    BY <1>2 DEF Answers
<1> HIDE DEF call
<1>4. store' \in Stores(Known(Published), Published) /\ SameView(store', store)
    BY <1>0, <1>1, <1>2, <1>3, UnreadUpdate
<1> QED
    BY <1>0, <1>1, <1>4, TakenProperties DEF call

(* The calls of ReceiveMarked and Deliver: requests whose marks change.    *)
MarkedIn(cs, c) ==
    \E d \in Elements(cs) :
        /\ c.kind = d.kind /\ c.context = d.context /\ c.filter = d.filter
        /\ c.offset = d.offset /\ c.ids = d.ids /\ c.answer = d.answer
        /\ d.overtaken => c.overtaken

LEMMA MarkingElements ==
    ASSUME NEW P, NEW cs \in Seq(Calls(P)), NEW T, NEW o, NEW u,
           NEW r \in Seq(Calls(P)),
           \/ r = [j \in DOMAIN cs |-> IF j \in T THEN cs[j] ELSE [cs[j] EXCEPT !.overtaken = TRUE]]
           \/ r = [j \in DOMAIN cs |-> IF j \in T THEN cs[j] ELSE [cs[j] EXCEPT !.unmarked = TRUE]]
    PROVE  \A c \in Elements(r) : MarkedIn(cs, c)
<1>1. \A j \in DOMAIN cs : cs[j] \in Calls(P) /\ cs[j] \in Elements(cs)
    BY ElementOfSeq, LenProperties DEF Elements
<1>2. \A d \in Calls(P) : \A c \in {d, [d EXCEPT !.overtaken = TRUE], [d EXCEPT !.unmarked = TRUE]} :
        /\ c.kind = d.kind /\ c.context = d.context /\ c.filter = d.filter
        /\ c.offset = d.offset /\ c.ids = d.ids /\ c.answer = d.answer
        /\ d.overtaken => c.overtaken
    BY DEF Calls, Requests
<1>3. DOMAIN r = DOMAIN cs
    OBVIOUS
<1>4. \A j \in DOMAIN cs :
        r[j] \in {cs[j], [cs[j] EXCEPT !.overtaken = TRUE], [cs[j] EXCEPT !.unmarked = TRUE]}
    OBVIOUS
<1>5. ASSUME NEW c \in Elements(r) PROVE MarkedIn(cs, c)
    <2>1. PICK j \in DOMAIN cs : c = r[j]
        BY <1>3 DEF Elements
    <2>2. c \in {cs[j], [cs[j] EXCEPT !.overtaken = TRUE], [cs[j] EXCEPT !.unmarked = TRUE]}
        BY <1>4, <2>1
    <2>3. cs[j] \in Calls(P) /\ cs[j] \in Elements(cs)
        BY <1>1
    <2> QED
        BY <1>2, <2>2, <2>3 DEF MarkedIn
<1> QED
    BY <1>5

LEMMA ReceiveMarkedEffect ==
    ASSUME TypeInv, NEW i \in DOMAIN calls, ReceiveMarked(i)
    PROVE  /\ store' \in Stores(Known(Published), Published) /\ SameView(store', store)
           /\ calls' \in Seq(Calls(Published))
           /\ \A c \in Elements(calls') : MarkedIn(calls, c)
<1>0. store \in Stores(Known(Published), Published) /\ calls \in Seq(Calls(Published))
    BY TypeFacts
<1>1. store' \in Stores(Known(Published), Published) /\ SameView(store', store)
    BY <1>0, SmallUpdates DEF ReceiveMarked
<1> DEFINE T == {j \in DOMAIN calls : calls[j].answer \in {Pending, Failed}}
           cs == [j \in DOMAIN calls |-> IF j \in T THEN calls[j]
                                         ELSE [calls[j] EXCEPT !.unmarked = TRUE]]
<1>2. calls' = Taken(cs, i)
    <2>1. cs = [j \in DOMAIN calls |-> IF calls[j].answer \in {Pending, Failed} THEN calls[j]
                                       ELSE [calls[j] EXCEPT !.unmarked = TRUE]]
        OBVIOUS
    <2> QED
        BY <2>1 DEF ReceiveMarked
<1>3. i \in DOMAIN cs
    OBVIOUS
<1>4. cs \in Seq(Calls(Published))
    <2> HIDE DEF T
    <2> QED
        BY <1>0, MarkedCalls
<1>5. \A c \in Elements(cs) : MarkedIn(calls, c)
    <2> HIDE DEF T
    <2> QED
        BY <1>0, <1>4, MarkingElements
<1> HIDE DEF cs
<1>6. calls' \in Seq(Calls(Published)) /\ Elements(calls') \subseteq Elements(cs)
    BY <1>2, <1>3, <1>4, TakenProperties
<1> QED
    BY <1>1, <1>5, <1>6

LEMMA ReceiveFailureEffect ==
    ASSUME TypeInv, NEW i \in DOMAIN calls, ReceiveFailure(i)
    PROVE  /\ store' \in Stores(Known(Published), Published)
           /\ store'.events = store.events /\ store'.view = store.view
           /\ store'.websocketRevision = store.websocketRevision
           /\ IF calls[i].kind \in {"page", "more"} THEN store'.error = LoadError
              ELSE store'.error = store.error
           /\ calls' \in Seq(Calls(Published)) /\ Elements(calls') \subseteq Elements(calls)
           /\ \A j \in DOMAIN calls : j # i => calls[j] \in Elements(calls')
<1> DEFINE T == Stores(Known(Published), Published)
           failed == SetError(store, LoadError)
<1>0. store \in T /\ calls \in Seq(Calls(Published))
    BY TypeFacts
<1>1. /\ calls' = Taken(calls, i)
      /\ store' = IF calls[i].kind \in {"page", "more"} THEN SetLoading(failed, FALSE) ELSE store
    BY DEF ReceiveFailure
<1>2. /\ failed \in T /\ failed.events = store.events /\ failed.view = store.view
      /\ failed.websocketRevision = store.websocketRevision /\ failed.error = LoadError
    BY <1>0, ErrorUpdate
<1> HIDE DEF failed
<1>3. SetLoading(failed, FALSE) \in T /\ SameView(SetLoading(failed, FALSE), failed)
    BY <1>2, SmallUpdates
<1>4. /\ store' \in T /\ store'.events = store.events /\ store'.view = store.view
      /\ store'.websocketRevision = store.websocketRevision
      /\ IF calls[i].kind \in {"page", "more"} THEN store'.error = LoadError
         ELSE store'.error = store.error
    BY <1>0, <1>1, <1>2, <1>3 DEF SameView
<1> QED
    BY <1>0, <1>1, <1>4, TakenProperties

(* What is made of a websocket message.                                    *)
LEMMA DeliverEffect ==
    ASSUME TypeInv, NEW m \in wire, Deliver(m)
    PROVE  /\ m.event \in Known(Published) /\ m.seq \in 1 .. clock
           /\ m.kind \in {"new", "updated"} /\ (m.kind = "new" => m.event.version = 0)
           /\ store' \in Stores(Known(Published), Published)
           /\ store'.view = store.view /\ store'.error = store.error
           /\ m.kind = "new" /\ m.event.id \in IdsOf(store.events) =>
                /\ store'.events = store.events
                /\ store'.websocketRevision = store.websocketRevision
           /\ m.kind = "new" /\ m.event.id \notin IdsOf(store.events) =>
                /\ store'.events = <<m.event>> \o store.events
                /\ store'.websocketRevision = store.websocketRevision + 1
           /\ m.kind = "updated" =>
                /\ store'.events = <<Merged(m.event, store.events)>> \o Without(store.events, m.event.id)
                /\ store'.websocketRevision = store.websocketRevision + 1
           /\ calls' \in Seq(Calls(Published))
           /\ \A c \in Elements(calls') : MarkedIn(calls, c)
           /\ \A c \in Elements(calls') :
                c.answer \in {Pending, Failed} \/ c.answer.at >= m.seq \/ c.overtaken
<1> DEFINE S == Stores(Known(Published), Published)
           applied == IF m.kind = "new" THEN ReceivedNewEvent(store, m.event)
                      ELSE ReceivedUpdatedEvent(store, m.event)
<1>0. /\ store \in S /\ calls \in Seq(Calls(Published))
      /\ m.event \in Known(Published) /\ m.seq \in 1 .. clock
      /\ m.kind \in {"new", "updated"} /\ (m.kind = "new" => m.event.version = 0)
    BY TypeFacts DEF TypeInv, WireTypes
<1>1. store' = ReceivedUnreadEvent(applied, m.event)
    BY DEF Deliver
<1>2. /\ applied \in S /\ applied.view = store.view /\ applied.error = store.error
      /\ m.kind = "new" /\ m.event.id \in IdsOf(store.events) =>
           /\ applied.events = store.events
           /\ applied.websocketRevision = store.websocketRevision
      /\ m.kind = "new" /\ m.event.id \notin IdsOf(store.events) =>
           /\ applied.events = <<m.event>> \o store.events
           /\ applied.websocketRevision = store.websocketRevision + 1
      /\ m.kind = "updated" =>
           /\ applied.events = <<Merged(m.event, store.events)>> \o Without(store.events, m.event.id)
           /\ applied.websocketRevision = store.websocketRevision + 1
    <2> HIDE DEF S
    <2>1. CASE m.kind = "new"
        <3>1. applied = ReceivedNewEvent(store, m.event)
            BY <2>1
        <3> QED
            BY <1>0, <2>1, <3>1, NewEventUpdate DEF S
    <2>2. CASE m.kind = "updated"
        <3>1. applied = ReceivedUpdatedEvent(store, m.event)
            BY <2>2
        <3> QED
            BY <1>0, <2>2, <3>1, UpdatedEventUpdate DEF S
    <2> QED
        BY <1>0, <2>1, <2>2
<1>3. m.event.id \in Published
    BY <1>0, KnownFields
<1> HIDE DEF applied
<1>4. store' \in S /\ SameView(store', applied)
    BY <1>1, <1>2, <1>3, UnreadEventUpdate
<1> DEFINE T == {j \in DOMAIN calls : calls[j].answer \in {Pending, Failed}
                                      \/ calls[j].answer.at >= m.seq}
           cs == [j \in DOMAIN calls |-> IF j \in T THEN calls[j]
                                         ELSE [calls[j] EXCEPT !.overtaken = TRUE]]
<1>5. calls' = cs
    BY DEF Deliver
<1>6. calls' \in Seq(Calls(Published)) /\ \A c \in Elements(calls') : MarkedIn(calls, c)
    <2> HIDE DEF T
    <2>1. cs \in Seq(Calls(Published))
        BY <1>0, MarkedCalls
    <2> QED
        BY <1>0, <1>5, <2>1, MarkingElements
<1>7. ASSUME NEW j \in DOMAIN calls'
      PROVE  LET c == calls'[j] IN
             c.answer \in {Pending, Failed} \/ c.answer.at >= m.seq \/ c.overtaken
    <2>1. j \in DOMAIN calls
        BY <1>5
    <2>2. CASE j \in T
        <3>1. calls'[j] = calls[j]
            BY <1>5, <2>1, <2>2
        <3> QED
            BY <2>2, <3>1
    <2>3. CASE j \notin T
        <3>1. calls'[j] = [calls[j] EXCEPT !.overtaken = TRUE]
            BY <1>5, <2>1, <2>3
        <3>2. calls[j] \in Calls(Published)
            BY <2>1, TypeFacts
        <3>3. calls'[j].overtaken
            BY <3>1, <3>2 DEF Calls, Requests
        <3> QED
            BY <3>3
    <2> QED
        BY <2>2, <2>3
<1>8. \A c \in Elements(calls') :
        c.answer \in {Pending, Failed} \/ c.answer.at >= m.seq \/ c.overtaken
    BY <1>7 DEF Elements
<1> HIDE DEF S
<1> QED
    BY <1>0, <1>2, <1>4, <1>6, <1>8 DEF S, SameView

LEMMA HydrateEffect ==
    ASSUME TypeInv, NEW p \in Parents, Hydrate(p)
    PROVE  /\ store' \in Stores(Known(Published), Published)
           /\ store'.view = p.context /\ p.context \in Contexts
           /\ store'.websocketRevision = store.websocketRevision
           /\ ghost' = [ghost EXCEPT !.behind = TRUE, !.shifted = TRUE]
<1>0. /\ store \in Stores(Known(Published), Published) /\ p.context \in Contexts
      /\ p.known => p.state \in Stores(Known(Published), Published)
    BY TypeFacts, ParentsAssumption DEF TypeInv, StoreTypes
<1>1. CASE p.known
    <2>1. store' = HydratePopoutState(SetViewContext(store, p.context), p.state, p.context)
        BY <1>1 DEF Hydrate
    <2>2. p.state \in Stores(Known(Published), Published)
        BY <1>0, <1>1
    <2>3. /\ store' \in Stores(Known(Published), Published) /\ store'.view = p.context
          /\ store'.websocketRevision = store.websocketRevision
        <3> DEFINE E == Known(Published)
                   P == Published
        <3> HIDE DEF E, P
        <3>1. store \in Stores(E, P) /\ p.state \in Stores(E, P) /\ p.context \in Contexts
            BY <1>0, <2>2 DEF E, P
        <3>2. /\ store' \in Stores(E, P) /\ store'.view = p.context
              /\ store'.websocketRevision = store.websocketRevision
            BY <2>1, <3>1 DEF SetViewContext, HydratePopoutState, Stores
        <3> QED
            BY <3>2 DEF E, P
    <2> QED
        BY <1>0, <2>3 DEF Hydrate
<1>2. CASE ~p.known
    <2>1. store' = SetViewContext(store, p.context)
        BY <1>2 DEF Hydrate
    <2> QED
        BY <1>0, <2>1 DEF SetViewContext, Stores, Hydrate
<1> QED
    BY <1>1, <1>2 DEF Hydrate

LEMMA ReceiveTypes ==
    ASSUME TypeInv, NEW i \in DOMAIN calls, Receive(i)
    PROVE  TypeInv'
<1>0. /\ unread \subseteq Published /\ host \in Views /\ icon \in Views /\ rhs \in Sidebars
      /\ ghost \in Ghosts /\ calls[i] \in Calls(Published)
    BY TypeFacts
<1>1. CASE ReceiveEvents(i)
    <2>1. /\ store' \in Stores(Known(Published), Published) /\ calls' \in Seq(Calls(Published))
          /\ calls[i].answer \in Answers(Published)
        BY <1>1, ReceiveEventsEffect
    <2>2. calls[i].context \in Views /\ calls[i].filter \in Filters /\ calls[i].answer.at \in Nat
          /\ calls[i].overtaken \in BOOLEAN /\ calls[i].unmarked \in BOOLEAN
        BY <1>0, <2>1, CallFields DEF Answers, Views
    <2>3. ghost' \in Ghosts
        <3>1. CASE calls[i].kind = "more"
            <4> DEFINE b == ghost.shifted \/ ~(/\ calls[i].context = ghost.context
                             /\ calls[i].filter = ghost.filter /\ calls[i].filter # UnreadOnly
                             /\ calls[i].answer.at = ghost.at
                             /\ calls[i].offset = Len(store.events)
                             /\ ghost.pushed = {}
                             /\ ~ghost.behind)
            <4>1. ghost' = [ghost EXCEPT !.shifted = b]
                BY <1>1, <3>1 DEF ReceiveEvents
            <4>2. b \in BOOLEAN
                BY <1>0 DEF Ghosts
            <4> HIDE DEF b
            <4> QED
                BY <1>0, <4>1, <4>2 DEF Ghosts
        <3>2. CASE calls[i].kind # "more"
            <4> DEFINE b == ghost.miscounted \/ calls[i].overtaken \/ calls[i].unmarked
            <4>1. ghost' = [context |-> calls[i].context, filter |-> calls[i].filter,
                            at |-> calls[i].answer.at, behind |-> calls[i].overtaken,
                            shifted |-> FALSE, pushed |-> {}, miscounted |-> b]
                BY <1>1, <3>2 DEF ReceiveEvents
            <4>2. b \in BOOLEAN
                BY <1>0, <2>2 DEF Ghosts
            <4> HIDE DEF b
            <4> QED
                BY <2>2, <4>1, <4>2 DEF Ghosts
        <3> QED
            BY <3>1, <3>2
    <2>4. UNCHANGED <<host, rhs, icon, server, wire>>
        BY <1>1 DEF ReceiveEvents
    <2> QED
        BY <1>0, <2>1, <2>3, <2>4, ClientTypes DEF server
<1>2. CASE ReceiveUnread(i)
    <2>1. store' \in Stores(Known(Published), Published) /\ calls' \in Seq(Calls(Published))
        BY <1>2, ReceiveUnreadEffect
    <2>2. ghost' \in Ghosts
        <3> DEFINE b == ghost.miscounted \/ calls[i].overtaken \/ calls[i].unmarked
        <3>1. ghost' = [ghost EXCEPT !.miscounted = b]
            BY <1>2 DEF ReceiveUnread
        <3>2. b \in BOOLEAN
            BY <1>0, CallFields DEF Ghosts
        <3> HIDE DEF b
        <3> QED
            BY <1>0, <3>1, <3>2 DEF Ghosts
    <2> QED
        BY <1>0, <1>2, <2>1, <2>2, ClientTypes DEF ReceiveUnread, server
<1>3. CASE ReceiveMarked(i)
    <2>1. store' \in Stores(Known(Published), Published) /\ calls' \in Seq(Calls(Published))
        BY <1>3, ReceiveMarkedEffect
    <2> QED
        BY <1>0, <1>3, <2>1, ClientTypes DEF ReceiveMarked, server
<1>4. CASE ReceiveFailure(i)
    <2>1. store' \in Stores(Known(Published), Published) /\ calls' \in Seq(Calls(Published))
        BY <1>4, ReceiveFailureEffect
    <2>2. ghost' \in Ghosts
        <3> DEFINE b == ghost.miscounted \/ calls[i].kind = "mark"
        <3>1. ghost' = [ghost EXCEPT !.miscounted = b]
            BY <1>4 DEF ReceiveFailure
        <3>2. b \in BOOLEAN
            BY <1>0 DEF Ghosts
        <3> HIDE DEF b
        <3> QED
            BY <1>0, <3>1, <3>2 DEF Ghosts
    <2> QED
        BY <1>0, <1>4, <2>1, <2>2, ClientTypes DEF ReceiveFailure, server
<1> QED
    BY <1>1, <1>2, <1>3, <1>4 DEF Receive

LEMMA DeliverTypes ==
    ASSUME TypeInv, NEW m \in wire, Deliver(m)
    PROVE  TypeInv'
<1>0. /\ unread \subseteq Published /\ host \in Views /\ icon \in Views /\ rhs \in Sidebars
      /\ ghost \in Ghosts /\ IsFeed(feed)
    BY TypeFacts
<1>1. /\ store' \in Stores(Known(Published), Published) /\ calls' \in Seq(Calls(Published))
      /\ m.event \in Known(Published)
    BY DeliverEffect
<1>2. UNCHANGED <<host, rhs, icon, feed, unread, clock>> /\ wire' = wire \ {m}
    BY DEF Deliver, server
<1>3. ghost' \in Ghosts
    <2> DEFINE listed == {store.events[k].version :
                            k \in {j \in DOMAIN store.events : store.events[j].id = m.event.id}}
               pushed == ghost.pushed \union {m.event.id}
               b == ghost.behind \/ (m.kind = "updated" /\ \E v \in listed : v > m.event.version)
               c == ghost.miscounted \/ \E v \in listed : v >= m.event.version
    <2>1. ghost' = [ghost EXCEPT !.pushed = pushed, !.behind = b, !.miscounted = c]
        BY DEF Deliver
    <2>2. pushed \subseteq Nat
        BY <1>0, <1>1, KnownFields DEF Ghosts
    <2>3. b \in BOOLEAN /\ c \in BOOLEAN
        BY <1>0 DEF Ghosts
    <2> HIDE DEF pushed, b, c
    <2> QED
        BY <1>0, <2>1, <2>2, <2>3 DEF Ghosts
<1>4. Published' = Published
    BY <1>2 DEF Published
<1>5. ServerTypes' /\ StoreTypes'
    BY <1>1, <1>2, <1>4 DEF TypeInv, ServerTypes, StoreTypes
<1>6. WireTypes'
    BY <1>2, <1>4 DEF TypeInv, WireTypes
<1> QED
    BY <1>0, <1>1, <1>2, <1>3, <1>4, <1>5, <1>6 DEF TypeInv

LEMMA HydrateTypes ==
    ASSUME TypeInv, NEW p \in Parents, Hydrate(p)
    PROVE  TypeInv'
<1>0. /\ unread \subseteq Published /\ host \in Views /\ icon \in Views /\ rhs \in Sidebars
      /\ ghost \in Ghosts /\ calls \in Seq(Calls(Published))
    BY TypeFacts
<1>1. store' \in Stores(Known(Published), Published)
    BY HydrateEffect
<1>2. ghost' \in Ghosts
    BY <1>0, HydrateEffect DEF Ghosts
<1> QED
    BY <1>0, <1>1, <1>2, ClientTypes DEF Hydrate, server

LEMMA TypesAreKept ==
    ASSUME TypeInv, [Next]_vars
    PROVE  TypeInv'
<1>1. CASE UserStep
    BY <1>1, UserTypes
<1>2. CASE ServerStep
    <2>1. ASSUME NEW p \in Publications, Publish(p) PROVE TypeInv'
        BY <2>1, PublishTypes
    <2>2. ASSUME NEW i \in DOMAIN feed, NEW l \in Looks, Update(i, l) PROVE TypeInv'
        BY <2>2, UpdateTypes
    <2>3. ASSUME NEW i \in DOMAIN calls, Serve(i) PROVE TypeInv'
        BY <2>3, ServeTypes
    <2> QED
        BY <1>2, <2>1, <2>2, <2>3 DEF ServerStep
<1>3. CASE RefreshUnread
    BY <1>3, RefreshTypes
<1>4. CASE Effects
    BY <1>4, EffectTypes
<1>5. ASSUME NEW i \in DOMAIN calls, Fail(i) PROVE TypeInv'
    BY <1>5, FailTypes
<1>6. ASSUME NEW i \in DOMAIN calls, Receive(i) PROVE TypeInv'
    BY <1>6, ReceiveTypes
<1>7. ASSUME NEW m \in wire, Deliver(m) PROVE TypeInv'
    BY <1>7, DeliverTypes
<1>8. ASSUME NEW p \in Parents, Hydrate(p) PROVE TypeInv'
    BY <1>8, HydrateTypes
<1>9. CASE UNCHANGED vars
    <2>1. /\ IsFeed(feed) /\ unread \subseteq Published
          /\ store \in Stores(Known(Published), Published)
          /\ host \in Views /\ icon \in Views /\ rhs \in Sidebars
          /\ calls \in Seq(Calls(Published)) /\ ghost \in Ghosts
        BY TypeFacts
    <2> QED
        BY <1>9, <2>1, ClientTypes DEF vars
<1> QED
    BY <1>1, <1>2, <1>3, <1>4, <1>5, <1>6, <1>7, <1>8, <1>9 DEF Next

(* Nothing is listed, counted, on its way or to be marked that was never   *)
(* published, whatever the order of answers, messages and a parent's state *)
(* (reducer.ts, actions.ts).                                               *)
THEOREM TypeCorrect == Spec => []TypeOK
<1>1. Init => TypeInv
    BY InitialTypes
<1>2. TypeInv /\ [Next]_vars => TypeInv'
    BY TypesAreKept
<1>3. TypeInv => TypeOK
    <2> SUFFICES ASSUME TypeInv PROVE TypeOK
        OBVIOUS
    <2>1. /\ store \in Stores(Known(Published), Published)
          /\ host \in Views /\ icon \in Views /\ rhs \in Sidebars
          /\ unread \subseteq Published
          /\ \A i \in DOMAIN calls : calls[i] \in Calls(Published)
        BY TypeFacts
    <2>2. /\ store.events \in Seq(Known(Published)) /\ store.total \in Nat
          /\ store.isLoading \in BOOLEAN /\ store.error \in {NoError, LoadError}
          /\ store.newEventIds \subseteq Published /\ store.updatedEventIds \subseteq Published
          /\ store.unread \in [Contexts -> SUBSET Published] /\ store.view \in Views
        BY <2>1, StoreFields
    <2>3. IdsOf(store.events) \subseteq Published
        BY <2>2, IdsAreKnown
    <2>4. UNION {store.unread[c] : c \in Contexts} \subseteq Published
        BY <2>2
    <2>5. rhs.mounted \in BOOLEAN /\ rhs.filter \in Filters
        BY <2>1, SidebarFields
    <2>6. \A i \in DOMAIN calls :
           /\ calls[i].kind \in {"page", "more", "refresh", "mark"}
           /\ calls[i].context \in Contexts /\ calls[i].ids \subseteq Published
           /\ calls[i].kind = "mark" => calls[i].ids # {}
        BY <2>1, CallFields
    <2> QED
        BY <2>1, <2>2, <2>3, <2>4, <2>5, <2>6 DEF TypeOK, Views
<1> QED
    BY <1>1, <1>2, <1>3, PTL DEF Spec

-----------------------------------------------------------------------------
(* The steps, by what they do to the list                                  *)

(* A request of before the step; nothing is made of an answer but to note  *)
(* that something overtook it.                                             *)
OldCall(c) ==
    \E d \in InFlight :
        /\ c.kind = d.kind /\ c.context = d.context /\ c.filter = d.filter /\ c.offset = d.offset
        /\ c.answer \in {Pending, Failed} \/ (c.answer = d.answer /\ (d.overtaken => c.overtaken))

NewCall(c) ==
    /\ c.answer = Pending
    /\ c.kind = "page" => /\ Effects /\ FetchDue /\ Current.team # NoTeam
                          /\ c.context = Current /\ c.filter = rhs.filter /\ c.offset = 0

ServedCall(c) ==
    \E i \in DOMAIN calls :
        /\ Serve(i)
        /\ c = [calls[i] EXCEPT !.answer =
                    Answer(FeedFor(feed, unread, calls[i].context, calls[i].filter), calls[i].offset)]

LEMMA OldCalls ==
    ASSUME Elements(calls') \subseteq Elements(calls)
    PROVE  \A c \in InFlight' : OldCall(c)
BY DEF InFlight, OldCall

LEMMA MarkedOldCalls ==
    ASSUME \A c \in Elements(calls') : MarkedIn(calls, c)
    PROVE  \A c \in InFlight' : OldCall(c)
BY DEF InFlight, OldCall, MarkedIn

LEMMA RequestsKept ==
    ASSUME TypeInv, [Next]_vars
    PROVE  \A c \in InFlight' : OldCall(c) \/ NewCall(c) \/ ServedCall(c)
<1>0. /\ calls \in Seq(Calls(Published)) /\ Current \in Views
      /\ \A i \in DOMAIN calls : calls[i] \in Calls(Published) /\ calls[i] \in Elements(calls)
      /\ Current.team # NoTeam => Current \in Contexts
      /\ rhs \in Sidebars /\ store.events \in Seq(Known(Published))
    BY TypeFacts DEF Elements
<1> DEFINE Kept == \A c \in InFlight' : OldCall(c) \/ NewCall(c) \/ ServedCall(c)
<1>1. CASE UserStep
    <2>1. CASE Close
        <3>1. Elements(calls') \subseteq Elements(calls)
            BY <1>0, <2>1, AbortProperties DEF Close
        <3> QED
            BY <3>1, OldCalls
    <2>2. CASE LoadMore
        <3> DEFINE new == Call("more", Current, rhs.filter, Len(store.events), {})
        <3>1. Current \in Contexts /\ rhs.filter \in Filters /\ Len(store.events) \in Nat
            BY <1>0, <2>2, SidebarFields, LenProperties DEF LoadMore
        <3>2. new \in Calls(Published)
            BY <3>1, CallType
        <3>3. calls' = Append(calls, new)
            BY <2>2 DEF LoadMore
        <3>4. new.kind = "more" /\ new.answer = Pending
            BY DEF Call
        <3> HIDE DEF new
        <3>5. Elements(calls') = Elements(calls) \union {new}
            BY <1>0, <3>2, <3>3, AppendElements
        <3>6. NewCall(new)
            BY <3>4 DEF NewCall
        <3>7. \A c \in Elements(calls) : OldCall(c)
            BY DEF OldCall, InFlight
        <3> QED
            BY <3>5, <3>6, <3>7 DEF InFlight
    <2>3. CASE calls' = calls
        BY <2>3, OldCalls
    <2> QED
        BY <1>1, <2>1, <2>2, <2>3 DEF UserStep, SelectContext, Open, SetFilter, Retype, AnimationEnd
<1>2. CASE ServerStep
    <2>1. CASE calls' = calls
        BY <2>1, OldCalls
    <2>2. ASSUME NEW i \in DOMAIN calls, Serve(i) PROVE Kept
        <3> DEFINE a == Answer(FeedFor(feed, unread, calls[i].context, calls[i].filter), calls[i].offset)
        <3>1. a \in Answers(Published) /\ calls' = [calls EXCEPT ![i].answer = a]
            BY <2>2, ServeTypes
        <3>2. DOMAIN calls' = DOMAIN calls /\ calls'[i] = [calls[i] EXCEPT !.answer = a]
              /\ \A j \in DOMAIN calls : j # i => calls'[j] = calls[j]
            <4> HIDE DEF a
            <4> QED
                BY <1>0, <3>1, AnsweredCall
        <3>3. ServedCall(calls'[i])
            BY <2>2, <3>2 DEF ServedCall
        <3> HIDE DEF a
        <3>4. \A c \in Elements(calls) : OldCall(c)
            BY DEF OldCall, InFlight
        <3> QED
            BY <1>0, <3>2, <3>3, <3>4 DEF InFlight, Elements
    <2> QED
        BY <1>2, <2>1, <2>2 DEF ServerStep, Publish, Update
<1>3. CASE RefreshUnread
    <2>1. CASE Current.team = NoTeam
        BY <1>3, <2>1, OldCalls DEF RefreshUnread
    <2>2. CASE Current.team # NoTeam
        <3> DEFINE new == Call("refresh", Current, NoFilter, 0, {})
        <3>1. Current \in Contexts /\ NoFilter \in Filters
            BY <1>0, <2>2 DEF Filters
        <3>2. new \in Calls(Published)
            BY <3>1, CallType
        <3>3. calls' = Append(calls, new)
            BY <1>3, <2>2 DEF RefreshUnread
        <3>4. new.kind = "refresh" /\ new.answer = Pending
            BY DEF Call
        <3> HIDE DEF new
        <3>5. Elements(calls') = Elements(calls) \union {new}
            BY <1>0, <3>2, <3>3, AppendElements
        <3>6. NewCall(new)
            BY <3>4 DEF NewCall
        <3>7. \A c \in Elements(calls) : OldCall(c)
            BY DEF OldCall, InFlight
        <3> QED
            BY <3>5, <3>6, <3>7 DEF InFlight
    <2> QED
        BY <2>1, <2>2
<1>4. CASE Effects
    <2> DEFINE page == Call("page", Current, rhs.filter, 0, {})
               mark == Call("mark", store.view, NoFilter, 0, ToMark)
    <2>1. /\ page.context = Current /\ page.filter = rhs.filter /\ page.offset = 0
          /\ page.answer = Pending /\ mark.answer = Pending /\ mark.kind = "mark"
        BY DEF Call
    <2>2. \A c \in Elements(calls') :
            \/ c \in Elements(calls) /\ (FetchDue => c.kind # "page")
            \/ FetchDue /\ Current.team # NoTeam /\ c = page
            \/ c = mark
        BY <1>4, EffectCalls
    <2> HIDE DEF page, mark
    <2>3. NewCall(mark) /\ (FetchDue /\ Current.team # NoTeam => NewCall(page))
        BY <1>4, <2>1 DEF NewCall
    <2>4. \A c \in Elements(calls) : OldCall(c)
        BY DEF OldCall, InFlight
    <2> QED
        BY <2>2, <2>3, <2>4 DEF InFlight
<1>5. ASSUME NEW i \in DOMAIN calls, Fail(i) PROVE Kept
    <2>1. DOMAIN calls' = DOMAIN calls /\ calls'[i] = [calls[i] EXCEPT !.answer = Failed]
          /\ \A j \in DOMAIN calls : j # i => calls'[j] = calls[j]
        BY <1>0, <1>5, AnsweredCall DEF Fail
    <2>2. calls[i] \in Calls(Published)
        BY <1>0
    <2>3. /\ calls'[i].kind = calls[i].kind /\ calls'[i].context = calls[i].context
          /\ calls'[i].filter = calls[i].filter /\ calls'[i].offset = calls[i].offset
          /\ calls'[i].answer = Failed
        BY <2>1, <2>2 DEF Calls, Requests
    <2>4. OldCall(calls'[i])
        BY <1>0, <2>3 DEF OldCall, InFlight
    <2>5. \A c \in Elements(calls) : OldCall(c)
        BY DEF OldCall, InFlight
    <2> QED
        BY <1>0, <2>1, <2>4, <2>5 DEF InFlight, Elements
<1>6. ASSUME NEW i \in DOMAIN calls, Receive(i) PROVE Kept
    <2>1. CASE ReceiveEvents(i)
        BY <2>1, ReceiveEventsEffect, OldCalls
    <2>2. CASE ReceiveUnread(i)
        BY <2>2, ReceiveUnreadEffect, OldCalls
    <2>3. CASE ReceiveMarked(i)
        BY <2>3, ReceiveMarkedEffect, MarkedOldCalls
    <2>4. CASE ReceiveFailure(i)
        BY <2>4, ReceiveFailureEffect, OldCalls
    <2> QED
        BY <1>6, <2>1, <2>2, <2>3, <2>4 DEF Receive
<1>7. ASSUME NEW m \in wire, Deliver(m) PROVE Kept
    BY <1>7, DeliverEffect, MarkedOldCalls
<1>8. ASSUME NEW p \in Parents, Hydrate(p) PROVE Kept
    <2>1. calls' = calls
        BY <1>8 DEF Hydrate
    <2> QED
        BY <2>1, OldCalls
<1>9. CASE UNCHANGED vars
    <2>1. calls' = calls
        BY <1>9 DEF vars
    <2> QED
        BY <2>1, OldCalls
<1> QED
    BY <1>1, <1>2, <1>3, <1>4, <1>5, <1>6, <1>7, <1>8, <1>9 DEF Next

SameGhost ==
    /\ ghost'.context = ghost.context /\ ghost'.filter = ghost.filter /\ ghost'.at = ghost.at
    /\ ghost'.behind = ghost.behind /\ ghost'.shifted = ghost.shifted
    /\ ghost'.pushed = ghost.pushed

(* Nothing changes of the list and of what was asked for.                  *)
Quiet ==
    /\ SameView(store', store) /\ SameGhost /\ UNCHANGED <<feed, clock, wire>>
    /\ rhs'.deps = rhs.deps /\ rhs'.lastFilter = rhs.lastFilter
    /\ rhs'.lastRevision = rhs.lastRevision
    /\ PageAsked => PageAsked'

(* The effect has to ask again.                                            *)
Unfetched ==
    /\ UNCHANGED <<store, ghost, feed, clock, wire>>
    /\ rhs'.deps = << >>
    /\ \/ /\ rhs'.lastFilter = << >> /\ rhs'.lastRevision = 0
          /\ \A c \in InFlight' : c.kind # "page"
       \/ /\ rhs'.lastFilter = rhs.lastFilter /\ rhs'.lastRevision = rhs.lastRevision
          /\ UNCHANGED calls

PublishesStep ==
    /\ UNCHANGED <<store, rhs, calls, ghost>>
    /\ \/ \E p \in Publications : Publish(p)
       \/ \E i \in DOMAIN feed, l \in Looks : Update(i, l)

LEMMA GhostFields ==
    ASSUME ghost \in Ghosts
    PROVE  /\ ghost.context \in Views /\ ghost.filter \in Filters /\ ghost.at \in Nat
           /\ ghost.behind \in BOOLEAN /\ ghost.shifted \in BOOLEAN /\ ghost.pushed \subseteq Nat
           /\ \A b : LET g == [ghost EXCEPT !.miscounted = b] IN
                /\ g.context = ghost.context /\ g.filter = ghost.filter /\ g.at = ghost.at
                /\ g.behind = ghost.behind /\ g.shifted = ghost.shifted
                /\ g.pushed = ghost.pushed
BY DEF Ghosts

LEMMA SidebarStartsKept ==
    ASSUME TypeInv, SidebarStarts, [Next]_vars
    PROVE  SidebarStarts'
<1>0. rhs \in Sidebars
    BY TypeFacts
<1>1. CASE rhs' = rhs
    BY <1>1 DEF SidebarStarts
<1>2. CASE Open
    <2>1. rhs'.mounted = TRUE
        BY <1>2 DEF Open, Unmounted
    <2> QED
        BY <2>1 DEF SidebarStarts
<1>3. CASE Close
    BY <1>3 DEF Close, SidebarStarts
<1>4. CASE (\E f \in Filters : SetFilter(f)) \/ Retype \/ Effects
    <2>1. rhs.mounted
        BY <1>4 DEF SetFilter, Retype, Effects, EffectsDue, FetchDue, MarkDue
    <2>2. rhs'.mounted = rhs.mounted
        BY ZenonT(40), <1>0, <1>4 DEF SetFilter, Retype, Effects, Sidebars
    <2> QED
        BY <2>1, <2>2 DEF SidebarStarts
<1>5. ASSUME NEW i \in DOMAIN calls, Fail(i) \/ Receive(i) \/ Serve(i) PROVE rhs' = rhs
    BY <1>5 DEF Fail, Receive, ReceiveEvents, ReceiveUnread, ReceiveMarked, ReceiveFailure, Serve
<1>6. ASSUME NEW m \in wire, Deliver(m) PROVE rhs' = rhs
    BY <1>6 DEF Deliver
<1>7. ASSUME NEW p \in Parents, Hydrate(p) PROVE rhs' = rhs
    BY <1>7 DEF Hydrate
<1>8. UserStep => rhs' = rhs \/ Open \/ Close \/ (\E f \in Filters : SetFilter(f)) \/ Retype
    BY DEF UserStep, SelectContext, LoadMore, AnimationEnd
<1>9. ServerStep => rhs' = rhs
    BY <1>5 DEF ServerStep, Publish, Update
<1>10. RefreshUnread => rhs' = rhs
    BY DEF RefreshUnread
<1> QED
    BY <1>1, <1>2, <1>3, <1>4, <1>5, <1>6, <1>7, <1>8, <1>9, <1>10 DEF Next, vars

LEMMA Steps ==
    ASSUME TypeInv, SidebarStarts, [Next]_vars
    PROVE  \/ Quiet
           \/ Unfetched
           \/ Effects /\ FetchDue
           \/ PublishesStep
           \/ \E i \in DOMAIN calls : ReceiveEvents(i)
           \/ \E i \in DOMAIN calls : ReceiveFailure(i) /\ calls[i].kind \in {"page", "more"}
           \/ \E m \in wire : Deliver(m)
           \/ \E p \in Parents : Hydrate(p)
<1>0. /\ calls \in Seq(Calls(Published)) /\ store \in Stores(Known(Published), Published)
      /\ \A i \in DOMAIN calls : calls[i] \in Calls(Published) /\ calls[i] \in Elements(calls)
      /\ rhs \in Sidebars /\ ghost \in Ghosts
      /\ store.events \in Seq(Known(Published))
      /\ Current.team # NoTeam => Current \in Contexts
    BY TypeFacts DEF Elements
<1>a. (Elements(calls) \subseteq Elements(calls')) => (PageAsked => PageAsked')
    BY DEF PageAsked, InFlight
<1>b. SameView(store, store)
    BY DEF SameView
<1>c. UNCHANGED ghost => SameGhost
    BY DEF SameGhost
<1>1. CASE UserStep
    <2>1. ASSUME NEW c \in Hosts, SelectContext(c) PROVE Quiet
        BY <2>1, <1>a, <1>b, <1>c DEF SelectContext, server, Quiet
    <2>2. CASE Open
        <3>1. rhs = Unmounted
            BY <2>2 DEF Open, SidebarStarts
        <3>2. rhs'.deps = << >> /\ rhs'.lastFilter = rhs.lastFilter /\ rhs'.lastRevision = rhs.lastRevision
            BY <2>2, <3>1 DEF Open, Unmounted
        <3> QED
            BY <2>2, <3>2 DEF Open, server, Unfetched
    <2>3. CASE Close
        <3>1. rhs'.deps = << >> /\ rhs'.lastFilter = << >> /\ rhs'.lastRevision = 0
            BY <2>3 DEF Close, Unmounted
        <3>2. \A c \in InFlight' : c.kind # "page"
            BY <1>0, <2>3, AbortProperties DEF Close, InFlight
        <3> QED
            BY <2>3, <3>1, <3>2 DEF Close, server, Unfetched
    <2>4. ASSUME NEW f \in Filters, SetFilter(f) PROVE Quiet
        <3>1. rhs'.deps = rhs.deps /\ rhs'.lastFilter = rhs.lastFilter /\ rhs'.lastRevision = rhs.lastRevision
            BY <1>0, <2>4 DEF SetFilter, Sidebars
        <3> QED
            BY <2>4, <3>1, <1>a, <1>b, <1>c DEF SetFilter, server, Quiet
    <2>5. CASE Retype
        <3>1. rhs'.deps = << >> /\ rhs'.lastFilter = rhs.lastFilter /\ rhs'.lastRevision = rhs.lastRevision
            BY <1>0, <2>5 DEF Retype, Sidebars
        <3> QED
            BY <2>5, <3>1 DEF Retype, server, Unfetched
    <2>6. CASE LoadMore
        <3>1. SameView(store', store)
            BY <1>0, <2>6, SmallUpdates DEF LoadMore
        <3>2. Elements(calls) \subseteq Elements(calls')
            <4>1. Current \in Contexts /\ rhs.filter \in Filters /\ Len(store.events) \in Nat
                BY <1>0, <2>6, SidebarFields, LenProperties DEF LoadMore
            <4>2. Call("more", Current, rhs.filter, Len(store.events), {}) \in Calls(Published)
                BY <4>1, CallType
            <4> QED
                BY <1>0, <2>6, <4>2, AppendElements DEF LoadMore
        <3> QED
            BY <2>6, <3>1, <3>2, <1>a, <1>c DEF LoadMore, server, Quiet
    <2>7. ASSUME NEW id \in IdsOf(store.events), AnimationEnd(id) PROVE Quiet
        <3>1. SameView(store', store)
            BY <1>0, <2>7, SmallUpdates DEF AnimationEnd
        <3> QED
            BY <2>7, <3>1, <1>a, <1>c DEF AnimationEnd, server, Quiet
    <2> QED
        BY <1>1, <2>1, <2>2, <2>3, <2>4, <2>5, <2>6, <2>7 DEF UserStep
<1>2. ASSUME NEW i \in DOMAIN calls, Serve(i) PROVE Quiet
    <2> DEFINE a == Answer(FeedFor(feed, unread, calls[i].context, calls[i].filter), calls[i].offset)
    <2>1. a \in Answers(Published) /\ calls' = [calls EXCEPT ![i].answer = a]
        BY <1>2, ServeTypes
    <2> HIDE DEF a
    <2>2. DOMAIN calls' = DOMAIN calls /\ calls'[i] = [calls[i] EXCEPT !.answer = a]
          /\ \A j \in DOMAIN calls : j # i => calls'[j] = calls[j]
        BY <1>0, <2>1, AnsweredCall
    <2>3. \A j \in DOMAIN calls : calls'[j].kind = calls[j].kind
        BY ZenonT(40), <1>0, <2>2 DEF Calls, Requests
    <2>4. PageAsked => PageAsked'
        BY <2>2, <2>3 DEF PageAsked, InFlight, Elements
    <2> QED
        BY <1>2, <2>4, <1>b, <1>c DEF Serve, Quiet
<1>3. CASE ServerStep
    BY <1>2, <1>3 DEF ServerStep, PublishesStep, Publish, Update
<1>4. CASE RefreshUnread
    <2>1. Elements(calls) \subseteq Elements(calls')
        <3>1. CASE Current.team = NoTeam
            BY <1>4, <3>1 DEF RefreshUnread
        <3>2. CASE Current.team # NoTeam
            <4>1. Current \in Contexts /\ NoFilter \in Filters
                BY <1>0, <3>2 DEF Filters
            <4>2. Call("refresh", Current, NoFilter, 0, {}) \in Calls(Published)
                BY <4>1, CallType
            <4> QED
                BY <1>0, <1>4, <3>2, <4>2, AppendElements DEF RefreshUnread
        <3> QED
            BY <3>1, <3>2
    <2> QED
        BY <1>4, <2>1, <1>a, <1>b, <1>c DEF RefreshUnread, server, Quiet
<1>5. CASE Effects /\ ~FetchDue
    <2>1. rhs.deps = Deps
        BY <1>5 DEF Effects, EffectsDue, FetchDue, MarkDue
    <2>2. rhs'.deps = rhs.deps /\ rhs'.lastFilter = rhs.lastFilter /\ rhs'.lastRevision = rhs.lastRevision
        BY <1>0, <1>5, <2>1 DEF Effects, Sidebars
    <2>3. store' = store /\ Elements(calls) \subseteq Elements(calls')
        BY <1>5, EffectStore, EffectCalls
    <2>4. SameGhost
        <3>1. ghost' = [ghost EXCEPT !.miscounted = ghost.miscounted /\ ~MarkDue]
            BY <1>5 DEF Effects
        <3> QED
            BY <1>0, <3>1, GhostFields DEF SameGhost
    <2> QED
        BY <1>5, <2>2, <2>3, <2>4, <1>a, <1>b DEF Effects, server, Quiet
<1>6. ASSUME NEW i \in DOMAIN calls, Fail(i) PROVE Quiet
    <2>2. DOMAIN calls' = DOMAIN calls /\ calls'[i] = [calls[i] EXCEPT !.answer = Failed]
          /\ \A j \in DOMAIN calls : j # i => calls'[j] = calls[j]
        BY <1>0, <1>6, AnsweredCall DEF Fail
    <2>3. \A j \in DOMAIN calls : calls'[j].kind = calls[j].kind
        BY ZenonT(40), <1>0, <2>2 DEF Calls, Requests
    <2>4. PageAsked => PageAsked'
        BY <2>2, <2>3 DEF PageAsked, InFlight, Elements
    <2> QED
        BY <1>6, <2>4, <1>b, <1>c DEF Fail, server, Quiet
(* A request of another kind goes: those for pages stay.                   *)
<1>d. ASSUME NEW i \in DOMAIN calls, calls[i].kind # "page",
             \A j \in DOMAIN calls : j # i => calls[j] \in Elements(calls')
      PROVE  PageAsked => PageAsked'
    BY <1>d DEF PageAsked, InFlight, Elements
<1>7. ASSUME NEW i \in DOMAIN calls, ReceiveUnread(i) PROVE Quiet
    <2>1. /\ SameView(store', store) /\ calls[i].kind = "refresh"
          /\ \A j \in DOMAIN calls : j # i => calls[j] \in Elements(calls')
        BY <1>7, ReceiveUnreadEffect
    <2>2. SameGhost
        BY <1>0, <1>7, GhostFields DEF ReceiveUnread, SameGhost
    <2>3. PageAsked => PageAsked'
        BY <1>d, <2>1
    <2> QED
        BY <1>7, <2>1, <2>2, <2>3 DEF ReceiveUnread, server, Quiet
<1>8. ASSUME NEW i \in DOMAIN calls, ReceiveMarked(i) PROVE Quiet
    <2>1. SameView(store', store)
        BY <1>8, ReceiveMarkedEffect
    <2> DEFINE cs == [j \in DOMAIN calls |->
                        IF calls[j].answer \in {Pending, Failed} THEN calls[j]
                        ELSE [calls[j] EXCEPT !.unmarked = TRUE]]
    <2>2. calls' = Taken(cs, i) /\ calls[i].kind = "mark"
        BY <1>8 DEF ReceiveMarked
    <2>3. DOMAIN cs = DOMAIN calls /\ \A j \in DOMAIN calls : cs[j].kind = calls[j].kind
        BY <1>0 DEF Calls, Requests
    <2>4. cs \in Seq(Calls(Published))
        <3> DEFINE T == {j \in DOMAIN calls : calls[j].answer \in {Pending, Failed}}
        <3>1. cs = [j \in DOMAIN calls |-> IF j \in T THEN calls[j]
                                           ELSE [calls[j] EXCEPT !.unmarked = TRUE]]
            OBVIOUS
        <3> HIDE DEF T
        <3> QED
            BY <1>0, <3>1, MarkedCalls
    <2> HIDE DEF cs
    <2>5. \A j \in DOMAIN cs : j # i => cs[j] \in Elements(calls')
        BY <2>2, <2>3, <2>4, TakenProperties
    <2>6. PageAsked => PageAsked'
        BY <2>2, <2>3, <2>5 DEF PageAsked, InFlight, Elements
    <2> QED
        BY <1>8, <2>1, <2>6, <1>c DEF ReceiveMarked, server, Quiet
<1>9. ASSUME NEW i \in DOMAIN calls, ReceiveFailure(i), calls[i].kind \notin {"page", "more"}
      PROVE Quiet
    <2>1. \A j \in DOMAIN calls : j # i => calls[j] \in Elements(calls')
        BY <1>9, ReceiveFailureEffect
    <2>2. SameGhost
        BY <1>0, <1>9, GhostFields DEF ReceiveFailure, SameGhost
    <2>3. PageAsked => PageAsked'
        BY <1>9, <1>d, <2>1
    <2> QED
        BY <1>9, <2>2, <2>3, <1>b DEF ReceiveFailure, server, Quiet
<1>10. CASE UNCHANGED vars
    BY <1>10, <1>a, <1>b, <1>c DEF vars, Quiet
<1> QED
    BY <1>1, <1>3, <1>4, <1>5, <1>6, <1>7, <1>8, <1>9, <1>10 DEF Next, Receive

-----------------------------------------------------------------------------
(* No answer of another context                                            *)

LEMMA PagesStayAsked ==
    ASSUME TypeInv, SidebarStarts, PagesAreAsked, [Next]_vars
    PROVE  PagesAreAsked'
<1>0. /\ rhs \in Sidebars /\ calls \in Seq(Calls(Published))
    BY TypeFacts
<1>1. \A c \in InFlight' : OldCall(c) \/ NewCall(c) \/ ServedCall(c)
    BY RequestsKept
(* What a step other than the fetch leaves in flight was asked for before. *)
<1>2. ASSUME NEW c \in InFlight', c.kind = "page", ~(Effects /\ FetchDue)
      PROVE  \E d \in InFlight : /\ d.kind = "page" /\ d.context = c.context
                                 /\ d.filter = c.filter /\ d.offset = c.offset
    <2>1. ~NewCall(c)
        BY <1>2 DEF NewCall
    <2>2. CASE OldCall(c)
        BY <1>2, <2>2 DEF OldCall
    <2>3. CASE ServedCall(c)
        <3>1. PICK i \in DOMAIN calls : c = [calls[i] EXCEPT !.answer =
                Answer(FeedFor(feed, unread, calls[i].context, calls[i].filter), calls[i].offset)]
            BY <2>3 DEF ServedCall
        <3>2. calls[i] \in Calls(Published) /\ calls[i] \in InFlight
            BY TypeFacts DEF InFlight, Elements
        <3>3. c.kind = calls[i].kind /\ c.context = calls[i].context
              /\ c.filter = calls[i].filter /\ c.offset = calls[i].offset
            BY <3>1, <3>2 DEF Calls, Requests
        <3> QED
            BY <1>2, <3>2, <3>3
    <2> QED
        BY <1>1, <2>1, <2>2, <2>3
<1>3. ASSUME ~(Effects /\ FetchDue), rhs'.lastFilter = rhs.lastFilter,
             rhs'.deps = rhs.deps \/ rhs'.deps = << >>
      PROVE  PagesAreAsked'
    BY <1>2, <1>3 DEF PagesAreAsked, Fetched
<1>4. CASE Effects /\ FetchDue
    <2> DEFINE page == Call("page", Current, rhs.filter, 0, {})
               mark == Call("mark", store.view, NoFilter, 0, ToMark)
    <2>1. \A c \in Elements(calls') :
            c.kind # "page" \/ (Current.team # NoTeam /\ c = page) \/ c = mark
        BY <1>4, EffectCalls
    <2>2. /\ page.context = Current /\ page.filter = rhs.filter /\ page.offset = 0
          /\ mark.kind # "page"
        BY DEF Call
    <2> HIDE DEF page, mark
    <2>3. Deps \in [context : Views, filter : Filters, revision : Nat] /\ Deps.context = Current
        BY ViewTypes
    <2>4. rhs'.deps = Deps /\ (Current.team # NoTeam => rhs'.lastFilter = rhs.filter)
        BY <1>0, <1>4 DEF Effects, Sidebars
    <2> QED
        BY <2>1, <2>2, <2>3, <2>4 DEF PagesAreAsked, InFlight, Fetched
<1>5. CASE Quiet /\ ~(Effects /\ FetchDue)
    BY <1>3, <1>5 DEF Quiet
<1>6. CASE Unfetched /\ ~(Effects /\ FetchDue)
    <2>1. CASE \A c \in InFlight' : c.kind # "page"
        BY <2>1 DEF PagesAreAsked
    <2>2. CASE rhs'.lastFilter = rhs.lastFilter
        BY <1>3, <1>6, <2>2 DEF Unfetched
    <2> QED
        BY <1>6, <2>1, <2>2 DEF Unfetched
<1>7. CASE rhs' = rhs /\ ~(Effects /\ FetchDue)
    BY <1>3, <1>7
<1> QED
    BY Steps, <1>4, <1>5, <1>6, <1>7
    DEF PublishesStep, ReceiveEvents, ReceiveFailure, Deliver, Hydrate

LEMMA AnswersStayFit ==
    ASSUME TypeInv, AnswersFit, [Next]_vars
    PROVE  AnswersFit'
<1> SUFFICES ASSUME NEW c \in InFlight', c.answer \notin {Pending, Failed}
             PROVE  \A k \in DOMAIN c.answer.events : Fits(c.answer.events[k], c.context)
    BY DEF AnswersFit, Answered
<1>1. CASE OldCall(c)
    BY <1>1 DEF OldCall, AnswersFit, Answered
<1>2. CASE NewCall(c)
    BY <1>2 DEF NewCall
<1>3. CASE ServedCall(c)
    <2>1. PICK i \in DOMAIN calls : c = [calls[i] EXCEPT !.answer =
            Answer(FeedFor(feed, unread, calls[i].context, calls[i].filter), calls[i].offset)]
        BY <1>3 DEF ServedCall
    <2>2. calls[i] \in Calls(Published) /\ IsFeed(feed)
        BY TypeFacts
    <2> DEFINE events == FeedFor(feed, unread, calls[i].context, calls[i].filter)
               page == Page(events, calls[i].offset, PageSize)
    <2>3. /\ events \in Seq(Known(1 .. Len(feed)))
          /\ \A k \in DOMAIN events : Fits(events[k], calls[i].context)
        BY <2>2, FeedForProperties
    <2>4. calls[i].offset \in Nat /\ PageSize \in Nat
        BY <2>2, CallFields, PageSizeAssumption
    <2>5. c.answer.events = page
        BY <2>1, <2>2 DEF Calls, Requests, Answer
    <2>6. c.context = calls[i].context
        BY <2>1, <2>2 DEF Calls, Requests
    <2> HIDE DEF events
    <2>7. Elements(page) \subseteq Elements(events)
        BY <2>3, <2>4, PageOfFeed
    <2> QED
        BY <2>3, <2>5, <2>6, <2>7 DEF Elements
<1> QED
    BY RequestsKept, <1>1, <1>2, <1>3

LEMMA ListStaysFit ==
    ASSUME TypeInv, ContextInv, [Next]_vars, ~ghost'.shifted
    PROVE  ListFits'
<1>0. /\ store \in Stores(Known(Published), Published) /\ ghost \in Ghosts
      /\ store.events \in Seq(Known(Published)) /\ rhs \in Sidebars
      /\ SidebarStarts /\ PagesAreAsked /\ AnswersFit /\ (~ghost.shifted => ListFits)
    BY TypeFacts DEF ContextInv
<1>1. CASE Quiet
    BY <1>0, <1>1 DEF Quiet, SameGhost, SameView, ListFits, Fetched
<1>2. CASE Unfetched
    BY <1>0, <1>2 DEF Unfetched, ListFits, Fetched
<1>3. CASE Effects /\ FetchDue
    <2> DEFINE same == /\ store.view = Current /\ rhs.lastFilter = rhs.filter
                       /\ rhs.lastRevision = Deps.revision
    <2>1. rhs'.deps = Deps /\ Deps.context = Current
        BY <1>0, <1>3, ViewTypes DEF Effects, Sidebars
    <2>2. CASE Current.team = NoTeam
        <3>1. store' = store
            BY <1>3, <2>2, EffectStore
        <3>2. ghost' = [ghost EXCEPT !.miscounted = ghost.miscounted /\ ~MarkDue]
            BY <1>3, <2>2 DEF Effects
        <3>3. SameGhost
            BY <1>0, <3>2, GhostFields DEF SameGhost
        <3>4. ~Fetched'
            BY <2>1, <2>2 DEF Fetched
        <3> QED
            BY <1>0, <3>1, <3>3, <3>4 DEF ListFits, SameGhost
    <2>3. CASE Current.team # NoTeam /\ same
        <3>1. SameView(store', store)
            BY <1>3, <2>3, EffectStore
        <3>2. ghost' = [ghost EXCEPT !.miscounted = ghost.miscounted /\ ~MarkDue]
            BY <1>3, <2>3 DEF Effects
        <3>3. SameGhost
            BY <1>0, <3>2, GhostFields DEF SameGhost
        <3>4. ghost.context = rhs'.deps.context
            BY <1>0, <2>1, <2>3, <3>3 DEF ListFits, SameGhost
        <3> QED
            BY <1>0, <3>1, <3>3, <3>4 DEF ListFits, SameGhost, SameView, Fetched
    <2>4. CASE Current.team # NoTeam /\ ~same
        <3>1. store'.events = << >> /\ store'.view = NoView
            BY <1>3, <2>4, EffectStore
        <3>2. ghost' = [NoPage EXCEPT !.miscounted = ghost.miscounted /\ ~MarkDue]
            BY <1>3, <2>4 DEF Effects
        <3>3. ghost'.context = NoView
            BY <3>2 DEF NoPage
        <3> QED
            BY <3>1, <3>3 DEF ListFits
    <2> QED
        BY <2>2, <2>3, <2>4
<1>4. CASE PublishesStep
    BY <1>0, <1>4 DEF PublishesStep, ListFits, Fetched
<1>5. ASSUME NEW i \in DOMAIN calls, ReceiveEvents(i) PROVE ListFits'
    <2> DEFINE call == calls[i]
    <2>1. /\ call \in Calls(Published) /\ call \in Elements(calls) /\ call.kind \in {"page", "more"}
          /\ call.answer \notin {Pending, Failed} /\ call.answer \in Answers(Published)
          /\ store'.events = IF call.offset > 0 THEN store.events \o call.answer.events
                             ELSE call.answer.events
          /\ store'.view = call.context
        BY <1>5, ReceiveEventsEffect
    <2>2. /\ call \in InFlight
          /\ \A k \in DOMAIN call.answer.events : Fits(call.answer.events[k], call.context)
        BY <1>0, <2>1 DEF AnswersFit, Answered, InFlight
    <2>3. rhs' = rhs
        BY <1>5 DEF ReceiveEvents
    <2>4. CASE call.kind = "page"
        <3>1. call.offset = 0 /\ (rhs.deps # << >> => call.context = rhs.deps.context)
            BY <1>0, <2>2, <2>4 DEF PagesAreAsked
        <3>2. ghost'.context = call.context
            BY <1>5, <2>4 DEF ReceiveEvents
        <3>3. store'.events = call.answer.events
            BY <2>1, <3>1
        <3> QED
            BY <2>1, <2>2, <2>3, <3>1, <3>2, <3>3 DEF ListFits, Fetched
    <2>5. CASE call.kind = "more"
        <3> DEFINE continues == /\ call.context = ghost.context
                                /\ call.filter = ghost.filter /\ call.filter # UnreadOnly
                                /\ call.answer.at = ghost.at
                                /\ call.offset = Len(store.events)
                                /\ ghost.pushed = {}
                                /\ ~ghost.behind
                   b == ghost.shifted \/ ~continues
        <3>1. ghost' = [ghost EXCEPT !.shifted = b]
            BY <1>5, <2>5 DEF ReceiveEvents
        <3>2. /\ ghost'.shifted = b /\ ghost'.context = ghost.context /\ ghost'.pushed = ghost.pushed
            <4> HIDE DEF b
            <4> QED
                BY <1>0, <3>1 DEF Ghosts
        <3>3. ~ghost.shifted /\ call.context = ghost.context
            BY <3>2
        <3>4. ListFits
            BY <1>0, <3>3
        <3> HIDE DEF call
        <3>5. \A e \in Elements(store'.events) : Fits(e, ghost.context) \/ e.id \in ghost.pushed
            <4>1. Elements(store'.events) \subseteq Elements(store.events) \union Elements(call.answer.events)
                BY <1>0, <2>1, ConcatElements DEF Answers
            <4>2. \A e \in Elements(call.answer.events) : Fits(e, ghost.context)
                BY <2>2, <3>3 DEF Elements
            <4>3. \A e \in Elements(store.events) : Fits(e, ghost.context) \/ e.id \in ghost.pushed
                BY <3>4 DEF ListFits, Elements
            <4> QED
                BY <4>1, <4>2, <4>3
        <3> QED
            BY <2>1, <2>3, <3>2, <3>3, <3>4, <3>5 DEF ListFits, Fetched, Elements
    <2> QED
        BY <2>1, <2>4, <2>5
<1>6. ASSUME NEW i \in DOMAIN calls, ReceiveFailure(i) PROVE ListFits'
    <2>1. store'.events = store.events /\ store'.view = store.view
        BY <1>6, ReceiveFailureEffect
    <2>2. SameGhost /\ rhs' = rhs
        BY <1>0, <1>6, GhostFields DEF ReceiveFailure, SameGhost
    <2> QED
        BY <1>0, <2>1, <2>2 DEF ListFits, SameGhost, Fetched
<1>7. ASSUME NEW m \in wire, Deliver(m) PROVE ListFits'
    <2>1. /\ m.event \in Known(Published) /\ m.kind \in {"new", "updated"}
          /\ store'.view = store.view
          /\ m.kind = "new" /\ m.event.id \in IdsOf(store.events) => store'.events = store.events
          /\ m.kind = "new" /\ m.event.id \notin IdsOf(store.events) =>
               store'.events = <<m.event>> \o store.events
          /\ m.kind = "updated" =>
               store'.events = <<Merged(m.event, store.events)>> \o Without(store.events, m.event.id)
        BY <1>7, DeliverEffect
    <2>2. /\ ghost'.context = ghost.context /\ ghost'.shifted = ghost.shifted
          /\ ghost'.pushed = ghost.pushed \union {m.event.id} /\ rhs' = rhs
        BY <1>0, <1>7 DEF Deliver, Ghosts
    <2>3. ListFits
        BY <1>0, <2>2
    <2>4. \A e \in Elements(store'.events) : e \in Elements(store.events) \/ e.id = m.event.id
        <3>1. CASE m.kind = "new" /\ m.event.id \in IdsOf(store.events)
            BY <2>1, <3>1
        <3>2. CASE m.kind = "new" /\ m.event.id \notin IdsOf(store.events)
            <4>1. store'.events = <<m.event>> \o store.events
                BY <2>1, <3>2
            <4>2. Elements(<<m.event>> \o store.events) = {m.event} \union Elements(store.events)
                BY <1>0, <2>1, FirstElements
            <4> QED
                BY <4>1, <4>2
        <3>3. CASE m.kind = "updated"
            <4> DEFINE merged == Merged(m.event, store.events)
                       rest == Without(store.events, m.event.id)
            <4>1. merged \in Known(Published) /\ merged.id = m.event.id
                BY <1>0, <2>1, MergedProperties
            <4>2. rest \in Seq(Known(Published)) /\ Elements(rest) \subseteq Elements(store.events)
                BY <1>0, WithoutProperties
            <4>3. store'.events = <<merged>> \o rest
                BY <2>1, <3>3
            <4> HIDE DEF merged, rest
            <4>4. Elements(store'.events) = {merged} \union Elements(rest)
                BY <4>1, <4>2, <4>3, FirstElements
            <4> QED
                BY <4>1, <4>2, <4>4
        <3> QED
            BY <2>1, <3>1, <3>2, <3>3
    <2>5. \A e \in Elements(store'.events) : Fits(e, ghost.context) \/ e.id \in ghost'.pushed
        BY <2>2, <2>3, <2>4 DEF ListFits, Elements
    <2> QED
        BY <2>1, <2>2, <2>3, <2>5 DEF ListFits, Fetched, Elements
<1>8. ASSUME NEW p \in Parents, Hydrate(p) PROVE FALSE
    <2>1. ghost' = [ghost EXCEPT !.behind = TRUE, !.shifted = TRUE]
        BY <1>8, HydrateEffect
    <2> QED
        BY <1>0, <2>1 DEF Ghosts
<1> QED
    BY Steps, <1>0, <1>1, <1>2, <1>3, <1>4, <1>5, <1>6, <1>7, <1>8

LEMMA InitialSidebar ==
    ASSUME Init
    PROVE  /\ rhs = Unmounted /\ calls = << >> /\ ghost = NoPage /\ wire = {} /\ clock = 0
           /\ store.events = << >> /\ store.view = NoView /\ store.error = NoError
           /\ store.websocketRevision = 0
           /\ InFlight = {} /\ ~Fetched
<1>1. PICK s \in Scenarios :
        /\ store = IF s.refreshed
                   THEN ReceivedContextUnreadEvents(InitialState, s.host, {}, s.unread)
                   ELSE InitialState
        /\ rhs = Unmounted /\ calls = << >> /\ ghost = NoPage /\ wire = {} /\ clock = 0
    BY DEF Init
<1>2. /\ store.events = << >> /\ store.view = NoView /\ store.error = NoError
      /\ store.websocketRevision = 0
    BY <1>1 DEF InitialState, ReceivedContextUnreadEvents
<1>3. InFlight = {}
    <2>1. DOMAIN calls = {}
        BY <1>1
    <2> QED
        BY <2>1 DEF InFlight, Elements
<1> QED
    BY <1>1, <1>2, <1>3 DEF Fetched, Unmounted

LEMMA ContextInvariant ==
    /\ Init => ContextInv
    /\ TypeInv /\ ContextInv /\ [Next]_vars => ContextInv'
<1>1. ASSUME Init PROVE ContextInv
    <2>1. /\ rhs = Unmounted /\ ghost = NoPage /\ store.events = << >> /\ store.view = NoView
          /\ InFlight = {} /\ ~Fetched
        BY <1>1, InitialSidebar
    <2> QED
        BY <2>1 DEF ContextInv, SidebarStarts, PagesAreAsked, AnswersFit, Answered, ListFits, NoPage
<1>2. ASSUME TypeInv, ContextInv, [Next]_vars PROVE ContextInv'
    BY <1>2, SidebarStartsKept, PagesStayAsked, AnswersStayFit, ListStaysFit DEF ContextInv
<1> QED
    BY <1>1, <1>2

(* What another context's answer brought is not shown, unless the          *)
(* websocket told of it or an older page was appended to another list      *)
(* (timeline_fetch.ts aborts the request and clears the list).             *)
THEOREM NothingForeign == Spec => []NoForeignAnswer
<1>1. Init => TypeInv /\ ContextInv
    BY InitialTypes, ContextInvariant
<1>2. (TypeInv /\ ContextInv) /\ [Next]_vars => (TypeInv /\ ContextInv)'
    BY TypesAreKept, ContextInvariant
<1>3. TypeInv /\ ContextInv => NoForeignAnswer
    <2> SUFFICES ASSUME TypeInv, ContextInv, rhs.mounted, Current.team # NoTeam, ~FetchDue,
                        ~ghost.shifted, NEW i \in DOMAIN store.events
                 PROVE  Fits(store.events[i], Current) \/ store.events[i].id \in ghost.pushed
        BY DEF NoForeignAnswer
    <2>1. ListFits /\ store.events \in Seq(Known(Published))
        BY TypeFacts DEF ContextInv
    <2>2. rhs.deps = Deps /\ Deps.context = Current
        BY ViewTypes DEF FetchDue
    <2>3. Deps # << >>
        <3>1. Deps \in [context : Views, filter : Filters, revision : Nat]
            BY ViewTypes
        <3> QED
            BY <3>1
    <2>4. Fetched /\ ghost.context \in {NoView, Current}
        BY <2>1, <2>2, <2>3 DEF Fetched, ListFits
    <2>5. store.events[i].team # NoTeam
        <3>1. store.events[i] \in Known(Published)
            BY <2>1, ElementOfSeq, LenProperties
        <3> QED
            BY <3>1, KnownFields
    <2>6. ~Fits(store.events[i], NoView)
        BY <2>5 DEF Fits, NoView
    <2> QED
        BY <2>1, <2>4, <2>6 DEF ListFits
<1> QED
    BY <1>1, <1>2, <1>3, PTL DEF Spec

-----------------------------------------------------------------------------
(* What was asked for last                                                 *)

LEMMA FetchFacts ==
    ASSUME TypeInv, Effects, FetchDue
    PROVE  /\ rhs'.deps = Deps
           /\ rhs'.lastFilter = IF Current.team # NoTeam THEN rhs.filter ELSE rhs.lastFilter
           /\ rhs'.lastRevision = IF Current.team # NoTeam THEN Deps.revision ELSE rhs.lastRevision
           /\ Current.team = NoTeam => SameView(store', store) /\ SameGhost
           /\ Current.team # NoTeam /\ store.view = Current /\ rhs.lastFilter = rhs.filter
                /\ rhs.lastRevision = Deps.revision => SameView(store', store) /\ SameGhost
           /\ Current.team # NoTeam /\ ~(store.view = Current /\ rhs.lastFilter = rhs.filter
                /\ rhs.lastRevision = Deps.revision) =>
                /\ store'.events = << >> /\ store'.view = NoView /\ store'.error = NoError
                /\ store'.websocketRevision = store.websocketRevision
                /\ ghost'.context = NoView /\ ghost'.filter = NoFilter /\ ghost'.at = 0
                /\ ghost'.pushed = {} /\ ~ghost'.behind /\ ~ghost'.shifted
<1> DEFINE fetches == FetchDue /\ Current.team # NoTeam
           same == /\ store.view = Current /\ rhs.lastFilter = rhs.filter
                   /\ rhs.lastRevision = Deps.revision
           m == ghost.miscounted /\ ~MarkDue
<1>0. rhs \in Sidebars /\ ghost \in Ghosts
    BY TypeFacts
<1>1. /\ rhs'.deps = Deps
      /\ rhs'.lastFilter = IF Current.team # NoTeam THEN rhs.filter ELSE rhs.lastFilter
      /\ rhs'.lastRevision = IF Current.team # NoTeam THEN Deps.revision ELSE rhs.lastRevision
    BY <1>0 DEF Effects, Sidebars
<1>2. ghost' = [(IF fetches /\ ~same THEN NoPage ELSE ghost) EXCEPT !.miscounted = m]
    BY DEF Effects
<1>3. ASSUME ~fetches \/ same PROVE SameGhost
    <2>1. ghost' = [ghost EXCEPT !.miscounted = m]
        BY <1>2, <1>3
    <2> HIDE DEF m
    <2> QED
        BY <1>0, <2>1, GhostFields DEF SameGhost
<1>4. ASSUME fetches, ~same
      PROVE  /\ ghost'.context = NoView /\ ghost'.filter = NoFilter /\ ghost'.at = 0
             /\ ghost'.pushed = {} /\ ~ghost'.behind /\ ~ghost'.shifted
    <2>1. ghost' = [NoPage EXCEPT !.miscounted = m]
        BY <1>2, <1>4
    <2> HIDE DEF m
    <2> QED
        BY <2>1 DEF NoPage
<1>5. CASE Current.team = NoTeam
    <2>1. store' = store
        BY <1>5, EffectStore
    <2> QED
        BY <1>1, <1>3, <1>5, <2>1 DEF SameView
<1>6. CASE Current.team # NoTeam /\ same
    <2>1. SameView(store', store)
        BY <1>6, EffectStore
    <2> QED
        BY <1>1, <1>3, <1>6, <2>1
<1>7. CASE Current.team # NoTeam /\ ~same
    <2>1. /\ store'.events = << >> /\ store'.view = NoView /\ store'.error = NoError
          /\ store'.websocketRevision = store.websocketRevision
        BY <1>7, EffectStore
    <2> QED
        BY <1>1, <1>4, <1>7, <2>1
<1> QED
    BY <1>5, <1>6, <1>7

(* What an answer of Load more must be to continue the list.               *)
LEMMA MoreContinues ==
    ASSUME TypeInv, NEW i \in DOMAIN calls, ReceiveEvents(i), calls[i].kind = "more",
           ~ghost'.shifted
    PROVE  /\ ~ghost.shifted /\ SameGhost
           /\ calls[i].context = ghost.context /\ ghost.context # NoView
           /\ calls[i].filter = ghost.filter /\ ghost.filter # UnreadOnly
           /\ calls[i].answer.at = ghost.at /\ calls[i].offset = Len(store.events)
           /\ ghost.pushed = {} /\ ~ghost.behind
<1> DEFINE continues == /\ calls[i].context = ghost.context
                        /\ calls[i].filter = ghost.filter /\ calls[i].filter # UnreadOnly
                        /\ calls[i].answer.at = ghost.at
                        /\ calls[i].offset = Len(store.events)
                        /\ ghost.pushed = {}
                        /\ ~ghost.behind
           b == ghost.shifted \/ ~continues
<1>0. ghost \in Ghosts /\ calls[i] \in Calls(Published)
    BY TypeFacts
<1>1. ghost' = [ghost EXCEPT !.shifted = b]
    BY DEF ReceiveEvents
<1>2. /\ ghost'.shifted = b /\ ghost'.context = ghost.context /\ ghost'.pushed = ghost.pushed
      /\ ghost'.filter = ghost.filter /\ ghost'.at = ghost.at /\ ghost'.behind = ghost.behind
    <2> HIDE DEF b
    <2> QED
        BY <1>0, <1>1 DEF Ghosts
<1>3. ~ghost.shifted /\ continues
    <2>1. ~b
        <3> HIDE DEF b
        <3> QED
            BY <1>2
    <2> QED
        BY <2>1
<1>5. SameGhost
    BY <1>0, <1>2, <1>3 DEF SameGhost, Ghosts
<1>4. calls[i].context # NoView
    BY <1>0, CallFields, ContextsAssumption
<1> QED
    BY <1>3, <1>4, <1>5

LEMMA DeliveredCalls ==
    ASSUME TypeInv, NEW m \in wire, Deliver(m)
    PROVE  PageAsked => PageAsked'
<1>1. DOMAIN calls' = DOMAIN calls
    BY DEF Deliver
<1>2. \A j \in DOMAIN calls : calls'[j] \in {calls[j], [calls[j] EXCEPT !.overtaken = TRUE]}
    BY DEF Deliver
<1>3. \A j \in DOMAIN calls : calls[j] \in Calls(Published)
    BY TypeFacts
<1>4. \A j \in DOMAIN calls : calls'[j].kind = calls[j].kind
    BY <1>2, <1>3 DEF Calls, Requests
<1> QED
    BY <1>1, <1>4 DEF PageAsked, InFlight, Elements

LEMMA FetchKept ==
    ASSUME TypeInv, ContextInv, FetchInv, [Next]_vars
    PROVE  FetchInv'
<1>0. /\ SidebarStarts /\ PagesAreAsked /\ (~ghost.shifted => ListFits)
      /\ rhs \in Sidebars /\ ghost \in Ghosts /\ store \in Stores(Known(Published), Published)
    BY TypeFacts DEF ContextInv
<1>1. rhs.lastRevision \in Nat /\ store.websocketRevision \in Nat
    BY <1>0, SidebarFields, StoreFields
<1>2. CASE Quiet
    BY <1>2 DEF Quiet, SameGhost, SameView, FetchInv, Fetched
<1>3. CASE Unfetched
    BY <1>1, <1>3 DEF Unfetched, FetchInv, Fetched
<1>4. CASE Effects /\ FetchDue
    <2>0. /\ rhs'.deps = Deps
          /\ rhs'.lastFilter = IF Current.team # NoTeam THEN rhs.filter ELSE rhs.lastFilter
          /\ rhs'.lastRevision = IF Current.team # NoTeam THEN Deps.revision ELSE rhs.lastRevision
          /\ Deps.context = Current /\ Deps.filter = rhs.filter
          /\ Deps.revision = IF rhs.filter = NoFilter THEN 0 ELSE store.websocketRevision
        BY <1>4, FetchFacts, ViewTypes
    <2>1. CASE Current.team = NoTeam
        BY <1>4, <2>0, <2>1, FetchFacts DEF FetchInv, Fetched, SameView, SameGhost
    <2>2. CASE Current.team # NoTeam
        <3>1. PageAsked'
            <4>1. Call("page", Current, rhs.filter, 0, {}) \in Elements(calls')
                BY <1>4, <2>2, EffectCalls
            <4> QED
                BY <4>1 DEF Call, PageAsked, InFlight
        <3>2. Deps.revision <= store.websocketRevision
            BY <1>1, <2>0
        <3>3. CASE store.view = Current /\ rhs.lastFilter = rhs.filter /\ rhs.lastRevision = Deps.revision
            BY <1>4, <2>0, <2>2, <3>1, <3>2, <3>3, FetchFacts DEF FetchInv, Fetched, SameView, SameGhost
        <3>4. CASE ~(store.view = Current /\ rhs.lastFilter = rhs.filter /\ rhs.lastRevision = Deps.revision)
            <4>1. /\ store'.websocketRevision = store.websocketRevision
                  /\ ghost'.context = NoView /\ ghost'.filter = NoFilter
                BY <1>4, <2>2, <3>4, FetchFacts
            <4> QED
                BY <2>0, <2>2, <3>1, <3>2, <4>1 DEF FetchInv, Fetched
        <3> QED
            BY <3>3, <3>4
    <2> QED
        BY <2>1, <2>2
<1>5. CASE PublishesStep
    BY <1>5 DEF PublishesStep, FetchInv, Fetched, PageAsked, InFlight
<1>6. ASSUME NEW i \in DOMAIN calls, ReceiveEvents(i) PROVE FetchInv'
    <2> DEFINE call == calls[i]
    <2>1. /\ call \in Calls(Published) /\ call \in InFlight /\ call.kind \in {"page", "more"}
          /\ store'.error = NoError /\ store'.websocketRevision = store.websocketRevision
          /\ rhs' = rhs
        BY <1>6, ReceiveEventsEffect DEF InFlight, ReceiveEvents
    <2>2. CASE call.kind = "page"
        <3>1. /\ call.filter = rhs.lastFilter
              /\ rhs.deps # << >> => call.context = rhs.deps.context
            BY <1>0, <2>1, <2>2 DEF PagesAreAsked
        <3>2. ghost'.context = call.context /\ ghost'.filter = call.filter
            BY <1>6, <2>2 DEF ReceiveEvents
        <3>3. call.context # NoView
            BY <2>1, CallFields, ContextsAssumption
        <3> QED
            BY <2>1, <3>1, <3>2, <3>3 DEF FetchInv, Fetched
    <2>3. CASE call.kind = "more" /\ ~ghost'.shifted
        <3>1. ~ghost.shifted /\ SameGhost /\ ghost.context # NoView
            BY <1>6, <2>3, MoreContinues
        <3>2. Fetched => ghost.context = rhs.deps.context
            BY <1>0, <3>1 DEF ListFits
        <3> QED
            BY <2>1, <3>1, <3>2 DEF FetchInv, Fetched, SameGhost
    <2>4. CASE call.kind = "more" /\ ghost'.shifted
        <3>1. ghost'.context = ghost.context /\ ghost'.filter = ghost.filter
            BY <1>0, <1>6, <2>4 DEF ReceiveEvents, Ghosts
        <3> QED
            BY <2>1, <2>4, <3>1 DEF FetchInv, Fetched
    <2> QED
        BY <2>1, <2>2, <2>3, <2>4
<1>7. ASSUME NEW i \in DOMAIN calls, ReceiveFailure(i), calls[i].kind \in {"page", "more"}
      PROVE FetchInv'
    <2>1. store'.error = LoadError /\ store'.websocketRevision = store.websocketRevision
        BY <1>7, ReceiveFailureEffect
    <2>2. SameGhost /\ rhs' = rhs
        BY <1>0, <1>7, GhostFields DEF ReceiveFailure, SameGhost
    <2> QED
        BY <2>1, <2>2, ErrorAssumption DEF FetchInv, Fetched, SameGhost
<1>8. ASSUME NEW m \in wire, Deliver(m) PROVE FetchInv'
    <2>1. /\ store'.error = store.error
          /\ store'.websocketRevision \in {store.websocketRevision, store.websocketRevision + 1}
        BY <1>8, DeliverEffect
    <2>2. /\ ghost'.context = ghost.context /\ ghost'.shifted = ghost.shifted
          /\ ghost'.filter = ghost.filter /\ rhs' = rhs
        BY <1>0, <1>8 DEF Deliver, Ghosts
    <2>3. PageAsked => PageAsked'
        BY <1>8, DeliveredCalls
    <2>4. rhs.lastRevision <= store'.websocketRevision
        BY <1>1, <2>1 DEF FetchInv
    <2> QED
        BY <2>1, <2>2, <2>3, <2>4 DEF FetchInv, Fetched
<1>9. ASSUME NEW p \in Parents, Hydrate(p) PROVE FetchInv'
    <2>1. /\ store'.websocketRevision = store.websocketRevision /\ rhs' = rhs
          /\ ghost' = [ghost EXCEPT !.behind = TRUE, !.shifted = TRUE]
        BY <1>9, HydrateEffect DEF Hydrate
    <2>2. ghost'.shifted /\ ghost'.context = ghost.context /\ ghost'.filter = ghost.filter
        BY <1>0, <2>1 DEF Ghosts
    <2> QED
        BY <2>1, <2>2 DEF FetchInv, Fetched
<1> QED
    BY Steps, <1>0, <1>2, <1>3, <1>4, <1>5, <1>6, <1>7, <1>8, <1>9

LEMMA FetchInvariant ==
    /\ Init => FetchInv
    /\ TypeInv /\ ContextInv /\ FetchInv /\ [Next]_vars => FetchInv'
<1>1. ASSUME Init PROVE FetchInv
    BY <1>1, InitialSidebar DEF FetchInv, Unmounted, NoPage
<1> QED
    BY <1>1, FetchKept

-----------------------------------------------------------------------------
(* The list is a page of what the server had                               *)

LEMMA PrefixIsPage ==
    ASSUME NEW S, NEW s \in Seq(S), NEW q \in Seq(S),
           \A i \in DOMAIN q : i \in DOMAIN s /\ q[i] = s[i]
    PROVE  q = Page(s, 0, Len(q))
<1> DEFINE p == Page(s, 0, Len(q))
<1>1. /\ Len(s) \in Nat /\ DOMAIN s = 1 .. Len(s) /\ Len(q) \in Nat /\ DOMAIN q = 1 .. Len(q)
    BY LenProperties
<1>2. /\ p \in Seq(S) /\ Len(p) \in Nat /\ DOMAIN p = 1 .. Len(p) /\ Len(p) <= Len(q)
      /\ \A i \in DOMAIN p : 0 + i \in DOMAIN s /\ p[i] = s[0 + i]
      /\ \A i \in 1 .. Len(q) : 0 + i \in DOMAIN s => i \in DOMAIN p
    BY <1>1, PageProperties
<1> HIDE DEF p
<1>3. \A i \in Nat : 0 + i = i
    OBVIOUS
<1>4. \A i \in 1 .. Len(q) : i \in DOMAIN p
    BY <1>1, <1>2, <1>3
<1>5. Len(p) = Len(q)
    <2>1. CASE Len(q) = 0
        BY <1>2, <2>1
    <2>2. CASE Len(q) # 0
        <3>1. Len(q) \in 1 .. Len(q)
            BY <1>1, <2>2
        <3>2. Len(q) <= Len(p)
            BY <1>1, <1>2, <1>4, <3>1
        <3>3. Len(p) \in Nat /\ Len(q) \in Nat /\ Len(p) <= Len(q)
            BY <1>1, <1>2
        <3> QED
            BY <3>2, <3>3
    <2> QED
        BY <2>1, <2>2
<1>6. \A i \in 1 .. Len(q) : p[i] = q[i]
    BY <1>1, <1>2, <1>3, <1>4
<1>7. p = q
    BY <1>2, <1>5, <1>6, SeqEqual
<1> QED
    BY <1>7 DEF p

LEMMA PageOfItsLength ==
    ASSUME NEW S, NEW s \in Seq(S), NEW l \in Nat
    PROVE  /\ Page(s, 0, l) = Page(s, 0, Len(Page(s, 0, l)))
           /\ \A i \in DOMAIN Page(s, 0, l) : i \in DOMAIN s /\ Page(s, 0, l)[i] = s[i]
<1> DEFINE p == Page(s, 0, l)
<1>1. /\ p \in Seq(S) /\ Len(p) \in Nat /\ DOMAIN p = 1 .. Len(p)
      /\ \A i \in DOMAIN p : 0 + i \in DOMAIN s /\ p[i] = s[0 + i]
    BY PageProperties
<1> HIDE DEF p
<1>2. \A i \in DOMAIN p : i \in DOMAIN s /\ p[i] = s[i]
    <2>1. \A i \in DOMAIN p : 0 + i = i
        BY <1>1
    <2> QED
        BY <1>1, <2>1
<1>3. p = Page(s, 0, Len(p))
    BY <1>1, <1>2, PrefixIsPage
<1> QED
    BY <1>2, <1>3 DEF p

(* An older page continues the list that ends where it was asked from.     *)
LEMMA PagesJoin ==
    ASSUME NEW S, NEW s \in Seq(S), NEW q \in Seq(S), q = Page(s, 0, Len(q)), NEW l \in Nat
    PROVE  LET r == q \o Page(s, Len(q), l) IN r \in Seq(S) /\ r = Page(s, 0, Len(r))
<1> DEFINE p == Page(s, Len(q), l)
           r == q \o p
<1>1. Len(q) \in Nat /\ DOMAIN q = 1 .. Len(q)
    BY LenProperties
<1>2. \A i \in DOMAIN q : i \in DOMAIN s /\ q[i] = s[i]
    <2>1. \A i \in DOMAIN Page(s, 0, Len(q)) :
            i \in DOMAIN s /\ Page(s, 0, Len(q))[i] = s[i]
        BY <1>1, PageOfItsLength
    <2> QED
        BY <2>1
<1>3. /\ p \in Seq(S) /\ Len(p) \in Nat /\ DOMAIN p = 1 .. Len(p)
      /\ \A i \in DOMAIN p : Len(q) + i \in DOMAIN s /\ p[i] = s[Len(q) + i]
    BY <1>1, PageProperties
<1> HIDE DEF p
<1>4. /\ r \in Seq(S) /\ Len(r) = Len(q) + Len(p)
      /\ \A i \in 1 .. Len(q) + Len(p) : r[i] = IF i <= Len(q) THEN q[i] ELSE p[i - Len(q)]
    BY <1>3, ConcatProperties
<1>5. DOMAIN r = 1 .. Len(q) + Len(p)
    BY <1>4, LenProperties
<1> HIDE DEF r
<1>6. ASSUME NEW i \in DOMAIN r PROVE i \in DOMAIN s /\ r[i] = s[i]
    <2>1. CASE i <= Len(q)
        <3>1. i \in DOMAIN q /\ r[i] = q[i]
            BY <1>1, <1>4, <1>5, <2>1
        <3> QED
            BY <1>2, <3>1
    <2>2. CASE ~(i <= Len(q))
        <3>1. i - Len(q) \in DOMAIN p /\ r[i] = p[i - Len(q)] /\ Len(q) + (i - Len(q)) = i
            BY <1>1, <1>3, <1>4, <1>5, <2>2
        <3>2. /\ Len(q) + (i - Len(q)) \in DOMAIN s
              /\ p[i - Len(q)] = s[Len(q) + (i - Len(q))]
            BY <1>3, <3>1
        <3> QED
            BY <3>1, <3>2
    <2> QED
        BY <2>1, <2>2
<1>7. r = Page(s, 0, Len(r))
    BY <1>4, <1>6, PrefixIsPage
<1> QED
    BY <1>4, <1>7 DEF p, r

LEMMA EmptyPage ==
    ASSUME NEW S, NEW s \in Seq(S)
    PROVE  << >> = Page(s, 0, Len(<< >>))
<1>1. << >> \in Seq(S) /\ DOMAIN << >> = {}
    BY EmptySeq
<1> QED
    BY <1>1, PrefixIsPage

-----------------------------------------------------------------------------
(* What is told later                                                      *)

LEMMA WireTold ==
    ASSUME TypeInv, NEW n \in Nat, n <= clock,
           \A s \in n + 1 .. clock : \E k \in wire : k.seq = s,
           \/ UNCHANGED <<clock, wire>>
           \/ PublishesStep
           \/ \E m \in wire : Deliver(m) /\ n >= m.seq
    PROVE  \A s \in n + 1 .. clock' : \E k \in wire' : k.seq = s
<1>0. clock \in Nat
    BY TypeFacts
<1>1. CASE UNCHANGED <<clock, wire>>
    BY <1>1
<1>2. ASSUME NEW kind, NEW event, clock' = clock + 1, wire' = wire \union Broadcast(kind, event)
      PROVE  \A s \in n + 1 .. clock' : \E k \in wire' : k.seq = s
    <2>1. \E k \in Broadcast(kind, event) : k.seq = clock + 1
        <3> DEFINE audience == IF event.channels = {} THEN {NoChannel} ELSE event.channels
        <3>1. PICK c : c \in audience
            OBVIOUS
        <3>2. [kind |-> kind, event |-> event, seq |-> clock + 1, to |-> c] \in Broadcast(kind, event)
            BY <3>1 DEF Broadcast
        <3> QED
            BY <3>2
    <2> SUFFICES ASSUME NEW s \in n + 1 .. clock' PROVE \E k \in wire' : k.seq = s
        OBVIOUS
    <2>2. CASE s = clock + 1
        BY <1>2, <2>1, <2>2
    <2>3. CASE s # clock + 1
        <3>1. s \in n + 1 .. clock
            BY <1>0, <1>2, <2>3
        <3> QED
            BY <1>2, <3>1
    <2> QED
        BY <2>2, <2>3
<1>3. CASE PublishesStep
    <2>1. ASSUME NEW p \in Publications, Publish(p)
          PROVE  \E kind, event : clock' = clock + 1 /\ wire' = wire \union Broadcast(kind, event)
        BY <2>1, PublishTypes DEF Publish
    <2>2. ASSUME NEW i \in DOMAIN feed, NEW l \in Looks, Update(i, l)
          PROVE  \E kind, event : clock' = clock + 1 /\ wire' = wire \union Broadcast(kind, event)
        BY <2>2, UpdateTypes DEF Update
    <2> QED
        BY <1>2, <1>3, <2>1, <2>2 DEF PublishesStep
<1>4. ASSUME NEW m \in wire, Deliver(m), n >= m.seq
      PROVE  \A s \in n + 1 .. clock' : \E k \in wire' : k.seq = s
    <2>0. clock' = clock /\ wire' = wire \ {m} /\ m.seq \in 1 .. clock
        BY <1>4, DeliverEffect DEF Deliver, server
    <2>1. clock' = clock /\ wire' = wire \ {m} /\ m.seq \in Nat
        BY <1>0, <2>0
    <2> SUFFICES ASSUME NEW s \in n + 1 .. clock PROVE \E k \in wire' : k.seq = s
        BY <2>1
    <2>2. PICK k \in wire : k.seq = s
        OBVIOUS
    <2>3. k # m
        BY <1>0, <1>4, <2>1, <2>2
    <2> QED
        BY <2>1, <2>2, <2>3
<1> QED
    BY <1>1, <1>3, <1>4

(* What a later history keeps of an earlier one.                           *)
LEMMA AnswersKept ==
    ASSUME TypeInv, NEW F, AnswerInv(F), F[clock] = feed,
           NEW G, \A n \in 0 .. clock : G[n] = F[n], [Next]_vars,
           clock' \in Nat, clock <= clock',
           \/ UNCHANGED <<clock, wire>>
           \/ PublishesStep
           \/ \E m \in wire : Deliver(m)
    PROVE  AnswerInv(G)'
<1>0. clock \in Nat /\ IsFeed(feed) /\ calls \in Seq(Calls(Published))
    BY TypeFacts
<1> SUFFICES ASSUME NEW c \in InFlight', c.answer \notin {Pending, Failed}
             PROVE  /\ c.answer.at \in 0 .. clock'
                    /\ ListsOnce(c.answer.events)
                    /\ c.filter # UnreadOnly =>
                         c.answer.events = Page(FeedFor(G[c.answer.at], {}, c.context, c.filter),
                                                c.offset, PageSize)
                    /\ ~c.overtaken => \A s \in c.answer.at + 1 .. clock' : \E k \in wire' : k.seq = s
    BY DEF AnswerInv, Answered, OnWire
<1>1. CASE OldCall(c)
    <2>1. PICK d \in InFlight :
            /\ c.context = d.context /\ c.filter = d.filter /\ c.offset = d.offset
            /\ c.answer = d.answer /\ (d.overtaken => c.overtaken)
        BY <1>1 DEF OldCall
    <2>2. d \in Answered
        BY <2>1 DEF Answered
    <2>3. /\ d.answer.at \in 0 .. clock
          /\ ListsOnce(d.answer.events)
          /\ d.filter # UnreadOnly =>
               d.answer.events = Page(FeedFor(F[d.answer.at], {}, d.context, d.filter), d.offset, PageSize)
          /\ ~d.overtaken => \A s \in d.answer.at + 1 .. clock : \E k \in wire : k.seq = s
        BY <2>2 DEF AnswerInv, OnWire
    <2>4. c.answer.at \in 0 .. clock' /\ G[c.answer.at] = F[d.answer.at]
        BY <1>0, <2>1, <2>3
    <2>5. ASSUME ~c.overtaken
          PROVE  \A s \in c.answer.at + 1 .. clock' : \E k \in wire' : k.seq = s
        <3> DEFINE n == c.answer.at
        <3>1. n \in Nat /\ n <= clock
            BY <1>0, <2>1, <2>3
        <3>2. \A s \in n + 1 .. clock : \E k \in wire : k.seq = s
            BY <2>1, <2>3, <2>5
        <3>3. ASSUME NEW m \in wire, Deliver(m) PROVE n >= m.seq
            <4>1. \A e \in Elements(calls') :
                    e.answer \in {Pending, Failed} \/ e.answer.at >= m.seq \/ e.overtaken
                BY <3>3, DeliverEffect
            <4> QED
                BY <2>5, <4>1 DEF InFlight
        <3> HIDE DEF n
        <3>4. \A s \in n + 1 .. clock' : \E k \in wire' : k.seq = s
            BY <3>1, <3>2, <3>3, WireTold
        <3> QED
            BY <3>4 DEF n
    <2> QED
        BY <2>1, <2>3, <2>4, <2>5
<1>2. CASE NewCall(c)
    BY <1>2 DEF NewCall
<1>3. CASE ServedCall(c)
    <2>1. PICK i \in DOMAIN calls :
            /\ Serve(i)
            /\ c = [calls[i] EXCEPT !.answer =
                    Answer(FeedFor(feed, unread, calls[i].context, calls[i].filter), calls[i].offset)]
        BY <1>3 DEF ServedCall
    <2> DEFINE d == calls[i]
               events == FeedFor(feed, unread, d.context, d.filter)
               page == Page(events, d.offset, PageSize)
    <2>2. d \in Calls(Published)
        BY TypeFacts
    <2>3. /\ c.context = d.context /\ c.filter = d.filter /\ c.offset = d.offset
          /\ c.answer = Answer(events, d.offset)
        BY <2>1, <2>2 DEF Calls, Requests
    <2>4. c.answer.events = page /\ c.answer.at = clock
        BY <2>3 DEF Answer
    <2>5. UNCHANGED <<clock, wire>>
        BY <2>1 DEF Serve
    <2>6. events \in Seq(Known(1 .. Len(feed))) /\ ListsOnce(events)
        BY <1>0, FeedForProperties
    <2>7. d.offset \in Nat /\ PageSize \in Nat
        BY <2>2, CallFields, PageSizeAssumption
    <2>8. ListsOnce(page)
        <3> HIDE DEF events, d
        <3> QED
            BY <2>6, <2>7, PageOfFeed
    <2>9. c.filter # UnreadOnly =>
            c.answer.events = Page(FeedFor(G[c.answer.at], {}, c.context, c.filter), c.offset, PageSize)
        <3> SUFFICES ASSUME c.filter # UnreadOnly
                     PROVE  page = Page(FeedFor(feed, {}, d.context, d.filter), d.offset, PageSize)
            <4>1. G[clock] = feed
                BY <1>0
            <4> HIDE DEF page, d
            <4> QED
                BY <2>3, <2>4, <4>1
        <3>1. d.filter # UnreadOnly
            BY <2>3
        <3> HIDE DEF d
        <3>2. FeedFor(feed, unread, d.context, d.filter) = FeedFor(feed, {}, d.context, d.filter)
            BY <3>1, SameFeedFor
        <3> QED
            BY <3>2
    <2>10. c.answer.at \in 0 .. clock'
        BY <1>0, <2>4, <2>5
    <2>11. \A s \in c.answer.at + 1 .. clock' : \E k \in wire' : k.seq = s
        BY <1>0, <2>4, <2>5
    <2> QED
        BY <2>4, <2>8, <2>9, <2>10, <2>11
<1> QED
    BY RequestsKept, <1>1, <1>2, <1>3

LEMMA HistoryKept ==
    ASSUME TypeInv, NEW F, HistoryInv(F), UNCHANGED <<feed, clock>>, wire' \subseteq wire
    PROVE  HistoryInv(F)'
BY DEF HistoryInv

(* The history goes on with what is published.                             *)
LEMMA HistoryGrows ==
    ASSUME TypeInv, NEW F, HistoryInv(F), PublishesStep
    PROVE  \E G : /\ HistoryInv(G)' /\ clock' = clock + 1
                  /\ \A n \in 0 .. clock : G[n] = F[n]
<1>0. clock \in Nat /\ IsFeed(feed) /\ WireTypes
    BY TypeFacts DEF TypeInv
<1>1. /\ IsFeed(feed') /\ clock' = clock + 1 /\ Len(feed') \in Nat /\ Len(feed) \in Nat
      /\ Len(feed) <= Len(feed')
      /\ \A m \in wire' : m \in wire \/ (m.seq = clock + 1 /\ (m.kind = "new" => m.event.id = Len(feed) + 1))
    <2>1. ASSUME NEW p \in Publications, Publish(p)
          PROVE  /\ IsFeed(feed') /\ clock' = clock + 1 /\ Len(feed') = Len(feed) + 1
                 /\ \A m \in wire' : m \in wire \/ (m.seq = clock + 1 /\ m.event.id = Len(feed) + 1)
        <3>1. /\ IsFeed(feed') /\ Len(feed') = Len(feed) + 1 /\ clock' = clock + 1
              /\ \E event : event.id = Len(feed) + 1 /\ wire' = wire \union Broadcast("new", event)
            BY <2>1, PublishTypes DEF Publish
        <3> QED
            BY <3>1 DEF Broadcast
    <2>2. ASSUME NEW i \in DOMAIN feed, NEW l \in Looks, Update(i, l)
          PROVE  /\ IsFeed(feed') /\ clock' = clock + 1 /\ Len(feed') = Len(feed)
                 /\ \A m \in wire' : m \in wire \/ (m.seq = clock + 1 /\ m.kind = "updated")
        <3>1. /\ IsFeed(feed') /\ Len(feed') = Len(feed) /\ clock' = clock + 1
              /\ \E event : wire' = wire \union Broadcast("updated", event)
            BY <2>2, UpdateTypes DEF Update
        <3> QED
            BY <3>1 DEF Broadcast
    <2>3. Len(feed) \in Nat
        BY <1>0, FeedFacts
    <2> QED
        BY <2>1, <2>2, <2>3 DEF PublishesStep
<1>2. \E G : G = [n \in Nat |-> IF n = clock + 1 THEN feed' ELSE F[n]]
    OBVIOUS
<1>3. PICK G : G = [n \in Nat |-> IF n = clock + 1 THEN feed' ELSE F[n]]
    BY <1>2
<1>4. feed' \in Seq(Event) /\ F \in [Nat -> Seq(Event)]
    BY <1>1 DEF IsFeed, HistoryInv
<1>5. G \in [Nat -> Seq(Event)]
    BY <1>3, <1>4
<1>6. clock + 1 \in Nat /\ G[clock + 1] = feed' /\ \A n \in 0 .. clock : G[n] = F[n]
    BY <1>0, <1>3
<1>7. \A n \in 0 .. clock : IsFeed(G[n]) /\ Len(G[n]) <= Len(feed) /\ Len(G[n]) \in Nat
    BY <1>6, FeedFacts DEF HistoryInv
<1>8. \A n \in 0 .. clock + 1 : IsFeed(G[n]) /\ Len(G[n]) <= Len(feed')
    <2> SUFFICES ASSUME NEW n \in 0 .. clock + 1 PROVE IsFeed(G[n]) /\ Len(G[n]) <= Len(feed')
        OBVIOUS
    <2>1. CASE n = clock + 1
        BY <1>1, <1>6, <2>1
    <2>2. CASE n # clock + 1
        <3>1. n \in 0 .. clock
            BY <1>0, <2>2
        <3> QED
            BY <1>1, <1>7, <3>1
    <2> QED
        BY <2>1, <2>2
<1>9. ASSUME NEW m \in wire', m.kind = "new", NEW n \in 0 .. m.seq - 1
      PROVE  m.event.id \notin IdsOf(G[n])
    <2>1. CASE m \in wire
        <3>1. m.seq \in 1 .. clock
            BY <1>0, <2>1 DEF WireTypes
        <3>2. n \in 0 .. clock
            BY <1>0, <3>1
        <3> QED
            BY <1>6, <1>9, <2>1, <3>2 DEF HistoryInv
    <2>2. CASE m \notin wire
        <3>1. m.seq = clock + 1 /\ m.event.id = Len(feed) + 1
            BY <1>1, <1>9, <2>2
        <3>2. n \in 0 .. clock
            BY <1>0, <3>1
        <3>3. IdsOf(G[n]) = 1 .. Len(G[n]) /\ Len(G[n]) <= Len(feed)
            BY <1>7, <3>2 DEF IsFeed
        <3> QED
            BY <1>1, <1>7, <3>1, <3>2, <3>3
    <2> QED
        BY <2>1, <2>2
<1>10. HistoryInv(G)'
    BY <1>1, <1>5, <1>6, <1>8, <1>9 DEF HistoryInv
<1> QED
    BY <1>1, <1>6, <1>10

-----------------------------------------------------------------------------
(* What the list holds                                                     *)

LEMMA GhostOfStep ==
    ASSUME TypeInv
    PROVE  /\ \A i \in DOMAIN calls : ReceiveFailure(i) => SameGhost
           /\ \A m \in wire : Deliver(m) =>
                /\ ghost'.context = ghost.context /\ ghost'.filter = ghost.filter
                /\ ghost'.at = ghost.at /\ ghost'.shifted = ghost.shifted
                /\ m.event.id \in ghost'.pushed /\ (ghost.behind => ghost'.behind)
           /\ \A p \in Parents : Hydrate(p) => ghost'.shifted /\ ghost'.at = ghost.at
           /\ \A i \in DOMAIN calls : ReceiveEvents(i) /\ calls[i].kind = "page" =>
                /\ ghost'.context = calls[i].context /\ ghost'.filter = calls[i].filter
                /\ ghost'.at = calls[i].answer.at /\ ghost'.pushed = {} /\ ~ghost'.shifted
                /\ ghost'.behind = calls[i].overtaken
           /\ \A i \in DOMAIN calls : ReceiveEvents(i) /\ calls[i].kind = "more" =>
                ghost'.at = ghost.at
<1>0. ghost \in Ghosts
    BY TypeFacts
<1>1. ASSUME NEW i \in DOMAIN calls, ReceiveFailure(i) PROVE SameGhost
    BY <1>0, <1>1, GhostFields DEF ReceiveFailure, SameGhost
<1>2. ASSUME NEW m \in wire, Deliver(m)
      PROVE  /\ ghost'.context = ghost.context /\ ghost'.filter = ghost.filter
             /\ ghost'.at = ghost.at /\ ghost'.shifted = ghost.shifted
             /\ m.event.id \in ghost'.pushed /\ (ghost.behind => ghost'.behind)
    BY <1>0, <1>2 DEF Deliver, Ghosts
<1>3. ASSUME NEW p \in Parents, Hydrate(p) PROVE ghost'.shifted /\ ghost'.at = ghost.at
    <2>1. ghost' = [ghost EXCEPT !.behind = TRUE, !.shifted = TRUE]
        BY <1>3, HydrateEffect
    <2> QED
        BY <1>0, <2>1 DEF Ghosts
<1>4. ASSUME NEW i \in DOMAIN calls, ReceiveEvents(i), calls[i].kind = "page"
      PROVE  /\ ghost'.context = calls[i].context /\ ghost'.filter = calls[i].filter
             /\ ghost'.at = calls[i].answer.at /\ ghost'.pushed = {} /\ ~ghost'.shifted
             /\ ghost'.behind = calls[i].overtaken
    BY <1>4 DEF ReceiveEvents
<1>5. ASSUME NEW i \in DOMAIN calls, ReceiveEvents(i), calls[i].kind = "more"
      PROVE  ghost'.at = ghost.at
    BY <1>0, <1>5 DEF ReceiveEvents, Ghosts
<1> QED
    BY <1>1, <1>2, <1>3, <1>4, <1>5

(* A step that leaves the list as it is.                                   *)
LEMMA SameHeld ==
    ASSUME NEW F, NEW G, HeldInv(F), G[ghost.at] = F[ghost.at],
           store'.events = store.events, SameGhost, Unrevised' => Unrevised,
           Unrevised' /\ ~ghost.behind /\ ghost.context # NoView =>
               \A s \in ghost.at + 1 .. clock' : \E m \in wire' : m.seq = s
    PROVE  HeldInv(G)'
<1>1. ListsOnce(store'.events)
    BY DEF HeldInv
<1>2. ASSUME ghost'.filter # UnreadOnly, ghost'.pushed = {} \/ Unrevised' PROVE ListedAt(G)'
    BY <1>2 DEF HeldInv, ListedAt, SameGhost
<1>3. ASSUME Unrevised', ~ghost'.behind, ghost'.context # NoView PROVE OnWire(ghost.at)'
    BY <1>3 DEF SameGhost, OnWire
<1> QED
    BY <1>1, <1>2, <1>3 DEF HeldInv

(* The list after an answer that replaces it.                              *)
LEMMA HeldOfPage ==
    ASSUME TypeInv, ContextInv, NEW F, ListInv(F), NEW i \in DOMAIN calls, ReceiveEvents(i),
           calls[i].kind = "page"
    PROVE  HeldInv(F)' /\ ghost'.at \in 0 .. clock
<1> DEFINE call == calls[i]
           f == FeedFor(F[call.answer.at], {}, call.context, call.filter)
<1>1. /\ call \in Calls(Published) /\ call \in Answered
      /\ store'.events = IF call.offset > 0 THEN store.events \o call.answer.events
                         ELSE call.answer.events
    BY ReceiveEventsEffect DEF Answered, InFlight
<1>2. call.offset = 0
    BY <1>1 DEF ContextInv, PagesAreAsked, Answered
<1>3. store'.events = call.answer.events
    BY <1>1, <1>2
<1>4. /\ call.answer.at \in 0 .. clock /\ ListsOnce(call.answer.events)
      /\ call.filter # UnreadOnly => call.answer.events = Page(f, 0, PageSize)
      /\ ~call.overtaken => OnWire(call.answer.at)
    BY <1>1, <1>2 DEF ListInv, AnswerInv
<1>5. UNCHANGED <<clock, wire>>
    BY DEF ReceiveEvents, server
<1>6. /\ ghost'.context = call.context /\ ghost'.filter = call.filter
      /\ ghost'.at = call.answer.at /\ ghost'.behind = call.overtaken
    BY GhostOfStep
<1>7. ASSUME call.filter # UnreadOnly
      PROVE  call.answer.events = Page(f, 0, Len(call.answer.events))
    <2>1. IsFeed(F[call.answer.at])
        BY <1>4 DEF ListInv, HistoryInv
    <2>2. f \in Seq(Known(1 .. Len(F[call.answer.at])))
        BY <2>1, FeedForProperties
    <2>3. call.answer.events = Page(f, 0, PageSize)
        BY <1>4, <1>7
    <2> HIDE DEF f, call
    <2> QED
        BY <2>2, <2>3, PageOfItsLength, PageSizeAssumption
<1>8. ghost'.filter # UnreadOnly => ListedAt(F)'
    <2> HIDE DEF call
    <2> QED
        BY <1>3, <1>6, <1>7 DEF ListedAt, f
<1>9. ~ghost'.behind => OnWire(ghost.at)'
    <2> HIDE DEF call
    <2> QED
        BY <1>4, <1>5, <1>6 DEF OnWire
<1> QED
    BY <1>3, <1>4, <1>6, <1>8, <1>9 DEF HeldInv

(* The list after an older page that continues it.                         *)
LEMMA HeldOfMore ==
    ASSUME TypeInv, NEW F, ListInv(F), NEW i \in DOMAIN calls, ReceiveEvents(i),
           calls[i].kind = "more", ~ghost'.shifted
    PROVE  HeldInv(F)'
<1> DEFINE call == calls[i]
           f == FeedFor(F[ghost.at], {}, ghost.context, ghost.filter)
           r == store.events \o Page(f, Len(store.events), PageSize)
<1>1. /\ ~ghost.shifted /\ SameGhost
      /\ call.context = ghost.context /\ ghost.context # NoView
      /\ call.filter = ghost.filter /\ ghost.filter # UnreadOnly
      /\ call.answer.at = ghost.at /\ call.offset = Len(store.events)
      /\ ghost.pushed = {} /\ ~ghost.behind
    BY MoreContinues
<1>2. /\ call \in Calls(Published) /\ call \in Answered
      /\ store'.events = IF call.offset > 0 THEN store.events \o call.answer.events
                         ELSE call.answer.events
      /\ store'.websocketRevision = store.websocketRevision
    BY ReceiveEventsEffect DEF Answered, InFlight
<1>3. UNCHANGED <<clock, wire, rhs>>
    BY DEF ReceiveEvents, server
<1>4. ghost.at \in 0 .. clock /\ IsFeed(F[ghost.at]) /\ HeldInv(F)
    BY <1>1 DEF ListInv, HistoryInv
<1> DEFINE K == Known(1 .. Len(F[ghost.at]))
<1>5. f \in Seq(K) /\ ListsOnce(f)
    BY <1>4, FeedForProperties
<1>6. store.events = Page(f, 0, Len(store.events))
    BY <1>1, <1>4 DEF HeldInv, ListedAt
<1>7. call.answer.events = Page(f, Len(store.events), PageSize)
    BY <1>1, <1>2 DEF ListInv, AnswerInv
<1>8. store.events \in Seq(Known(Published)) /\ PageSize \in Nat
    BY TypeFacts, PageSizeAssumption
<1> HIDE DEF f, call
<1>9. Len(store.events) \in Nat
    BY <1>8, LenProperties
<1>10. store.events \in Seq(K)
    <2>1. Page(f, 0, Len(store.events)) \in Seq(K)
        BY <1>5, <1>9, PageOfFeed
    <2> QED
        BY <1>6, <2>1
<1>11. store'.events = r
    <2>1. CASE Len(store.events) = 0
        <3>1. store.events = << >>
            BY <1>8, <2>1, EmptySeq
        <3>2. call.answer.events \in Seq(K)
            BY <1>5, <1>7, <1>9, <1>8, PageOfFeed
        <3>3. << >> \o call.answer.events = call.answer.events
            BY <3>2
        <3>4. store'.events = call.answer.events
            BY <1>1, <1>2, <2>1
        <3> QED
            BY <1>7, <3>1, <3>3, <3>4
    <2>2. CASE Len(store.events) # 0
        <3>1. call.offset > 0
            BY <1>1, <1>9, <2>2
        <3> QED
            BY <1>2, <1>7, <3>1
    <2> QED
        BY <2>1, <2>2
<1>12. r \in Seq(K) /\ r = Page(f, 0, Len(r))
    BY <1>5, <1>6, <1>8, <1>10, PagesJoin
<1> HIDE DEF r
<1>13. Len(r) \in Nat
    BY <1>12, LenProperties
<1>14. ListsOnce(r)
    BY <1>5, <1>12, <1>13, PageOfFeed
<1>15. ListedAt(F)'
    BY <1>1, <1>11, <1>12 DEF ListedAt, SameGhost, f
<1>16. ASSUME Unrevised', ~ghost'.behind, ghost'.context # NoView PROVE OnWire(ghost.at)'
    BY <1>1, <1>2, <1>3, <1>4, <1>16 DEF HeldInv, Unrevised, SameGhost, OnWire
<1> QED
    BY <1>11, <1>14, <1>15, <1>16 DEF HeldInv

(* The list after a message.                                               *)
LEMMA HeldOfMessage ==
    ASSUME TypeInv, FetchInv, NEW F, ListInv(F), NEW m \in wire, Deliver(m), ~ghost.shifted
    PROVE  HeldInv(F)'
<1>1. /\ m.event \in Known(Published) /\ m.seq \in 1 .. clock /\ m.kind \in {"new", "updated"}
      /\ m.kind = "new" /\ m.event.id \in IdsOf(store.events) =>
           /\ store'.events = store.events
           /\ store'.websocketRevision = store.websocketRevision
      /\ m.kind = "new" /\ m.event.id \notin IdsOf(store.events) =>
           /\ store'.events = <<m.event>> \o store.events
           /\ store'.websocketRevision = store.websocketRevision + 1
      /\ m.kind = "updated" =>
           /\ store'.events = <<Merged(m.event, store.events)>> \o Without(store.events, m.event.id)
           /\ store'.websocketRevision = store.websocketRevision + 1
    BY DeliverEffect
<1>2. /\ ghost'.context = ghost.context /\ ghost'.filter = ghost.filter
      /\ ghost'.at = ghost.at /\ ghost'.pushed # {} /\ (ghost.behind => ghost'.behind)
    BY GhostOfStep
<1>3. /\ HeldInv(F) /\ ghost.at \in 0 .. clock /\ IsFeed(F[ghost.at]) /\ clock \in Nat
      /\ store.events \in Seq(Known(Published)) /\ store.websocketRevision \in Nat
      /\ rhs.lastRevision \in Nat /\ rhs' = rhs
    BY TypeFacts, StoreFields, SidebarFields DEF ListInv, HistoryInv, Deliver
<1>4. ASSUME store'.websocketRevision = store.websocketRevision + 1 PROVE ~Unrevised'
    <2>1. rhs.lastRevision <= store.websocketRevision
        BY DEF FetchInv
    <2>2. rhs.lastRevision # store.websocketRevision + 1
        BY <1>3, <2>1
    <2> QED
        BY <1>3, <1>4, <2>2 DEF Unrevised
<1>5. CASE m.kind = "new" /\ m.event.id \notin IdsOf(store.events)
    <2>1. ListsOnce(store'.events)
        BY <1>1, <1>3, <1>5, FirstOnce DEF HeldInv
    <2> QED
        BY <1>1, <1>2, <1>4, <1>5, <2>1 DEF HeldInv
<1>6. CASE m.kind = "updated"
    <2> DEFINE merged == Merged(m.event, store.events)
    <2>1. merged \in Known(Published) /\ merged.id = m.event.id
        BY <1>1, <1>3, MergedProperties
    <2>2. store'.events = <<merged>> \o Without(store.events, merged.id)
        BY <1>1, <1>6, <2>1
    <2> HIDE DEF merged
    <2>3. ListsOnce(store'.events)
        <3>1. ListsOnce(store.events)
            BY <1>3 DEF HeldInv
        <3>2. ListsOnce(<<merged>> \o Without(store.events, merged.id))
            BY <1>3, <2>1, <3>1, MovedFirst
        <3> QED
            BY <2>2, <3>2
    <2> QED
        BY <1>1, <1>2, <1>4, <1>6, <2>3 DEF HeldInv
<1>7. CASE m.kind = "new" /\ m.event.id \in IdsOf(store.events)
    <2>1. store'.events = store.events /\ store'.websocketRevision = store.websocketRevision
        BY <1>1, <1>7
    <2>2. Unrevised' => Unrevised
        BY <1>3, <2>1 DEF Unrevised
    <2>3. ASSUME Unrevised', ghost'.filter # UnreadOnly PROVE ListedAt(F)'
        BY <1>2, <1>3, <2>1, <2>2, <2>3 DEF HeldInv, ListedAt
    <2>4. ASSUME Unrevised', ~ghost'.behind, ghost'.context # NoView PROVE OnWire(ghost.at)'
        <3> DEFINE f == FeedFor(F[ghost.at], {}, ghost.context, ghost.filter)
        <3>1. ghost.context # NoView /\ ~ghost.behind /\ Unrevised
            BY <1>2, <2>2, <2>4
        <3>2. ghost.filter # UnreadOnly
            BY <3>1, FiltersAssumption DEF FetchInv, Unrevised, Filters
        <3>3. store.events = Page(f, 0, Len(store.events)) /\ OnWire(ghost.at)
            BY <1>3, <3>1, <3>2 DEF HeldInv, ListedAt
        <3>4. /\ f \in Seq(Known(1 .. Len(F[ghost.at])))
              /\ Elements(f) \subseteq Elements(F[ghost.at])
            BY <1>3, FeedForProperties DEF Elements
        <3> HIDE DEF f
        <3>5. Elements(store.events) \subseteq Elements(f)
            <4>1. Len(store.events) \in Nat
                BY <1>3, LenProperties
            <4>2. Elements(Page(f, 0, Len(store.events))) \subseteq Elements(f)
                BY <3>4, <4>1, PageOfFeed
            <4> QED
                BY <3>3, <4>2
        <3>6. m.event.id \in IdsOf(F[ghost.at])
            <4>1. PICK k \in DOMAIN store.events : store.events[k].id = m.event.id
                BY <1>7 DEF IdsOf
            <4>2. store.events[k] \in Elements(F[ghost.at])
                BY <3>4, <3>5 DEF Elements
            <4> QED
                BY <4>1, <4>2 DEF IdsOf, Elements
        <3>7. ghost.at \notin 0 .. m.seq - 1
            BY <1>7, <3>6 DEF ListInv, HistoryInv
        <3> DEFINE n == ghost.at
        <3>8. n \in Nat /\ n <= clock /\ n >= m.seq
            BY <1>1, <1>3, <3>7
        <3>9. \A s \in n + 1 .. clock : \E k \in wire : k.seq = s
            BY <3>3 DEF OnWire
        <3> HIDE DEF n
        <3>10. \A s \in n + 1 .. clock' : \E k \in wire' : k.seq = s
            BY <3>8, <3>9, WireTold
        <3> QED
            BY <1>2, <3>10 DEF OnWire, n
    <2> QED
        BY <1>2, <1>3, <2>1, <2>3, <2>4 DEF HeldInv
<1> QED
    BY <1>1, <1>5, <1>6, <1>7

LEMMA Unpublished ==
    ASSUME TypeInv, SidebarStarts, [Next]_vars, ~PublishesStep
    PROVE  UNCHANGED <<feed, clock>> /\ (UNCHANGED wire \/ \E m \in wire : Deliver(m))
<1>1. CASE Quiet \/ Unfetched
    BY <1>1 DEF Quiet, Unfetched
<1>2. CASE Effects
    BY <1>2 DEF Effects, server
<1>3. ASSUME NEW i \in DOMAIN calls, ReceiveEvents(i) \/ ReceiveFailure(i)
      PROVE  UNCHANGED <<feed, clock, wire>>
    BY <1>3 DEF ReceiveEvents, ReceiveFailure, server
<1>4. ASSUME NEW m \in wire, Deliver(m) PROVE UNCHANGED <<feed, clock>>
    BY <1>4 DEF Deliver, server
<1>5. ASSUME NEW p \in Parents, Hydrate(p) PROVE UNCHANGED <<feed, clock, wire>>
    BY <1>5 DEF Hydrate, server
<1> QED
    BY Steps, <1>1, <1>2, <1>3, <1>4, <1>5

LEMMA NotPublishing ==
    ASSUME TypeInv
    PROVE  PublishesStep =>
             /\ ~(Effects /\ FetchDue)
             /\ \A i \in DOMAIN calls : ~ReceiveEvents(i)
             /\ \A m \in wire : ~Deliver(m)
<1>1. ASSUME PublishesStep PROVE clock' = clock + 1
    BY <1>1 DEF PublishesStep, Publish, Update
<1>2. clock \in Nat
    BY TypeFacts
<1>3. clock' = clock => ~PublishesStep
    BY <1>1, <1>2
<1>4. Effects => clock' = clock
    BY DEF Effects, server
<1>5. ASSUME NEW i \in DOMAIN calls, ReceiveEvents(i) PROVE clock' = clock
    BY <1>5 DEF ReceiveEvents, server
<1>6. ASSUME NEW m \in wire, Deliver(m) PROVE clock' = clock
    BY <1>6 DEF Deliver, server
<1> QED
    BY <1>3, <1>4, <1>5, <1>6

LEMMA HeldKept ==
    ASSUME TypeInv, ContextInv, FetchInv, NEW F, ListInv(F), [Next]_vars,
           NEW G, G[ghost.at] = F[ghost.at], ~PublishesStep => G = F
    PROVE  /\ ~ghost'.shifted => HeldInv(G)'
           /\ ghost'.at \in 0 .. clock
<1>0. /\ SidebarStarts /\ ghost.at \in 0 .. clock /\ (~ghost.shifted => HeldInv(F)) /\ clock \in Nat
    BY TypeFacts DEF ContextInv, ListInv
<1> DEFINE n == ghost.at
           Told(w, c) == \A s \in n + 1 .. c : \E m \in w : m.seq = s
<1>1. ~ghost.shifted /\ Unrevised /\ ~ghost.behind /\ ghost.context # NoView => Told(wire, clock)
    BY <1>0 DEF HeldInv, OnWire
<1>2. ASSUME store'.events = store.events, SameGhost, Unrevised' => Unrevised,
             Told(wire, clock) => Told(wire', clock')
      PROVE  /\ ~ghost'.shifted => HeldInv(G)'
             /\ ghost'.at \in 0 .. clock
    <2>1. ghost'.shifted = ghost.shifted /\ ghost'.at = ghost.at
        BY <1>2 DEF SameGhost
    <2>2. ASSUME ~ghost.shifted PROVE HeldInv(G)'
        BY <1>0, <1>1, <1>2, <2>2, SameHeld
    <2> QED
        BY <1>0, <2>1, <2>2
<1>3. CASE Quiet
    <2>1. Unrevised' => Unrevised
        BY <1>3 DEF Quiet, SameView, Unrevised
    <2>2. Told(wire, clock) => Told(wire', clock')
        BY <1>3 DEF Quiet
    <2> HIDE DEF Told
    <2> QED
        BY <1>2, <1>3, <2>1, <2>2 DEF Quiet, SameView
<1>4. CASE Unfetched
    <2>1. Unrevised' => Unrevised
        BY <1>4, FiltersAssumption DEF Unfetched, Unrevised, Filters
    <2>2. Told(wire, clock) => Told(wire', clock')
        BY <1>4 DEF Unfetched
    <2>3. SameGhost
        BY <1>4 DEF Unfetched, SameGhost
    <2> HIDE DEF Told
    <2> QED
        BY <1>2, <1>4, <2>1, <2>2, <2>3 DEF Unfetched
<1>5. CASE Effects /\ FetchDue
    <2>1. UNCHANGED <<clock, wire>> /\ store'.websocketRevision = store.websocketRevision
        BY <1>5, FetchFacts DEF Effects, server, SameView
    <2>2. Told(wire, clock) => Told(wire', clock')
        BY <2>1
    <2> DEFINE same == store.view = Current /\ rhs.lastFilter = rhs.filter
                       /\ rhs.lastRevision = Deps.revision
    <2>3. CASE Current.team = NoTeam \/ same
        <3>1. SameView(store', store) /\ SameGhost
            BY <1>5, <2>3, FetchFacts
        <3>2. rhs'.lastFilter = rhs.lastFilter /\ rhs'.lastRevision = rhs.lastRevision
            BY <1>5, <2>3, FetchFacts
        <3>3. Unrevised' => Unrevised
            BY <3>1, <3>2 DEF SameView, Unrevised
        <3> HIDE DEF Told
        <3> QED
            BY <1>2, <2>2, <3>1, <3>3 DEF SameView
    <2>4. CASE Current.team # NoTeam /\ ~same
        <3>1. /\ store'.events = << >> /\ ghost'.context = NoView /\ ghost'.filter = NoFilter
              /\ ghost'.at = 0
            BY <1>5, <2>4, FetchFacts
        <3>2. 0 \in 0 .. clock /\ IsFeed(F[0])
            BY <1>0 DEF ListInv, HistoryInv
        <3>3. G = F
            <4>1. ~PublishesStep
                BY <1>0, <1>5, NotPublishing
            <4> QED
                BY <4>1
        <3>4. FeedFor(F[0], {}, NoView, NoFilter) \in Seq(Known(1 .. Len(F[0])))
            BY <3>2, FeedForProperties
        <3>5. ListedAt(G)'
            BY <3>1, <3>3, <3>4, EmptyPage DEF ListedAt
        <3>6. ListsOnce(store'.events)
            BY <3>1 DEF ListsOnce
        <3> QED
            BY <3>1, <3>2, <3>5, <3>6 DEF HeldInv
    <2> QED
        BY <2>3, <2>4
<1>6. CASE PublishesStep
    <2>1. Unrevised' => Unrevised
        BY <1>6 DEF PublishesStep, Unrevised
    <2>2. Told(wire, clock) => Told(wire', clock')
        <3>1. n \in Nat /\ n <= clock
            BY <1>0
        <3> HIDE DEF n
        <3> QED
            BY <1>6, <3>1, WireTold
    <2>3. SameGhost /\ store' = store
        BY <1>6 DEF PublishesStep, SameGhost
    <2> HIDE DEF Told
    <2> QED
        BY <1>2, <2>1, <2>2, <2>3
<1>7. ASSUME NEW i \in DOMAIN calls, ReceiveEvents(i)
      PROVE  /\ ~ghost'.shifted => HeldInv(G)'
             /\ ghost'.at \in 0 .. clock
    <2>1. G = F
        BY <1>0, <1>7, NotPublishing
    <2>2. calls[i].kind \in {"page", "more"}
        BY <1>7 DEF ReceiveEvents
    <2> QED
        BY <1>0, <1>7, <2>1, <2>2, HeldOfPage, HeldOfMore, GhostOfStep
<1>8. ASSUME NEW i \in DOMAIN calls, ReceiveFailure(i)
      PROVE  /\ ~ghost'.shifted => HeldInv(G)'
             /\ ghost'.at \in 0 .. clock
    <2>1. /\ store'.events = store.events /\ store'.websocketRevision = store.websocketRevision
          /\ SameGhost
        BY <1>8, ReceiveFailureEffect, GhostOfStep
    <2>2. UNCHANGED <<rhs, clock, wire>>
        BY <1>8 DEF ReceiveFailure, server
    <2>3. Unrevised' => Unrevised
        BY <2>1, <2>2 DEF Unrevised
    <2>4. Told(wire, clock) => Told(wire', clock')
        BY <2>2
    <2> HIDE DEF Told
    <2> QED
        BY <1>2, <2>1, <2>3, <2>4
<1>9. ASSUME NEW m \in wire, Deliver(m)
      PROVE  /\ ~ghost'.shifted => HeldInv(G)'
             /\ ghost'.at \in 0 .. clock
    <2>1. G = F
        BY <1>0, <1>9, NotPublishing
    <2>2. ghost'.shifted = ghost.shifted /\ ghost'.at = ghost.at
        BY <1>9, GhostOfStep
    <2> QED
        BY <1>0, <1>9, <2>1, <2>2, HeldOfMessage
<1>10. ASSUME NEW p \in Parents, Hydrate(p)
       PROVE  /\ ~ghost'.shifted => HeldInv(G)'
              /\ ghost'.at \in 0 .. clock
    BY <1>0, <1>10, GhostOfStep
<1> QED
    BY Steps, <1>0, <1>3, <1>4, <1>5, <1>6, <1>7, <1>8, <1>9, <1>10

(* The history goes on, and what was shown of it stays so.                 *)
LEMMA ListKept ==
    ASSUME TypeInv, ContextInv, FetchInv, NEW F, ListInv(F), [Next]_vars
    PROVE  \E G : ListInv(G)'
<1>0. /\ SidebarStarts /\ clock \in Nat /\ clock' \in Nat
      /\ HistoryInv(F) /\ AnswerInv(F) /\ F[clock] = feed /\ ghost.at \in 0 .. clock
    <2>1. TypeInv'
        BY TypesAreKept
    <2>2. clock' \in Nat
        BY <2>1 DEF TypeInv, ServerTypes
    <2> QED
        BY <2>2, TypeFacts DEF ContextInv, ListInv, HistoryInv
<1>1. CASE PublishesStep
    <2>1. PICK G : /\ HistoryInv(G)' /\ clock' = clock + 1
                   /\ \A n \in 0 .. clock : G[n] = F[n]
        BY <1>0, <1>1, HistoryGrows
    <2>2. AnswerInv(G)'
        BY <1>0, <1>1, <2>1, AnswersKept
    <2>3. /\ ~ghost'.shifted => HeldInv(G)'
          /\ ghost'.at \in 0 .. clock
        BY <1>0, <1>1, <2>1, HeldKept
    <2>4. ghost'.at \in 0 .. clock'
        BY <1>0, <2>1, <2>3
    <2> QED
        BY <2>1, <2>2, <2>3, <2>4 DEF ListInv
<1>2. CASE ~PublishesStep
    <2>1. UNCHANGED <<feed, clock>> /\ (UNCHANGED wire \/ \E m \in wire : Deliver(m))
        BY <1>0, <1>2, Unpublished
    <2>2. HistoryInv(F)'
        <3>1. wire' \subseteq wire
            BY <2>1 DEF Deliver
        <3> QED
            BY <1>0, <2>1, <3>1, HistoryKept
    <2>3. AnswerInv(F)'
        BY <1>0, <2>1, AnswersKept
    <2>4. /\ ~ghost'.shifted => HeldInv(F)'
          /\ ghost'.at \in 0 .. clock
        BY <1>2, HeldKept
    <2> QED
        BY <2>1, <2>2, <2>3, <2>4 DEF ListInv
<1> QED
    BY <1>1, <1>2

ListKnown == \E F : ListInv(F)

LEMMA ListInvariant ==
    /\ Init => ListKnown
    /\ TypeInv /\ ContextInv /\ FetchInv /\ ListKnown /\ [Next]_vars => ListKnown'
<1>1. ASSUME Init PROVE ListKnown
    <2>1. /\ rhs = Unmounted /\ ghost = NoPage /\ wire = {} /\ clock = 0
          /\ store.events = << >> /\ InFlight = {}
        BY <1>1, InitialSidebar
    <2>2. IsFeed(feed)
        BY <1>1, InitialTypes DEF TypeInv, ServerTypes
    <2>3. PICK F : F = [n \in Nat |-> feed]
        OBVIOUS
    <2>4. F \in [Nat -> Seq(Event)] /\ F[0] = feed
        BY <2>2, <2>3 DEF IsFeed
    <2>5. Len(feed) \in Nat
        BY <2>2, FeedFacts
    <2>6. HistoryInv(F)
        BY <2>1, <2>2, <2>4, <2>5 DEF HistoryInv
    <2>7. AnswerInv(F)
        BY <2>1 DEF AnswerInv, Answered
    <2>8. ListedAt(F)
        <3>1. ghost.at = 0 /\ ghost.context = NoView /\ ghost.filter = NoFilter
            BY <2>1 DEF NoPage
        <3>2. FeedFor(F[0], {}, NoView, NoFilter) \in Seq(Known(1 .. Len(F[0])))
            BY <2>2, <2>4, FeedForProperties
        <3> QED
            BY <2>1, <3>1, <3>2, EmptyPage DEF ListedAt
    <2>9. HeldInv(F) /\ ghost.at \in 0 .. clock
        BY <2>1, <2>8 DEF HeldInv, ListsOnce, NoPage
    <2>10. ListInv(F)
        BY <2>6, <2>7, <2>9 DEF ListInv
    <2> QED
        BY <2>10 DEF ListKnown
<1>2. ASSUME TypeInv, ContextInv, FetchInv, ListKnown, [Next]_vars PROVE ListKnown'
    <2>1. PICK F : ListInv(F)
        BY <1>2 DEF ListKnown
    <2>2. PICK G : ListInv(G)'
        BY <1>2, <2>1, ListKept
    <2> QED
        BY <2>2 DEF ListKnown
<1> QED
    BY <1>1, <1>2

LEMMA HistoryHolds == Spec => [](TypeInv /\ ContextInv /\ FetchInv /\ ListKnown)
<1>1. Init => TypeInv /\ ContextInv /\ FetchInv /\ ListKnown
    BY InitialTypes, ContextInvariant, FetchInvariant, ListInvariant
<1>2. /\ TypeInv /\ ContextInv /\ FetchInv /\ ListKnown
      /\ [Next]_vars
      => (TypeInv /\ ContextInv /\ FetchInv /\ ListKnown)'
    BY TypesAreKept, ContextInvariant, FetchInvariant, ListInvariant
<1> QED
    BY <1>1, <1>2, PTL DEF Spec

(* No event is listed twice, in whatever order answers and messages come   *)
(* in, unless an older page was appended to another list (reducer.ts, root *)
(* reducer and events).                                                    *)
THEOREM NothingListedTwice == Spec => []ListedOnce
<1>1. ListKnown => ListedOnce
    BY DEF ListKnown, ListInv, HeldInv, ListedOnce
<1> QED
    BY <1>1, HistoryHolds, PTL

(* When nothing is on its way, a filtered list is what the server would    *)
(* answer: the websocket makes the view ask again, and what the answer it  *)
(* shows did not know is still to be told (rhs_view.tsx eventRevision).    *)
THEOREM FilteredIsExact == Spec => []FilteredListIsExact
<1>1. ASSUME TypeInv, ContextInv, FetchInv, ListKnown PROVE FilteredListIsExact
    <2> SUFFICES ASSUME Settled, Shown, rhs.filter = PinnedOnly, ~ghost.behind
                 PROVE  store.events =
                          Page(FeedFor(feed, unread, Current, PinnedOnly), 0, Len(store.events))
        BY DEF FilteredListIsExact
    <2>1. PICK F : ListInv(F)
        BY <1>1 DEF ListKnown
    <2>2. /\ calls = << >> /\ wire = {} /\ ~FetchDue /\ rhs.mounted /\ Current.team # NoTeam
          /\ store.error = NoError /\ ~ghost.shifted
        BY DEF Settled, Shown, EffectsDue
    <2>3. /\ rhs.deps = Deps /\ Deps.context = Current /\ Deps.filter = rhs.filter
          /\ Deps \in [context : Views, filter : Filters, revision : Nat]
          /\ Deps.revision = IF rhs.filter = NoFilter THEN 0 ELSE store.websocketRevision
        BY <1>1, <2>2, ViewTypes DEF FetchDue
    <2>4. Fetched
        <3>1. Deps # << >>
            BY SMTT(30), <2>3
        <3> QED
            BY <2>2, <2>3, <3>1 DEF Fetched
    <2>5. Unrevised
        BY <1>1, <2>3, <2>4, FiltersAssumption DEF FetchInv, Unrevised
    <2>6. ~PageAsked
        BY <2>2 DEF PageAsked, InFlight, Elements
    <2>7. Current # NoView
        BY <2>2 DEF NoView
    <2>8. ghost.context = Current /\ ghost.filter = PinnedOnly
        BY <1>1, <2>2, <2>3, <2>4, <2>5, <2>6, <2>7, FiltersAssumption
        DEF FetchInv, Unrevised, Filters
    <2>9. HeldInv(F) /\ F[clock] = feed /\ ghost.at \in 0 .. clock /\ clock \in Nat
        BY <1>1, <2>1, <2>2, TypeFacts DEF ListInv, HistoryInv
    <2>10. ListedAt(F) /\ OnWire(ghost.at)
        BY <2>5, <2>7, <2>8, <2>9, FiltersAssumption DEF HeldInv
    <2>11. ghost.at = clock
        <3>1. ghost.at + 1 .. clock = {}
            BY <2>2, <2>10 DEF OnWire
        <3> QED
            BY <2>9, <3>1
    <2>12. FeedFor(feed, unread, Current, PinnedOnly) = FeedFor(feed, {}, Current, PinnedOnly)
        BY SameFeedFor, FiltersAssumption
    <2> QED
        BY <2>8, <2>9, <2>10, <2>11, <2>12 DEF ListedAt
<1> QED
    BY <1>1, HistoryHolds, PTL

-----------------------------------------------------------------------------
(* How current it is                                                       *)

(* An event is a version of a published one.                               *)
IsVersion(e, events) ==
    \E k \in DOMAIN events : /\ events[k].id = e.id /\ events[k].reactions = e.reactions
                             /\ e.version < events[k].version \/ e = events[k]

(* Whether a context lists the i-th event of a feed before the k-th one.   *)
Precedes(events, i, k, context) ==
    IF context.channel = NoChannel THEN events[i].id > events[k].id ELSE i < k

AheadOf(events, k, context) ==
    {events[j].id : j \in {i \in DOMAIN events : /\ Fits(events[i], context)
                                                /\ Precedes(events, i, k, context)}}

OffPage(events, k, context) == Cardinality(AheadOf(events, k, context)) >= PageSize

(* The events of the first page are in a list, or a message is about to    *)
(* tell a change that was made after n.                                    *)
ShowsPage(list, context, n, events, messages) ==
    \A k \in DOMAIN events : Fits(events[k], context) =>
        \/ events[k] \in Elements(list)
        \/ \E m \in messages : m.event = events[k] /\ m.seq > n
        \/ OffPage(events, k, context)

VersionInv ==
    /\ \A m \in wire : IsVersion(m.event, feed)
    /\ \A c \in Answered : \A e \in Elements(c.answer.events) : IsVersion(e, feed)
    /\ ~ghost.shifted => \A e \in Elements(store.events) : IsVersion(e, feed)

PageInv ==
    /\ \A c \in Answered :
         c.kind = "page" /\ c.filter = NoFilter /\ ~c.overtaken =>
             /\ c.answer.at \in 0 .. clock
             /\ ShowsPage(c.answer.events, c.context, c.answer.at, feed, wire)
    /\ ghost.filter = NoFilter /\ ghost.context # NoView /\ ~ghost.shifted /\ ~ghost.behind =>
         ShowsPage(store.events, ghost.context, 0, feed, wire)

-----------------------------------------------------------------------------
(* How many events come before one                                         *)

(* The order of the list a context is answered from.                       *)
LEMMA ListedOrder ==
    ASSUME NEW events, IsFeed(events), NEW context, NEW p \in DOMAIN events, NEW q \in DOMAIN events,
           NEW i \in DOMAIN events, NEW k \in DOMAIN events,
           Listed(events, context)[p] = events[i], Listed(events, context)[q] = events[k]
    PROVE  Precedes(events, i, k, context) <=> p < q
<1>1. /\ DOMAIN events = 1 .. Len(events) /\ Len(events) \in Nat
      /\ \A a, b \in DOMAIN events : events[a].id = events[b].id => a = b
    BY FeedFacts
<1>2. CASE context.channel = NoChannel
    <2> DEFINE L == Listed(events, context)
    <2>1. DOMAIN L = DOMAIN events /\ \A a \in DOMAIN L : L[a].id = Len(events) + 1 - a
        BY <1>2, ListedProperties
    <2>2. L[p] = events[i] /\ L[q] = events[k]
        OBVIOUS
    <2> HIDE DEF L
    <2>3. events[i].id = Len(events) + 1 - p /\ events[k].id = Len(events) + 1 - q
        BY <2>1, <2>2
    <2>4. p \in Nat /\ q \in Nat
        BY <1>1
    <2> QED
        BY <1>1, <1>2, <2>3, <2>4 DEF Precedes
<1>3. CASE context.channel # NoChannel
    <2>1. Listed(events, context) = events
        BY <1>3 DEF Listed
    <2>2. p = i /\ q = k
        BY <1>1, <2>1
    <2> QED
        BY <1>3, <2>2 DEF Precedes
<1> QED
    BY <1>2, <1>3

(* An event that fits a context is in its feed, after as many events as    *)
(* are ahead of it.                                                        *)
LEMMA PlaceInFeed ==
    ASSUME NEW events, IsFeed(events), NEW ids, NEW context,
           NEW k \in DOMAIN events, Fits(events[k], context)
    PROVE  LET f == FeedFor(events, ids, context, NoFilter) IN
           \E i \in DOMAIN f : /\ f[i] = events[k]
                               /\ Cardinality(AheadOf(events, k, context)) = i - 1
<1> DEFINE L == Listed(events, context)
           A == FeedFor(events, ids, context, NoFilter)
           T == {i \in DOMAIN events : Fits(L[i], context) /\ Matches(L[i], ids, NoFilter)}
           K == Known(1 .. Len(events))
<1>1. /\ A \in Seq(K) /\ Len(A) \in Nat /\ DOMAIN A = 1 .. Len(A) /\ ListsOnce(A)
      /\ \A i \in DOMAIN A : A[i] \in Elements(events) /\ Fits(A[i], context)
      /\ \A e \in Elements(events) :
           Fits(e, context) /\ Matches(e, ids, NoFilter) => e \in Elements(A)
    BY FeedForProperties
<1>2. \A e : Matches(e, ids, NoFilter)
    BY FiltersAssumption DEF Matches
<1>3. L \in Seq(K) /\ DOMAIN L = DOMAIN events /\ A = Sublist(L, T) /\ T \subseteq DOMAIN L
    BY ListedProperties DEF FeedFor
<1>4. DOMAIN events = 1 .. Len(events) /\ Len(events) \in Nat
    BY FeedFacts
<1> HIDE DEF L, T, K
<1>5. PICK h : Embeds(h, Sublist(L, T), L, T)
    BY <1>3, SublistEmbeds
<1>6. /\ \A i \in 1 .. Len(A) : h[i] \in DOMAIN events /\ A[i] = L[h[i]]
      /\ \A i, j \in 1 .. Len(A) : i < j => h[i] < h[j]
    BY <1>3, <1>5 DEF Embeds
<1> HIDE DEF A
<1>7. PICK i \in DOMAIN A : A[i] = events[k]
    BY <1>1, <1>2 DEF Elements
<1>8. ASSUME NEW j \in DOMAIN A, NEW a \in DOMAIN events, A[j] = events[a]
      PROVE  Precedes(events, a, k, context) <=> j < i
    <2>1. /\ h[i] \in DOMAIN events /\ L[h[i]] = events[k]
          /\ h[j] \in DOMAIN events /\ L[h[j]] = events[a]
        BY <1>1, <1>6, <1>7, <1>8
    <2>2. Precedes(events, a, k, context) <=> h[j] < h[i]
        BY <2>1, ListedOrder DEF L
    <2>3. (j < i => h[j] < h[i]) /\ (i < j => h[i] < h[j])
        BY <1>1, <1>6
    <2>4. h[i] \in Nat /\ h[j] \in Nat /\ i \in Nat /\ j \in Nat
        BY <1>1, <1>4, <2>1
    <2> QED
        BY <2>2, <2>3, <2>4
<1> DEFINE q == Page(A, 0, i - 1)
<1>9. i - 1 \in Nat /\ 0 \in Nat
    BY <1>1
<1>10. /\ q \in Seq(K) /\ Len(q) \in Nat /\ DOMAIN q = 1 .. Len(q) /\ Len(q) <= i - 1
       /\ \A j \in DOMAIN q : 0 + j \in DOMAIN A /\ q[j] = A[0 + j]
       /\ \A j \in 1 .. i - 1 : 0 + j \in DOMAIN A => j \in DOMAIN q
    BY <1>1, <1>9, PageProperties
<1>11. ListsOnce(q)
    BY <1>1, <1>9, PageOfFeed DEF K
<1> HIDE DEF q
<1>12. Len(q) = i - 1 /\ \A j \in 1 .. i - 1 : j \in DOMAIN A /\ j \in DOMAIN q /\ q[j] = A[j]
    <2>1. \A j \in 1 .. i - 1 : j \in DOMAIN A /\ 0 + j = j
        BY <1>1
    <2>2. \A j \in 1 .. i - 1 : j \in DOMAIN q /\ q[j] = A[j]
        BY <1>10, <2>1
    <2>3. i - 1 <= Len(q)
        <3>1. CASE i = 1
            BY <1>10, <3>1
        <3>2. CASE i # 1
            <4>1. i - 1 \in 1 .. i - 1
                BY <1>1, <3>2
            <4> QED
                BY <1>10, <2>2, <4>1
        <3> QED
            BY <3>1, <3>2
    <2> QED
        BY <1>9, <1>10, <2>1, <2>2, <2>3
<1>13. IdsOf(q) \subseteq AheadOf(events, k, context)
    <2> SUFFICES ASSUME NEW j \in 1 .. i - 1
                 PROVE  q[j].id \in AheadOf(events, k, context)
        BY <1>10, <1>12 DEF IdsOf
    <2>1. j \in DOMAIN A /\ q[j] = A[j] /\ j < i
        BY <1>1, <1>12
    <2>2. PICK a \in DOMAIN events : A[j] = events[a]
        BY <1>1, <2>1 DEF Elements
    <2>3. Fits(events[a], context) /\ Precedes(events, a, k, context)
        BY <1>1, <1>8, <2>1, <2>2
    <2> QED
        BY <2>1, <2>2, <2>3 DEF AheadOf
<1>14. AheadOf(events, k, context) \subseteq IdsOf(q)
    <2> SUFFICES ASSUME NEW a \in DOMAIN events, Fits(events[a], context), Precedes(events, a, k, context)
                 PROVE  events[a].id \in IdsOf(q)
        BY DEF AheadOf
    <2>1. PICK j \in DOMAIN A : A[j] = events[a]
        BY <1>1, <1>2 DEF Elements
    <2>2. j \in 1 .. i - 1
        BY <1>1, <1>8, <2>1
    <2> QED
        BY <1>12, <2>1, <2>2 DEF IdsOf
<1>15. Cardinality(IdsOf(q)) = i - 1
    BY <1>10, <1>11, <1>12, IdsCount
<1>16. AheadOf(events, k, context) = IdsOf(q)
    BY <1>13, <1>14
<1>17. A[i] = events[k] /\ Cardinality(AheadOf(events, k, context)) = i - 1
    BY <1>7, <1>15, <1>16
<1> QED
    BY <1>17 DEF A

(* The events of the first page are those that are not off it.             *)
LEMMA PageShown ==
    ASSUME NEW events, IsFeed(events), NEW ids, NEW context,
           NEW k \in DOMAIN events, Fits(events[k], context)
    PROVE  LET page == Page(FeedFor(events, ids, context, NoFilter), 0, PageSize) IN
           events[k] \in Elements(page) <=> ~OffPage(events, k, context)
<1> DEFINE A == FeedFor(events, ids, context, NoFilter)
           page == Page(A, 0, PageSize)
           K == Known(1 .. Len(events))
<1>1. /\ A \in Seq(K) /\ Len(A) \in Nat /\ DOMAIN A = 1 .. Len(A) /\ ListsOnce(A)
    BY FeedForProperties
<1>2. PICK i \in DOMAIN A : A[i] = events[k] /\ Cardinality(AheadOf(events, k, context)) = i - 1
    BY PlaceInFeed
<1> HIDE DEF A, K
<1>3. PageSize \in Nat /\ 0 \in Nat
    BY PageSizeAssumption
<1>4. /\ page \in Seq(K) /\ Len(page) \in Nat /\ DOMAIN page = 1 .. Len(page) /\ Len(page) <= PageSize
      /\ \A j \in DOMAIN page : 0 + j \in DOMAIN A /\ page[j] = A[0 + j]
      /\ \A j \in 1 .. PageSize : 0 + j \in DOMAIN A => j \in DOMAIN page
    BY <1>1, <1>3, PageProperties
<1> HIDE DEF page
<1>5. OffPage(events, k, context) <=> i > PageSize
    BY <1>1, <1>2, <1>3 DEF OffPage
<1>6. \A j \in DOMAIN page : j \in DOMAIN A /\ page[j] = A[j]
    BY <1>1, <1>4
<1>7. ASSUME events[k] \in Elements(page) PROVE i <= PageSize
    <2>1. PICK j \in DOMAIN page : page[j] = events[k]
        BY <1>7 DEF Elements
    <2>2. j = i
        BY <1>1, <1>2, <1>6, <2>1 DEF ListsOnce
    <2> QED
        BY <1>3, <1>4, <2>2
<1>8. ASSUME i <= PageSize PROVE events[k] \in Elements(page)
    <2>1. i \in 1 .. PageSize /\ 0 + i = i
        BY <1>1, <1>3, <1>8
    <2>2. i \in DOMAIN page /\ page[i] = A[i]
        BY <1>4, <1>6, <2>1
    <2> QED
        BY <1>2, <2>2 DEF Elements
<1> QED
    BY <1>1, <1>3, <1>5, <1>7, <1>8 DEF page, A

-----------------------------------------------------------------------------
(* How the feed moves                                                      *)

(* An event is put first in a list that may hold an older version of it;   *)
(* g tells where the others go, in their order.                            *)
PutFirst(g, new, event, events) ==
    /\ 1 \in DOMAIN new /\ new[1] = event
    /\ \A k \in DOMAIN events : events[k].id # event.id =>
         g[k] \in DOMAIN new /\ 1 < g[k] /\ new[g[k]] = events[k]
    /\ \A j, k \in DOMAIN events :
         events[j].id # event.id /\ events[k].id # event.id /\ j < k => g[j] < g[k]
    /\ \A p \in DOMAIN new : p # 1 =>
         \E k \in DOMAIN events : events[k].id # event.id /\ g[k] = p

(* The event is an update of the one it takes the place of.                *)
Renews(event, events) ==
    \A k \in DOMAIN events : events[k].id = event.id =>
        /\ event.team = events[k].team /\ event.channels = events[k].channels
        /\ event.reactions = events[k].reactions /\ events[k].version < event.version

LEMMA FirstPuts ==
    ASSUME NEW S, NEW e \in S, NEW s \in Seq(S), \A k \in DOMAIN s : s[k].id # e.id
    PROVE  \E g : PutFirst(g, <<e>> \o s, e, s)
<1> DEFINE r == <<e>> \o s
           g == [k \in DOMAIN s |-> k + 1]
<1>1. /\ Len(s) \in Nat /\ DOMAIN s = 1 .. Len(s) /\ DOMAIN r = 1 .. Len(s) + 1
      /\ r[1] = e /\ \A i \in 1 .. Len(s) : r[i + 1] = s[i]
    BY FirstElements
<1> HIDE DEF r
<1>2. 1 \in DOMAIN r /\ \A k \in DOMAIN s : k + 1 \in DOMAIN r /\ 1 < k + 1
    BY <1>1
<1>3. \A j, k \in DOMAIN s : j < k => j + 1 < k + 1
    BY <1>1
<1>4. \A p \in DOMAIN r : p # 1 => p - 1 \in DOMAIN s /\ (p - 1) + 1 = p
    BY <1>1
<1>5. PutFirst(g, r, e, s)
    <2>1. \A k \in DOMAIN s : g[k] = k + 1
        OBVIOUS
    <2> HIDE DEF g
    <2>2. \A p \in DOMAIN r : p # 1 => \E k \in DOMAIN s : s[k].id # e.id /\ g[k] = p
        BY <1>4, <2>1
    <2> QED
        BY <1>1, <1>2, <1>3, <2>1, <2>2 DEF PutFirst
<1> QED
    BY <1>5 DEF r

LEMMA MovedPuts ==
    ASSUME NEW S, NEW e \in S, NEW s \in Seq(S)
    PROVE  \E g : PutFirst(g, <<e>> \o Without(s, e.id), e, s)
<1> DEFINE P == {i \in DOMAIN s : s[i].id # e.id}
           w == Without(s, e.id)
           r == <<e>> \o w
<1>0. w \in Seq(S)
    BY WithoutProperties
<1>1. P \subseteq DOMAIN s /\ w = Sublist(s, P) /\ w \in Seq(S)
    BY <1>0 DEF Without
<1>2. Len(s) \in Nat /\ DOMAIN s = 1 .. Len(s) /\ \A k \in P : k \in Nat
    BY LenProperties
<1>3. \A k \in DOMAIN s : s[k].id # e.id <=> k \in P
    OBVIOUS
<1> HIDE DEF P, w
<1>4. PICK h : Embeds(h, w, s, P)
    BY <1>1, SublistEmbeds
<1>5. /\ Len(w) \in Nat /\ DOMAIN w = 1 .. Len(w) /\ DOMAIN r = 1 .. Len(w) + 1
      /\ r[1] = e /\ \A i \in 1 .. Len(w) : r[i + 1] = w[i]
    BY <1>1, FirstElements
<1> HIDE DEF r
<1> DEFINE at(k) == CHOOSE i \in 1 .. Len(w) : h[i] = k
           g == [k \in P |-> at(k) + 1]
<1>6. /\ \A i \in 1 .. Len(w) : h[i] \in P /\ w[i] = s[h[i]]
      /\ \A i, j \in 1 .. Len(w) : i < j => h[i] < h[j]
      /\ \A p \in P : \E i \in 1 .. Len(w) : h[i] = p
    BY <1>4 DEF Embeds
<1>7. \A k \in P : at(k) \in 1 .. Len(w) /\ h[at(k)] = k
    BY <1>6
<1>8. \A k \in P : g[k] = at(k) + 1
    OBVIOUS
<1> HIDE DEF at, g
<1>9. ASSUME NEW i \in 1 .. Len(w), NEW j \in 1 .. Len(w), ~(i < j) PROVE ~(h[i] < h[j])
    <2>1. i = j \/ j < i
        BY <1>5, <1>9
    <2>2. h[i] = h[j] \/ h[j] < h[i]
        BY <1>6, <2>1
    <2>3. h[i] \in Nat /\ h[j] \in Nat
        BY <1>2, <1>6
    <2> QED
        BY <2>2, <2>3
<1>10. ASSUME NEW k \in P PROVE g[k] \in DOMAIN r /\ 1 < g[k] /\ r[g[k]] = s[k]
    <2>1. at(k) + 1 \in DOMAIN r /\ 1 < at(k) + 1
        BY <1>5, <1>7
    <2> QED
        BY <1>5, <1>6, <1>7, <1>8, <2>1
<1>11. ASSUME NEW j \in P, NEW k \in P, j < k PROVE g[j] < g[k]
    <2>1. at(j) < at(k)
        BY <1>7, <1>9, <1>11
    <2> QED
        BY <1>5, <1>7, <1>8, <2>1
<1>12. ASSUME NEW p \in DOMAIN r, p # 1 PROVE \E k \in P : g[k] = p
    <2>1. p - 1 \in 1 .. Len(w) /\ (p - 1) + 1 = p
        BY <1>5, <1>12
    <2> DEFINE i == p - 1
    <2>2. i \in 1 .. Len(w) /\ i + 1 = p
        BY <2>1
    <2> HIDE DEF i
    <2>3. h[i] \in P /\ h[at(h[i])] = h[i] /\ at(h[i]) \in 1 .. Len(w)
        BY <1>6, <1>7, <2>2
    <2>4. at(h[i]) = i
        <3>1. h[i] \in Nat
            BY <1>2, <2>3
        <3>2. ~(at(h[i]) < i) /\ ~(i < at(h[i]))
            BY <1>6, <2>2, <2>3, <3>1
        <3> QED
            BY <1>5, <2>2, <2>3, <3>2
    <2> QED
        BY <1>8, <2>2, <2>3, <2>4
<1>13. 1 \in DOMAIN r
    BY <1>5
<1>14. PutFirst(g, r, e, s)
    BY <1>1, <1>3, <1>5, <1>10, <1>11, <1>12, <1>13 DEF PutFirst
<1> QED
    BY <1>14 DEF r, w

(* What a webhook does to the feed and to the messages on their way.       *)
LEMMA FeedMoves ==
    ASSUME TypeInv, PublishesStep
    PROVE  \E event, g :
             /\ clock' = clock + 1 /\ wire \subseteq wire' /\ IsFeed(feed')
             /\ \A m \in wire' : m \in wire \/ m.event = event
             /\ \E m \in wire' : m.event = event /\ m.seq = clock + 1
             /\ PutFirst(g, feed', event, feed) /\ Renews(event, feed)
<1>1. IsFeed(feed) /\ clock \in Nat
    BY TypeFacts
<1>2. /\ feed \in Seq(Event) /\ feed \in Seq(Known(Published)) /\ Len(feed) \in Nat
      /\ \A k \in DOMAIN feed : feed[k].id \in 1 .. Len(feed) /\ feed[k] \in Event
      /\ \A j, k \in DOMAIN feed : feed[j].id = feed[k].id => j = k
    BY <1>1, FeedFacts DEF IsFeed, Published
<1>3. ASSUME NEW kind, NEW event, wire' = wire \union Broadcast(kind, event)
      PROVE  /\ wire \subseteq wire'
             /\ \A m \in wire' : m \in wire \/ m.event = event
             /\ \E m \in wire' : m.event = event /\ m.seq = clock + 1
    <2>1. \A m \in Broadcast(kind, event) : m.event = event /\ m.seq = clock + 1
        BY DEF Broadcast
    <2>2. \E m : m \in Broadcast(kind, event)
        <3>1. PICK c : c \in IF event.channels = {} THEN {NoChannel} ELSE event.channels
            OBVIOUS
        <3>2. [kind |-> kind, event |-> event, seq |-> clock + 1, to |-> c] \in Broadcast(kind, event)
            BY <3>1 DEF Broadcast
        <3> QED
            BY <3>2
    <2> QED
        BY <1>3, <2>1, <2>2
<1>4. ASSUME NEW p \in Publications, Publish(p)
      PROVE  \E event, g :
               /\ clock' = clock + 1 /\ wire \subseteq wire' /\ IsFeed(feed')
               /\ \A m \in wire' : m \in wire \/ m.event = event
               /\ \E m \in wire' : m.event = event /\ m.seq = clock + 1
               /\ PutFirst(g, feed', event, feed) /\ Renews(event, feed)
    <2>1. clock' = clock + 1
        BY <1>4 DEF Publish
    <2>2. PICK event \in Event :
             /\ event = [id |-> Len(feed) + 1, version |-> 0, team |-> p.team,
                         channels |-> p.channels, look |-> p.look, reactions |-> NoReactions]
             /\ feed' = <<event>> \o feed /\ wire' = wire \union Broadcast("new", event)
        BY <1>4, PublishTypes
    <2>3. event.id = Len(feed) + 1
        BY <2>2
    <2>4. \A k \in DOMAIN feed : feed[k].id # event.id
        BY <1>2, <2>3
    <2>5. PICK g : PutFirst(g, feed', event, feed)
        BY <1>2, <2>2, <2>4, FirstPuts
    <2>6. Renews(event, feed)
        BY <2>4 DEF Renews
    <2>7. IsFeed(feed')
        BY <1>4, PublishTypes
    <2>8. /\ wire \subseteq wire' /\ \A m \in wire' : m \in wire \/ m.event = event
          /\ \E m \in wire' : m.event = event /\ m.seq = clock + 1
        BY <1>3, <2>2
    <2> QED
        BY <2>1, <2>5, <2>6, <2>7, <2>8
<1>5. ASSUME NEW i \in DOMAIN feed, NEW look \in Looks, Update(i, look)
      PROVE  \E event, g :
               /\ clock' = clock + 1 /\ wire \subseteq wire' /\ IsFeed(feed')
               /\ \A m \in wire' : m \in wire \/ m.event = event
               /\ \E m \in wire' : m.event = event /\ m.seq = clock + 1
               /\ PutFirst(g, feed', event, feed) /\ Renews(event, feed)
    <2>1. clock' = clock + 1
        BY <1>5 DEF Update
    <2>2. PICK event \in Known(Published) :
             /\ event.id = feed[i].id /\ event.version = feed[i].version + 1
             /\ event.team = feed[i].team /\ event.channels = feed[i].channels
             /\ event.reactions = feed[i].reactions
             /\ feed' = <<event>> \o Without(feed, event.id)
             /\ wire' = wire \union Broadcast("updated", event)
        BY <1>5, UpdateTypes
    <2>3. PICK g : PutFirst(g, feed', event, feed)
        BY <1>2, <2>2, MovedPuts
    <2>4. feed[i].version \in Nat
        BY <1>2 DEF Event
    <2>5. feed[i].version < event.version
        BY <2>2, <2>4
    <2>6. Renews(event, feed)
        BY <1>2, <2>2, <2>5 DEF Renews
    <2>7. IsFeed(feed')
        BY <1>5, UpdateTypes
    <2> QED
        BY <1>3, <2>1, <2>2, <2>3, <2>6, <2>7
<1> QED
    BY <1>4, <1>5 DEF PublishesStep

(* An event stays behind those that were ahead of it.                      *)
LEMMA AheadKept ==
    ASSUME NEW events, IsFeed(events), NEW new, IsFeed(new), NEW event, NEW g,
           PutFirst(g, new, event, events), Renews(event, events), NEW context,
           NEW k \in DOMAIN events, events[k].id # event.id
    PROVE  /\ AheadOf(events, k, context) \subseteq AheadOf(new, g[k], context)
           /\ OffPage(events, k, context) => OffPage(new, g[k], context)
<1>1. g[k] \in DOMAIN new /\ 1 < g[k] /\ new[g[k]] = events[k]
    BY DEF PutFirst
<1>2. ASSUME NEW j \in DOMAIN events, Fits(events[j], context), Precedes(events, j, k, context)
      PROVE  events[j].id \in AheadOf(new, g[k], context)
    <2>1. CASE events[j].id # event.id
        <3>1. g[j] \in DOMAIN new /\ new[g[j]] = events[j]
            BY <2>1 DEF PutFirst
        <3>2. j < k => g[j] < g[k]
            BY <2>1 DEF PutFirst
        <3>3. Precedes(new, g[j], g[k], context)
            BY <1>1, <1>2, <3>1, <3>2 DEF Precedes
        <3> QED
            BY <1>2, <3>1, <3>3 DEF AheadOf
    <2>2. CASE events[j].id = event.id
        <3>1. 1 \in DOMAIN new /\ new[1] = event
            BY DEF PutFirst
        <3>2. Fits(new[1], context)
            BY <1>2, <2>2, <3>1 DEF Renews, Fits
        <3>3. Precedes(new, 1, g[k], context)
            BY <1>1, <1>2, <2>2, <3>1 DEF Precedes
        <3>4. new[1].id \in AheadOf(new, g[k], context)
            BY <3>1, <3>2, <3>3 DEF AheadOf
        <3> QED
            BY <2>2, <3>1, <3>4
    <2> QED
        BY <2>1, <2>2
<1>3. AheadOf(events, k, context) \subseteq AheadOf(new, g[k], context)
    BY <1>2 DEF AheadOf
<1>4. /\ IsFiniteSet(AheadOf(new, g[k], context))
      /\ Cardinality(AheadOf(new, g[k], context)) \in Nat
    <2>1. AheadOf(new, g[k], context) \subseteq IdsOf(new)
        BY DEF AheadOf, IdsOf
    <2>2. IsFiniteSet(IdsOf(new))
        BY IdsCount DEF IsFeed
    <2>3. IsFiniteSet(AheadOf(new, g[k], context))
        BY <2>1, <2>2, FS_Subset
    <2> QED
        BY <2>3, FS_CardinalityType
<1>5. /\ Cardinality(AheadOf(events, k, context)) <= Cardinality(AheadOf(new, g[k], context))
      /\ Cardinality(AheadOf(events, k, context)) \in Nat
    <2>1. /\ IsFiniteSet(AheadOf(events, k, context))
          /\ Cardinality(AheadOf(events, k, context)) <= Cardinality(AheadOf(new, g[k], context))
        BY <1>3, <1>4, FS_Subset
    <2> QED
        BY <2>1, FS_CardinalityType
<1> QED
    BY <1>3, <1>4, <1>5, PageSizeAssumption DEF OffPage

-----------------------------------------------------------------------------
(* Versions                                                                *)

LEMMA ElementsOf ==
    ASSUME NEW S, NEW s \in Seq(S)
    PROVE  Elements(s) \subseteq S
BY ElementOfSeq DEF Elements

(* A version of an event stays one when the event changes.                 *)
LEMMA VersionKept ==
    ASSUME TypeInv, PublishesStep, NEW e \in Event, IsVersion(e, feed)
    PROVE  IsVersion(e, feed')
<1>1. PICK event, g :
         IsFeed(feed') /\ PutFirst(g, feed', event, feed) /\ Renews(event, feed)
    BY FeedMoves
<1>2. PICK k \in DOMAIN feed : /\ feed[k].id = e.id /\ feed[k].reactions = e.reactions
                               /\ e.version < feed[k].version \/ e = feed[k]
    BY DEF IsVersion
<1>3. CASE feed[k].id # event.id
    <2>1. g[k] \in DOMAIN feed' /\ feed'[g[k]] = feed[k]
        BY <1>1, <1>3 DEF PutFirst
    <2> QED
        BY <1>2, <2>1 DEF IsVersion
<1>4. CASE feed[k].id = event.id
    <2>1. 1 \in DOMAIN feed' /\ feed'[1] = event
        BY <1>1 DEF PutFirst
    <2>2. feed[k] \in Event /\ event \in Event
        BY <1>1, <2>1, TypeFacts, FeedFacts
    <2>3. e.version \in Nat /\ feed[k].version \in Nat /\ event.version \in Nat
        BY <2>2 DEF Event
    <2>4. event.reactions = feed[k].reactions /\ feed[k].version < event.version
        BY <1>1, <1>4 DEF Renews
    <2>5. e.version < event.version
        BY <1>2, <2>3, <2>4
    <2> QED
        BY <1>2, <1>4, <2>1, <2>4, <2>5 DEF IsVersion
<1> QED
    BY <1>3, <1>4

(* What the feed holds is a version of itself.                             *)
LEMMA FeedIsVersion ==
    ASSUME NEW e \in Elements(feed)
    PROVE  IsVersion(e, feed)
BY DEF Elements, IsVersion

(* A message says nothing of reactions that the list does not.             *)
LEMMA MergedIsEvent ==
    ASSUME TypeInv, VersionInv, ~ghost.shifted, NEW m \in wire
    PROVE  Merged(m.event, store.events) = m.event
<1> DEFINE merged == Merged(m.event, store.events)
<1>1. m.event \in Known(Published) /\ store.events \in Seq(Known(Published)) /\ IsFeed(feed)
    BY TypeFacts DEF TypeInv, WireTypes
<1>2. /\ merged \in Known(Published) /\ merged.id = m.event.id
      /\ merged.version = m.event.version
      /\ merged.team = m.event.team /\ merged.channels = m.event.channels
      /\ merged.look = m.event.look
      /\ merged = m.event \/ \E i \in DOMAIN store.events :
                                store.events[i].id = m.event.id
                                  /\ merged.reactions = store.events[i].reactions
    BY <1>1, MergedProperties
<1> HIDE DEF merged
<1>3. ASSUME NEW i \in DOMAIN store.events, store.events[i].id = m.event.id,
             merged.reactions = store.events[i].reactions
      PROVE  merged = m.event
    <2>1. IsVersion(m.event, feed) /\ IsVersion(store.events[i], feed)
        BY DEF VersionInv, Elements
    <2>2. PICK k \in DOMAIN feed : feed[k].id = m.event.id /\ feed[k].reactions = m.event.reactions
        BY <2>1 DEF IsVersion
    <2>3. PICK l \in DOMAIN feed : /\ feed[l].id = m.event.id
                                   /\ feed[l].reactions = store.events[i].reactions
        BY <1>3, <2>1 DEF IsVersion
    <2>4. k = l
        BY <1>1, <2>2, <2>3, FeedFacts
    <2>5. merged.reactions = m.event.reactions
        BY <1>3, <2>2, <2>3, <2>4
    <2>6. /\ merged = [id |-> merged.id, version |-> merged.version, team |-> merged.team,
                       channels |-> merged.channels, look |-> merged.look,
                       reactions |-> merged.reactions]
          /\ m.event = [id |-> m.event.id, version |-> m.event.version, team |-> m.event.team,
                        channels |-> m.event.channels, look |-> m.event.look,
                        reactions |-> m.event.reactions]
        BY <1>1, <1>2, KnownFields
    <2> QED
        BY <1>2, <2>5, <2>6
<1> QED
    BY <1>2, <1>3 DEF merged

(* What a message makes of the list.                                       *)
LEMMA DeliveredList ==
    ASSUME TypeInv, VersionInv, ~ghost.shifted, NEW m \in wire, Deliver(m)
    PROVE  /\ Elements(store'.events) \subseteq Elements(store.events) \union {m.event}
           /\ m.event.id \notin IdsOf(store.events) => m.event \in Elements(store'.events)
           /\ m.kind = "updated" => m.event \in Elements(store'.events)
           /\ \A e \in Elements(store.events) :
                m.kind = "new" \/ e.id # m.event.id => e \in Elements(store'.events)
<1>1. /\ m.event \in Known(Published) /\ m.kind \in {"new", "updated"}
      /\ store.events \in Seq(Known(Published))
      /\ m.kind = "new" /\ m.event.id \in IdsOf(store.events) => store'.events = store.events
      /\ m.kind = "new" /\ m.event.id \notin IdsOf(store.events) =>
           store'.events = <<m.event>> \o store.events
      /\ m.kind = "updated" =>
           store'.events = <<Merged(m.event, store.events)>> \o Without(store.events, m.event.id)
    BY DeliverEffect, TypeFacts
<1>2. CASE m.kind = "new" /\ m.event.id \in IdsOf(store.events)
    BY <1>1, <1>2
<1>3. CASE m.kind = "new" /\ m.event.id \notin IdsOf(store.events)
    <2>1. Elements(<<m.event>> \o store.events) = {m.event} \union Elements(store.events)
        BY <1>1, FirstElements
    <2> QED
        BY <1>1, <1>3, <2>1
<1>4. CASE m.kind = "updated"
    <2>1. store'.events = <<m.event>> \o Without(store.events, m.event.id)
        BY <1>1, <1>4, MergedIsEvent
    <2>2. Elements(<<m.event>> \o Without(store.events, m.event.id)) =
            {m.event} \union {x \in Elements(store.events) : x.id # m.event.id}
        <3> DEFINE K == Known(Published)
        <3>1. m.event \in K /\ store.events \in Seq(K)
            BY <1>1
        <3> HIDE DEF K
        <3> QED
            BY <3>1, MovedFirst
    <2> QED
        BY <1>4, <2>1, <2>2
<1> QED
    BY <1>1, <1>2, <1>3, <1>4

(* What the client is answered comes from the feed.                        *)
LEMMA ServedEvents ==
    ASSUME TypeInv, NEW i \in DOMAIN calls
    PROVE  LET events == FeedFor(feed, unread, calls[i].context, calls[i].filter)
               answer == Answer(events, calls[i].offset)
           IN  /\ answer.events = Page(events, calls[i].offset, PageSize) /\ answer.at = clock
               /\ Elements(answer.events) \subseteq Elements(feed)
<1> DEFINE events == FeedFor(feed, unread, calls[i].context, calls[i].filter)
           answer == Answer(events, calls[i].offset)
<1>1. /\ events \in Seq(Known(1 .. Len(feed)))
      /\ \A j \in DOMAIN events : events[j] \in Elements(feed)
    BY TypeFacts, FeedForProperties
<1>2. calls[i].offset \in Nat /\ PageSize \in Nat
    BY TypeFacts, CallFields, PageSizeAssumption
<1>3. answer.events = Page(events, calls[i].offset, PageSize) /\ answer.at = clock
    BY DEF Answer
<1> HIDE DEF events
<1>4. Elements(Page(events, calls[i].offset, PageSize)) \subseteq Elements(events)
    BY <1>1, <1>2, PageOfFeed
<1>5. Elements(events) \subseteq Elements(feed)
    BY <1>1 DEF Elements
<1> QED
    BY <1>3, <1>4, <1>5 DEF events

LEMMA MessageVersionsKept ==
    ASSUME TypeInv, SidebarStarts, VersionInv, [Next]_vars
    PROVE  \A m \in wire' : IsVersion(m.event, feed')
<1>1. CASE PublishesStep
    <2>1. PICK event, g : /\ \A m \in wire' : m \in wire \/ m.event = event
                          /\ PutFirst(g, feed', event, feed)
        BY <1>1, FeedMoves
    <2>2. ASSUME NEW m \in wire PROVE IsVersion(m.event, feed')
        <3>1. m.event \in Event
            BY KnownFields DEF TypeInv, WireTypes
        <3> QED
            BY <1>1, <3>1, VersionKept DEF VersionInv
    <2>3. IsVersion(event, feed')
        BY <2>1 DEF IsVersion, PutFirst
    <2> QED
        BY <2>1, <2>2, <2>3
<1>2. CASE ~PublishesStep
    <2>1. UNCHANGED <<feed, clock>> /\ (UNCHANGED wire \/ \E m \in wire : Deliver(m))
        BY <1>2, Unpublished
    <2>2. wire' \subseteq wire
        BY <2>1 DEF Deliver
    <2> QED
        BY <2>1, <2>2 DEF VersionInv
<1> QED
    BY <1>1, <1>2

LEMMA AnswerVersionsKept ==
    ASSUME TypeInv, SidebarStarts, VersionInv, [Next]_vars, NEW c \in Answered',
           NEW e \in Elements(c.answer.events)
    PROVE  IsVersion(e, feed')
<1>0. c \in InFlight' /\ c.answer \notin {Pending, Failed}
    BY DEF Answered
<1>1. CASE OldCall(c)
    <2>1. PICK d \in InFlight : c.answer = d.answer
        BY <1>0, <1>1 DEF OldCall
    <2>2. d \in Answered
        BY <1>0, <2>1 DEF Answered
    <2>3. IsVersion(e, feed)
        BY <2>1, <2>2 DEF VersionInv
    <2>4. e \in Event
        <3>1. d \in Calls(Published)
            BY TypeFacts DEF InFlight, Elements
        <3>2. d.answer \in Answers(Published)
            BY <1>0, <2>1, <3>1, CallFields
        <3>3. d.answer.events \in Seq(Known(Published))
            BY <3>2 DEF Answers
        <3>4. e \in Known(Published)
            BY <2>1, <3>3, ElementsOf
        <3> QED
            BY <3>4, KnownFields
    <2>5. CASE PublishesStep
        BY <2>3, <2>4, <2>5, VersionKept
    <2>6. CASE ~PublishesStep
        <3>1. feed' = feed
            BY <2>6, Unpublished
        <3> QED
            BY <2>3, <3>1
    <2> QED
        BY <2>5, <2>6
<1>2. CASE ServedCall(c)
    <2>1. PICK i \in DOMAIN calls :
            /\ Serve(i)
            /\ c = [calls[i] EXCEPT !.answer =
                      Answer(FeedFor(feed, unread, calls[i].context, calls[i].filter), calls[i].offset)]
        BY <1>2 DEF ServedCall
    <2> DEFINE a == Answer(FeedFor(feed, unread, calls[i].context, calls[i].filter), calls[i].offset)
    <2>2. Elements(a.events) \subseteq Elements(feed)
        BY ServedEvents
    <2>3. calls[i] \in Calls(Published) /\ c = [calls[i] EXCEPT !.answer = a]
        BY <2>1, TypeFacts
    <2> HIDE DEF a
    <2>4. c.answer = a
        BY <2>3 DEF Calls, Requests
    <2>5. IsVersion(e, feed)
        BY <2>2, <2>4, FeedIsVersion
    <2>6. feed' = feed
        BY <2>1 DEF Serve
    <2> QED
        BY <2>5, <2>6
<1>3. ~NewCall(c)
    BY <1>0 DEF NewCall
<1> QED
    BY <1>0, <1>1, <1>2, <1>3, RequestsKept

LEMMA ListVersionsKept ==
    ASSUME TypeInv, ContextInv, VersionInv, [Next]_vars, ~ghost'.shifted,
           NEW e \in Elements(store'.events)
    PROVE  IsVersion(e, feed')
<1>0. store.events \in Seq(Known(Published)) /\ calls \in Seq(Calls(Published)) /\ ghost \in Ghosts
    BY TypeFacts
<1>1. ASSUME ~ghost.shifted, feed' = feed, NEW x \in Elements(store.events)
      PROVE  IsVersion(x, feed')
    BY <1>1 DEF VersionInv
<1>2. CASE Quiet
    BY <1>1, <1>2 DEF Quiet, SameView, SameGhost
<1>3. CASE Unfetched
    BY <1>1, <1>3 DEF Unfetched
<1>4. CASE Effects /\ FetchDue
    <2>1. feed' = feed
        BY <1>4 DEF Effects, server
    <2>2. (SameView(store', store) /\ SameGhost) \/ store'.events = << >>
        BY <1>4, FetchFacts
    <2>3. CASE SameView(store', store) /\ SameGhost
        BY <1>1, <2>1, <2>3 DEF SameView, SameGhost
    <2>4. CASE store'.events = << >>
        BY <2>4 DEF Elements
    <2> QED
        BY <2>2, <2>3, <2>4
<1>5. CASE PublishesStep
    <2>1. e \in Elements(store.events) /\ ~ghost.shifted
        BY <1>5 DEF PublishesStep
    <2>2. e \in Event
        BY <1>0, <2>1, ElementsOf, KnownFields
    <2>3. IsVersion(e, feed)
        BY <2>1 DEF VersionInv
    <2> QED
        BY <1>5, <2>2, <2>3, VersionKept
<1>6. ASSUME NEW i \in DOMAIN calls, ReceiveEvents(i) PROVE IsVersion(e, feed')
    <2>1. /\ calls[i] \in InFlight /\ calls[i].kind \in {"page", "more"}
          /\ calls[i].answer \notin {Pending, Failed} /\ calls[i].answer \in Answers(Published)
          /\ store'.events = IF calls[i].offset > 0 THEN store.events \o calls[i].answer.events
                             ELSE calls[i].answer.events
        BY <1>6, ReceiveEventsEffect DEF InFlight
    <2>2. feed' = feed
        BY <1>6 DEF ReceiveEvents, server
    <2>3. \A x \in Elements(calls[i].answer.events) : IsVersion(x, feed)
        BY <2>1 DEF VersionInv, Answered
    <2>4. CASE calls[i].kind = "page"
        <3>1. calls[i].offset = 0
            BY <2>1, <2>4 DEF ContextInv, PagesAreAsked
        <3>2. store'.events = calls[i].answer.events
            BY <2>1, <3>1
        <3> QED
            BY <2>2, <2>3, <3>2
    <2>5. CASE calls[i].kind = "more"
        <3>1. ~ghost.shifted
            BY <1>6, <2>5, MoreContinues
        <3>2. calls[i].answer.events \in Seq(Known(Published))
            BY <2>1 DEF Answers
        <3>3. Elements(store.events \o calls[i].answer.events) =
                Elements(store.events) \union Elements(calls[i].answer.events)
            BY <1>0, <3>2, ConcatElements
        <3>4. e \in Elements(store.events) \union Elements(calls[i].answer.events)
            BY <2>1, <3>3
        <3> QED
            BY <1>1, <2>2, <2>3, <3>1, <3>4
    <2> QED
        BY <2>1, <2>4, <2>5
<1>7. ASSUME NEW i \in DOMAIN calls, ReceiveFailure(i) PROVE IsVersion(e, feed')
    <2>1. store'.events = store.events /\ SameGhost
        BY <1>7, ReceiveFailureEffect, GhostOfStep
    <2>2. feed' = feed
        BY <1>7 DEF ReceiveFailure, server
    <2> QED
        BY <1>1, <2>1, <2>2 DEF SameGhost
<1>8. ASSUME NEW m \in wire, Deliver(m) PROVE IsVersion(e, feed')
    <2>1. ~ghost.shifted
        BY <1>8, GhostOfStep
    <2>2. feed' = feed
        BY <1>8 DEF Deliver, server
    <2>3. e \in Elements(store.events) \union {m.event}
        BY <1>8, <2>1, DeliveredList
    <2> QED
        BY <1>1, <2>1, <2>2, <2>3 DEF VersionInv
<1>9. ASSUME NEW p \in Parents, Hydrate(p) PROVE FALSE
    BY <1>9, GhostOfStep
<1> QED
    BY <1>2, <1>3, <1>4, <1>5, <1>6, <1>7, <1>8, <1>9, Steps DEF ContextInv

LEMMA VersionsKept ==
    ASSUME TypeInv, ContextInv, VersionInv, [Next]_vars
    PROVE  VersionInv'
<1>1. \A m \in wire' : IsVersion(m.event, feed')
    BY MessageVersionsKept DEF ContextInv
<1>2. \A c \in Answered' : \A e \in Elements(c.answer.events) : IsVersion(e, feed')
    BY AnswerVersionsKept DEF ContextInv
<1>3. ~ghost'.shifted => \A e \in Elements(store'.events) : IsVersion(e, feed')
    BY ListVersionsKept
<1> QED
    BY <1>1, <1>2, <1>3 DEF VersionInv

-----------------------------------------------------------------------------
(* The first page                                                          *)

LEMMA MoreIsShown ==
    ASSUME NEW list, NEW context, NEW n \in Nat, NEW events, NEW messages,
           \A m \in messages : m.seq \in Nat,
           ShowsPage(list, context, n, events, messages),
           NEW larger, Elements(list) \subseteq Elements(larger), NEW k \in Nat, k <= n
    PROVE  ShowsPage(larger, context, k, events, messages)
<1>1. \A m \in messages : m.seq > n => m.seq > k
    OBVIOUS
<1> QED
    BY <1>1 DEF ShowsPage

(* Changes of the feed are on their way.                                   *)
LEMMA ShownIsKept ==
    ASSUME TypeInv, PublishesStep, NEW list, NEW context, NEW n \in 0 .. clock,
           ShowsPage(list, context, n, feed, wire)
    PROVE  ShowsPage(list, context, n, feed', wire')
<1>1. PICK event, g :
         /\ wire \subseteq wire'
         /\ \E m \in wire' : m.event = event /\ m.seq = clock + 1
         /\ IsFeed(feed') /\ PutFirst(g, feed', event, feed) /\ Renews(event, feed)
    BY FeedMoves
<1>2. IsFeed(feed) /\ clock \in Nat /\ n \in Nat
    BY TypeFacts
<1>3. clock + 1 > n
    BY <1>2
<1> SUFFICES ASSUME NEW p \in DOMAIN feed', Fits(feed'[p], context)
             PROVE  \/ feed'[p] \in Elements(list)
                    \/ \E m \in wire' : m.event = feed'[p] /\ m.seq > n
                    \/ OffPage(feed', p, context)
    BY DEF ShowsPage
<1>4. CASE p = 1
    BY <1>1, <1>3, <1>4 DEF PutFirst
<1>5. CASE p # 1
    <2>1. PICK k \in DOMAIN feed : feed[k].id # event.id /\ g[k] = p
        BY <1>1, <1>5 DEF PutFirst
    <2>2. feed'[p] = feed[k]
        BY <1>1, <2>1 DEF PutFirst
    <2>3. OffPage(feed, k, context) => OffPage(feed', p, context)
        BY <1>1, <1>2, <2>1, AheadKept
    <2>4. \/ feed[k] \in Elements(list)
          \/ \E m \in wire : m.event = feed[k] /\ m.seq > n
          \/ OffPage(feed, k, context)
        BY <2>2 DEF ShowsPage
    <2> QED
        BY <1>1, <2>2, <2>3, <2>4
<1> QED
    BY <1>4, <1>5

(* The first page that is answered is the one of the feed.                 *)
LEMMA ServedPage ==
    ASSUME TypeInv, NEW i \in DOMAIN calls, calls[i].offset = 0, calls[i].filter = NoFilter
    PROVE  LET answer == Answer(FeedFor(feed, unread, calls[i].context, calls[i].filter),
                                calls[i].offset)
           IN  ShowsPage(answer.events, calls[i].context, clock, feed, wire)
<1> DEFINE events == FeedFor(feed, unread, calls[i].context, NoFilter)
           answer == Answer(FeedFor(feed, unread, calls[i].context, calls[i].filter),
                            calls[i].offset)
<1>1. answer.events = Page(events, 0, PageSize)
    BY ServedEvents
<1> HIDE DEF answer
<1>2. \A k \in DOMAIN feed : Fits(feed[k], calls[i].context) =>
         (feed[k] \in Elements(Page(events, 0, PageSize)) <=> ~OffPage(feed, k, calls[i].context))
    BY TypeFacts, PageShown
<1>3. ShowsPage(answer.events, calls[i].context, clock, feed, wire)
    BY <1>1, <1>2 DEF ShowsPage
<1> QED
    BY <1>3 DEF answer

(* A message is taken off the wire.                                        *)
LEMMA ShownWithout ==
    ASSUME TypeInv, NEW m \in wire, NEW list, NEW context, NEW n \in Nat, m.seq <= n,
           ShowsPage(list, context, n, feed, wire)
    PROVE  ShowsPage(list, context, n, feed, wire \ {m})
<1>1. m.seq \in Nat
    BY DEF TypeInv, WireTypes, ServerTypes
<1>2. ~(m.seq > n)
    BY <1>1
<1> QED
    BY <1>2 DEF ShowsPage

LEMMA AnsweredPagesKept ==
    ASSUME TypeInv, ContextInv, PageInv, [Next]_vars, NEW c \in Answered',
           c.kind = "page", c.filter = NoFilter, ~c.overtaken
    PROVE  /\ c.answer.at \in 0 .. clock'
           /\ ShowsPage(c.answer.events, c.context, c.answer.at, feed', wire')
<1>0. c \in InFlight' /\ c.answer \notin {Pending, Failed} /\ clock \in Nat
    BY TypeFacts DEF Answered
<1>1. CASE OldCall(c)
    <2>1. PICK d \in InFlight :
            /\ c.kind = d.kind /\ c.context = d.context /\ c.filter = d.filter
            /\ c.answer = d.answer /\ (d.overtaken => c.overtaken)
        BY <1>0, <1>1 DEF OldCall
    <2>2. d \in Answered /\ d.kind = "page" /\ d.filter = NoFilter /\ ~d.overtaken
        BY <1>0, <2>1 DEF Answered
    <2>3. /\ c.answer.at \in 0 .. clock
          /\ ShowsPage(c.answer.events, c.context, c.answer.at, feed, wire)
        BY <2>1, <2>2 DEF PageInv
    <2>4. CASE PublishesStep
        <3>1. clock' = clock + 1
            BY <2>4, FeedMoves
        <3>2. c.answer.at \in 0 .. clock'
            BY <1>0, <2>3, <3>1
        <3> QED
            BY <2>3, <2>4, <3>2, ShownIsKept
    <2>5. CASE ~PublishesStep
        <3>1. UNCHANGED <<feed, clock>> /\ (UNCHANGED wire \/ \E m \in wire : Deliver(m))
            BY <2>5, Unpublished DEF ContextInv
        <3>2. ASSUME NEW m \in wire, Deliver(m)
              PROVE  ShowsPage(c.answer.events, c.context, c.answer.at, feed', wire')
            <4>1. m.seq <= c.answer.at
                <5>1. c.answer.at >= m.seq
                    BY <1>0, <3>2, DeliverEffect DEF InFlight
                <5>2. m.seq \in Nat /\ c.answer.at \in Nat
                    BY <1>0, <2>3 DEF TypeInv, WireTypes
                <5> QED
                    BY <5>1, <5>2
            <4>2. wire' = wire \ {m}
                BY <3>2 DEF Deliver
            <4>3. c.answer.at \in Nat
                BY <1>0, <2>3
            <4> QED
                BY <2>3, <3>1, <4>1, <4>2, <4>3, ShownWithout
        <3> QED
            BY <2>3, <3>1, <3>2
    <2> QED
        BY <2>4, <2>5
<1>2. CASE ServedCall(c)
    <2>1. PICK i \in DOMAIN calls :
            /\ Serve(i)
            /\ c = [calls[i] EXCEPT !.answer =
                      Answer(FeedFor(feed, unread, calls[i].context, calls[i].filter), calls[i].offset)]
        BY <1>2 DEF ServedCall
    <2> DEFINE a == Answer(FeedFor(feed, unread, calls[i].context, calls[i].filter), calls[i].offset)
    <2>2. a.at = clock /\ calls[i] \in Calls(Published) /\ c = [calls[i] EXCEPT !.answer = a]
        BY <2>1, TypeFacts, ServedEvents
    <2>3. calls[i].offset = 0 /\ calls[i].filter = NoFilter =>
            ShowsPage(a.events, calls[i].context, clock, feed, wire)
        BY ServedPage
    <2> HIDE DEF a
    <2>4. /\ c.answer = a /\ c.kind = calls[i].kind /\ c.context = calls[i].context
          /\ c.filter = calls[i].filter /\ c.offset = calls[i].offset
        BY <2>2 DEF Calls, Requests
    <2>5. calls[i].offset = 0
        <3>1. calls[i] \in InFlight
            BY DEF InFlight, Elements
        <3> QED
            BY <2>4, <3>1 DEF ContextInv, PagesAreAsked
    <2>6. UNCHANGED <<feed, clock, wire>>
        BY <2>1 DEF Serve
    <2> QED
        BY <1>0, <2>2, <2>3, <2>4, <2>5, <2>6
<1>3. ~NewCall(c)
    BY <1>0 DEF NewCall
<1> QED
    BY <1>0, <1>1, <1>2, <1>3, RequestsKept

LEMMA ShownAfterMessage ==
    ASSUME TypeInv, VersionInv, ~ghost.shifted, NEW m \in wire, Deliver(m), ~ghost'.behind,
           NEW context, ShowsPage(store.events, context, 0, feed, wire)
    PROVE  ShowsPage(store'.events, context, 0, feed', wire')
<1>1. /\ m.event \in Known(Published) /\ m.kind \in {"new", "updated"}
      /\ m.kind = "new" => m.event.version = 0
      /\ store.events \in Seq(Known(Published)) /\ IsFeed(feed)
    BY DeliverEffect, TypeFacts
<1>2. feed' = feed /\ wire' = wire \ {m}
    BY DEF Deliver, server
<1>3. /\ m.event.id \notin IdsOf(store.events) => m.event \in Elements(store'.events)
      /\ m.kind = "updated" => m.event \in Elements(store'.events)
      /\ \A e \in Elements(store.events) :
           m.kind = "new" \/ e.id # m.event.id => e \in Elements(store'.events)
    BY DeliveredList
<1>4. \A e \in Elements(store.events) :
         m.kind = "updated" /\ e.id = m.event.id => ~(e.version > m.event.version)
    <2> SUFFICES ASSUME NEW j \in DOMAIN store.events, m.kind = "updated",
                        store.events[j].id = m.event.id,
                        store.events[j].version > m.event.version
                 PROVE  FALSE
        BY DEF Elements
    <2> DEFINE listed == {store.events[k].version :
                            k \in {i \in DOMAIN store.events : store.events[i].id = m.event.id}}
               b == ghost.behind \/ (m.kind = "updated" /\ \E v \in listed : v > m.event.version)
               p == ghost.pushed \union {m.event.id}
               c == ghost.miscounted \/ \E v \in listed : v >= m.event.version
    <2>1. store.events[j].version \in listed
        OBVIOUS
    <2>2. b = TRUE
        BY <2>1
    <2>3. ghost' = [ghost EXCEPT !.pushed = p, !.behind = b, !.miscounted = c]
        BY DEF Deliver
    <2> HIDE DEF b, p, c, listed
    <2>4. ghost'.behind = b
        BY <2>3, TypeFacts DEF Ghosts
    <2> QED
        BY <2>2, <2>4
<1>5. IsVersion(m.event, feed) /\ \A e \in Elements(store.events) : IsVersion(e, feed)
    BY DEF VersionInv
<1>6. \A e \in Elements(store.events) : e \in Known(Published)
    BY <1>1, ElementsOf
<1> SUFFICES ASSUME NEW k \in DOMAIN feed, Fits(feed[k], context), ~OffPage(feed, k, context)
             PROVE  \/ feed[k] \in Elements(store'.events)
                    \/ \E o \in wire \ {m} : o.event = feed[k] /\ o.seq > 0
    BY <1>2 DEF ShowsPage
<1>7. \A e : IsVersion(e, feed) /\ e.id = feed[k].id => e = feed[k] \/ e.version < feed[k].version
    <2> SUFFICES ASSUME NEW e, IsVersion(e, feed), e.id = feed[k].id
                 PROVE  e = feed[k] \/ e.version < feed[k].version
        OBVIOUS
    <2>1. PICK l \in DOMAIN feed : /\ feed[l].id = e.id
                                   /\ e.version < feed[l].version \/ e = feed[l]
        BY DEF IsVersion
    <2>2. l = k
        BY <1>1, <2>1, FeedFacts
    <2> QED
        BY <2>1, <2>2
<1>8. \/ feed[k] \in Elements(store.events)
      \/ \E o \in wire : o.event = feed[k] /\ o.seq > 0
    BY DEF ShowsPage
<1>9. CASE feed[k] \in Elements(store.events)
    <2>1. CASE m.kind = "new" \/ feed[k].id # m.event.id
        BY <1>3, <1>9, <2>1
    <2>2. CASE m.kind = "updated" /\ feed[k].id = m.event.id
        <3>1. ~(feed[k].version > m.event.version)
            BY <1>4, <1>9, <2>2
        <3>2. m.event = feed[k] \/ m.event.version < feed[k].version
            BY <1>5, <1>7, <2>2
        <3>3. m.event.version \in Nat /\ feed[k].version \in Nat
            BY <1>1, <1>6, <1>9, KnownFields
        <3>4. m.event = feed[k]
            BY <3>1, <3>2, <3>3
        <3> QED
            BY <1>3, <2>2, <3>4
    <2> QED
        BY <1>1, <2>1, <2>2
<1>10. CASE m.event = feed[k]
    <2>1. CASE m.kind = "updated" \/ m.event.id \notin IdsOf(store.events)
        BY <1>3, <1>10, <2>1
    <2>2. CASE m.kind = "new" /\ m.event.id \in IdsOf(store.events)
        <3>1. PICK j \in DOMAIN store.events : store.events[j].id = m.event.id
            BY <2>2 DEF IdsOf
        <3>2. store.events[j] \in Elements(store.events)
            BY DEF Elements
        <3>3. store.events[j] = feed[k] \/ store.events[j].version < feed[k].version
            BY <1>5, <1>7, <1>10, <3>1, <3>2
        <3>4. store.events[j].version \in Nat /\ feed[k].version = 0
            BY <1>1, <1>6, <1>10, <2>2, <3>2, KnownFields
        <3>5. store.events[j] = feed[k]
            BY <3>3, <3>4
        <3> QED
            BY <1>3, <2>2, <3>2, <3>5
    <2> QED
        BY <1>1, <2>1, <2>2
<1>11. CASE \E o \in wire \ {m} : o.event = feed[k] /\ o.seq > 0
    BY <1>11
<1> QED
    BY <1>8, <1>9, <1>10, <1>11

LEMMA ListedPageKept ==
    ASSUME TypeInv, ContextInv, FetchInv, VersionInv, PageInv, [Next]_vars,
           ghost'.filter = NoFilter, ghost'.context # NoView, ~ghost'.shifted, ~ghost'.behind
    PROVE  ShowsPage(store'.events, ghost'.context, 0, feed', wire')
<1> DEFINE Goal == ShowsPage(store'.events, ghost'.context, 0, feed', wire')
<1>0. /\ store.events \in Seq(Known(Published)) /\ ghost \in Ghosts /\ clock \in Nat
      /\ \A m \in wire : m.seq \in Nat
    BY TypeFacts DEF TypeInv, WireTypes
<1>1. ASSUME ghost.filter = NoFilter, ghost.context # NoView, ~ghost.shifted, ~ghost.behind
      PROVE  ShowsPage(store.events, ghost.context, 0, feed, wire)
    BY <1>1 DEF PageInv
<1>2. ASSUME SameGhost, store'.events = store.events, feed' = feed, wire' = wire
      PROVE  Goal
    BY <1>1, <1>2 DEF SameGhost
<1>3. CASE Quiet
    <2>1. SameGhost /\ store'.events = store.events /\ feed' = feed /\ wire' = wire
        BY <1>3 DEF Quiet, SameView
    <2> QED
        BY <1>2, <2>1
<1>4. CASE Unfetched
    <2>1. SameGhost /\ store'.events = store.events /\ feed' = feed /\ wire' = wire
        BY <1>4 DEF Unfetched, SameGhost
    <2> QED
        BY <1>2, <2>1
<1>5. CASE Effects /\ FetchDue
    <2>1. feed' = feed /\ wire' = wire
        BY <1>5 DEF Effects, server
    <2>2. SameView(store', store) /\ SameGhost
        BY <1>5, FetchFacts
    <2>3. store'.events = store.events
        BY <2>2 DEF SameView
    <2> QED
        BY <1>2, <2>1, <2>2, <2>3
<1>6. CASE PublishesStep
    <2>1. store' = store /\ ghost' = ghost
        BY <1>6 DEF PublishesStep
    <2>2. ShowsPage(store.events, ghost.context, 0, feed, wire)
        BY <1>1, <2>1
    <2>3. 0 \in 0 .. clock
        BY <1>0
    <2>4. ShowsPage(store.events, ghost.context, 0, feed', wire')
        BY <1>6, <2>2, <2>3, ShownIsKept
    <2> QED
        BY <2>1, <2>4
<1>7. ASSUME NEW i \in DOMAIN calls, ReceiveEvents(i) PROVE Goal
    <2>1. /\ calls[i] \in InFlight /\ calls[i].kind \in {"page", "more"}
          /\ calls[i].answer \notin {Pending, Failed} /\ calls[i].answer \in Answers(Published)
          /\ store'.events = IF calls[i].offset > 0 THEN store.events \o calls[i].answer.events
                             ELSE calls[i].answer.events
        BY <1>7, ReceiveEventsEffect DEF InFlight
    <2>2. feed' = feed /\ wire' = wire
        BY <1>7 DEF ReceiveEvents, server
    <2>3. CASE calls[i].kind = "page"
        <3>1. /\ ghost'.context = calls[i].context /\ ghost'.filter = calls[i].filter
              /\ ghost'.behind = calls[i].overtaken
            BY <1>7, <2>3, GhostOfStep
        <3>2. calls[i].offset = 0
            BY <2>1, <2>3 DEF ContextInv, PagesAreAsked
        <3>3. store'.events = calls[i].answer.events
            BY <2>1, <3>2
        <3>4. /\ calls[i].answer.at \in 0 .. clock
              /\ ShowsPage(calls[i].answer.events, calls[i].context, calls[i].answer.at, feed, wire)
            <4>1. calls[i] \in Answered /\ calls[i].filter = NoFilter /\ ~calls[i].overtaken
                BY <2>1, <3>1 DEF Answered
            <4> QED
                BY <2>3, <4>1 DEF PageInv
        <3>5. calls[i].answer.at \in Nat /\ 0 \in Nat /\ 0 <= calls[i].answer.at
            BY <1>0, <3>4
        <3>6. ShowsPage(calls[i].answer.events, calls[i].context, 0, feed, wire)
            BY <1>0, <3>4, <3>5, MoreIsShown
        <3> QED
            BY <2>2, <3>1, <3>3, <3>6
    <2>4. CASE calls[i].kind = "more"
        <3>1. /\ ~ghost.shifted /\ SameGhost /\ ghost.context # NoView
              /\ calls[i].offset = Len(store.events) /\ ~ghost.behind
            BY <1>7, <2>4, MoreContinues
        <3>2. ghost.filter = NoFilter /\ ghost'.context = ghost.context
            BY <3>1 DEF SameGhost
        <3>3. ShowsPage(store.events, ghost.context, 0, feed, wire)
            BY <1>1, <3>1, <3>2
        <3>4. Elements(store.events) \subseteq Elements(store'.events)
            <4>1. calls[i].answer.events \in Seq(Known(Published))
                BY <2>1 DEF Answers
            <4>2. CASE calls[i].offset > 0
                BY <1>0, <2>1, <4>1, <4>2, ConcatElements
            <4>3. CASE ~(calls[i].offset > 0)
                <5>1. Len(store.events) \in Nat /\ DOMAIN store.events = 1 .. Len(store.events)
                    BY <1>0, LenProperties
                <5>2. DOMAIN store.events = {}
                    BY <3>1, <4>3, <5>1
                <5> QED
                    BY <5>2 DEF Elements
            <4> QED
                BY <4>2, <4>3
        <3>5. ShowsPage(store'.events, ghost.context, 0, feed, wire)
            BY <3>3, <3>4 DEF ShowsPage
        <3> QED
            BY <2>2, <3>2, <3>5
    <2> QED
        BY <2>1, <2>3, <2>4
<1>8. ASSUME NEW i \in DOMAIN calls, ReceiveFailure(i) PROVE Goal
    <2>1. store'.events = store.events /\ SameGhost
        BY <1>8, ReceiveFailureEffect, GhostOfStep
    <2>2. feed' = feed /\ wire' = wire
        BY <1>8 DEF ReceiveFailure, server
    <2> QED
        BY <1>2, <2>1, <2>2
<1>9. ASSUME NEW m \in wire, Deliver(m) PROVE Goal
    <2>1. /\ ghost'.context = ghost.context /\ ghost.filter = NoFilter /\ ghost.context # NoView
          /\ ~ghost.shifted /\ ~ghost.behind
        BY <1>9, GhostOfStep
    <2>2. ShowsPage(store.events, ghost.context, 0, feed, wire)
        BY <1>1, <2>1
    <2> QED
        BY <1>9, <2>1, <2>2, ShownAfterMessage
<1>10. ASSUME NEW p \in Parents, Hydrate(p) PROVE FALSE
    BY <1>10, GhostOfStep
<1> QED
    BY <1>3, <1>4, <1>5, <1>6, <1>7, <1>8, <1>9, <1>10, Steps DEF ContextInv

LEMMA PageKept ==
    ASSUME TypeInv, ContextInv, FetchInv, VersionInv, PageInv, [Next]_vars
    PROVE  PageInv'
<1>1. \A c \in Answered' :
         c.kind = "page" /\ c.filter = NoFilter /\ ~c.overtaken =>
             /\ c.answer.at \in 0 .. clock'
             /\ ShowsPage(c.answer.events, c.context, c.answer.at, feed', wire')
    BY AnsweredPagesKept
<1>2. ghost'.filter = NoFilter /\ ghost'.context # NoView /\ ~ghost'.shifted /\ ~ghost'.behind =>
         ShowsPage(store'.events, ghost'.context, 0, feed', wire')
    BY ListedPageKept
<1> QED
    BY <1>1, <1>2 DEF PageInv

(* What holds of every state about the events of the list and of the first *)
(* page.                                                                   *)
LEMMA PageInvariant ==
    /\ Init => VersionInv /\ PageInv
    /\ TypeInv /\ ContextInv /\ FetchInv /\ VersionInv /\ PageInv /\ [Next]_vars =>
         VersionInv' /\ PageInv'
<1>1. ASSUME Init PROVE VersionInv /\ PageInv
    <2>1. /\ wire = {} /\ InFlight = {} /\ ghost = NoPage /\ store.events = << >>
        BY <1>1, InitialSidebar
    <2>2. Answered = {} /\ Elements(store.events) = {} /\ ghost.context = NoView
        BY <2>1 DEF Answered, Elements, NoPage
    <2> QED
        BY <2>1, <2>2 DEF VersionInv, PageInv
<1> QED
    BY <1>1, VersionsKept, PageKept

(* When everything has settled, the list of an unfiltered view holds the   *)
(* events of the first page the server would answer, as they are now       *)
(* (timeline_fetch.ts:26-78, reducer.ts:89-107, 406-420).                  *)
THEOREM SettledIsCurrent == Spec => []SettledListIsCurrent
<1>1. TypeInv /\ FetchInv /\ PageInv => SettledListIsCurrent
    <2> SUFFICES ASSUME TypeInv, FetchInv, PageInv, Settled, Shown, rhs.filter = NoFilter,
                        ~ghost.behind,
                        NEW i \in DOMAIN Page(FeedFor(feed, unread, Current, NoFilter), 0, PageSize)
                 PROVE  \E j \in DOMAIN store.events :
                          store.events[j]
                            = Page(FeedFor(feed, unread, Current, NoFilter), 0, PageSize)[i]
        BY DEF SettledListIsCurrent
    <2>1. /\ calls = << >> /\ wire = {} /\ ~FetchDue /\ rhs.mounted /\ Current.team # NoTeam
          /\ store.error = NoError /\ ~ghost.shifted
        BY DEF Settled, Shown, EffectsDue
    <2>2. /\ rhs.deps = Deps /\ Deps.context = Current /\ Deps.filter = NoFilter
          /\ Deps \in [context : Views, filter : Filters, revision : Nat]
        BY <2>1, ViewTypes DEF FetchDue
    <2>3. Fetched
        <3>1. Deps # << >>
            <4> DEFINE deps == Deps
            <4>1. deps \in [context : Views, filter : Filters, revision : Nat]
                BY <2>2
            <4> HIDE DEF deps
            <4>2. "context" \in DOMAIN deps /\ DOMAIN << >> = {}
                BY <4>1
            <4> QED
                BY <4>2 DEF deps
        <3> QED
            BY <2>1, <2>2, <3>1 DEF Fetched
    <2>4. ~PageAsked
        BY <2>1 DEF PageAsked, InFlight, Elements
    <2>5. ghost.context = Current /\ ghost.context # NoView
        <3>1. ghost.context = Current
            BY <2>1, <2>2, <2>3, <2>4 DEF FetchInv
        <3> QED
            BY <2>1, <3>1 DEF NoView
    <2>6. ghost.filter = NoFilter
        <3>1. rhs.lastFilter = NoFilter
            BY <2>2, <2>3 DEF FetchInv
        <3>2. rhs.lastFilter # << >>
            BY <3>1, FiltersAssumption DEF Filters
        <3> QED
            BY <2>1, <2>5, <3>1, <3>2 DEF FetchInv
    <2>7. ShowsPage(store.events, Current, 0, feed, {})
        BY <2>1, <2>5, <2>6 DEF PageInv
    <2> DEFINE A == FeedFor(feed, unread, Current, NoFilter)
               page == Page(A, 0, PageSize)
    <2>8. /\ A \in Seq(Known(1 .. Len(feed)))
          /\ \A j \in DOMAIN A : A[j] \in Elements(feed) /\ Fits(A[j], Current)
        BY TypeFacts, FeedForProperties
    <2>9. \A k \in DOMAIN feed : Fits(feed[k], Current) =>
             (feed[k] \in Elements(page) <=> ~OffPage(feed, k, Current))
        BY TypeFacts, PageShown
    <2> HIDE DEF A
    <2>10. Elements(page) \subseteq Elements(A)
        BY <2>8, PageOfFeed, PageSizeAssumption
    <2> HIDE DEF page
    <2>11. i \in DOMAIN page
        BY DEF page, A
    <2>12. page[i] \in Elements(page)
        BY <2>11 DEF Elements
    <2>13. PICK l \in DOMAIN A : page[i] = A[l]
        BY <2>10, <2>12 DEF Elements
    <2>14. PICK k \in DOMAIN feed : A[l] = feed[k]
        BY <2>8 DEF Elements
    <2>15. Fits(feed[k], Current) /\ ~OffPage(feed, k, Current)
        BY <2>8, <2>9, <2>12, <2>13, <2>14
    <2>16. feed[k] \in Elements(store.events)
        BY <2>7, <2>15 DEF ShowsPage
    <2>17. \E j \in DOMAIN store.events : store.events[j] = page[i]
        BY <2>13, <2>14, <2>16 DEF Elements
    <2> QED
        BY <2>17 DEF page, A
<1>2. Spec => [](TypeInv /\ ContextInv /\ FetchInv /\ ListKnown)
    BY HistoryHolds
<1>3. Spec => [](VersionInv /\ PageInv)
    <2>1. Init => VersionInv /\ PageInv
        BY PageInvariant
    <2>2. /\ TypeInv /\ ContextInv /\ FetchInv /\ VersionInv /\ PageInv /\ [Next]_vars
            => VersionInv' /\ PageInv'
        BY PageInvariant
    <2> QED
        BY <1>2, <2>1, <2>2, PTL DEF Spec
<1> QED
    BY <1>1, <1>2, <1>3, PTL
=============================================================================
