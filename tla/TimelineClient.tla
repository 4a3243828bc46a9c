--------------------------- MODULE TimelineClient ---------------------------
(***************************************************************************)
(* The web client of one user: the feed in the right-hand sidebar          *)
(* (components/rhs_view.tsx and its hooks timeline_fetch.ts,               *)
(* timeline_read_tracking.ts, timeline_filters.ts,                         *)
(* timeline_event_groups.ts), the badge (icon.tsx), the requests of        *)
(* actions.ts and the websocket and popout handlers of index.tsx, over a   *)
(* server that publishes and updates events meanwhile.                     *)
(*                                                                         *)
(* A request is on its way, then handled by the server, then its answer    *)
(* reaches the client; answers and websocket messages come in any order.   *)
(* Effects of a component run some time after the render that caused them. *)
(***************************************************************************)
EXTENDS FeedState

CONSTANTS
    Hosts,          \* contexts the user may select in Mattermost
    NoFilter,       \* no filter is set
    PinnedOnly,     \* stands for the filters that read the event only
    UnreadOnly,     \* the filter that reads the user's read state
    Publications,   \* what webhooks publish: records [team, channels, look]
    Looks,          \* records [pinned, expired, terminal, urgent] an update gives
    Parents,        \* states a parent window may hand to this popout
    PageSize,       \* events in an answer: the limit of 50, or MaxDisplayed
    MaxDisplayed,   \* maxEventsDisplayed
    Pending,        \* the server has not handled the request
    Failed,         \* the request failed, or its answer is no valid one
    LoadError,      \* any error key
    Scenarios       \* where a behaviour may start, and how often each
                    \* operation may happen in it (the bound)

Operations ==
    {"publish", "update", "select", "open", "close", "filter", "retype", "more",
     "animate", "fail", "hydrate"}

Filters == {NoFilter, PinnedOnly, UnreadOnly}

(* The Redux states about events of a set, among them published ones.      *)
Stores(events, published) ==
    [events : Seq(events), total : Nat, isLoading : BOOLEAN, error : {NoError, LoadError},
     newEventIds : SUBSET published, updatedEventIds : SUBSET published,
     websocketRevision : Nat, unread : [Contexts -> SUBSET published],
     view : Contexts \union {NoView}]

IsEvent(e) ==
    /\ e = [id |-> e.id, version |-> e.version, team |-> e.team, channels |-> e.channels,
            look |-> e.look, reactions |-> e.reactions]
    /\ e.id \in Nat /\ e.version \in Nat /\ e.team # NoTeam

Elements(s) == {s[i] : i \in DOMAIN s}

(* The events a behaviour may start with.                                  *)
InitialEvents ==
    UNION {Elements(s.feed) : s \in Scenarios}
        \union UNION {Elements(p.state.events) : p \in {q \in Parents : q.known}}

ASSUME PageSizeAssumption ==
    PageSize \in Nat \ {0} /\ MaxDisplayed \in Nat /\ PageSize <= MaxDisplayed
ASSUME FiltersAssumption ==
    /\ NoFilter # PinnedOnly /\ NoFilter # UnreadOnly /\ PinnedOnly # UnreadOnly
    /\ << >> \notin Filters
ASSUME ErrorAssumption == LoadError # NoError
ASSUME HostsAssumption == Hosts \subseteq Contexts
ASSUME EventsAssumption ==
    /\ \A e \in InitialEvents : IsEvent(e)
    /\ \A p \in Publications : p.team # NoTeam
ASSUME ScenariosAssumption ==
    \A s \in Scenarios :
        /\ s.budget \in [Operations -> Nat]
        /\ s.host \in Contexts \union {NoView}
        /\ s.feed \in Seq(InitialEvents)
        /\ ListsOnce(s.feed) /\ IdsOf(s.feed) = 1 .. Len(s.feed)
        /\ s.unread \subseteq IdsOf(s.feed)
        /\ s.refreshed \in BOOLEAN
        /\ s.refreshed => s.host # NoView
ASSUME ParentsAssumption ==
    \A p \in Parents :
        /\ p.context \in Contexts
        /\ p.known => \A s \in Scenarios :
                          /\ p.state \in Stores(InitialEvents, IdsOf(s.feed))
                          /\ IdsOf(p.state.events) \subseteq IdsOf(s.feed)

VARIABLES
    store,      \* the Redux state of the plugin
    host,       \* the context selected in Mattermost
    rhs,        \* the sidebar component: its state and refs
    icon,       \* the context the badge was last refreshed for
    calls,      \* HTTP requests of the client, in the order they were sent
    feed,       \* the server's events of the team, newest stamp first
    unread,     \* the events the server counts unread for the user
    clock,      \* how many changes the server has published
    wire,       \* websocket messages on their way
    left,       \* how often each operation may still happen
    ghost       \* history, for the properties only

vars == <<store, host, rhs, icon, calls, feed, unread, clock, wire, left, ghost>>
server == <<feed, unread, clock>>

-----------------------------------------------------------------------------
(* The view                                                                *)

(* getCurrentTeamId, getCurrentChannelId: what Mattermost has selected, or *)
(* else what the plugin was told.                                          *)
Current == [team    |-> IF host.team # NoTeam THEN host.team ELSE store.view.team,
            channel |-> IF host.channel # NoChannel THEN host.channel ELSE store.view.channel]

IsTimelineEventActive(e) ==
    e.look.pinned \/ (~e.look.expired /\ ~e.look.terminal /\ e.look.urgent)

(* The events in the order they are rendered, active ones first.  (With    *)
(* oldest_first each group is reversed: no property sees the order.)       *)
RenderedEvents(events) ==
    LET active == {i \in DOMAIN events : IsTimelineEventActive(events[i])}
    IN  Sublist(events, active) \o Sublist(events, DOMAIN events \ active)

Unmounted ==
    [mounted |-> FALSE, filter |-> NoFilter, loaded |-> NoView, deps |-> << >>,
     lastFilter |-> << >>, lastRevision |-> 0, marked |-> << >>]

(* Mutated: filtered results do not follow the websocket.                  *)
DepsUnrevised == [context |-> Current, filter |-> rhs.filter, revision |-> 0]

(* What the fetch effect depends on; << >> before it ran, and once more    *)
(* after a setter produced an equal but new filter object.                 *)
Deps == [context  |-> Current,
         filter   |-> rhs.filter,
         revision |-> IF rhs.filter = NoFilter THEN 0 ELSE store.websocketRevision]

FetchDue == rhs.mounted /\ rhs.deps # Deps

(* The read tracking effect: the rendered events the badge counts.         *)
ToMark == IdsOf(store.events) \intersect CurrentUnread(store, Current)

(* Mutated: the signature names the context only.                          *)
SignatureOfView == [view |-> store.view, shown |-> << >>, ids |-> {}]

(* The version stands for the timestamp: two updates of an event within    *)
(* one millisecond, which would look alike, are left out.                  *)
Signature ==
    LET rendered == RenderedEvents(store.events) IN
    [view  |-> store.view,
     shown |-> [i \in DOMAIN rendered |-> <<rendered[i].id, rendered[i].version>>],
     ids   |-> ToMark]

(* Mutated: marks when there is nothing to mark.                           *)
MarkDueEmpty ==
    /\ rhs.mounted
    /\ store.view.team # NoTeam
    /\ store.view = Current
    /\ ~store.isLoading
    /\ store.error = NoError
    /\ rhs.marked # Signature

MarkDue ==
    /\ rhs.mounted
    /\ store.view.team # NoTeam
    /\ store.view = Current
    /\ ~store.isLoading
    /\ store.error = NoError
    /\ ToMark # {}
    /\ rhs.marked # Signature

EffectsDue == FetchDue \/ MarkDue \/ (rhs.mounted /\ rhs.loaded # store.view)

-----------------------------------------------------------------------------
(* Requests                                                                *)

Call(kind, context, filter, offset, ids) ==
    [kind |-> kind, context |-> context, filter |-> filter, offset |-> offset,
     ids |-> ids, answer |-> Pending, overtaken |-> FALSE, unmarked |-> FALSE]

(* Mutated: the effect has no cleanup.                                     *)
AbortNone(cs) == cs

(* The cleanup of the fetch effect: its request is the only one with a     *)
(* signal.  Nothing is made of an aborted request, whenever it ends, and   *)
(* reading changes nothing on the server: it is forgotten here.            *)
Abort(cs) == Sublist(cs, {i \in DOMAIN cs : cs[i].kind # "page"})

Taken(cs, i) == [j \in 1 .. Len(cs) - 1 |-> IF j < i THEN cs[j] ELSE cs[j + 1]]

Spend(operation) ==
    /\ left[operation] > 0
    /\ left' = [left EXCEPT ![operation] = @ - 1]

(* What the list was last replaced with: the answer of which request, as   *)
(* of when; behind when it misses changes that were delivered already;     *)
(* shifted when an answer of Load more did not continue it; pushed are the *)
(* events the websocket delivered since.  miscounted: since the view last  *)
(* marked events, marking failed or something older than what it marked    *)
(* was counted again.                                                      *)
NoPage == [context |-> NoView, filter |-> NoFilter, at |-> 0, behind |-> FALSE,
           shifted |-> FALSE, pushed |-> {}, miscounted |-> FALSE]
-----------------------------------------------------------------------------
(* The sidebar is closed; the badge has been refreshed or not.             *)
Init ==
    \E s \in Scenarios :
        /\ host = s.host
        /\ feed = s.feed
        /\ unread = s.unread
        /\ left = s.budget
        /\ icon = IF s.refreshed THEN s.host ELSE NoView
        /\ store = IF s.refreshed
                   THEN ReceivedContextUnreadEvents(InitialState, s.host, {}, s.unread)
                   ELSE InitialState
        /\ rhs = Unmounted
        /\ calls = << >>
        /\ clock = 0
        /\ wire = {}
        /\ ghost = NoPage

(* The user selects another channel or team.                               *)
SelectContext(c) ==
    /\ c # host
    /\ Spend("select")
    /\ host' = c
    /\ UNCHANGED <<store, rhs, icon, calls, server, wire, ghost>>

(* The sidebar is opened and closed; component state starts afresh.        *)
Open ==
    /\ ~rhs.mounted
    /\ Spend("open")
    /\ rhs' = [Unmounted EXCEPT !.mounted = TRUE]
    /\ UNCHANGED <<store, host, icon, calls, server, wire, ghost>>

Close ==
    /\ rhs.mounted
    /\ Spend("close")
    /\ rhs' = Unmounted
    /\ calls' = Abort(calls)
    /\ UNCHANGED <<store, host, icon, server, wire, ghost>>

SetFilter(f) ==
    /\ rhs.mounted
    /\ f # rhs.filter
    /\ Spend("filter")
    /\ rhs' = [rhs EXCEPT !.filter = f]
    /\ UNCHANGED <<store, host, icon, calls, server, wire, ghost>>

(* A blank typed into the search field: same filters, new object.          *)
Retype ==
    /\ rhs.mounted
    /\ Spend("retype")
    /\ rhs' = [rhs EXCEPT !.deps = << >>]
    /\ UNCHANGED <<store, host, icon, calls, server, wire, ghost>>

(* handleLoadMore, behind its button: without a signal.                    *)
LoadMore ==
    /\ rhs.mounted
    /\ ~store.isLoading
    /\ Current.team # NoTeam
    /\ Len(store.events) < store.total
    /\ Spend("more")
    /\ store' = SetLoading(store, TRUE)
    /\ calls' = Append(calls, Call("more", Current, rhs.filter, Len(store.events), {}))
    /\ UNCHANGED <<host, rhs, icon, server, wire, ghost>>

(* The animation of an entry ends: the new flag first.                     *)
AnimationEnd(id) ==
    /\ rhs.mounted
    /\ id \in IdsOf(store.events)
    /\ Spend("animate")
    /\ \/ /\ id \in store.newEventIds
          /\ store' = ClearNewEventFlag(store, id)
       \/ /\ id \notin store.newEventIds
          /\ id \in store.updatedEventIds
          /\ store' = ClearUpdatedEventFlag(store, id)
    /\ UNCHANGED <<host, rhs, icon, calls, server, wire, ghost>>

(* The effect of the badge, which is mounted all the time.                 *)
RefreshUnread ==
    /\ icon # Current
    /\ icon' = Current
    /\ calls' = IF Current.team = NoTeam THEN calls
                ELSE Append(calls, Call("refresh", Current, NoFilter, 0, {}))
    /\ UNCHANGED <<store, host, rhs, server, wire, left, ghost>>

(* The effects of the sidebar after a render, in their order, with what    *)
(* that render saw: remember the view, fetch, track what was read.         *)
Effects ==
    LET current  == Current
        same     == /\ store.view = current
                    /\ rhs.lastFilter = rhs.filter
                    /\ rhs.lastRevision = Deps.revision
        aborted  == IF FetchDue THEN Abort(calls) ELSE calls
        fetches  == FetchDue /\ current.team # NoTeam
        fetched  == IF fetches
                    THEN Append(aborted, Call("page", current, rhs.filter, 0, {}))
                    ELSE aborted
        marks    == Call("mark", store.view, NoFilter, 0, ToMark)
    IN  /\ EffectsDue
        /\ rhs' = [rhs EXCEPT !.loaded       = store.view,
                              !.deps         = Deps,
                              !.lastFilter   = IF fetches THEN rhs.filter ELSE @,
                              !.lastRevision = IF fetches THEN Deps.revision ELSE @,
                              !.marked       = IF MarkDue THEN Signature ELSE @]
        /\ store' = IF ~fetches THEN store
                    ELSE SetLoading(IF same THEN store ELSE ClearEvents(store), TRUE)
        /\ calls' = IF MarkDue THEN Append(fetched, marks) ELSE fetched
        /\ ghost' = [(IF fetches /\ ~same THEN NoPage ELSE ghost)
                     EXCEPT !.miscounted = ghost.miscounted /\ ~MarkDue]
        /\ UNCHANGED <<host, icon, server, wire, left>>

-----------------------------------------------------------------------------
(* The server                                                              *)

Fits(e, context) ==
    /\ e.team = context.team
    /\ e.channels = {} \/ context.channel \in e.channels

(* A team's index, which an update leaves as it is: newest event first.    *)
NewestFirst(events) ==
    [i \in DOMAIN events |->
        events[CHOOSE k \in DOMAIN events : events[k].id = Len(events) + 1 - i]]

Listed(events, context) ==
    IF context.channel = NoChannel THEN NewestFirst(events) ELSE events

(* eventMatchesFilters                                                     *)
Matches(e, ids, filter) ==
    /\ filter = PinnedOnly => e.look.pinned
    /\ filter = UnreadOnly => e.id \in ids

(* getVisibleEventsForUser: the feed of a channel is that of the channel   *)
(* and of the team, by time; the team-wide one is in the index's order.    *)
FeedFor(events, ids, context, filter) ==
    LET listed == Listed(events, context)
    IN  Sublist(listed, {i \in DOMAIN events : /\ Fits(listed[i], context)
                                               /\ Matches(listed[i], ids, filter)})

Page(events, offset, limit) ==
    SubSeq(events, offset + 1, IF Len(events) < offset + limit THEN Len(events) ELSE offset + limit)

(* A webhook stores an event and tells its audience; read states list it   *)
(* as unread.  One message for every channel, or one for the team.         *)
Broadcast(kind, event) ==
    {[kind |-> kind, event |-> event, seq |-> clock + 1, to |-> c] :
        c \in IF event.channels = {} THEN {NoChannel} ELSE event.channels}

Publish(p) ==
    LET event == [id |-> Len(feed) + 1, version |-> 0, team |-> p.team,
                  channels |-> p.channels, look |-> p.look, reactions |-> NoReactions]
    IN  /\ Spend("publish")
        /\ feed' = <<event>> \o feed
        /\ unread' = unread \union {event.id}
        /\ clock' = clock + 1
        /\ wire' = wire \union Broadcast("new", event)
        /\ UNCHANGED <<store, host, rhs, icon, calls, ghost>>

Update(i, look) ==
    LET event == [feed[i] EXCEPT !.version = @ + 1, !.look = look]
    IN  /\ Spend("update")
        /\ feed' = <<event>> \o Without(feed, event.id)
        /\ unread' = unread \union {event.id}
        /\ clock' = clock + 1
        /\ wire' = wire \union Broadcast("updated", event)
        /\ UNCHANGED <<store, host, rhs, icon, calls, ghost>>

Answer(events, offset) ==
    LET page == Page(events, offset, PageSize)
    IN  [events |-> page, total |-> Len(events),
         unread |-> unread \intersect IdsOf(page), at |-> clock]

(* handleGetEvents and handleMarkEventsRead.                               *)
Serve(i) ==
    LET call == calls[i] IN
    /\ call.answer = Pending
    /\ \E events \in {FeedFor(feed, unread, call.context, call.filter)} :
         /\ calls' = [calls EXCEPT ![i].answer = Answer(events, call.offset)]
         /\ unread' = IF call.kind = "mark"
                      THEN unread \ (call.ids \intersect IdsOf(Page(events, 0, MaxDisplayed)))
                      ELSE unread
    /\ UNCHANGED <<store, host, rhs, icon, feed, clock, wire, left, ghost>>

(* The connection breaks, before or after the server handled the request.  *)
Fail(i) ==
    /\ calls[i].answer # Failed
    /\ Spend("fail")
    /\ calls' = [calls EXCEPT ![i].answer = Failed]
    /\ UNCHANGED <<store, host, rhs, icon, server, wire, ghost>>

-----------------------------------------------------------------------------
(* Answers and messages                                                    *)

(* fetchEvents                                                             *)
ReceiveEvents(i) ==
    LET call   == calls[i]
        answer == call.answer
        more   == call.kind = "more"
        continues == /\ call.context = ghost.context
                     /\ call.filter = ghost.filter /\ call.filter # UnreadOnly
                     /\ answer.at = ghost.at
                     /\ call.offset = Len(store.events)
                     /\ ghost.pushed = {}
                     /\ ~ghost.behind
    IN  /\ call.kind \in {"page", "more"}
        /\ answer \notin {Pending, Failed}
        /\ store' = SetLoading(ReceivedEvents(SetError(store, NoError), answer,
                                              call.offset > 0, call.context), FALSE)
        /\ ghost' = IF more
                    THEN [ghost EXCEPT !.shifted = @ \/ ~continues]
                    ELSE [context |-> call.context, filter |-> call.filter, at |-> answer.at,
                          behind |-> call.overtaken, shifted |-> FALSE, pushed |-> {},
                          miscounted |-> ghost.miscounted \/ call.overtaken \/ call.unmarked]
        /\ calls' = Taken(calls, i)
        /\ UNCHANGED <<host, rhs, icon, server, wire, left>>

(* refreshUnreadEvents                                                     *)
ReceiveUnread(i) ==
    LET call == calls[i] IN
    /\ call.kind = "refresh"
    /\ call.answer \notin {Pending, Failed}
    /\ store' = ReceivedContextUnreadEvents(store, call.context, IdsOf(call.answer.events),
                                            call.answer.unread)
    /\ ghost' = [ghost EXCEPT !.miscounted = @ \/ call.overtaken \/ call.unmarked]
    /\ calls' = Taken(calls, i)
    /\ UNCHANGED <<host, rhs, icon, server, wire, left>>

(* markVisibleEventsRead.  Other answers may still count the events.       *)
ReceiveMarked(i) ==
    LET call == calls[i] IN
    /\ call.kind = "mark"
    /\ call.answer \notin {Pending, Failed}
    /\ store' = MarkEventsRead(store, call.context.team, call.ids)
    /\ calls' = Taken([j \in DOMAIN calls |->
                         IF calls[j].answer \in {Pending, Failed} THEN calls[j]
                         ELSE [calls[j] EXCEPT !.unmarked = TRUE]], i)
    /\ UNCHANGED <<host, rhs, icon, server, wire, left, ghost>>

(* Mutated: loading goes on after a failure.                               *)
FailureStaysLoading(i) ==
    /\ calls[i].answer = Failed
    /\ store' = IF calls[i].kind \in {"page", "more"} THEN SetError(store, LoadError) ELSE store
    /\ ghost' = [ghost EXCEPT !.miscounted = @ \/ calls[i].kind = "mark"]
    /\ calls' = Taken(calls, i)
    /\ UNCHANGED <<host, rhs, icon, server, wire, left>>

(* Only fetchEvents shows that it failed.                                  *)
ReceiveFailure(i) ==
    /\ calls[i].answer = Failed
    /\ store' = IF calls[i].kind \in {"page", "more"}
                THEN SetLoading(SetError(store, LoadError), FALSE) ELSE store
    /\ ghost' = [ghost EXCEPT !.miscounted = @ \/ calls[i].kind = "mark"]
    /\ calls' = Taken(calls, i)
    /\ UNCHANGED <<host, rhs, icon, server, wire, left>>

Receive(i) == ReceiveEvents(i) \/ ReceiveUnread(i) \/ ReceiveMarked(i) \/ ReceiveFailure(i)

(* The websocket handlers of index.tsx dispatch two actions.               *)
Deliver(m) ==
    LET listed   == {store.events[k].version :
                        k \in {j \in DOMAIN store.events : store.events[j].id = m.event.id}}
        applied  == IF m.kind = "new" THEN ReceivedNewEvent(store, m.event)
                    ELSE ReceivedUpdatedEvent(store, m.event)
    IN  /\ store' = ReceivedUnreadEvent(applied, m.event)
        /\ wire' = wire \ {m}
        /\ calls' = [j \in DOMAIN calls |->
                       IF calls[j].answer \in {Pending, Failed} \/ calls[j].answer.at >= m.seq
                       THEN calls[j] ELSE [calls[j] EXCEPT !.overtaken = TRUE]]
        /\ ghost' = [ghost EXCEPT !.pushed = @ \union {m.event.id},
                                  !.behind = @ \/ (/\ m.kind = "updated"
                                                   /\ \E v \in listed : v > m.event.version),
                                  !.miscounted = @ \/ \E v \in listed : v >= m.event.version]
        /\ UNCHANGED <<host, rhs, icon, server, left>>

(* The parent window's answer reaches a popout, which takes its state over *)
(* when the parent has one.                                                *)
Hydrate(parent) ==
    LET viewing == SetViewContext(store, parent.context) IN
    /\ Spend("hydrate")
    /\ store' = IF parent.known THEN HydratePopoutState(viewing, parent.state, parent.context)
                ELSE viewing
    /\ ghost' = [ghost EXCEPT !.behind = TRUE, !.shifted = TRUE]
    /\ UNCHANGED <<host, rhs, icon, calls, server, wire>>

-----------------------------------------------------------------------------
UserStep ==
    \/ \E c \in Hosts : SelectContext(c)
    \/ Open
    \/ Close
    \/ \E f \in Filters : SetFilter(f)
    \/ Retype
    \/ LoadMore
    \/ \E id \in IdsOf(store.events) : AnimationEnd(id)

ServerStep ==
    \/ \E p \in Publications : Publish(p)
    \/ \E i \in DOMAIN feed, l \in Looks : Update(i, l)
    \/ \E i \in DOMAIN calls : Serve(i)

Next ==
    \/ UserStep
    \/ ServerStep
    \/ RefreshUnread
    \/ Effects
    \/ \E i \in DOMAIN calls : Fail(i) \/ Receive(i)
    \/ \E m \in wire : Deliver(m)
    \/ \E p \in Parents : Hydrate(p)

(* The browser runs effects and delivers what reaches it; the server       *)
(* handles requests.  Nobody has to select, click, publish or fail.        *)
Fairness ==
    /\ WF_vars(Effects)
    /\ WF_vars(RefreshUnread)
    /\ WF_vars(\E i \in DOMAIN calls : Serve(i))
    /\ WF_vars(\E i \in DOMAIN calls : Receive(i))
    /\ WF_vars(\E m \in wire : Deliver(m))

Spec == Init /\ [][Next]_vars /\ Fairness

-----------------------------------------------------------------------------
(* Properties                                                              *)

Published == 1 .. Len(feed)

(* Types, and: nothing is listed or counted that was never published.      *)
TypeOK ==
    /\ IdsOf(store.events) \union store.newEventIds \union store.updatedEventIds
           \union UNION {store.unread[c] : c \in Contexts} \subseteq Published
    /\ store.view \in Contexts \union {NoView}
    /\ store.total \in Nat /\ store.isLoading \in BOOLEAN /\ store.error \in {NoError, LoadError}
    /\ {host, icon} \subseteq Contexts \union {NoView}
    /\ rhs.mounted \in BOOLEAN /\ rhs.filter \in Filters
    /\ \A i \in DOMAIN calls :
           /\ calls[i].kind \in {"page", "more", "refresh", "mark"}
           /\ calls[i].context \in Contexts /\ calls[i].ids \subseteq Published
           /\ calls[i].kind = "mark" => calls[i].ids # {}
    /\ unread \subseteq Published

(* The list shows an event once, whatever order answers and messages came  *)
(* in, unless an answer of Load more was appended to another list than it  *)
(* was asked for (reducer.ts, root reducer and events).                    *)
ListedOnce == ~ghost.shifted => ListsOnce(store.events)

(* Once the effects have run, the list holds nothing a request for another *)
(* context brought, however late its answer came (timeline_fetch.ts: abort *)
(* and clear).                                                             *)
NoForeignAnswer ==
    rhs.mounted /\ Current.team # NoTeam /\ ~FetchDue /\ ~ghost.shifted =>
        \A i \in DOMAIN store.events :
            Fits(store.events[i], Current) \/ store.events[i].id \in ghost.pushed

Settled == calls = << >> /\ wire = {} /\ ~EffectsDue

Shown == rhs.mounted /\ Current.team # NoTeam /\ store.error = NoError /\ ~ghost.shifted

(* When nothing is on its way the first page of the feed is listed, each   *)
(* event as the server has it, unless an answer or message older than what *)
(* the list held replaced it (actions.ts and reducer.ts).                  *)
SettledListIsCurrent ==
    Settled /\ Shown /\ rhs.filter = NoFilter /\ ~ghost.behind =>
        LET page == Page(FeedFor(feed, unread, Current, NoFilter), 0, PageSize)
        IN  \A i \in DOMAIN page : \E j \in DOMAIN store.events : store.events[j] = page[i]

(* A filtered list is exactly what the server would answer: the websocket  *)
(* makes the view ask again (rhs_view.tsx eventRevision).  The exception   *)
(* is an answer older than a new event that was dropped because another    *)
(* answer had listed it (reducer.ts:406-420).                              *)
FilteredListIsExact ==
    Settled /\ Shown /\ rhs.filter = PinnedOnly /\ ~ghost.behind =>
        store.events = Page(FeedFor(feed, unread, Current, PinnedOnly), 0, Len(store.events))

Healthy ==
    rhs.mounted /\ store.error = NoError /\ ~ghost.shifted /\ ~ghost.miscounted

Unread == Healthy /\ ToMark # {}

(* What is shown and counted in the badge gets marked and leaves it,       *)
(* however changes come in between, unless a request fails or an older     *)
(* answer or message counts it again (timeline_read_tracking.ts).          *)
ViewedGetsRead == Unread ~> ~Unread

(* A parent handed its list over while it was loading itself, after the    *)
(* window's own request had ended: HYDRATE_POPOUT_STATE takes isLoading    *)
(* over as it is, and no request here ends it (reducer.ts:189).  Once the  *)
(* window asks again its request is among the calls; shifted: the list     *)
(* handed over is still the one listed.                                    *)
HandedLoading ==
    store.isLoading /\ ghost.shifted /\ \A i \in DOMAIN calls : calls[i].kind \notin {"page", "more"}

(* Loading ends, whatever is aborted, fails or comes late, also when a     *)
(* parent hands its own loading over while the window's request is on its  *)
(* way; excepted are one handed over later, and a window without a team,   *)
(* which both load for ever (actions.ts fetchEvents, finally).             *)
Loading == rhs.mounted /\ host.team # NoTeam /\ store.isLoading /\ ~HandedLoading

LoadingEnds == Loading ~> ~Loading
=============================================================================
