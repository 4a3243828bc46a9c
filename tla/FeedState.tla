----------------------------- MODULE FeedState -----------------------------
(***************************************************************************)
(* The Redux state of the web client (webapp/src/reducer.ts): one operator *)
(* per action, from the state to the next one, and the selectors the views *)
(* read it with.                                                           *)
(*                                                                         *)
(* Order is kept where the views depend on it: the list of events and the  *)
(* recent users of a reaction.  ID lists that are only searched are sets.  *)
(* What the reducer only passes on (timelineOrder, enableReactions,        *)
(* currentUserId) is left out: settings of the server and the user's ID.   *)
(***************************************************************************)
EXTENDS Sublists, FiniteSets

CONSTANTS
    Contexts,   \* what has an unread bucket: records [team, channel]
    NoTeam,     \* the empty team ID
    NoChannel,  \* the empty channel ID: the team-wide feed
    Icons,      \* reaction icons
    NoSummary,  \* nobody reacted with the icon
    NoError

NoView == [team |-> NoTeam, channel |-> NoChannel]

ASSUME ContextsAssumption ==
    /\ IsFiniteSet(Contexts)
    /\ \A c \in Contexts : c = [team |-> c.team, channel |-> c.channel]
    /\ \A c \in Contexts : [c EXCEPT !.channel = NoChannel] \in Contexts
    /\ \A c, d \in Contexts : [c EXCEPT !.channel = d.channel] \in Contexts
    /\ NoView \notin Contexts

NoReactions == [i \in Icons |-> NoSummary]

InitialState ==
    [events |-> << >>, total |-> 0, isLoading |-> FALSE, error |-> NoError,
     newEventIds |-> {}, updatedEventIds |-> {}, websocketRevision |-> 0,
     unread |-> [c \in Contexts |-> {}], view |-> NoView]

IdsOf(events) == {events[i].id : i \in DOMAIN events}

NoRepeats(s) == \A i, j \in DOMAIN s : s[i] = s[j] => i = j

ListsOnce(events) == \A i, j \in DOMAIN events : events[i].id = events[j].id => i = j

Without(events, id) == Sublist(events, {i \in DOMAIN events : events[i].id # id})

-----------------------------------------------------------------------------
(* Unread buckets                                                          *)

(* eventContextKeys                                                        *)
ContextKeys(event) ==
    IF event.channels = {}
    THEN {[team |-> event.team, channel |-> NoChannel]}
    ELSE {[team |-> event.team, channel |-> c] : c \in event.channels}

RemoveIdsForTeam(unread, team, ids) ==
    [c \in Contexts |-> IF c.team = team THEN unread[c] \ ids ELSE unread[c]]

ReconcileUnreadContext(unread, context, visible, ids) ==
    [RemoveIdsForTeam(unread, context.team, visible) EXCEPT ![context] = ids]

(* getCurrentTimelineUnreadEventIds                                        *)
CurrentUnread(s, context) ==
    UNION {s.unread[c] : c \in Contexts \intersect {context, [context EXCEPT !.channel = NoChannel]}}

-----------------------------------------------------------------------------
(* Actions about the feed                                                  *)

SetLoading(s, loading) == [s EXCEPT !.isLoading = loading]

SetError(s, error) == [s EXCEPT !.error = error]

(* answer: [events, total, unread]; append for a page of older events.     *)
ReceivedEvents(s, answer, append, context) ==
    [s EXCEPT !.events = IF append THEN @ \o answer.events ELSE answer.events,
              !.total  = answer.total,
              !.error  = NoError,
              !.unread = ReconcileUnreadContext(@, context, IdsOf(answer.events), answer.unread),
              !.view   = context]

(* Mutated: the guard of the root reducer is missing.                      *)
PrependNewEvent(s, event) ==
    [s EXCEPT !.events = <<event>> \o @, !.total = @ + 1,
              !.newEventIds = @ \union {event.id}, !.websocketRevision = @ + 1]

(* The root reducer drops a new event that is listed already.              *)
ReceivedNewEvent(s, event) ==
    IF event.id \in IdsOf(s.events) THEN s
    ELSE [s EXCEPT !.events            = <<event>> \o @,
                   !.total             = @ + 1,
                   !.newEventIds       = @ \union {event.id},
                   !.websocketRevision = @ + 1]

(* A payload without reactions keeps those the list has.                   *)
Merged(event, events) ==
    LET listed == {i \in DOMAIN events : events[i].id = event.id} IN
    IF event.reactions = NoReactions /\ listed # {}
    THEN [event EXCEPT !.reactions = events[CHOOSE i \in listed : \A j \in listed : i <= j].reactions]
    ELSE event

(* Mutated: replaces the event where it is listed, and only there.         *)
ReplacedInPlace(s, event) ==
    [s EXCEPT !.events = [i \in DOMAIN @ |-> IF @[i].id = event.id THEN Merged(event, @) ELSE @[i]],
              !.updatedEventIds   = @ \union {event.id},
              !.websocketRevision = @ + 1]

ReceivedUpdatedEvent(s, event) ==
    [s EXCEPT !.events            = <<Merged(event, @)>> \o Without(@, event.id),
              !.updatedEventIds   = @ \union {event.id},
              !.websocketRevision = @ + 1]

ClearNewEventFlag(s, id) == [s EXCEPT !.newEventIds = @ \ {id}]

ClearUpdatedEventFlag(s, id) == [s EXCEPT !.updatedEventIds = @ \ {id}]

ReceivedContextUnreadEvents(s, context, visible, ids) ==
    [s EXCEPT !.unread = ReconcileUnreadContext(@, context, visible, ids)]

ReceivedUnreadEvent(s, event) ==
    [s EXCEPT !.unread = [c \in Contexts |-> IF c \in ContextKeys(event)
                                             THEN @[c] \union {event.id} ELSE @[c]]]

MarkEventsRead(s, team, ids) ==
    [s EXCEPT !.unread = RemoveIdsForTeam(@, team, ids)]

(* CLEAR_EVENTS also forgets which context the view shows.                 *)
ClearEvents(s) ==
    [s EXCEPT !.events = << >>, !.total = 0, !.error = NoError, !.view = NoView]

SetViewContext(s, context) == [s EXCEPT !.view = context]

(* The state of the parent window, except its websocketRevision.           *)
HydratePopoutState(s, hydrated, context) ==
    [hydrated EXCEPT !.websocketRevision = s.websocketRevision, !.view = context]

-----------------------------------------------------------------------------
(* Actions about reactions.  A summary is [count, self, recent].           *)

RecentUsers(users) == SubSeq(users, IF Len(users) > 3 THEN Len(users) - 2 ELSE 1, Len(users))

(* Mutated: looks for the user among the recent ones only.                 *)
SummaryOfRecent(users, user) ==
    IF users = << >> THEN NoSummary
    ELSE [count  |-> Len(users),
          self   |-> \E i \in DOMAIN RecentUsers(users) : RecentUsers(users)[i] = user,
          recent |-> RecentUsers(users)]

Summary(users, user) ==
    IF users = << >> THEN NoSummary
    ELSE [count  |-> Len(users),
          self   |-> \E i \in DOMAIN users : users[i] = user,
          recent |-> RecentUsers(users)]

(* The events with that id get the new reactions of their place.           *)
WithReactions(events, id, new) ==
    [i \in DOMAIN events |-> IF events[i].id = id THEN [events[i] EXCEPT !.reactions = new[i]]
                             ELSE events[i]]

(* The websocket message carries everybody who reacted with the icon.      *)
ReceivedReactionUpdated(s, id, icon, users, currentUser) ==
    LET new == [i \in DOMAIN s.events |->
                  [s.events[i].reactions EXCEPT ![icon] = Summary(users, currentUser)]]
    IN [s EXCEPT !.events = WithReactions(@, id, new)]

ReceivedEventReactions(s, id, reactions) ==
    [s EXCEPT !.events = WithReactions(@, id, [i \in DOMAIN @ |-> reactions])]

OptimisticallyAdded(summary) ==
    IF summary = NoSummary THEN [count |-> 1, self |-> TRUE, recent |-> << >>]
    ELSE [summary EXCEPT !.count = @ + 1, !.self = TRUE]

OptimisticallyRemoved(summary) ==
    IF summary = NoSummary \/ summary.count <= 1 THEN NoSummary
    ELSE [summary EXCEPT !.count = @ - 1, !.self = FALSE]

OptimisticReaction(s, id, icon, kind) ==
    LET Toggled(summary) == IF kind = "add" THEN OptimisticallyAdded(summary)
                            ELSE OptimisticallyRemoved(summary)
        new == [i \in DOMAIN s.events |-> [s.events[i].reactions EXCEPT ![icon] = Toggled(@)]]
    IN [s EXCEPT !.events = WithReactions(@, id, new)]
=============================================================================
