-------------------------- MODULE ClientReactions --------------------------
(***************************************************************************)
(* Reactions to one listed event, in the client of one user: the pills of  *)
(* components/reaction_bar.tsx and reaction_pill.tsx with their tooltip,   *)
(* addReaction, removeReaction and fetchReactionUsers of actions.ts and    *)
(* the websocket handler of index.tsx, while other users react.            *)
(*                                                                         *)
(* A click changes the pill at once and undoes that when the request       *)
(* fails.  Requests and answers pass each other; what the server does with *)
(* one of them is one step here and EventRecord's subject.                 *)
(***************************************************************************)
EXTENDS FeedState

CONSTANTS
    Me,
    Others,         \* users who react in clients of their own
    Acts,           \* what they do: records [user, icon, kind]
    NoUsers,        \* no user list: nil in Go, null in JSON and in a tooltip
    Pending,        \* the server has not handled the request
    Failed,         \* the request failed, or its answer is no valid one
    ReactionError,  \* any error key
    Scenarios       \* what the server holds at first, and how often each
                    \* operation may happen (the bound)

Operations == {"click", "act", "hover", "expire", "fail"}

Users == Others \union {Me}

ASSUME MeAssumption == Me \notin Others
ASSUME ActsAssumption ==
    \A a \in Acts : a.user \in Others /\ a.icon \in Icons /\ a.kind \in {"add", "remove"}
ASSUME SummaryAssumption ==
    NoSummary \notin [count : Nat, self : BOOLEAN, recent : Seq(Users)]
ASSUME ScenariosAssumption ==
    \A s \in Scenarios :
        /\ s.budget \in [Operations -> Nat]
        /\ s.users \in [Icons -> Seq(Users)]
        /\ \A i \in Icons : NoRepeats(s.users[i])

VARIABLES
    store,      \* the Redux state of the plugin, with the event listed
    users,      \* per icon, who reacted, oldest first, on the server
    clock,      \* how many changes the server has made
    changed,    \* per icon, the last of them
    calls,      \* PUT and DELETE requests, in the order they were sent
    wire,       \* websocket messages on their way
    pills,      \* per icon, the state of its pill
    fetches,    \* GET requests of tooltips
    left,       \* how often each operation may still happen
    ghost       \* per icon, history for the properties only

vars == <<store, users, clock, changed, calls, wire, pills, fetches, left, ghost>>
server == <<users, clock, changed>>
-----------------------------------------------------------------------------
Spend(operation) ==
    /\ left[operation] > 0
    /\ left' = [left EXCEPT ![operation] = @ - 1]

Displayed(s) == s.events[1].reactions

(* The pill of an icon nobody is left with goes, with its tooltip.  A pill *)
(* that comes back is another component: old answers do not reach it.      *)
Pill(number) ==
    [number |-> number, shown |-> TRUE, sequence |-> 0, users |-> NoUsers,
     error |-> FALSE, asked |-> 0, told |-> 0]

PillsAfter(s) ==
    [i \in Icons |->
        IF Displayed(s)[i] = NoSummary THEN [pills[i] EXCEPT !.shown = FALSE]
        ELSE IF pills[i].shown THEN pills[i]
        ELSE Pill(pills[i].number + 1)]

(* Sets the store, and renders.                                            *)
Render(s) == store' = s /\ pills' = PillsAfter(s)

(* ToClientSummaries                                                       *)
Summaries(us) == [i \in Icons |-> Summary(us[i], Me)]

Init ==
    \E s \in Scenarios :
        /\ users = s.users
        /\ left = s.budget
        /\ store = [InitialState EXCEPT !.events = <<[id |-> 1, reactions |-> Summaries(s.users)]>>]
        /\ pills = [i \in Icons |-> [Pill(0) EXCEPT !.shown = s.users[i] # << >>]]
        /\ clock = 0
        /\ changed = [i \in Icons |-> 0]
        /\ calls = << >>
        /\ wire = {}
        /\ fetches = {}
        /\ ghost = [i \in Icons |-> [shown |-> 0, doubt |-> FALSE]]

(* ghost[i].shown: the latest server state an answer or message showed;    *)
(* doubt: since then an older one came, or a failure undid a click that    *)
(* was not alone.  A click is alone while its icon has no other click on   *)
(* its way, and no message about the icon and no answer at all, fresh or   *)
(* old, came since it was made: what those show is toggled back as well.   *)
Showing(g, at) ==
    IF at < g.shown THEN [g EXCEPT !.doubt = TRUE] ELSE [shown |-> at, doubt |-> FALSE]

Taken(cs, k) == [j \in 1 .. Len(cs) - 1 |-> IF j < k THEN cs[j] ELSE cs[j + 1]]

-----------------------------------------------------------------------------
(* The user                                                                *)

Opposite(kind) == IF kind = "add" THEN "remove" ELSE "add"

(* toggleReaction, from the pill or the picker, and the first half of      *)
(* addReaction or removeReaction.                                          *)
Click(icon) ==
    LET mine == Displayed(store)[icon] # NoSummary /\ Displayed(store)[icon].self
        kind == IF mine THEN "remove" ELSE "add"
    IN  /\ Spend("click")
        /\ Render(OptimisticReaction(store, 1, icon, kind))
        /\ calls' = Append([j \in DOMAIN calls |->
                              IF calls[j].icon = icon THEN [calls[j] EXCEPT !.alone = FALSE]
                              ELSE calls[j]],
                           [kind |-> kind, icon |-> icon, answer |-> Pending,
                            alone |-> \A j \in DOMAIN calls : calls[j].icon # icon])
        /\ UNCHANGED <<server, wire, fetches, ghost>>

FetchReactionUsers(icon, number, sequence) ==
    [icon |-> icon, number |-> number, sequence |-> sequence, answer |-> Pending]

(* handleMouseEnter: the tooltip asks unless it has users.                 *)
Hover(icon) ==
    /\ pills[icon].shown
    /\ pills[icon].users = NoUsers
    /\ Spend("hover")
    /\ pills' = [pills EXCEPT ![icon].sequence = @ + 1, ![icon].error = FALSE,
                              ![icon].asked = clock]
    /\ fetches' = fetches \union
           {FetchReactionUsers(icon, pills[icon].number, pills[icon].sequence + 1)}
    /\ UNCHANGED <<store, server, calls, wire, ghost>>

(* After TOOLTIP_CACHE_TTL_MS the tooltip forgets.                         *)
Expire(icon) ==
    /\ pills[icon].shown
    /\ pills[icon].users # NoUsers
    /\ Spend("expire")
    /\ pills' = [pills EXCEPT ![icon].users = NoUsers, ![icon].error = FALSE]
    /\ UNCHANGED <<store, server, calls, wire, fetches, ghost>>

-----------------------------------------------------------------------------
(* The server                                                              *)

(* AddReaction and RemoveReaction.                                         *)
Reacted(us, user, kind) ==
    IF kind = "remove" THEN Sublist(us, {i \in DOMAIN us : us[i] # user})
    ELSE IF \A i \in DOMAIN us : us[i] # user THEN Append(us, user) ELSE us

(* handleAddReaction and handleRemoveReaction publish what the icon has    *)
(* afterwards, changed or not.  Without any user the list is nil.          *)
React(user, icon, kind) ==
    LET us  == Reacted(users[icon], user, kind)
        now == IF us = users[icon] THEN clock ELSE clock + 1
    IN  /\ users' = [users EXCEPT ![icon] = us]
        /\ clock' = now
        /\ changed' = IF us = users[icon] THEN changed ELSE [changed EXCEPT ![icon] = now]
        /\ wire' = wire \union {[icon |-> icon, at |-> now,
                                 users |-> IF us = << >> THEN NoUsers ELSE us]}

Handle(k) ==
    /\ calls[k].answer = Pending
    /\ React(Me, calls[k].icon, calls[k].kind)
    /\ calls' = [calls EXCEPT ![k].answer = [reactions |-> Summaries(users'), at |-> clock']]
    /\ UNCHANGED <<store, pills, fetches, left, ghost>>

(* Another user's request, which is none of this client's business.        *)
Act(a) ==
    /\ Spend("act")
    /\ React(a.user, a.icon, a.kind)
    /\ UNCHANGED <<store, calls, pills, fetches, ghost>>

(* handleGetReactionUsers: here an empty list is no nil.                   *)
HandleFetch(f) ==
    /\ f.answer = Pending
    /\ fetches' = (fetches \ {f}) \union {[f EXCEPT !.answer = [users |-> users[f.icon], at |-> clock]]}
    /\ UNCHANGED <<store, server, calls, wire, pills, left, ghost>>

(* The connection breaks, before or after the server handled the request.  *)
Fail ==
    /\ Spend("fail")
    /\ \/ \E k \in DOMAIN calls :
              /\ calls[k].answer # Failed
              /\ calls' = [calls EXCEPT ![k].answer = Failed]
              /\ UNCHANGED fetches
       \/ \E f \in fetches :
              /\ f.answer # Failed
              /\ fetches' = (fetches \ {f}) \union {[f EXCEPT !.answer = Failed]}
              /\ UNCHANGED calls
    /\ UNCHANGED <<store, server, wire, pills, ghost>>

-----------------------------------------------------------------------------
(* Answers and messages                                                    *)

(* The second half of addReaction and removeReaction.                      *)
Answered(k) ==
    LET call == calls[k] IN
    /\ call.answer \notin {Pending, Failed}
    /\ Render(ReceivedEventReactions(store, 1, call.answer.reactions))
    /\ ghost' = [i \in Icons |-> Showing(ghost[i], call.answer.at)]
    /\ calls' = Taken([j \in DOMAIN calls |-> [calls[j] EXCEPT !.alone = FALSE]], k)
    /\ UNCHANGED <<server, wire, fetches, left>>

RolledBack(k) ==
    LET call == calls[k] IN
    /\ call.answer = Failed
    /\ Render(SetError(OptimisticReaction(store, 1, call.icon, Opposite(call.kind)), ReactionError))
    /\ ghost' = [ghost EXCEPT ![call.icon].doubt = @ \/ ~call.alone]
    /\ calls' = Taken(calls, k)
    /\ UNCHANGED <<server, wire, fetches, left>>

IsReactionUpdatedPayload(m) == m.users # NoUsers

(* parseReactionWebSocket drops a payload whose users are no list.         *)
Deliver(m) ==
    /\ wire' = wire \ {m}
    /\ IF ~IsReactionUpdatedPayload(m)
       THEN UNCHANGED <<store, pills, ghost, calls>>
       ELSE /\ Render(ReceivedReactionUpdated(store, 1, m.icon, m.users, Me))
            /\ ghost' = [ghost EXCEPT ![m.icon] = Showing(@, m.at)]
            /\ calls' = [j \in DOMAIN calls |->
                           IF calls[j].icon = m.icon THEN [calls[j] EXCEPT !.alone = FALSE]
                           ELSE calls[j]]
    /\ UNCHANGED <<server, fetches, left>>

(* Mutated: any answer is taken.                                           *)
FetchedAny(f) ==
    LET p == pills[f.icon] IN
    /\ f.answer # Pending
    /\ fetches' = fetches \ {f}
    /\ pills' = IF ~p.shown \/ p.number # f.number THEN pills
                ELSE IF f.answer = Failed
                     THEN [pills EXCEPT ![f.icon].users = << >>, ![f.icon].error = TRUE]
                     ELSE [pills EXCEPT ![f.icon].users = f.answer.users,
                                        ![f.icon].told = f.answer.at]
    /\ UNCHANGED <<store, server, calls, wire, left, ghost>>

(* The rest of handleMouseEnter: only the newest request of a mounted pill *)
(* counts; a failure is kept as no users.                                  *)
Fetched(f) ==
    LET p == pills[f.icon] IN
    /\ f.answer # Pending
    /\ fetches' = fetches \ {f}
    /\ pills' = IF ~p.shown \/ p.number # f.number \/ p.sequence # f.sequence THEN pills
                ELSE IF f.answer = Failed
                     THEN [pills EXCEPT ![f.icon].users = << >>, ![f.icon].error = TRUE]
                     ELSE [pills EXCEPT ![f.icon].users = f.answer.users,
                                        ![f.icon].told = f.answer.at]
    /\ UNCHANGED <<store, server, calls, wire, left, ghost>>

-----------------------------------------------------------------------------
Next ==
    \/ \E i \in Icons : Click(i) \/ Hover(i) \/ Expire(i)
    \/ \E a \in Acts : Act(a)
    \/ \E k \in DOMAIN calls : Handle(k) \/ Answered(k) \/ RolledBack(k)
    \/ \E m \in wire : Deliver(m)
    \/ \E f \in fetches : HandleFetch(f) \/ Fetched(f)
    \/ Fail

Spec == Init /\ [][Next]_vars

-----------------------------------------------------------------------------
(* Properties                                                              *)

Settled == calls = << >> /\ wire = {}

Agrees(icon) ==
    LET shown == Displayed(store)[icon] IN
    IF users[icon] = << >> THEN shown = NoSummary
    ELSE /\ shown # NoSummary
         /\ shown.count = Len(users[icon])
         /\ shown.self = (\E i \in DOMAIN users[icon] : users[icon][i] = Me)

(* When nothing is on its way, the count of a pill and whether it is the   *)
(* user's own are the server's, unless nobody told of its last change      *)
(* (shown), or after the last news an older answer or message came, or a   *)
(* failed click was undone that was not alone: another click on the icon,  *)
(* or any news of it, had come while its request was on its way (doubt;    *)
(* actions.ts:561, reducer.ts OPTIMISTIC_REACTION).                        *)
SettledAgreesWithServer ==
    \A i \in Icons :
        Settled /\ ~ghost[i].doubt /\ ghost[i].shown >= changed[i] => Agrees(i)

(* A tooltip never lists who had reacted before it last asked, however     *)
(* late answers come (reaction_pill.tsx requestSeqRef).                    *)
TooltipFromNewestRequest ==
    \A i \in Icons :
        pills[i].shown /\ pills[i].users # NoUsers /\ ~pills[i].error =>
            pills[i].told >= pills[i].asked

(* reducer.ts:114 removes the pill of an icon when told that its count is  *)
(* 0.  The message of the last removal says so, and is dropped.            *)
LastReactionLeaves ==
    \A i \in Icons : Settled /\ ~ghost[i].doubt /\ users[i] = << >> => Agrees(i)
=============================================================================
