-------------------------- MODULE MCTimelineClient --------------------------
(* Instances of TimelineClient for TLC.                                    *)
EXTENDS TimelineClient

CONSTANTS Team, Here, There

TeamWide == [team |-> Team, channel |-> NoChannel]
InHere   == [team |-> Team, channel |-> Here]
InThere  == [team |-> Team, channel |-> There]

MCContexts == {TeamWide, InHere, InThere}
MCHosts    == {InHere, InThere}

Plain  == [pinned |-> FALSE, expired |-> FALSE, terminal |-> FALSE, urgent |-> FALSE]
Urgent == [Plain EXCEPT !.urgent = TRUE]
Pinned == [Plain EXCEPT !.pinned = TRUE]

Event(id, channels, look) ==
    [id |-> id, version |-> 0, team |-> Team, channels |-> channels,
     look |-> look, reactions |-> NoReactions]

ForTeam == [team |-> Team, channels |-> {}, look |-> Pinned]
ForBoth == [team |-> Team, channels |-> {Here, There}, look |-> Urgent]
MCPublications == {ForTeam, ForBoth}
MCLooks == {Plain}

TwoEvents == <<Event(2, {Here}, Pinned), Event(1, {}, Plain)>>

Parent == [context |-> InHere, known |-> TRUE,
           state |-> [InitialState EXCEPT !.events = TwoEvents, !.total = 2, !.view = InHere]]
LoadingParent == [Parent EXCEPT !.state.isLoading = TRUE]
Unknown == [context |-> TeamWide, known |-> FALSE, state |-> InitialState]
MCParents == {Parent, LoadingParent, Unknown}

(* Budgets: what happens besides the steps that follow by themselves.      *)
None == [o \in Operations |-> 0]
Opened == [None EXCEPT !["open"] = 1]

Start(context, ids, refreshed, budget) ==
    [host |-> context, feed |-> TwoEvents, unread |-> ids, refreshed |-> refreshed,
     budget |-> budget]

Switching == Start(InHere, {}, TRUE, [Opened EXCEPT !["select"] = 1, !["publish"] = 1, !["animate"] = 1])
Updating  == Start(InHere, {}, TRUE, [Opened EXCEPT !["publish"] = 1, !["update"] = 1])
Twice     == Start(TeamWide, {1}, TRUE, [Opened EXCEPT !["update"] = 2])
Changing  == Start(InHere, {}, TRUE, [Opened EXCEPT !["filter"] = 2, !["update"] = 1, !["animate"] = 1])
Filtering == Start(InHere, {}, TRUE, [Opened EXCEPT !["filter"] = 1, !["publish"] = 1, !["retype"] = 1])
Failing   == Start(InHere, {1}, FALSE, [Opened EXCEPT !["fail"] = 2, !["select"] = 1, !["retype"] = 1])
Reopening == Start(TeamWide, {1}, FALSE, [Opened EXCEPT !["open"] = 2, !["close"] = 1, !["retype"] = 1])
Paging    == Start(InHere, {2}, TRUE, [Opened EXCEPT !["more"] = 1, !["publish"] = 1])
Hydrating == Start(InHere, {}, TRUE, [Opened EXCEPT !["hydrate"] = 1, !["publish"] = 1])
Orphaned  == Start(NoView, {2}, FALSE, [Opened EXCEPT !["hydrate"] = 1, !["select"] = 1])

MCScenarios == {Switching, Updating, Twice, Changing, Filtering, Failing, Reopening, Paging, Hydrating, Orphaned}
=============================================================================
