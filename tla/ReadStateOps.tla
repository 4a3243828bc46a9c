---------------------------- MODULE ReadStateOps ----------------------------
(***************************************************************************)
(* The pure part of the read state of server/store.go: what one user has   *)
(* read in one team.  A state has two maps: readAt gives each context (a   *)
(* channel or the team-wide feed) the baseline below which nothing is      *)
(* unread, seen gives events the timestamp up to which they were marked    *)
(* read.  A page is what a request loaded: the timestamp of each event on  *)
(* it, 0 for the others.                                                   *)
(***************************************************************************)
EXTENDS Naturals, FiniteSets

CONSTANTS
    Events,     \* event IDs, which are ordered as strings are: numbers here
    Contexts,   \* readStateContextKey: channels and the team-wide feed
    Unset       \* the context has no baseline

ASSUME EventsAssumption == Events \subseteq Nat /\ IsFiniteSet(Events)
ASSUME UnsetAssumption == Unset \notin Nat

States == [readAt : [Contexts -> Nat \union {Unset}], seen : [Events -> Nat]]

EmptyState ==
    [readAt |-> [c \in Contexts |-> Unset], seen |-> [e \in Events |-> 0]]

OnPage(page) == {e \in Events : page[e] > 0}

(* unreadEventsForState                                                    *)
Unread(state, c, page) ==
    {e \in OnPage(page) : page[e] > state.readAt[c] /\ state.seen[e] < page[e]}

Initialised(state, c, baseline) == [state EXCEPT !.readAt[c] = baseline]

SeenWith(seen, page) ==
    [e \in Events |-> IF seen[e] < page[e] THEN page[e] ELSE seen[e]]

(* The entries pruneSeenEvents sorts before the one of e.                  *)
Ahead(seen, e) ==
    {f \in Events : /\ seen[f] > 0
                    /\ seen[f] > seen[e] \/ (seen[f] = seen[e] /\ f < e)}

(* Mutated: keeps the oldest entries.                                      *)
PrunedNewest(seen, limit) ==
    [e \in Events |-> IF Cardinality({f \in Events : seen[f] > 0 /\ f \notin Ahead(seen, e)}) <= 2 * limit
                      THEN seen[e] ELSE 0]

(* pruneSeenEvents keeps the newest 2 * limit entries.                     *)
Pruned(seen, limit) ==
    [e \in Events |-> IF Cardinality(Ahead(seen, e)) < 2 * limit THEN seen[e] ELSE 0]

(* MarkEventsRead                                                          *)
Marked(state, c, page, limit) ==
    IF OnPage(page) = {} THEN state
    ELSE [readAt |-> [state.readAt EXCEPT ![c] = IF @ = Unset THEN 0 ELSE @],
          seen   |-> Pruned(SeenWith(state.seen, page), limit)]
=============================================================================
