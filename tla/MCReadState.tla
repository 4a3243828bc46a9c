---------------------------- MODULE MCReadState ----------------------------
(* Instances of ReadState for TLC.                                         *)
EXTENDS ReadState, TLC

CONSTANTS Channel

MCContexts == {Global, Channel}

(* The first event is the channel's, the others are team-wide.             *)
MCScopeOf == [e \in Events |-> IF e = 1 THEN Channel ELSE Global]
AllGlobal == [e \in Events |-> Global]

Get(c) == [kind |-> "get", context |-> c, ids |-> {}, offset |-> 0]
Filter(c) == [kind |-> "filter", context |-> c, ids |-> {}, offset |-> 0]
Mark(c, ids) == [kind |-> "mark", context |-> c, ids |-> ids, offset |-> 0]

(* Two tabs: the team-wide feed and the channel's, loaded and marked.      *)
Tabs == {Get(Global), Get(Channel), Filter(Global), Mark(Channel, {}), Mark(Channel, {1})}

(* A "mark read" that names every event.                                   *)
MarkAll == Mark(Channel, Events)

(* Two of these requests race, or three tabs mark every event each time    *)
(* they look at the feed.                                                  *)
MCOps == Tabs \union {MarkAll}

Marking == {r \in Requests : op[r] = MarkAll}

MCInit == Init /\ (Cardinality(Marking) = 1 \/ Marking = Requests)

(* With two other requests the third does not come.                        *)
MCNext == Next /\ (Marking = Requests \/ \A r \in Marking : pc'[r] = "load")

MCSpec == MCInit /\ [][MCNext]_vars

Symmetry == Permutations(Requests)
=============================================================================
