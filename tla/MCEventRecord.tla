--------------------------- MODULE MCEventRecord ---------------------------
(* Instances of EventRecord for TLC.                                       *)
EXTENDS EventRecord, TLC

CONSTANTS u1, u2, u3, l1, l2, l3

React(kind, u) == [kind |-> kind, user |-> u, links |-> {}]
Webhook(kind, links) == [kind |-> kind, user |-> u1, links |-> links]
Prune == [kind |-> "prune", user |-> u1, links |-> {}]

(* Two users who add and remove their reaction.                            *)
Reactions == {React("add", u1), React("remove", u1), React("add", u2)}

Everything == Reactions \union {Webhook("merge", {l2}), Webhook("replace", {}), Prune}

AddAndMerge == {React("add", u1), Webhook("merge", {l2})}

Fresh == {[text |-> Original, links |-> {l1}, users |-> << >>]}
FreshOrReacted == Fresh \union {[text |-> Original, links |-> {l1}, users |-> <<u2, u1>>]}
=============================================================================
