------------------------- MODULE MCClientReactions -------------------------
(* Instances of ClientReactions for TLC.                                   *)
EXTENDS ClientReactions

CONSTANTS u1, u2, u3, eyes, rocket

NoContexts == {}

None == [o \in Operations |-> 0]

(* The user is one of three: one more and he is not among the recent ones. *)
Crowd == [i \in Icons |-> IF i = eyes THEN <<Me, u1, u2>> ELSE << >>]
NoneYet == [i \in Icons |-> << >>]
Alone == [i \in Icons |-> IF i = eyes THEN <<u1>> ELSE << >>]

Adds    == [user |-> u3, icon |-> eyes, kind |-> "add"]
Removes == [user |-> u1, icon |-> eyes, kind |-> "remove"]
MCActs  == {Adds, Removes}

Start(us, budget) == [users |-> us, budget |-> budget]

Clicking == Start(Crowd, [None EXCEPT !["click"] = 3, !["act"] = 1, !["fail"] = 1])
Crossing == Start(Alone, [None EXCEPT !["click"] = 2, !["act"] = 1, !["fail"] = 2])
Hovering == Start(Alone, [None EXCEPT !["act"] = 1, !["hover"] = 3, !["expire"] = 1, !["fail"] = 1])
Leaving  == Start(NoneYet, [None EXCEPT !["click"] = 2, !["hover"] = 2])

MCScenarios == {Clicking, Crossing, Hovering, Leaving}

(* Another user withdraws the only reaction.                               *)
Withdrawing == {Start(Alone, [None EXCEPT !["act"] = 1])}
=============================================================================
