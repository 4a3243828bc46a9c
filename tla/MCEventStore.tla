---------------------------- MODULE MCEventStore ----------------------------
(* Instances of EventStore for TLC.                                        *)
EXTENDS EventStore, TLC

CONSTANTS x, c1, c2

Plain(channels) == [ext |-> NoExt, channels |-> channels, allowed |-> Unrestricted]
External(channels) == [ext |-> x, channels |-> channels, allowed |-> Unrestricted]

(* New events only: team-wide, for one channel, for both.                  *)
AddsOnly == {Plain({}), Plain({c1}), Plain({c1, c2})}

(* Deliveries of one external ID that always name the same channel, and    *)
(* new events that push them out of the retention index; one credential    *)
(* restricted to a channel.                                                *)
SameChannel ==
    {External({c1}), Plain({c1}), [ext |-> x, channels |-> {c1}, allowed |-> {c1}]}

(* Deliveries of one external ID that move the event between channels, one *)
(* with a credential that may not follow it, and a new team-wide event.    *)
Moving ==
    {External({}), External({c1}), External({c2}), Plain({}),
     [ext |-> x, channels |-> {c1}, allowed |-> {c1}]}

Symmetry == Permutations(Requests)
=============================================================================
