-------------------------- MODULE MCIndexMutation --------------------------
(* Instances of IndexMutation for TLC.                                     *)
EXTENDS IndexMutation, TLC

CONSTANTS a, b, c, d

MCInitialData == {Absent, Corrupt, <<a, b>>}

(* Insertions and removals of the same and of different events.            *)
MCCalls ==
    {[kind |-> "prepend", id |-> a], [kind |-> "retain", id |-> c],
     [kind |-> "retain", id |-> d], [kind |-> "remove", id |-> a],
     [kind |-> "remove", id |-> c]}
=============================================================================
