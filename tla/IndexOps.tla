------------------------------ MODULE IndexOps ------------------------------
(***************************************************************************)
(* The pure part of the event indexes of server/store.go: what one call of *)
(* mutateIndex computes from the data it read.  An index is a JSON list of *)
(* event IDs under one KV key; the key may hold nothing, or data that does *)
(* not decode.                                                             *)
(***************************************************************************)
EXTENDS Sublists

CONSTANTS
    Absent,     \* the KV key holds nothing (KVGet returns nil)
    Corrupt     \* the KV key holds data that json.Unmarshal rejects

(* The list mutateIndex hands to its mutation: undecodable data is reset to *)
(* the empty list for insertions (removals stop before this).               *)
Decode(data) == IF data \in {Absent, Corrupt} THEN << >> ELSE data

RemoveID(ids, id) == Sublist(ids, {i \in DOMAIN ids : ids[i] # id})

(* Mutated: keeps the old position too.                                    *)
PrependAlways(ids, id) == <<id>> \o ids

PrependUnique(ids, id) == <<id>> \o RemoveID(ids, id)

(* A call is a record [kind, id] with kind one of                          *)
(*   "prepend"  prependUniqueToIndex and moveToFront                       *)
(*   "retain"   prependToTeamIndex, which also truncates to the limit      *)
(*   "remove"   removeFromIndex                                            *)
Prepended(data, id) ==
    [changed |-> TRUE, data |-> PrependUnique(Decode(data), id), pruned |-> << >>]

(* Mutated: the prune list starts one ID too early.                        *)
RetainedOverlapping(data, id, limit) ==
    LET ids == PrependUnique(Decode(data), id) IN
    [changed |-> TRUE,
     data    |-> SubSeq(ids, 1, IF Len(ids) > limit THEN limit ELSE Len(ids)),
     pruned  |-> SubSeq(ids, limit, Len(ids))]

Retained(data, id, limit) ==
    LET ids == PrependUnique(Decode(data), id) IN
    IF Len(ids) > limit
    THEN [changed |-> TRUE,
          data    |-> SubSeq(ids, 1, limit),
          pruned  |-> SubSeq(ids, limit + 1, Len(ids))]
    ELSE [changed |-> TRUE, data |-> ids, pruned |-> << >>]

Removed(data, id) ==
    IF data \in {Absent, Corrupt} \/ RemoveID(data, id) = data
    THEN [changed |-> FALSE, data |-> data, pruned |-> << >>]
    ELSE [changed |-> TRUE, data |-> RemoveID(data, id), pruned |-> << >>]

Mutation(call, data, limit) ==
    CASE call.kind = "prepend" -> Prepended(data, call.id)
      [] call.kind = "retain"  -> Retained(data, call.id, limit)
      [] call.kind = "remove"  -> Removed(data, call.id)
=============================================================================
