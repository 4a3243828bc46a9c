----------------------------- MODULE ReadPaging -----------------------------
(***************************************************************************)
(* The user pages through the feed: ReadState with the first page, "load   *)
(* more" and "mark read" requests, and with a history variable that        *)
(* remembers what the user had been shown when a request was made.         *)
(***************************************************************************)
EXTENDS MCReadState

VARIABLE
    shown       \* what "load more" had returned as unread when each request was served

pagingVars == <<vars, shown>>

Older(c) == [kind |-> "get", context |-> c, ids |-> {}, offset |-> MaxDisplayed]

Paging == {Get(Global), Older(Global), Mark(Global, {1})}

(* The versions of events that answered "load more" requests reported.     *)
Returned ==
    UNION {{<<e, page[g][e]>> : e \in unread[g]} :
             g \in {q \in Requests : pc[q] = "ok" /\ op[q].kind = "get" /\ op[q].offset > 0}}

PagingInit == Init /\ shown = [r \in Requests |-> {}]

PagingNext ==
    /\ Next
    /\ shown' = [r \in Requests |-> IF pc[r] = "load" /\ pc'[r] # "load" THEN Returned ELSE shown[r]]

PagingSpec == PagingInit /\ [][PagingNext]_pagingVars

-----------------------------------------------------------------------------
(* README.md:101: "Opening the feed marks the returned visible events      *)
(* read."  An event that "load more" returned as unread, and that a "mark  *)
(* read" sent after that answer names, is no longer unread in that version *)
(* once the mark has been answered without error.                          *)
ReturnedAreMarked ==
    \A r \in Marks : \A v \in shown[r] :
        v[1] \in op[r].ids /\ ts[v[1]] = v[2] =>
            v[1] \notin Unread(state, op[r].context, ts)
=============================================================================
