----------------------- MODULE ClientReactionsProofs -----------------------
(***************************************************************************)
(* What a user sees of reactions (ClientReactions), for any icons, users,  *)
(* clicks, messages and failures.                                          *)
(*                                                                         *)
(* A tooltip shows the answer to its newest request.  Its invariant IInv   *)
(* says which answers a pill may still take: a request has the number and  *)
(* sequence of its pill, or smaller ones, and an answer under the pill's   *)
(* own ones was given after the pill last asked.                           *)
(*                                                                         *)
(* A pill nothing is on its way for agrees with the server.  Its invariant *)
(* RInv says what is shown meanwhile: a message or an answer as recent as  *)
(* the last change of an icon tells what the server has, and undoing the   *)
(* only click since the last of them shows what the server has again.      *)
(***************************************************************************)
EXTENDS ClientReactions, DataLemmas, SequenceTheorems, TLAPS

(* Pills have the fields of Pill.  What users are shown does not matter.   *)
PillFormed(p) ==
    /\ DOMAIN p = {"number", "shown", "sequence", "users", "error", "asked", "told"}
    /\ p.number \in Nat /\ p.sequence \in Nat /\ p.asked \in Nat /\ p.told \in Nat

PillsFormed == DOMAIN pills = Icons /\ \A i \in Icons : PillFormed(pills[i])

FetchFormed(f) ==
    /\ DOMAIN f = {"icon", "number", "sequence", "answer"}
    /\ f.icon \in Icons /\ f.number \in Nat /\ f.sequence \in Nat
    /\ f.answer \notin {Pending, Failed} => f.answer.at \in Nat

Sent(f) ==
    /\ f.number <= pills[f.icon].number
    /\ f.number = pills[f.icon].number => f.sequence <= pills[f.icon].sequence

Recent(f) ==
    /\ f.answer \notin {Pending, Failed}
    /\ f.number = pills[f.icon].number
    /\ f.sequence = pills[f.icon].sequence
    => f.answer.at >= pills[f.icon].asked

IInv ==
    /\ clock \in Nat
    /\ PillsFormed
    /\ \A f \in fetches : FetchFormed(f) /\ Sent(f) /\ Recent(f)
    /\ \A i \in Icons : pills[i].asked <= clock
    /\ TooltipFromNewestRequest

-----------------------------------------------------------------------------
(* Requests of pills that are the same components as before, and did not   *)
(* ask again, are as good as before.                                       *)
LEMMA FetchesKept ==
    ASSUME IInv, NEW f \in fetches,
           pills'[f.icon].number = pills[f.icon].number,
           pills'[f.icon].sequence = pills[f.icon].sequence,
           pills'[f.icon].asked = pills[f.icon].asked
    PROVE  FetchFormed(f)' /\ Sent(f)' /\ Recent(f)'
BY DEF IInv, FetchFormed, Sent, Recent

(* However it is rendered, a pill stays as it is, goes, or starts afresh.  *)
LEMMA RenderKeeps ==
    ASSUME IInv, pills' = PillsAfter(store'), UNCHANGED fetches, clock' \in Nat, clock' >= clock
    PROVE  IInv'
<1>1. DOMAIN pills' = Icons
    BY DEF PillsAfter
<1>2. \A i \in Icons : \/ pills'[i] = pills[i]
                       \/ pills'[i] = [pills[i] EXCEPT !.shown = FALSE]
                       \/ pills'[i] = Pill(pills[i].number + 1)
    BY DEF PillsAfter
<1>3. ASSUME NEW i \in Icons
      PROVE  /\ PillFormed(pills'[i])
             /\ pills'[i].asked <= clock'
             /\ pills'[i].shown /\ pills'[i].users # NoUsers /\ ~pills'[i].error =>
                    pills'[i].told >= pills'[i].asked
             /\ \/ /\ pills'[i].number = pills[i].number
                   /\ pills'[i].sequence = pills[i].sequence
                   /\ pills'[i].asked = pills[i].asked
                \/ pills'[i].number = pills[i].number + 1
    <2>1. /\ PillFormed(pills[i]) /\ pills[i].asked <= clock /\ clock \in Nat
          /\ pills[i].shown /\ pills[i].users # NoUsers /\ ~pills[i].error =>
                 pills[i].told >= pills[i].asked
        BY DEF IInv, PillsFormed, TooltipFromNewestRequest
    <2>2. CASE pills'[i] = pills[i]
        BY <2>1, <2>2 DEF PillFormed
    <2>3. CASE pills'[i] = [pills[i] EXCEPT !.shown = FALSE]
        <3>1. /\ DOMAIN pills'[i] = DOMAIN pills[i]
              /\ pills'[i].number = pills[i].number /\ pills'[i].sequence = pills[i].sequence
              /\ pills'[i].asked = pills[i].asked /\ pills'[i].told = pills[i].told
              /\ pills'[i].shown = FALSE
            BY <2>1, <2>3 DEF PillFormed
        <3> QED
            BY <2>1, <3>1 DEF PillFormed
    <2>4. CASE pills'[i] = Pill(pills[i].number + 1)
        <3>1. /\ DOMAIN pills'[i] = {"number", "shown", "sequence", "users", "error", "asked", "told"}
              /\ pills'[i].number = pills[i].number + 1 /\ pills'[i].sequence = 0
              /\ pills'[i].asked = 0 /\ pills'[i].told = 0 /\ pills'[i].users = NoUsers
            BY <2>4 DEF Pill
        <3> QED
            BY <2>1, <3>1 DEF PillFormed
    <2> QED
        BY <1>2, <2>2, <2>3, <2>4
<1>4. PillsFormed'
    BY <1>1, <1>3 DEF PillsFormed, PillFormed
<1>5. ASSUME NEW f \in fetches
      PROVE  FetchFormed(f)' /\ Sent(f)' /\ Recent(f)'
    <2>1. FetchFormed(f) /\ Sent(f) /\ PillFormed(pills[f.icon])
        BY DEF IInv, FetchFormed, PillsFormed
    <2>2. CASE pills'[f.icon].number = pills[f.icon].number + 1
        BY <2>1, <2>2 DEF FetchFormed, Sent, Recent, PillFormed
    <2> QED
        BY <1>3, <2>1, <2>2, FetchesKept DEF FetchFormed
<1>6. TooltipFromNewestRequest'
    BY <1>3 DEF TooltipFromNewestRequest
<1> QED
    BY <1>3, <1>4, <1>5, <1>6 DEF IInv

(* What the server and other users do leaves the pills alone.              *)
LEMMA PillsKept ==
    ASSUME IInv, UNCHANGED <<pills, fetches>>, clock' \in Nat, clock' >= clock
    PROVE  IInv'
<1>1. PillsFormed' /\ TooltipFromNewestRequest'
    BY DEF IInv, PillsFormed, TooltipFromNewestRequest
<1>2. \A f \in fetches : FetchFormed(f)' /\ Sent(f)' /\ Recent(f)'
    BY FetchesKept
<1>3. \A i \in Icons : pills'[i].asked <= clock'
    BY DEF IInv, PillsFormed, PillFormed
<1> QED
    BY <1>1, <1>2, <1>3 DEF IInv

(* The clock of the server does not go back.                               *)
LEMMA ClockGrows ==
    ASSUME IInv, NEW user, NEW icon, NEW kind, React(user, icon, kind)
    PROVE  clock' \in Nat /\ clock' >= clock
BY DEF IInv, React

-----------------------------------------------------------------------------
LEMMA Initially == Init => IInv
<1> SUFFICES ASSUME Init PROVE IInv
    OBVIOUS
<1>1. PICK s \in Scenarios : pills = [i \in Icons |-> [Pill(0) EXCEPT !.shown = s.users[i] # << >>]]
    BY DEF Init
<1>2. clock = 0 /\ fetches = {}
    BY DEF Init
<1>3. ASSUME NEW i \in Icons
      PROVE  PillFormed(pills[i]) /\ pills[i].asked = 0 /\ pills[i].users = NoUsers
    BY <1>1 DEF Pill, PillFormed
<1>4. DOMAIN pills = Icons
    BY <1>1
<1> QED
    BY <1>2, <1>3, <1>4 DEF IInv, PillsFormed, TooltipFromNewestRequest

LEMMA HoverKeeps ==
    ASSUME IInv, NEW icon \in Icons, Hover(icon)
    PROVE  IInv'
<1>1. PICK new : new = FetchReactionUsers(icon, pills[icon].number, pills[icon].sequence + 1)
    OBVIOUS
<1>2. UNCHANGED clock /\ pills[icon].users = NoUsers /\ fetches' = fetches \union {new}
    BY <1>1 DEF Hover, server
<1>3. PillFormed(pills[icon]) /\ DOMAIN pills = Icons /\ clock \in Nat
    BY DEF IInv, PillsFormed
<1>4. /\ DOMAIN pills' = Icons
      /\ \A i \in Icons : i # icon => pills'[i] = pills[i]
      /\ DOMAIN pills'[icon] = DOMAIN pills[icon]
      /\ pills'[icon].number = pills[icon].number
      /\ pills'[icon].sequence = pills[icon].sequence + 1
      /\ pills'[icon].asked = clock
      /\ pills'[icon].told = pills[icon].told
      /\ pills'[icon].users = NoUsers
    BY <1>2, <1>3 DEF Hover, PillFormed
<1>5. PillFormed(pills'[icon])
    BY <1>3, <1>4 DEF PillFormed
<1>6. PillsFormed'
    BY <1>4, <1>5 DEF IInv, PillsFormed, PillFormed
<1>7. ASSUME NEW f \in fetches
      PROVE  FetchFormed(f)' /\ Sent(f)' /\ Recent(f)'
    <2>1. FetchFormed(f) /\ Sent(f)
        BY DEF IInv
    <2>2. CASE f.icon = icon
        BY <1>3, <1>4, <2>1, <2>2 DEF FetchFormed, Sent, Recent, PillFormed
    <2> QED
        BY <1>4, <2>1, <2>2, FetchesKept DEF FetchFormed
<1>8. FetchFormed(new)' /\ Sent(new)' /\ Recent(new)'
    <2>1. /\ DOMAIN new = {"icon", "number", "sequence", "answer"}
          /\ new.icon = icon /\ new.number = pills[icon].number
          /\ new.sequence = pills[icon].sequence + 1 /\ new.answer = Pending
        BY <1>1 DEF FetchReactionUsers
    <2> QED
        BY <1>3, <1>4, <2>1 DEF FetchFormed, Sent, Recent, PillFormed
<1>9. TooltipFromNewestRequest'
    BY <1>4 DEF IInv, TooltipFromNewestRequest
<1>10. \A i \in Icons : pills'[i].asked <= clock'
    BY <1>2, <1>3, <1>4 DEF IInv
<1> QED
    BY <1>2, <1>3, <1>6, <1>7, <1>8, <1>9, <1>10 DEF IInv

LEMMA ExpireKeeps ==
    ASSUME IInv, NEW icon \in Icons, Expire(icon)
    PROVE  IInv'
<1>1. UNCHANGED <<clock, fetches>>
    BY DEF Expire, server
<1>2. PillFormed(pills[icon]) /\ DOMAIN pills = Icons
    BY DEF IInv, PillsFormed
<1>3. /\ DOMAIN pills' = Icons
      /\ \A i \in Icons : i # icon => pills'[i] = pills[i]
      /\ DOMAIN pills'[icon] = DOMAIN pills[icon]
      /\ pills'[icon].number = pills[icon].number
      /\ pills'[icon].sequence = pills[icon].sequence
      /\ pills'[icon].asked = pills[icon].asked
      /\ pills'[icon].told = pills[icon].told
      /\ pills'[icon].users = NoUsers
    BY <1>2 DEF Expire, PillFormed
<1>4. PillsFormed'
    BY <1>2, <1>3 DEF IInv, PillsFormed, PillFormed
<1>5. \A f \in fetches : FetchFormed(f)' /\ Sent(f)' /\ Recent(f)'
    BY <1>3, FetchesKept DEF IInv, FetchFormed
<1>6. TooltipFromNewestRequest'
    BY <1>3 DEF IInv, TooltipFromNewestRequest
<1>7. \A i \in Icons : pills'[i].asked <= clock'
    BY <1>1, <1>3 DEF IInv
<1> QED
    BY <1>1, <1>4, <1>5, <1>6, <1>7 DEF IInv

(* An answer comes after the request, and the pill has not asked since, or *)
(* it will not take the answer.                                            *)
LEMMA HandleFetchKeeps ==
    ASSUME IInv, NEW f \in fetches, HandleFetch(f)
    PROVE  IInv'
<1>1. PICK answered : answered = [f EXCEPT !.answer = [users |-> users[f.icon], at |-> clock]]
    OBVIOUS
<1>2. UNCHANGED <<clock, pills>> /\ fetches' = (fetches \ {f}) \union {answered}
    BY <1>1 DEF HandleFetch, server
<1>3. /\ FetchFormed(f) /\ Sent(f) /\ clock \in Nat
      /\ \A i \in Icons : pills[i].asked <= clock
    BY DEF IInv
<1>4. /\ DOMAIN answered = DOMAIN f /\ answered.icon = f.icon /\ answered.number = f.number
      /\ answered.sequence = f.sequence /\ answered.answer.at = clock
    BY <1>1, <1>3 DEF FetchFormed
<1>5. FetchFormed(answered)' /\ Sent(answered)' /\ Recent(answered)'
    BY <1>2, <1>3, <1>4 DEF FetchFormed, Sent, Recent
<1>6. \A g \in fetches : FetchFormed(g)' /\ Sent(g)' /\ Recent(g)'
    BY <1>2, FetchesKept
<1>7. PillsFormed' /\ TooltipFromNewestRequest'
    BY <1>2 DEF IInv, PillsFormed, TooltipFromNewestRequest
<1> QED
    BY <1>2, <1>3, <1>5, <1>6, <1>7 DEF IInv

(* A failed answer says nothing of when it was given.                      *)
LEMMA FailKeeps ==
    ASSUME IInv, Fail
    PROVE  IInv'
<1>1. UNCHANGED <<clock, pills>>
    BY DEF Fail, server
<1>2. CASE UNCHANGED fetches
    BY <1>1, <1>2, PillsKept DEF IInv
<1>3. ASSUME NEW f \in fetches, fetches' = (fetches \ {f}) \union {[f EXCEPT !.answer = Failed]}
      PROVE  IInv'
    <2>1. PICK broken : broken = [f EXCEPT !.answer = Failed]
        OBVIOUS
    <2>2. FetchFormed(f) /\ Sent(f)
        BY DEF IInv
    <2>3. /\ DOMAIN broken = DOMAIN f /\ broken.icon = f.icon /\ broken.number = f.number
          /\ broken.sequence = f.sequence /\ broken.answer = Failed
        BY <2>1, <2>2 DEF FetchFormed
    <2>4. FetchFormed(broken)' /\ Sent(broken)' /\ Recent(broken)'
        BY <1>1, <2>2, <2>3 DEF FetchFormed, Sent, Recent
    <2>5. \A g \in fetches : FetchFormed(g)' /\ Sent(g)' /\ Recent(g)'
        BY <1>1, FetchesKept
    <2>6. PillsFormed' /\ TooltipFromNewestRequest'
        BY <1>1 DEF IInv, PillsFormed, TooltipFromNewestRequest
    <2> QED
        BY <1>1, <1>3, <2>1, <2>4, <2>5, <2>6 DEF IInv
<1> QED
    BY <1>2, <1>3 DEF Fail

(* Only an answer to the newest request is told, and that one was given    *)
(* after the pill asked for it.                                            *)
LEMMA FetchedKeeps ==
    ASSUME IInv, NEW f \in fetches, Fetched(f)
    PROVE  IInv'
<1>1. /\ UNCHANGED clock /\ clock \in Nat /\ fetches' = fetches \ {f} /\ f.answer # Pending
      /\ FetchFormed(f) /\ Recent(f) /\ PillFormed(pills[f.icon]) /\ DOMAIN pills = Icons
    BY DEF Fetched, server, IInv, PillsFormed, FetchFormed
<1>2. CASE UNCHANGED pills
    <2>1. \A g \in fetches : FetchFormed(g)' /\ Sent(g)' /\ Recent(g)'
        BY <1>2, FetchesKept
    <2>2. PillsFormed' /\ TooltipFromNewestRequest'
        BY <1>2 DEF IInv, PillsFormed, TooltipFromNewestRequest
    <2> QED
        BY <1>1, <1>2, <2>1, <2>2 DEF IInv
<1>3. ASSUME pills[f.icon].number = f.number, pills[f.icon].sequence = f.sequence,
             \/ /\ f.answer = Failed
                /\ pills' = [pills EXCEPT ![f.icon].users = << >>, ![f.icon].error = TRUE]
             \/ /\ f.answer # Failed
                /\ pills' = [pills EXCEPT ![f.icon].users = f.answer.users,
                                          ![f.icon].told = f.answer.at]
      PROVE  IInv'
    <2>1. f.icon \in Icons
        BY <1>1 DEF FetchFormed
    <2>2. /\ DOMAIN pills' = Icons
          /\ \A i \in Icons : i # f.icon => pills'[i] = pills[i]
          /\ DOMAIN pills'[f.icon] = DOMAIN pills[f.icon]
          /\ pills'[f.icon].number = pills[f.icon].number
          /\ pills'[f.icon].sequence = pills[f.icon].sequence
          /\ pills'[f.icon].asked = pills[f.icon].asked
          /\ \/ pills'[f.icon].error = TRUE /\ pills'[f.icon].told = pills[f.icon].told
             \/ f.answer # Failed /\ pills'[f.icon].told = f.answer.at
        BY <1>1, <1>3, <2>1 DEF PillFormed
    <2>3. f.answer # Failed => f.answer.at \in Nat /\ f.answer.at >= pills[f.icon].asked
        BY <1>1, <1>3 DEF FetchFormed, Recent
    <2>4. PillFormed(pills'[f.icon])
        BY <1>1, <2>2, <2>3 DEF PillFormed
    <2>5. PillsFormed'
        BY <2>2, <2>4 DEF IInv, PillsFormed, PillFormed
    <2>6. TooltipFromNewestRequest'
        BY <2>2, <2>3 DEF IInv, TooltipFromNewestRequest
    <2>7. \A g \in fetches : FetchFormed(g)' /\ Sent(g)' /\ Recent(g)'
        BY <2>2, FetchesKept DEF IInv, FetchFormed
    <2>8. \A i \in Icons : pills'[i].asked <= clock'
        BY <1>1, <2>2 DEF IInv
    <2> QED
        BY <1>1, <2>5, <2>6, <2>7, <2>8 DEF IInv
<1> QED
    BY <1>1, <1>2, <1>3 DEF Fetched

LEMMA Inductive == IInv /\ [Next]_vars => IInv'
<1> SUFFICES ASSUME IInv, [Next]_vars PROVE IInv'
    OBVIOUS
<1>0. clock \in Nat /\ clock >= clock
    BY DEF IInv
<1>1. ASSUME NEW i \in Icons, Click(i) PROVE IInv'
    <2>1. pills' = PillsAfter(store') /\ UNCHANGED <<fetches, clock>>
        BY <1>1 DEF Click, Render, server
    <2> QED
        BY <1>0, <2>1, RenderKeeps
<1>2. ASSUME NEW a \in Acts, Act(a) PROVE IInv'
    BY <1>2, ClockGrows, PillsKept DEF Act
<1>3. ASSUME NEW k \in DOMAIN calls, Handle(k) PROVE IInv'
    BY <1>3, ClockGrows, PillsKept DEF Handle
<1>4. ASSUME NEW k \in DOMAIN calls, Answered(k) \/ RolledBack(k) PROVE IInv'
    <2>1. pills' = PillsAfter(store') /\ UNCHANGED <<fetches, clock>>
        BY <1>4 DEF Answered, RolledBack, Render, server
    <2> QED
        BY <1>0, <2>1, RenderKeeps
<1>5. ASSUME NEW m \in wire, Deliver(m) PROVE IInv'
    <2>1. UNCHANGED <<fetches, clock>> /\ (pills' = PillsAfter(store') \/ UNCHANGED pills)
        BY <1>5 DEF Deliver, Render, server
    <2> QED
        BY <1>0, <2>1, RenderKeeps, PillsKept
<1>6. CASE UNCHANGED vars
    BY <1>0, <1>6, PillsKept DEF vars
<1> QED
    BY <1>1, <1>2, <1>3, <1>4, <1>5, <1>6, HoverKeeps, ExpireKeeps, HandleFetchKeeps, FailKeeps,
       FetchedKeeps DEF Next

(* A tooltip never lists who had reacted before it last asked, however     *)
(* late answers come (reaction_pill.tsx requestSeqRef, mountedRef).        *)
THEOREM TooltipsAreRecent == Spec => []TooltipFromNewestRequest
<1>1. IInv => TooltipFromNewestRequest
    BY DEF IInv
<1> QED
    BY Initially, Inductive, <1>1, PTL DEF Spec

-----------------------------------------------------------------------------
(* What the pills are drawn from: the one listed event, and an error.      *)
Counts == [count : Nat, self : BOOLEAN, recent : Seq(Users)]
Displays == [Icons -> {NoSummary} \union Counts]

Screen(shown, error) ==
    [InitialState EXCEPT !.events = <<[id |-> 1, reactions |-> shown]>>, !.error = error]

ScreenFormed ==
    /\ Displayed(store) \in Displays
    /\ store = Screen(Displayed(store), store.error)

ServerFormed ==
    /\ clock \in Nat
    /\ users \in [Icons -> Seq(Users)]
    /\ changed \in [Icons -> Nat]
    /\ \A i \in Icons : changed[i] <= clock

GhostFormed ==
    /\ ghost \in [Icons -> [shown : Nat, doubt : BOOLEAN]]
    /\ \A i \in Icons : ghost[i].shown <= clock

Replies == [reactions : Displays, at : Nat]
Answers == {Pending, Failed} \union Replies
Requests == [kind : {"add", "remove"}, icon : Icons, answer : Answers, alone : BOOLEAN]

(* A message or an answer that is as recent as the last change of an icon  *)
(* tells what the server has.                                              *)
Tells(m) ==
    /\ m.icon \in Icons /\ m.at \in Nat /\ m.at <= clock
    /\ m.users # NoUsers =>
           /\ m.users \in Seq(Users)
           /\ m.at >= changed[m.icon] => m.users = users[m.icon]

AnswerTells(answer) ==
    answer \notin {Pending, Failed} =>
        /\ answer.at <= clock
        /\ \A i \in Icons : answer.at >= changed[i] => answer.reactions[i] = Summary(users[i], Me)

Toggled(kind, summary) ==
    IF kind = "add" THEN OptimisticallyAdded(summary) ELSE OptimisticallyRemoved(summary)

Like(summary, us) ==
    IF us = << >> THEN summary = NoSummary
    ELSE /\ summary # NoSummary
         /\ summary.count = Len(us)
         /\ summary.self = (\E i \in DOMAIN us : us[i] = Me)

(* The last word on an icon was the server's present one.                  *)
Sure(i) == ~ghost[i].doubt /\ ghost[i].shown >= changed[i]

Untouched(i) == \A j \in DOMAIN calls : calls[j].icon # i

(* Undoing the only click since then shows again what the server has.      *)
Undoable(k) ==
    calls[k].alone =>
        /\ \A j \in DOMAIN calls : calls[j].icon = calls[k].icon => j = k
        /\ Sure(calls[k].icon) =>
               Like(Toggled(Opposite(calls[k].kind), Displayed(store)[calls[k].icon]),
                    users[calls[k].icon])

RInv ==
    /\ ScreenFormed /\ ServerFormed /\ GhostFormed
    /\ calls \in Seq(Requests)
    /\ \A m \in wire : Tells(m)
    /\ \A k \in DOMAIN calls : AnswerTells(calls[k].answer)
    /\ \A i \in Icons : Sure(i) /\ Untouched(i) => Like(Displayed(store)[i], users[i])
    /\ \A k \in DOMAIN calls : Undoable(k)

-----------------------------------------------------------------------------
(* What the actions of the reducer do to the screen.                       *)

LEMMA ScreenFields ==
    ASSUME NEW d, NEW e
    PROVE  /\ Screen(d, e).events = <<[id |-> 1, reactions |-> d]>>
           /\ Screen(d, e).error = e
           /\ Displayed(Screen(d, e)) = d
BY DEF Screen, InitialState, Displayed

LEMMA ReactionsReplaced ==
    ASSUME NEW d, NEW e, NEW new
    PROVE  [Screen(d, e) EXCEPT !.events = WithReactions(@, 1, <<new>>)] = Screen(new, e)
<1> DEFINE events == <<[id |-> 1, reactions |-> d]>>
<1>1. WithReactions(events, 1, <<new>>) = <<[id |-> 1, reactions |-> new]>>
    <2>1. [events[1] EXCEPT !.reactions = new] = [id |-> 1, reactions |-> new]
        OBVIOUS
    <2>2. DOMAIN events = {1} /\ events[1].id = 1 /\ <<new>>[1] = new
        OBVIOUS
    <2>3. WithReactions(events, 1, <<new>>) = [i \in {1} |-> [id |-> 1, reactions |-> new]]
        BY <2>1, <2>2 DEF WithReactions
    <2> QED
        BY <2>3
<1>2. Screen(d, e).events = events
    BY ScreenFields
<1> HIDE DEF events
<1>3. [Screen(d, e) EXCEPT !.events = WithReactions(@, 1, <<new>>)]
        = [Screen(d, e) EXCEPT !.events = <<[id |-> 1, reactions |-> new]>>]
    BY <1>1, <1>2
<1>4. [Screen(d, e) EXCEPT !.events = <<[id |-> 1, reactions |-> new]>>] = Screen(new, e)
    BY DEF Screen, InitialState
<1> QED
    BY <1>3, <1>4

LEMMA OptimisticScreen ==
    ASSUME NEW d, NEW e, NEW icon, NEW kind
    PROVE  OptimisticReaction(Screen(d, e), 1, icon, kind)
             = Screen([d EXCEPT ![icon] = Toggled(kind, @)], e)
<1>1. Screen(d, e).events = <<[id |-> 1, reactions |-> d]>>
    BY ScreenFields
<1>2. [i \in DOMAIN Screen(d, e).events |->
          [Screen(d, e).events[i].reactions EXCEPT ![icon] = Toggled(kind, @)]]
        = <<[d EXCEPT ![icon] = Toggled(kind, @)]>>
    <2>1. DOMAIN Screen(d, e).events = {1} /\ Screen(d, e).events[1].reactions = d
        BY <1>1
    <2> QED
        BY <2>1
<1> QED
    BY <1>2, ReactionsReplaced DEF OptimisticReaction, Toggled

LEMMA UpdatedScreen ==
    ASSUME NEW d, NEW e, NEW icon, NEW us
    PROVE  ReceivedReactionUpdated(Screen(d, e), 1, icon, us, Me)
             = Screen([d EXCEPT ![icon] = Summary(us, Me)], e)
<1>1. Screen(d, e).events = <<[id |-> 1, reactions |-> d]>>
    BY ScreenFields
<1>2. [i \in DOMAIN Screen(d, e).events |->
          [Screen(d, e).events[i].reactions EXCEPT ![icon] = Summary(us, Me)]]
        = <<[d EXCEPT ![icon] = Summary(us, Me)]>>
    <2>1. DOMAIN Screen(d, e).events = {1} /\ Screen(d, e).events[1].reactions = d
        BY <1>1
    <2> QED
        BY <2>1
<1> QED
    BY <1>2, ReactionsReplaced DEF ReceivedReactionUpdated

LEMMA AnsweredScreen ==
    ASSUME NEW d, NEW e, NEW new
    PROVE  ReceivedEventReactions(Screen(d, e), 1, new) = Screen(new, e)
<1>1. Screen(d, e).events = <<[id |-> 1, reactions |-> d]>>
    BY ScreenFields
<1>2. [i \in DOMAIN Screen(d, e).events |-> new] = <<new>>
    BY <1>1
<1> QED
    BY <1>2, ReactionsReplaced DEF ReceivedEventReactions

LEMMA FailedScreen ==
    ASSUME NEW d, NEW e, NEW new
    PROVE  SetError(Screen(d, e), new) = Screen(d, new)
BY DEF SetError, Screen, InitialState

-----------------------------------------------------------------------------
(* Summaries.                                                              *)

LEMMA SummaryFormed ==
    ASSUME NEW us \in Seq(Users)
    PROVE  Summary(us, Me) \in {NoSummary} \union Counts /\ Like(Summary(us, Me), us)
<1>1. CASE us = << >>
    BY <1>1 DEF Summary, Like
<1>2. CASE us # << >>
    <2> DEFINE s == Summary(us, Me)
    <2>1. Len(us) \in Nat \ {0}
        BY <1>2, EmptySeq, LenProperties
    <2>2. RecentUsers(us) \in Seq(Users)
        <3> DEFINE first == IF Len(us) > 3 THEN Len(us) - 2 ELSE 1
        <3>1. first \in 1 .. Len(us)
            BY <2>1
        <3> HIDE DEF first
        <3>2. SubSeq(us, first, Len(us)) \in Seq(Users)
            <4>1. \A i \in first .. Len(us) : us[i] \in Users
                BY <2>1, <3>1, ElementOfSeq
            <4> QED
                BY <2>1, <3>1, <4>1, SubSeqProperties
        <3> QED
            BY <3>2 DEF RecentUsers, first
    <2>3. s = [count |-> Len(us), self |-> \E i \in DOMAIN us : us[i] = Me,
               recent |-> RecentUsers(us)]
        BY <1>2 DEF Summary
    <2> HIDE DEF s
    <2>4. /\ s \in Counts /\ s.count = Len(us)
          /\ s.self = (\E i \in DOMAIN us : us[i] = Me)
        BY <2>1, <2>2, <2>3 DEF Counts
    <2>5. s # NoSummary
        BY <2>4, SummaryAssumption DEF Counts
    <2> QED
        BY <1>2, <2>4, <2>5 DEF Like, s
<1> QED
    BY <1>1, <1>2

LEMMA SummaryChanged ==
    ASSUME NEW x \in Counts, NEW n \in Nat, NEW b \in BOOLEAN
    PROVE  LET y == [x EXCEPT !.count = n, !.self = b] IN
           y \in Counts /\ y.count = n /\ y.self = b
<1> DEFINE y == [x EXCEPT !.count = n, !.self = b]
<1>1. DOMAIN x = {"count", "self", "recent"} /\ x.recent \in Seq(Users)
    BY DEF Counts
<1>2. y.count = n /\ y.self = b /\ y.recent = x.recent
    BY <1>1
<1>3. DOMAIN y = {"count", "self", "recent"} /\ y = [f \in DOMAIN y |-> y[f]]
    BY <1>1
<1> HIDE DEF y
<1>4. y = [f \in {"count", "self", "recent"} |->
             IF f = "count" THEN n ELSE IF f = "self" THEN b ELSE x.recent]
    <2>1. y = [f \in {"count", "self", "recent"} |-> y[f]]
        BY <1>3
    <2> QED
        BY <1>2, <2>1
<1>5. y = [count |-> n, self |-> b, recent |-> x.recent]
    BY <1>4
<1>6. y \in Counts
    BY <1>1, <1>5 DEF Counts
<1> QED
    BY <1>2, <1>6 DEF y

LEMMA ToggledFormed ==
    ASSUME NEW x \in {NoSummary} \union Counts, NEW kind
    PROVE  Toggled(kind, x) \in {NoSummary} \union Counts
<1>1. CASE x = NoSummary
    <2>1. << >> \in Seq(Users)
        OBVIOUS
    <2> QED
        BY <1>1, <2>1 DEF Toggled, OptimisticallyAdded, OptimisticallyRemoved, Counts
<1>2. CASE x # NoSummary
    <2>1. x \in Counts
        BY <1>2
    <2>2. x.count \in Nat
        BY <2>1 DEF Counts
    <2>3. [x EXCEPT !.count = @ + 1, !.self = TRUE] \in Counts
        <3>1. x.count + 1 \in Nat
            BY <2>2
        <3> QED
            BY <2>1, <3>1, SummaryChanged
    <2>4. x.count > 1 => [x EXCEPT !.count = @ - 1, !.self = FALSE] \in Counts
        <3> SUFFICES ASSUME x.count > 1
                     PROVE  [x EXCEPT !.count = @ - 1, !.self = FALSE] \in Counts
            OBVIOUS
        <3>1. x.count - 1 \in Nat
            BY <2>2
        <3> QED
            BY <2>1, <3>1, SummaryChanged
    <2> QED
        BY <1>2, <2>2, <2>3, <2>4 DEF Toggled, OptimisticallyAdded, OptimisticallyRemoved
<1> QED
    BY <1>1, <1>2

(* A click and its undoing leave what it was, the recent users apart.      *)
LEMMA ToggledBack ==
    ASSUME NEW us \in Seq(Users), NEW x \in {NoSummary} \union Counts, Like(x, us), NEW kind,
           kind = IF x # NoSummary /\ x.self THEN "remove" ELSE "add"
    PROVE  Like(Toggled(Opposite(kind), Toggled(kind, x)), us)
<1>0. Len(us) \in Nat /\ (us = << >> <=> Len(us) = 0)
    BY EmptySeq, LenProperties
<1>1. CASE us = << >>
    <2> DEFINE one == [count |-> 1, self |-> TRUE, recent |-> << >>]
    <2>1. x = NoSummary /\ kind = "add" /\ Opposite(kind) = "remove"
        BY <1>1 DEF Like, Opposite
    <2>2. Toggled(kind, x) = one
        BY <2>1 DEF Toggled, OptimisticallyAdded
    <2>3. Toggled("remove", one) = NoSummary
        <3>1. one.count = 1
            OBVIOUS
        <3> QED
            BY <3>1 DEF Toggled, OptimisticallyRemoved
    <2> QED
        BY <1>1, <2>1, <2>2, <2>3 DEF Like
<1>2. CASE us # << >>
    <2>1. /\ x \in Counts /\ x # NoSummary /\ x.count = Len(us)
          /\ x.self = (\E i \in DOMAIN us : us[i] = Me) /\ x.count \in Nat \ {0}
          /\ x.self \in BOOLEAN
        BY <1>0, <1>2 DEF Like, Counts
    <2>2. \A c \in Counts : c # NoSummary
        BY SummaryAssumption DEF Counts
    <2>3. CASE x.self
        <3>1. kind = "remove" /\ Opposite(kind) = "add"
            BY <2>1, <2>3 DEF Opposite
        <3>2. CASE x.count = 1
            <4>1. Toggled(kind, x) = NoSummary
                BY <3>1, <3>2 DEF Toggled, OptimisticallyRemoved
            <4>2. Toggled("add", NoSummary) = [count |-> 1, self |-> TRUE, recent |-> << >>]
                BY DEF Toggled, OptimisticallyAdded
            <4>3. [count |-> 1, self |-> TRUE, recent |-> << >>] \in Counts
                <5>1. << >> \in Seq(Users)
                    OBVIOUS
                <5> QED
                    BY <5>1 DEF Counts
            <4> DEFINE one == [count |-> 1, self |-> TRUE, recent |-> << >>]
            <4>4. one.count = 1 /\ one.self = TRUE /\ one # NoSummary
                BY <2>2, <4>3
            <4> HIDE DEF one
            <4>5. Toggled(Opposite(kind), Toggled(kind, x)) = one
                BY <3>1, <4>1, <4>2 DEF one
            <4> QED
                BY <1>2, <2>1, <2>3, <3>2, <4>4, <4>5 DEF Like
        <3>3. CASE x.count # 1
            <4> DEFINE y == [x EXCEPT !.count = @ - 1, !.self = FALSE]
                       z == [y EXCEPT !.count = @ + 1, !.self = TRUE]
            <4>1. y \in Counts /\ y.count = x.count - 1
                <5>1. x.count - 1 \in Nat
                    BY <2>1
                <5> QED
                    BY <2>1, <5>1, SummaryChanged
            <4>2. Toggled(kind, x) = y
                <5>0. x # NoSummary /\ x.count \in Nat \ {0} /\ x.count # 1
                    BY <2>1, <3>3, Zenon
                <5>1. x # NoSummary /\ ~(x.count <= 1)
                    BY <5>0
                <5>2. kind # "add"
                    BY <3>1
                <5> QED
                    BY <5>1, <5>2, Zenon DEF Toggled, OptimisticallyRemoved
            <4> HIDE DEF y
            <4>3. z \in Counts /\ z.count = x.count /\ z.self = TRUE
                <5>1. y.count + 1 = x.count /\ y.count + 1 \in Nat
                    BY <2>1, <4>1
                <5> QED
                    BY <4>1, <5>1, SummaryChanged
            <4>4. Toggled("add", y) = z
                BY <2>2, <4>1 DEF Toggled, OptimisticallyAdded
            <4> HIDE DEF z
            <4> QED
                BY <1>2, <2>1, <2>2, <2>3, <3>1, <4>2, <4>3, <4>4 DEF Like
        <3> QED
            BY <3>2, <3>3
    <2>4. CASE ~x.self
        <3> DEFINE y == [x EXCEPT !.count = @ + 1, !.self = TRUE]
                   z == [y EXCEPT !.count = @ - 1, !.self = FALSE]
        <3>1. kind = "add" /\ Opposite(kind) = "remove"
            BY <2>1, <2>4 DEF Opposite
        <3>2. y \in Counts /\ y.count = x.count + 1
            <4>1. x.count + 1 \in Nat
                BY <2>1
            <4> QED
                BY <2>1, <4>1, SummaryChanged
        <3>3. Toggled(kind, x) = y
            BY <2>1, <3>1 DEF Toggled, OptimisticallyAdded
        <3> HIDE DEF y
        <3>4. z \in Counts /\ z.count = x.count /\ z.self = FALSE
            <4>1. y.count - 1 = x.count /\ y.count - 1 \in Nat
                BY <2>1, <3>2
            <4> QED
                BY ZenonT(60), <3>2, <4>1, SummaryChanged
        <3>5. Toggled("remove", y) = z
            BY <2>1, <2>2, <3>2 DEF Toggled, OptimisticallyRemoved
        <3> HIDE DEF z
        <3> QED
            BY <1>2, <2>1, <2>2, <2>4, <3>1, <3>3, <3>4, <3>5 DEF Like
    <2> QED
        BY <2>3, <2>4
<1> QED
    BY <1>1, <1>2

-----------------------------------------------------------------------------
(* What the server does: an icon stays as it is, or changes at a time that *)
(* nothing on its way, and nothing shown, has reached.                     *)

LEMMA ReactedFormed ==
    ASSUME NEW us \in Seq(Users), NEW user \in Users, NEW kind
    PROVE  Reacted(us, user, kind) \in Seq(Users)
<1>1. Sublist(us, {i \in DOMAIN us : us[i] # user}) \in Seq(Users)
    BY SublistProperties
<1>2. Append(us, user) \in Seq(Users)
    BY AppendProperties
<1> QED
    BY <1>1, <1>2 DEF Reacted

Moved(i) ==
    \/ users'[i] = users[i] /\ changed'[i] = changed[i]
    \/ changed'[i] > clock

LEMMA ReactMoves ==
    ASSUME ServerFormed, NEW user \in Users, NEW icon \in Icons, NEW kind,
           React(user, icon, kind)
    PROVE  /\ ServerFormed'
           /\ clock' >= clock
           /\ \A i \in Icons : Moved(i)
           /\ \E m : /\ wire' = wire \union {m}
                     /\ m.icon = icon /\ m.at = clock'
                     /\ m.users # NoUsers => m.users = users'[icon]
<1> DEFINE us == Reacted(users[icon], user, kind)
           m == [icon |-> icon, at |-> clock', users |-> IF us = << >> THEN NoUsers ELSE us]
<1>1. us \in Seq(Users)
    BY ReactedFormed DEF ServerFormed
<1>2. /\ users' = [users EXCEPT ![icon] = us]
      /\ clock' = IF us = users[icon] THEN clock ELSE clock + 1
      /\ changed' = IF us = users[icon] THEN changed ELSE [changed EXCEPT ![icon] = clock']
      /\ wire' = wire \union {m}
    BY DEF React
<1> HIDE DEF us
<1>3. users' \in [Icons -> Seq(Users)] /\ users'[icon] = us
    BY <1>1, <1>2 DEF ServerFormed
<1>4. clock' \in Nat /\ clock' >= clock
    BY <1>2 DEF ServerFormed
<1>5. changed' \in [Icons -> Nat]
    BY <1>2, <1>4 DEF ServerFormed
<1>6. \A i \in Icons : changed'[i] <= clock'
    BY <1>2, <1>4 DEF ServerFormed
<1>7. \A i \in Icons : Moved(i)
    BY <1>2, <1>4 DEF ServerFormed, Moved
<1>8. m.icon = icon /\ m.at = clock' /\ (m.users # NoUsers => m.users = users'[icon])
    BY <1>3
<1> HIDE DEF m
<1>9. \E n : /\ wire' = wire \union {n}
             /\ n.icon = icon /\ n.at = clock'
             /\ n.users # NoUsers => n.users = users'[icon]
    BY <1>2, <1>8
<1> QED
    BY <1>3, <1>4, <1>5, <1>6, <1>7, <1>9 DEF ServerFormed

(* What was told before the server moved is as good as before.             *)
LEMMA StillTells ==
    ASSUME ServerFormed, ServerFormed', clock' >= clock, \A i \in Icons : Moved(i), NEW m, Tells(m)
    PROVE  Tells(m)'
<1>1. m.icon \in Icons /\ m.at \in Nat /\ m.at <= clock
    BY DEF Tells
<1>2. clock \in Nat /\ clock' \in Nat /\ changed[m.icon] \in Nat /\ changed'[m.icon] \in Nat
    BY <1>1 DEF ServerFormed
<1>3. \/ users'[m.icon] = users[m.icon] /\ changed'[m.icon] = changed[m.icon]
      \/ ~(m.at >= changed'[m.icon])
    BY <1>1, <1>2 DEF Moved
<1> QED
    BY <1>1, <1>2, <1>3 DEF Tells

LEMMA StillAnswers ==
    ASSUME ServerFormed, ServerFormed', clock' >= clock, \A i \in Icons : Moved(i),
           NEW answer \in Answers, AnswerTells(answer)
    PROVE  AnswerTells(answer)'
<1> SUFFICES ASSUME answer \notin {Pending, Failed}
             PROVE  /\ answer.at <= clock'
                    /\ \A i \in Icons : answer.at >= changed'[i] =>
                           answer.reactions[i] = Summary(users'[i], Me)
    BY DEF AnswerTells
<1>1. answer.at \in Nat /\ answer.at <= clock
    BY DEF AnswerTells, Answers, Replies
<1>2. ASSUME NEW i \in Icons, answer.at >= changed'[i]
      PROVE  answer.reactions[i] = Summary(users'[i], Me)
    <2>1. users'[i] = users[i] /\ changed'[i] = changed[i]
        BY <1>1, <1>2 DEF ServerFormed, Moved
    <2> QED
        BY <1>2, <2>1 DEF AnswerTells
<1> QED
    BY <1>1, <1>2 DEF ServerFormed

LEMMA StillSure ==
    ASSUME ServerFormed, ServerFormed', GhostFormed, UNCHANGED ghost, \A i \in Icons : Moved(i),
           NEW i \in Icons, Sure(i)'
    PROVE  Sure(i) /\ users'[i] = users[i]
BY DEF ServerFormed, GhostFormed, Moved, Sure

(* The messages on their way after the server published one.               *)
LEMMA WireKept ==
    ASSUME ServerFormed, ServerFormed', clock' >= clock, \A i \in Icons : Moved(i),
           \A m \in wire : Tells(m), NEW icon \in Icons,
           \E m : /\ wire' = wire \union {m}
                  /\ m.icon = icon /\ m.at = clock'
                  /\ m.users # NoUsers => m.users = users'[icon]
    PROVE  (\A m \in wire : Tells(m))'
<1>1. PICK n : /\ wire' = wire \union {n}
               /\ n.icon = icon /\ n.at = clock'
               /\ n.users # NoUsers => n.users = users'[icon]
    OBVIOUS
<1>2. Tells(n)'
    BY <1>1 DEF Tells, ServerFormed
<1>3. \A m \in wire : Tells(m)'
    BY StillTells
<1> QED
    BY <1>1, <1>2, <1>3

LEMMA RequestFormed ==
    ASSUME NEW cs \in Seq(Requests), NEW k \in DOMAIN cs
    PROVE  /\ cs[k] \in Requests
           /\ cs[k] = [kind |-> cs[k].kind, icon |-> cs[k].icon, answer |-> cs[k].answer,
                       alone |-> cs[k].alone]
           /\ cs[k].kind \in {"add", "remove"} /\ cs[k].icon \in Icons
           /\ cs[k].answer \in Answers /\ cs[k].alone \in BOOLEAN
<1>1. cs[k] \in Requests
    BY ElementOfSeq, LenProperties
<1> QED
    BY <1>1 DEF Requests

-----------------------------------------------------------------------------
(* One lemma per action that changes what RInv is about.                   *)

LEMMA ScreenAfter ==
    ASSUME NEW d \in Displays, NEW e, store' = Screen(d, e)
    PROVE  ScreenFormed' /\ Displayed(store') = d
<1>1. Displayed(store') = d /\ store'.error = e
    BY ScreenFields
<1> QED
    BY <1>1 DEF ScreenFormed

(* The server moves, or a request is answered: nothing is clicked or shown.*)
LEMMA ServerAgrees ==
    ASSUME RInv, UNCHANGED <<store, ghost>>,
           ServerFormed', clock' >= clock, \A i \in Icons : Moved(i), (\A m \in wire : Tells(m))',
           calls' \in Seq(Requests), DOMAIN calls' = DOMAIN calls,
           \A k \in DOMAIN calls :
               /\ calls'[k].icon = calls[k].icon /\ calls'[k].kind = calls[k].kind
               /\ calls'[k].alone = calls[k].alone
               /\ calls'[k].answer = calls[k].answer \/ AnswerTells(calls[k].answer)'
    PROVE  RInv'
<1>0. ServerFormed /\ GhostFormed /\ calls \in Seq(Requests)
    BY DEF RInv
<1>1. ScreenFormed' /\ GhostFormed'
    BY DEF RInv, ScreenFormed, GhostFormed, ServerFormed
<1>2. (\A k \in DOMAIN calls : AnswerTells(calls[k].answer))'
    <2> SUFFICES ASSUME NEW k \in DOMAIN calls PROVE AnswerTells(calls[k].answer)'
        OBVIOUS
    <2>1. CASE calls'[k].answer = calls[k].answer
        <3> DEFINE answer == calls[k].answer
        <3>1. answer \in Answers /\ AnswerTells(answer)
              /\ answer' = answer
            BY <2>1, RequestFormed DEF RInv
        <3> QED
            BY <1>0, <3>1, StillAnswers
    <2> QED
        BY <2>1
<1>3. \A i \in Icons : Sure(i)' => Sure(i) /\ users'[i] = users[i]
    BY <1>0, StillSure
<1>4. (\A i \in Icons : Sure(i) /\ Untouched(i) => Like(Displayed(store)[i], users[i]))'
    <2> SUFFICES ASSUME NEW i \in Icons, Sure(i)', Untouched(i)'
                 PROVE  Like(Displayed(store')[i], users'[i])
        OBVIOUS
    <2>1. Sure(i) /\ users'[i] = users[i] /\ Untouched(i)
        BY <1>3 DEF Untouched
    <2> QED
        BY <2>1 DEF RInv
<1>5. (\A k \in DOMAIN calls : Undoable(k))'
    <2> SUFFICES ASSUME NEW k \in DOMAIN calls PROVE Undoable(k)'
        OBVIOUS
    <2>1. calls[k].icon \in Icons /\ Undoable(k)
        BY <1>0, RequestFormed DEF RInv
    <2> QED
        BY <1>3, <2>1 DEF Undoable
<1> QED
    BY <1>1, <1>2, <1>4, <1>5 DEF RInv

LEMMA ActAgrees ==
    ASSUME RInv, NEW a \in Acts, Act(a)
    PROVE  RInv'
<1>1. a.user \in Users /\ a.icon \in Icons /\ React(a.user, a.icon, a.kind)
    BY ActsAssumption DEF Users, Act
<1>2. UNCHANGED <<store, calls, ghost>> /\ calls \in Seq(Requests)
    BY DEF Act, RInv
<1>3. /\ ServerFormed' /\ clock' >= clock /\ \A i \in Icons : Moved(i)
      /\ (\A m \in wire : Tells(m))'
    BY <1>1, ReactMoves, WireKept DEF RInv
<1> QED
    BY <1>2, <1>3, ServerAgrees

LEMMA AnswerSet ==
    ASSUME NEW cs \in Seq(Requests), NEW k \in DOMAIN cs,
           NEW answer \in Answers
    PROVE  LET new == [cs EXCEPT ![k].answer = answer] IN
           /\ new \in Seq(Requests) /\ DOMAIN new = DOMAIN cs
           /\ new[k].answer = answer
           /\ \A j \in DOMAIN cs : /\ j # k => new[j] = cs[j]
                                   /\ new[j].icon = cs[j].icon /\ new[j].kind = cs[j].kind
                                   /\ new[j].alone = cs[j].alone
<1> DEFINE r == [cs[k] EXCEPT !.answer = answer]
           new == [cs EXCEPT ![k].answer = answer]
<1>1. r \in Requests /\ r.answer = answer /\ r.icon = cs[k].icon /\ r.kind = cs[k].kind
      /\ r.alone = cs[k].alone
    <2> DEFINE old == cs[k]
    <2>1. old \in Requests
        BY RequestFormed
    <2> HIDE DEF old
    <2>2. [old EXCEPT !.answer = answer] \in Requests
        BY <2>1 DEF Requests
    <2>3. /\ [old EXCEPT !.answer = answer].answer = answer
          /\ [old EXCEPT !.answer = answer].icon = old.icon
          /\ [old EXCEPT !.answer = answer].kind = old.kind
          /\ [old EXCEPT !.answer = answer].alone = old.alone
        BY <2>1 DEF Requests
    <2> QED
        BY <2>2, <2>3 DEF old
<1>2. new = [cs EXCEPT ![k] = r]
    OBVIOUS
<1> HIDE DEF r, new
<1>3. new \in Seq(Requests) /\ DOMAIN new = DOMAIN cs
    BY <1>1, <1>2, ExceptSeq
<1>4. new[k] = r /\ \A j \in DOMAIN cs : j # k => new[j] = cs[j]
    BY <1>2
<1> QED
    BY <1>1, <1>3, <1>4 DEF new

LEMMA HandleAgrees ==
    ASSUME RInv, NEW k \in DOMAIN calls, Handle(k)
    PROVE  RInv'
<1>0. PICK answer : answer = [reactions |-> Summaries(users'), at |-> clock']
    OBVIOUS
<1>1. calls \in Seq(Requests) /\ calls[k].icon \in Icons
    BY RequestFormed DEF RInv
<1>2. /\ UNCHANGED <<store, ghost>>
      /\ React(Me, calls[k].icon, calls[k].kind) /\ Me \in Users
      /\ calls' = [calls EXCEPT ![k].answer = answer]
    BY <1>0 DEF Handle, Users
<1>3. /\ ServerFormed' /\ clock' >= clock /\ \A i \in Icons : Moved(i)
      /\ (\A m \in wire : Tells(m))'
    BY <1>1, <1>2, ReactMoves, WireKept DEF RInv
<1>4. answer \in Replies /\ AnswerTells(answer)'
    <2>1. Summaries(users') \in Displays
        BY <1>3, SummaryFormed DEF ServerFormed, Summaries, Displays
    <2>2. answer \in Replies /\ answer.at = clock'
        BY <1>0, <1>3, <2>1 DEF Replies, ServerFormed
    <2>3. \A i \in Icons : answer.reactions[i] = Summary(users'[i], Me)
        BY <1>0 DEF Summaries
    <2> QED
        BY <1>3, <2>2, <2>3 DEF AnswerTells, ServerFormed
<1>5. /\ calls' \in Seq(Requests) /\ DOMAIN calls' = DOMAIN calls
      /\ calls'[k].answer = answer
      /\ \A j \in DOMAIN calls : /\ j # k => calls'[j] = calls[j]
                                 /\ calls'[j].icon = calls[j].icon
                                 /\ calls'[j].kind = calls[j].kind
                                 /\ calls'[j].alone = calls[j].alone
    <2>1. answer \in Answers
        BY <1>4 DEF Answers
    <2> QED
        BY <1>1, <1>2, <2>1, AnswerSet
<1>6. \A j \in DOMAIN calls : calls'[j].answer = calls[j].answer \/ AnswerTells(calls[j].answer)'
    <2> SUFFICES ASSUME NEW j \in DOMAIN calls, calls'[j].answer # calls[j].answer
                 PROVE  AnswerTells(calls[j].answer)'
        OBVIOUS
    <2>1. calls'[j].answer = answer
        BY <1>5
    <2> QED
        BY <1>4, <2>1
<1> QED
    BY <1>2, <1>3, <1>5, <1>6, ServerAgrees

LEMMA FailAgrees ==
    ASSUME RInv, Fail
    PROVE  RInv'
<1>1. UNCHANGED <<store, users, clock, changed, wire, ghost>>
    BY DEF Fail, server
<1>2. /\ ServerFormed' /\ clock' >= clock /\ \A i \in Icons : Moved(i)
      /\ (\A m \in wire : Tells(m))' /\ calls \in Seq(Requests)
    BY <1>1 DEF RInv, ServerFormed, Moved, Tells
<1>3. CASE UNCHANGED calls
    BY <1>1, <1>2, <1>3, ServerAgrees
<1>4. ASSUME NEW k \in DOMAIN calls, calls' = [calls EXCEPT ![k].answer = Failed]
      PROVE  RInv'
    <2>0. PICK answer \in Answers : answer = Failed
        BY DEF Answers
    <2>1. /\ calls' \in Seq(Requests) /\ DOMAIN calls' = DOMAIN calls
          /\ calls'[k].answer = answer
          /\ \A j \in DOMAIN calls : /\ j # k => calls'[j] = calls[j]
                                     /\ calls'[j].icon = calls[j].icon
                                     /\ calls'[j].kind = calls[j].kind
                                     /\ calls'[j].alone = calls[j].alone
        <3>1. calls' = [calls EXCEPT ![k].answer = answer]
            BY <1>4, <2>0
        <3> QED
            BY <1>2, <3>1, AnswerSet
    <2>2. AnswerTells(calls[k].answer)'
        BY <2>0, <2>1 DEF AnswerTells
    <2>3. \A j \in DOMAIN calls : calls'[j].answer = calls[j].answer \/ AnswerTells(calls[j].answer)'
        BY <2>1, <2>2
    <2> QED
        BY <1>1, <1>2, <2>1, <2>3, ServerAgrees
<1> QED
    BY <1>3, <1>4 DEF Fail

-----------------------------------------------------------------------------
(* The answers and messages that reach the client, and its clicks.         *)

LEMMA NoLongerAlone ==
    ASSUME NEW r \in Requests
    PROVE  LET s == [r EXCEPT !.alone = FALSE] IN
           /\ s \in Requests /\ s.alone = FALSE
           /\ s.icon = r.icon /\ s.kind = r.kind /\ s.answer = r.answer
<1>1. [r EXCEPT !.alone = FALSE] \in Requests
    BY DEF Requests
<1>2. /\ [r EXCEPT !.alone = FALSE].alone = FALSE
      /\ [r EXCEPT !.alone = FALSE].icon = r.icon
      /\ [r EXCEPT !.alone = FALSE].kind = r.kind
      /\ [r EXCEPT !.alone = FALSE].answer = r.answer
    BY DEF Requests
<1> QED
    BY <1>1, <1>2

Skip(j, k) == IF j < k THEN j ELSE j + 1

LEMMA TakenRequests ==
    ASSUME NEW cs \in Seq(Requests), NEW k \in DOMAIN cs
    PROVE  /\ Taken(cs, k) \in Seq(Requests)
           /\ \A j \in DOMAIN Taken(cs, k) :
                  /\ Skip(j, k) \in DOMAIN cs \ {k}
                  /\ Taken(cs, k)[j] = cs[Skip(j, k)]
           /\ \A i, j \in DOMAIN Taken(cs, k) : Skip(i, k) = Skip(j, k) => i = j
           /\ \A j \in DOMAIN cs : j # k => \E i \in DOMAIN Taken(cs, k) : Skip(i, k) = j
<1> DEFINE n == Len(cs) - 1
           new == Taken(cs, k)
<1>1. Len(cs) \in Nat /\ DOMAIN cs = 1 .. Len(cs) /\ k \in 1 .. Len(cs) /\ n \in Nat
    BY LenProperties
<1>2. new = [j \in 1 .. n |-> IF j < k THEN cs[j] ELSE cs[j + 1]]
    BY DEF Taken
<1>3. \A j \in 1 .. n : Skip(j, k) \in DOMAIN cs \ {k}
    BY <1>1 DEF Skip
<1>4. DOMAIN new = 1 .. n /\ \A j \in 1 .. n : new[j] = cs[Skip(j, k)]
    BY <1>2 DEF Skip
<1>5. \A j \in 1 .. n : new[j] \in Requests
    BY <1>3, <1>4, RequestFormed
<1>6. new \in Seq(Requests)
    <2>1. new = [j \in 1 .. n |-> new[j]]
        BY <1>2, <1>4
    <2> HIDE DEF new
    <2> QED
        BY <1>1, <1>5, <2>1, IsASeq
<1>7. \A i, j \in 1 .. n : Skip(i, k) = Skip(j, k) => i = j
    BY <1>1 DEF Skip
<1>8. ASSUME NEW j \in DOMAIN cs, j # k PROVE \E i \in 1 .. n : Skip(i, k) = j
    <2>1. CASE j < k
        BY <1>1, <2>1 DEF Skip
    <2>2. CASE ~(j < k)
        <3>1. j - 1 \in 1 .. n /\ Skip(j - 1, k) = j
            BY <1>1, <1>8, <2>2 DEF Skip
        <3> QED
            BY <3>1
    <2> QED
        BY <2>1, <2>2
<1> QED
    BY <1>3, <1>4, <1>6, <1>7, <1>8

(* What comes last is what the server has, or an older state was shown.    *)
LEMMA ShownLast ==
    ASSUME NEW g \in [shown : Nat, doubt : BOOLEAN], NEW at \in Nat
    PROVE  /\ Showing(g, at) \in [shown : Nat, doubt : BOOLEAN]
           /\ Showing(g, at).shown = g.shown \/ Showing(g, at).shown = at
           /\ ~Showing(g, at).doubt => Showing(g, at).shown = at
<1>1. CASE at < g.shown
    <2>1. [g EXCEPT !.doubt = TRUE] \in [shown : Nat, doubt : BOOLEAN]
        OBVIOUS
    <2>2. [g EXCEPT !.doubt = TRUE].shown = g.shown /\ [g EXCEPT !.doubt = TRUE].doubt = TRUE
        OBVIOUS
    <2> QED
        BY <1>1, <2>1, <2>2 DEF Showing
<1>2. CASE ~(at < g.shown)
    BY <1>2 DEF Showing
<1> QED
    BY <1>1, <1>2

LEMMA AnsweredAgrees ==
    ASSUME RInv, NEW k \in DOMAIN calls, Answered(k)
    PROVE  RInv'
<1>0. ServerFormed /\ GhostFormed /\ ScreenFormed /\ calls \in Seq(Requests)
    BY DEF RInv
<1>1. PICK answer : answer = calls[k].answer
    OBVIOUS
<1>2. PICK cs : cs = [j \in DOMAIN calls |-> [calls[j] EXCEPT !.alone = FALSE]]
    OBVIOUS
<1>3. /\ UNCHANGED <<users, clock, changed, wire>>
      /\ answer \notin {Pending, Failed}
      /\ store' = ReceivedEventReactions(store, 1, answer.reactions)
      /\ ghost' = [i \in Icons |-> Showing(ghost[i], answer.at)]
      /\ calls' = Taken(cs, k)
    BY <1>1, <1>2 DEF Answered, Render, server
<1>4. answer \in Replies /\ AnswerTells(answer)
    BY <1>0, <1>1, <1>3, RequestFormed DEF RInv, Answers
<1>5. answer.reactions \in Displays /\ answer.at \in Nat /\ answer.at <= clock
    BY <1>3, <1>4 DEF Replies, AnswerTells
<1>6. ScreenFormed' /\ Displayed(store') = answer.reactions
    BY <1>0, <1>3, <1>5, AnsweredScreen, ScreenAfter DEF ScreenFormed
<1>7. ServerFormed' /\ (\A m \in wire : Tells(m))'
    BY <1>3 DEF RInv, ServerFormed, Tells
<1>8. ghost' \in [Icons -> [shown : Nat, doubt : BOOLEAN]]
      /\ \A i \in Icons : /\ ghost'[i].shown <= clock'
                          /\ ~ghost'[i].doubt => ghost'[i].shown = answer.at
    <2>1. ASSUME NEW i \in Icons
          PROVE  /\ ghost'[i] \in [shown : Nat, doubt : BOOLEAN]
                 /\ ghost'[i].shown <= clock'
                 /\ ~ghost'[i].doubt => ghost'[i].shown = answer.at
        <3>1. ghost[i] \in [shown : Nat, doubt : BOOLEAN] /\ ghost[i].shown <= clock
            BY <1>0 DEF GhostFormed
        <3>2. ghost'[i] = Showing(ghost[i], answer.at)
            BY <1>3
        <3> QED
            BY <1>3, <1>5, <3>1, <3>2, ShownLast
    <2> QED
        BY <1>3, <2>1
<1>9. /\ cs \in Seq(Requests) /\ DOMAIN cs = DOMAIN calls
      /\ \A j \in DOMAIN calls : cs[j].answer = calls[j].answer /\ cs[j].alone = FALSE
    <2>1. DOMAIN cs = DOMAIN calls /\ \A j \in DOMAIN calls : cs[j] = [calls[j] EXCEPT !.alone = FALSE]
        BY <1>2
    <2>2. ASSUME NEW j \in DOMAIN calls
          PROVE  cs[j] \in Requests /\ cs[j].answer = calls[j].answer /\ cs[j].alone = FALSE
        BY <1>0, <2>1, RequestFormed, NoLongerAlone
    <2>3. cs \in Seq(Requests)
        <3>1. Len(calls) \in Nat /\ DOMAIN calls = 1 .. Len(calls)
            BY <1>0, LenProperties
        <3>2. cs = [j \in 1 .. Len(calls) |-> cs[j]]
            BY <1>2, <3>1
        <3> QED
            <4>1. \A j \in 1 .. Len(calls) : cs[j] \in Requests
                BY <2>2, <3>1
            <4> QED
                BY <3>1, <3>2, <4>1, IsASeq
    <2> QED
        BY <2>1, <2>2, <2>3
<1>10. /\ calls' \in Seq(Requests)
       /\ \A j \in DOMAIN calls' : calls'[j].alone = FALSE /\
              \E i \in DOMAIN calls : calls'[j].answer = calls[i].answer
    <2>1. k \in DOMAIN cs
        BY <1>9
    <2>2. /\ Taken(cs, k) \in Seq(Requests)
          /\ \A j \in DOMAIN Taken(cs, k) :
                 /\ Skip(j, k) \in DOMAIN cs \ {k}
                 /\ Taken(cs, k)[j] = cs[Skip(j, k)]
        BY <1>9, <2>1, TakenRequests
    <2> QED
        BY <1>3, <1>9, <2>2
<1>11. (\A j \in DOMAIN calls : AnswerTells(calls[j].answer))'
    <2> SUFFICES ASSUME NEW j \in DOMAIN calls' PROVE AnswerTells(calls[j].answer)'
        OBVIOUS
    <2>1. PICK i \in DOMAIN calls : calls'[j].answer = calls[i].answer
        BY <1>10
    <2>2. AnswerTells(calls[i].answer)
        BY DEF RInv
    <2> QED
        BY <1>3, <2>1, <2>2 DEF AnswerTells
<1>12. (\A i \in Icons : Sure(i) /\ Untouched(i) => Like(Displayed(store)[i], users[i]))'
    <2> SUFFICES ASSUME NEW i \in Icons, Sure(i)'
                 PROVE  Like(Displayed(store')[i], users'[i])
        OBVIOUS
    <2>1. answer.at >= changed[i]
        BY <1>3, <1>8 DEF Sure
    <2>2. answer.reactions[i] = Summary(users[i], Me) /\ users[i] \in Seq(Users)
        BY <1>0, <1>3, <1>4, <2>1 DEF AnswerTells, ServerFormed
    <2> QED
        BY <1>3, <1>6, <2>2, SummaryFormed
<1>13. (\A j \in DOMAIN calls : Undoable(j))'
    BY <1>10 DEF Undoable
<1> QED
    BY <1>6, <1>7, <1>8, <1>10, <1>11, <1>12, <1>13 DEF RInv, GhostFormed

(* A list of requests of which those of one icon are no longer alone.      *)
NotAlone(cs, icon) ==
    [j \in DOMAIN cs |-> IF cs[j].icon = icon THEN [cs[j] EXCEPT !.alone = FALSE] ELSE cs[j]]

LEMMA NotAloneRequests ==
    ASSUME NEW cs \in Seq(Requests), NEW icon
    PROVE  LET new == NotAlone(cs, icon) IN
           /\ new \in Seq(Requests) /\ DOMAIN new = DOMAIN cs
           /\ \A j \in DOMAIN cs : /\ new[j].icon = cs[j].icon /\ new[j].kind = cs[j].kind
                                   /\ new[j].answer = cs[j].answer
                                   /\ cs[j].icon = icon => new[j].alone = FALSE
                                   /\ cs[j].icon # icon => new[j].alone = cs[j].alone
<1> DEFINE new == NotAlone(cs, icon)
<1>1. Len(cs) \in Nat /\ DOMAIN cs = 1 .. Len(cs)
    BY LenProperties
<1>2. /\ DOMAIN new = 1 .. Len(cs) /\ new = [j \in 1 .. Len(cs) |-> new[j]]
      /\ \A j \in DOMAIN cs : new[j] = IF cs[j].icon = icon THEN [cs[j] EXCEPT !.alone = FALSE]
                                       ELSE cs[j]
    BY <1>1 DEF NotAlone
<1> HIDE DEF new
<1>3. ASSUME NEW j \in DOMAIN cs
      PROVE  /\ new[j] \in Requests
             /\ new[j].icon = cs[j].icon /\ new[j].kind = cs[j].kind
             /\ new[j].answer = cs[j].answer
             /\ cs[j].icon = icon => new[j].alone = FALSE
             /\ cs[j].icon # icon => new[j].alone = cs[j].alone
    <2>1. cs[j] \in Requests
        BY RequestFormed
    <2>2. CASE cs[j].icon = icon
        <3>1. new[j] = [cs[j] EXCEPT !.alone = FALSE]
            BY <1>2, <2>2
        <3> QED
            BY <2>1, <2>2, <3>1, NoLongerAlone
    <2>3. CASE cs[j].icon # icon
        BY <1>2, <2>1, <2>3
    <2> QED
        BY <2>2, <2>3
<1>4. new \in Seq(Requests)
    <2>1. \A j \in 1 .. Len(cs) : new[j] \in Requests
        BY <1>1, <1>3
    <2> QED
        BY <1>1, <1>2, <2>1, IsASeq
<1>5. new \in Seq(Requests) /\ DOMAIN new = DOMAIN cs
    BY <1>1, <1>2, <1>4
<1> QED
    BY <1>3, <1>5 DEF new

LEMMA DeliverAgrees ==
    ASSUME RInv, NEW m \in wire, Deliver(m)
    PROVE  RInv'
<1>0. ServerFormed /\ GhostFormed /\ ScreenFormed /\ calls \in Seq(Requests) /\ Tells(m)
    BY DEF RInv
<1>1. UNCHANGED <<users, clock, changed>> /\ wire' = wire \ {m}
    BY DEF Deliver, server
<1>2. ServerFormed' /\ (\A n \in wire : Tells(n))'
    BY <1>1 DEF RInv, ServerFormed, Tells
<1>3. CASE m.users = NoUsers
    <2>1. UNCHANGED <<store, ghost, calls>>
        BY <1>3 DEF Deliver, IsReactionUpdatedPayload
    <2>2. clock' >= clock /\ \A i \in Icons : Moved(i)
        BY <1>0, <1>1 DEF ServerFormed, Moved
    <2> QED
        BY <1>0, <1>2, <2>1, <2>2, ServerAgrees
<1>4. CASE m.users # NoUsers
    <2> DEFINE icon == m.icon
               d == Displayed(store)
    <2>1. /\ store' = ReceivedReactionUpdated(store, 1, icon, m.users, Me)
          /\ ghost' = [ghost EXCEPT ![icon] = Showing(@, m.at)]
          /\ calls' = NotAlone(calls, icon)
        BY <1>4 DEF Deliver, IsReactionUpdatedPayload, Render, NotAlone
    <2>2. /\ icon \in Icons /\ m.at \in Nat /\ m.at <= clock /\ m.users \in Seq(Users)
          /\ m.at >= changed[icon] => m.users = users[icon]
        BY <1>0, <1>4 DEF Tells
    <2>3. d \in Displays /\ store = Screen(d, store.error)
        BY <1>0 DEF ScreenFormed
    <2> DEFINE after == [d EXCEPT ![icon] = Summary(m.users, Me)]
    <2>4. after \in Displays /\ after[icon] = Summary(m.users, Me)
          /\ \A i \in Icons : i # icon => after[i] = d[i]
        BY <2>2, <2>3, SummaryFormed DEF Displays
    <2>5. store' = Screen(after, store.error)
        BY <2>1, <2>3, UpdatedScreen
    <2> HIDE DEF after
    <2>6. ScreenFormed' /\ Displayed(store') = after
        BY <2>4, <2>5, ScreenAfter
    <2>7. /\ ghost' \in [Icons -> [shown : Nat, doubt : BOOLEAN]]
          /\ \A i \in Icons : /\ ghost'[i].shown <= clock'
                              /\ i # icon => ghost'[i] = ghost[i]
                              /\ i = icon /\ ~ghost'[i].doubt => ghost'[i].shown = m.at
        <3> DEFINE g == Showing(ghost[icon], m.at)
        <3>1. ghost[icon] \in [shown : Nat, doubt : BOOLEAN] /\ ghost[icon].shown <= clock
            BY <1>0, <2>2 DEF GhostFormed
        <3>2. /\ g \in [shown : Nat, doubt : BOOLEAN] /\ g.shown <= clock
              /\ ~g.doubt => g.shown = m.at
            BY <2>2, <3>1, ShownLast
        <3>3. ghost' = [ghost EXCEPT ![icon] = g]
            BY <2>1
        <3> HIDE DEF g
        <3> QED
            BY <1>0, <1>1, <2>2, <3>2, <3>3 DEF GhostFormed
    <2>8. /\ calls' \in Seq(Requests) /\ DOMAIN calls' = DOMAIN calls
          /\ \A j \in DOMAIN calls : /\ calls'[j].icon = calls[j].icon
                                     /\ calls'[j].kind = calls[j].kind
                                     /\ calls'[j].answer = calls[j].answer
                                     /\ calls[j].icon = icon => calls'[j].alone = FALSE
                                     /\ calls[j].icon # icon => calls'[j].alone = calls[j].alone
        BY ZenonT(60), <1>0, <2>1, NotAloneRequests
    <2>9. (\A j \in DOMAIN calls : AnswerTells(calls[j].answer))'
        <3> SUFFICES ASSUME NEW j \in DOMAIN calls PROVE AnswerTells(calls[j].answer)'
            BY <2>8
        <3>1. AnswerTells(calls[j].answer) /\ calls'[j].answer = calls[j].answer
            BY <2>8 DEF RInv
        <3> QED
            BY <1>1, <3>1 DEF AnswerTells
    <2>10. (\A i \in Icons : Sure(i) /\ Untouched(i) => Like(Displayed(store)[i], users[i]))'
        <3> SUFFICES ASSUME NEW i \in Icons, Sure(i)', Untouched(i)'
                     PROVE  Like(Displayed(store')[i], users'[i])
            OBVIOUS
        <3>1. CASE i = icon
            <4>1. m.users = users[icon]
                BY <1>1, <2>2, <2>7, <3>1 DEF Sure
            <4> QED
                BY <1>1, <2>2, <2>4, <2>6, <3>1, <4>1, SummaryFormed
        <3>2. CASE i # icon
            <4>1. Sure(i) /\ Untouched(i)
                BY <1>1, <2>7, <2>8, <3>2 DEF Sure, Untouched
            <4> QED
                BY <1>1, <2>4, <2>6, <3>2, <4>1 DEF RInv
        <3> QED
            BY <3>1, <3>2
    <2>11. (\A j \in DOMAIN calls : Undoable(j))'
        <3> SUFFICES ASSUME NEW j \in DOMAIN calls, calls'[j].alone PROVE Undoable(j)'
            BY <2>8 DEF Undoable
        <3>1. calls[j].icon \in Icons /\ calls[j].icon # icon /\ calls[j].alone /\ Undoable(j)
            BY <1>0, <2>8, RequestFormed DEF RInv
        <3>2. Sure(calls[j].icon)' => Sure(calls[j].icon)
            BY <1>1, <2>7, <2>8, <3>1 DEF Sure
        <3>3. Displayed(store')[calls[j].icon] = Displayed(store)[calls[j].icon]
            BY <2>4, <2>6, <3>1
        <3> QED
            BY <1>1, <2>8, <3>1, <3>2, <3>3 DEF Undoable, Sure
    <2> QED
        BY <1>2, <2>6, <2>7, <2>8, <2>9, <2>10, <2>11 DEF RInv, GhostFormed
<1> QED
    BY <1>3, <1>4

(* A failed click that was the only one since the last answer or message   *)
(* is undone to what the server has; else its icon is no longer sure.      *)
LEMMA RolledBackAgrees ==
    ASSUME RInv, NEW k \in DOMAIN calls, RolledBack(k)
    PROVE  RInv'
<1>0. ServerFormed /\ GhostFormed /\ ScreenFormed /\ calls \in Seq(Requests)
    BY DEF RInv
<1> DEFINE icon == calls[k].icon
           kind == Opposite(calls[k].kind)
           d == Displayed(store)
           e == store.error
           after == [d EXCEPT ![icon] = Toggled(kind, @)]
<1>1. /\ UNCHANGED <<users, clock, changed, wire>>
      /\ store' = SetError(OptimisticReaction(store, 1, icon, kind), ReactionError)
      /\ ghost' = [ghost EXCEPT ![icon].doubt = @ \/ ~calls[k].alone]
      /\ calls' = Taken(calls, k)
    BY DEF RolledBack, Render, server
<1>2. icon \in Icons /\ d \in Displays /\ store = Screen(d, e)
    BY <1>0, RequestFormed DEF ScreenFormed
<1>3. after \in Displays /\ after[icon] = Toggled(kind, d[icon])
      /\ \A i \in Icons : i # icon => after[i] = d[i]
    <2>1. d[icon] \in {NoSummary} \union Counts
        BY <1>2 DEF Displays
    <2>2. Toggled(kind, d[icon]) \in {NoSummary} \union Counts
        BY <2>1, ToggledFormed
    <2> QED
        BY <1>2, <2>2 DEF Displays
<1>4. store' = Screen(after, ReactionError)
    <2>1. OptimisticReaction(store, 1, icon, kind) = Screen(after, e)
        BY <1>2, OptimisticScreen
    <2> QED
        BY <1>1, <2>1, FailedScreen
<1> HIDE DEF after, kind
<1>5. ScreenFormed' /\ Displayed(store') = after
    BY <1>3, <1>4, ScreenAfter
<1>6. ServerFormed' /\ (\A m \in wire : Tells(m))'
    BY <1>1 DEF RInv, ServerFormed, Tells
<1>7. /\ ghost' \in [Icons -> [shown : Nat, doubt : BOOLEAN]]
      /\ \A i \in Icons : /\ ghost'[i].shown = ghost[i].shown
                          /\ ~ghost'[i].doubt => ~ghost[i].doubt /\ (i = icon => calls[k].alone)
    <2> DEFINE doubt == ghost[icon].doubt \/ ~calls[k].alone
               g == [ghost[icon] EXCEPT !.doubt = doubt]
    <2>1. ghost[icon] \in [shown : Nat, doubt : BOOLEAN] /\ doubt \in BOOLEAN
        BY <1>0, <1>2, RequestFormed DEF GhostFormed
    <2>2. g \in [shown : Nat, doubt : BOOLEAN]
        <3> HIDE DEF doubt
        <3> QED
            BY <2>1
    <2>3. g.shown = ghost[icon].shown
        BY <2>1
    <2>4. ~g.doubt => ~ghost[icon].doubt /\ calls[k].alone
        <3>1. g.doubt = doubt
            <4> HIDE DEF doubt
            <4> QED
                BY <2>1
        <3> HIDE DEF g
        <3> QED
            BY <3>1
    <2>5. ghost' = [ghost EXCEPT ![icon] = g]
        BY <1>1
    <2> HIDE DEF g
    <2>6. ghost' \in [Icons -> [shown : Nat, doubt : BOOLEAN]]
          /\ ghost'[icon] = g /\ \A i \in Icons : i # icon => ghost'[i] = ghost[i]
        BY <1>0, <1>2, <2>2, <2>5 DEF GhostFormed
    <2> QED
        BY <2>3, <2>4, <2>6
<1>8. GhostFormed'
    BY <1>0, <1>1, <1>7 DEF GhostFormed
<1>9. /\ calls' \in Seq(Requests)
      /\ \A j \in DOMAIN calls' : Skip(j, k) \in DOMAIN calls \ {k} /\ calls'[j] = calls[Skip(j, k)]
      /\ \A i, j \in DOMAIN calls' : Skip(i, k) = Skip(j, k) => i = j
      /\ \A j \in DOMAIN calls : j # k => \E i \in DOMAIN calls' : Skip(i, k) = j
    BY <1>0, <1>1, TakenRequests
<1>10. (\A j \in DOMAIN calls : AnswerTells(calls[j].answer))'
    <2> SUFFICES ASSUME NEW j \in DOMAIN calls' PROVE AnswerTells(calls[j].answer)'
        OBVIOUS
    <2>1. AnswerTells(calls[Skip(j, k)].answer) /\ calls'[j] = calls[Skip(j, k)]
        BY <1>9 DEF RInv
    <2> QED
        BY <1>1, <2>1 DEF AnswerTells
<1>11. (\A i \in Icons : Sure(i) /\ Untouched(i) => Like(Displayed(store)[i], users[i]))'
    <2> SUFFICES ASSUME NEW i \in Icons, Sure(i)', Untouched(i)'
                 PROVE  Like(Displayed(store')[i], users'[i])
        OBVIOUS
    <2>1. Sure(i) /\ (i = icon => calls[k].alone)
        BY <1>1, <1>7 DEF Sure
    <2>2. CASE i = icon
        <3>1. Like(Toggled(kind, d[icon]), users[icon])
            BY <2>1, <2>2 DEF RInv, Undoable, kind
        <3> QED
            BY <1>1, <1>3, <1>5, <2>2, <3>1
    <2>3. CASE i # icon
        <3>1. Untouched(i)
            <4> SUFFICES ASSUME NEW j \in DOMAIN calls PROVE calls[j].icon # i
                BY DEF Untouched
            <4>1. CASE j = k
                BY <2>3, <4>1
            <4>2. CASE j # k
                <5>1. PICK n \in DOMAIN calls' : Skip(n, k) = j
                    BY <1>9, <4>2
                <5> QED
                    BY <1>9, <5>1 DEF Untouched
            <4> QED
                BY <4>1, <4>2
        <3> QED
            BY <1>1, <1>3, <1>5, <2>1, <2>3, <3>1 DEF RInv
    <2> QED
        BY <2>2, <2>3
<1>12. (\A j \in DOMAIN calls : Undoable(j))'
    <2> SUFFICES ASSUME NEW j \in DOMAIN calls', calls'[j].alone PROVE Undoable(j)'
        BY DEF Undoable
    <2>1. PICK n \in DOMAIN calls : n = Skip(j, k) /\ n # k /\ calls'[j] = calls[n]
        BY <1>9
    <2>2. calls[n].icon \in Icons /\ calls[n].alone /\ Undoable(n)
        BY <1>0, <2>1, RequestFormed DEF RInv
    <2>3. \A i \in DOMAIN calls : calls[i].icon = calls[n].icon => i = n
        BY <2>2 DEF Undoable
    <2>4. calls[n].icon # icon
        BY <2>1, <2>3
    <2>5. \A i \in DOMAIN calls' : calls'[i].icon = calls'[j].icon => i = j
        BY <1>9, <2>1, <2>3
    <2>6. \A i \in Icons : Sure(i)' => Sure(i)
        BY <1>1, <1>7 DEF Sure
    <2>7. Displayed(store')[calls[n].icon] = Displayed(store)[calls[n].icon]
        BY <1>3, <1>5, <2>2, <2>4
    <2> QED
        BY <1>1, <2>1, <2>2, <2>5, <2>6, <2>7 DEF Undoable, Sure
<1> QED
    BY <1>5, <1>6, <1>8, <1>9, <1>10, <1>11, <1>12 DEF RInv

(* The first click since the last answer or message can be undone.         *)
LEMMA ClickAgrees ==
    ASSUME RInv, NEW icon \in Icons, Click(icon)
    PROVE  RInv'
<1>0. ServerFormed /\ GhostFormed /\ ScreenFormed /\ calls \in Seq(Requests)
    BY DEF RInv
<1> DEFINE d == Displayed(store)
           e == store.error
<1>1. PICK kind : kind = IF d[icon] # NoSummary /\ d[icon].self THEN "remove" ELSE "add"
    OBVIOUS
<1> DEFINE after == [d EXCEPT ![icon] = Toggled(kind, @)]
           old == NotAlone(calls, icon)
           call == [kind |-> kind, icon |-> icon, answer |-> Pending,
                    alone |-> \A j \in DOMAIN calls : calls[j].icon # icon]
<1>2. /\ UNCHANGED <<users, clock, changed, wire, ghost>>
      /\ store' = OptimisticReaction(store, 1, icon, kind)
      /\ calls' = Append(old, call)
    BY <1>1 DEF Click, Render, server, NotAlone
<1>3. d \in Displays /\ store = Screen(d, e) /\ d[icon] \in {NoSummary} \union Counts
    BY <1>0 DEF ScreenFormed, Displays
<1>4. after \in Displays /\ after[icon] = Toggled(kind, d[icon])
      /\ \A i \in Icons : i # icon => after[i] = d[i]
    <2>1. Toggled(kind, d[icon]) \in {NoSummary} \union Counts
        BY <1>3, ToggledFormed
    <2> QED
        BY <1>3, <2>1 DEF Displays
<1>5. store' = Screen(after, e)
    BY <1>2, <1>3, OptimisticScreen
<1> HIDE DEF after
<1>6. ScreenFormed' /\ Displayed(store') = after
    BY <1>4, <1>5, ScreenAfter
<1>7. ServerFormed' /\ GhostFormed' /\ (\A m \in wire : Tells(m))'
    BY <1>2 DEF RInv, ServerFormed, GhostFormed, Tells
<1>8. /\ old \in Seq(Requests) /\ DOMAIN old = DOMAIN calls
      /\ \A j \in DOMAIN calls : /\ old[j].icon = calls[j].icon /\ old[j].kind = calls[j].kind
                                 /\ old[j].answer = calls[j].answer
                                 /\ calls[j].icon = icon => old[j].alone = FALSE
                                 /\ calls[j].icon # icon => old[j].alone = calls[j].alone
    BY <1>0, NotAloneRequests
<1>9. /\ call \in Requests /\ call.icon = icon /\ call.kind = kind /\ call.answer = Pending
      /\ call.alone => Untouched(icon)
    <2>1. kind \in {"add", "remove"} /\ Pending \in Answers
        BY <1>1 DEF Answers
    <2> QED
        BY <2>1 DEF Requests, Untouched
<1> DEFINE n == Len(calls) + 1
<1> HIDE DEF old, call
<1>10. /\ calls' \in Seq(Requests) /\ DOMAIN calls' = DOMAIN calls \union {n}
       /\ n \notin DOMAIN calls /\ calls'[n] = call
       /\ \A j \in DOMAIN calls : calls'[j] = old[j]
    <2>1. Len(calls) \in Nat /\ DOMAIN calls = 1 .. Len(calls) /\ Len(old) \in Nat
          /\ DOMAIN old = 1 .. Len(old)
        BY <1>0, <1>8, LenProperties
    <2>2. Len(old) = Len(calls)
        BY <1>8, <2>1
    <2> QED
        BY <1>2, <1>8, <1>9, <2>1, <2>2, AppendProperties
<1> HIDE DEF n
<1>11. (\A j \in DOMAIN calls : AnswerTells(calls[j].answer))'
    <2> SUFFICES ASSUME NEW j \in DOMAIN calls' PROVE AnswerTells(calls[j].answer)'
        OBVIOUS
    <2>1. CASE j = n
        BY <1>9, <1>10, <2>1 DEF AnswerTells
    <2>2. CASE j \in DOMAIN calls
        <3>1. AnswerTells(calls[j].answer) /\ calls'[j].answer = calls[j].answer
            BY <1>8, <1>10, <2>2 DEF RInv
        <3> QED
            BY <1>2, <3>1 DEF AnswerTells
    <2> QED
        BY <1>10, <2>1, <2>2
<1>12. (\A i \in Icons : Sure(i) /\ Untouched(i) => Like(Displayed(store)[i], users[i]))'
    <2> SUFFICES ASSUME NEW i \in Icons, Sure(i)', Untouched(i)'
                 PROVE  Like(Displayed(store')[i], users'[i])
        OBVIOUS
    <2>1. i # icon /\ Untouched(i)
        BY <1>8, <1>9, <1>10 DEF Untouched
    <2>2. Sure(i)
        BY <1>2 DEF Sure
    <2> QED
        BY <1>2, <1>4, <1>6, <2>1, <2>2 DEF RInv
<1>13. (\A j \in DOMAIN calls : Undoable(j))'
    <2> SUFFICES ASSUME NEW j \in DOMAIN calls', calls'[j].alone PROVE Undoable(j)'
        BY DEF Undoable
    <2>1. CASE j = n
        <3>1. Untouched(icon) /\ calls'[j] = call
            BY <1>9, <1>10, <2>1
        <3>2. \A i \in DOMAIN calls' : calls'[i].icon = calls'[j].icon => i = j
            BY <1>8, <1>9, <1>10, <2>1, <3>1 DEF Untouched
        <3>3. ASSUME Sure(icon)'
              PROVE  Like(Toggled(Opposite(kind), after[icon]), users[icon])
            <4>1. Sure(icon)
                BY <1>2, <3>3 DEF Sure
            <4>2. Like(d[icon], users[icon]) /\ users[icon] \in Seq(Users)
                BY <3>1, <4>1 DEF RInv, ServerFormed
            <4> QED
                BY <1>1, <1>3, <1>4, <4>2, ToggledBack
        <3> QED
            BY <1>2, <1>6, <1>9, <3>1, <3>2, <3>3 DEF Undoable
    <2>2. CASE j \in DOMAIN calls
        <3>1. calls[j].icon # icon /\ calls[j].alone /\ calls[j].icon \in Icons /\ Undoable(j)
            BY <1>0, <1>8, <1>10, <2>2, RequestFormed DEF RInv
        <3>2. calls'[j].icon = calls[j].icon /\ calls'[j].kind = calls[j].kind
            BY <1>8, <1>10, <2>2
        <3>3. \A i \in DOMAIN calls' : calls'[i].icon = calls'[j].icon => i = j
            BY <1>8, <1>9, <1>10, <3>1, <3>2 DEF Undoable
        <3>4. Sure(calls[j].icon)' => Sure(calls[j].icon)
            BY <1>2, <3>2 DEF Sure
        <3>5. Displayed(store')[calls[j].icon] = Displayed(store)[calls[j].icon]
            BY <1>4, <1>6, <3>1
        <3> QED
            BY <1>2, <3>1, <3>2, <3>3, <3>4, <3>5 DEF Undoable, Sure
    <2> QED
        BY <1>10, <2>1, <2>2
<1> QED
    BY <1>6, <1>7, <1>10, <1>11, <1>12, <1>13 DEF RInv

(* Tooltips have nothing to do with it.                                    *)
LEMMA RestAgrees ==
    ASSUME RInv, UNCHANGED <<store, users, clock, changed, calls, wire, ghost>>
    PROVE  RInv'
<1>1. /\ ServerFormed' /\ clock' >= clock /\ \A i \in Icons : Moved(i)
      /\ (\A m \in wire : Tells(m))' /\ calls \in Seq(Requests)
    BY DEF RInv, ServerFormed, Moved, Tells
<1> QED
    BY <1>1, ServerAgrees

LEMMA AgreedInitially == Init => RInv
<1> SUFFICES ASSUME Init PROVE RInv
    OBVIOUS
<1>1. PICK s \in Scenarios :
          /\ users = s.users
          /\ store = [InitialState EXCEPT
                        !.events = <<[id |-> 1, reactions |-> Summaries(s.users)]>>]
    BY DEF Init
<1>2. /\ clock = 0 /\ changed = [i \in Icons |-> 0] /\ calls = << >> /\ wire = {}
      /\ ghost = [i \in Icons |-> [shown |-> 0, doubt |-> FALSE]]
    BY DEF Init
<1>3. users \in [Icons -> Seq(Users)]
    BY <1>1, ScenariosAssumption
<1>4. ServerFormed /\ GhostFormed /\ calls \in Seq(Requests) /\ DOMAIN calls = {}
    BY <1>2, <1>3 DEF ServerFormed, GhostFormed
<1>5. \A i \in Icons : /\ Summaries(users)[i] \in {NoSummary} \union Counts
                       /\ Like(Summaries(users)[i], users[i])
    BY <1>3, SummaryFormed DEF Summaries
<1>6. Summaries(users) \in Displays
    BY <1>5 DEF Summaries, Displays
<1>7. store = Screen(Summaries(users), NoError)
    <2> DEFINE events == <<[id |-> 1, reactions |-> Summaries(users)]>>
    <2>1. store = [InitialState EXCEPT !.events = events]
        BY <1>1
    <2>2. Screen(Summaries(users), NoError) = [InitialState EXCEPT !.events = events, !.error = NoError]
        BY DEF Screen
    <2> HIDE DEF events
    <2>3. [InitialState EXCEPT !.events = events, !.error = NoError]
            = [InitialState EXCEPT !.events = events]
        <3> DEFINE I == InitialState
                   one == [I EXCEPT !.events = events]
                   two == [I EXCEPT !.events = events, !.error = NoError]
        <3>1. I.error = NoError
            BY DEF InitialState
        <3> HIDE DEF I
        <3>2. /\ DOMAIN one = DOMAIN I /\ one = [x \in DOMAIN one |-> one[x]]
              /\ DOMAIN two = DOMAIN I /\ two = [x \in DOMAIN two |-> two[x]]
              /\ \A x \in DOMAIN I : one[x] = two[x]
            BY <3>1
        <3> HIDE DEF one, two
        <3>3. one = [x \in DOMAIN I |-> one[x]] /\ two = [x \in DOMAIN I |-> one[x]]
            BY <3>2
        <3>4. two = one
            BY <3>3
        <3> QED
            BY <3>4 DEF one, two, I
    <2> QED
        BY <2>1, <2>2, <2>3
<1>8. ScreenFormed /\ Displayed(store) = Summaries(users)
    <2>1. Displayed(store) = Summaries(users) /\ store.error = NoError
        BY <1>7, ScreenFields
    <2> QED
        BY <1>6, <1>7, <2>1 DEF ScreenFormed
<1>9. \A i \in Icons : Like(Displayed(store)[i], users[i])
    BY <1>5, <1>8
<1> QED
    BY <1>2, <1>4, <1>8, <1>9 DEF RInv

LEMMA AgreementKept == RInv /\ [Next]_vars => RInv'
<1> SUFFICES ASSUME RInv, [Next]_vars PROVE RInv'
    OBVIOUS
<1>1. ASSUME NEW i \in Icons, Hover(i) \/ Expire(i) PROVE RInv'
    BY <1>1, RestAgrees DEF Hover, Expire, server
<1>2. ASSUME NEW f \in fetches, HandleFetch(f) \/ Fetched(f) PROVE RInv'
    BY <1>2, RestAgrees DEF HandleFetch, Fetched, server
<1>3. CASE UNCHANGED vars
    BY <1>3, RestAgrees DEF vars
<1> QED
    BY <1>1, <1>2, <1>3, ClickAgrees, ActAgrees, HandleAgrees, AnsweredAgrees, RolledBackAgrees,
       DeliverAgrees, FailAgrees DEF Next

(* When nothing is on its way, the count of a pill and whether it is the   *)
(* user's own are the server's, unless nobody told of its last change, or  *)
(* after the last news an older answer or message came, or a failed click  *)
(* was undone although another click on the icon, or any news of it, had   *)
(* come while its request was on its way (actions.ts, reducer.ts           *)
(* OPTIMISTIC_REACTION).                                                   *)
THEOREM SettledAgrees == Spec => []SettledAgreesWithServer
<1>1. RInv => SettledAgreesWithServer
    <2> SUFFICES ASSUME RInv, NEW i \in Icons, Settled, ~ghost[i].doubt,
                        ghost[i].shown >= changed[i]
                 PROVE  Agrees(i)
        BY DEF SettledAgreesWithServer
    <2>1. Sure(i) /\ Untouched(i)
        BY DEF Sure, Untouched, Settled
    <2>2. Like(Displayed(store)[i], users[i])
        BY <2>1 DEF RInv
    <2> QED
        BY <2>2 DEF Agrees, Like
<1> QED
    BY AgreedInitially, AgreementKept, <1>1, PTL DEF Spec
=============================================================================
