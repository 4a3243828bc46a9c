# Verification of the Mattermost Timeline plugin

TLA+ modules, TLC configurations and TLAPS proofs about the plugin in this
repository: a Go server (`server/`) that stores timeline events it receives from
webhooks in the plugin KV store, and a React client (`webapp/`) that shows them,
counts the unread ones and lets users react.

Line numbers refer to `server/store.go` unless a file is named.

## 1. The system

| component | state | operations | what is hard |
|---|---|---|---|
| index keys (`mutateIndex`, 487-585) | one JSON list of event IDs per key | insert at the front, insert and truncate, remove | read / compare-and-set loop with 3 attempts, shared by every request on every node |
| event store (`AddEvent`, `UpdateEvent`, `pruneEvents`, 317-462, 587-610; `storeWebhookEvent`, api.go:353-397) | `event:<id>`, `ext_id:<team>:<ext>`, `event_index:<team>`, `event_index:<team>:<channel>`, `event_index:<team>:_global` | create, update by external ID, prune | up to a dozen KV calls per request without a lock or transaction; any of them may fail, and the node may die between two |
| event record (reactions_store.go, reactions_api.go) | one `event:<id>` | add / remove a reaction, update, prune | reactions compare and set, updates set blindly |
| read state (82-315; api.go:600-757) | `read_state:<user>:<team>`: a baseline per context, the seen events | first look, report unread, mark read | several tabs; events stamped in one order and stored in another; the map is truncated |
| feed reads (channel_store.go) | none | load, merge, sort, page | reads index and events one by one |
| webhook endpoint (api.go, webhook_auth.go, webhook_batch.go, webhook_validation.go, custom_fields.go) | replay records with an expiry | authenticate, validate, store, publish; batches | a signature is recorded before the event is stored; batches stop half-way |
| configuration and admin API (configuration.go, admin_api.go) | the active configuration, the saved one, the store's limit | clone, save, set; `OnConfigurationChange` | two writers, read-modify-write of the whole configuration |
| event filters (event_filter.go) | none | status, category, unread, time filters | an unread filter reads the read state |
| client store (webapp/src/actions.ts, reducer.ts, selectors.ts, index.tsx) | events, total, new / updated flags, unread IDs per context, the viewed context, loading, error, websocket revision | fetch, load more, refresh unread, mark read, react optimistically, websocket messages, hydrate a popout | responses and messages arrive in any order |
| client view (components/rhs_view.tsx, timeline_*.ts, icon.tsx) | filters; refs: what was fetched, what was marked | effects that fetch, abort, clear and mark; load more | effects that run after the context has changed |
| client reactions (components/reaction_bar.tsx, reaction_pill.tsx) | per pill a tooltip with a request sequence and a cache | toggle, hover, expire | optimistic change and rollback; late answers |
| admin page (components/admin_settings.tsx, admin_client.ts) | a token editor: rows, dirty, loading / saving, errors | load, edit, save | a save replaces the whole list, whose secrets the page never sees |

Components talk to each other through the KV store (all of the server's parts), HTTP
(client to server, webhooks), websocket broadcasts (server to client) and the
configuration callback of Mattermost. The server holds no mutex around KV calls;
every HTTP request runs in a goroutine of its own, and a Mattermost cluster runs the
plugin on several nodes. So the models let the KV calls of all requests interleave
in every order. The client is single-threaded: a dispatch, a handler or the effects
after one render are one step, and what separates steps is an `await`, a render or a message.

What makes each part right:

* **index keys** - concurrent changes are atomic: none is lost, no ID is listed
  twice, and an insertion that truncates hands exactly what it dropped to its caller.
* **event store** - one external ID, one event; what is retained is stored and listed
  in its scopes; what is dropped leaves nothing behind, or a line in the log; sizes are bounded.
* **event record** - a user counts once, no reaction is lost, a pruned event does not
  come back, clients are told.
* **read state** - baselines are set once, what was marked stays read, nothing
  becomes read by itself.
* **client feed** - each event at most once, no answer for a context that was left, in the
  end what the server has; what is viewed gets read; loading ends.
* **client reactions** - once nothing is on its way the pills are the server's, in the
  schedules where the optimistic change and its rollback can give that; a tooltip is never older
  than its last request.
* **tokens** - a save drops no token its administrator was not shown, changes no secret nobody
  meant to change, and overwrites no draft.

## 2. Modules

| module | models | about |
|---|---|---|
| `Sublists` | `filter` and the filtering loops | the elements of a list at some positions |
| `IndexOps` | 528-585 | the pure mutations of an index |
| `IndexMutation` | 487-526 | callers of the compare-and-set loop, one step per KV call |
| `AtomicIndex` | | what callers rely on: each call is one step or fails |
| `EventStore` | 317-462, 534-610, api.go:353-397 | webhook requests on the keys of one team |
| `EventRecord` | reactions_store.go, reactions_api.go, 346-354 | one event key under reactions, updates and pruning |
| `ReadStateOps` | 27-31, 93-112, 209-276 | the pure part of the read state |
| `ReadState` | 141-242, api.go:573-757, channel_store.go | a user's requests while the feed changes |
| `ReadPaging` | | `ReadState` with a history variable: what "load more" had returned when a request was made |
| `AtomicReadState` | | each request on the read state is one step or fails |
| `FeedState` | reducer.ts, selectors.ts | the Redux state of the client: one operator per action |
| `TimelineClient` | actions.ts, index.tsx, rhs_view.tsx, timeline_*.ts, icon.tsx; channel_store.go and api.go as one step per request | the sidebar and badge of one user, the requests and messages, the server behind them |
| `ClientReactions` | actions.ts:544-640, reaction_pill.tsx, reaction_bar.tsx, reactions_api.go | the reactions of one listed event in one client, while others react |
| `WebhookTokens` | admin_settings.tsx, admin_client.ts, admin_api.go, configuration.go | token editors of several administrators and the configuration they save |
| `MC...` | | the instances TLC checks |
| `DataLemmas` | | least number, induction up to a bound, sublists, ranks in a finite set |
| `...Proofs` | | theorems |

An operator whose comment starts with "Mutated:" is a deliberately broken variant of
the operator below it. It is used by nothing; PROJECT.json names, for each property,
a variant that makes TLC find the property violated.

**IndexMutation.** `Get` is the `KVGet` with the mutation computed from it,
`CompareAndSet` and `Conflict` the two outcomes of `KVCompareAndSet`, `KVError` an
error of either. A key may hold nothing (`Absent`) or what does not decode
(`Corrupt`): insertions start over, removals stop. The limit is read inside the
mutation and may change at any time (`SetMaxEvents`).

**EventStore.** `pc[r]` follows `storeWebhookEvent`: `lookup` → `get` → `rewrite` →
`sync` → `updated` for an external ID that is mapped, `claim` → `store` → `list` →
(`prune` ⇄ `unlist`) → `created` otherwise, with `unclaim`, `conflict`, `forbidden`
and `error`. Every KV call is one step; a whole `mutateIndex` call is one too, which is what
`IndexMutationProofs!Refinement` allows: it changes the index once or fails. It may fail at any
time (`IndexFails`, `UnlistFails`), whether or not KV calls do, because three compare-and-sets
lost to others are enough (525). The other faults are errors of single KV calls
(`RequestFails`, `StoreFails`, `PruneGetFails`, `DeleteFails`). `warned` are the events for
which `pruneEvents` has logged a failure (591-599); like `Updated`, which says that another
delivery has found the event by its external ID, only properties read it. Events keep their external ID and their
channels. The channel list is a set, so `Leave`, `Join` and `Unlist` visit its
keys in any order: every order a list could have. `Die` stops a request between any
two steps.

**EventRecord.** `Get`, `CompareAndSet` and `Conflict` are `mutateReaction`, `Read` and
`Set` an update, `Delete` a pruning, `Publish` the broadcast. A record keeps who wrote
its text, its links and the users of one icon; other icons are independent of it.

**ReadState.** `Stamp` takes the time of an event (`newWebhookEvent`,
`applyWebhookUpdate`), `Store` stores it later, in any order; `Load`, `Look`, `Read`,
`CompareAndSet`, `Conflict` are the steps of `handleGetEvents` and
`handleMarkEventsRead`. An update stored after its event was pruned brings the event
back, unlisted, as `UpdateEvent` does. Loading a feed is one step here, and an event stays in its
scope; the KV calls of the writers are EventStore's subject.

**FeedState and TimelineClient.** `FeedState` has the reducer; `TimelineClient` extends it and
composes it with the views and a server. A request (`calls`) is `Pending`, then answered by
`Serve` or `Failed`, then received; answers come in any order, and so do websocket messages
(`wire`). `Effects` are the effects of the sidebar after one render, in their order, all with
what that render saw: remember the view, abort and fetch, mark read. `Deps` is the dependency
list of the fetch effect, `Signature` the one read tracking compares. The server is abstract:
`feed` and `unread` change in single steps (`Publish`, `Update`, `Serve`); how requests
interleave there is EventStore's and ReadState's subject, and `FeedFor` and `Page` say
what they return: the events that fit a context (`Fits`) and a filter (`Matches`), for a channel by time, for the
team in the order of its index, which updates leave as it is (`NewestFirst`). An event carries what the views tell apart: its scope, a version and the look
that decides whether it is rendered among the active ones.

**ClientReactions.** `Click` is the first half of `addReaction` or `removeReaction`,
`Answered` and `RolledBack` the second; `Handle` and `Act` are the server, `Deliver` the
websocket handler. A pill that disappears and comes back is another component
(`number`), which is what `mountedRef` tells apart.

**WebhookTokens.** One editor per page: `EditorStates` is the state of `tokenEditorReducer`
with `savingRef` and the value the page was given. The handler of a save is three steps,
`Prepare` (clone, keep secrets, validate), `SaveConfig`, `SetConfiguration`, and
`OnConfigurationChange` two, so that they interleave with each other, with other saves
and with the page's own Save (`SaveOtherSettings`). A token's team, channels and signature flag
go the way of `enabled` and stand behind it. One `OnConfigurationChange` runs at a time. A page
that got its value from the console earlier is a page opened then. Stored tokens always parse,
as those a save stores do: with a list spoiled by hand both handlers only answer
`invalid_token_config` (admin_api.go:39-43, 72-77).

**Ghosts.** `ghost` in the client modules, `warned` in `EventStore`, `shown` in `ReadPaging`,
and `seen`, `at`, `blind`, `typed` and `version` in `WebhookTokens`, record history for the
properties and are read by no guard. They name
the schedules in which the code does lose something, so that a property says exactly where it
does not: `behind` (an older answer or message replaced newer events), `shifted` (a page
of Load more was appended to a list it does not continue), `pushed` (events the websocket
brought since the last answer), `miscounted` (an answer or message older than what was
marked counted it again, or marking failed), `doubt` (an older reaction state came last, or a failed click was undone although another
click on the icon, or any answer or message about it, even a fresh one, had come while its request
was on its way: what `actions.ts:561-568` toggles back is not there any more then), `blind`
(loading the tokens failed).

## 3. Runs

| run | checks | bounds |
|---|---|---|
| `index` | `TypeOK`, `NoDuplicates`, `PrunedLeftTheIndex`, `LosesOnlyToChanges`, `ImplementsAtomicIndex` | 3 callers, 4 IDs, limits 1 and 2, 2 attempts, KV errors |
| `store_adds` | `ListedIsStored`, `SettledIsConsistent`, `EveryRequestAnswered` | 3 new events, 2 channels, limits 1 and 2, KV errors, lost indexes, nodes die |
| `store_faults` | `TypeOK`, `StoredIsMapped`, `CreatedOnce`, `RetentionBounded`, `RetainedIsVisible`, `MappingKept` | 3 requests, 1 external ID, 2 channels, limits 1 and 2, KV errors, lost indexes, nodes die |
| `record` | `TypeOK`, `NoUserTwice`, `NoLostReaction`, `EveryChangeIsPublished`, `RejectedOnlyUnderContention`, `OnlyUpdatesRewrite`, `EveryRequestAnswered` | 3 requests of 6 kinds, 2 attempts, KV errors |
| `read` | `TypeOK`, `OnlyRequestedAreSeen`, `MarkedStaysSeen`, `BaselineKept`, `ImplementsAtomicReadState` | 2 requests of 5 kinds or 3 that mark every event, 2 contexts, 3 events, limit 1 (the seen map keeps 2), 2 attempts, KV errors |
| `client` | `TypeOK`, `ListedOnce`, `NoForeignAnswer`, `SettledListIsCurrent`, `FilteredListIsExact`, `ViewedGetsRead`, `LoadingEnds` | 3 contexts of a team, 2 to 3 events, pages of 1, 10 scenarios |
| `reactions` | `SettledAgreesWithServer`, `TooltipFromNewestRequest` | 4 users, 2 icons, 4 scenarios |
| `admin` | `SavesWhatIsShown`, `UnseenTokensSurvive`, `UntypedSecretsSurvive`, `RequestsEnd` | 2 pages, 2 names, 3 secrets, 3 scenarios |
| `store_pruned_id` | `LaterWebhookAccepted` is **violated** | |
| `record_reaction` | `ReactionSurvives` is **violated** | |
| `read_second_page` | `ReturnedAreMarked` is **violated** | |
| `reactions_last` | `LastReactionLeaves` is **violated** | |

The bounds. Three concurrent requests are the fewest in which one creates an event, one
prunes it and one follows its mapping, and in which a caller with two attempts
loses both. The code makes 3 attempts (`maxIndexMutationRetries`,
`maxReactionRetries`); `MaxRetries` is 2 in the runs, so that three requests exhaust it
(the pairs of requests in `read` retry but do not exhaust it, its three marks do). Limits 1 and 2
with three events make every insertion prune, and lowering the limit drops two at once.
`MCReadState` restricts `read` to two mixes of requests, which keep it small (`MCSpec`): any two of
five kinds race for the baselines and the state while a third request never comes, or three
requests name every event. At limit 1 two entries fit the seen map, so the third mark
pushes one out, while an older page may still be to be marked. `MaxClock` bounds the timestamps (2 or 3:
before and after a baseline, and an update), `MaxInFlight` the events stamped and not yet
stored (1: events are stored in the order of their stamps while the requests race; two overlapping
ones are in reach of the theorem only). Requests are symmetric; the runs without liveness properties use that.

The client and admin modules have `Scenarios` instead of one bound per operation: a scenario
says where a behaviour starts and how often each operation of a user, a webhook, an
administrator or the network may happen in it, while what follows by itself (effects, answers,
messages) is unbounded. Each scenario is aimed at a race: switching channels while an answer
is on its way, two updates whose messages pass each other, filters changed back and forth
while an event changes, a failure of any request, closing and reopening, an event published
between two pages, a popout hydrated late, by a parent that is
loading itself, or without a team; clicks that cross another user's,
tooltips asked again and of pills that come back; one administrator doing everything, an editor remounted
by the page, two administrators and the page's own Save. Pages of one event make every list longer
than a page; an event on a second page is the smallest that can be skipped or repeated. Four
users are the fewest with one outside the three recent ones.

What `violation` runs show:

* `store_pruned_id`. README.md:132 promises that a later webhook with the same
  `external_id` updates the item. Pruning deletes the event and not the mapping
  (587-601), so after the item was pruned each later delivery is answered 500
  (api.go:367-369).
* `record_reaction`. `UpdateEvent` sets the copy read before (352): a reaction that
  was stored in between with `KVCompareAndSet`, as reactions_store.go:10 says, is lost.
* `read_second_page`. README.md:101 says the returned visible events are marked read;
  `handleMarkEventsRead` looks for the IDs in the first `maxEventsDisplayed` events
  only (api.go:725). In the run "load more" reports an event as unread, a mark sent after
  that names it and is answered 200, and the event is still unread.
* `reactions_last`. The reducer removes a pill when told that its count is 0
  (reducer.ts:114), and `handleRemoveReaction` publishes the last removal. But its list of
  users is a nil slice then (reactions_api.go:46), which JSON makes `null`, and
  `isReactionUpdatedPayload` (actions.ts:268) accepts lists only: the message is dropped, and other clients
  keep showing a reaction nobody has.

Other losses the models contain, which the invariants exclude by name rather than
deny: an update that races the pruning of its event stores it again or leaves its ID in
a scope index, where it makes every page that holds it fail (`RetentionBounded`
counts it, the properties about scope indexes exclude updated events, `Updated`); a pruning that
cannot take its event out of a scope index, by a KV error or because others changed the index
each time, logs that and deletes the event, whose ID stays listed (`warned`); an insertion that
fails after its `KVSet` leaves the event behind, listed in some scopes and never pruned, which
`SettledIsConsistent` states; two updates that move an
event from the same old channels leave it listed in both; two updates lose each
other's links; an event stamped before the first look and stored after it is not
unread; an event whose node dies after the claim keeps its external ID blocked. In the client: an
answer asked for before an update was delivered replaces it (`behind`); a page of Load more
has no signal, so it is appended to whatever is listed when it comes, the feed of another
channel included (`shifted`); new events of other channels of the user are prepended to the
list that is viewed (`pushed`; reducer.ts:97), although README.md:109 says they show in
their channels only; a message about a new event that is listed already is dropped
(reducer.ts:406-420), so that an answer asked for before that event was published, coming
after the one that listed it, takes it off a filtered list, and nothing brings it back
(`behind`); marking that fails is not repeated while the list stays the same
(`miscounted`); a popout without a team may load for ever, and so may one with a team whose
parent was loading when it handed its state over, if the popout's own request had ended
(`HandedLoading`; index.tsx:128-138, reducer.ts:189), and while it does it marks nothing; a click
that fails is undone by toggling, whatever the icon shows by then (`doubt`). On the settings page: when
loading fails, the empty editor may be used, and a save from it replaces all tokens
(`blind`); a save overwrites what was saved since its list was read, as PUT of a whole list does: tokens
added since then, and secrets the page was given and sends back; and the handler works on the
active configuration, so that what was stored after it took its clone, or before and was not active
yet, is overwritten too: tokens, and the other settings that README.md:421 gives a button of their
own (`r.base.version = stored.version`; admin_api.go:71-93).

## 4. Fairness

`Spec` of `EventStore` and `EventRecord` has weak fairness on the regular steps of each
request, and on nothing else, in particular not on errors, so that a request must
answer without one: a request runs in its own goroutine, holds no lock, waits for no
other and every loop in it is bounded, so it is scheduled until it answers, unless its
node dies (`Die` is never fair, and `EveryRequestAnswered` allows `lost`). Conflicts are
not assumed to end; that is why bounded attempts matter.

`TimelineClient` has weak fairness on what a browser and a server do by themselves: effects
run after a render (`Effects`, `RefreshUnread`), the server handles some pending request, some answer is
received, some message is delivered. Nobody has to select, open, click, publish or update,
and no request has to fail. `WebhookTokens` has weak fairness on the
steps of requests a page waits for, in the server and in the browser. `ReadState`,
`IndexMutation` and `ClientReactions` check safety only; that clicks settle is the
same fairness again.

## 5. Proofs

All for any sets of requests, IDs, channels and users, any limit, any number of
attempts, and KV errors or not; the assumptions are the named `ASSUME`s on constants
(where a proof counts requests or callers, they are finitely many), which TLC evaluates in
every run.

* `IndexMutationProofs`: the retry loop implements `AtomicIndex` (`Refinement`). The
  induction needs (`IInv`) that a caller at `cas` holds what its mutation makes of
  its snapshot for some limit, so that a compare-and-set that succeeds is the abstract
  step. `LosesOnlyToChanges` is proved by counting: a caller whose snapshot is out of
  date has one changer more than lost attempts (`CInv`), for any finite set of callers.
  Type correctness, `NoDuplicates` and `PrunedLeftTheIndex` rest on what the mutations make
  of a list (`PrependUniqueProperties` and the lemmas after it): each hands out a list
  without duplicates, whose dropped part is what it reports.
* `EventStoreProofs`: type correctness; `StoredIsMapped` with its corollaries (no two
  stored events with one external ID, one `201` per external ID); `MappingKept`.
  `StoredIsMapped` is not inductive: a claimed
  mapping must point to its claimer as long as the claimer holds it (`ClaimInv`), and the
  copy an update is about to set back must still be the event of its mapping
  (`RewriteInv`), since `Rewrite` may re-create a pruned event. `RetentionBounded` is
  counted: an insertion cuts the index off at the limit it read, an update adds at most
  one ID and is then `updated` for good. The module also proves `RetainedIsVisible`, `ListedIsStored` and
  `SettledIsConsistent`, with every fault: KV errors, indexes lost to contention, dying nodes.
  The invariant `VisibleInv` follows an event through its own
  request: it is listed nowhere before it is stored, is retained once, when it is listed
  everywhere, and whoever prunes it has taken it out of the retention index; nothing is
  claimed of an event that another request updates. `SettleInv` adds, of events whose pruning is
  not in the log, that they are unlisted before they are deleted, and that a stored event is being
  listed, is retained or is to be pruned, unless its request failed or died.
* `EventRecordProofs`: type correctness, `NoUserTwice`, `NoLostReaction`,
  `OnlyUpdatesRewrite`. The inductive invariant `RecordInv` says that every copy under
  way has no repeated user, because removal drops one occurrence only.
  `EveryChangeIsPublished` needs that the users of the record are published, or will be by
  a request that has yet to (`WillBePublished`); `RejectedOnlyUnderContention` is counted as in
  `IndexMutation` (`CountInv`), for any finite set of requests.
* `ReadStateProofs`: type correctness, `OnlyRequestedAreSeen`, `BaselineKept`, and that the
  requests implement `AtomicReadState` (`Refinement`); `MarkedStaysSeen`, from a count of what
  pruning keeps: an entry leaves the map only when as many newer ones stay as its bound. `IInv` says that what a request is
  about to write is what it wants, by some limit, of the state it read (`Pending`), so that a
  compare-and-set that succeeds is the abstract step and changes no baseline; and that a
  "mark read" with IDs has nothing else on its page (`Asked`).
* `WebhookTokensProofs`: type correctness, `SavesWhatIsShown`, `UnseenTokensSurvive`,
  `UntypedSecretsSurvive`, for any number of pages, names, secrets and saves. The action
  properties are about one `SaveConfig`, but depend on where its rows came from: `IInv`
  adds that stored names are distinct, that a copy of the configuration is older or has the
  same tokens (`Behind`), that what a handler cloned fits what it will save
  (`Fit`), that whoever was given the newest list saw every name in it (`Knows`, `Informed`),
  and that a secret in such a list which nobody typed is the one stored for its name (`Given`),
  whatever rows were added, edited and removed in it.
* `ClientReactionsProofs`: `TooltipFromNewestRequest` and `SettledAgreesWithServer`, for any
  users, icons, clicks, messages and failures. For the first, the invariant says that no
  request is newer than its pill (`Sent`), and that an answer the pill would take was given
  after it last asked (`Recent`): that is what the sequence number and the mounted flag
  together give. For the second (`RInv`): a message or an answer as recent as the last change
  of an icon tells what the server has (`Tells`, `AnswerTells`); an icon nothing is on its
  way for is shown so if the last word was that recent (`Sure`); and if one click came
  since, undoing it shows that again (`Undoable`, by `ToggledBack`), which a second click, an
  answer or a message, however fresh, would spoil: `doubt` is set when the code undoes a click
  all the same.
* `TimelineClientProofs`: type correctness, `NoForeignAnswer`, `ListedOnce`,
  `FilteredListIsExact` and `SettledListIsCurrent`, for any contexts, events, page sizes and
  numbers of operations. The first four invariants build on each other. `TypeInv`: whatever is listed, on its way or counted is a
  published event. `ContextInv`: a request for a page is the one the fetch effect's
  dependencies ask for, so its answer is of the context they name, and the list holds what
  that answer or the websocket brought. `FetchInv`: the last page asked for has been
  answered if none is on its way and no error is shown. `ListInv(F)` speaks of
  the history of the feed, a sequence `F` of which nothing is assumed but that it ends with the feed:
  an answer is the page of the feed as of its time, the list is what the last
  answer and the older pages that continue it gave, until a message makes a filtered view ask
  again, and every change since that time is still to be told. `Steps` says once which of
  a few kinds each step of `Next` is, and the invariants are proved by kind. The unfiltered
  list needs no history but an order: `VersionInv` says that whatever is listed or on its way
  is a version, with the same reactions, of what the feed holds; `PageInv` that every event of
  a view's feed is listed as it is, will be told by a message, or has at least a page of
  events ahead of it (`OffPage`), counted by `PlaceInFeed` and never lost again, since
  events only move to the front (`AheadKept`).

The lists of the code are filtered and searched: `Sublist` is a recursive function, and what it
returns for every list is `DataLemmas!SublistEmbeds`, proved with the existence of a least
counterexample instead of an induction theorem.

Every invariant and action property a passing run checks is a theorem. Only model-checked:
liveness (`ViewedGetsRead`, `LoadingEnds`, `RequestsEnd`, `EveryRequestAnswered`), which the
prover does not do.

## 6. Not modelled

* Rendering, translations, styles, icons, scroll position, build and packaging files,
  generated manifests: no state another part depends on. JSON shape checks of the client keep
  no state either; an answer that fails one is a failed request of the models.
* The KV calls of a reader (channel_store.go): loading a page is one step in `ReadState` and
  `TimelineClient`. A reader does see mixed states, and the code gives no guarantee
  about them that a property could state.
* Replay records (webhook_auth.go): one atomic `KVSetWithOptions` per signed request
  decides; the rest is HMAC and a clock. Batches (webhook_batch.go) are independent
  requests of `EventStore`, one after the other.
* Field validation, custom fields and single filters: they concern one request and keep no state.
* On the client: the expiry of websocket connections (nothing fetches again when one comes
  back, so there is nothing to check), events pruned on the server while they are listed
  (the client is not told), the message by which a popout tells its parent what it
  marked, and the settings and user ID the reducer only stores.
* Posting a test event, and the defaults and key spellings `OnConfigurationChange` resolves.
* A KV call that reports an error (`KVSet`, `KVDelete`, `KVCompareAndSet`) is taken to have
  changed nothing.
* The refusal of more than 100 `event_ids` (api.go:718): no list of the runs is that long. Two
  versions of an event with the same millisecond timestamp, which read tracking takes for one.
