# Verification of overload-party-shop

The shop sells card packs, faction sets, cosmetics and a premium subscription
that players pay for at the App Store or at Google Play.  It verifies receipts,
records purchases and subscriptions in PostgreSQL, learns of renewals and
cancellations by webhook, and tells other services through a transactional
outbox and Pub/Sub.  This directory holds TLA+ models of that program, the TLC
configurations that check them and the TLAPS proofs about them.  Paths below are
relative to the repository's root; `internal/...` is Go code.

## Inventory

| Part | State it keeps | Operations | Model |
|---|---|---|---|
| Outbox relay (`internal/usecase/outbox`, `repository/postgres/outbox_repo.go`, `adapter/pubsub/publisher.go`, `handler/worker`) | `shop.outbox_events`; per process the claimed batch | `writeOutboxEvent` in a business transaction, `ClaimUnpublished`, `Publish`, `MarkPublished`, `RecordFailure`, ticker loop | `Outbox`, `AtLeastOnce` |
| Purchases (`internal/usecase/purchase/service.go`, the purchase repositories) | `one_time_purchases`, `*_purchase_tokens`, `player_owned_factions`, `player_owned_card_packs`, `player_items` | `Purchase` per product type | `PurchaseFlow`, `PurchaseLedger` |
| Subscriptions and webhooks (`Subscribe`, `internal/usecase/subscription`, `subscription_repo.go`, `handler/rest/*webhook*`) | `subscriptions`, `*_subscription_tokens` | `Subscribe`, `HandleNotification` for Apple and Google | `Subscription` |
| Product list (`GetProducts`, `domain/product_view.go`, the seed script) | the catalogue tables; otherwise none, it reads all tables | `GetProducts`, the three statements of the seed | `ProductList` |
| A player's premium state (`subscriptions`, and the account service that subscribes to `premium-updated`) | the rows, the events, the subscriber's copy | writes of rows with and without an event, delivery | `Premium` |
| Receipt verifiers and JWS (`adapter/apple`, `adapter/google`, `adapter/stub`) | none | `VerifyPurchase`, `VerifySubscription`, `GetSubscription`, `Verify`, decoding of notifications | `Receipts` |
| Configuration and wiring (`internal/config`, constructors) | none | `FromEnv`, `setupVerifiers`, `buildHTTPHandler`, `buildOutboxTicker` | `Startup` |
| Router, authentication, handlers' checks and answers; the client package | none | `New`, `verifyPubSubPush`, `decodeRequestBody`, `resolveErrorStatus`, the client's methods | `Http` |
| Server lifecycle (`cmd/server`, `handler/worker`) | resources to close, goroutines, requests under way | start, listen, tick, signal, shutdown, defers | `Server` |
| Fakes for consumers' tests (`packages/api-shop/apishopfake`, `apishopserverfake`) | channels, records, function fields | `Publish`, `Subscribe`, `Consume`, `Wait`, the fake routes | `Fakes` |

How they interact: the three writers commit an outbox row in the same
transaction as the business rows they change; the relay reads that table and
knows nothing else.  `Purchase` and `Subscribe` call a verifier between their
checks and their transaction.  The webhook handlers and `Subscribe` share the
subscription row and lock nothing between reading and writing it.  Several
server processes may run against one database: row locks, unique indexes and the
relay's visibility timeout are all that orders them.

What is hard, and what correctness means for each part:

* **Outbox.**  Workers die or lose an answer between publishing and marking;
  leases run out while a batch is worked through; late statements hit rows that
  others have settled; rows are given up at a threshold.  Correct means: an event
  is taken as delivered only when it was; a duplicate has a cause the design
  admits; retries are bounded; an event that is given up was reported.
* **Purchases.**  Checks run before the transaction that relies on them; several
  transactions insert the same token, faction or pack and wait for each other;
  commits are lost.  Correct means: all rows of a purchase or none; a token is
  redeemed once; the answer agrees with the database; nobody waits for ever.
* **Subscriptions.**  Notifications come late, twice, in another order, or before
  the row exists; what Google answered is old when it is written; one of two
  handlers overwrites the other.  Correct means: the row ends up as the store has
  it; what other services are told agrees with the row; nobody is given a period
  the store has not sold.

* **Product list.**  Its four kinds of queries see four states of the database,
  and the seed is three statements.  Correct means: no entry is wrong about the
  time of the call, and a complete seed never breaks the list.
* **Premium.**  The account service hears of a subscription by events only, in any
  order; a player may have several subscriptions.  Correct means: it and the
  product list say the same once it has heard everything, and nobody is premium
  without a subscription.
* **Server.**  Requests, ticker, shutdown and defers end in an order nobody tests;
  any step of the start can fail; a caller repeats what it got no answer to.
  Correct means: nothing is closed while it is used, the process ends, the next
  one sends what is left, and a result never contradicts the database.
* **Fakes.**  Channels fill up, contexts end while a goroutine is elsewhere.
  Correct means: who subscribed before gets every event once, and goroutines
  block only where the reader is to blame.

`PROJECT.json` lists every hazard with its line and the properties aimed at it.

## Modules

### Outbox part

`AtLeastOnce` is what an outbox promises, in four sets: events accepted, sent,
confirmed and given up.  It allows sending again and again; it demands that only
accepted events are sent, only sent ones confirmed, and that every accepted event
is confirmed or given up in the end.

`Outbox` has one action per SQL statement and per call to the topic:

| Action | Code |
|---|---|
| `WriteOutboxEvents`, `EndTx` | `writeOutboxEvent` inside a transaction that commits or not |
| `ClaimUnpublished(w)` | the `UPDATE ... FOR UPDATE SKIP LOCKED` of `outbox_repo.go`, by `created_at`, at most `BatchSize` |
| `PublishOk`, `PublishError` | `publisher.go` `Publish`, which may fail although the message went out |
| `MarkPublished`, `RecordFailure` | the two updates of `outbox_repo.go`, both by `event_id` alone |
| `SettleError`, `Crash` | the update fails and is logged; the process or its context ends |
| `Tick` | the database clock; ages stop counting when a lease has run out |

Ages replace timestamps, since the claim only asks whether
`last_attempted_at` is older than the timeout.  `leaseAge`, `overrun`,
`ambiguous` and `faults` are history: no guard of the code's actions reads them,
except that `faults` bounds faults.

### Purchase part

`PurchaseLedger` is the promise of the three `CreatePurchase` functions: a token
is redeemed once, in one step, with all assets of the product and the events that
announce them, for a pair the store vouches for.

`PurchaseFlow` runs any number of concurrent calls.  A query is a step; in the
transaction every keyed INSERT is a step, because it waits while another open
transaction has inserted the same key (`WaitsFor`) and then succeeds, reports "no
row" (`ON CONFLICT DO NOTHING`, tokens) or fails (faction, pack, item).  The
INSERT into `one_time_purchases` has a generated key and is merged with the token's
INSERT; those into the outbox have fresh keys and are merged with the COMMIT.
`CommitUnknown` is a commit whose answer is lost; `Fail` a failing query, verifier
or statement.  The verifier is the constant set `Valid` of token and product
pairs: Google's call is made for the product, Apple's is not, and the code uses
`IsValid` only, so on iOS a token pairs with every product.

### Subscription part

`Subscription` has the stores as its environment.  `StoreChange` changes a
subscription there, and puts a notification in `inbox`, where it stays until it is
acknowledged.  `VerifySubscription` and `CreateSubscription` are the two moments of
`Subscribe`.  A handler reads the row and decides (`HandleApple`), or reads it
(`HandleGoogle`), asks Google (`GetSubscription`) and decides, then overwrites the
row (`Acknowledge`, or `AnswerLost` when the store never sees the 200), or ends with
a 500 (`Fail`).  `NotFound` acknowledges a token without a row, `Ignore` a type that
is only logged.  Periods are numbered: `end` is the number of periods sold, so a
later end is a greater number.  `announced` is the last premium-updated event
committed for the subscription.  A token in `Mismatched` has a row whose product is
not Google's, which `Subscribe` does not check: `Refuse` ends its notifications
with 500, and the store repeats them for ever.

Nothing in the code serialises requests about a token or puts notifications in order, and
the model assumes neither.  Where that costs a row a change, the history variable
`behind` has its token.  There are four ways: a notification is acknowledged while the
row does not exist (`NotFound`); it extends the subscription but is only logged
(`Ignore`: Apple's resubscription, after which the row stays expired while the store is
active, and extensions by the store); a handler writes over what another has written
since it took its copy (`overtaken`); a change of Apple's is applied although an earlier
one is on its way or a later one was handled (`OutOfTurn`, by means of `applied`).  A later renewal at
Apple, and every answer of Google's that nobody overtakes, bring the row up to date
again and take the token out.  At the stores an active subscription may be extended without a
renewal, Apple's may be resumed after an expiry or a revocation, and Google moves the end back when it
revokes.

Reading a row and deciding what to write are one step for Apple, because nothing
observable happens between them.  `CreateSubscription` is one step: its only
INSERT that can wait is the token's, right before the COMMIT.  Google's `PAUSED` is treated like `ON_HOLD`,
as `resolveGoogleTransition` does.

### Product list, premium

`ProductList` makes every query of `GetProducts` a step: `GetActiveProducts`,
which fails the call when an active product lacks its side row (`HasView`),
`GetLatestSubscription`, the look at the clock (`CheckEntitled`), `ListPlayerItems`,
one `HasPlayerCardPack` per set or pack, `Respond`; `Fail` is a failing query.
Beside them a purchase reads its product (`GetProductByID`) and commits later
(`CreatePurchase`), whatever the seed has made of the product by then; the newest
subscription row is written, any status over any other; and the statements of the seed
are applied.  Each is one step: what goes on inside them is `PurchaseFlow` and
`Subscription`.  `before`, `ever` and `steady` are history of a
call for the properties.  The seed knows sets and packs; cosmetics and the
subscription are products entered by hand (`ByHand`).

`Premium` has the rows of one player and the account service.  Every write of a
row is one step with its event or without (`WriteWithEvent`, `Cancel`);
`BuildSubscription` and `CreateSubscription` are apart because `CreatedAt`, which
decides which row is the latest, is taken before the transaction.  A row may be
written whatever its status is, as in the handlers: an ended one ends again, a
cancellation brings another end or a status back, and an Apple renewal that is
older than the receipt of `Subscribe` brings an earlier end.  The history variable
`unannounced` remembers a cancellation that changed end or entitlement, as no event
tells of it, and `shortened` the tokens whose row one has made shorter, which takes an answer
of Google's, or an overlapping handler, that is older than the last event.  The theorem `RowsMoveAsInPremium` says that these steps are all that
the handlers of `Subscription` do to a row, however they overlap.  Between the
commit of an event and `Deliver` are `Outbox` and the topic: `AtLeastOnce` promises
that the event arrives or is given up and says nothing of the order, so `Deliver`
takes any event at any time.  The subscriber applies an event id once, as
`data/asyncapi.yaml` demands of it.

### Server

`Startup`, `Http` and `Receipts` are operators, one per function of the code, and
have no state.  `Startup` says which environments pass `FromEnv` and each
constructor after it, and which routes exist.  `Http` takes a request through
client, router, authentication and checks (`EarlyStatus`), and an error of a
usecase back through status and client (`Status`, `ClientResult`).  `Receipts` says
what the verifiers and the notification decoders make of the stores' answers; a
receipt is a record of what the store would answer.

`Server` composes them.  `Start` and `Boot` are `run()`, where any step may fail and
the defers close what is open; `Listen`, `TickerRuns`, `RunOnceReturns`, `TickerStops`,
`ShutdownBegins` and `ShutdownEnds` are the three goroutines of `runHTTPAndWorker`;
`Wait`, `CloseNext` and `Exit` the end; `Signal` and `Crash` come from outside.  A
client's request is `Send`, `FindByToken` (purchases and subscriptions), `Usecase`,
`Commit`, `Answer`.  `CutOff` is a timeout of the caller, its cancelled context or a lost
connection while the handler works: the caller has an error, and its attempt (`left`)
goes on (`GoOn`) to its commit, or ends because its context is cancelled with the connection.
A request without an answer, or with a 500, may be sent again, so the repeat overlaps the
attempt that was left; then the caller is in `raced`.  Such a repeat may find its pack owned by
the attempt before, or its product gone, and is answered 409, 404 or 400 for a purchase that
commits (`service.go:114-150`; `PurchaseFlow` has the same).  `ResultIsTrue` says that this happens to nobody
else, and that nobody is told 401 or 402.  One left attempt per caller at a time.

`TickerRuns` claims any of the rows that are not published or given up, or none when the
claim fails or leases hold them back; `RunOnceReturns` publishes and marks some of them, and
of the others any may have reached the failure threshold (`givenUp`).  A failure without a
cancelled context is a mishap.  How leases, counts and attempts decide that is `Outbox`.
`ShutdownEnds` may give up on a request at any moment, as its ten seconds have no relation to
anything else in the model; `CloseNext` waits for a transaction, as `pool.Close` does, also for one
that nobody waits for.

### Fakes

`Fakes` has two packages, of which a test uses one (`package`).  For the broker,
`Record`, `CopySubs`, `SendNext` and `PublishReturns` are one Publish; `Receive`,
`PutHandled` and `ConsumeReturns` the loop of `Consume`, `Take` a receive from a
channel.  For the server, `Call`, `ReadFn` and `Answer` are a request, and `SetFn` is
the test assigning a function field meanwhile.

### Module graph

    AtLeastOnce    <- Outbox       <- MCOutbox, OutboxProofs
    PurchaseLedger <- PurchaseFlow <- MCPurchase, PurchaseProofs
    Subscription   <- MCSubscription, SubscriptionProofs <- SubscriptionOrderProofs
    Premium        <- MCPremium, PremiumProofs
    ProductList    <- MCProductList, ProductListProofs
    Startup, Http, Receipts <- Server <- MCServer, ServerProofs
    Http           <- Fakes        <- MCFakes, FakesProofs

## Runs

| Run | Shows |
|---|---|
| `outbox_safety` | Two workers, two events, one fault: lease exclusion, explained duplicates, bounded retries, dead rows reported, published rows clean, and `Outbox` implements the safety half of `AtLeastOnce`. |
| `outbox_promise` | One worker, two events, batches of one row, two faults: the whole of `AtLeastOnce`, so an old failing row cannot starve a younger one. |
| `purchase_safety` | Three calls over all product kinds, one fault: type, `AllOrNothing`, `AnswersAreTrue`, `NoCircularWait`, `PurchaseFlow` implements `PurchaseLedger`, and every call is answered. |
| `subscription_settled` | A token of each store, overlapping handlers, any order, a fault: a row that has lost no change (`behind`) ends up as the store has it, and Apple's announcements agree with such a row. |
| `subscription_concurrent` | Overlapping handlers, any order, repeats, a row with the wrong product, and of every row, whatever it has lost: no period is given that was not sold, rows and events do not drift apart, and the inbox drains but for that row's notifications. |
| `subscription_extension` | *Violated.* A renewal fetched as CANCELED extends the row and tells nobody (`google.go:121`). |
| `subscription_silent` | *Violated.* Apple's cancellation applied to an expired row revives the entitlement without an event (`apple.go:113`). |
| `premium_safety` | Two tokens, three events in any order: nobody is premium at the account service without an entitled row unless events overtook each other or a cancellation shortened a row, and list and service agree when subscriptions follow one another and no cancellation changes more than the status. |
| `premium_two` | *Violated.* The end of one subscription announces `premium = false` although the player has another one (`apple.go:103`). |
| `product_list` | A list call against purchases, subscription writes, seeds and the clock: its entries are true, the subscription is shown when it should be, and complete seeds leave a catalogue that can be listed. |
| `server` | Good environments and ones with one mistake, requests with one thing wrong, receipts of every kind, cut-off callers, failed claims and publishes, two mishaps: see "Server" above for what is asked. |
| `fakes` | Two publishers, a stream, an expecter, channels of one place; a caller of the fake server while its fields change. |

The violated runs record where the code differs from what the repository says
of it; `findings` in `PROJECT.json` quotes the lines.  Deadlock is checked where
the system never stops (the outbox, whose clock and ticker go on).  Elsewhere a
bound ends a behaviour (all calls answered, no changes, mishaps or events left),
or the system may stop (a test that reads no more), so the configurations
switch it off.

### Bounds

* `MaxFaults` bounds crashes, failed statements and lost answers.  One per
  safety run is enough for each hazard listed, since a hazard is one fault
  combined with interleaving; the promise run has two.
* `VisibilityTimeout = 1`, `FailureThreshold = 2`: the least values for which a
  lease is valid for a moment, then runs out, and a first failure differs from
  the last.  The deployment sets 30 s and 5 (`docker-compose.yml:95-98`); only the
  comparisons matter.
* Outbox: two workers and two events give shared rows, batches of several rows
  and one row waiting behind another.  At most two events per transaction, as in
  `purchaseFactionSet`.
* Purchases: three calls, so that one waits for another that waits for a third.
  Two sets share a faction, a set and a pack share a pack, one token is valid for
  several products, one for two, one for none; every refusal occurs.
* Subscriptions: changes are counted over all tokens.  Four, for the settled run,
  include purchase, grace, hold and recovery, or purchase, expiry, resubscription and
  cancellation, with both handlers at work and one lost answer or failure; three, with
  a third token whose product is wrong, let every pair of notifications about a
  subscription overtake each other.  The handlers of the settled run are symmetric.
* Premium: two subscriptions are the least with an older and a newer one; three
  events are a beginning, a change and an end, or two beginnings and an end.
* Product list: one call, since calls only read; two seeds, of which the second
  changes the type of a product and sells one pack twice; two cosmetics of one
  type.
* Server: one client, since requests share nothing here but the pool, two mishaps
  (a bad start and a signal, a signal and a crash, a cut-off call and a failed publish), at
  most one attempt that the client has left, every
  variable of the environment left out or wrong in turn, and every field of a
  request, token or receipt.  999 microseconds is the greatest timeout that is zero
  in milliseconds.  Every number is left out or zero in turn, and all are at their least at once.
* Fakes: channels of one place fill at once; three events and two publishers
  give one that waits for the place another has taken.  The code's sizes are 100
  and 16.

### Fairness

* Outbox: the ticker calls `RunOnce` for ever and `RunOnce` cannot block
  (publishing has a context and returns), so each worker's own steps are weakly
  fair, and time passes.  Nothing forces a publish to succeed: `KeepsPromise`
  holds because failing rows are given up.
* Purchases: a call that has begun is driven by `net/http` to its end; PostgreSQL
  wakes a waiter when the transaction it waits for ends.  Weak fairness of a
  started call's steps says that; no call has to start, nothing has to fail.
* Subscriptions: stores retry until they see 200, so each notification that can
  be delivered again and again is delivered (strong fairness per change: a
  handler may be busy in between), and handlers run to their end (weak fairness
  of a handler's steps).  Stores need not change anything, clients need not
  subscribe.
* Server: the platform starts a process again, with a good environment; goroutines
  and requests under way go on (weak fairness).  The ticker's `select` has two
  channels ready again and again, and Go takes one at random, so the cancelled
  context is seen some time (strong fairness of `TickerStops`).  A row that is not given up
  is claimed again when its lease has run out and older rows have left or were given up, if
  the ticker goes on (strong fairness of a claim with that row; `outbox_promise` shows it of
  `Outbox`).  No publish has to succeed: failures are mishaps, and a row may be given up.
  No fairness of callers, signals, crashes.
* Fakes: the same of `Publish` and of the `select` in `Consume`.  What the test itself
  does (consume, read results, wait, cancel) has no fairness, which is why
  `PublishEnds` and `ConsumeEnds` say who is to blame.

## Proofs

The `...Proofs` modules, one for each module with a run, prove for all values of the
constants (any number of workers, events, calls, products, tokens, handlers,
clients, subscribers) what the runs check on small ones.  They assume only the
named assumptions of the modules, which TLC evaluates in every run: positive
thresholds, which `internal/config/config.go` enforces; typed constants, with `NoNote`
not a notification; that the ids a test gives to its events are none that the fake
publisher makes up; that
tokens, factions and packs are different keys, since they are rows of different
tables; that a seed has the fields its generator's `validate` requires, and that
what was inserted by hand has those its table requires.

**Outbox.**  None of the safety properties is inductive.  `IInv` adds
`WorkerInv` (what a worker at each place knows of its current row), `LeaseInv` (a
held row was touched no earlier than the claim, so its age is at most the
holder's lease age: with the claim's condition this gives exclusion), `RowInv`
(a row held by a worker within its lease is unpublished and its failure count is
the one the claim returned) and `CopyInv` (one copy at most, and recorded or about to be).
`LeasesAreExclusive`, `EveryDuplicateIsExplained`, `EveryDeadEventIsReported`
and `PublishedRowsAreClean` follow.  `FailuresAreBounded` needs a second
invariant, `CountInv`: the failures already counted together with those the current
holders may still record stay below threshold plus workers.  `CopiesAreBounded` builds on
it: `CopiesInv` splits the holders of a row into those that have sent their copy and
those that have not, and every copy is matched by a counted failure, a fault, a
holder or the confirmation.  The bound, threshold plus workers plus faults, is tight.
`ClosedIsFinal` is the action property behind both: only the claim looks at `published_at`
and `failure_count`, the two UPDATEs name a row by its id alone, so a settled row rests
because it gets no new holder.
`OutboxKeepsPromise` maps every step to a step of `AtLeastOnce` or a stutter.

**Purchases.**  `IInv` adds `OpenTransactions` (what an open transaction has
inserted is a function of where it stands, is not committed and is in no other
open transaction: this is what the waiting INSERT buys) and `Progress` (a
transaction opens only after the verifier accepted, and an answer is given only
at the end).  `PurchasesAreAtomic`, `AnswersAgree` and `FlowKeepsLedger` follow.
`LockOrder` argues by rank: a call waits only for one that stands further along
the order token, faction, main, commit, and no set of calls can contain a circle
of increasing ranks.  From the same order come the two facts that make every call end
once fairness is added: `CallsOnlyAdvance` (a step moves one call, forward, and there are eight
steps at most) and `NeverAllWait` (in any state some open transaction waits for
nobody).  `WhoPaysIsServed` is the converse of `AnswersAgree`: `RefusalInv` ties each refusal to
its ground in the database, and a ground, once there, stays (`OwnsStays`), so a paying
player is turned away only if something failed.

**Subscriptions.**  `OnlySoldPeriods` needs `EndInv`: every end that is on its way to
a row (verified, in a notification, in a handler's copy) has been sold.  With it
`StoreInv`, since a handler that asks Google must get a state
`resolveGoogleTransition` knows.  `StatusIsAnnounced` needs `EventInv`: the event a handler
is about to write goes with the row it is about to write.  All actions that start
or go on with a handler are instances of one lemma, `PreparesIInv`.

`SettledAgrees` and `AppleAnnounced` are proved of every behaviour, with nothing assumed about
order, overlap, lost answers or when the client subscribes.  `OrderInv` is stated for one token
at a time.  `GoogleRow`: a row that has lost no change agrees with the store as soon as the
last change has been handled; the copy of a handler that nobody has overtaken agrees as
well, or a later change is on its way, because Google was asked after the note arrived (`Writes`).
`AppleRow` says the same of Apple's rows and why a cancellation needs no event: after an
end that the row shows or will show, a cancellation that is not out of turn comes after
an extension on its way (`EndedAt`, `RowEnded`), so the row that is cancelled is one that was
announced as active; and without an extension on its way the row has the store's end.

`RowsMoveAsInPremium` is about single writes: with any number of handlers at work, every step
begins one row, goes on with it or ends it together with its event, or cancels it without one,
as the actions of `Premium` do, and touches no other row.  That a cancellation leaves
entitlement and end alone does not follow, and `subscription_silent` shows it violated.

**Premium.**  `AccountInv`: unless events overtook each other, the account holds what
the newest applied event says.  `EventInv`: what an event promised the row still gives, or a
later event ended or shortened it (`TakesBack`), or a cancellation did (`shortened`), because row
and event are written in one transaction and no other write lacks an event.  The two give
`PremiumIsPaidFor`.  `ViewsAgreeInStep` needs in addition, while subscriptions follow one another
and no cancellation changed more than the status (`Orderly`), that the last event is about the row with the
greatest `CreatedAt` and tells its entitlement, and that no other row has any
(`LastInv`).  For that, a `Subscribe` call under way must have a later stamp than
every other row (`CallInv`, `OneCallInv`, `StampInv`).

**Product list.**  A step of a call changes its locals only, so everything rests on
`CallInv`, a predicate of one call: what it has read of the subscription row was so
at some moment of the call, and is so still if the row and the entitlement have not
changed since (`steady`); what was owned when it began still is.
`ListedAsOwned` and `ListedAsSubscribed` follow.  `CompleteSeedLists` needs `CatalogueInv`:
the tables that the running seed has already written agree with its version, and
products made by hand are in no version.  For the types, a list's views are one
for each product, although rows change between its queries (`EntryTypes`).

**Server.**  `StageInv` says what is open at which stage and which goroutines run
then, `RequestInv` that a request under way has passed `EarlyStatus` in a configured
process and that an orderly shutdown has none left: this gives `NothingClosedInUse` and
`NoWebhookWithoutStore`.  `AcceptedConfigurationsServe` compares the checks of `FromEnv` with those of
the constructors, for any environment.  `AnswersAreTrueOfTheDatabase` needs `AnswerInv`, a fact for
each caller about its request, the answer on its way, the attempt it has left and the
database (`Facts`).  For purchases and subscriptions `BuyFacts` has four parts: what is committed, or
at its transaction, has a receipt the store accepts (`Payable`), so that no attempt of it can be
told 402; it has passed the authorisation, so none is told 401; an attempt that is past the look
for its token, or denied, while the purchase is there or may get there by the attempt left, is of a
caller in `raced`; and an attempt that looked after the commit found it.  The tables of statuses
on both sides (`AnswerSays`, `EarlySays`) carry that to the caller's result.

**Fakes.**  `RecordInv`: what is being sent, is in a channel or was taken from one has been
recorded.  `CallInv`: the field a call is about to read is among the answers set
while it was under way.  The types need that a receiver has `since` only after it has
subscribed, so that it subscribes once.  `EventsAreDelivered` needs `DeliveryInv`: an event made
up by the publisher has an id of its own (`Numbered`) and one publisher (`OnePublisher`); the
broker's lists of a topic name a receiver once (`NoRepeats`), so what a publisher has left
to send it sends once (`LeftToSend`); what a publisher has yet to send to a receiver has
not reached that receiver (`NotBefore`); what a receiver has seen has no event twice (`SeenOnce`);
and what was published since it subscribed it has seen, or it is on its way
(`NothingLost`).  `Delivery` counts copies in a sequence; `Once` says the same without
counting, so that no induction is needed.

Only model-checked is everything under fairness: `KeepsPromise`, `EveryCallAnswered`,
`InboxDrains`, `EventsLeave`, `Stops`, `PublishEnds`, `ConsumeEnds`.  The prover can handle neither
fairness nor ENABLED.  What such a property needs of single states and steps is
proved where it could be separated (`CallsOnlyAdvance`, `NeverAllWait`, `ClosedIsFinal`).
The three properties that TLC finds violated have no theorem.

## Not modelled, and why

* The cryptography of JWS and of tokens (libraries; `Receipts` and `Http` have
  which checks are made, as fields of a record), the libraries' HTTP and SQL.
* Wire formats: JSON of events and answers, URLs, SQL text.  A request, an
  event or an answer is a record with what the code decides by.
* Logging: `setupLogger`, the Cloud Logging handler, the request logger.  Of the
  log only the ERROR that reports a stuck event is modelled.
* In `openapi_gen.go` the options of `NewClient`, the accessors of response types and
  the generated types; in `asyncapi_gen.go` everything: no decisions.
* Triggers for `updated_at`, audit columns and column checks of `db/schema.sql`:
  no code reads them.
* Build-time scripts but for the statements of the seed; the npm package; CI.
* The packages for the repository's own tests (`*test` directories): mocks, seeds,
  containers and emulators that are not part of the program.
* Timeouts of HTTP and of SQL as durations: where one can expire, the model lets
  it expire at any moment.

## Plan

Done, in the order of importance: the outbox every event depends on, purchases,
subscriptions, the player's premium state in rows and events, the product list,
the server with configuration, routing, receipts and shutdown, the fakes.
What could follow: one behaviour of `Premium` for each of `Subscription` with the
tokens of a player, as a refinement.  `RowsMoveAsInPremium` has its steps; a mapping would
add the events in the order of their commits and the clock as history.
