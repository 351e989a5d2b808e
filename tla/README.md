# Verification of the resilient checkout

TLA+ models of this repository, a multi-tenant shop: an API (`api/`, NestJS with
Prisma on PostgreSQL), a web front end (`front/`, Next.js, installable) and a mobile
app (`app_movil/`, Expo). Each store has its own PostgreSQL schema; a control schema
knows the stores. The core of the system is the purchase: a cart that reserves stock, an
idempotent `POST /orders`, a payment by card or by a proof that staff reviews, and crons
that repair what crashes and lost answers leave behind. Around it, devices keep
purchases, counts and edits while they are offline, and the control plane creates,
suspends and serves stores.

Contents: [components](#components), [plan](#plan), [modules](#modules),
[runs](#runs), [proofs](#proofs), [where code and documents disagree](#where-code-and-documents-disagree),
[not modelled](#not-modelled).

## Components

`M` is `api/src/modules`. The last column names the modules that model the component;
`PROJECT.json` says of each whether all its operations are there.

| Component | State | Operations | Talks to | Modelled in |
|---|---|---|---|---|
| Cart and reservations, `M/cart` | `carts`, `cart_items`, `stock_reservations` | add, update, remove, clear, sync, expire on access, cleanup cron | inventory rows in its transaction; checkout | `CheckoutStock` |
| Inventory ledger, `M/branches/inventory.service.ts` | `product_inventories`, `inventory_movements` (unique `effectId`) | decrement, increment, set stock, discount, cached total | cart, orders, settlement, returns, counter | `CheckoutStock`, `OfflineInventory`, `RowLocks` |
| Orders, `M/orders` | `orders`, `order_items`, `checkout_attempts` | create, get attempt, cancel, staff update | cart, inventory, settlement, provider | `CheckoutStock`, `CheckoutAttempt`, `PaymentProtocol` |
| Card payments and settlement, `M/payments` | `payments`, `payment_attempts`, `payment_compensations` | create intent, confirm, webhooks, recovery, compensations, settle, cancel | Stripe, orders, outbox | `PaymentProtocol`, `AppPayment` |
| Payment proofs, returns, counter sales | `payment_proofs`, `returns`, orders | submit, approve, reject, process, checkout | settlement, inventory | `PaymentProtocol`, `CheckoutStock` |
| Inbox and outbox, maintenance cron | `provider_event_inbox`, `outbox_events` | store, claim with a lease, mark, retry, DEAD | payments, mail, push | `EventDelivery`, `PaymentProtocol` |
| Row locks, `common/checkout/tx.util.ts` | locks | lock in order, retry transient conflicts | every transaction | `RowLocks` |
| Purchases kept by devices, `front`, `app_movil` | IndexedDB, AsyncStorage, React state | create, submit, recover, forget; drafts; screens | `POST /orders`, `GET /orders/attempts/:key` | `CheckoutAttempt`, `WebCheckout`, `AppCheckout`, `AppPayment` |
| Offline counts, `front/hooks` | `inventory_queue` | save, send, resolve, discard | set stock | `OfflineInventory` |
| Offline profile, `front/utils`, `M/users` | `profile_changes`, `profile_snapshots`, receipts | edit, send, resolve, discard | `syncOfflineProfile` | `OfflineProfile` |
| Sessions, `M/auth`, clients | token hash, stored tokens | sign in and out, renew, wait for a renewal | every request | `AccountSession` |
| Subscriptions and provisioning, `M/platform`, `tenancy` | `tenant_signups`, `tenants` | checkout, webhooks, provision, retry, suspend | Stripe Billing, schemas | `StoreSubscription` |
| Tenant resolution, `tenancy` | memory of every replica | look up, keep, evict, invalidate | every request | `TenantCache` |
| Branches, products and limits, `M/branches`, `M/products` | branches, products and their inventory rows | create, open, close, archive, remove | plan of the store | `StoreCatalogue` |
| Mobile attestation, pricing, roles, analytics, reports, marketing, chatbot, try-on, invoices, mail, i18n, encryption, scripts | rows, caches | queries, formulas, single-row writes, calls to other services | | not modelled |

What makes them correct, and what makes them hard:

- **Stock.** A unit of a variant in a branch is on the shelf, reserved by a cart or sold,
  once. Carts, checkouts, the counter, counts, returns, cancellations and two crons
  move the same rows; every movement has an `effectId` and one that repeats is skipped
  in silence, so an identifier that collides by mistake loses units.
- **Money.** At most one charge pays an order, and every other charge the provider
  takes is given back. The provider is asked between transactions, webhooks are
  repeated and late, processes crash between any two steps, the cron releases orders,
  and staff approves proofs, all at once.
- **Purchases.** A purchase sent again buys once, the shopper is only told what was decided,
  and what the device remembers leads back to it, whatever is killed, reloaded or left.
- **Work that must end.** Abandoned carts, interrupted cancellations, events, charges,
  purchases in doubt and requests that wait for a renewal depend on somebody coming back.
- **Deadlocks.** Transactions lock rows of several tables in an order that is only a convention.
- **Stale state on devices.** Offline counts and edits arrive later, over newer values.
- **Stores.** Webhooks of a subscription are read and written in different orders, a
  provisioning is repeated after a crash, and replicas remember what has changed.

`PROJECT.json` lists the forty hazards that matter most, at their lines, with the properties that watch them.

## Plan

1. `CheckoutStock`: carts, reservations and stock. Done, all its safety proved.
2. `PaymentProtocol`, refining `ChargeLedger`. Done, its safety and the refinement proved for card payments.
3. `CheckoutAttempt`, refining `Purchase`. Done, refinement proved.
4. `EventDelivery`, refining `AtLeastOnce`. Done, its safety and the safety of the refinement proved.
5. `RowLocks`: the documented order of locks. Done, proved.
6. `StoreSubscription`, `StoreCatalogue`, `TenantCache`: the control plane. Done, all properties proved.
7. `OfflineProfile`, `AccountSession`, `OfflineInventory`: clients. Done, their safety proved.
8. `AppCheckout`, `WebCheckout`, `AppPayment`: the screens of a purchase. Done, all properties proved.

Components that share no state are not multiplied in one run. What one assumes of another is an
action or a property of the other: a release in `PaymentProtocol` is `Cancel` in `CheckoutStock`; the
answer of `POST /orders`, which the screens take as one decision per key, is what
`CheckoutAttemptProofs` proves of the handler (`Purchase`); an event of `PaymentProtocol` that stays in its
inbox until it is processed is what `EventDelivery` shows (`AtLeastOnce`); a transaction that
is one step of `CheckoutStock` is a plan of locks in `RowLocks`.

## Modules

Constants are sets of model values and bounds; the assumptions on them are named in the
module that declares them. Each action is one operation, handler, transaction or statement of the
code, and `PROJECT.json` maps every definition to its lines. Operators that no
action uses (`CancellableByStatus`, `WebhookAnswersFirst` and the like, each before the definition that it
resembles) are plausible mistakes kept for the mutation runs.

### CheckoutStock

Carts, reservations, orders and the stock of the branches of one store.

| Variable | In the code |
|---|---|
| `stock`, `damaged` | `product_inventories` of a variant (a line in a branch) |
| `inflow` | history: units that counts, returns and counter sales brought or took |
| `claimed` | the repeatable `effectId`s of `inventory_movements` |
| `item`, `gen`, `late` | `cart_items`; how many reservations a line has had; whether those of a cart are overdue |
| `res` | `stock_reservations` |
| `order` | `orders` with their lines, status and payment status |

Actions: `AddItem`, `UpdateItemQuantity`, `RemoveItem`, `ClearCart`, `SyncCart` are the
public operations of `CartService`; each is a whole `mutate`, which first expires the
overdue lines (`expireLocked`), then applies the difference row by row (`applyLines`).
`ExpireCart` is the access to a cart and the cleanup cron, `Checkout` the transaction of
`OrdersService.create`, `Settle` and `Cancel` the stock side of the settlement,
`StaffStatus` the staff update, `Return`, `PosSale` and `SetStock` their services.
Every action is atomic because every one is a single transaction that locks its cart
or order first and whose stock updates are conditional on the row
(`stock >= quantity`). A request that is rejected is no step. Abstractions: the version of
a cart (a stale request is a rejected one); the reservations of a cart share their
deadline, as `mutate` renews them together; effect ids that contain a fresh identifier are
not kept, only those that can repeat; FALLIDO, which for stock is PENDIENTE.

### PaymentProtocol and ChargeLedger

The payment of one order. Workers run `createPaymentIntent`, `confirmPayment`, the
recovery of attempts, webhook events, cancellation, the expiry pass, proofs and
refunds. A step is one transaction, one statement or one call to the provider;
anything may happen between two steps, including a crash, which leaves rows as they are.

| Variable | In the code |
|---|---|
| `ord`, `payment`, `proof` | the order, its row of `payments`, its proof |
| `att`, `linked`, `old` | `payment_attempts`: status, whether the PaymentIntent is known, past the 23 h horizon |
| `comp` | `payment_compensations` |
| `pi`, `refund`, `known` | the provider: PaymentIntent and refund of an attempt; whose secret the customer has (external) |
| `inbox` | events that are not processed |
| `work` | where each request or pass is in its code, and what it has read |

An attempt and its PaymentIntent are one charge: the idempotency key, and after its
horizon the search by attempt, give every attempt at most one. The steps read the
current rows where the code locks the order and reads it again, and use what they
learned earlier where the code does (`saw`).
`ChargeLedger` is what this promises about money: a charge is opened, taken, and then
kept by the sale or owed and returned; the sale keeps at most one charge and never after it
was released. `ImplementsLedger` maps the rows and the provider to it.

Abstractions: amounts, currency and destination account always match; a status ENTREGADO is
ENVIADO; the order has expired or has not; a request does not last 23 h; two handlers may have the same event
at once (a lease that ran out); an event that fails is tried again and never DEAD; a
pending refund does not fail later.

### CheckoutAttempt and Purchase

The purchase as the device and `POST /orders` see it.

| Variable | In the code |
|---|---|
| `row` | committed status of `checkout_attempts` of a key |
| `claim` | who has inserted the row of a key and not committed: others wait on its unique index |
| `holder`, `version` | the lock and the version of the cart |
| `orders` | orders, with the revision the shopper saw and the one that was bought |
| `client`, `seen` | the attempt on the device and its payload |
| `told` | results of the store that reached the device |
| `work` | requests: the step of the handler and whether the device still waits |

`ReplayAttempt`, `Claim`, `LockCart`, `Buy`, `Commit`, `ReplayAgain`, `RecordRejection` and
`Winner` are the statements of `OrdersService.create` that other requests can see or wait
for, in its order. `Abort` is a lock timeout or a transient conflict, retried by `withTxRetry` or
answered as no result; `Crash` rolls back. `CreateAttempt`, `Recover`, `GetAttempt`, `Receive` and
`StopWaiting` are the device. `Unauthorized` is a 401 in front of the handler, upon which
the device drops the attempt. `Purchase` is the promise: each key and each revision of a cart is
bought at most once, a key may be refused instead, and the shopper is told what was decided
and nothing else. Abstractions: the reasons to refuse are one choice; the recovery may come at any moment.

### EventDelivery and AtLeastOnce

The inbox of provider events, and the outbox of notices that settling an order commits.

| Variable | In the code |
|---|---|
| `queued` | rows of `provider_event_inbox` and `outbox_events`: status, attempts, whether leased and due |
| `acked` | events for which the provider got a 2xx |
| `applied` | history: rows whose effect happened |
| `overrun` | history: rows on which a consumer outlived its lease |
| `job` | webhook handlers and ticks of the cron: the step and the row of each |

`Webhook` stores the event, `ClaimInbox` and `ClaimNextEvent` are the conditional updates that
take a lease, `Act` the effect, `Mark` and `NoteFailure` the end. A lease and a delay may
run out at any moment, and a consumer crash between any two steps. `AtLeastOnce` promises that an
accepted item is kept until its effect happened or somebody has to look at it, and
that it does not wait for ever.

### RowLocks

Every transaction of the shop as the rows it locks and in which order, for deadlocks.

| Variable | In the code |
|---|---|
| `flow` | what a transaction does, with the segments of rows it takes |
| `todo`, `wants`, `held` | what it has yet to lock, the row it waits for, the rows it has |
| `tries` | attempts of `withTxRetry` |

`tx.util.ts:4-8` gives one order: attempt and cart, order, inventory rows by variant,
products. Mutations of a cart, expiries, checkouts, changes of an order, sales and plain counts keep it.
A mutation that expires lines, a discount and a count with a discount do not; `Unordered`
names them, and `CycleHasAnUnordered` says that every cycle of waits has one of them. `AbortVictim` is the
detector of PostgreSQL with the retry of `withTxRetry`, `TimeOut` the lock timeout.

### StoreSubscription, StoreCatalogue, TenantCache

| Module | Variables |
|---|---|
| `StoreSubscription` | `sub`, `buyer`, `announced`: the provider's subscriptions, who opened them, the notices sent; `signup`: the row of `tenant_signups`; `store`: `tenants`; `held` (history): suspended by hand; `job`: handlers |
| `StoreCatalogue` | `branch`, `product`: absent, active or not; `seeded`: inventory rows; `passedOver`: pairs that were closed or archived when listed; `task`: requests |
| `TenantCache` | `truth`, `since`: the status of the store and its age; `cache`: entries of every replica; `reading`: requests between a row and the entry they keep |

`StoreSubscription` has a step for each statement or call: the claim of a signup, the id that
is fixed before the store, creation, provisioning, completion, mail, failure; and for a webhook of the subscription
retrieve, find, write, suspend or reactivate. Notices come in any order and again. A handler may die at any
step, and a signup that has been PROVISIONING for fifteen minutes may be claimed again (`TurnStale`).
`StoreCatalogue` interleaves the statements of requests that count, insert, list and seed without
a transaction. In `TenantCache` time is a number of periods and a request takes less than one.

### OfflineProfile, AccountSession, OfflineInventory

| Module | Variables |
|---|---|
| `OfflineProfile` | `server`, `receipts`: the row and the changes applied; `snap`, `pend`, `form`, `fetched`: what the device keeps and shows; `tab`, `late`: requests; `owed`, `known` (history): edits not yet held by the server, values the device was told or sent |
| `AccountSession` | `hash`, `issued`, `expired`: tokens at the API; `holds`, `req`, `flight`, `orphans`: tabs and apps, their requests, the renewals of each by the request that began them, and the renewals nobody waits for; `excused` (history) |
| `OfflineInventory` | `shelf`, `ops`: the row and the operations in its ledger; `shown`, `queue`, `direct`, `passing`, `strays`: what the device read, keeps and has under way; `unsettled`, `done`, `crossed` (history) |

A profile has one pending change that all tabs send, an id that changes once it has been sent, and for each
field the values it may replace. A session is renewed by one request for all of its
client; the hash at the API is replaced by each renewal (`Check` and `Rotate` are two statements). In a tab the
requests share the promise of the renewal; in the app, one of `Apps`, those that come after the first wait in a queue.
A renewal of the app that fails empties the queue (`Fails`), clears the storage of the session and only then is over
(`SessionCleared`), so a request that was refused in between joins a queue nobody empties. A
count carries the version that its author read; without an answer it waits in a queue of one slot per product; the operation under which its number was decided
first (`first`) stays with it when a conflict is resolved under a new one.

Abstractions: `SendChange` reads the status of a change and marks it as sent in one step (`profileSync.ts:71` and
`:80`), `Confirm` merges two transactions of IndexedDB, and no property sees the difference; a refresh
token that ran out is a renewal that failed (`RenewalLost`), for `Check` compares the hash only.

### AppCheckout, WebCheckout, AppPayment

| Module | Variables |
|---|---|
| `AppCheckout` | `verdict`: what the API decided about a key; `disk`: attempts in the storage of the phone; `screen`, `pending`, `paying`: React state; `task`: the button, one that was left, the recovery, the payment screen; `stray`: requests nobody waits for; `denied` (history) |
| `WebCheckout` | `basket`, `drafts`, `session`, `db`, `draftOf`: what the browser keeps; `verdict`; `screen`, `events`: state of the screen and the events before it; `task`: the button, one that was left, another tab, the recovery; `stray`; `refused`, `crossed`, `dropped` (history) |
| `AppPayment` | `sale`: the order with its payment, proof and charge; `pane`: state of the screen; `call`: its requests |

In `AppCheckout` a write reads the whole list and puts it back, and writes wait for each other
(`serialized`). In `WebCheckout` each transaction of IndexedDB changes one attempt or draft,
and tells the screen of the same tab to read again (`events`). A second tab (`OtherTab`) shares IndexedDB and the drafts,
has a session storage of its own and sends what it remembers or starts a purchase of its own; the recovery, which
tabs take by turns (`useCheckoutRecovery.ts:78-90`), is the one of this tab. An order that was made is written in two steps, the
attempt (`Created`, `FoundBought`) and then the draft (`Bought`), and the page may be gone between them. Effects that act by themselves are actions that need no
customer (`AutoOrder`, `Preselect`, `ReadAttempts`). Screens can be left and opened again, the page
reloaded, the app killed, at any point; what was sent may still arrive. `POST /orders` decides
in one step. `AppPayment` has the requests of the payment screen, each in the steps of its handler, and
the rest of the world: another payer, staff, cancellation, refund.

Abstractions: storage always writes (see the list of what no run states, below); a pass over attempts may
skip one, for the next try may be later; reservations and lines of the cart are not kept;
`draftOf` is the draft under review when the purchase began.

### MC modules

`MCCheckoutStock` gives a stock to start with, `MCPaymentProtocol` and `MCClients` symmetry. `MCShop`, `MCStores`,
`MCClients`, `MCScreens` and `MCProgress` hold several components of which one moves in each behaviour:
`part` is chosen at the start and does not change, the others keep their initial state. So
their state space is the sum of the parts and not the product, one run answers for several modules,
and a property of a part is as strong as in a run of its own. A part may also be a scene, which bounds
what happens at once: `MCScreens` takes the checkouts with a screen that was left, with
a recovery, with another tab, or with a recovery, one purchase and drafts (where alone the browser's session may be refused), with one late request at a time, and the payment screen with two requests under
way; `MCShop` takes the stock with one customer in two branches without the counter, with two customers who share a branch and one order
of several units, or two orders of one, and the staff's payment without attempts past the provider's idempotency horizon (`pay_cards` has them); `MCProgress` takes the session with a tab or with the app; `MCClients` takes the profile with one
tab or with one field, and one late request or count at a time; `MCStores` takes a signup, a store that subscribes again, and both with one store and one handler;
`MCPaymentProtocol` takes two charges with one request at a time, or one charge with two requests.

## Runs

All bounds are in the `.cfg` files. `violation` runs end in a counterexample.

| Run | Instance | Properties | Question |
|---|---|---|---|
| `stock_restock` | 1 customer, 1 order, violation | `NoUnitRestockedTwice` | Can a fully returned order be restocked again? |
| `pay_cards` | 2 charges and 1 request, or 1 charge and 2 requests; 1 pass | `NoChargeForgotten`, `OneOpenCharge`, `PaidConsistently`, `ImplementsLedger` | Do card payments implement the ledger, with one open charge, none forgotten and the rows consistent? |
| `pay_twocharges` | 1 charge and a proof, violation | `NoChargeForgotten` | Is a second charge always given back? |
| `pay_returns` | 1 charge and a full return, violation | `PaidConsistently` | Does a completed payment always belong to a paid order? |
| `shop` | stock: 1 customer in 2 branches, or 2 customers with an order of 2 units or 2 orders of 1; staff: 1 charge, proofs, returns; locks: 2 transactions of any kind, or 3 of three kinds | `ShopTypeOK`, `ReservedIffInCart`, `OrderOwnsItsUnits`, `LedgerBalance`, `ReservationsEndOnce`, `PaidIsNotReleased`, `CycleHasAnUnordered` | Inside one store, is any unit created, lost or sold twice when lines move between branches and customers, counter, returns and cancellations compete, is a paid order kept by staff, and who can deadlock? |
| `events` | 1 event and its notice, 2 consumers, 2 attempts, fairness | `AckedIsStored`, `OneConsumerPerLease`, `DeliversAtLeastOnce` | Do inbox and outbox deliver at least once through crashes and overruns? |
| `stores` | 2 stores, 2 subscriptions, 2 handlers; 3 branches, 2 products, 2 requests; 2 replicas, 2 readers | `PasswordUntilStore`, `OnlyPaidSignupsGetStores`, `SuspensionHasACause`, `StoreIdIsFixed`, `EveryPairIsSeeded`, `NoGrowthPastTheLimit`, `StaleForTTLAtMost` | Are stores created once, for money, suspended for a reason, seeded completely and not served when stale? |
| `stores_suspension` | 1 store, violation | `ManualSuspensionStands` | Does a suspension by hand stand? |
| `clients` | purchases: 2 keys, 2 requests, revisions 0 to 2; profile: 2 fields or 2 tabs, 3 values, 2 ids; session: a tab and an app, 2 requests; counts: 2 operations, 3 movements of the row | `ImplementsPurchase`, `NoEditLost`, `OverwritesOnlyWhatItSaw`, `NoFalseLogout`, `NoCountForgotten`, `CountsOverWhatWasSeen`, `DecidedOnce` | What do clients that send again buy, write or lose? |
| `profile_form` | 1 tab, 2 fields, violation | `SavesOnlyWhatWasTyped` | Does a save change only what was typed? |
| `progress` | 1 charge, 1 key, a tab or an app, 1 basket of 2 lines, fairness | `EveryChargeAccounted`, `CancellationsEnd`, `DoubtEnds`, `NobodyWaitsForEver`, `OverdueCartsEmptied` | Does what started come to an end? |
| `screens` | 2 purchases of a phone, 2 of a browser with 2 tabs, 1 draft, 1 order to pay | `OpenOrderIsKept`, `DraftKept`, `PurchaseNotForgotten`, `NewPurchaseIsReviewed`, `SuccessIsReal` | Do app and browser remember open orders and drafts, does a screen not buy again what it was told is refused, and does it say only what is so? |

Why the bounds are enough to see the hazards: two customers, requests, tabs, consumers or
replicas are what a race needs; two orders let one be cancelled while another sells the
units; quantity 2 lets a line grow and shrink; two generations and revisions make an effect id
repeat if its identifier lacked either; two charges are the smallest number of which one must
be returned; two keys with three revisions let two tabs buy one revision and the cart change
between; three transactions make a cycle that no pair has; three branches let two be created
at a limit of one; a TTL of 2 periods tells an entry that is renewed from one that is not; two
attempts of an event let one crash and one fail. `SeedUnits` of 1 makes every unit contested. Bounds in guards
(`MaxGen`, `MaxRev`, `MaxStock`, `MaxVersion`, `MaxKeys`, `MaxIds`, `MaxOps`, `MaxRowVersion`, `MaxTokens`)
only stop a behaviour; they open no branch. Deadlock is checked in `stock_restock` and
`screens`; elsewhere a finished signup, a closed payment or resolved attempts have nothing left to do.

The only type invariant a run checks is `ShopTypeOK`, of the stock, a payment and the locks; those three, and the
type invariants of the other modules, are proved, alone or inside an inductive invariant; of the screens the proofs have
types of their own. A pass of the cron is alone in `pay_cards`:
see the hypotheses of its [proofs](#proofs).

**Fairness.** `CheckoutStock`: weak fairness of `ExpireCart` of each customer, by the
cleanup cron every 15 minutes, which finds a cart as long as it is overdue.
`PaymentProtocol`: an operation that started goes on (weak); the cron reaches an order
that is listed, and an event that is in the inbox, again and again, though other work
may keep the worker busy (strong); a charge in process clears (weak); crashes, outages and new
attempts to pay come to an end. Without the last, a provider that never answers keeps
an order on hold for ever, as the documented policy wants. `CheckoutAttempt`: a request
goes on (weak), the device's timer of 30 seconds comes back to an attempt (strong), faults end.
`EventDelivery`: a consumer goes on and time passes (weak), the tick of every minute comes to each row
and takes it (strong), crashes end. `AccountSession`: a client goes on with an answer and with clearing its session, and a
tab gives up a renewal after its timeout of ten seconds (weak). The renewal of the app (`client.ts:173-180`) has no timeout, so
nothing is assumed to answer it, and `NobodyWaitsForEver` speaks of the app from the answer on.

**Mutants.** Each property has a plausible bug, such as an event marked before its effects, an effect id
without its revision, a pending change confirmed by the answer of an older one, an attempt forgotten because
the server does not know it yet, or a refusal that the screen does not show; under the run's own bounds the property then fails.

## Proofs

Eight modules prove theorems for every value of the constants: any number of customers, lines, branches, orders,
attempts, requests, handlers, events, stores, clients, tabs, counts, purchases and drafts, and every bound. Each argument is an invariant that
the initial states satisfy and every step keeps, with one lemma or step per action.

| Module | Theorems | About |
|---|---|---|
| `CheckoutStockProofs` | `TypeCorrect`, `ReservedIffInCartHolds`, `OrderOwnsItsUnitsHolds`, `ReservationsEndOnceHolds`, `LedgerBalanceHolds` | stock |
| `PaymentProtocolProofs` | `TypeCorrect`, `PaidIsNotReleasedHolds`, `NoChargeForgottenHolds`, `OneOpenChargeHolds`, `PaidConsistentlyHolds`, `LedgerImplemented` | money |
| `CheckoutAttemptProofs` | `TypeCorrect`, `SoldOnceHolds`, `RefusalIsFinalHolds`, `PurchaseImplemented` | purchases |
| `EventDeliveryProofs` | `AckedIsStoredHolds`, `OneConsumerPerLeaseHolds`, `DurableImplemented` | inbox and outbox |
| `ShopProofs` | `OrderedNeverDeadlock`, `LockTypeCorrect`, `ScenesAreOfTheShop`, `ShopTypeCorrect`, `PaidIsNotReleasedInTheShop`, `ShopIsSafe` | deadlocks, and a store as a whole |
| `StoreProofs` | `PasswordUntilStoreHolds`, `OnlyPaidSignupsGetStoresHolds`, `SuspensionHasACauseHolds`, `StoreIdIsFixedHolds`, `EveryPairIsSeededHolds`, `NoGrowthPastTheLimitHolds`, `StaleForTTLAtMostHolds` | control plane |
| `OfflineProofs` | `NoFalseLogoutHolds`, `SessionTypeCorrect`, `NoCountForgottenHolds`, `CountsOverWhatWasSeenHolds`, `DecidedOnceHolds`, `NoEditLostHolds`, `OverwritesOnlyWhatItSawHolds` | clients |
| `ScreensProofs` | `SuccessIsRealHolds`, `DraftKeptHolds`, `PurchaseNotForgottenHolds`, `NewPurchaseIsReviewedHolds`, `OpenOrderIsKeptHolds`, `PaymentInvariance`, `WebInvariance`, `PhoneInvariance`, `ScenesAreOfTheScreens`, `ScenesAreSafe` | screens |

**Stock.** `SafeInv == TypeOK /\ ReservedIffInCart /\ FreshRids /\ OrderOwnsItsUnits`. `OrderOwnsItsUnits` alone is
not inductive: a checkout that consumes a reservation needs to know that its identifier is not the one of an
earlier order, which `FreshRids` says (the generations a line will use next have no reservation), and that the reservation
of a line in the cart is ACTIVE, which is `ReservedIffInCart`. The mutations of the cart share one lemma, since
each is `Mutate` with other lines.

`LedgerBalance` needs `ClaimInv` as well: an effect id that is in the ledger was used by a revision its reservation has
had, by an expiry that ended it or by a cancellation that happened. Otherwise a movement could find
its id taken and be skipped in silence, and the units be lost; it is the argument why the revision is part of the id. The
units of a branch are counted as a set of tokens, one per unit and reservation (`HeldUnits`), so that the
proof needs no induction: no step changes more than two reservations of a line, and `OneReservation`
and `TwoReservations` say how the count moves with their units.

**Money.** `TypeCorrect` and `PaidIsNotReleasedHolds` hold whoever takes part. The rest is about
card payments, with any number of attempts, requests and webhook handlers, and has hypotheses:

- Without manual proofs. With them `NoChargeForgotten` is false, as `pay_twocharges` shows.
- `PaidConsistentlyHolds` and `LedgerImplemented`: without returns. With them `PaidConsistently` is false, as
  `pay_returns` shows, and so is what the ledger takes for a kept charge. Any number of passes of the cron may run.
- `OneOpenChargeHolds` and `NoChargeForgottenHolds`: one pass of the cron at a time. With two, TLC finds a
  behaviour that violates `OneOpenCharge` (`Passes = {p1, p2}`, two charges, one request): one pass abandons the attempt
  whose creation is in flight, the other, which had listed the order too, hears nothing from the provider and extends the
  deadline, so the order is not released and opens a second attempt, and the creation arrives. The request must
  be in flight for longer than the fifteen minutes that opening a payment guarantees, which the timeouts of the provider's library
  exclude but for a process that stood still; the model has no such clock, so this is a hypothesis and not a finding. For
  `NoChargeForgotten` the hypothesis comes from the proof, which goes through `OneCharge`.

The invariant `IInv` says that the database and the provider tell one story of each charge (`ChargesAgree`,
`OrderAgrees`, `TasksKnow`), that no worker is done with an event before its charge is accounted for
(`Remembered`), and that one charge at most is unresolved, that is, may still take money or
waits to be accounted for (`OneCharge`). The last is what `OneOpenCharge` lacks: the danger is an attempt that is not live
any more while its charge may still happen, and such an attempt has closed the order to new ones, which
`SweepShuts` says of the order a pass is working on. For the ledger `KeptStands` says that the charge that pays the
order is never touched again. `LedgerImplemented` maps the initial state and every step to
`ChargeLedger`, most of them to a stutter (`Stutters`).

**Purchases.** The invariant `Safe` adds to `TypeOK` and `SoldOnce`:

- `ClaimsHeld`: a transaction past its claim owns the key and no result exists, so no other request commits or refuses it;
- `CartHeld`: past the lock it owns the cart, so at the commit the version is still the one that was compared;
- `OrdersKnown`: an order is the result of its key and of a revision below the current one, so the one being committed is new;
- `AnswersTrue`: an answer on its way, and what was told, is what the row says;
- `Sent`: a request works for an attempt that was created, so its payload does not change.

**Inbox and outbox.** `DeliveryInv`: a consumer that is at a row has it stored and acts before it marks
(`AtWork`), and a row of which nobody outlived the lease is leased as long as a consumer is at it (`Leased`), so nobody else can
claim it. `DurableImplemented` is the safety half of `DeliversAtLeastOnce`: every step is one of `AtLeastOnce`, or a stutter, of
both queues at once; that delivery comes is fairness and stays with TLC.

**Locks.** The invariant `InOrder`: a flow that keeps the order has at most one segment left, it is sorted, and all that it holds
or asks for comes before all that is left; the row it asks for comes after all it holds. In a cycle of such flows take the
last row that is asked for: who holds it asks for a row still later, which is a contradiction.

**Control plane.** The three modules share no variable and have an invariant each. `StoreInv`: nothing is claimed before the
payment, a handler works at the store its signup names, and what a webhook is about to write was
announced, of a subscription that is the store's own (`JobOK`); without the last, a late handler could suspend a
store for the lapse of another's subscription. `CatalogueInv`: a pair without an inventory row is one that some request will
list, or has listed and will seed (`EveryPairIsCovered`), and whoever has counted and not yet written still
fits (`Fits`: what is active, plus the requests between the two, stays below the limit plus all requests).
`CacheInv`: an entry that is wrong is no older than the change, give or take one request
(`EntryFresh`), and so is what a request has read and not kept yet (`ReadFresh`).

**Clients.** `SessionInv`: a client renews once at a time, and while nobody else took the session its token is
the one the API knows; that nobody holds a token before it is issued (`Issued`) makes the types inductive. `InventoryInv`: a version names one stock (`Current`, `AsSeen`: what was read at the version of
the shelf is the shelf), counts that may still arrive have different ids, and what is unsettled was not applied. `DecidedInv` adds what may come of one
decision under several operations (`OneLine`): of the counts that stem from it only the newest, in a slot of the device, is not
`Overtaken`, that is, could still be applied; and a count that is in conflict was never applied, so whoever confirms it
does not do so twice. It holds as long as no count was saved while a pass had an older one listed (`crossed`), and not
beyond, as the list of what no run states says.
`ProfileInv`: requests under way carry what the pending change says as long as they share its id (`Consistent`), which is why the id
changes when a change is edited after it was sent; what they may overwrite is known to the device; and an answer that was
received tells what happened (`Truthful`).

**A store as a whole.** `MCShop` moves one of stock, payment and locks at a time, in scenes. `ScenesAreOfTheShop` shows that
these are behaviours of the three modules, and `SamePayment` that its payment is the one of `PaymentProtocolProofs`, the same
definitions under another name; so each property of the run holds for every value of the constants too (`ShopIsSafe`). There the payment has
staff, proofs and returns.

**Screens.** The theorems are about all behaviours of a screen; the scenes of `MCScreens`, which keep its run small, are
among them (`ScenesAreOfTheScreens`, `ScenesAreSafe`).

- Payment: what an answer on its way to the screen says is so and stays so (`AnswersMean`), because a payment or a proof is not
  taken back while the screen is open and a cancelled order without either has no charge that can still succeed (`SaleConsistent`).
- Browser: `PurchaseNotForgotten` rests on `Remembered`: what was not started has no attempt and no order, and what was
  started is forgotten only once its refusal or the end of its order is known, or upon an answer that decided nothing; so a task may
  write or remove the attempt it works at, which was started and, when it has bought, has an order (`Fits`), whatever the
  other tasks did meanwhile. `DraftKept` is inductive with the types. For `NewPurchaseIsReviewed`, a screen that was not left while it
  started a purchase, and has no other tab beside it that does, has one attempt at most, the one its button sent or it shows, and
  none when another is about to start (`OneAtATime`); after a refusal it has none and shows the failure (`Reviewed`). That the next
  key is unused and the newest attempt is one of the browser's own are `FirstUnused` and `NewestOwn`.
- App: a purchase is `Dropped` once its session was refused, it was rejected or its order has ended, and `Held` as long as the
  phone has its attempt or it is dropped. What a task works at, what is on its way or decided (`OthersHold`) and what the recovery
  has read (`ListIsHeld`) is held; a task removes only what is dropped (`TaskHolds`); and a copy of the list that is to be written is
  still what the phone has, for one task writes at a time (`OneWriter`), which is why `checkoutAttempts.ts` queues its writes.

**Assumptions.** The named assumptions of the modules separate null values from the sets they complete, make bounds
natural numbers (positive where a first step must be possible), and make finite what is counted: customers and lines
of a store, branches, products and requests of `StoreCatalogue`. `LockAssumption` says that `Rank` is the order of `tx.util.ts`, in
which every set of rows that occurs has a last one. `ScreensAssumption` separates no attempt from the
numbers of attempts and the mark of one that was not started from the drafts; `ShopAssumption` is `PaymentAssumption`, of the payment of `MCShop`. TLC evaluates all of them in the runs.

**Only model-checked.** Liveness (`DeliversAtLeastOnce` beyond its safety, `EveryChargeAccounted`, `CancellationsEnd`,
`DoubtEnds`, `NobodyWaitsForEver`, `OverdueCartsEmptied`), because the prover handles neither fairness nor ENABLED. Every other
property of a passing run is stated by a theorem. Induction with a predicate as its parameter is out of reach as well; where a proof needs a
least or a last number (`LeastNumber`, `NewestNumber`), it takes it from the well-ordering of the naturals. What holds of payments with
proofs, returns or overlapping passes beyond `TypeCorrect` and `PaidIsNotReleasedHolds`: some of it is false, as the runs show.

## Where code and documents disagree

- **A returned order is restocked again** (`stock_restock`). Staff may set an order that is
  REEMBOLSADO back to PENDIENTE (`orders.service.ts:539`) and cancelling it restocks every
  line a second time; `cancelInTx` only refuses COMPLETADO.
- **A second charge is taken for a repeated notice** (`pay_twocharges`). A card payment is
  opened while a proof is under review, the proof is approved, the card succeeds.
  `settleInTx` compares with `order.stripePaymentIntentId`, which linking had already set to this charge.
  The documented policy is a refund.
- **A full return makes a payment inconsistent** (`pay_returns`). `returns.service.ts:211` sets the order to REEMBOLSADO and
  leaves its payment COMPLETADO, while a compensation changes both (`payments.service.ts:654`). The metric `paidWithoutConsistentOrder`,
  which `checkout-resiliente.md:80` says must be 0, counts every such order from then on and the alert fires each minute.
- **A suspension by hand is undone by a webhook** (`stores_suspension`). `platform.controller.ts:362` says
  it is not; `syncTenant` tells the two suspensions apart by the last status of the subscription alone
  (`subscriptions.service.ts:421`).
- **A save changes fields that nobody typed** (`profile_form`). A form that was opened before the local copy was
  refreshed turns its old values into changes that expect the new ones (`offlineProfile.ts:233`), so
  it reverts another device without the conflict that `ProfileTab.tsx:42-44` announces.

Met while modelling, and stated by no run:

- Payments: rejecting a proof of an order that the card paid marks it FALLIDO (`payment-proofs.service.ts:168`);
  the answer to a refund may overwrite its confirmation (`payments.service.ts:670`); a compensation left in REFUND_PENDING is never
  looked at again (`:663`); an order whose charge is a MISMATCH is neither settled nor released (`:730`).
- Locks: mutations that expire lines, discounts and counts with a discount leave the order of `tx.util.ts:4-8`;
  a discount is not under `withTxRetry`.
- Stores: linking a subscription may replace one that became live meanwhile (`subscriptions.service.ts:379`); a store that is
  suspended during a retry of its provisioning ends ACTIVE (`tenant-provisioning.service.ts:175`); a subscription that goes
  from unpaid through past_due to active leaves the store suspended (`subscriptions.service.ts:429`).
- Offline counts: a count that is saved while a pass has an older one of the product listed is marked with the answer to the
  older (`useOfflineInventorySync.ts:59`), so its author may be asked about a conflict of a count that was already applied, and confirming it
  applies the decision a second time; `NoCountForgotten` and `DecidedOnce` except it as `crossed`.
- App: a request that is refused while a failed renewal clears the session (`client.ts:209`) joins the queue that was emptied
  before (`:208`), and waits for ever if no other renewal begins, for `isRefreshing` ends later (`:222`). The trace is `Refused`, `RenewalLost`,
  `Refused`, `SessionCleared`, and nothing more; `NobodyWaitsForEver` excepts the app from that moment, and while the API does not
  answer the renewal, which has no timeout (`:173-180`).
- App: the storage hides its errors (`storage.ts:42`), so a purchase that could not be kept is sent, against
  `checkoutAttempts.ts:54`; a press before the attempts were read, or after the screen was left and
  opened again, starts a second purchase (`CheckoutScreen.tsx:36`); the revision is read at the press and not when the
  lines are shown (`CheckoutScreen.tsx:128`); any failure of a renewal, an outage included, clears the session
  (`client.ts`); the customer is led to the payment of an order that has ended, until the attempt is three days old.
- App, payment: a tab that is changed while a proof is sent shows a finished payment; a simulated QR payment that crosses
  a cancellation is answered as a success (`payments.service.ts:927`, excepted in `SuccessIsReal`).
- Web: two tabs that both pass `CheckoutClient.tsx:195` each create an attempt and buy, against the comment at `:194`, for tabs only
  take turns in the recovery (`useCheckoutRecovery.ts:78-90`); whether both become orders is left to the revision of the cart at the
  server (`CheckoutAttempt`). Leaving and opening the checkout while a purchase is being started begins another one too (`:186`); both are
  `crossed`, which `NewPurchaseIsReviewed` excepts. A page that is reloaded between the confirmation of an attempt and the removal of its
  draft (`useOrder.ts:71-74`, `useCheckoutRecovery.ts:46-47`) leaves the draft, and what was bought can be bought out of it again; a purchase in doubt that the recovery finds rejected is bought again by the effects without the customer
  (`CheckoutClient.tsx:291`, against the comment at `:244`; `NewPurchaseIsReviewed` speaks of refusals the screen was told); an error
  of IndexedDB after the order was made is taken for a refusal (`checkoutAttempts.ts:122`); the draft under review stays in
  the session storage and is removed by the next purchase whatever it contains; the success page empties the cart
  with what was added after the order (`CheckoutSuccessClient.tsx:61`).
- Both: a 401 is taken for a decision and drops an attempt that an earlier send may have turned into an order (`dropped` in
  `WebCheckout`, `denied` in `AppCheckout`), which the customer then finds among the orders only.

## Not modelled

- Amounts, prices, discounts and currencies: closed formulas over cents, shared by server and clients.
- The cached total of a product, which never authorises a sale; discounts per branch.
- Login counters and reset codes; attestation, whose challenge is one conditional update.
- Files of proofs, uniqueness of transaction ids, contents of mails and invoices.
- Categories, collections, appearance, roles, settings of integrations: single rows that one
  request reads and writes; the connected account of a store.
- Queries, reports, statistics, calls to language and image models, generated clients, translations, scripts.
- Screens that show rows and send forms, and the markup of those that are modelled; the caches of the service worker.

Most lines of the repository are of the last three kinds, so the share of lines that the map names stays small
although the stateful protocols are covered.
