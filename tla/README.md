# Digital Store: TLA+ models and proofs

The repository is a shop for digital goods (accounts, keys): a NestJS/Mongoose
API, a Telegram bot with its delivery worker, and a Next.js administration that
also hosts the serverless runtime. A customer pays from a wallet or with a bank
QR, gets one inventory item per order, and the item's secret is sent over
Telegram. The secret cannot be taken back once sent, which is what makes the
delivery path the heart of the system and the first part modelled here.

## 1. Inventory

Paths are relative to the repository; `PROJECT.json` lists every component with
its sources, status and what is left out of it.

| component | state | operations | hard behaviour | what makes it correct | module |
|---|---|---|---|---|---|
| Purchase (`apps/api/src/purchase/purchase.service.ts`) | `orders`, `inventory_items`, `users`, `wallet_transactions` | `purchase`, `purchaseBatch`, `createBatch`, `redispatchPendingOrders` | repeated requests, unique indexes, publication after the commit | one order per key, paid once, limit kept | `Store`, `Delivery`, `Payment` |
| Order and item documents (`packages/database/src/{schemas,repositories}`) | status machines | compare-and-set updates | every race ends here | orders and items agree | `Store` |
| Wallet (`apps/api/src/wallet`) | balance, ledger | `applyChange` with an idempotency key, `adminAdjust` | retries | balance = sum of the ledger, never negative | `Store`, `Payment` |
| Inventory reservation (`inventory-reservation.service.ts`) | reservation of an item | `releaseExpired` | a timeout against a late delivery | a disclosed item is not for sale | `Store` |
| Inventory administration | items, batches | remove | against purchases | a held item is untouched | `Store`, `Catalog` |
| Delivery worker (`apps/bot/src/delivery.processor.ts`) | order status, Telegram | `process`, `onFailed` | crashes, redelivery, unclear sends | never send twice by itself | `Delivery` |
| Delivery queue (`apps/api/src/delivery/delivery.queue.ts`, QStash) | tasks | enqueue, requeue | lost, duplicated, absorbed tasks | a paid order is delivered or failed in the end | `Delivery` |
| Delivery recovery (`delivery-recovery.service.ts`) | failed orders | resend, replace, refund | an administrator against a late worker | goods or money, not both | `Store`, `Delivery` |
| Serverless tasks (`apps/admin-web/lib/serverless-tasks.ts`) | - | task routes, maintenance | stale reads, partial publication | the outbox drains | `Delivery`, `Payment`, `Broadcast` |
| Bank payments (`apps/api/src/payment/payment.service.ts`) | `payment_requests`, wallet | callback, history check, approval, expiry, cancellation, quick checkout | callback against history check, late or second transfers, leases | each transfer credited once; a QR fulfilled at most once | `Payment`, `QrChat` |
| Bank reconciliation report (`bank-reconciliation.service.ts`) | reads requests, wallet, bank histories | the report | numbers shared by accounts, rows of an older release | what it calls credited was | `Reconciliation` |
| Coupons | usage counters, redemptions | price, redeem, update | concurrent redemption and edit | limits hold | `Coupon` |
| Inventory import, products | items, batches, fields of a product | plan, write in chunks, save, archive | edits and sales among the chunks | stock keeps the keys of its product; what is sold is untouched | `Catalog`, `Pattern` |
| Administrator sessions (`auth.service.ts`) | refresh tokens | login, refresh, logout | reuse of a token against its rotation | a session is one line of tokens | `Session` |
| Admin web interface (`apps/admin-web/app/admin`) | the state of a page | requests, refresh, lists, message centre | answers out of order, lost, to a page that moved on | what is shown is what was asked for | `AdminPage`, `AdminLists`, `MessageCenter` |
| Broadcasts (`apps/bot/src/*broadcast*`, alerts) | campaign, records, rate document | claim, send, record, defer, next page | reclaim after five minutes, shared window | once per customer; the rate is kept; it ends, or a page was given up | `Broadcast`, `RateGate` |
| Customer messages, order reports (`messaging`, `warranty`) | messages, reports, the cache | create, update, reply, send | two creations, repeated sends, reads under way | one active report per order, a message once | `Support`, `ReportCache` |
| Bot configuration (`bot-config.service.ts`) | settings, leases, webhooks | update, activate, archive, change the token | lease, several systems changed in steps | no edit is lost, the token in use has its hook | `BankConfig`, `BotToken` |
| Bot runtime manager | the running bot | refresh, launch, stop | a launch that fails late | one bot polls, the configured one | `BotRuntime` |
| Telegram shop bot (`shop.bot.ts`) | `bot_sessions` | questions, carts, confirmation, payment codes | two updates at once, old buttons, the API's answer grown old | said once is done once; what was told is true | `ShopBot`, `QrChat` |
| Analytics (`analytics.service.ts`, `insights.service.ts`, repeated purchases) | reads orders and events | ranges of days | days of another time zone, two ways to compute one figure | the figures agree | `Insights` |
| Migrations (`packages/database/src/migrations`) | indexes, defaults, records | up, down, repair | a job that dies, two at once, old writers | what is recorded stands | `Migration` |
| Pure helpers (`packages/shared`) | - | patterns of inventory | separators inside values | sent as it was pasted | `Pattern` |
| Telegram webhook, encryption, configuration | - | - | little | - | - |

**Interaction.** The bot and the UI call the API. A purchase commits its orders in
one MongoDB transaction and *then* publishes a task; the order itself
(`PENDING_DELIVERY`) is the outbox. Workers take tasks from BullMQ (long-running
`server` runtime) or through an HTTP route called by QStash (`serverless`), read
the order, claim it with a compare-and-set, load and send the items, and commit a
second transaction. When a task fails for good, `onFailed` moves the order to
`DELIVERY_FAILED`, from where an administrator resends, replaces or refunds; a
recovery changes the order and requeues its task. The expiry of reservations and
the daily maintenance route work on the same documents. A bank transfer credits the
wallet and, when it pays a checkout in time, places its orders in the same
transaction. Everything else - sessions, messages, notices, configuration, imports,
screens, reports - keeps documents of its own; the sale reads products and coupons,
and the reports read orders.

Where it may go wrong is the list `hazards` in `PROJECT.json`, each with its line
and the properties that watch it; more are in section 5.

## 2. Modules

### The sale

| module | models | code |
|---|---|---|
| `Store` | the documents and the API's transactions on them; no specification of its own | purchase, recovery, reservation, administration services and repositories |
| `Delivery` | extends `Store` with queue, workers, maintenance; `Spec`, `FairSpec`, the properties | `delivery.processor.ts`, `delivery.queue.ts`, `main.ts`, `serverless-tasks.ts` |
| `Sale` | the abstract specification: paid once, then one item of one's own or the money back | what the above promise |
| `DeliveryProofs` | the theorems | - |
| `MCDelivery` | small shops for TLC, and the property about sums: balance and ledger | - |
| `FiniteSums` | lemmas about sums, counts and extremes of finite sets, for `DeliveryProofs`, `ServiceProofs` and `AdminProofs` | - |

**State.** `status`, `goods`, `total`, `recovery` are fields of an order
(`status[o] = "NONE"` before it is stored); `stock` and `reservedFor` fields of the
items (`reservedFor[o]` is the set of items whose `reservedOrderId` is `o`: after a
replacement the withdrawn item keeps pointing at the order); `balance`, `active`,
`ledger` the customers and their wallet transactions by idempotency key. `tasks` is
the queue; `dispatching`, `recovering`, `republishing` are publications that a
request has still to make after its commit; `pc`, `job`, `batch`, `parcel` the
local variables of a worker; `disclosed` is a history of what was sent.
`deliveryStatus` moves with `status` in every write, so it is not kept apart.

**Steps.** A transaction is one step: it runs on a snapshot, writes a document it
read, and is re-run on a conflict. A worker's step is what happens between two
awaits. `Take` reads the order and decides; for a QR checkout `FindRoot` reads the
group; `Claim` is `markDelivering()`; `Recheck` the read after a lost claim;
`Gather`, `Mark`, `Load` collect, mark and decrypt the group; `Send` ends well, is
refused for now (429, 5xx: `Reset`), is refused for good, or ends unclear, sent or
not; `Confirm` is the second transaction, which sells the items only as `markSold()`
permits and then writes the orders without looking at their status. `Reject` and
`RejectGroup` are the two updates of `onFailed`. `Crash` stops a worker anywhere,
`Fails` is a database error before the send, `Publish` may lose the task.
A task stays in the queue until it is acknowledged, so two workers may hold it.

**Runtimes.** With BullMQ a job has failed (left the queue) before `onFailed` runs;
with QStash the task is acknowledged after `onFailed`, so a crash in it brings the
task again. Only the serverless runtime has the maintenance route. When attempts
run out BullMQ calls `onFailed`, QStash drops the task.

**Abstractions.** One product, whose items are numbered in `createdAt` order. Time
is not modelled: whenever an unattended reservation is looked at it may be found
expired. A coupon's discount is any of a set. Users are never deleted; suspending
one is external (nothing in the repository writes `user.status`), but purchases,
credits and refunds check it. A QR checkout's orders are those of
`PurchaseBatch` with `Quick`, charged to the wallet that the transfer credited in
the same transaction; the credit itself is the subject of `Payment`.
Repeating a request while its task is still to be published adds nothing and is
merged with it.

### Payments

| module | models | code |
|---|---|---|
| `Coupon` | one coupon: price rules, redemption in the transaction of a checkout, edit | `coupons.service.ts` |
| `Payment` | extends `Coupon` with requests, transfers, wallet, checkouts, the fulfilment lease; `PaymentSpec`, `FairPayments` | `payment.service.ts`, `wallet.service.ts`, `purchase.service.ts` (quote and sale) |
| `Till` | the abstract specification: a transfer is credited once and in full, the fate of a request is decided once | what the above promise |
| `PaymentProofs`, `SaleProofs` | the theorems | - |
| `QrChat` | the chat about a payment code: several updates at once, the API's answers as steps of their own | `shop.bot.ts`, `payment.controller.ts` |
| `Reconciliation` | the report over several bank accounts; a transfer is credited in one step | `bank-reconciliation.service.ts` |

`Payment` keeps of a request its status, amount, `providerReference`, the status of
its cart, the flags "past `expiresAt`" (`late`) and "cancelled by the customer", and
the lease (`holder`, and `aged` once a minute is over). `wire[t]` is what the bank
knows of a transfer, `handling` the transfers that a callback or a history check is
processing, each with the branch that `processBankTransaction()` chose from what it
*read*; the branch's transaction is a later step, so that anything may happen in
between. `Find` may be repeated at any time, also for an answered transfer. `Approve`
is the transaction of `approveBankRequest()` split by its outcomes: repeated, money
only, money and sale, aborted; `Fallback` the second transaction that follows a
coupon that is gone; `Mismatch` and `Supplement` the two other branches. A fulfiller
(`TakeLease`, `Purchase`, `FinishLease`) is `fulfillQuickCheckout()` with its three
accesses and may stop at each. The wallet is `balance` and `ledger` by idempotency
key. What is not about payments - other purchases, suspension, withdrawal of the
product, edits of the coupon - is `ElsewhereInTheShop`.

`QrChat` and `ShopBot` treat every call of the API and every access to the session
as a step, and remember what the customer was told, to compare it with what is so.
`Reconciliation` computes the report as the code does (which requests and wallet rows
belong to a line, its status, the duplicates, the sums) and compares it with `rows`,
which remember whose money they are.

### Services

Each of these modules has a specification of its own and no variable in common with
another (`AdminPage` extends `Session`).

| module | state and steps | code |
|---|---|---|
| `Session` | one family of refresh tokens; a request looks up, claims and issues in three steps, and may die between them | `auth.service.ts` |
| `AdminPage` | a tab: the cookie, the pair it holds, its requests, the one refresh they share; answers on their way may be lost or reach a page that was loaded again | `page.tsx:138-172`, `lib/api.ts` |
| `AdminLists` | every list with its filters, its timer, its requests under way, aborted or not, and what it shows | `operations-dashboard.tsx`, `complaint-manager.tsx`, `bank-reconciliation.tsx` and their like |
| `MessageCenter` | selection, polls, sends; what is on the screen and what is stored | `message-center.tsx` |
| `ReportCache` | the cache entry, the loads under way, what each reader may rely on | `report-cache.ts`, `messaging.service.ts` |
| `Support` | complaints and messages; a request claims, sends, settles, and may die at each step or lose Telegram's answer | `warranty.service.ts`, `messaging.service.ts` |
| `BankConfig` | the stored value and the value each change has read; lease, read, write, return | `bot-config.service.ts` |
| `BotToken` | token, hooks, lease; the steps of a change and of its compensation: a call may be refused, or given up after ten seconds and take effect at once, later or never (`belated`); a write may be done and reported as failed; the process may die at any step | `bot-config.service.ts` |
| `BotRuntime` | configured and running bot, a refresh under way, launches that fail late | `bot-runtime.manager.ts` |
| `Catalog` | fields, items, two imports: plan, duplicates, chunks, report, removal of a batch; saves, archive, reservations and sales | `inventory-import.service.ts`, `product.service.ts` |
| `Pattern` | a line, the pattern it is split by and the pattern it is written by, as operators on sequences of signs | `packages/shared`, `delivery.processor.ts`, `public-delivery.ts` |
| `Broadcast` | queued pages with the tries they have left, workers with the customers of a page, a record per customer; errors of the database before or after they took effect, late and dying workers, pages that the queue drops | `broadcast-sender.ts`, `admin-broadcast.processor.ts`, `purchase-alert.processor.ts`, `stock-alert.processor.ts`, `broadcast-queue-retry.ts`, `main.ts`, `serverless-tasks.ts`, `qstash.ts` |
| `RateGate` | the document, the clock in ticks, the refusals that senders cache | `broadcast-rate-store.ts` |
| `ShopBot` | the session document, handlers of updates, carts and their nonces | `shop.bot.ts` |
| `Insights` | orders and events in time, and the reports over a range as operators | `insights.service.ts`, `analytics.service.ts`, `product-repeat-purchases.service.ts` |
| `Migration` | what stands in the database, the records, jobs; stock changed meanwhile by an old and a new release | `migrations/` |
| `ServiceProofs` | theorems about `BotRuntime`, `RateGate`, `Broadcast` and `Reconciliation` | - |
| `CatalogProofs` | theorems about `Catalog`, `Support`, `BankConfig`, `BotToken` and `Migration`, and lemmas on the lines of `Pattern` | - |
| `AdminProofs` | theorems about `Session`, `AdminPage`, `AdminLists`, `MessageCenter` and `ReportCache`, and lemmas on the reports of `Insights` | - |
| `MCServicesProofs` | theorems about `ShopBot` and `QrChat`, and about all services together | - |
| `MCServices`, `MCNotices`, `MCPayment` | the instances for TLC | - |

**Queues of notices.** A task is a page (the cursor it begins after) and what it may
still cost. QStash delivers a task that failed or was not answered within 55 seconds up
to five times more (`retries`), whatever the reason; BullMQ counts a worker that died
(`maxStalledCount: 1`) and an error (`attempts: 5`) apart. A page that must be retried
because flood control or another worker stands in the way costs neither: QStash gets a
new task, BullMQ the same job, delayed. After its last try a page is `dropped`, and a
repeated `sendBroadcast()` starts a campaign again on QStash only: BullMQ still knows the
id of the failed job. With `MaxRetries`, `MaxStalls` and `MaxErrors` of 1 the instances drop a page at
its second failure, so two mishaps are enough.

**Changes of the token.** `harm` is a history: what failed since a change last succeeded
(`"one"` is what the compensation can make good). It is not read by any action.

**Composition.** `MCServices` puts modules that share nothing side by side: `part` names
the one that moves, the rest stays in its initial state. `MCNotices` does the same with
`BotRuntime` and `Broadcast`, which have liveness properties and fairness. No step
of one enables, hinders or reads another, so the interleavings of two parts would
show nothing that each alone does not; a run of all parts is a run of each of them,
and each property begins with the part it is about. Modules that do interact are one
specification: queue, workers, maintenance and documents in `Delivery`; wallet,
coupon, checkout and transfers in `Payment`; page and session in `AdminPage`.

## 3. Runs

### The sale

These runs use `MCDelivery`. The bounds are `MaxFaults` (crashes, lost
publications, refused or unclear sends, failed database calls and second
deliveries of a task all count), `Repeatable` (orders whose request may be
repeated), `Removable`, `Suspendable`, and the finite sets.

| run | shows | bounds |
|---|---|---|
| `checkout` | a QR checkout of two orders, delivered as one parcel, over BullMQ: the inductive invariant (types, goods and ledger rows), money, balance, finality, and the refinement of `Sale` | 2 orders, 3 items, 2 workers, 1 fault; attempts may run out; a coupon that makes one of the orders free |
| `resale` | two purchases of a product limited to one, over QStash with its maintenance: goods and orders agree, one order per secret, the limit, one send per attempt, no disclosed item for sale before a recovery | 2 orders, 2 items, 2 workers, 2 faults; suspension, removal of an item |
| `outbox` | with the maintenance route a wallet order never waits for ever | 2 customers, 2 orders, 2 workers, 1 fault |
| `lost_publication` | without it (BullMQ) one does | 1 order, 1 fault |
| `resent_item` | a disclosed item comes back on the shelf | 2 faults |
| `released_item` | a released item that no order may use | - |
| `stuck_checkout` | a checkout of which a part stays `DELIVERING` | 2 faults |
| `sent_twice` | a checkout of which one secret is sent twice without an administrator | 2 orders, 2 items, 2 workers, 2 faults |

Each passing safety run takes one runtime: what it checks of goods and money is
proved for both (section 4), and the rules about secrets are checked where more can
go wrong, because QStash redelivers a task after a crash in `onFailed` and the
maintenance publishes again. Those two rules, `NeverSendTwiceAutomatically` and
`ShelfSafeBeforeRecovery`, are checked for orders delivered alone: a QR checkout
breaks the first (`sent_twice`), and with it the second: when the second send of a
secret is refused, `Reset` makes its order `PENDING_DELIVERY` again, and an expired
reservation then releases the item like that of an order never attempted.

Why they are enough: two workers are needed for a duplicated task and a third
could only repeat one of them, as a claim has one winner; two orders are the least
group and the least competition for an item; a third item is what a replacement of
one order of the group takes. One fault reaches every branch of the worker, two
the sequences of an unclear send followed by a recovery that goes wrong too. The
administrator, repeats and the expiry are not faults and are bounded only by what
they may do in a state. `MCDelivery` also checks the split of a discount on all
quantities to 7 and discounts to 30 (an ASSUME).

`CHECK_DEADLOCK FALSE` stands where a shop may rightly have nothing left to do (all
orders over, no request to repeat) or a stuck order is what the run is about.

**Fairness** (`FairSpec`). Weak fairness for the publication that follows a commit
or a recovery, for the maintenance (a cron) and for a worker that holds a task;
strong fairness for handing out a queued task, because every worker may be busy
with another one in between - both brokers keep a task until it is taken. Nothing
is assumed of customers, administrators, time, suspensions or faults.

### Payments

These runs use `MCPayment`: one customer, so that everything competes for one wallet,
with a request that may buy one item and one that may buy two, both with the coupon,
and two transfers that may name either request, with its amount or another.

| run | shows | bounds |
|---|---|---|
| `payments` | types, credit, checkouts and orders, the coupon's books and what a customer may use of it, what may buy, the refinement of `Till`; every transfer arrives and every approved checkout ends | 3 documents in all (two requests and a transfer, or one and two), 1 incident, 1 fulfiller, no jammed item |
| `swallowed_transfer` | a transfer that is answered and never credited | 1 request, 1 transfer, an item that no order may use |

Three documents are enough because a transfer races with its request, with a second
transfer of the same request, or with a second request for the customer's stock,
balance and coupon; a fourth repeats one of these. An incident is a change of the
world (suspension, withdrawal, stock, coupon, another purchase, an adjustment of the
wallet) or a process that dies; one of them between any two steps is what the code
guards against. A second fulfiller needs the lease to run out under the first, which
`MayStall` excludes; the theorems hold for any number of each.

**Fairness** (`FairPayments`). The bank repeats a transfer until it is answered
("Cake delivers at least once and retries non-2xx responses"), so `Find` is weakly
fair while it is not; a callback or a fulfiller that is not stopped goes on; a minute
passes; and the maintenance looks for approved checkouts again and again
(`recoverApprovedQuickCheckouts()`), so that taking a lease is weakly fair. Nothing is
assumed of customers and administrators, nor that a deadline is noticed.

### Services and notices

| run | shows | bounds |
|---|---|---|
| `services` | for every module of the table above but `BotRuntime` and `Broadcast`: its types and its properties | per module two or three actors and two or three documents, listed at the head of `Services.cfg` |
| `notices` | one bot polls, and it catches up with its configuration; a notice reaches everybody, nobody twice but for an outcome that was not stored, and it ends | bot: 6 launches, 2 changes, 2 failures; notice: an announcement or a purchase alert, 2 customers, QStash with pages of one or BullMQ with one job for both, 2 workers, 2 mishaps, 1 retry after each kind of failure |

`services` groups properties by what they are about, each guarded by its part:
`TalkIsHonest` (a cart becomes one order and a text one answer; what was told of a
code is true and stays true), `StockIsAsPasted` (an import reports what it wrote; a
line is sent as it was pasted), `ScreensAreTrue` (page, lists, message centre, cache),
`ReportsAgree`, `ReportIsHonest` (reconciliation), and per module `StockMatchesFields`
and `SoldIsProtected` (both of steps), `OneActiveReport`, `MessageOnce`, `BankEditsAreKept`,
`CurrentBotHasHook`, `SessionIsLinear`, `NeverTooFast`, `RecordedIsReady`.

The bounds let every race happen once: two requests at a time and a third document to
come after them. `MaxTime` of the gate is twice its longest interval; `Insights` has
four ticks on three days, so that a range can begin, end and lie between, and lists of one
row (`TopLimit`; the code's `TOP_LIMIT` is 20), so that the second customer or product
is cut; `MaxFailures` of `BotToken` is two, one more than a compensation can make good; a
line of `Pattern` has up to four signs, room for two values and a separator that
overlaps itself. A product has one of two keys for its required field, so that a key
may be renamed under an import.

`MaxMishaps` of the notices counts what goes wrong or is done from outside (a worker that
dies or is late, an error of the database or of the queue, a repeated campaign, a send
that flood control refuses for good, a suspension, a withdrawn product). Two customers
are the least that make two pages (QStash), and a job with somebody on it to fail after
somebody else (BullMQ); two workers are needed for a page that is delivered twice. A purchase alert stands
for a restock alert too, whose record begins like that of an announcement.

**Fairness** (`NoticesSpec`: that of the part that moves). The timer of the bot goes on, the calls of
a refresh end (well or with an error), and a launched bot polls or fails. For notices, the
queue keeps a task until it is taken (strong fairness for the tasks of each page, as
workers may be busy with others), a worker that does not die goes on, and a claim grows
old. `BotCatchesUp` allows for the process to stop and for the launches to run out, which is
the bound. `NoticeComesToItsEnd` allows for what the code does not finish: a product that was
withdrawn, a page that used up its tries, and a customer who was suspended with his
record open, for whom the last page of a campaign is queued again for ever. That it holds
otherwise is not obvious: a page is queued again while others are under way, claims of
dead workers must grow old first, and the counts of a page are read before they are used.

### The disagreements

The six runs that expect a violation are described in `findings`:

1. `resent_item` - README.md:35 says the system never puts an item of an unclear
   delivery back in stock. `resend()` makes the order look unattempted and
   leaves its reservation window as it was, so `releaseExpired()` may release it.
   `ShelfSafeBeforeRecovery` is the part of the promise that does hold: without
   a recovery nothing disclosed is put back.
2. `released_item` - integration test 9 expects a released item to be for sale;
   the cancelled order keeps it in the unique index on `inventoryItemId`, and
   since the oldest item is reserved first, it blocks the product.
3. `lost_publication` - a comment relies on scheduled maintenance, which the
   `server` runtime does not have.
4. `stuck_checkout` - the two updates of `onFailed` are not atomic and the
   redelivered task stops before the second. As the maintenance only looks at
   pending orders and an administrator may only recover failed ones, nothing
   takes such an order up. For the same reason `outbox` is about wallet orders:
   the tasks of a checkout defer to its first open order, so one that is stuck
   `DELIVERING` keeps a pending one behind it waiting.
5. `sent_twice` - delivery.processor.ts:49 says "Never send twice automatically".
   The claim covers the first open order of a checkout only; the rest is marked
   in a later update whose count nobody looks at. When the first order is failed
   in between (a redelivered task, a worker that dies inside `onFailed`), the next
   order becomes the first and is claimed and sent, while the worker that
   collected the group before sends it too. Goods and money stay right even
   then, as the proofs show: what is sent twice is the same secret to the same
   customer.
6. `swallowed_transfer` - payment.service.ts:486 says every transfer is preserved and
   unexpected failures surface. A duplicate key is always taken for a transfer that
   another process credited (632); when it comes from an item that a cancelled order
   still names (2.), the transaction is rolled back, the bank gets a success, and the
   money is neither in the wallet nor asked for again.

## 4. Proofs

Everything is proved from the named assumptions of the modules, which TLC evaluates in
the runs.

### The sale

`DeliveryProofs` proves for every set of users, orders, items and workers, every
price, discount and limit, both runtimes and any number of faults:

- `TypeCorrect`, `GoodsCorrect`, `SaleCorrect`, `MoneyCorrect`: `TypeOK`,
  `GoodsFollowOrders`, `SaleInvariant`, `MoneyOrGoods` are invariants of `Spec`;
- `WalletCorrect`: a balance is never negative, and is what the customer began with
  less the sum of what the ledger says of his orders (`BalanceMatchesLedger`);
- `SettledForGood`: no step changes a delivered, cancelled or refunded order;
- `ShopKeepsPromise`: `Spec` implements `Sale!SaleSpec` under the mapping at the end
  of `Delivery`;
- `SecretIsForOne`: an item sent for one order is never sent for another
  (`OneOrderPerSecret`);
- `SentOnce`: nothing is sent twice before a recovery (`NeverSendTwiceAutomatically`),
  where no checkout groups orders (`Quick = {}`: with one, `sent_twice` shows it broken);
- `ShelfIsSafe`: what an order delivered alone has disclosed is not back on the shelf
  before its recovery (`ShelfSafeBeforeRecovery`);
- `LimitIsKept`: the purchase limit (`WithinPurchaseLimit`).

They rest on the named assumptions of `Store` and `Delivery` (items and orders are
finite sets of numbers, the batches partition the orders, amounts are naturals),
which TLC evaluates in every run.

**The argument.** `GoodsFollowOrders` alone is inductive once types are known, but
money is not: that a refund gives back what was taken needs the ledger rows to be
tied to the status (`RowsFollowOrders`). `SaleInvariant` is the conjunction. Queue
and workers change the documents in few ways, so the proof first shows that every
step of `Next` is, on the store, one of a small number of shapes (`NextStep`):
nothing; orders move between live statuses; a batch is placed; a replacement; a
refund; a release; a removal; a hand-over (`Confirm`); or a change of the active users. Each
shape is then shown once to keep the invariant, to leave settled orders alone and
to map to a step of `Sale`. The key is the hand-over: `Confirm` writes statuses
blindly, and it is `MaySell` together with `HeldItemHasOneOrder` that makes each
order of the parcel live, or delivered already with the same item.

For the wallet, `Funds` is the property over a function instead of an operator, and it
is inductive beside the types and `Agreement`, the part of `SaleInvariant` about goods
and rows. Each shape of a step spends from one wallet on the orders of one batch
(`Spends`), nothing but a refund and a placement spends anything, and a placement needs
that the shares of a discount add up to it, for every quantity and every discount
(`SharesAddUpTo`): no rounding leaves a wallet and its ledger apart.

For the secrets, the steps of a worker are brought to four shapes (`Turn`): it claims an
order, claims a group, goes on with its attempt, or attempts nothing afterwards.
`SecretInvariant` says that no two orders name an item, and that one that is known is
still named by its order or withdrawn for good (a replacement is the only way to lose it).
`AloneInvariant` says of an order that no administrator has touched: while it is pending
nobody attempts it and nothing of it is out; one worker attempts it at a time; and nothing
is out before that worker's message. So a release, which looks for a pending order, cannot
find an item that is known, although it does not look at the workers at all.

**Sums.** The models add up with `MapThenSumSet` of the community modules, which takes the
elements in an order that a CHOOSE fixes. `FiniteSums` proves that the order is of no
consequence: a sum may begin with any element (`SumStep`), leave out zeros (`SumOfPart`)
and be taken part by part (`SumByParts`). The induction theorems of the library take an
operator, which the provers cannot instantiate, so the induction over the subsets of a
finite set (`SubsetInduction`) is drawn from `WFMin`: a set of counterexamples would have
a smallest one.

### Payments

`PaymentProofs` and `SaleProofs` prove for every set of customers,
requests, transfers and fulfillers, every price, coupon, deposit and received amount, any number of
incidents and documents:

- `MoneyIsKept`: an answered transfer is in the wallet with the amount that arrived,
  and none is there with another, if no item is jammed (`~MayJam`, the exception being
  `swallowed_transfer`);
- `PaymentTyped`: types hold and no balance is negative, jammed items included;
- `CheckoutsInOrder`: checkouts and orders agree, if no fulfiller outlives its lease
  (`~MayStall`);
- `PaymentsHonourTill`: `PaymentSpec` implements `Till!TillSpec`, under the same
  assumption;
- `CouponIsCounted`: the counter of a coupon is the number of its redemptions, within the
  limit (`usageLimit`), and they are those of the sold checkouts - also when a fulfiller
  outlives its lease;
- `OwnLimitHolds`: no redemption takes a customer above the `perUserLimit` of that moment
  (`OwnLimitKept`). It is a property of steps: an edit may set the limit below what a
  customer has used already, which `validate()` does not look at;
- `MoneyIsTimely`: a transfer sells only what was open, in time and asked for with this
  amount (`~MayStall`).

**The argument.** What a callback read is old when its transaction runs. The invariant
`MoneyInvariant` says what does not age: a transfer in hand names a request that was
asked for (`HandledIsWired`, `WiredIsAsked`), an amount that was compared stays equal
because no step changes the amount of a request (`SameAmount`), and a request that
names a transfer has its money (`ReferenceIsCredited`). So whichever branch a callback
is in, its transaction credits what arrived or finds it credited. Each step is brought
to one of three shapes: it moves no transfer (`BooksStay`), it is a transaction of one
transfer (`ProcessKeeps`), or a new transfer appears.

`CartInvariant` adds that whoever is at work on a checkout holds its lease, the lease
has not run out and is nobody else's; without it, a fulfiller that was declared dead
could sell after another one failed the checkout. `TillInvariant` adds for the
refinement that only approved requests have credit, so that the step that credits a
transfer may settle its request but never a second time.

Coupons need neither lease nor ledger: orders exist for approved requests only
(`BoughtIsApproved`) and an approval is never undone (`ApprovedStays`), so that a sale by
the bank is the first of its request, and one by a fulfiller finds no orders or stores
none. For `MoneyIsTimely`, a cancelled checkout is a failed one and a failed one is not
pending (`ClosedOK`).

### Sessions and screens

`AdminProofs`, for any number of requests, tokens, tabs, customers and messages:

- `SessionLinear`: a session never has two tokens that can be refreshed, a pair on its way
  counted as one, and no two tokens replace the same one. It does not say that a revoked
  session is over: the pair that was on its way comes through, as the only one. The invariant is that the issued tokens
  are an initial part of `Tokens`, each given for the one before it, and only the
  newest is live or in the hands of a request.
- `ListIsFresh`: a list shows what this process had answered for. The invariant is that
  the load in the cache, once it has read, saw what was stored before the cache was last
  replaced.
- For `ScreensShowTheTruth` below: `PageInvariant` (one refresh at a time, and the tab
  holds the newest pair until one is lost), `ListInvariant` (an answer that is not
  aborted is for what the list asks now) and `CenterInvariant` (a fetch that is not
  outdated is for the selected customer, and what was sent is in what it will find).

### Stock, complaints, configuration and migrations

`CatalogProofs`, for any number of imports, products, complaints, accounts, bots and runs:

- `StockKeepsFitting`: `StockMatchesFields`. No step spoils an item that has the keys of
  its product, no payload is in stock twice, and an item comes in unfit only from a row
  that was planned before an edit and is written after it, with the keys that its import
  read. The code does store such rows, so that stock as a whole fits is no invariant. The
  invariant is that the rows of a batch fit the fields it was planned for (`BatchesFit`);
  that an edit keeps every fit is the arithmetic of its renames (`NewKeyIs`);
- `SoldStaysSold`: no step touches what is reserved or sold;
- `ImportsAreHonest`: an import that ends reports the items of its file that it wrote, the
  rows it skipped and the rows it failed at, each once. The invariant (`CountInvariant`)
  counts the rows of the batches it went through, for the three numbers apart;
- `OneComplaint`: one complaint at most is open, and stored complaints only are shown;
- `ToldOnce`: a customer gets a message once, plus once for each process that died or
  answer that was lost. The invariant `MessageKept` says that while a message is
  SENDING one request at most holds it, none if the claim is old, and that every send
  is covered by a stop until that request knows it was sent;
- `BankEditsKept`: a confirmed change of the accounts is never undone by another, if
  each is quicker than its lease (`~MayOverrun`): the holder of the lease is the only
  one at work (`HolderWorksAlone`), so what he read is what is stored when he writes
  (`ReadIsStored`);
- `CurrentBotIsHooked`: the bot in use has its webhook when no change is under way, but
  for the four cases that `CurrentBotHasHook` names and section 5 lists. For each step of
  a change the invariant (`Midway`) says which token is stored and what has failed, and
  that the hook stands as long as the change has not touched it;
- `RecordedIsBuilt`: with all migrations on record and none torn, all indexes and
  defaults stand. A run that applies a migration has all the earlier ones on record, an
  undo is of the last one and alone (`JobsAreSound`), and what a recorded migration set
  up stands unless a later one that also sets it up is missing (`WorksStand`).

### The services around the sale

`ServiceProofs`, for any number of processes, senders, customers, accounts and mishaps:

- `BotIsAlone`: one bot at most asks for updates, and messages go out by one that was
  not stopped. The invariant adds that a refresh under way holds a bot that was never
  launched;
- `NoticesKeepTheRate`: no window holds more sends than the limit, and two sends to a chat
  keep its interval. The document forgets events, so the invariant says that it still
  knows every grant that an interval may ask for (`GrantsAreKnown`), and that a refusal
  a sender caches is one the gate would repeat (`RefusalsHold`);
- `NoticeOnce`: a customer gets a notice once, plus once for each send to him whose outcome
  was not stored (`unsaved`: the worker died, or the database failed): whoever is at a
  customer is alone and holds the claim (`NoticeKept`);
- `NobodyIsLeftOut`: a notice that has ended left out nobody who was a customer all the
  time. The invariant follows the pages: before the cursor of every page, queued or under
  way, whoever stayed is settled (`TasksKept`, `PageKept`), and whoever stayed and is
  after the cursor is on the page or after the whole of it (`PageIsFirst`). So the next
  cursor, the greatest of the page, passes nobody over. It needs that there are finitely
  many customers, for a page that leaves somebody out to hold somebody;
- `ReportIsOfTheWallet`: what the report calls credited is what the wallet did, if no two
  accounts share a token (`~MaySwap`). `ReconInvariant` says where a row comes from: an
  administrator's hand, a line of an account whose request was approved without the raw
  number, or a line that the older release credited, which left the raw number on the
  request (`RowIsOf`). As approvals and lines are never taken back, a row keeps its
  origin; the rows of a line are those of its money (`BelongsByMoney`); without a
  conflict of numbers there is one at most, since one request cannot have the raw number
  and another reference (`OneRow`); and the totals are sums part by part (`AccountIs`,
  `AccountsAddUp`).

### All services together

`MCServicesProofs` proves the invariants of `ShopBot` and `QrChat` and then, for
`ServicesSpec`, in which one part moves:

- `WhatIsSaidIsDoneOnce`: a confirmation makes one order and an answer is taken once.
  The invariant: a cart knows the first one of its line, and what was asked or confirmed
  is spent by the one handler that took it from the session (`AskedOnce`, `SpentOnce`);
- `ServicesAreTyped`: `ServicesTypeOK`, the type invariants of all parts but two: the gate
  and the bank report have theirs, `GateTypeOK` and `ReconTyped`, in `ServiceProofs`;
- `TheBotIsHonest`: `TalkIsHonest`. For the chat, what an update knows of a request may be
  old but is not wrong: what is stored now follows from it (`Knows`, `Follows`), so what
  is told because of it is so (`SaidIsSo`);
- `ScreensShowTheTruth`: `ScreensAreTrue`, from the invariants of `AdminProofs`;
- `TheReportsAgree`: `ReportsAgree`, for any orders, events, days, amounts and any limit of
  the lists. Lists of customers and products are cut at `TopLimit`: they add up to the
  totals when nothing is cut, never tell more, and leave out no customer who bought for
  more than one they show (`LeadersAre`: the first rows of a sort are as many as the limit,
  or all). The lemmas are in `AdminProofs`. `SalesInvariant` says what the documents allow: what was
  delivered has a date in the past, only the old order is of the day before the first,
  and the key of a checkout leads to an order of the same customer and product
  (`SalesKeyed`), without which the two reports would count other purchases. The rest is
  arithmetic: a time is in a range of days if its day is (`WithinDays`), rows of disjoint
  parts add up (`RowsAddUp`, with `SumByParts` and `CountByParts` of `FiniteSums`), and
  after each day `$reduce` knows the longest run so far (`KnowsRuns`, `LaterDay`), so that
  the streak is the first longest interval (`StreakIsLongest`). The fold is again one
  over a `CHOOSE`, so its equations come from the induction over subsets;
- `TheStockIsAsPasted`: `StockIsAsPasted`, for any signs, keys, patterns and lines of any
  length, where the run has lines of up to four signs. The lemmas are in `CatalogProofs`.
  `PatternInvariant` says that the payload is a row that the pattern of the page reads
  from the line, and the message is that payload written by the pattern of its day. What
  is left is about one line and one pattern, and is no step of the system: the parts that
  `Split` finds exist (`PartsExist`: a function recursive over the places of keys has a
  value at every key), a separator stands right behind each part (`LiteralsStand`), so
  that writing the parts by the same pattern gives the line up to each sign of the
  pattern in turn (`WrittenAsRead`), the blanks that `normalize()` trims apart (`Solid`).
  No part holds its separator because `indexOf()` finds the first one
  (`PartHoldsNoLiteral`), and trimming moves no separator into a value
  (`ValueHoldsNoLiteral`). `FlattenSeq` is recursive too: its equations come from
  `CountingUp`, by which what holds at 0 and passes from each number to the next holds up
  to any number - again by a smallest counterexample.

`PartMoves` shows that a step is one of the part that moves, so `ServicesInvariant` is
the conjunction of the parts' invariants, each under its `part`.

### Assumptions

They are the named ones of the modules, among them that customers, orders, items,
accounts, numbers, requests, events and the rows of a file are finite sets: a database is finite at any time, but the
sets of the models are those of a whole behaviour, and sums and greatest elements need
it. Hypotheses of single theorems (`~MayJam`, `~MayStall`, `~MayOverrun`, `~MaySwap`,
`Quick = {}`) exclude what section 5 lists.

### Only model-checked

- Liveness (`OutboxDrains`, `TransferArrives`, `ApprovedCheckoutEnds`, `BotCatchesUp`,
  `NoticeComesToItsEnd`): fairness and ENABLED are beyond the prover.

Every safety property and every action property that a run checks is proved, under the
hypotheses named above where a theorem has one, and so is the refinement of `Sale` and of
`Till`. Two things stay open to a proof in their form: what a recursive function computes
is proved here only through sets of counterexamples (`CountingUp`, `SubsetInduction`), for
the functions these models use, not for recursion in general; and each violation in
section 3 is a behaviour that TLC finds, not a theorem.

## 5. What is excluded, and where the code is open

Some constants and variables exclude a case from a property *by name*, because the code
does not hold there. They are not bounds: each is a place to look at.

| name | excluded | code |
|---|---|---|
| `MayJam` | an item that no order may use: see disagreement 6 | `order.schema.ts:39`, `payment.service.ts:632` |
| `MayStall` | a fulfiller that stands still for longer than its lease of a minute between lease and sale may sell after another one failed the checkout. A function is killed after 60 seconds; a server is not | `payment.service.ts:675` |
| `MayOverrun` | a change of the bank accounts that is slower than its lease of fifteen seconds writes over another one | `bot-config.service.ts:523` |
| `MaySwap` | two accounts stored with one token (nothing forbids it, and archived ones are matched first): a transfer that a history check found under one id and a callback under the other gets two keys and is credited twice, against the comment at `payment.service.ts:307` | `bot-config.service.ts:174-181, 219-266` |
| `harm` | what leaves the bot in use without its hook until the token is changed again: a second call or write that fails (the first undone step fails too), a write that was done and reported as failed (`wroteNewSetting` is set when the write is answered, so nothing is taken back and the new token stays with the old hook, against the comment at 436-438), a process that dies between deleting the old hook and the end, and a deletion that was given up and later hits the bot in use | `bot-config.service.ts:421-445, 553-558` |
| planned before an edit | rows of an import under way while the fields of its product are renamed are stored under the old names, and no template shows them | `inventory-import.service.ts:45, 85-103` |
| `perUser` | an edit may set the limit of each customer below what one has used | `coupons.service.ts:207` |
| `disturbed` | the answer of a refresh is lost, or the page is loaded again during one: the next refresh presents a used token and ends the session | `page.tsx:155` |
| `overtaken` | a list that is loaded again after a change asks with the filters from when the change began | `operations-dashboard.tsx:182`, `complaint-manager.tsx:127` |
| `torn` | an undo that dies half way leaves its migration recorded, and a later run skips it | `runner.ts:41` |
| `spoiled` | an instance of the older release changes a preview and leaves the search values | `013-inventory-search.ts` |
| `steady` | a recipient who is suspended while his record is open holds the campaign up for ever | `admin-broadcast.processor.ts:70` |
| `dropped` | a page that used up its tries is not sent, nor are those behind it: the campaign stays `PENDING`, and on BullMQ asking for it again does nothing for a week | `admin-broadcast.queue.ts:14-16`, `main.ts:50`, `serverless-tasks.ts:145` |
| `RecordAges` | a claim is aged only when nobody is at that customer: a process that was stopped for five minutes in the middle of a send, and goes on, would send once more than is counted | `notification.schema.ts:12` |
| `unsaved`, `stops` | a send whose outcome was not stored (the process died, the database failed), or an answer of Telegram that is lost, costs one repetition | `admin-broadcast.processor.ts:42-66`, `messaging.service.ts:51` |

Other places that no property is about: `payment.service.ts:424, 449, 543` compare raw
references without the account, so that a transfer to one account whose number equals an
old raw reference of another is taken for its repetition; a suspended customer ends every
round of `releaseExpired()` at the same item (`inventory-reservation.service.ts:76`) and
cannot be refunded (`delivery-recovery.service.ts:64`); a payload with a value that ends
in a blank before a separator that overlaps itself is split differently when sent
(`inventory-import.service.ts:157`); a product of an older release without a valid
template is rendered by another rule (`delivery.processor.ts:209`); a logout while
requests run may be undone by the answer of their refresh (`page.tsx:144`), drafts may be
replaced or erased by answers (`page.tsx:369`, `message-center.tsx:190`), revealed
payloads may be shown in the wrong order (`page.tsx:302`); a message whose answer was
lost is sent again under a new id (`message-center.tsx:186`); a process that dies between
a settled complaint and its message says nothing (`warranty.service.ts:165`), and one that
dies between a campaign and its first task never starts it (`messaging.service.ts:160`);
undoing a migration may drop an index that an earlier one is recorded for
(`003-category-product-indexes.ts:18`). Most of these are states the modules reach; they
contradict no document, so they are described and not asserted.

Three simplifications are of the models and not of the code: the rate gate's answer takes
no time (`RateGate`: a worker that is slow after its grant sends later than counted), the
bank's history is always whole (`Reconciliation` leaves out `HISTORY_LIMIT`, of which the
report warns), and `Broadcast` counts a late function that is still alive as a failed
try at once.

`README.md:114` of the repository says that the cron releases expired reservations; the
code releases payment holds only, on purpose (`serverless-tasks.ts:176`), and a POST of
an administrator releases the others.

## 6. Not modelled, and why

- **Telegram webhook, encryption, configuration.** Authentication, cryptography and
  parsing of the environment: no protocol. A payload that cannot be decrypted is a fault
  of `Load`; updates that come twice are those of `ShopBot`.
- **Legacy payment holds** (`reservedPaymentRequestId`) are read in several places and
  created by nothing; webhooks of other providers and the status `REJECTED` likewise have
  no writer on the path of a bank transfer.
- **Forms and rendering** of the administration, menus and read-only views of the bot,
  and lists that only page through documents (histories, audit, deposits, abandoned
  checkouts). Their requests are the operations above.
- **Single-document edits** without a race of their own: categories, prices and the notice
  of a new price, the welcome text, the creation of a coupon.
- **Texts**: messages, formatting of money, dates and warranty, notes of the report,
  notifications and audit entries; and the deletion of the checkout prompt after a
  delivery, which is only in `QrChat`.

## 7. Plan

Done: the sale and its proofs; payments, coupons and their proofs; sessions, messages,
notices, configuration and runtime, pages, lists, import, migrations, the talk of the
bot, reconciliation, the reports over orders and the patterns of stock, with proofs.

Left, in order of weight: `Payment` with several products and accounts, so that `MaySwap`
can be checked together with the races; `Payment` over `Store`, so that a checkout is
credited in the same model that delivers it; and the release of several expired
reservations in the order of `findExpired()`. Of the proofs, nothing but liveness.
