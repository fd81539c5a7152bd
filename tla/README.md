# TLA+ models of ProductSite

ProductSite is a shop: a Flask backend (`backend/app`) on MySQL through
SQLAlchemy, Redis for reservations, Stripe for payments, and a React front end
(`react-router-bootstrap-app/src`). Gunicorn runs the backend with four workers
(README.md:258) under pm2, which restarts it, and a second process,
`backend/scripts/redis_listener.py`, listens for expired reservations.

What can go wrong in it goes wrong around stock: the same rows are read and
written by several workers, a reservation lives in two databases, a payment
happens in a third place, and a browser drives the whole as a sequence of
requests that may be refused, lost, repeated or interleaved. Around that come
the cart, the tables of the catalogue, and the part of Redis that the
reservations depend on.

## The parts of the system

| Part | Source | State it owns | Modelled |
|---|---|---|---|
| Inventory handlers | `routes/inventory_routes.py` | table `inventory`, Redis `pending_inventory:*` | `InventoryRoutes` (all that write) |
| Purchase handlers | `routes/purchase_routes.py` | table `purchases`, Stripe payments | `PurchaseRoutes` (all that write) |
| Rollback listener | `scripts/redis_listener.py` | reads expiries, adds to `inventory` | `InventoryRoutes` |
| Checkout pages | `pages/CartPage.jsx`, `components/BillingModal.jsx` | React state of the cart page | `Checkout` |
| Order management | `pages/Orders.jsx` | sends PUT and DELETE for purchases | its requests, in `Store` |
| Inventory admin page | `components/InventorySection.jsx` | sends POST, PUT, DELETE for rows | its requests, in `Store` |
| Cart | `routes/cart_routes.py`, `context/CartContext.jsx` | table `cart_items`, a copy in every tab | `Cart` |
| Catalogue | `routes/kit_routes.py`, `models/kits.py` | `kits`, option and association tables | `Site` (not `create_kit`) |
| Reviews, favorites, newsletter | the routes of those names | one table each | `Site` |
| Accounts, sessions | `routes/auth_routes.py`, `user_settings_routes.py` | table `users`, session cookie | `delete_user`, in `Site` |
| Redis: keys, expiry, notifications | `redis-stable/src/db.c`, `expire.c`, `t_string.c`, `notify.c`, `pubsub.c`, `networking.c` | `db->keys`, `db->expires`, subscribers | `Redis`, `ExpiringKeys` |
| Redis: persistence | `redis-stable/src/rdb.c`, `server.c` | `dump.rdb`, `server.dirty` | `Redis` |
| Redis: hash table and expire cycle | `redis-stable/src/dict.c`, `kvstore.c`, `expire.c` | the two tables, `expires_cursor` | `RedisDict`, `ExpireCycle` |
| Redis: everything else | the rest of `backend/redis-stable` | | not used by the shop |
| Editable content | `routes/content_routes.py`, `EditableField.jsx` | `content.json`, `sessionStorage` | not modelled |
| Resources, addresses, health | the routes of those names | single inserts and reads | not modelled |
| Browsing and filters | `Cards.jsx`, `FilterBy.jsx`, ... | query parameters | not modelled |
| Deployment | `deploy.bat` | `notify-keyspace-events`, the listener | `Deploy`, in `Redis` |

`backend/redis-stable` is a vendored copy of Redis 8.0.0. The reservations rest
on a small part of it: keys with a deadline, the message that one has passed,
and what survives a restart. That part is modelled from its C source. The shop
sends no other command.

How the parts interact: Checkout in the browser sends one `POST /decrement` per
cart line; each deducts a row in MySQL and writes a pending key with a lifetime
of 30 minutes. If anything was reserved the billing modal opens. Submit sends
the cart to `POST /api/purchases`, which charges the card, looks up the rows,
deletes the pending keys and inserts the purchases. Cancel sends the reserved
warehouse lines to `POST /restore-reserved`. A key that expires makes Redis
publish a message, which the listener answers. Administrators edit rows and
move purchases between statuses, and a return credits the row.

## Modules

`StoreDB` holds the state that the handlers share, and what SQLAlchemy, MySQL,
gunicorn and pm2 do for every handler.

* `rows`, `nextRow`, `place`, `stock` are the table `inventory`; `orders`,
  `nextOrder`, `purchase` the table `purchases`; `redis` and `expired` the keys
  and the notifications under way; `charges` what Stripe has taken.
* `pc[w]` and `task[w]` are worker `w`: the place in a handler it is at, and
  its unit of work. A handler reads in one step and commits in another. In
  between it holds what `commit()` will write, as absolute values, because that
  is what the ORM emits. This is where lost updates come from.
* `CanCommit` is what the database refuses: an UPDATE that matches no row, and
  the foreign key from `purchases` to `inventory`. `CommitFails`, `Crash`,
  `AnswerLost` are the error paths every handler has.
* `charge` and `line` of a purchase are history variables: they tie a purchase
  to the payment, and the line of it, that it was made for.

`InventoryRoutes` and `PurchaseRoutes` have one definition per handler, with
the handler's name, for the part up to `commit()`, and one per later step
(`DecrementCommits`, `SetPending`, `PaymentSucceeds`, `ClaimItem`, ...). Early
returns are actions of their own (`DecrementRefused`, `RowNotFound`,
`LookupFails`, `UpdateRefused`, ...).

`Store` puts the two together with any number of workers, all requests of the
constants `Ops`, `Carts`, `Bodies`, `Levels`, expiries and the listener, and
states the properties of the tables.

`Checkout` composes the same handlers with the pages. A call of
`handleCheckout`, `handleSubmit` or `handleModalClose` is a thread
`<<function, user, n>>`; its local arrays are indexed by thread, the React state
by user. The constant `Worker` says how many calls of a function a page can
have under way, since no button is ever disabled. `Serial`, `Patient` and
`Faulty` choose the environment: one handler at a time or overlapping ones,
customers who wait for an answer or not, and what may fail.

`Shop` is the abstract specification: units are taken from a shelf that is not
empty, put back, or sold, and shelf plus sold never exceed the supply. The
property `KeepsPromise` says that `Checkout` implements it, with the quantity of
a row as its shelf and its purchases as what is sold.

`Cart` is one customer's cart. `rows` is the table `cart_items`; `cart[b]` is the
state of `CartContext` in tab `b`; `call[c]` is an asynchronous call of the page
with the cart of the render it was started in, which is all `addToCart` looks
at after its two awaits. A call goes from the page (`addToCart`, `Chosen`,
`updateQuantity`, ...) to the handler of the same request (`add_to_cart`,
`update_cart`, ...), its commit, and back (`setCart`); it may get lost on the
way. `wanted`, `used` and `calm` are history.

`Site` has the tables around the catalogue in the record `db`. A handler that
reads first holds in `job[w]` what it read; its commit is one step that applies
everything the session sends, or nothing. `Cascade` is what the relations of
`models/kits.py` and `models/inventory.py` make of deleting a kit. `Consistent`
is what MySQL enforces, foreign keys and unique columns.

`Redis` is the server as the shop uses it. `keys` and `expires` are the two
tables of a database; `subscribed` and `buffer` the listener's connection;
`dirty`, `dirty_before_bgsave`, `lastbgsave_status`, `child` and `rdb` are the
persistence. SETEX, GET, DEL, both kinds of expiry, save points, the BGSAVE
child, shutdown, crash, restart and deployment are its actions. Each SETEX
writes a number of its own, and the history variable `fate` records how that
life of the key ended.

`ExpiringKeys` is what the shop asks of Redis: keys that lapse, and notices of
it that may be lost. This is how `InventoryRoutes` models Redis: its
`SetPending` is `Put`, its `PendingExpires` is `Lapse` (with or without the
notice), `ListenerHandles` is `Take`. `ImplementsExpiringKeys` says that the
server, between restarts, is such a table.

`RedisDict` is the hash table of `dict.c` as operators on a record: resize,
incremental rehash, insert, find, delete and the scan with its reversed-binary
cursor. `ExpireCycle` runs `serverCron` over it step by step: the sampling loop
of `activeExpireCycle` (the scan of one cursor, a callback for each entry it
visited, the decision how to go on), the resize and rehash of `databasesCron`, the
end or the start of a saving child. Commands run between two calls of it.

`MCStore`, `MCCheckout`, `MCCart`, `MCSite`, `MCRedis` and `MCExpireCycle` give
constants their values. Eight modules hold the proofs: `StoreProofs`, `SerialProofs`
and `PageProofs` (which build on it), `CheckoutProofs` (which builds on
`PageProofs`), `CartProofs`, `SiteProofs`, `RedisProofs` and `ExpireProofs`.

A few definitions, named for the slip they contain (`AvailableOffByOne`,
`DecrementCommitsRelative`, `GotCloseStaysOpen`, ...), are no part of the
specifications. Each stands before the definition it distorts; put in its place
it makes the property that `PROJECT.json` pairs it with fail.

## What is abstracted

* `location` and `location_name` are one value. Addresses and coordinates are
  left out, but the address lookup can fail (`LookupFails`).
* Six statuses become three; the handlers only tell Returned from the others.
* Prices, dates and billing data are left out. A payment succeeds or fails.
* `restore-reserved` is given at most one line per row, as the page sends it.
* The listener reads and commits in one step. It never writes, since no
  handler writes the key it reads.
* A cart does not change while a checkout is under way.
* `Cart` is about one customer. A slot is a pair of kit and inventory row. The
  selector's choice is any slot. What is in stock is any answer.
* In `Site` one option table stands for four with the same code, and the
  inventory rows of a kit are there or not.
* In `Redis` time is a few ticks, `save` has one save point of one change, and a
  disk write fails or succeeds as a whole. The file's encoding is left out.
  Whether the expire cycle finds a key is left to `ExpireCycle`.
* In `RedisDict` a chain is a set, and a hash has as many bits as the tables need.
  `ExpireCycle` has one database and the slow cycle. Deadlines are the set of
  keys past theirs.
* A customer leaves the page only when no request of theirs is in flight.

## Runs

Bounds are constants: `MaxRow`, `MaxOrder` and `MaxCharge` cap what is ever
created, `MaxQty` a request, `MaxStock` what a row may be raised to (always more
than the supply where a property is about too much stock).

Runs that pass:

| Run | Instance | Checks |
|---|---|---|
| `store_race` | 2 workers, 1 user, 1 row of 2 units, 1 purchase, quantities 1-2 | `StockFloor` and `StockInv` under racing decrements, increments, edits, deletions, restores, returns, cancellations |
| `store_tables` | 2 workers, 2 rows, 3 purchases, carts of 0-2 lines, 2 payments | `TypeOK`, `PurchasesHaveRows`, `ChargedLineSoldOnce`, `ChargeInv` |
| `store_serial` | 1 worker, 2 users, 2 units, up to 2 rows and 2 purchases, one of them returned | `ReservationsFitStock`, `SerialInv`, `ReturnsBalance` |
| `checkout_patient` | 2 customers wanting 2 and 1 of 2 units, crashes, Redis errors | `PromiseInv`, `SoldLeftTheShelf`, `KeepsPromise` |
| `checkout_impatient` | 2 customers, a shipped and a pickup row, all faults | `ShelfNeverOverfull` |
| `checkout_ends` | 1 customer, 2 lines, 2 calls of `handleCheckout`, crashes | `PageTypeOK`, `CheckoutEnds` |
| `cart` | 2 tabs, 2 slots, 2 calls at a time, 4 clicks | `CartTypeOK`, `OneRowPerSlot`, `CalmCartIsTrue`, `CartInv` |
| `site` | 2 workers, 2 users, a kit, 3 inserted rows | `SiteTypeOK`, `SubscribedOnce`, `SiteInv`, `RefusedForCause`, `SavedReviewsStay`, `FavoritesFollowTheirKit` |
| `redis` | 1 key, 2 SETEX, 4 ticks, room for 1 message | see below |
| `expire_cycle` | 3 keys, tables of 1 to 8 buckets, 3 hash functions | `CycleTypeOK`, `LookupFindsAll`, `CycleInv`, `ScanMissesNothing`, `EntriesLeaveByName`, `DueKeysGo`, `CronReturns` |

`StockInv`, `ChargeInv`, `SerialInv`, `PromiseInv`, `CartInv`, `SiteInv`,
`RedisInv` and `CycleInv` are the inductive invariants of the proofs below.

What the properties of `redis` say of a reservation key: it is never announced
before the deadline of its own SETEX (`NeverEarly`). What became of it is
settled: an expiry is announced at most once, even when a crash brings the key
back from the file (`SettledFates`). Its life ends although nobody reads it
(`EverySetexEnds`). Of the file: with `dirty` at 0 and no child a crash loses
nothing (`CleanMeansSaved`), a shutdown saves everything whatever a child was
doing (`StoppedWithAllSaved`), and writes refused after a failed save are
accepted again (`WritesResume`). The notices, on the other hand, can be lost in
four ways, all in the model: the listener is down or its buffer is full; the
key lapses while the server is down; and after a restart of Redis nothing is
published until the next deployment, because `deploy.bat:519` uses CONFIG SET
and does not store it.

`ScanMissesNothing` is the promise in the comment above `dictScan`: a key present
from the start of an iteration to its end is returned. `DueKeysGo` shows that the
rule not to sample a sparse table (expire.c:127) does no harm in the long run:
once traffic pauses the table is shrunk, also after a child forbade it.

`RefusedForCause` says that a kit can always be deleted unless it has reviews or
something changed under the handler; the relations in `models/kits.py` have to
clear every reference for that. `SavedReviewsStay` is the other half: reviews
block the deletion and are never taken along.

Two workers are enough for every race here: a unit of work interferes with
another only through the values that were committed between its read and its
commit. One row suffices where the property is about one row; two appear where
rows are confused, deleted or moved between. Two units, with requests for one
and two, give the cases of enough, exactly enough and too little. In `cart` two
calls give every overlap of a click with an earlier one, and four clicks allow
two adds, a change and a removal. In `redis` two lives of one key are what one
life can be confused with, and four ticks let the second begin after the first
has lapsed. In `expire_cycle` the constants of `dict.c` and `expire.c` are scaled
down together (initial size 1 for 4, fill 2 for 8, ratio 2 for 4, 3 for 100), so
that three keys grow the table twice and shrink it again, stop a rehash half
way, and make it too sparse to sample.

Larger instances that also pass: `redis` with two keys (624,304 states) or three
SETEX (1,383,640); `expire_cycle` with all 64 hash functions, for its
invariants (653,664); `site` with one user and four rows (3,252,665).

Workers are a symmetry set in `store_race` and `store_tables`, tabs, slots and
calls in `cart`, users and workers in `site`: no formula tells the members
apart, and none of these runs checks liveness. Deadlock is not checked in `cart`
and `site`, where the bound on clicks or rows ends every behaviour.

Runs that end in a counterexample, each for a sentence of the documentation or
a comment that the code does not live up to:

| Run | What happens |
|---|---|
| `rollback` | a reservation expires, the listener handles it, nothing is put back |
| `billed_unreserved` | a line that could not be reserved is billed and sold |

Read together with the runs that pass they delimit the design: with one handler
at a time, customers who wait, no answer lost after its commit, and single-line
carts, the checkout implements `Shop`. Each assumption is needed. The following
changes to `CheckoutPatient.cfg` (the third one to `CheckoutImpatient.cfg`) give
counterexamples:

* `Patient = FALSE`: Cancel during the payment puts back what the payment sells
  (`SoldLeftTheShelf`), since Cancel stays enabled (BillingModal.jsx:202);
* `Worker <- TwoSubmits`, `Patient = FALSE`: two clicks on Submit sell one
  reserved unit twice (`SoldLeftTheShelf`);
* `Worker <- TwoCloses`: two clicks on Cancel put one reserved unit back twice
  (`ShelfNeverOverfull`);
* `Serial = FALSE`: two workers read 2 and both write 1, so that two units are
  reserved and one is deducted (inventory_routes.py:138);
* `"answer"` added to `Faulty`: the answer to a purchase is lost, the modal stays
  open, and Cancel puts the sold units back (`SoldLeftTheShelf`);
* `Opening <- TwoWarehouseKits`, `CartOf <- SecondRow`, `MaxRow = 2`: the
  warehouse row of another kit is deducted (`SoldLeftTheShelf`), since
  decrement_quantity looks a warehouse row up without its kit
  (inventory_routes.py:130).

The same holds for `StoreSerial.cfg`, without `SerialInv`, and for `Cart.cfg`:

* `Worker = {w1, w2}` in `StoreSerial.cfg`: the lost update again, as a violation
  of `ReservationsFitStock` (with decrements only) or of `ReturnsBalance`;
* `Bodies <- SaveBodies`: a PUT that carries only a date, on a Returned purchase,
  deducts its quantity (`ReturnsBalance`), since `new_status` is then None and
  differs from 'Returned' (purchase_routes.py:208). Save in `Orders.jsx:290`
  and `:291` sends such bodies;
* `Serial = FALSE` in `Cart.cfg`: two overlapping adds of one slot insert two rows
  (`OneRowPerSlot`); `CalmCartIsTrue` still holds.

That a row may hold a negative quantity is part of what `StockFloor` says: the
guard of decrement_quantity is `quantity <= 0`, whatever is asked for.

### Fairness

`CheckoutSpec` assumes weak fairness of the steps a page takes by itself (the
JavaScript event loop runs the continuation of an answered fetch) and of the
steps of a worker inside a handler (gunicorn runs it to its end, unless it
crashes, which is an answer too). Nothing is assumed of customers, of faults,
or of expiries. `CheckoutEnds` is checked with handlers that may overlap; with
`Serial` the model's single slot could be taken by other requests for ever.

`FairSpec`, used by `rollback`, further lets Redis expire keys and the listener
read its channel, so its counterexample is not one in which they merely stop.

`Redis` assumes that the clock advances, that `serverCron` goes on expiring keys
and reaping children, that the listener reads while it is connected, that a
stopped server is started again (systemd), and, as strong fairness, that forks
and disks which fail do not fail for ever. Without the last `WritesResume` could
not hold, whatever the code did.

`ExpireCycle` assumes that `serverCron` is called and runs to its end (the event
loop's timer), and that a saving child ends some day. `DueKeysGo` starts from a
pause in the traffic (`quiet`): commands that keep adding and deleting can keep
a table too sparse to be sampled, and TLC then shows a key that is never
collected until it is read.

## Proofs

A run checks a small instance. The theorems below hold for every value of the
constants that satisfies the named assumptions of the modules, which TLC
evaluates on its runs: `BoundsAssumption`, `OpeningAssumption` and
`InputsAssumption` for the store (bounds are natural numbers, a kit and a user
exist, requests and opening rows are well typed, opening purchases name opening
rows, a cart has one line per row), `CheckoutAssumption` (a thread is a call of a
function by a user, a cart has one line per row), `CartAssumption`, `SiteAssumption` and
`RedisAssumption` (bounds, and that `NoKit` is no kit), `DictAssumption` (below) and
`PowersAssumption` (powers of two are positive; the provers have no arithmetic of
exponents). Further assumptions are hypotheses of the theorem and named below.

### Any number of workers: `StoreProofs`

* `TypeCorrect`: `Spec => []TypeOK`;
* `StockFloorHolds`: `Spec => []StockFloor`.

`StockFloor` is not inductive: a worker that has read may commit at any later
time, whatever happened to the row since. What makes it hold is that the value
it will write was computed from the quantity it checked, so the invariant is
strengthened to `StockInv`: types, `WritesAboveFloor` (every pending write is
above the floor), and `HandlersHoldTheirInputs` (what a unit of work holds at
each place). The proof has four lemmas for the shapes of steps (`StartKeeps`,
`FinishKeeps`, `QuietKeeps`, `CommitKeeps`), one lemma per handler that shows
the handler fits its shape, and `NextStockInv`, which puts them together.

### Purchases and payments: `StoreProofs`

* `RowsOfPurchasesExist`: `Spec => []PurchasesHaveRows`;
* `ChargedLineSoldOnceHolds`: `Spec => []ChargedLineSoldOnce`;
* `FreshInvHolds`, for one worker, on which the next section builds.

`PurchasesHaveRows` is inductive relative to `StockInv`. The argument is that
`CanCommit` looks at the tables at commit time: an insert or a move needs its
row, and a delete takes every purchase of the row with it or is refused.

`ChargedLineSoldOnce` says nothing of a worker that has been paid and has not inserted
yet. `ChargeInv` adds `PaymentHeldOnce`: such a payment is held by one unit of
work, it is for that unit's customer and items, and no purchase is for it. The
insert then adds one purchase per line of a payment that had none.

### One worker: `SerialProofs`

* `ReturnsBalanceHolds`: `Spec => ReturnsBalance`;
* `ReservationsFitStockHolds`: `Spec => []ReservationsFitStock`.

Both are false with two workers, as lost updates show, so both assume
`OneWorker`. They also assume `StatusOnly`: a PUT carries a status and neither a
quantity nor a row. This is the first of the three PUTs of Save (`Orders.jsx:289`).
The other two carry a date only, and with them `ReturnsBalance` fails, as said
under the variants above.
`ReservationsFitStockHolds` further assumes that customers are finitely many and
`ReserveAndReturn`: decrement, purchase, update and create are the handlers that
run. Edits, increments and restores set stock to what the request says.
`store_serial` is an instance of these assumptions.

`Reserved` and `Returned` count units: pairs of a customer or a purchase and a
number up to the quantity. A change of one purchase then adds or removes one
known set of pairs, and the library's facts on cardinalities apply.

The invariant is `SerialInv`. Its first part, `FreshInv`, says that the listener
finds no rollback data and that what `update_purchase` is about to write is
computed from the current row (`FreshInvHolds`); `ReturnsBalance` follows at the
commit. Its second part, `FitInv`, adds the same of `decrement_quantity`, and
that the units of a deduction whose pending key is still to be written fit
beside the reservations. Without it, the step that writes the key would exceed
the bound.

### The pages on top of the store: `PageProofs`

* `PageTypeCorrect`: `CheckoutSpec => []PageTypeOK`;
* `CheckoutRunsStore`: `CheckoutSpec => Spec`, where `Spec` is that of `Store`;
* `CheckoutStockFloor`, `CheckoutChargesOnce`: what `StockFloor`,
  `ChargedLineSoldOnce` and `PurchasesHaveRows` say, of the shop with its pages.

These hold for overlapping handlers, impatient customers, lost answers, any
number of calls and carts of any length. `PageTypeOK` and `StockInv` are
inductive together: the handlers are given what the page's lists hold, and a
page's step is the answer of a handler. `CheckoutRunsStore` and `CheckoutChargesOnce`
assume `TakesPageRequests`: the store is one that takes decrements, purchases and
restores of every list with one line per row. That is no limit on the pages, only
a choice of `Ops` and `Carts`, which `Checkout` does not have.

### The promise: `CheckoutProofs`

* `SoldLeftTheShelfHolds`: `CheckoutSpec => []SoldLeftTheShelf`;
* `PromiseKept`: `CheckoutSpec => KeepsPromise`, the refinement of `Shop`.

Both assume `OneLineShop`: one handler at a time, customers who wait, no answer
lost after its commit, no purchases before the start, single-line carts that name
an opening row, and opening rows that a lookup by location (and kit, outside the
warehouse) tells apart; users and calls are finitely many. Crashes and Redis
errors stay allowed, and so do any number of customers, rows, units and calls of
each function. The list of variants above shows what happens without the main
ones. `checkout_patient` is an instance.

`SoldLeftTheShelf` is not inductive: it does not say who has the units that have
left the shelf and are not sold. `PromiseInv` says it. A call of `handleCheckout`
has the units it deducted from its commit until the call ends (`HasUnits`), then
the modal has them, until a purchase is inserted or a restore is committed
(`ModalHasUnits`). `UnitsFit` says that shelf, sold, `Billing` and `Reserving` units
fit the supply. `CheckoutIsFresh` and `ModalIsFresh` say of every call what it is
about to write, computed from the stock there is, and that a modal waits for one
call at a time. `OneHandlerRuns`, `RowsAsOpened` and `NoRollbackData` say why nothing
else moves the stock.

As in `Store`, units are counted as pairs of a buyer and a number up to the
quantity, so that no induction over a sum is needed. The lemmas `UnitsMore`,
`UnitsLess` and `UnitsFewer` say what one buyer more, one buyer fewer, or a smaller
set of buyers makes of a count. `QuietPromise` covers the steps that
move no units. `TakePromise`, `PutBackPromise` and `SellPromise` cover the three
commits: `DecrementCommits` moves units from the shelf to a call,
`InventoryCommits` of a restore from a modal to the shelf, `InsertCommits` from a modal to the
sold. `EndPromise` is the hand-over from a call to its modal. In the refinement
the commits are `Take`, `PutBack` and `Sell`, and every other step is a stutter.

### The cart: `CartProofs`

* `CartTypeCorrect`: `Spec => []CartTypeOK`;
* `OneRowPerSlotHolds`: `Spec => []OneRowPerSlot`, assuming `Serial`;
* `CalmCartIsTrueHolds`: `Spec => []CalmCartIsTrue`, also with overlapping handlers.

`Serial` says that no handler starts while another is between its read and its
commit. `OneRowPerSlot` needs `InsertsAreAlone`: handlers commit one at a
time, and an `add_to_cart` that found no row would still find none. `CalmCartIsTrue` speaks of
moments with nothing in flight. `CalmInv` says what holds between them: at most
one call is in flight, and `Behind` describes for each place of the call by what
the page and the table differ from what is wanted.

### The catalogue: `SiteProofs`

* `SiteTypeCorrect`: `Spec => []SiteTypeOK`;
* `SubscribedOnceHolds`: `Spec => []SubscribedOnce`;
* `RefusedForCauseHolds`, `SavedReviewsStayHolds`, `FavoritesFollowTheirKitHolds`:
  the three action properties.

`SiteInv` adds to types and `SubscribedOnce` what sessions hold (`SessionOK`),
what the database enforces (`Consistent`), and `SubscriberAlone`: a subscriber
that found no row is alone with its address, unless the address is in `raced`.
`RefusedForCause` uses all of it: if nothing changed under the handler and
there is no review, what `Cascade` leaves is consistent, so the commit succeeds.

### Redis: `RedisProofs`

* `RedisTypeCorrect`: `Spec => []RedisTypeOK`, which the run checks as part of
  `RedisInv`;
* `CleanMeansSavedHolds`, `StoppedWithAllSavedHolds`: the other two invariants of
  the run;
* `NeverEarlyHolds`, `SettledFatesHolds`: the two action properties;
* `RedisImplementsExpiringKeys`: `Spec => ImplementsExpiringKeys`.

`RedisInv` relates the three copies of the database. In memory, in the child and
in the file, a key holds what one SETEX wrote, with its deadline (`Owned`).
`FatesFollow` ties `fate` to the copies: a life that is held is in memory, one
that has ended is not. `BufferAnnounces` says that each message in the listener's
buffer is of a life that was announced. `ChildIsBehind` says that the
changes a child was forked for are still counted in `dirty`, and that its
snapshot is memory if nothing was changed since. So when the child ends and
`dirty` is lowered by `dirty_before_bgsave`, 0 means that the file is current;
`CleanMeansSaved` rests on this.

The refinement is proved step by step. Initial states map to initial states, and
each action of the server is a step of the table (`Put`, `Lapse`, `Take`,
`Remove`, `LoseNotices`), a stutter, or a restart, which the property leaves out.

### The hash table: `ExpireProofs`

* `LookupFindsAllHolds`: `Spec => []LookupFindsAll`;
* `EntriesLeaveByNameHolds`: `Spec => EntriesLeaveByName`.

They hold for every hash function, every table size and every value of the
constants of `dict.c` and `expire.c`. The keys must be finitely many and fewer
than the buckets of the largest table (`DictAssumption`): otherwise `_dictNextExp`
has no size to return.

`LookupFindsAll` is not inductive: it does not say where the entries are.
`CycleInv` says it (`DictOK`): there is a second table exactly while a rehash is
under way, an entry is in it only then, and an entry of table 0 is in a bucket at
`rehashidx` or above. A search skips the buckets below `rehashidx`, so it skips
no entry. Each operation of `dict.c` has a lemma that it keeps `DictOK` and which
entries it leaves (`ResizeKeeps`, `MoveKeeps`, `RehashKeeps`, `AddKeeps`,
`UnlinkKeeps` and others); `MoveKeeps` serves the bucket in turn and the bucket out
of turn alike. `dictRehash` goes to the least bucket that is not empty, which exists
because every set of natural numbers has a least element (`LeastNatural`).
`EntriesLeaveByName` follows from what the lemmas say of the entries.

### Only model-checked

* Liveness (`CheckoutEnds`, `EverySetexEnds`, `WritesResume`, `DueKeysGo`,
  `CronReturns`): the prover does not handle fairness.
* `ShelfNeverOverfull`: it is about the sum of the stock of all rows, a fold, and
  units move between rows in it (a decrement may deduct another warehouse row
  than the one restored); a proof needs induction over the fold.
  Carts of several lines are left out of `PromiseKept` because the property is
  false for them (`billed_unreserved`).
* `ScanMissesNothing` and the cursor's type in `CycleTypeOK`. What the scan visits
  depends on the reversed bits of its cursor, a sum over the bits, and on a walk
  over the larger table; what these compute for every table size needs induction
  over data. The rest of `CycleTypeOK` is part of `CycleInv`.

## Not modelled, and why

* Most of `backend/redis-stable`, some 178,000 lines of C. Lists, streams, sorted
  sets, scripting, modules, cluster, replication, Sentinel, AOF, ACLs, the
  allocator, the bundled libraries and the command-line tools are part of the
  server but no request of the shop reaches them. The modules stand for about
  two thousand of these lines, those on the path of a reservation key. A model
  of more would say something about Redis and nothing about this system.
* `create_kit`: two commits of one request. The second inserts inventory rows
  without the coordinates their column requires; it fails, the answer is 400,
  and the kit stays without rows. There is no interleaving to explore.
* Registration, login, passwords, profile edits: each reads and writes a row of
  its own.
* `content.json`: read, changed and written with no lock. The later of two
  writers wins and a reader may meet half a file; nothing says otherwise.
* Listings, filters, pagination, layout: no state outlives the request.
* Prices in floating point (`int(float(price) * 100)`), outside what TLC computes.
* E-mail, images, addresses and their geocoding, Stripe's own behaviour.

## Next

1. The cart changing during a checkout: `Cart` composed with `Checkout`.
2. The page of `Orders.jsx` with the three PUTs of Save in flight together.
3. A proof of `ShelfNeverOverfull`, with the stock of all rows as counted units.
