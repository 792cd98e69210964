# Verification of the watch store

TLA+ models of the watch store in this repository: an Express/PostgreSQL shop
(`server/`), a React client (`client/`), a Go service that forwards order events
from Kafka to ServiceNow (`integration-service/`), and background jobs
(`server/trigger/`). Paths below are relative to `src/`.

## 1. The system

| Component | State it keeps | Operations | Hard behaviour | What makes it correct |
|---|---|---|---|---|
| Order placement, `server/routes/orders.ts` | `orders`, `order_items`, `watches.stock_quantity` | `POST /orders` in one transaction; two reads | concurrent transactions, lock order, failures at every await, lost COMMIT answers | orders whole or absent; stock changes by what was sold; events only about committed orders |
| Legacy checkout, `server/routes/checkout.ts` | the above, `customers`, `stock_movements`, `invoices` | `POST /checkout`; one read | stock read without a lock, unique e-mail, early returns in a transaction | the same, plus no customer without a purchase |
| Administration, `server/routes/admin.ts` | `watches`, `orders.status` | stock count, order status, product edit and creation, reports | overwrites what others wrote | last writer known; no lost sale |
| Pool, `server/db.ts` | ten connections | connect, query, release | waiting without a timeout | every connection is released on every path |
| Order events, `server/kafka/producer.ts` | in-memory producer | fire and forget after COMMIT | lost on a crash, repeated by retries | no event without an order |
| Integration consumer, `integration-service/` | group offset, circuit breaker, `integration_logs`, dead letter topic | poll, check, forward with retries, dead letter, log | redelivery, kills between two calls, shutdown in a batch, timers | no event lost, log truthful |
| Stripe and PayPal, `server/routes/stripe.ts`, `paypal.ts` | `orders.status`, `payment_intent_id` | intents, webhook, confirmation, capture | webhooks repeated and late, money captured and the UPDATE failing | card money reaches its order; a recorded payment is a real one of this order |
| Accounts, `server/routes/auth.ts` | `customers` | register, login, me | SELECT, then bcrypt, then INSERT | one row for an e-mail; a token only for who knew the password |
| Chat, `server/routes/chat.ts`, `server/trigger/chat-async.ts`, `client/src/components/ChatWidget.tsx` | job, message list | trigger, poll | the client stops polling before the job ends | an answer stands under its question; the widget comes free |
| Background jobs, `server/trigger/` | mails, Jira issues, `integration_logs` | two mails, two cron jobs | retries, time windows | (not modelled) |
| Shell and catalogue, `server/app.ts` | rate-limit counters | lists, brands, readiness | filters, `LIMIT` and `OFFSET` | the pages partition the list |
| Cart and storefront, `client/src/App.tsx`, `pages/Store.tsx`, `WatchCategoryPage.tsx`, `ProductDetail.tsx` | cart, filters, lists | add, change, remove; fetch on filter | answers out of order | the list belongs to the filter |
| Client checkout, `client/src/pages/Checkout.tsx` | order id, step, secret | create order, pay, confirm | a failed answer about a committed order; calls that outlive their page | the form pays for the order shown, once, its total |
| Client session, `client/src/utils/auth.ts` | tokens, the shared refresh promise | fetch with one refresh and one retry, sign-in, logout | many 401 at once, logout meanwhile | one refresh at a time, one identity |
| Client admin panel, `client/src/pages/AdminPanel.tsx` | lists, statuses, rows as rendered | search, turn pages, change status, edit, create | debounce, answers out of order, refused changes | the list is that of the inputs; nothing shown that was not stored |
| Schema, migrations, scripts | keys, columns | create, categorise, import | defaults the migrations forget | (keys and defaults only) |

How they interact: the client calls the routes over HTTP; the routes share the
tables and the pool; `POST /orders` hands an event to Kafka and a job to
Trigger.dev after COMMIT; the consumer reads the events and shares only
`integration_logs` with the server; payment providers call back.

`PROJECT.json` lists every component with its status, and under `hazards` every
place where the code is exposed to something a test would hardly reach, with the
properties that cover it or why none does.

## 2. Modules

| Module | Models | Notes |
|---|---|---|
| `OrderStock` | `POST /orders`, `POST /checkout`, `PUT /admin/watches/:id/stock` over PostgreSQL and the pool | detailed |
| `SaleLedger` | what the three promise about stock and sales | abstract; `OrderStock` implements it |
| `IntegrationConsumer` | the consumer, its breaker, Kafka offsets, shutdown | detailed |
| `Payments` | the payment columns of `orders`, Stripe, PayPal, the administrator's status form | operators, one per awaited call |
| `ClientCheckout` | the checkout page and the cart it empties, over `Payments` | composition |
| `Accounts` | `customers` and tokens: register, login, guest checkout | operators, one per statement |
| `ClientSession` | `fetchWithAuth`, the shared refresh, sign-in, logout, `App`'s customer, over `Accounts` | composition |
| `Catalogue` | the reads of `server/app.ts`: lists, filters, pages | operators |
| `Storefront` | store, category page, product page, cart, over `Catalogue` | composition |
| `Chat` | the widget, its two routes, the job | detailed |
| `AdminPanel` | the administrator's page and its routes, beside customers who buy | detailed |
| `RequestQueue` | the requests a page has under way, and those that stay when it is left | used by `Storefront` and `AdminPanel` |
| `Totals` | `SUM` over the rows of a table | used by `OrderStock` |
| `MC...` | bodies, carts, records and lists for TLC; `MCShop` puts `Storefront` and `Chat` on one page | |
| `..._proofs` | theorems about `OrderStock`, `IntegrationConsumer`, `ClientCheckout`, `ClientSession`, `Storefront`, `Chat`, `AdminPanel` | |
| `SetInduction` | lemmas on natural numbers, loops, sequences and sums | used by the proofs |

`Keep` and `SumOf` are `SelectSeq` by place and a sum over a function, written as
recursive functions because the prover can expand those and not the library's
versions.

### OrderStock

Each request has a program counter `pc` that names the call its handler awaits
next, and a loop counter `line`. One action is one awaited statement, and runs up
to the next `await`; other requests interleave between them. The names of the
actions follow the statements: `FindCustomer`, `NewCustomer`, `CheckLine`,
`InsertOrder`, `InsertItem`, `TakeStock`, `RecordMovement`, `InsertInvoice`,
`Commit`, `Rollback`, `SetStock`, `Respond`.

PostgreSQL is modelled as far as the handlers can see it, at READ COMMITTED, the
default, since no route sets another level. `stock` is the committed value of
each row and `draft` its newest version; `lockedBy` is the transaction that wrote
it. A SELECT reads `stock`; an UPDATE waits for `lockedBy`, then works on `draft`.
A unique key locks in the same way. `tx` holds the rows a transaction inserted,
`placed` those that are committed. `BreakDeadlock` fails one statement of a cycle.

Failures: any statement may fail (`StatementFails`: `catch` runs ROLLBACK); the
connection may break (`ConnectionBreaks`: the ROLLBACK in `catch` rejects too,
`finally` still releases, Express sends 500); COMMIT may take effect without an
answer (`CommitUnacked`), and so may the stock UPDATE (`SetStock`); `pool.connect` may reject; the process may end (`Crash`),
which leaves PostgreSQL with backends that abort, or first finish the statement
in flight.

Left out: the administrator check and the read-only routes (no state); prices and
totals (no property is about them); `BEGIN`, which is part of `Connect`; a NULL
`stock_quantity`; quantities that are zero or negative in a checkout, which that
route does not validate. Requests that have not
reached the pool survive a restart: they stand for requests that arrive after it.
`PUT /admin/watches/:id` writes the same table but parses the UUID of a watch as
an integer, so it does not reach a row; `POST /admin/watches` adds a row the other
handlers do not yet know.

### IntegrationConsumer

`topic` is the partition, `committed` the group's offset. `fetched` counts the
records polls returned, `done` those processed, `head` those the Kafka client may
commit in the background: the records of polls before the last. `pc` is the next
call of `processRecord`, in the order of the code: idempotency check (`Begin`), the
adapter through the breaker (`Forward`, `ForwardFails`, `Refused`), the dead letter
topic (`SendToDLQ`), the log row (`InsertLog`). `FinishRecord` is the return to the
loop of `Start`, which looks at `ctx` between batches only.

The breaker has the states and the counter of gobreaker with the settings of the
code; `TimeoutElapses` and `IntervalElapses` are its two timers. `Signal` cancels
`ctx` (then a dead letter write may fail), `MainReturns` ends the process wherever
the consumer is (main does not wait for it), `Kill` ends it without warning,
`Restart` starts at `committed` with a closed breaker. `Flaky` says which parts
may fail: the database, the dead letter topic, the answer of ServiceNow. A record
whose value is not JSON has no log row: its payload column is JSONB. `sendToDLQ` only
logs that its write failed and the failed row is inserted all the same, so such a row
need not have its message: `dlqLost`, a history variable, holds the events this
happened to.

Left out: a second consumer and rebalances; the lengths of the backoffs; a dead
letter client that could not be created; JSON without an `orderId`; a connection
to ServiceNow that never answers (`http.Post` has no timeout).

### Payments and ClientCheckout

`orders` has what the payment routes write: a status and the payment that is
recorded; `intents` and `paypal` are what the two providers hold. The operators of
`Payments` are the awaited calls of the handlers, in the order of the code:
`CreatePaymentIntent`, the event of Stripe and the `UPDATE` of the webhook, `confirm-order`,
the capture at PayPal and the `UPDATE` after it, which may fail on its own.
`MarkPaid` has no guard, as the `UPDATE` has none.

`ClientCheckout` is one tab. Every async function of `Checkout.tsx` is a *task*: its
`pc` names the call it has sent or the answer on its way, and it goes on when the
page it started from is gone. `page` is the component's state, `visit` numbers its
mounts; what a task sets in a page that was left is ignored, what it does to the cart
of `App` is not. The two halves of a call end separately: when the client sees a
failure, or the tab is reloaded, a call that is under way may go on without it
(`Abandon`: the task stays, no longer `live`). The order, the intent, the charge, the
`UPDATE` of `confirm-order`, the capture and its `UPDATE` may then still happen,
answered to nobody, or never (`Orphaned`).

What the model has, and no property denies, because it is what the code does: PayPal
sends this shop no events, so captured money may never be recorded; an order may be
paid by card and by PayPal; a late webhook turns a status the administrator has set
back to processing; the success of a page that was left empties the cart that has been
filled since. The customer is logged in throughout (`handleLogout`, which also empties
the cart, is in `ClientSession` without it); `POST /orders` itself is one step here,
refined in `OrderStock`.

### Accounts and ClientSession

`accounts[e]` is the password of the row of `e`, `Guest` for a row a checkout made
(no password), or no row; `tokens[k]` says for whom a token was signed and which
password was presented. Registration is a `SELECT` (`ServeSelect`) and, a bcrypt
later, an `INSERT` that the unique key may refuse (`ServeInsert`).

In `ClientSession` three places say who is logged in: `store` (localStorage), `user`
(the state of `App`), and on MyOrders `shown`. A call through `fetchWithAuth` is
`first` (in flight), `wait` (for the refresh it shares), `second` (the one retry);
`refresh` and `promise` are `runRefreshRequest` and `refreshPromise`. Any request may
get a 401, because tokens expire and because `GET /orders/my` and `adminAuth` answer
401 to a failing query as well. The refresh route is not in this server: what it
answers is external, with or without a new refresh token. `AbandonedEnds` is the
server's half of a sign-in whose page was reloaded.

`raced` records that a sign-in began during another, or a logout happened during a
refresh. Then a late answer may undo the newer state: a logout is reversed, or a
session holds the token of one account and the customer of another. `auth.ts`
compares nothing, so this is what the code does; the identity properties hold up to it
and name it as the only cause. Further behaviour of the code that the model shows:
a late 401 of an old call logs out a new user; a failing login clears the session;
step 2 of Register does not look at the required fields of step 1; Buy Again puts
nothing into the cart (the items have no `watch_id`), reports success and goes to
`/cart`, which no route answers.

### Catalogue, Storefront and Chat

`Catalogue` gives the set of answers `GET /watches`, `/watches/brands-summary` and
`/watches/:id` may have for a query: filters are sets, prices and orders numbers.
`LIMIT` and `OFFSET` are modelled with the caps of the code. A tie in `ORDER BY price`
may fall either way in each read, so pages of a list sorted by price may repeat or
lose a watch; `PagesPartition` therefore speaks of the order by id. The rows and
the count of a page are two queries, modelled as one read.

In `Storefront` an effect of React sends a request when a dependency changed
(`fetches`), none is aborted, and answers come in any order or not at all; `newest`
says what became of the request sent last. What a component that is gone had
asked for is ignored, except that a failure in `ProductDetail` still navigates to
`/uhren`, from wherever the customer is by then. Other behaviour the model
has: a filter by gender or price alone shows an empty store; the JSON of an error
is taken for an empty list; the pages of the old list stay on the screen while a new
filter loads; `WatchCategoryPage` asks twice when it mounts or the address changes;
"all brands" falls back to the brand of the address; the upper end of the price
slider can fall below the lower; the quantity on a product page survives a jump in
the history; the filtered store hides watches over 1000 euros.

`Chat` is `sendMessage`: a question and a placeholder, the `POST`, at most 120 polls,
and a `finally`. The job ends when and how it likes, also after the widget has given
up; a crashed run never ends the polling early.

### AdminPanel

A request (in `requests`) takes effect on the server, then its answer arrives; it may be
refused, and it or its answer may be lost. The search is debounced (`timer`), page
buttons ask at once, answers overtake each other. `statuses` are the orders as shown,
changed only by an answer; `edit` is a row of the inventory with the inputs it got
when it was mounted. Beside the page, customers buy and payments arrive.

Two routes refuse whatever they are sent. The migrations make `watch_id` a UUID
without a default, while `PUT /admin/watches/:id` parses the id as an integer and
`POST /admin/watches` inserts a row without one; the types of the client and the
Swagger page call it an integer, and the tests mock the database. So an edit and a new
product are only ever refused or lost. (The stock count the page does not use,
`PUT /watches/:id/stock`, is in `OrderStock`.) A save that is lost leaves the
button of the row disabled until the row is mounted again, a 403 leaves the page.

## 3. Runs

| Run | Question | Instance |
|---|---|---|
| `pair` | Do the tables, locks, connections, answers and events stay consistent, and do the handlers implement `SaleLedger`? | 2 requests, each with any of 14 bodies (both cart orders, a watch twice, an unknown watch, an empty cart, a known and a new e-mail, stock counts), 2 watches, one restart, every failure |
| `trio` | Does every request end? | 3 requests, 2 connections, 4 bodies with opposite cart orders |
| `sorted` | Is lock order the only source of deadlock, and what does the stock check still give? | 3 requests, 2 connections, sorted carts, orders and checkouts |
| `oversell` (violation) | "Insufficient stock": is a sale beyond the stock refused? | 2 checkouts of the last units |
| `reliable` | With a dead letter topic that works: no event lost, log truthful, breaker exact, everything dealt with? | 2 orders and a bad record, topic of 2, 3 attempts, threshold 5, 2 signals or kills, database fails |
| `dlqdown` | With a dead letter topic that fails and lost answers: is every drop logged, and is a logged success final? | topic of 2, 2 signals or kills |
| `redelivery` (violation) | ROADMAP: duplicates are skipped | one kill |
| `interval` (violation) | ROADMAP: five failures in a row open the breaker | |
| `purchase` | Do money, order and page agree while calls overlap, fail and outlive their page; do card payments reach their orders and buttons come back? | 2 orders, 2 intents, 1 PayPal order, 2 tasks at once, cart of up to 2 units, 1 visit, 1 failure, an administrator |
| `session` | One refresh at a time, one identity, nobody else's orders, no call that waits for ever? | 2 accounts, 2 passwords, 4 tokens, 2 calls, 2 refreshes, 1 sign-in at a time |
| `shop` | Is what is shown what was asked for; do the pages partition the list; do answers stand under their questions? | 2 watches, 2 prices, 2 requests on their way, 1 change of a filter, cart of 2; 3 questions of 3 polls |
| `backoffice` | Is the list that of the inputs, and is nothing shown as done that was not; does the page come free? | 3 watches on pages of 1, 1 order, 3 statuses, 2 searches, 2 requests on their way |

Bounds. Two requests reach every pair of interleaved statements, which is what the
safety properties relate; a third one is needed to wait for a connection while two
wait for each other, and to oversell by more than one line. Two watches give a lock
cycle. Carts have at most two lines: the second differs from the first in all the
loops do. One restart, because nothing in memory survives it. A topic of two has a
batch of two, a duplicate, and enough failures for the breaker to open (3 + 2); two
stops give a kill during the redelivery that the first one caused. `MaxRequests` is
2 in place of 3 for the breaker's probes, to keep the half-open state reachable
and left within that topic. `trio` has no symmetry, because it checks liveness.

Two tasks of the checkout page are what two of its functions, or one function of two
moments, can do to each other; a third would only wait. Two orders and two intents
give a repeated order, a second intent for one order, and an intent of the other one.
The run has one visit, in which calls outlive the page or the client that sent them, by
reload or by failure; a second visit that meets them is in the theorems only, which hold
for any number. Its administrator sets `pending`, the status that turns a paid order back.
One failure at a time may hit any call; `OrdersPerVisit` counts them, `MaxFailures`
only bounds the state. `session` has two calls, so that one starts the refresh and
one joins it, two refreshes, so that a late one meets the next, and tokens for a
sign-in, two refreshes and an account somebody else registers; overlapping sign-ins
are in the theorems only. In `shop` and `backoffice` the parts share nothing but the page, so a
behaviour does one of them (`focus`): the sum of the state spaces, not the product.
Two requests on their way are what it takes for one to overtake the other; three
pages of one watch give a first, a middle and a last page; three polls stand for 120.

What the violations show. `oversell`: two checkouts read the same stock before
either updates it; `stock_quantity` goes negative. `redelivery`: a ticket is opened,
the process is killed before the log row, the event comes again, a second ticket.
`interval`: the count is cleared every 30 s, so five failures in a row may not trip
the breaker. Translating the code showed further differences between the documents
and the code, which the actions of the model have and no run is spent on: an event reaches the dead letter topic after fewer than three attempts when
the breaker is open (`docs/architecture.html:662`), a record that is not JSON leaves
no row in `integration_logs` (`docs/architecture.html:595`), and
`integration_events_dlq_total` counts records the topic did not take
(`consumer.go:57`); a failed row may stand for such a record too.

Fairness. `OrderStock!FairSpec`: weak fairness of each request's progress. The event
loop runs every continuation that is ready, PostgreSQL runs every statement that is
not blocked, its deadlock detector breaks cycles, it aborts the transactions of
connections that are gone. Weak fairness suffices because a waiting request waits
for a row or a connection only while another holds it, and the instance has finitely many
requests. No failure and no restart is fair.
`IntegrationConsumer!FairSpec`: the consumer takes its next call when it can, and
the background commit runs. Calls return because the Kafka client, the database
driver and the ServiceNow endpoint answer or fail: an assumption for the endpoint.
`ClientCheckout!FairSpec`: each task's call is served and answered or rejected (the
browser and Express do one of the two), and Stripe repeats an event until it is
acknowledged. Customer and administrator are not fair: nobody need click.
`ClientSession!FairSpec`, `Chat!ChatFairness`, `AdminPanel!Fairness`: every fetch
is answered or rejected; sign-ins, jobs, customers and clicks are not fair. In `MCShop`
the fairness of the chat applies to the behaviours that chat.

## 4. Theorems

All for every value of the constants that satisfies the named assumptions, with no
bound on requests, carts, topic, retries or restarts. The runs check each property on a small instance.

`OrderStock_proofs`

- `TypeCorrect`: `TypeOK` and `InBounds` (inside its loops `line` is a line of the cart).
- `Clean`: `NothingLeftBehind`, inductive with the types.
- `BooksKept`: `Bookkeeping`, by induction with `Clean`: while a transaction is
  healthy, what it inserted and took are the units of the lines it has passed. The
  step needs that adding one line to the units of `k` lines gives those of `k + 1`
  (`UnitsRecursion`, from `SetInduction`), and that no other transaction touches a
  row this one has locked.
- `ImplementsLedger`: every step of `Spec` is a step of `SaleLedger` or leaves its
  variables alone, under the refinement `sale[r] = placed[r].items` of placed orders.
  `BooksKept` supplies that what COMMIT publishes is what the order bought.
- `OrdersWhole`: `WholeOrders` and `CustomersBought`; the strengthening says that a
  late checkout holds its e-mail or the row is committed, and that rows are placed late only. `NoIdleCustomers` is its second half.
- `Truthful`: `RepliesTruthful` and `AnnouncedOrdersExist`; the strengthening ties
  each answer that was decided to what is placed. `EventsAreOfOrders` is its second half.
- `SortedCarts`: `NoLockCycle`, if every cart lists its watches in one order (a watch
  may be listed twice). `RowsPassed` says that each row a transaction holds stands in
  a line its loop has passed; so whoever waits in a cycle waits for a row that
  ranks higher than some row that is waited for in it, and the least one contradicts that.
- `OversellBound`: `OversellBounded`, for a finite set of requests, `MaxCrash = 0` and
  checkouts that list no watch twice. A restart is excluded because its backends may
  still commit while a new pool of connections checks the old stock; a repeated watch,
  because its lines are checked one by one. `Owed` is what a checkout has found in stock
  and not sold; `Covered` says that the stock, plus what unchecked orders took, less all
  that is owed, is short by at most one line for each *other* connection. A check that
  passes finds its own line in stock and so needs no more than what the others owe
  (`OthersOwe`); a sale moves units from owed to sold; a stock count starts from at least zero.
- `NoUnitLost`, a consequence no run spends a property on: without stock counts, what is in
  stock and what the committed orders hold add up to the initial stock.

`IntegrationConsumer_proofs`

- `TypeCorrect`: `TypeOK` and `Ordered` (`committed <= head <= done <= fetched <= Len(topic)`).
- `LogsHonest`: `LogsTruthful`: a success row has its ticket, a failed row its message in
  the dead letter topic or a failed write of it there; `LogInv` adds what is known
  between the last call to the outside and the log row.
- `NothingLost`: `NothingDropped`, when the dead letter topic does not fail by itself;
  `LossInv` says that everything before `head` is settled, and everything before
  `done` unless `ctx` is cancelled. It is needed because a cancelled context lets
  dead letter writes fail: those records are done and unsettled, but never in `head`.
- `NoTicketAfterSuccess`: `LoggedOnce`, when the database does not fail.
- `LossesAreKnown`: `AccountedFor`, when the rows of the log can be written; every record
  that `processRecord` has returned from is malformed, settled or logged as failed.
- `OpensOnlyOnFailures`: `OpensOnFailuresOnly`; the count of a closed breaker never exceeds
  the failures there were in a row.

`ClientCheckout_proofs`, for any number of tasks, visits, orders and failures

- `TypeCorrect` and `FormPaysItsOrderAlways` from `CoreInvariant`: the types, which
  calls each function makes (`PcOfKind`), that every id a task, an intent or the page
  holds is one that was made (`References`), and which tasks of the visit that is
  shown may overlap (`PageTasks`): the disabled buttons and the steps of the page
  are what keeps two writers of one field apart.
- `RecordedPaymentsAreReal`: `RecordedPaymentIsReal`. No route compares the intent with the
  order it is sent along with; `References` supplies that the client sends pairs
  that belong together.
- `CardMoneyIsNotLost`: `CardMoneyNotLost`: the event is owed until it was recorded.
- `CardIsChargedOnce`: `CardChargedOnce`. `OneInHand` says that at most one intent of an
  order has been or is about to be charged, and that while the page shows the order
  this is the intent it holds; `FreshOrders` that an order the page has not been told
  of has no intent.
- `AmountsAgree`: `AmountAgreed`, from what each task carries from one call to the next.
- `OneOrderPerVisit`: `OrdersPerVisit`, by counting: the orders of a visit, and the requests
  that may still commit one (`Late`), are at most one more than the failures the visit
  has reported, and no more than these while its page offers the button.

`ClientSession_proofs`, for any number of calls, refreshes, sign-ins and accounts

- `TypeCorrect`, `TokensAreEarned` (`TokensEarned`), `OneRefreshAtATime` (`OneRefresh`) and
  `RetriesAreFresh` (`RetryIsFresh`) from the invariant `Exchanges`: tokens in the tab were signed, an
  accepted sign-in holds its token, a refresh that runs is the shared one.
- `OneIdentityAlways` (`OneIdentity`) and `OrdersAreOfUser` (`OrdersOfUser`) from
  `Undisturbed`: unless there was a race, a running refresh is the user's, at most one
  sign-in can still be heard and nobody is logged in during it, and the calls of MyOrders carry
  tokens of the user.

`Storefront_proofs`, for any finite catalogue and any number of requests on their way

- `PagesCoverList`: `PagesPartition`. An order that names every matching watch once has as
  many places as there are watches (a pigeonhole argument), the place of a watch in the
  order by id is one more than the number of newer ones, and places divide into pages.
  `PerPage` is at most the limit of the route (24 and 200).
- `ShownWasAsked`: `ShownIsAsked`, if the catalogue is no larger than what one request of the
  store gets (the smaller of 500 and `ListLimit`, which is 200 in the code: a larger catalogue
  would be cut off on the screen). The invariant: while the page waits for its newest
  list, the last list request under way (`LastList`) has the query of the screen; once it is
  shown the rows are an answer to that query (`Agrees`); and the store always asks for the
  first page of 500 (`StoreAsks`).

`AdminPanel_proofs`, for any number of orders, watches and requests

- `ListIsOfInputs` (`ListOfInputs`) and `ShownIsHistory` (`ShownWasStored`) from one invariant.
  Of each request it says that it fits the page (`FitsPage`: the list asked for
  last has the inputs of the page, unless the timer will ask again) and that its answer is
  true (`Truthful`: it carries what was in the database at some time, and never says that an
  edit or a new product was accepted); of the page, that one request at most loads it
  (`OneLoader`) and nobody types meanwhile (`Untouched`), which is why the first list cannot
  be of older inputs.

`Chat_proofs`

- `AnswersBelow`: `AnswersFollowQuestions`. While a question is awaited, it and its
  placeholder end the conversation, so replacing the last message replaces the placeholder.

Only model-checked: the liveness properties `AllAnswered`, `AllCommitted`,
`CardPaymentsRecorded`, `ButtonsComeBack`, `CallsEnd`, `ChatFrees` and `PanelFrees`, because
fairness is out of the prover's reach. Every invariant and action property of a
passing run is a theorem. Induction over data with an operator parameter is out of reach
as well; `SetInduction` does it with sets of numbers: a loop of the code is a
sequence of values (`IterateExists`), and what holds of each of them is a set that contains
0 and is closed under successor. The sums (`SumChange`, `SumBound`) and the order of a list
rest on the same lemma.

## 5. Plan

1. Theorems about the compositions: what `Payments` promises an order, as an abstract
   specification that `ClientCheckout` implements.
2. `EventPipeline`: `OrderStock`'s hand-over, the in-memory producer, the topic; an
   abstract delivery specification that it and `IntegrationConsumer` implement.
3. `CategoryRules`: the order of the rules against a reference definition.

## 6. Not modelled

- Background jobs (`server/trigger/`): the mails are straight-line calls; the cron jobs
  keep nothing but what they write to other services. Reading them showed that
  `daily-report` counts from the midnight it starts at, and that
  `integration-log-analyzer` selects a column `id` that `integration_logs` does not
  have (its key is `log_id`).
- The in-memory client of kafkajs, rate limiting, CORS, logging, metrics, health and
  readiness: library code or wiring without state a property is about.
- Category rules and the import scripts: they run once, over rows nobody else writes.
- Rendering, languages, `nginx/`, `infra/`, dashboards and alerts, CI, load tests:
  configuration or view code without state of its own.
