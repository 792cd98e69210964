------------------------------ MODULE OrderStock ------------------------------
(***************************************************************************)
(* The request handlers that write the watches table, run concurrently by  *)
(* the Express server over one PostgreSQL connection pool:                 *)
(*                                                                         *)
(*   "order"     POST /api/v1/orders               server/routes/orders.ts   *)
(*   "checkout"  POST /api/v1/checkout (legacy)    server/routes/checkout.ts *)
(*   "setStock"  PUT  /api/v1/admin/watches/:id/stock  server/routes/admin.ts *)
(*                                                                         *)
(* Every awaited SQL statement is one action; other requests run between   *)
(* two statements.  PostgreSQL runs the transactions READ COMMITTED: a     *)
(* SELECT sees committed rows and takes no lock, an UPDATE (or an INSERT   *)
(* under a unique key) waits for the transaction that wrote the row and    *)
(* keeps the row locked until its own transaction ends.                    *)
(***************************************************************************)
EXTENDS Integers, Sequences, FiniteSets, Totals

CONSTANTS
    Request,    \* the requests the server receives
    Body,       \* the bodies they may carry
    WatchId,    \* the watch ids a body may name
    Watch,      \* the rows of the watches table
    Email,      \* the e-mail addresses a checkout may name
    Known,      \* the e-mails that have a customers row at the start
    InitStock,  \* stock_quantity of each watch at the start
    PoolSize,   \* connections of the pg pool
    LowStock,   \* a stock below this raises a low-stock alert
    MaxCrash,   \* bound on the restarts of the server process
    NoOne,      \* the holder of a lock that is free
    NoSale      \* the sale of an order that is not in the database

Line == [watch : WatchId, qty : Nat \ {0}]

RequestBody == [kind : {"order", "checkout", "setStock"},
                cart : Seq(Line), email : Email,
                watch : WatchId, level : Nat]

ASSUME BodyAssumption == Body \subseteq RequestBody
ASSUME StoreAssumption == /\ Watch \subseteq WatchId
                          /\ Known \subseteq Email
                          /\ InitStock \in [Watch -> Nat]
                          /\ WatchId \cap Email = {}
ASSUME LimitAssumption == /\ PoolSize \in Nat \ {0}
                          /\ LowStock \in Nat
                          /\ MaxCrash \in Nat
ASSUME AbsentAssumption == NoOne \notin Request /\ NoSale \notin [Watch -> Nat]

VARIABLES
    req,        \* the body of each request
    pc,         \* the statement each handler awaits next
    line,       \* the cart line its loop is at
    status,     \* the response it has decided on
    conn,       \* the requests that hold a pool connection
    stock,      \* watches.stock_quantity, committed
    draft,      \* the newest version of each row, perhaps uncommitted
    lockedBy,   \* the transaction that holds each row, or NoOne
    customers,  \* customers.email, committed
    tx,         \* the rows each open transaction has inserted
    placed,     \* the rows of each order, committed
    handedOff,  \* Kafka events and background jobs handed to their clients
    crashes     \* restarts so far

handler == <<req, pc, line, status>>
committed == <<stock, customers, placed>>
database == <<stock, draft, lockedBy, customers, tx, placed>>
vars == <<req, pc, line, status, conn, stock, draft, lockedBy, customers, tx,
          placed, handedOff, crashes>>

-----------------------------------------------------------------------------
(* Carts and rows.                                                          *)

NoUnits == [w \in Watch |-> 0]

\* UnitsUpTo(cart)[k][w]: the units of watch w in the first k lines of a cart.
UnitsUpTo(cart) ==
    LET units[k \in 0..Len(cart)] ==
            IF k = 0 THEN NoUnits
            ELSE [units[k - 1] EXCEPT ![cart[k].watch] = @ + cart[k].qty]
    IN  units

Units(cart) == UnitsUpTo(cart)[Len(cart)]

\* The rows of one order: is there an orders row, the units its order_items
\* and its stock_movements add up to, is there an invoices row.
Rows == [order : BOOLEAN, items : [Watch -> Nat], moves : [Watch -> Nat],
         invoice : BOOLEAN]

NoRows == [order |-> FALSE, items |-> NoUnits, moves |-> NoUnits,
           invoice |-> FALSE]

\* A transaction may be open while the handler awaits one of these.
InTx == {"findCustomer", "newCustomer", "checkLine", "insertOrder", "insertItem",
         "takeStock", "recordMovement", "invoice", "commit", "rollback"}

Step == InTx \cup {"connect", "setStock", "respond", "done",
                   "orphan", "inFlight", "lost"}

Status == {"none", "created", "ok", "missing", "notFound", "insufficient", "error"}

Sink == {"orders.created", "order-confirmation", "low-stock-alert"}

\* The loops walk the cart from its first line.
\* (Mutant: checkout walks it from the last.)
BackwardsCart(r) ==
    LET cart == req[r].cart
    IN  IF req[r].kind = "checkout"
        THEN [i \in 1..Len(cart) |-> cart[Len(cart) + 1 - i]] ELSE cart
Cart(r) == req[r].cart
Item(r) == Cart(r)[line[r]]
LastLine(r) == line[r] = Len(Cart(r))
IsOrder(r) == req[r].kind = "order"
IsCheckout(r) == req[r].kind = "checkout"

Goto(r, step, k) == /\ pc' = [pc EXCEPT ![r] = step]
                    /\ line' = [line EXCEPT ![r] = k]
                    /\ UNCHANGED <<req, status>>

\* The handler stops issuing statements and goes on at step with response s.
Leave(r, step, s) == /\ pc' = [pc EXCEPT ![r] = step]
                     /\ status' = [status EXCEPT ![r] = s]
                     /\ UNCHANGED <<req, line>>

\* stock_quantity - $1, computed by the UPDATE on the row version it locked.
\* (Mutants: the quantity of the line is forgotten; the difference is computed
\* from the quantity that was read before.)
OneUnitLess(r) == draft[Item(r).watch] - 1
StaleLess(r) == stock[Item(r).watch] - Item(r).qty
QuantityLess(r) == draft[Item(r).watch] - Item(r).qty

\* The loop over the cart that inserts order_items is finished.
\* (Mutant: a loop bound that is off by one.)
LastLineEarly(r) == line[r] >= Len(Cart(r)) - 1
AllItemsIn(r) == LastLine(r)

\* The early returns of checkout run ROLLBACK before they answer.
\* (Mutant: they only answer.)
AnswerOnly(r, s) == Leave(r, "respond", s)
Refuse(r, s) == Leave(r, "rollback", s)

\* What the handler fires and forgets once it is over.
\* (Mutants: the calls of POST /orders moved to finally; a topic misspelled.)
AnnounceAlways(r) ==
    IF IsOrder(r) THEN {<<"orders.created", r>>, <<"order-confirmation", r>>} ELSE {}
AnnounceElsewhere(r) ==
    IF status[r] = "created" /\ IsOrder(r) THEN {<<"order.created", r>>} ELSE {}
Announce(r) ==
    CASE status[r] = "created" /\ IsOrder(r) ->
            {<<"orders.created", r>>, <<"order-confirmation", r>>}
      [] status[r] = "ok" /\ req[r].level < LowStock -> {<<"low-stock-alert", r>>}
      [] OTHER -> {}

\* finally { client.release() }.
\* (Mutant: released on success only.)
ReleaseIfCreated(r) == IF status[r] = "created" THEN conn \ {r} ELSE conn
Release(r) == conn \ {r}

-----------------------------------------------------------------------------
(* What PostgreSQL does at the end of a transaction.                        *)

Unlock(r) == lockedBy' = [x \in Watch \cup Email |->
                            IF lockedBy[x] = r THEN NoOne ELSE lockedBy[x]]

CommitTx(r) ==
    /\ stock' = [w \in Watch |-> IF lockedBy[w] = r THEN draft[w] ELSE stock[w]]
    /\ customers' = customers \cup {e \in Email : lockedBy[e] = r}
    /\ placed' = [placed EXCEPT ![r] = tx[r]]
    /\ tx' = [tx EXCEPT ![r] = NoRows]
    /\ Unlock(r)
    /\ UNCHANGED draft

AbortTx(r) ==
    /\ draft' = [w \in Watch |-> IF lockedBy[w] = r THEN stock[w] ELSE draft[w]]
    /\ tx' = [tx EXCEPT ![r] = NoRows]
    /\ Unlock(r)
    /\ UNCHANGED committed

WriteLevel(r) ==
    IF req[r].watch \in Watch
    THEN /\ lockedBy[req[r].watch] = NoOne
         /\ stock' = [stock EXCEPT ![req[r].watch] = req[r].level]
         /\ draft' = [draft EXCEPT ![req[r].watch] = req[r].level]
         /\ UNCHANGED <<lockedBy, customers, tx, placed>>
    ELSE UNCHANGED database

-----------------------------------------------------------------------------
Init ==
    /\ req \in [Request -> Body]
    /\ pc = [r \in Request |-> "connect"]
    /\ line = [r \in Request |-> 1]
    /\ status = [r \in Request |-> "none"]
    /\ conn = {}
    /\ stock = InitStock
    /\ draft = InitStock
    /\ lockedBy = [x \in Watch \cup Email |-> NoOne]
    /\ customers = Known
    /\ tx = [r \in Request |-> NoRows]
    /\ placed = [r \in Request |-> NoRows]
    /\ handedOff = {}
    /\ crashes = 0

\* The schema refuses an order without items before the handler runs.
RejectBody(r) ==
    /\ pc[r] = "connect" /\ IsOrder(r) /\ Cart(r) = <<>>
    /\ Leave(r, "done", "missing")
    /\ UNCHANGED <<conn, database, handedOff, crashes>>

\* pool.connect() resolves.  A checkout without items is refused right away;
\* the others go on with BEGIN and their first statement.
Connect(r) ==
    /\ pc[r] = "connect" /\ ~(IsOrder(r) /\ Cart(r) = <<>>)
    /\ Cardinality(conn) < PoolSize
    /\ conn' = conn \cup {r}
    /\ IF IsCheckout(r) /\ Cart(r) = <<>>
       THEN Leave(r, "respond", "missing")
       ELSE Goto(r, CASE IsOrder(r)    -> "insertOrder"
                      [] IsCheckout(r) -> "findCustomer"
                      [] OTHER         -> "setStock", 1)
    /\ UNCHANGED <<database, handedOff, crashes>>

\* pool.connect() rejects: nothing was acquired, Express answers 500.
ConnectFails(r) ==
    /\ pc[r] = "connect" /\ ~(IsOrder(r) /\ Cart(r) = <<>>)
    /\ Leave(r, "done", "error")
    /\ UNCHANGED <<conn, database, handedOff, crashes>>

\* checkout: SELECT customer_id FROM customers WHERE email = ...
FindCustomer(r) ==
    /\ pc[r] = "findCustomer"
    /\ Goto(r, IF req[r].email \in customers THEN "checkLine" ELSE "newCustomer", 1)
    /\ UNCHANGED <<conn, database, handedOff, crashes>>

\* checkout: INSERT INTO customers.  It waits for a transaction that inserted
\* the same e-mail and fails on the unique key if that one committed.
\* (Mutant: sent to the pool, outside the transaction.)
NewCustomerOutside(r) ==
    /\ pc[r] = "newCustomer"
    /\ lockedBy[req[r].email] = NoOne
    /\ IF req[r].email \in customers
       THEN Leave(r, "rollback", "error") /\ UNCHANGED customers
       ELSE Goto(r, "checkLine", 1) /\ customers' = customers \cup {req[r].email}
    /\ UNCHANGED <<conn, stock, draft, lockedBy, tx, placed, handedOff, crashes>>
NewCustomer(r) ==
    /\ pc[r] = "newCustomer"
    /\ lockedBy[req[r].email] = NoOne
    /\ IF req[r].email \in customers
       THEN Leave(r, "rollback", "error") /\ UNCHANGED lockedBy
       ELSE /\ Goto(r, "checkLine", 1)
            /\ lockedBy' = [lockedBy EXCEPT ![req[r].email] = r]
    /\ UNCHANGED <<conn, stock, draft, customers, tx, placed, handedOff, crashes>>

\* watchData.stock_quantity < item.quantity.
\* (Mutant: the check asks only whether the watch is sold out.)
SoldOut(r) == stock[Item(r).watch] = 0
Insufficient(r) == stock[Item(r).watch] < Item(r).qty

\* checkout, first loop: SELECT stock_quantity, without a lock.
CheckLine(r) ==
    /\ pc[r] = "checkLine"
    /\ IF Item(r).watch \notin Watch
       THEN Refuse(r, "notFound")
       ELSE IF Insufficient(r)
            THEN Refuse(r, "insufficient")
            ELSE IF LastLine(r) THEN Goto(r, "insertOrder", 1)
                                ELSE Goto(r, "checkLine", line[r] + 1)
    /\ UNCHANGED <<conn, database, handedOff, crashes>>

\* INSERT INTO orders.
InsertOrder(r) ==
    /\ pc[r] = "insertOrder"
    /\ tx' = [tx EXCEPT ![r].order = TRUE]
    /\ Goto(r, "insertItem", 1)
    /\ UNCHANGED <<conn, committed, draft, lockedBy, handedOff, crashes>>

\* INSERT INTO order_items; the foreign key refuses a watch that has no row.
\* An order updates the stock of the line next, a checkout inserts all first.
InsertItem(r) ==
    /\ pc[r] = "insertItem"
    /\ IF Item(r).watch \notin Watch
       THEN Leave(r, "rollback", "error") /\ UNCHANGED tx
       ELSE /\ tx' = [tx EXCEPT ![r].items[Item(r).watch] = @ + Item(r).qty]
            /\ IF IsOrder(r) THEN Goto(r, "takeStock", line[r])
               ELSE IF AllItemsIn(r) THEN Goto(r, "takeStock", 1)
                                   ELSE Goto(r, "insertItem", line[r] + 1)
    /\ UNCHANGED <<conn, committed, draft, lockedBy, handedOff, crashes>>

\* UPDATE watches SET stock_quantity = stock_quantity - quantity.
TakeStock(r) ==
    /\ pc[r] = "takeStock"
    /\ lockedBy[Item(r).watch] \in {NoOne, r}
    /\ lockedBy' = [lockedBy EXCEPT ![Item(r).watch] = r]
    /\ draft' = [draft EXCEPT ![Item(r).watch] = QuantityLess(r)]
    /\ IF IsCheckout(r) THEN Goto(r, "recordMovement", line[r])
       ELSE IF LastLine(r) THEN Goto(r, "commit", line[r])
                           ELSE Goto(r, "insertItem", line[r] + 1)
    /\ UNCHANGED <<conn, committed, tx, handedOff, crashes>>

\* checkout: INSERT INTO stock_movements.
RecordMovement(r) ==
    /\ pc[r] = "recordMovement"
    /\ tx' = [tx EXCEPT ![r].moves[Item(r).watch] = @ + Item(r).qty]
    /\ IF LastLine(r) THEN Goto(r, "invoice", line[r])
                      ELSE Goto(r, "takeStock", line[r] + 1)
    /\ UNCHANGED <<conn, committed, draft, lockedBy, handedOff, crashes>>

\* checkout: INSERT INTO invoices.
InsertInvoice(r) ==
    /\ pc[r] = "invoice"
    /\ tx' = [tx EXCEPT ![r].invoice = TRUE]
    /\ Goto(r, "commit", line[r])
    /\ UNCHANGED <<conn, committed, draft, lockedBy, handedOff, crashes>>

\* COMMIT.
\* (Mutant: not awaited, its failure goes unnoticed.)
CommitUnawaited(r) ==
    /\ pc[r] = "commit"
    /\ CommitTx(r) \/ AbortTx(r)
    /\ Leave(r, "respond", "created")
    /\ UNCHANGED <<conn, handedOff, crashes>>
Commit(r) ==
    /\ pc[r] = "commit"
    /\ CommitTx(r)
    /\ Leave(r, "respond", "created")
    /\ UNCHANGED <<conn, handedOff, crashes>>

Rollback(r) ==
    /\ pc[r] = "rollback"
    /\ AbortTx(r)
    /\ pc' = [pc EXCEPT ![r] = "respond"]
    /\ UNCHANGED <<req, line, status, conn, handedOff, crashes>>

\* setStock: one UPDATE, committed by itself.  Its answer may be lost.
SetStock(r) ==
    /\ pc[r] = "setStock"
    /\ WriteLevel(r)
    /\ \/ Leave(r, "respond", IF req[r].watch \in Watch THEN "ok" ELSE "notFound")
       \/ Leave(r, "respond", "error")
    /\ UNCHANGED <<conn, handedOff, crashes>>

\* The synchronous end of the handler: what it fires and forgets, the
\* response, and the release of the connection in finally.
Respond(r) ==
    /\ pc[r] = "respond"
    /\ handedOff' = handedOff \cup Announce(r)
    /\ conn' = Release(r)
    /\ pc' = [pc EXCEPT ![r] = "done"]
    /\ UNCHANGED <<req, line, status, database, crashes>>

-----------------------------------------------------------------------------
(* Failures.                                                                *)

\* Any statement may fail.  The transaction stays open, with its locks, until
\* the ROLLBACK of the catch block.
StatementFails(r) ==
    /\ \/ pc[r] \in InTx \ {"rollback"} /\ Leave(r, "rollback", "error")
       \/ pc[r] = "setStock" /\ Leave(r, "respond", "error")
    /\ UNCHANGED <<conn, database, handedOff, crashes>>

\* The connection breaks: PostgreSQL aborts, the catch block's ROLLBACK rejects,
\* finally releases the client and Express answers 500.
ConnectionBreaks(r) ==
    /\ pc[r] \in InTx
    /\ AbortTx(r)
    /\ Leave(r, "respond", "error")
    /\ UNCHANGED <<conn, handedOff, crashes>>

\* The connection breaks after the COMMIT took effect and before its answer.
CommitUnacked(r) ==
    /\ pc[r] = "commit"
    /\ CommitTx(r)
    /\ Leave(r, "respond", "error")
    /\ UNCHANGED <<conn, handedOff, crashes>>

\* The row a statement has to wait for.
Wanted(r) == IF pc[r] = "newCustomer" THEN req[r].email ELSE Item(r).watch

Blocked(r) == /\ pc[r] \in {"newCustomer", "takeStock"}
              /\ lockedBy[Wanted(r)] \notin {NoOne, r}

\* A set of transactions in which each waits for another of the set.
Deadlocked(cycle) == /\ \A p \in cycle : Blocked(p)
                     /\ {lockedBy[Wanted(p)] : p \in cycle} = cycle

\* PostgreSQL fails the statement of one transaction of a cycle.
BreakDeadlock(r) ==
    /\ \E cycle \in SUBSET Request : r \in cycle /\ Deadlocked(cycle)
    /\ Leave(r, "rollback", "error")
    /\ UNCHANGED <<conn, database, handedOff, crashes>>

\* The server process restarts.  Responses and connections are gone; backends
\* are left with the transaction they had, or with a statement that ends one.
Crash ==
    /\ crashes < MaxCrash
    /\ crashes' = crashes + 1
    /\ pc' = [r \in Request |->
                CASE pc[r] \in {"commit", "setStock"} -> "inFlight"
                  [] pc[r] \in InTx \ {"commit"}      -> "orphan"
                  [] pc[r] = "respond"                -> "lost"
                  [] OTHER                            -> pc[r]]
    /\ status' = [r \in Request |-> IF pc[r] = "done" THEN status[r] ELSE "none"]
    /\ conn' = {}
    /\ UNCHANGED <<req, line, database, handedOff>>

BackendAborts(r) ==
    /\ pc[r] \in {"orphan", "inFlight"}
    /\ AbortTx(r)
    /\ pc' = [pc EXCEPT ![r] = "lost"]
    /\ UNCHANGED <<req, line, status, conn, handedOff, crashes>>

BackendFinishes(r) ==
    /\ pc[r] = "inFlight"
    /\ IF req[r].kind = "setStock" THEN WriteLevel(r) ELSE CommitTx(r)
    /\ pc' = [pc EXCEPT ![r] = "lost"]
    /\ UNCHANGED <<req, line, status, conn, handedOff, crashes>>

-----------------------------------------------------------------------------
Progress(r) ==
    \/ RejectBody(r) \/ Connect(r) \/ FindCustomer(r) \/ NewCustomer(r)
    \/ CheckLine(r) \/ InsertOrder(r) \/ InsertItem(r) \/ TakeStock(r)
    \/ RecordMovement(r) \/ InsertInvoice(r) \/ Commit(r) \/ Rollback(r)
    \/ SetStock(r) \/ Respond(r) \/ BreakDeadlock(r) \/ BackendAborts(r)

Failure(r) == \/ ConnectFails(r) \/ StatementFails(r) \/ ConnectionBreaks(r)
              \/ CommitUnacked(r) \/ BackendFinishes(r)

Ended == \A r \in Request : pc[r] \in {"done", "lost"}

Next == \/ \E r \in Request : Progress(r) \/ Failure(r)
        \/ Crash
        \/ Ended /\ UNCHANGED vars

Spec == Init /\ [][Next]_vars

\* The event loop and PostgreSQL run every statement that can run; nothing
\* makes a failure or a restart happen.
FairSpec == Spec /\ \A r \in Request : WF_vars(Progress(r))

-----------------------------------------------------------------------------
(* Properties.                                                              *)

TypeOK ==
    /\ req \in [Request -> Body]
    /\ pc \in [Request -> Step]
    /\ line \in [Request -> Nat \ {0}]
    /\ status \in [Request -> Status]
    /\ conn \in SUBSET Request
    /\ stock \in [Watch -> Int]
    /\ draft \in [Watch -> Int]
    /\ lockedBy \in [Watch \cup Email -> Request \cup {NoOne}]
    /\ customers \in SUBSET Email
    /\ tx \in [Request -> Rows]
    /\ placed \in [Request -> Rows]
    /\ handedOff \in SUBSET (Sink \X Request)
    /\ crashes \in 0..MaxCrash

\* An order is in the database with every row of it or with none: its
\* order_items add up to the cart, and a checkout also has its customer, its
\* invoice and a stock movement for every unit.
WholeOrders ==
    \A r \in Request :
        IF placed[r].order
        THEN /\ placed[r].items = Units(Cart(r))
             /\ IsCheckout(r) => /\ placed[r].moves = Units(Cart(r))
                                 /\ placed[r].invoice
                                 /\ req[r].email \in customers
        ELSE placed[r] = NoRows

\* A checkout that was refused or failed leaves no customers row behind: every
\* row that was not there at the start belongs to a checkout that bought.
CustomersBought ==
    \A e \in customers \ Known :
        \E r \in Request : IsCheckout(r) /\ req[r].email = e /\ placed[r].order

\* Whatever path a handler takes (success, early return, catch, a broken
\* connection, a restart), once it is over it holds no connection, no row lock
\* and no open transaction, and only a transaction that is open holds a lock.
NothingLeftBehind ==
    /\ \A r \in Request :
          (pc[r] \in InTx \cup {"orphan", "inFlight"} => req[r].kind = "setStock") =>
              /\ tx[r] = NoRows
              /\ \A x \in Watch \cup Email : lockedBy[x] # r
    /\ conn = {r \in Request : pc[r] \in InTx \cup {"setStock", "respond"}}
    /\ \A w \in Watch : lockedBy[w] = NoOne => draft[w] = stock[w]

\* What a client is told is true: 201 means the order is committed, 400 and 404
\* mean that it is not.  (500 means neither: see CommitUnacked.)
RepliesTruthful ==
    \A r \in Request :
        pc[r] \in {"respond", "done"} =>
            /\ status[r] = "created" => placed[r].order
            /\ status[r] \in {"missing", "notFound", "insufficient"} =>
                   ~placed[r].order

\* No event and no confirmation e-mail speaks of an order that is not
\* committed, and every order acknowledged to the client was handed to both.
AnnouncedOrdersExist ==
    \A r \in Request :
        /\ \A sink \in {"orders.created", "order-confirmation"} :
              <<sink, r>> \in handedOff => IsOrder(r) /\ placed[r].order
        /\ pc[r] = "done" /\ status[r] = "created" /\ IsOrder(r) =>
              {<<"orders.created", r>>, <<"order-confirmation", r>>} \subseteq handedOff

\* How far the transaction of r is: the cart lines that are in order_items,
\* that were taken from the stock, and that have a stock movement.
Inserted(r) ==
    CASE pc[r] = "insertItem"                -> line[r] - 1
      [] pc[r] = "takeStock" /\ IsOrder(r)    -> line[r]
      [] pc[r] = "takeStock" /\ IsCheckout(r) -> Len(Cart(r))
      [] pc[r] \in {"recordMovement", "invoice", "commit", "inFlight"} -> Len(Cart(r))
      [] OTHER -> 0

Taken(r) ==
    CASE pc[r] = "insertItem" /\ IsOrder(r) -> line[r] - 1
      [] pc[r] = "takeStock"                -> line[r] - 1
      [] pc[r] = "recordMovement"           -> line[r]
      [] pc[r] \in {"invoice", "commit", "inFlight"} -> Len(Cart(r))
      [] OTHER -> 0

Moved(r) ==
    IF IsOrder(r) THEN 0
    ELSE CASE pc[r] \in {"takeStock", "recordMovement"}   -> line[r] - 1
           [] pc[r] \in {"invoice", "commit", "inFlight"} -> Len(Cart(r))
           [] OTHER -> 0

\* A transaction that will commit if nothing fails.
Healthy(r) == /\ pc[r] \in (InTx \ {"rollback"}) \cup {"inFlight"}
              /\ req[r].kind # "setStock"

Books(r) ==
    /\ tx[r].order <=> pc[r] \notin {"findCustomer", "newCustomer", "checkLine",
                                     "insertOrder"}
    /\ tx[r].items = UnitsUpTo(Cart(r))[Inserted(r)]
    /\ tx[r].moves = UnitsUpTo(Cart(r))[Moved(r)]
    /\ tx[r].invoice <=> IsCheckout(r) /\ pc[r] \in {"commit", "inFlight"}
    /\ \A w \in Watch :
          LET taken == UnitsUpTo(Cart(r))[Taken(r)][w]
          IN  IF lockedBy[w] = r THEN draft[w] = stock[w] - taken ELSE taken = 0

\* At every statement of every transaction the rows it inserted and the stock
\* it took are those of the cart lines its loops have passed, and the stock it
\* took is still the committed stock less these lines, whatever else committed
\* in the meantime.
Bookkeeping == \A r \in Request : Healthy(r) => Books(r)

\* Requests, sold units and stock seen from outside implement the ledger: stock
\* changes only when a whole order commits, by exactly what it bought, or when
\* an administrator overwrites it.
Sale == [r \in Request |-> IF placed[r].order THEN placed[r].items ELSE NoSale]

Ledger == INSTANCE SaleLedger WITH Order <- Request, sale <- Sale

LedgerSpec == Ledger!Spec

\* Every request ends: waiting for a connection, for a row lock, or for each
\* other never lasts forever, because handlers always release what they hold
\* and PostgreSQL breaks cycles.
AllAnswered == \A r \in Request : <>(pc[r] \in {"done", "lost"})

\* No lock cycle ever forms.  True when all carts list their watches in one
\* order (the handlers update stock in cart order).
NoLockCycle == \A cycle \in (SUBSET Request) \ {{}} : ~Deadlocked(cycle)

\* "Insufficient stock" (checkout.ts:75-81): no sale takes more than there is.
NoOversell == \A w \in Watch : stock[w] >= 0

\* What the check of checkout does give when no cart lists a watch twice and the
\* server does not restart: what the checkouts take beyond the stock that the
\* unchecked orders left is at most PoolSize - 1 lines, however many requests come.
\* A checkout that was checked against stock that another one then took had its
\* transaction open, on a connection of the pool.
OrderedUnits(w) == SumOf([r \in Request |-> IF IsOrder(r) THEN placed[r].items[w] ELSE 0])

OversellBounded ==
    \A w \in Watch :
        \/ stock[w] + OrderedUnits(w) >= 0
        \/ \E body \in Body : \E i \in 1..Len(body.cart) :
              /\ body.kind = "checkout" /\ body.cart[i].watch = w
              /\ stock[w] + OrderedUnits(w) >= -(PoolSize - 1) * body.cart[i].qty
=============================================================================
