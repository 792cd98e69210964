------------------------- MODULE ClientCheckout_proofs -------------------------
(***************************************************************************)
(* Theorems about ClientCheckout, for any number of orders, payments,      *)
(* tasks, visits of the page and failures.                                 *)
(***************************************************************************)
EXTENDS ClientCheckout, FiniteSetTheorems, TLAPS

-----------------------------------------------------------------------------
(* The inductive invariant.                                                 *)

\* A row that has been inserted, an intent and a PayPal order that were made.
Placed(o) == o \in Order /\ orders[o].status # "none"
Made(i) == i \in Intent /\ intents[i].state # "none"
Bought(p) == p \in PayPalOrder /\ paypal[p].state # "none"

\* Which calls belong to which function of the page.
PcOfKind ==
    \A t \in Task :
        \/ task[t] = Idle
        \/ task[t].kind \in PlaceKinds /\ task[t].pc \in {"placeOrder", "orderPlaced"}
        \/ task[t].kind \in {"placeCard", "method"} /\ task[t].pc \in {"createIntent", "intentMade"}
        \/ task[t].kind = "card" /\ task[t].pc \in {"charge", "confirm", "recorded"}
        \/ /\ task[t].kind = "paypal"
           /\ task[t].pc \in {"ppCreate", "ppApprove", "ppCapture", "ppCaptured", "recorded"}

\* A task knows an order once it has been placed, and from then on every id it
\* holds is that of a payment for this order.
TaskRefs(t) ==
    /\ task[t].pc \notin {"idle", "placeOrder"} => Placed(task[t].order)
    /\ task[t].pc \in {"intentMade", "charge", "confirm"} =>
          Made(task[t].pay) /\ intents[task[t].pay].order = task[t].order
    /\ task[t].pc = "confirm" => intents[task[t].pay].state = "succeeded"
    /\ task[t].pc \in {"ppApprove", "ppCapture", "ppCaptured"} =>
          Bought(task[t].pay) /\ paypal[task[t].pay].order = task[t].order
    /\ task[t].pc = "ppCaptured" => paypal[task[t].pay].state = "captured"

References ==
    /\ page.orderId # 0 => Placed(page.orderId)
    /\ page.secret # 0 => Made(page.secret) /\ intents[page.secret].order = page.orderId
    /\ \A t \in Task : TaskRefs(t)
    /\ \A i \in Intent : Made(i) => Placed(intents[i].order)
    /\ \A i \in webhooks : intents[i].state = "succeeded"

Places(t) == task[t].live /\ task[t].kind \in PlaceKinds
Switches(t) == Mounted(t) /\ task[t].kind = "method"
Prepares(t) == task[t].pc \in {"createIntent", "intentMade"}

\* The page and the tasks it has started: the buttons it disables keep them from
\* meeting another task of their kind.
PageTasks ==
    /\ page.step = "confirm" => page.secret = 0
    /\ ~page.open => page.orderId = 0 /\ page.secret = 0
    /\ \A t \in Task : task[t] # Idle => task[t].visit <= page.visit
    /\ \A t \in Task : Mounted(t) /\ Places(t) => page.loading /\ page.step = "confirm"
    /\ \A t \in Task : Switches(t) => page.preparing /\ page.step = "payment"
    /\ \A t \in Task : Mounted(t) /\ Prepares(t) =>
          page.orderId = task[t].order /\ page.secret = 0
    /\ \A t, u \in Task : Places(t) /\ Places(u) /\ task[t].visit = task[u].visit => t = u
    /\ \A t, u \in Task : Switches(t) /\ Switches(u) => t = u

\* An intent whose money is taken, or about to be.
InHand(i) == \/ intents[i].state = "succeeded"
             \/ \E t \in Task : task[t].pc = "charge" /\ task[t].pay = i

OneInHand ==
    /\ \A i, j \in Intent : InHand(i) /\ InHand(j) /\ intents[i].order = intents[j].order => i = j
    /\ \A i \in Intent : InHand(i) /\ intents[i].order = page.orderId => page.secret = i

\* Nothing refers to an order of which the page has not been told.
FreshOrders ==
    /\ \A t \in Task : task[t].pc = "placeOrder" => task[t].order = 0
    /\ \A t \in Task : task[t].pc = "orderPlaced" =>
          /\ page.orderId # task[t].order
          /\ \A i \in Intent : Made(i) => intents[i].order # task[t].order
          /\ \A u \in Task \ {t} : task[u].order # task[t].order

\* The amount a task carries is the total of the order it has placed.
TaskAmounts ==
    \A t \in Task : task[t].kind = "placeCard" /\ task[t].pc \in {"orderPlaced", "createIntent"} =>
        task[t].amount = orders[task[t].order].total

OrdersOf(v) == {o \in Order : orders[o].visit = v}

-----------------------------------------------------------------------------
(* Type correctness.                                                        *)

\* The ids of rows are not 0, which stands for none.
LEMMA Ids == /\ Order \subseteq Nat /\ Intent \subseteq Nat /\ PayPalOrder \subseteq Nat
             /\ 0 \notin Order /\ 0 \notin Intent /\ 0 \notin PayPalOrder
BY IdAssumption DEF IdAssumption

\* A task that does not run.
LEMMA IdleTyped == Idle \in TaskRow
BY DEF Idle, TaskRow, Kinds, PlaceKinds, Calls, Answers

\* Mounting, closing and reloading the page, and the cart.
LEMMA PageTyped ==
    ASSUME TypeOK
    PROVE  /\ Closed \in PageRow
           /\ \A v \in Nat : Mount(v) \in PageRow
BY DEF TypeOK, Closed, Mount, PageRow

\* A tab that has just been opened.
LEMMA TypeInit == Init => TypeOK
<1> SUFFICES ASSUME Init PROVE TypeOK
  OBVIOUS
<1>1. NoPayment \in Payment /\ NoOrder \in OrderRow /\ NoIntent \in IntentRow /\ NoPayPal \in PayPalRow
  BY DEF Payment, NoOrder, OrderRow, NoIntent, IntentRow, NoPayPal, PayPalRow, NoPayment
<1>2. PayTypeOK
  BY <1>1 DEF PayTypeOK, Init, PayInit
<1>3. page \in PageRow
  BY DEF Init, Mount, PageRow
<1>4. failures \in [1..MaxVisits -> Nat] /\ cart \in Nat
  BY DEF Init
<1> QED BY <1>2, <1>3, <1>4, IdleTyped DEF TypeOK, Init

\* An update of the rows of orders.
LEMMA MarkPaidTyped ==
    ASSUME PayTypeOK, NEW o, NEW p \in Payment, MarkPaid(o, p)
    PROVE  orders' \in [Order -> OrderRow]
BY DEF PayTypeOK, MarkPaid, OrderRow, Statuses

\* What involves no call.
LEMMA TypeCart ==
    TypeOK /\ (AddToCart \/ ChangeQuantity \/ OpenCheckout \/ LeaveCheckout \/ Reload) => TypeOK'
<1> SUFFICES ASSUME TypeOK, AddToCart \/ ChangeQuantity \/ OpenCheckout \/ LeaveCheckout \/ Reload
             PROVE  TypeOK'
  OBVIOUS
<1>1. PayTypeOK' /\ failures' \in [1..MaxVisits -> Nat]
  BY DEF TypeOK, PayTypeOK, AddToCart, ChangeQuantity, OpenCheckout, LeaveCheckout, Reload, payVars
<1>2. page' \in PageRow /\ cart' \in Nat
  <2> page.visit + 1 \in Nat /\ cart \in Nat /\ page \in PageRow
    BY DEF TypeOK, PageRow
  <2>1. CASE AddToCart
    BY <2>1, PageTyped DEF AddToCart, SetCart
  <2>2. CASE ChangeQuantity
    BY <2>2, PageTyped DEF ChangeQuantity, SetCart
  <2>3. CASE OpenCheckout
    BY <2>3, PageTyped DEF OpenCheckout
  <2>4. CASE LeaveCheckout \/ Reload
    BY <2>4, PageTyped DEF LeaveCheckout, Reload
  <2> QED BY <2>1, <2>2, <2>3, <2>4
<1>3. task' \in [Task -> TaskRow]
  <2>1. \A t \in Task : [task[t] EXCEPT !.live = FALSE] \in TaskRow
    BY DEF TypeOK, TaskRow
  <2>2. CASE Reload
    BY <2>1, <2>2, IdleTyped DEF TypeOK, Reload
  <2>3. CASE ~Reload
    BY <2>3 DEF TypeOK, AddToCart, ChangeQuantity, OpenCheckout, LeaveCheckout
  <2> QED BY <2>2, <2>3
<1> QED BY <1>1, <1>2, <1>3 DEF TypeOK

\* An answer and a start change the row of one task.
LEMMA ReplyTyped ==
    ASSUME TypeOK, NEW t \in Task, NEW row \in TaskRow, Reply(t, row) \/ Start(t, row)
    PROVE  /\ task' \in [Task -> TaskRow]
           /\ task'[t] \in {row, Idle}
           /\ \A u \in Task \ {t} : task'[u] = task[u]
BY IdleTyped DEF TypeOK, Reply, Start

\* The next call of a function.
LEMMA GotoTyped ==
    ASSUME TypeOK, NEW t \in Task, NEW pc \in Calls \cup Answers, Goto(t, pc)
    PROVE  task' \in [Task -> TaskRow]
<1>1. [task[t] EXCEPT !.pc = pc] \in TaskRow
  BY DEF TypeOK, TaskRow
<1> QED BY <1>1, ReplyTyped DEF Goto

\* The end of a function.
LEMMA EndTyped ==
    ASSUME TypeOK, NEW t \in Task, End(t)
    PROVE  task' \in [Task -> TaskRow]
BY IdleTyped DEF TypeOK, End

\* The client's half of a function ends.
LEMMA AbandonTyped ==
    ASSUME TypeOK, NEW t \in Task, Abandon(t)
    PROVE  task' \in [Task -> TaskRow]
<1>1. [task[t] EXCEPT !.live = FALSE] \in TaskRow
  BY DEF TypeOK, TaskRow
<1> QED BY <1>1 DEF TypeOK, Abandon

\* The start of a function.
LEMMA BeginTyped ==
    ASSUME TypeOK, NEW t \in Task, NEW kind \in Kinds, NEW pc \in Calls,
           NEW order \in Order \cup {0}, NEW pay \in Intent \cup {0}, NEW amount \in Nat,
           Start(t, Begin(kind, pc, order, pay, amount))
    PROVE  task' \in [Task -> TaskRow]
<1>1. Begin(kind, pc, order, pay, amount) \in TaskRow
  BY DEF TypeOK, TaskRow, Begin, PageRow
<1> QED BY <1>1, ReplyTyped

\* The tables after the calls of the payment routes.
LEMMA TablesTyped ==
    TypeOK /\ PcOfKind /\ References /\ [Next]_vars => PayTypeOK'
<1> SUFFICES ASSUME TypeOK, PcOfKind, References, [Next]_vars PROVE PayTypeOK'
  OBVIOUS
<1> USE DEF TypeOK, PayTypeOK
<1>1. ASSUME NEW t \in Task, OrderCommits(t) PROVE PayTypeOK'
  <2>1. task[t].amount \in Nat /\ task[t].visit \in Nat
    BY DEF TaskRow
  <2> QED BY <1>1, <2>1 DEF OrderCommits, PlaceOrder, OrderRow, Statuses, Payment
<1>2. ASSUME NEW t \in Task, IntentCreated(t) PROVE PayTypeOK'
  <2>1. task[t].order \in Order \cup {0} /\ task[t].amount \in Nat
    BY DEF TaskRow
  <2> QED BY <1>2, <2>1 DEF IntentCreated, CreatePaymentIntent, IntentAmount, IntentRow
<1>3. ASSUME NEW t \in Task, CardCharged(t) PROVE PayTypeOK'
  <2>1. task[t].pay \in Intent
    BY <1>3 DEF CardCharged, References, TaskRefs, Made
  <2> QED BY <1>3, <2>1 DEF CardCharged, ChargeCard, IntentRow
<1>4. ASSUME NEW t \in Task, OrderConfirmed(t) PROVE PayTypeOK'
  <2>1. Card(task[t].pay) \in Payment
    BY <1>4 DEF OrderConfirmed, References, TaskRefs, Made, Payment
  <2> QED BY <1>4, <2>1, MarkPaidTyped DEF OrderConfirmed, ConfirmOrder
<1>5. ASSUME NEW t \in Task, PayPalCreated(t) PROVE PayTypeOK'
  <2>1. task[t].order \in Order \cup {0}
    BY DEF TaskRow
  <2> QED BY <1>5, <2>1 DEF PayPalCreated, CreatePayPalOrder, PayPalRow
<1>6. ASSUME NEW t \in Task, Approve(t) \/ PayPalCaptured(t) PROVE PayTypeOK'
  <2>1. paypal' \in [PayPalOrder -> PayPalRow] /\ UNCHANGED <<orders, intents, webhooks>>
    BY <1>6 DEF Approve, ApprovePayPal, PayPalCaptured, CapturePayPal, PayPalRow
  <2> QED BY <2>1
<1>7. ASSUME NEW t \in Task, PayPalRecorded(t) PROVE PayTypeOK'
  <2>1. PayPal(task[t].pay) \in Payment
    BY <1>7 DEF PayPalRecorded, References, TaskRefs, Bought, Payment
  <2> QED BY <1>7, <2>1, MarkPaidTyped DEF PayPalRecorded, RecordPayPal
<1>8. ASSUME NEW i \in Intent, EventDelivered(i) \/ EventRepeated(i) PROVE PayTypeOK'
  <2>1. Card(i) \in Payment
    BY DEF Payment
  <2> QED BY <1>8, <2>1, MarkPaidTyped DEF EventDelivered, EventRepeated, Webhook, WebhookUnacked
<1>9. CASE AdminSetsStatus
  BY <1>9, AdminAssumption DEF AdminAssumption, AdminSetsStatus, SetStatus, OrderRow
<1>10. CASE UNCHANGED payVars
  BY <1>10 DEF payVars
<1>11. CASE AddToCart \/ ChangeQuantity \/ OpenCheckout \/ LeaveCheckout \/ Reload
  BY <1>10, <1>11 DEF AddToCart, ChangeQuantity, OpenCheckout, LeaveCheckout, Reload
<1>12. ASSUME NEW t \in Task,
              \/ OrderAnswered(t) \/ IntentAnswered(t) \/ Success(t) \/ Fails(t) \/ Orphaned(t)
              \/ ClickProceed(t) \/ PayByCard(t) \/ ClickPayPal(t)
              \/ \E m \in {"stripe", "paypal"} : SwitchMethod(t, m)
       PROVE  PayTypeOK'
  <2>1. UNCHANGED payVars
    BY <1>12 DEF OrderAnswered, IntentAnswered, Success, Fails, CatchBlock, Orphaned,
                 ClickProceed, PayByCard, ClickPayPal, SwitchMethod
  <2> QED BY <1>10, <2>1
<1>13. CASE UNCHANGED vars
  BY <1>10, <1>13 DEF vars, payVars
<1> HIDE DEF TypeOK, PayTypeOK
<1> QED BY <1>1, <1>2, <1>3, <1>4, <1>5, <1>6, <1>7, <1>8, <1>9, <1>11, <1>12, <1>13
        DEF Next, Settles, Customer

\* The tasks after a step of one of them.
LEMMA TasksTyped ==
    ASSUME TypeOK, References, NEW t \in Task, Settles(t) \/ Customer(t)
    PROVE  task' \in [Task -> TaskRow]
<1> USE DEF Calls, Answers, Kinds, PlaceKinds
<1>0. /\ page.orderId \in Order \cup {0} /\ page.secret \in Intent \cup {0} /\ cart \in Nat
      /\ task[t] \in TaskRow
  BY DEF TypeOK, PageRow
<1>1. CASE OrderCommits(t)
  <2>1. PICK o \in Order : Reply(t, [task[t] EXCEPT !.pc = "orderPlaced", !.order = o])
    BY <1>1 DEF OrderCommits
  <2>2. [task[t] EXCEPT !.pc = "orderPlaced", !.order = o] \in TaskRow
    BY <1>0 DEF TaskRow
  <2> QED BY <2>1, <2>2, ReplyTyped
<1>2. CASE IntentCreated(t)
  <2>1. PICK i \in Intent : Reply(t, [task[t] EXCEPT !.pc = "intentMade", !.pay = i])
    BY <1>2 DEF IntentCreated
  <2>2. [task[t] EXCEPT !.pc = "intentMade", !.pay = i] \in TaskRow
    BY <1>0 DEF TaskRow
  <2> QED BY <2>1, <2>2, ReplyTyped
<1>3. CASE PayPalCreated(t)
  <2>1. PICK p \in PayPalOrder : Reply(t, [task[t] EXCEPT !.pc = "ppApprove", !.pay = p])
    BY <1>3 DEF PayPalCreated
  <2>2. [task[t] EXCEPT !.pc = "ppApprove", !.pay = p] \in TaskRow
    BY <1>0 DEF TaskRow
  <2> QED BY <2>1, <2>2, ReplyTyped
<1>4. CASE CardCharged(t) \/ OrderConfirmed(t) \/ Approve(t) \/ PayPalRecorded(t)
  BY <1>4, GotoTyped DEF CardCharged, OrderConfirmed, Approve, PayPalRecorded
<1>5. CASE IntentAnswered(t) \/ Success(t) \/ Fails(t) \/ Orphaned(t)
  BY <1>5, EndTyped, AbandonTyped DEF IntentAnswered, Success, Fails, CatchBlock, Orphaned
<1>6. CASE OrderAnswered(t)
  BY <1>6, EndTyped, GotoTyped DEF OrderAnswered
<1>7. CASE ClickProceed(t)
  BY <1>0, <1>7, BeginTyped DEF ClickProceed
<1>8. CASE PayByCard(t)
  BY <1>0, <1>8, BeginTyped DEF PayByCard
<1>9. CASE ClickPayPal(t)
  BY <1>0, <1>9, BeginTyped DEF ClickPayPal
<1>10. ASSUME NEW m \in {"stripe", "paypal"}, SwitchMethod(t, m)
       PROVE  task' \in [Task -> TaskRow]
  <2>1. CASE UNCHANGED task
    BY <2>1 DEF TypeOK
  <2>2. CASE Start(t, Begin("method", "createIntent", page.orderId, 0, 0))
    BY <1>0, <2>2, BeginTyped
  <2> QED BY <1>10, <2>1, <2>2 DEF SwitchMethod
<1>11. CASE PayPalCaptured(t)
  <2>1. [task[t] EXCEPT !.pc = "ppCaptured"] \in TaskRow
    BY <1>0 DEF TaskRow
  <2> QED BY <1>11, <2>1 DEF TypeOK, PayPalCaptured
<1> QED BY <1>1, <1>2, <1>3, <1>4, <1>5, <1>6, <1>7, <1>8, <1>9, <1>10, <1>11 DEF Settles, Customer

\* What the catch and finally blocks do to the page.
LEMMA CatchPage ==
    ASSUME NEW t \in Task, Fails(t)
    PROVE  \/ page' = page /\ (Mounted(t) => task[t].kind \notin PlaceKinds \cup {"method"})
           \/ /\ Mounted(t) /\ task[t].kind \in PlaceKinds
              /\ page' = [page EXCEPT !.loading = FALSE, !.preparing = FALSE]
           \/ /\ Mounted(t) /\ task[t].kind = "method"
              /\ page' = [page EXCEPT !.preparing = FALSE,
                                      !.method = IF PayPalEnabled THEN "paypal" ELSE "stripe"]
           \/ /\ Mounted(t) /\ task[t].kind = "card"
              /\ page' = [page EXCEPT !.form = IF @ = t THEN NoTask ELSE @]
<1>1. CASE ~Mounted(t)
  BY <1>1 DEF Fails, CatchBlock
<1>2. CASE Mounted(t) /\ task[t].kind \in PlaceKinds
  BY <1>2 DEF Fails, CatchBlock
<1>3. CASE Mounted(t) /\ task[t].kind = "method"
  BY <1>3 DEF Fails, CatchBlock, PlaceKinds
<1>4. CASE Mounted(t) /\ task[t].kind = "card"
  BY <1>4 DEF Fails, CatchBlock, PlaceKinds
<1>5. CASE Mounted(t) /\ task[t].kind \notin PlaceKinds \cup {"method", "card"}
  BY <1>5 DEF Fails, CatchBlock
<1> QED BY <1>1, <1>2, <1>3, <1>4, <1>5

\* The page, the cart and the count of failures after a step of a task.
LEMMA PageAfterTask ==
    ASSUME TypeOK, PcOfKind, References, NEW t \in Task, Settles(t) \/ Customer(t)
    PROVE  page' \in PageRow /\ cart' \in Nat /\ failures' \in [1..MaxVisits -> Nat]
<1>0. /\ task[t] \in TaskRow /\ page \in PageRow /\ cart \in Nat
      /\ failures \in [1..MaxVisits -> Nat]
  BY DEF TypeOK
<1>1. CASE OrderAnswered(t)
  <2>1. task[t].order \in Order
    BY <1>1 DEF OrderAnswered, References, TaskRefs, Placed
  <2>2. /\ [page EXCEPT !.orderId = task[t].order, !.secret = 0, !.preparing = TRUE] \in PageRow
        /\ [page EXCEPT !.orderId = task[t].order, !.secret = 0,
                         !.step = "payment", !.loading = FALSE] \in PageRow
    BY <1>0, <2>1 DEF PageRow
  <2>3. page' \in PageRow
    BY <1>0, <1>1, <2>2 DEF OrderAnswered
  <2> QED BY <1>0, <1>1, <2>3 DEF OrderAnswered
<1>2. CASE IntentAnswered(t)
  <2>1. task[t].pay \in Intent
    BY <1>2 DEF IntentAnswered, References, TaskRefs, Made
  <2> QED BY <1>0, <1>2, <2>1 DEF IntentAnswered, PageRow
<1>3. CASE Success(t)
  BY <1>0, <1>3, PageTyped DEF Success, SetCart
<1>4. CASE Fails(t)
  <2>1. page' \in PageRow
    <3>1. /\ [page EXCEPT !.loading = FALSE, !.preparing = FALSE] \in PageRow
          /\ [page EXCEPT !.preparing = FALSE,
                           !.method = IF PayPalEnabled THEN "paypal" ELSE "stripe"] \in PageRow
      BY <1>0 DEF PageRow
    <3>2. [page EXCEPT !.form = IF @ = t THEN NoTask ELSE @] \in PageRow
      BY <1>0 DEF PageRow
    <3> QED BY <1>0, <1>4, <3>1, <3>2, CatchPage
  <2>2. UNCHANGED cart
    BY <1>4 DEF Fails, CatchBlock
  <2>3. failures' \in {failures, [failures EXCEPT ![task[t].visit] = @ + 1]}
    BY <1>4 DEF Fails, CatchBlock
  <2> QED BY <1>0, <2>1, <2>2, <2>3
<1>5. CASE ClickProceed(t)
  BY <1>0, <1>5 DEF ClickProceed, PageRow
<1>6. CASE PayByCard(t)
  BY <1>0, <1>6 DEF PayByCard, PageRow
<1>7. ASSUME NEW m \in {"stripe", "paypal"}, SwitchMethod(t, m)
      PROVE  page' \in PageRow /\ cart' \in Nat /\ failures' \in [1..MaxVisits -> Nat]
  <2>1. page' \in {[page EXCEPT !.method = m, !.form = NoTask],
                   [page EXCEPT !.method = m, !.form = NoTask, !.preparing = TRUE]}
    BY <1>7 DEF SwitchMethod
  <2>2. page' \in PageRow
    BY <1>0, <2>1 DEF PageRow
  <2> QED BY <1>0, <1>7, <2>2 DEF SwitchMethod
<1>8. CASE UNCHANGED <<page, cart, failures>>
  BY <1>0, <1>8
<1> QED BY <1>1, <1>2, <1>3, <1>4, <1>5, <1>6, <1>7, <1>8
        DEF Settles, Customer, OrderCommits, IntentCreated, CardCharged, OrderConfirmed,
            PayPalCreated, PayPalCaptured, PayPalRecorded, Orphaned, ClickPayPal, Approve

\* A step keeps the types, given that tasks hold ids of rows there are.
LEMMA TypeStep == TypeOK /\ PcOfKind /\ References /\ [Next]_vars => TypeOK'
<1> SUFFICES ASSUME TypeOK, PcOfKind, References, [Next]_vars PROVE TypeOK'
  OBVIOUS
<1>1. PayTypeOK'
  BY TablesTyped
<1>2. CASE AddToCart \/ ChangeQuantity \/ OpenCheckout \/ LeaveCheckout \/ Reload
  BY <1>2, TypeCart
<1>3. CASE \E t \in Task : Settles(t) \/ Customer(t)
  BY <1>1, <1>3, TasksTyped, PageAfterTask DEF TypeOK
<1>4. CASE UNCHANGED <<task, page, cart, failures>>
  BY <1>1, <1>4 DEF TypeOK
<1> QED BY <1>2, <1>3, <1>4 DEF Next, EventDelivered, EventRepeated, AdminSetsStatus, vars

-----------------------------------------------------------------------------
(* What a step leaves of the rows there are.                                *)

OrderStays(o) == Placed(o) => /\ Placed(o)'
                              /\ orders'[o].total = orders[o].total
                              /\ orders'[o].visit = orders[o].visit

IntentStays(i) == Made(i) => /\ Made(i)'
                             /\ intents'[i].order = intents[i].order
                             /\ intents'[i].amount = intents[i].amount
                             /\ intents'[i].with = intents[i].with
                             /\ intents[i].state = "succeeded" => intents'[i].state = "succeeded"

PayPalStays(p) == Bought(p) => /\ Bought(p)'
                               /\ paypal'[p].order = paypal[p].order
                               /\ paypal[p].state = "captured" => paypal'[p].state = "captured"

RowsStay == /\ \A o \in Order : OrderStays(o)
            /\ \A i \in Intent : IntentStays(i)
            /\ \A p \in PayPalOrder : PayPalStays(p)

\* The UPDATE that records a payment keeps the row, its total and its visit.
LEMMA MarkPaidStays ==
    ASSUME PayTypeOK, NEW o, NEW payment, MarkPaid(o, payment), UNCHANGED <<intents, paypal>>
    PROVE  RowsStay
BY DEF PayTypeOK, MarkPaid, RowsStay, OrderStays, IntentStays, PayPalStays, Placed, Made, Bought,
       OrderRow

\* No order, no intent and no PayPal order disappears, changes what it is for, or
\* loses its money.
LEMMA StepStays == TypeOK /\ [Next]_vars => RowsStay
<1> SUFFICES ASSUME TypeOK, [Next]_vars PROVE RowsStay
  OBVIOUS
<1> USE DEF PayTypeOK, RowsStay, OrderStays, IntentStays, PayPalStays, Placed, Made, Bought
<1>0. PayTypeOK
  BY DEF TypeOK
<1>1. ASSUME NEW t \in Task, OrderCommits(t) PROVE RowsStay
  BY <1>0, <1>1 DEF OrderCommits, PlaceOrder, NextId, NoOrder, OrderRow
<1>2. ASSUME NEW t \in Task, IntentCreated(t) PROVE RowsStay
  BY <1>0, <1>2 DEF IntentCreated, CreatePaymentIntent, NextId, NoIntent, IntentRow
<1>3. ASSUME NEW t \in Task, CardCharged(t) PROVE RowsStay
  BY <1>0, <1>3 DEF CardCharged, ChargeCard, IntentRow
<1>4. ASSUME NEW t \in Task, OrderConfirmed(t) PROVE RowsStay
  BY <1>0, <1>4, MarkPaidStays DEF OrderConfirmed, ConfirmOrder
<1>5. ASSUME NEW t \in Task, PayPalCreated(t) PROVE RowsStay
  BY <1>0, <1>5 DEF PayPalCreated, CreatePayPalOrder, NextId, NoPayPal, PayPalRow
<1>6. ASSUME NEW t \in Task, Approve(t) \/ PayPalCaptured(t) PROVE RowsStay
  BY <1>0, <1>6 DEF Approve, ApprovePayPal, PayPalCaptured, CapturePayPal, PayPalRow
<1>7. ASSUME NEW t \in Task, PayPalRecorded(t) PROVE RowsStay
  BY <1>0, <1>7, MarkPaidStays DEF PayPalRecorded, RecordPayPal
<1>8. ASSUME NEW i \in Intent, EventDelivered(i) \/ EventRepeated(i) PROVE RowsStay
  BY <1>0, <1>8, MarkPaidStays DEF EventDelivered, EventRepeated, Webhook, WebhookUnacked
<1>9. CASE AdminSetsStatus
  <2>1. "none" \notin AdminStatus
    BY AdminAssumption DEF AdminAssumption, Statuses
  <2> QED BY <1>0, <1>9, <2>1 DEF AdminSetsStatus, SetStatus, OrderRow
<1>10. CASE UNCHANGED payVars
  BY <1>10 DEF payVars
<1>11. CASE AddToCart \/ ChangeQuantity \/ OpenCheckout \/ LeaveCheckout \/ Reload
  BY <1>10, <1>11 DEF AddToCart, ChangeQuantity, OpenCheckout, LeaveCheckout, Reload
<1>12. ASSUME NEW t \in Task,
              \/ OrderAnswered(t) \/ IntentAnswered(t) \/ Success(t) \/ Fails(t) \/ Orphaned(t)
              \/ ClickProceed(t) \/ PayByCard(t) \/ ClickPayPal(t)
              \/ \E m \in {"stripe", "paypal"} : SwitchMethod(t, m)
       PROVE  RowsStay
  <2>1. UNCHANGED payVars
    BY <1>12 DEF OrderAnswered, IntentAnswered, Success, Fails, CatchBlock, Orphaned,
                 ClickProceed, PayByCard, ClickPayPal, SwitchMethod
  <2> QED BY <1>10, <2>1
<1>13. CASE UNCHANGED vars
  BY <1>10, <1>13 DEF vars, payVars
<1> HIDE DEF PayTypeOK, RowsStay, OrderStays, IntentStays, PayPalStays, Placed, Made, Bought
<1> QED BY <1>1, <1>2, <1>3, <1>4, <1>5, <1>6, <1>7, <1>8, <1>9, <1>11, <1>12, <1>13
        DEF Next, Settles, Customer

-----------------------------------------------------------------------------
(* The functions of the page.                                               *)

\* A step of a task leaves the others alone.
LEMMA OthersStay ==
    ASSUME NEW t \in Task, Settles(t) \/ Customer(t), NEW u \in Task, u # t, TypeOK
    PROVE  task'[u] = task[u]
BY DEF TypeOK, Settles, Customer, OrderCommits, OrderAnswered, IntentCreated, IntentAnswered,
       CardCharged, OrderConfirmed, PayPalCreated, PayPalCaptured, PayPalRecorded, Success,
       Fails, CatchBlock, Orphaned, ClickProceed, PayByCard, ClickPayPal, Approve, SwitchMethod,
       Goto, Reply, End, Abandon, Start

\* The answer of a call: the row goes on, or nobody waits for it.
LEMMA AfterReply ==
    ASSUME TypeOK, NEW t \in Task, NEW row, Reply(t, row)
    PROVE  task'[t] = Idle \/ (task[t].live /\ task'[t] = row)
BY DEF TypeOK, Reply

\* The fields that a task keeps from its start.
Continues(t) == /\ task'[t].live = task[t].live
                /\ task'[t].kind = task[t].kind
                /\ task'[t].visit = task[t].visit
                /\ task'[t].amount = task[t].amount

\* The next call of the same function.
LEMMA AfterGoto ==
    ASSUME TypeOK, NEW t \in Task, NEW pc, Goto(t, pc)
    PROVE  \/ task'[t] = Idle
           \/ /\ Continues(t) /\ task'[t].pc = pc
              /\ task'[t].order = task[t].order /\ task'[t].pay = task[t].pay
<1>1. task'[t] = Idle \/ (task[t].live /\ task'[t] = [task[t] EXCEPT !.pc = pc])
  BY AfterReply DEF Goto
<1>2. task[t] \in TaskRow
  BY DEF TypeOK
<1> QED BY <1>1, <1>2 DEF TaskRow, Continues

\* The capture is done, the UPDATE comes next, whoever listens.
LEMMA AfterCapture ==
    ASSUME TypeOK, NEW t \in Task, PayPalCaptured(t)
    PROVE  /\ Continues(t) /\ task'[t].pc = "ppCaptured"
           /\ task'[t].order = task[t].order /\ task'[t].pay = task[t].pay
<1>1. task[t] \in TaskRow /\ task'[t] = [task[t] EXCEPT !.pc = "ppCaptured"]
  BY DEF TypeOK, PayPalCaptured
<1> QED BY <1>1 DEF TaskRow, Continues

\* The answer of POST /orders.
LEMMA AfterOrder ==
    ASSUME TypeOK, NEW t \in Task, NEW o,
           Reply(t, [task[t] EXCEPT !.pc = "orderPlaced", !.order = o])
    PROVE  \/ task'[t] = Idle
           \/ /\ Continues(t) /\ task'[t].pc = "orderPlaced"
              /\ task'[t].order = o /\ task'[t].pay = task[t].pay
<1>1. \/ task'[t] = Idle
      \/ task[t].live /\ task'[t] = [task[t] EXCEPT !.pc = "orderPlaced", !.order = o]
  BY AfterReply
<1>2. task[t] \in TaskRow
  BY DEF TypeOK
<1> QED BY <1>1, <1>2 DEF TaskRow, Continues

\* The answers that carry the id of a payment.
LEMMA AfterPay ==
    ASSUME TypeOK, NEW t \in Task, NEW pc, NEW i, Reply(t, [task[t] EXCEPT !.pc = pc, !.pay = i])
    PROVE  \/ task'[t] = Idle
           \/ /\ Continues(t) /\ task'[t].pc = pc
              /\ task'[t].order = task[t].order /\ task'[t].pay = i
<1>1. task'[t] = Idle \/ (task[t].live /\ task'[t] = [task[t] EXCEPT !.pc = pc, !.pay = i])
  BY AfterReply
<1>2. task[t] \in TaskRow
  BY DEF TypeOK
<1>3. CASE task[t].live /\ task'[t] = [task[t] EXCEPT !.pc = pc, !.pay = i]
  <2>1. task'[t].pc = pc /\ task'[t].pay = i
    BY <1>2, <1>3 DEF TaskRow
  <2>2. /\ task'[t].live = task[t].live /\ task'[t].kind = task[t].kind
        /\ task'[t].visit = task[t].visit /\ task'[t].amount = task[t].amount
        /\ task'[t].order = task[t].order
    BY <1>2, <1>3 DEF TaskRow
  <2> QED BY <1>3, <2>1, <2>2 DEF Continues
<1> QED BY <1>1, <1>3

\* The end of a function.
LEMMA AfterEnd ==
    ASSUME TypeOK, NEW t \in Task, End(t)
    PROVE  task'[t] = Idle
BY DEF TypeOK, End

\* The start of a function.
LEMMA AfterStart ==
    ASSUME TypeOK, NEW t \in Task, NEW row, Start(t, row)
    PROVE  task[t] = Idle /\ task'[t] = row
BY DEF TypeOK, Start

\* The client's half is over: only calls that the server may still work on are
\* left, and nobody waits for them.
Left(t) ==
    \/ task'[t] = Idle
    \/ /\ task[t].pc \in Calls /\ task'[t].live = FALSE
       /\ task'[t].pc = task[t].pc /\ task'[t].kind = task[t].kind
       /\ task'[t].visit = task[t].visit /\ task'[t].order = task[t].order
       /\ task'[t].pay = task[t].pay /\ task'[t].amount = task[t].amount

\* A document load does that to every task.
LEMMA AfterReload ==
    ASSUME TypeOK, Reload, NEW t \in Task
    PROVE  Left(t)
<1>1. \/ task'[t] = Idle
      \/ task[t].pc \in Calls /\ task'[t] = [task[t] EXCEPT !.live = FALSE]
  BY DEF Reload
<1>2. task[t] \in TaskRow
  BY DEF TypeOK
<1> QED BY <1>1, <1>2 DEF TaskRow, Left

\* A failure that the client sees does it to one.
LEMMA AfterFail ==
    ASSUME TypeOK, NEW t \in Task, Fails(t)
    PROVE  Left(t)
<1>1. \/ task'[t] = Idle
      \/ task[t].pc \in Calls /\ task'[t] = [task[t] EXCEPT !.live = FALSE]
  BY DEF TypeOK, Fails, CatchBlock, End, Abandon
<1>2. task[t] \in TaskRow
  BY DEF TypeOK
<1> QED BY <1>1, <1>2 DEF TaskRow, Left

\* Steps of others than the tasks.
LEMMA TasksUntouched ==
    \/ AddToCart \/ ChangeQuantity \/ OpenCheckout \/ LeaveCheckout
    \/ (\E i \in Intent : EventDelivered(i) \/ EventRepeated(i)) \/ AdminSetsStatus
    \/ UNCHANGED vars
    => UNCHANGED task
BY DEF AddToCart, ChangeQuantity, OpenCheckout, LeaveCheckout, EventDelivered, EventRepeated,
       AdminSetsStatus, vars

\* No function makes a call of another.
LEMMA PcStep == TypeOK /\ PcOfKind /\ [Next]_vars => PcOfKind'
<1> SUFFICES ASSUME TypeOK, PcOfKind, [Next]_vars PROVE PcOfKind'
  OBVIOUS
<1> DEFINE Fits(row) ==
        \/ row = Idle
        \/ row.kind \in PlaceKinds /\ row.pc \in {"placeOrder", "orderPlaced"}
        \/ row.kind \in {"placeCard", "method"} /\ row.pc \in {"createIntent", "intentMade"}
        \/ row.kind = "card" /\ row.pc \in {"charge", "confirm", "recorded"}
        \/ /\ row.kind = "paypal"
           /\ row.pc \in {"ppCreate", "ppApprove", "ppCapture", "ppCaptured", "recorded"}
<1>1. \A t \in Task : Fits(task[t])
  BY DEF PcOfKind
<1>2. ASSUME NEW t \in Task, Settles(t) PROVE Fits(task'[t])
  <2> USE <1>1 DEF Idle, PlaceKinds, Continues
  <2>1. CASE OrderCommits(t)
    <3>1. PICK o \in Order : Reply(t, [task[t] EXCEPT !.pc = "orderPlaced", !.order = o])
      BY <2>1 DEF OrderCommits
    <3>2. task[t].pc = "placeOrder"
      BY <2>1 DEF OrderCommits
    <3>3. task'[t] = Idle \/ (Continues(t) /\ task'[t].pc = "orderPlaced")
      BY <3>1, AfterOrder
    <3> QED BY <3>2, <3>3
  <2>2. CASE OrderAnswered(t)
    BY <2>2, AfterGoto, AfterEnd DEF OrderAnswered
  <2>3. CASE IntentCreated(t)
    <3>1. PICK i \in Intent : Reply(t, [task[t] EXCEPT !.pc = "intentMade", !.pay = i])
      BY <2>3 DEF IntentCreated
    <3>2. task[t].pc = "createIntent"
      BY <2>3 DEF IntentCreated
    <3>3. task'[t] = Idle \/ (Continues(t) /\ task'[t].pc = "intentMade")
      BY <3>1, AfterPay
    <3> QED BY <3>2, <3>3
  <2>4. CASE PayPalCreated(t)
    <3>1. PICK p \in PayPalOrder : Reply(t, [task[t] EXCEPT !.pc = "ppApprove", !.pay = p])
      BY <2>4 DEF PayPalCreated
    <3>2. task[t].pc = "ppCreate"
      BY <2>4 DEF PayPalCreated
    <3>3. task'[t] = Idle \/ (Continues(t) /\ task'[t].pc = "ppApprove")
      BY <3>1, AfterPay
    <3> QED BY <3>2, <3>3
  <2>5. CASE CardCharged(t) \/ OrderConfirmed(t) \/ PayPalCaptured(t) \/ PayPalRecorded(t)
    BY <2>5, AfterGoto, AfterCapture DEF CardCharged, OrderConfirmed, PayPalCaptured, PayPalRecorded
  <2>6. CASE IntentAnswered(t) \/ Success(t) \/ Orphaned(t)
    BY <2>6, AfterEnd DEF IntentAnswered, Success, Orphaned
  <2>7. CASE Fails(t)
    <3>1. Fits(task[t])
      OBVIOUS
    <3>2. \/ task'[t] = Idle
          \/ /\ task[t].pc \in Calls
             /\ task'[t].pc = task[t].pc /\ task'[t].kind = task[t].kind
      BY <2>7, AfterFail DEF Left
    <3> QED BY <3>1, <3>2 DEF Calls
  <2> QED BY <1>2, <2>1, <2>2, <2>3, <2>4, <2>5, <2>6, <2>7 DEF Settles
<1>3. ASSUME NEW t \in Task, Customer(t) PROVE Fits(task'[t])
  <2> USE DEF PlaceKinds, Begin
  <2>1. CASE ClickProceed(t)
    BY <2>1, AfterStart DEF ClickProceed
  <2>2. CASE PayByCard(t)
    BY <2>2, AfterStart DEF PayByCard
  <2>3. CASE ClickPayPal(t)
    BY <2>3, AfterStart DEF ClickPayPal
  <2>4. CASE Approve(t)
    BY <1>1, <2>4, AfterGoto DEF Approve, Idle, Continues
  <2>5. ASSUME NEW m \in {"stripe", "paypal"}, SwitchMethod(t, m) PROVE Fits(task'[t])
    <3>1. CASE UNCHANGED task
      BY <1>1, <3>1
    <3>2. CASE Start(t, Begin("method", "createIntent", page.orderId, 0, 0))
      BY <3>2, AfterStart
    <3> QED BY <2>5, <3>1, <3>2 DEF SwitchMethod
  <2> QED BY <1>3, <2>1, <2>2, <2>3, <2>4, <2>5 DEF Customer
<1>4. CASE Reload
  <2> SUFFICES ASSUME NEW t \in Task PROVE Fits(task'[t])
    BY DEF PcOfKind
  <2>1. Fits(task[t])
    BY <1>1
  <2>2. \/ task'[t] = Idle
        \/ /\ task[t].pc \in Calls
           /\ task'[t].pc = task[t].pc /\ task'[t].kind = task[t].kind
    BY <1>4, AfterReload DEF Left
  <2> QED BY <2>1, <2>2 DEF Idle, PlaceKinds, Calls
<1>5. CASE UNCHANGED task
  BY <1>5 DEF PcOfKind
<1>6. ASSUME NEW t \in Task, Settles(t) \/ Customer(t) PROVE PcOfKind'
  <2> SUFFICES ASSUME NEW u \in Task PROVE Fits(task'[u])
    BY DEF PcOfKind
  <2> QED BY <1>1, <1>2, <1>3, <1>6, OthersStay
<1> QED BY <1>4, <1>5, <1>6, TasksUntouched DEF Next

-----------------------------------------------------------------------------
(* Where new ids come from.                                                 *)

\* The page gets its ids from the tasks it has started.
LEMMA PageIds ==
    ASSUME TypeOK, [Next]_vars
    PROVE  \/ page'.orderId = page.orderId /\ page'.secret = page.secret
           \/ page'.orderId = 0 /\ page'.secret = 0
           \/ \E t \in Task : /\ OrderAnswered(t) /\ Mounted(t)
                              /\ page'.orderId = task[t].order /\ page'.secret = 0
           \/ \E t \in Task : /\ IntentAnswered(t) /\ Mounted(t)
                              /\ page'.orderId = page.orderId /\ page'.secret = task[t].pay
<1> DEFINE Goal ==
        \/ page'.orderId = page.orderId /\ page'.secret = page.secret
        \/ page'.orderId = 0 /\ page'.secret = 0
        \/ \E t \in Task : /\ OrderAnswered(t) /\ Mounted(t)
                           /\ page'.orderId = task[t].order /\ page'.secret = 0
        \/ \E t \in Task : /\ IntentAnswered(t) /\ Mounted(t)
                           /\ page'.orderId = page.orderId /\ page'.secret = task[t].pay
<1>0. page \in PageRow
  BY DEF TypeOK
<1>1. CASE AddToCart \/ ChangeQuantity \/ OpenCheckout \/ LeaveCheckout \/ Reload
  BY <1>1 DEF AddToCart, ChangeQuantity, OpenCheckout, LeaveCheckout, Reload, SetCart, Closed, Mount
<1>2. ASSUME NEW t \in Task, OrderAnswered(t) PROVE Goal
  <2>1. CASE Mounted(t)
    <3>1. page'.orderId = task[t].order /\ page'.secret = 0
      BY <1>0, <1>2, <2>1 DEF OrderAnswered, PageRow
    <3> QED BY <1>2, <2>1, <3>1
  <2>2. CASE ~Mounted(t)
    BY <1>2, <2>2 DEF OrderAnswered
  <2> QED BY <2>1, <2>2
<1>3. ASSUME NEW t \in Task, IntentAnswered(t) PROVE Goal
  <2>1. CASE Mounted(t)
    <3>1. page'.orderId = page.orderId /\ page'.secret = task[t].pay
      BY <1>0, <1>3, <2>1 DEF IntentAnswered, PageRow
    <3> QED BY <1>3, <2>1, <3>1
  <2>2. CASE ~Mounted(t)
    BY <1>3, <2>2 DEF IntentAnswered
  <2> QED BY <2>1, <2>2
<1>4. ASSUME NEW t \in Task, Success(t) PROVE Goal
  BY <1>4 DEF Success, SetCart, Closed, Mount
<1>5. ASSUME NEW t \in Task, Fails(t) PROVE Goal
  BY <1>0, <1>5, CatchPage DEF PageRow
<1>6. ASSUME NEW t \in Task, Customer(t) PROVE Goal
  BY <1>0, <1>6 DEF PageRow, Customer, ClickProceed, PayByCard, ClickPayPal, Approve, SwitchMethod
<1>7. CASE UNCHANGED page
  BY <1>7
<1>8. ASSUME NEW t \in Task, Settles(t) PROVE Goal
  BY <1>2, <1>3, <1>4, <1>5, <1>7, <1>8
     DEF Settles, OrderCommits, IntentCreated, CardCharged, OrderConfirmed, PayPalCreated,
         PayPalCaptured, PayPalRecorded, Orphaned
<1> QED BY <1>1, <1>6, <1>7, <1>8
        DEF Next, EventDelivered, EventRepeated, AdminSetsStatus, vars

\* An intent is made by a task that asks for one, for its order.
LEMMA NewIntent ==
    ASSUME TypeOK, [Next]_vars, NEW i \in Intent, Made(i)', ~Made(i)
    PROVE  \E t \in Task : /\ IntentCreated(t)
                           /\ intents'[i].order = task[t].order
                           /\ intents'[i].amount = task[t].amount
                           /\ intents'[i].with = (task[t].kind = "placeCard")
                           /\ intents'[i].state = "open"
<1>0. PayTypeOK
  BY DEF TypeOK
<1>1. CASE UNCHANGED intents
  BY <1>1 DEF Made
<1>2. ASSUME NEW t \in Task, IntentCreated(t) PROVE intents'[i].order = task[t].order
                           /\ intents'[i].amount = task[t].amount
                           /\ intents'[i].with = (task[t].kind = "placeCard")
                           /\ intents'[i].state = "open"
  BY <1>0, <1>2 DEF IntentCreated, CreatePaymentIntent, IntentAmount, PayTypeOK, IntentRow, Made
<1>3. ASSUME NEW t \in Task, CardCharged(t) PROVE FALSE
  BY <1>0, <1>3 DEF CardCharged, ChargeCard, PayTypeOK, IntentRow, Made
<1> QED BY <1>1, <1>2, <1>3
        DEF Next, Settles, Customer, OrderCommits, OrderAnswered, IntentAnswered,
            OrderConfirmed, PayPalCreated, PayPalCaptured, PayPalRecorded, Success, Fails,
            CatchBlock, Orphaned, ClickProceed, PayByCard, ClickPayPal, Approve, SwitchMethod,
            AddToCart, ChangeQuantity, OpenCheckout, LeaveCheckout, Reload, EventDelivered,
            EventRepeated, Webhook, WebhookUnacked, AdminSetsStatus, SetStatus, payVars, vars,
            PlaceOrder, ConfirmOrder, CreatePayPalOrder, ApprovePayPal, CapturePayPal, RecordPayPal

\* The money of a card is taken by a task that holds the intent, and then Stripe
\* owes an event.
LEMMA NewSuccess ==
    ASSUME TypeOK, [Next]_vars, NEW i \in Intent, intents'[i].state = "succeeded",
           intents[i].state # "succeeded"
    PROVE  \E t \in Task : CardCharged(t) /\ task[t].pay = i /\ i \in webhooks'
<1>0. PayTypeOK
  BY DEF TypeOK
<1>1. CASE UNCHANGED intents
  BY <1>1
<1>2. ASSUME NEW t \in Task, IntentCreated(t) PROVE FALSE
  BY <1>0, <1>2 DEF IntentCreated, CreatePaymentIntent, PayTypeOK, IntentRow
<1>3. ASSUME NEW t \in Task, CardCharged(t) PROVE task[t].pay = i /\ i \in webhooks'
  BY <1>0, <1>3 DEF CardCharged, ChargeCard, PayTypeOK, IntentRow
<1> QED BY <1>1, <1>2, <1>3
        DEF Next, Settles, Customer, OrderCommits, OrderAnswered, IntentAnswered,
            OrderConfirmed, PayPalCreated, PayPalCaptured, PayPalRecorded, Success, Fails,
            CatchBlock, Orphaned, ClickProceed, PayByCard, ClickPayPal, Approve, SwitchMethod,
            AddToCart, ChangeQuantity, OpenCheckout, LeaveCheckout, Reload, EventDelivered,
            EventRepeated, Webhook, WebhookUnacked, AdminSetsStatus, SetStatus, payVars, vars,
            PlaceOrder, ConfirmOrder, CreatePayPalOrder, ApprovePayPal, CapturePayPal, RecordPayPal

\* Stripe has an event for money it has taken.
LEMMA NewWebhook ==
    ASSUME TypeOK, References, [Next]_vars, NEW i \in webhooks'
    PROVE  intents'[i].state = "succeeded"
<1>0. PayTypeOK /\ webhooks \in SUBSET Intent
  BY DEF TypeOK, PayTypeOK
<1>1. CASE i \in webhooks
  <2>1. i \in Intent /\ intents[i].state = "succeeded"
    BY <1>0, <1>1 DEF References
  <2>2. IntentStays(i)
    BY <2>1, StepStays DEF RowsStay
  <2> QED BY <2>1, <2>2 DEF IntentStays, Made
<1>2. ASSUME NEW t \in Task, CardCharged(t), i \notin webhooks
      PROVE  intents'[i].state = "succeeded"
  <2>1. i = task[t].pay /\ task[t].pay \in Intent
    BY <1>2 DEF CardCharged, ChargeCard, References, TaskRefs, Made
  <2> QED BY <1>0, <1>2, <2>1 DEF CardCharged, ChargeCard, PayTypeOK, IntentRow
<1> QED BY <1>1, <1>2
        DEF Next, Settles, Customer, OrderCommits, OrderAnswered, IntentCreated, IntentAnswered,
            OrderConfirmed, PayPalCreated, PayPalCaptured, PayPalRecorded, Success, Fails,
            CatchBlock, Orphaned, ClickProceed, PayByCard, ClickPayPal, Approve, SwitchMethod,
            AddToCart, ChangeQuantity, OpenCheckout, LeaveCheckout, Reload, EventDelivered,
            EventRepeated, Webhook, WebhookUnacked, AdminSetsStatus, SetStatus, payVars, vars,
            PlaceOrder, CreatePaymentIntent, ConfirmOrder, CreatePayPalOrder, ApprovePayPal,
            CapturePayPal, RecordPayPal

-----------------------------------------------------------------------------
(* References: every id that is held is that of a row for the right order.  *)

\* RowsStay, for ids that may not be typed.
LEMMA Kept ==
    ASSUME RowsStay
    PROVE  /\ \A o : Placed(o) => /\ Placed(o)' /\ orders'[o].total = orders[o].total
                                 /\ orders'[o].visit = orders[o].visit
           /\ \A i : Made(i) => /\ Made(i)' /\ intents'[i].order = intents[i].order
                                /\ intents[i].state = "succeeded" => intents'[i].state = "succeeded"
           /\ \A p : Bought(p) => /\ Bought(p)' /\ paypal'[p].order = paypal[p].order
                                  /\ paypal[p].state = "captured" => paypal'[p].state = "captured"
BY DEF RowsStay, OrderStays, IntentStays, PayPalStays, Placed, Made, Bought

\* A task that does not run refers to nothing.
LEMMA IdleRefs == ASSUME NEW t \in Task, task'[t] = Idle PROVE TaskRefs(t)'
BY DEF TaskRefs, Idle

\* A task that keeps its call keeps its references.
LEMMA RefsKept ==
    ASSUME RowsStay, References, NEW t \in Task, task'[t].pc = task[t].pc,
           task'[t].order = task[t].order, task'[t].pay = task[t].pay
    PROVE  TaskRefs(t)'
<1>1. TaskRefs(t)
  BY DEF References
<1> QED BY <1>1, Kept DEF TaskRefs

\* The references of a task after a step of its own.
LEMMA RefsStep ==
    ASSUME TypeOK, References, PageTasks, [Next]_vars, NEW t \in Task, Settles(t) \/ Customer(t)
    PROVE  TaskRefs(t)'
<1>0. RowsStay /\ TaskRefs(t) /\ PayTypeOK /\ task[t] \in TaskRow
  BY StepStays DEF References, TypeOK
<1>1. CASE OrderCommits(t)
  <2>1. PICK o \in Order : /\ Reply(t, [task[t] EXCEPT !.pc = "orderPlaced", !.order = o])
                           /\ PlaceOrder(o, task[t].amount, task[t].visit)
    BY <1>1 DEF OrderCommits
  <2>2. task'[t] = Idle \/ (task'[t].pc = "orderPlaced" /\ task'[t].order = o)
    BY <2>1, AfterOrder
  <2>3. Placed(o)'
    BY <1>0, <2>1 DEF PlaceOrder, Placed, PayTypeOK
  <2> QED BY <2>2, <2>3, IdleRefs DEF TaskRefs
<1>2. CASE OrderAnswered(t)
  <2>1. \/ task'[t] = Idle
        \/ task'[t].pc = "createIntent" /\ task'[t].order = task[t].order
    BY <1>2, AfterGoto, AfterEnd DEF OrderAnswered
  <2>2. Placed(task[t].order)
    BY <1>0, <1>2 DEF TaskRefs, OrderAnswered
  <2> QED BY <1>0, <2>1, <2>2, Kept, IdleRefs DEF TaskRefs
<1>3. CASE IntentCreated(t)
  <2>1. PICK i \in Intent : /\ Reply(t, [task[t] EXCEPT !.pc = "intentMade", !.pay = i])
                            /\ CreatePaymentIntent(i, task[t].order, IntentAmount(t), task[t].kind = "placeCard")
    BY <1>3 DEF IntentCreated
  <2>2. \/ task'[t] = Idle
        \/ task'[t].pc = "intentMade" /\ task'[t].order = task[t].order /\ task'[t].pay = i
    BY <2>1, AfterPay
  <2>3. Made(i)' /\ intents'[i].order = task[t].order
    BY <1>0, <2>1 DEF CreatePaymentIntent, Made, PayTypeOK
  <2>4. Placed(task[t].order)
    BY <1>0, <1>3 DEF TaskRefs, IntentCreated
  <2> QED BY <1>0, <2>2, <2>3, <2>4, Kept, IdleRefs DEF TaskRefs
<1>4. CASE CardCharged(t)
  <2>1. \/ task'[t] = Idle
        \/ /\ task'[t].pc = "confirm" /\ task'[t].order = task[t].order
           /\ task'[t].pay = task[t].pay
    BY <1>4, AfterGoto DEF CardCharged
  <2>2. /\ Placed(task[t].order) /\ Made(task[t].pay)
        /\ intents[task[t].pay].order = task[t].order
    BY <1>0, <1>4 DEF TaskRefs, CardCharged
  <2>3. intents'[task[t].pay].state = "succeeded"
    BY <1>0, <1>4, <2>2 DEF CardCharged, ChargeCard, PayTypeOK, IntentRow, Made
  <2> QED BY <1>0, <2>1, <2>2, <2>3, Kept, IdleRefs DEF TaskRefs
<1>5. CASE PayPalCreated(t)
  <2>1. PICK p \in PayPalOrder : /\ Reply(t, [task[t] EXCEPT !.pc = "ppApprove", !.pay = p])
                                 /\ CreatePayPalOrder(p, task[t].order)
    BY <1>5 DEF PayPalCreated
  <2>2. \/ task'[t] = Idle
        \/ task'[t].pc = "ppApprove" /\ task'[t].order = task[t].order /\ task'[t].pay = p
    BY <2>1, AfterPay
  <2>3. Bought(p)' /\ paypal'[p].order = task[t].order
    BY <1>0, <2>1 DEF CreatePayPalOrder, Bought, PayTypeOK
  <2>4. Placed(task[t].order)
    BY <1>0, <1>5 DEF TaskRefs, PayPalCreated
  <2> QED BY <1>0, <2>2, <2>3, <2>4, Kept, IdleRefs DEF TaskRefs
<1>6. CASE Approve(t)
  <2>1. \/ task'[t] = Idle
        \/ /\ task'[t].pc = "ppCapture" /\ task'[t].order = task[t].order
           /\ task'[t].pay = task[t].pay
    BY <1>6, AfterGoto DEF Approve
  <2>2. /\ Placed(task[t].order) /\ Bought(task[t].pay)
        /\ paypal[task[t].pay].order = task[t].order
    BY <1>0, <1>6 DEF TaskRefs, Approve
  <2> QED BY <1>0, <2>1, <2>2, Kept, IdleRefs DEF TaskRefs
<1>7. CASE PayPalCaptured(t)
  <2>1. \/ task'[t] = Idle
        \/ /\ task'[t].pc = "ppCaptured" /\ task'[t].order = task[t].order
           /\ task'[t].pay = task[t].pay
    BY <1>7, AfterCapture
  <2>2. /\ Placed(task[t].order) /\ Bought(task[t].pay)
        /\ paypal[task[t].pay].order = task[t].order
    BY <1>0, <1>7 DEF TaskRefs, PayPalCaptured
  <2>3. paypal'[task[t].pay].state = "captured"
    BY <1>0, <1>7, <2>2 DEF PayPalCaptured, CapturePayPal, PayTypeOK, PayPalRow, Bought
  <2> QED BY <1>0, <2>1, <2>2, <2>3, Kept, IdleRefs DEF TaskRefs
<1>8. CASE OrderConfirmed(t) \/ PayPalRecorded(t)
  <2>1. \/ task'[t] = Idle
        \/ task'[t].pc = "recorded" /\ task'[t].order = task[t].order
    BY <1>8, AfterGoto DEF OrderConfirmed, PayPalRecorded
  <2>2. Placed(task[t].order)
    BY <1>0, <1>8 DEF TaskRefs, OrderConfirmed, PayPalRecorded
  <2> QED BY <1>0, <2>1, <2>2, Kept, IdleRefs DEF TaskRefs
<1>9. CASE IntentAnswered(t) \/ Success(t) \/ Fails(t) \/ Orphaned(t)
  <2>1. CASE Fails(t)
    BY <1>0, <2>1, AfterFail, IdleRefs, RefsKept DEF Left
  <2>2. CASE ~Fails(t)
    BY <1>9, <2>2, AfterEnd, IdleRefs DEF IntentAnswered, Success, Orphaned
  <2> QED BY <2>1, <2>2
<1>10. CASE ClickProceed(t)
  <2>1. task'[t].pc = "placeOrder"
    BY <1>10, AfterStart DEF ClickProceed, Begin
  <2> QED BY <2>1 DEF TaskRefs
<1>11. CASE PayByCard(t)
  <2>1. task'[t].pc = "charge" /\ task'[t].order = page.orderId /\ task'[t].pay = page.secret
    BY <1>11, AfterStart DEF PayByCard, Begin
  <2>2. /\ Placed(page.orderId) /\ Made(page.secret)
        /\ intents[page.secret].order = page.orderId
    BY <1>11 DEF PayByCard, CardForm, PaymentView, References
  <2> QED BY <1>0, <2>1, <2>2, Kept DEF TaskRefs
<1>12. CASE ClickPayPal(t)
  <2>1. task'[t].pc = "ppCreate" /\ task'[t].order = page.orderId
    BY <1>12, AfterStart DEF ClickPayPal, Begin
  <2>2. Placed(page.orderId)
    BY <1>12 DEF ClickPayPal, PayPalButtons, PaymentView, References
  <2> QED BY <1>0, <2>1, <2>2, Kept DEF TaskRefs
<1>13. ASSUME NEW m \in {"stripe", "paypal"}, SwitchMethod(t, m) PROVE TaskRefs(t)'
  <2>1. CASE UNCHANGED task
    BY <1>0, <2>1, RefsKept
  <2>2. CASE task' # task
    <3>1. /\ Start(t, Begin("method", "createIntent", page.orderId, 0, 0))
          /\ page.step = "payment"
      BY <1>13, <2>2 DEF SwitchMethod
    <3>2. Placed(page.orderId)
      BY <1>13, <3>1 DEF SwitchMethod, ConfirmView, PaymentView, References
    <3>3. task'[t].pc = "createIntent" /\ task'[t].order = page.orderId
      BY <3>1, AfterStart DEF Begin
    <3> QED BY <1>0, <3>2, <3>3, Kept DEF TaskRefs
  <2> QED BY <2>1, <2>2
<1> QED BY <1>1, <1>2, <1>3, <1>4, <1>5, <1>6, <1>7, <1>8, <1>9, <1>10, <1>11, <1>12, <1>13
        DEF Settles, Customer

\* References is preserved; PageTasks says for which order a late intent is.
LEMMA ReferencesStep == TypeOK /\ References /\ PageTasks /\ [Next]_vars => References'
<1> SUFFICES ASSUME TypeOK, References, PageTasks, [Next]_vars PROVE References'
  OBVIOUS
<1>0. RowsStay
  BY StepStays
<1>1. (page.orderId # 0 => Placed(page.orderId))'
  <2>1. \A t \in Task : OrderAnswered(t) => Placed(task[t].order)
    BY DEF OrderAnswered, References, TaskRefs
  <2>2. page'.orderId # 0 => Placed(page'.orderId)
    BY <2>1, PageIds DEF References
  <2> QED BY <1>0, <2>2, Kept DEF Placed
<1>2. (page.secret # 0 => Made(page.secret) /\ intents[page.secret].order = page.orderId)'
  <2>1. ASSUME NEW t \in Task, IntentAnswered(t), Mounted(t)
        PROVE  Made(task[t].pay) /\ intents[task[t].pay].order = page.orderId
    <3>1. task[t].pc = "intentMade"
      BY <2>1 DEF IntentAnswered
    <3>2. Made(task[t].pay) /\ intents[task[t].pay].order = task[t].order
      BY <3>1 DEF References, TaskRefs
    <3>3. page.orderId = task[t].order
      BY <2>1, <3>1 DEF PageTasks, Prepares
    <3> QED BY <3>2, <3>3
  <2>2. page'.secret # 0 => Made(page'.secret) /\ intents[page'.secret].order = page'.orderId
    BY <2>1, PageIds DEF References
  <2> QED BY <1>0, <2>2, Kept DEF Made
<1>3. ASSUME NEW t \in Task PROVE TaskRefs(t)'
  <2>1. CASE Reload
    BY <1>0, <2>1, AfterReload, IdleRefs, RefsKept DEF Left
  <2>2. CASE UNCHANGED task
    BY <1>0, <2>2, RefsKept
  <2>3. ASSUME NEW u \in Task, Settles(u) \/ Customer(u) PROVE TaskRefs(t)'
    <3>1. CASE u = t
      BY <2>3, <3>1, RefsStep
    <3>2. CASE u # t
      <4>1. task'[t] = task[t]
        BY <2>3, <3>2, OthersStay
      <4> QED BY <1>0, <4>1, RefsKept
    <3> QED BY <3>1, <3>2
  <2> QED BY <2>1, <2>2, <2>3, TasksUntouched DEF Next
<1>4. ASSUME NEW i \in Intent, Made(i)' PROVE Placed(intents[i].order)'
  <2>1. CASE Made(i)
    BY <1>0, <2>1, Kept DEF References, Placed
  <2>2. CASE ~Made(i)
    <3>1. PICK t \in Task : IntentCreated(t) /\ intents'[i].order = task[t].order
      BY <1>4, <2>2, NewIntent
    <3>2. Placed(task[t].order)
      BY <3>1 DEF IntentCreated, References, TaskRefs
    <3> QED BY <1>0, <3>1, <3>2, Kept DEF Placed
  <2> QED BY <2>1, <2>2
<1>5. \A i \in webhooks' : intents'[i].state = "succeeded"
  BY NewWebhook
<1> QED BY <1>1, <1>2, <1>3, <1>4, <1>5 DEF References

-----------------------------------------------------------------------------
(* PageTasks: what the disabled buttons exclude.                            *)

\* While a task places an order or switches the method, no other task of the
\* mounted page does, and no other asks for an intent.
LEMMA Alone ==
    ASSUME PcOfKind, PageTasks, NEW t \in Task, Mounted(t), Places(t) \/ Switches(t),
           NEW u \in Task, u # t, Mounted(u)
    PROVE  ~Places(u) /\ ~Switches(u) /\ ~Prepares(u)
<1>1. task[u].visit = task[t].visit /\ task[u].live
  BY DEF Mounted
<1>2. ~Places(u) /\ ~Switches(u)
  BY <1>1 DEF PageTasks
<1>3. Prepares(u) => Places(u) \/ Switches(u)
  BY <1>1 DEF PcOfKind, Prepares, Places, PlaceKinds, Switches, Idle
<1> QED BY <1>2, <1>3

\* A step of the tasks that gives none of them a new part in the page.
KeepsPart(u) ==
    \/ task'[u] = Idle
    \/ /\ task[u] # Idle
       /\ task'[u].kind = task[u].kind
       /\ task'[u].visit = task[u].visit
       /\ task'[u].order = task[u].order \/ ~Prepares(u)'
       /\ task'[u].live => task[u].live
       /\ Prepares(u)' => Prepares(u)

\* A task that is not touched keeps its part.
LEMMA PartsOfUnchanged == ASSUME NEW u \in Task, task'[u] = task[u] PROVE KeepsPart(u)
BY DEF KeepsPart, Prepares

\* The page stays as it is, or shows less of it.
LEMMA SamePage ==
    ASSUME PageTasks, \A u \in Task : KeepsPart(u),
           page'.open = page.open, page'.visit = page.visit, page'.step = page.step,
           page'.orderId = page.orderId, page'.secret = page.secret,
           page'.loading = page.loading, page'.preparing = page.preparing
    PROVE  PageTasks'
BY DEF PageTasks, KeepsPart, Mounted, Places, PlaceKinds, Switches, Prepares, Idle

\* Leaving the page.
LEMMA PageCloses ==
    ASSUME TypeOK, PageTasks, \A u \in Task : KeepsPart(u), page' = Closed
    PROVE  PageTasks'
<1>1. /\ ~page'.open /\ page'.visit = page.visit /\ page'.step = "confirm"
      /\ page'.orderId = 0 /\ page'.secret = 0
  BY DEF Closed, Mount
<1> QED BY <1>1 DEF PageTasks, KeepsPart, Mounted, Places, PlaceKinds, Switches, Prepares, Idle

\* A task that had the page to itself ends, for the client at least.
LEMMA PartEnds ==
    ASSUME TypeOK, PcOfKind, PageTasks, NEW t \in Task, Mounted(t), Places(t) \/ Switches(t),
           Left(t), \A u \in Task \ {t} : task'[u] = task[u],
           page'.open = page.open, page'.visit = page.visit,
           page'.step = "confirm" => page'.secret = 0
    PROVE  PageTasks'
<1>1. page.open
  BY DEF Mounted
<1>2. /\ ~Mounted(t)' /\ ~Places(t)'
      /\ task'[t] = Idle \/ (task[t] # Idle /\ task'[t].visit = task[t].visit)
  BY DEF Mounted, Places, Idle, Left, Calls
<1>3. ASSUME NEW u \in Task, u # t
      PROVE  /\ Mounted(u)' <=> Mounted(u)
             /\ Places(u)' <=> Places(u)
             /\ Prepares(u)' <=> Prepares(u)
             /\ Mounted(u) => ~Places(u) /\ task[u].kind # "method" /\ ~Prepares(u)
  <2>1. task'[u] = task[u]
    BY <1>3
  <2>2. Mounted(u) => ~Places(u) /\ ~Switches(u) /\ ~Prepares(u)
    BY <1>3, Alone
  <2> QED BY <2>1, <2>2 DEF Mounted, Places, Prepares, Switches
<1>4. \A u \in Task : task'[u] # Idle => task'[u].visit <= page'.visit
  BY <1>2 DEF PageTasks
<1>5. \A u \in Task : Mounted(u)' => ~Places(u)' /\ task'[u].kind # "method" /\ ~Prepares(u)'
  BY <1>2, <1>3
<1>6. \A u, w \in Task : Places(u)' /\ Places(w)' /\ task'[u].visit = task'[w].visit => u = w
  BY <1>2, <1>3 DEF PageTasks
<1> QED BY <1>1, <1>4, <1>5, <1>6 DEF PageTasks, Switches, Places, Prepares, Mounted

\* The parts of the tasks after the step of one of them that starts nothing.
LEMMA PartsKept ==
    ASSUME TypeOK, NEW t \in Task,
           \/ OrderCommits(t) \/ IntentCreated(t) \/ IntentAnswered(t)
           \/ CardCharged(t) \/ OrderConfirmed(t) \/ PayPalCreated(t) \/ Approve(t)
           \/ PayPalCaptured(t) \/ PayPalRecorded(t) \/ Success(t) \/ Fails(t) \/ Orphaned(t),
           NEW u \in Task
    PROVE  KeepsPart(u)
<1>1. CASE u # t
  BY <1>1, OthersStay, PartsOfUnchanged DEF Settles, Customer
<1>2. CASE OrderCommits(t)
  <2>1. PICK o \in Order : Reply(t, [task[t] EXCEPT !.pc = "orderPlaced", !.order = o])
    BY <1>2 DEF OrderCommits
  <2>2. task'[t] = Idle \/ (Continues(t) /\ task'[t].pc = "orderPlaced")
    BY <2>1, AfterOrder
  <2>3. task[t].pc = "placeOrder"
    BY <1>2 DEF OrderCommits
  <2>4. task[t] # Idle
    BY <2>3 DEF Idle
  <2> QED BY <1>1, <2>2, <2>4 DEF KeepsPart, Continues, Prepares
<1>3. CASE IntentCreated(t)
  <2>1. PICK i \in Intent : Reply(t, [task[t] EXCEPT !.pc = "intentMade", !.pay = i])
    BY <1>3 DEF IntentCreated
  <2>2. \/ task'[t] = Idle
        \/ Continues(t) /\ task'[t].pc = "intentMade" /\ task'[t].order = task[t].order
    BY <2>1, AfterPay
  <2>3. task[t].pc = "createIntent"
    BY <1>3 DEF IntentCreated
  <2>4. task[t] # Idle
    BY <2>3 DEF Idle
  <2> QED BY <1>1, <2>2, <2>3, <2>4 DEF KeepsPart, Continues, Prepares
<1>4. CASE PayPalCreated(t)
  <2>1. PICK p \in PayPalOrder : Reply(t, [task[t] EXCEPT !.pc = "ppApprove", !.pay = p])
    BY <1>4 DEF PayPalCreated
  <2>2. task'[t] = Idle \/ (Continues(t) /\ task'[t].pc = "ppApprove")
    BY <2>1, AfterPay
  <2>3. task[t].pc = "ppCreate"
    BY <1>4 DEF PayPalCreated
  <2>4. task[t] # Idle
    BY <2>3 DEF Idle
  <2> QED BY <1>1, <2>2, <2>4 DEF KeepsPart, Continues, Prepares
<1>5. CASE CardCharged(t) \/ OrderConfirmed(t) \/ Approve(t) \/ PayPalCaptured(t) \/ PayPalRecorded(t)
  <2>1. \/ task'[t] = Idle
        \/ Continues(t) /\ task'[t].pc \in {"confirm", "recorded", "ppCapture", "ppCaptured"}
    BY <1>5, AfterGoto, AfterCapture DEF CardCharged, OrderConfirmed, Approve, PayPalRecorded
  <2>2. task[t] # Idle
    BY <1>5 DEF CardCharged, OrderConfirmed, Approve, PayPalCaptured, PayPalRecorded, Idle
  <2> QED BY <1>1, <2>1, <2>2 DEF KeepsPart, Continues, Prepares
<1>6. CASE IntentAnswered(t) \/ Success(t) \/ Orphaned(t)
  <2>1. task'[t] = Idle
    BY <1>6, AfterEnd DEF IntentAnswered, Success, Orphaned
  <2> QED BY <1>1, <2>1 DEF KeepsPart
<1>7. CASE Fails(t)
  <2>1. Left(t) /\ (task[t].pc \in Calls => task[t] # Idle)
    BY <1>7, AfterFail DEF Calls, Idle
  <2> QED BY <1>1, <2>1 DEF KeepsPart, Left, Prepares
<1> QED BY <1>2, <1>3, <1>4, <1>5, <1>6, <1>7

\* The answers that change the page.
LEMMA PageTasksAnswers ==
    ASSUME TypeOK, PcOfKind, PageTasks, NEW t \in Task,
           OrderAnswered(t) \/ IntentAnswered(t) \/ Success(t) \/ Fails(t)
    PROVE  PageTasks'
<1>0. page \in PageRow /\ \A u \in Task \ {t} : task'[u] = task[u]
  BY OthersStay DEF TypeOK, Settles
<1>1. CASE OrderAnswered(t) /\ Mounted(t)
  <2>1. task[t].pc = "orderPlaced" /\ Places(t)
    BY <1>1 DEF OrderAnswered, PcOfKind, Places, Mounted, Idle
  <2>2. /\ page'.open = page.open /\ page'.visit = page.visit
        /\ page'.orderId = task[t].order /\ page'.secret = 0
    BY <1>0, <1>1 DEF OrderAnswered, PageRow
  <2>3. CASE task'[t] = Idle
    BY <1>0, <1>1, <2>1, <2>2, <2>3, PartEnds DEF Left
  <2>4. CASE task'[t] # Idle
    <3>1. /\ Continues(t) /\ task'[t].pc = "createIntent" /\ task'[t].order = task[t].order
          /\ task[t].kind = "placeCard"
      BY <1>1, <2>4, AfterGoto, AfterEnd DEF OrderAnswered
    <3>2. page'.step = page.step /\ page'.loading = page.loading
      BY <1>0, <1>1, <3>1 DEF OrderAnswered, PageRow
    <3>3. page.step = "confirm" /\ page.loading /\ page.open
      BY <1>1, <2>1 DEF PageTasks, Mounted
    <3>4. /\ Mounted(t)' /\ Places(t)' /\ ~Switches(t)' /\ task'[t].order = page'.orderId
          /\ task'[t].visit = task[t].visit /\ task'[t].live /\ task[t] # Idle
      BY <1>1, <2>1, <2>2, <3>1 DEF Mounted, Places, Switches, PlaceKinds, Continues, Idle
    <3>5. ASSUME NEW u \in Task, u # t
          PROVE  /\ task'[u] = task[u]
                 /\ Mounted(u)' <=> Mounted(u)
                 /\ Places(u)' <=> Places(u)
                 /\ Mounted(u) => ~Places(u) /\ ~Switches(u)' /\ ~Prepares(u)'
      <4>1. task'[u] = task[u]
        BY <1>0, <3>5
      <4>2. Mounted(u) => ~Places(u) /\ ~Switches(u) /\ ~Prepares(u)
        BY <1>1, <2>1, <3>5, Alone
      <4> QED BY <2>2, <4>1, <4>2 DEF Mounted, Places, Prepares, Switches
    <3>6. \A u \in Task : task'[u] # Idle => task'[u].visit <= page'.visit
      BY <2>2, <3>4, <3>5 DEF PageTasks
    <3>7. \A u \in Task : Mounted(u)' /\ u # t => ~Places(u)' /\ ~Switches(u)' /\ ~Prepares(u)'
      BY <3>5
    <3>8. \A u, w \in Task : Places(u)' /\ Places(w)' /\ task'[u].visit = task'[w].visit => u = w
      BY <2>1, <3>4, <3>5 DEF PageTasks
    <3>9. \A u \in Task : ~Switches(u)'
      BY <3>4, <3>7 DEF Switches
    <3> QED BY <2>2, <3>2, <3>3, <3>4, <3>6, <3>7, <3>8, <3>9 DEF PageTasks
  <2> QED BY <2>3, <2>4
<1>2. CASE OrderAnswered(t) /\ ~Mounted(t)
  <2>1. page' = page
    BY <1>2 DEF OrderAnswered
  <2>2. \/ task'[t] = Idle
        \/ /\ Continues(t) /\ task'[t].pc = "createIntent" /\ task'[t].order = task[t].order
           /\ task[t].kind = "placeCard"
    BY <1>2, AfterGoto, AfterEnd DEF OrderAnswered
  <2>3. task[t] # Idle /\ ~Mounted(t)'
    BY <1>2, <2>1, <2>2 DEF OrderAnswered, Idle, Mounted, Continues
  <2>4. ASSUME NEW u \in Task, u # t
        PROVE  /\ task'[u] = task[u]
               /\ Mounted(u)' <=> Mounted(u)
               /\ Places(u)' <=> Places(u)
               /\ Switches(u)' <=> Switches(u)
               /\ Prepares(u)' <=> Prepares(u)
    <3>1. task'[u] = task[u]
      BY <1>0, <2>4
    <3> QED BY <2>1, <3>1 DEF Mounted, Places, Prepares, Switches
  <2>5. ~Switches(t)' /\ (Places(t)' => Places(t)) /\ (task'[t] # Idle => task'[t].visit = task[t].visit)
    BY <2>2, <2>3 DEF Switches, Places, PlaceKinds, Continues, Idle
  <2>6. Places(t)' => task'[t] # Idle
    BY DEF Places, PlaceKinds, Idle
  <2> QED BY <2>1, <2>3, <2>4, <2>5, <2>6 DEF PageTasks
<1>3. CASE IntentAnswered(t) /\ Mounted(t)
  <2>1. task[t].pc = "intentMade" /\ (Places(t) \/ Switches(t))
    BY <1>3 DEF IntentAnswered, PcOfKind, Places, PlaceKinds, Switches, Mounted, Idle
  <2>2. Left(t)
    BY <1>3, AfterEnd DEF IntentAnswered, Left
  <2>3. page'.open = page.open /\ page'.visit = page.visit
    BY <1>0, <1>3 DEF IntentAnswered, PageRow
  <2>4. page'.step = "payment"
    <3>1. CASE task[t].kind = "placeCard"
      BY <1>0, <1>3, <3>1 DEF IntentAnswered, PageRow
    <3>2. CASE task[t].kind # "placeCard"
      <4>1. Switches(t)
        BY <1>3, <3>2 DEF IntentAnswered, PcOfKind, PlaceKinds, Switches, Idle
      <4> QED BY <1>0, <1>3, <3>2, <4>1 DEF IntentAnswered, PageRow, PageTasks
    <3> QED BY <3>1, <3>2
  <2> QED BY <1>0, <1>3, <2>1, <2>2, <2>3, <2>4, PartEnds
<1>4. CASE Fails(t) /\ Mounted(t) /\ (Places(t) \/ Switches(t))
  <2>1. Left(t)
    BY <1>4, AfterFail
  <2>2. /\ page'.open = page.open /\ page'.visit = page.visit
        /\ page'.step = page.step /\ page'.secret = page.secret
    BY <1>0, <1>4, CatchPage DEF PageRow
  <2> QED BY <1>0, <1>4, <2>1, <2>2, PartEnds DEF PageTasks
<1>5. CASE Fails(t) /\ ~(Mounted(t) /\ (Places(t) \/ Switches(t)))
  <2>1. /\ page'.open = page.open /\ page'.visit = page.visit /\ page'.step = page.step
        /\ page'.orderId = page.orderId /\ page'.secret = page.secret
        /\ page'.loading = page.loading /\ page'.preparing = page.preparing
    BY <1>0, <1>5, CatchPage DEF PageRow, Places, Switches, Mounted
  <2> QED BY <1>5, <2>1, PartsKept, SamePage
<1>6. CASE IntentAnswered(t) /\ ~Mounted(t)
  <2>1. page' = page
    BY <1>6 DEF IntentAnswered
  <2> QED BY <1>6, <2>1, PartsKept, SamePage
<1>7. CASE Success(t)
  <2>1. page' = page \/ page' = Closed
    BY <1>7 DEF Success, SetCart
  <2> QED BY <1>7, <2>1, PartsKept, SamePage, PageCloses
<1> QED BY <1>1, <1>2, <1>3, <1>4, <1>5, <1>6, <1>7

\* What the customer starts.
LEMMA PageTasksStarts ==
    ASSUME TypeOK, PcOfKind, PageTasks, NEW t \in Task, Customer(t)
    PROVE  PageTasks'
<1>0. page \in PageRow /\ page.visit \in Nat /\ \A u \in Task \ {t} : task'[u] = task[u]
  BY OthersStay DEF TypeOK, PageRow
<1>1. CASE Approve(t)
  <2>1. page' = page
    BY <1>1 DEF Approve
  <2> QED BY <1>1, <2>1, PartsKept, SamePage
<1>2. CASE ClickProceed(t)
  <2>1. /\ page.open /\ page.step = "confirm" /\ ~page.loading
        /\ task[t] = Idle
        /\ task'[t].kind \in PlaceKinds /\ task'[t].pc = "placeOrder"
        /\ task'[t].visit = page.visit /\ task'[t].live
    BY <1>2, AfterStart DEF ClickProceed, CanProceed, ConfirmView, Begin, PlaceKinds
  <2>2. /\ page'.open = page.open /\ page'.visit = page.visit /\ page'.step = page.step
        /\ page'.orderId = page.orderId /\ page'.secret = page.secret
        /\ page'.loading /\ page'.preparing = page.preparing
    BY <1>0, <1>2 DEF ClickProceed, PageRow
  <2>3. \A u \in Task : ~(Places(u) /\ task[u].visit = page.visit)
    BY <2>1 DEF PageTasks, Mounted, Places, PlaceKinds, Idle
  <2>4. ~Switches(t)' /\ ~Prepares(t)' /\ Places(t)'
    BY <2>1 DEF Switches, Prepares, Places, PlaceKinds
  <2>5. ASSUME NEW u \in Task, u # t
        PROVE  /\ task'[u] = task[u]
               /\ Mounted(u)' <=> Mounted(u)
               /\ Places(u)' <=> Places(u)
               /\ Switches(u)' <=> Switches(u)
               /\ Prepares(u)' <=> Prepares(u)
    <3>1. task'[u] = task[u]
      BY <1>0, <2>5
    <3> QED BY <2>2, <3>1 DEF Mounted, Places, Prepares, Switches
  <2>6. \A u, w \in Task : Places(u)' /\ Places(w)' /\ task'[u].visit = task'[w].visit => u = w
    BY <2>1, <2>3, <2>5 DEF PageTasks
  <2> QED BY <1>0, <2>1, <2>2, <2>4, <2>5, <2>6 DEF PageTasks
<1>3. CASE PayByCard(t) \/ ClickPayPal(t)
  <2>1. /\ task[t] = Idle /\ task'[t].visit = page.visit /\ task'[t].live
        /\ task'[t].kind \in {"card", "paypal"} /\ task'[t].pc \in {"charge", "ppCreate"}
    BY <1>3, AfterStart DEF PayByCard, ClickPayPal, Begin
  <2>2. /\ page'.open = page.open /\ page'.visit = page.visit /\ page'.step = page.step
        /\ page'.orderId = page.orderId /\ page'.secret = page.secret
        /\ page'.loading = page.loading /\ page'.preparing = page.preparing
    BY <1>0, <1>3 DEF PayByCard, ClickPayPal, PageRow
  <2>3. ~Switches(t)' /\ ~Prepares(t)' /\ ~Places(t)'
    BY <2>1 DEF Switches, Prepares, Places, PlaceKinds
  <2>4. ASSUME NEW u \in Task, u # t
        PROVE  /\ task'[u] = task[u]
               /\ Mounted(u)' <=> Mounted(u)
               /\ Places(u)' <=> Places(u)
               /\ Switches(u)' <=> Switches(u)
               /\ Prepares(u)' <=> Prepares(u)
    <3>1. task'[u] = task[u]
      BY <1>0, <2>4
    <3> QED BY <2>2, <3>1 DEF Mounted, Places, Prepares, Switches
  <2> QED BY <1>0, <2>1, <2>2, <2>3, <2>4 DEF PageTasks
<1>4. ASSUME NEW m \in {"stripe", "paypal"}, SwitchMethod(t, m) PROVE PageTasks'
  <2>0. /\ page'.open = page.open /\ page'.visit = page.visit /\ page'.step = page.step
        /\ page'.orderId = page.orderId /\ page'.secret = page.secret
        /\ page'.loading = page.loading
    BY <1>0, <1>4 DEF SwitchMethod, PageRow
  <2>1. CASE page.step = "payment" /\ m = "stripe" /\ page.secret = 0
    <3>1. /\ Start(t, Begin("method", "createIntent", page.orderId, 0, 0))
          /\ page' = [page EXCEPT !.method = m, !.form = NoTask, !.preparing = TRUE]
          /\ page.open /\ ~page.preparing
      BY <1>4, <2>1 DEF SwitchMethod, ConfirmView, PaymentView
    <3>2. /\ task[t] = Idle /\ task'[t].visit = page.visit /\ task'[t].live
          /\ task'[t].kind = "method" /\ task'[t].order = page.orderId
      BY <3>1, AfterStart DEF Begin
    <3>3. page'.preparing
      BY <1>0, <3>1 DEF PageRow
    <3>4. ~Places(t)'
      BY <3>2 DEF Places, PlaceKinds
    <3>5. ASSUME NEW u \in Task, u # t
          PROVE  /\ task'[u] = task[u]
                 /\ Mounted(u)' <=> Mounted(u)
                 /\ Places(u)' <=> Places(u)
                 /\ Switches(u)' <=> Switches(u)
                 /\ Prepares(u)' <=> Prepares(u)
                 /\ ~Switches(u)
      <4>1. task'[u] = task[u]
        BY <1>0, <3>5
      <4>2. ~Switches(u)
        BY <3>1 DEF PageTasks
      <4> QED BY <2>0, <4>1, <4>2 DEF Mounted, Places, Prepares, Switches
    <3>6. \A u, w \in Task : Switches(u)' /\ Switches(w)' => u = w
      BY <3>5
    <3> QED BY <1>0, <2>0, <2>1, <3>2, <3>3, <3>4, <3>5, <3>6 DEF PageTasks
  <2>2. CASE ~(page.step = "payment" /\ m = "stripe" /\ page.secret = 0)
    <3>1. task' = task /\ page'.preparing = page.preparing
      BY <1>0, <1>4, <2>2 DEF SwitchMethod, PageRow
    <3> QED BY <2>0, <3>1, PartsOfUnchanged, SamePage
  <2> QED BY <2>1, <2>2
<1> QED BY <1>1, <1>2, <1>3, <1>4 DEF Customer

\* PageTasks is preserved.
LEMMA PageTasksStep == TypeOK /\ PcOfKind /\ PageTasks /\ [Next]_vars => PageTasks'
<1> SUFFICES ASSUME TypeOK, PcOfKind, PageTasks, [Next]_vars PROVE PageTasks'
  OBVIOUS
<1>1. CASE AddToCart \/ ChangeQuantity \/ LeaveCheckout
  <2>1. page' = page \/ page' = Closed
    BY <1>1 DEF AddToCart, ChangeQuantity, LeaveCheckout, SetCart
  <2> QED BY <1>1, <2>1, TasksUntouched, PartsOfUnchanged, SamePage, PageCloses
<1>2. CASE OpenCheckout
  <2>1. /\ page'.visit = page.visit + 1 /\ page'.step = "confirm"
        /\ page'.orderId = 0 /\ page'.secret = 0 /\ page'.open
    BY <1>2 DEF OpenCheckout, Mount
  <2>2. task' = task /\ page.visit \in Nat /\ \A u \in Task : task[u].visit \in Nat
    BY <1>2, TasksUntouched DEF TypeOK, PageRow, TaskRow
  <2>3. \A u \in Task : ~Mounted(u)'
    BY <2>1, <2>2 DEF PageTasks, Mounted, Idle
  <2> QED BY <2>1, <2>2, <2>3 DEF PageTasks, Switches, Places
<1>3. CASE Reload
  <2>1. page' = Closed
    BY <1>3 DEF Reload
  <2>2. ASSUME NEW u \in Task PROVE KeepsPart(u)
    <3>1. ~page'.open
      BY <2>1 DEF Closed, Mount
    <3>2. \/ task'[u] = Idle
          \/ /\ task[u].pc \in Calls /\ task'[u].live = FALSE
             /\ task'[u].pc = task[u].pc /\ task'[u].kind = task[u].kind
             /\ task'[u].visit = task[u].visit /\ task'[u].order = task[u].order
      BY <1>3, AfterReload DEF Left
    <3>3. task[u].pc \in Calls => task[u] # Idle
      BY DEF Calls, Idle
    <3> QED BY <3>1, <3>2, <3>3 DEF KeepsPart, Prepares
  <2> QED BY <2>1, <2>2, PageCloses
<1>4. ASSUME NEW t \in Task, Settles(t) PROVE PageTasks'
  <2>1. CASE OrderAnswered(t) \/ IntentAnswered(t) \/ Success(t) \/ Fails(t)
    BY <2>1, PageTasksAnswers
  <2>2. CASE \/ OrderCommits(t) \/ IntentCreated(t) \/ CardCharged(t) \/ OrderConfirmed(t)
             \/ PayPalCreated(t) \/ PayPalCaptured(t) \/ PayPalRecorded(t) \/ Orphaned(t)
    <3>1. page' = page
      BY <2>2 DEF OrderCommits, IntentCreated, CardCharged, OrderConfirmed, PayPalCreated,
                  PayPalCaptured, PayPalRecorded, Orphaned
    <3> QED BY <2>2, <3>1, PartsKept, SamePage
  <2> QED BY <1>4, <2>1, <2>2 DEF Settles
<1>5. CASE UNCHANGED <<page, task>>
  BY <1>5, PartsOfUnchanged, SamePage
<1> QED BY <1>1, <1>2, <1>3, <1>4, <1>5, PageTasksStarts
        DEF Next, EventDelivered, EventRepeated, AdminSetsStatus, vars

-----------------------------------------------------------------------------
\* The core of the inductive invariant holds at first.
LEMMA InitCore == Init => TypeOK /\ PcOfKind /\ References /\ PageTasks
<1> SUFFICES ASSUME Init PROVE TypeOK /\ PcOfKind /\ References /\ PageTasks
  OBVIOUS
<1>1. TypeOK
  BY TypeInit
<1>2. /\ \A t \in Task : task[t] = Idle
      /\ \A i \in Intent : intents[i].state = "none"
      /\ webhooks = {}
  BY DEF Init, PayInit, NoIntent
<1>3. /\ ~page.open /\ page.orderId = 0 /\ page.secret = 0 /\ page.step = "confirm"
  BY DEF Init, Mount
<1>4. PcOfKind
  BY <1>2 DEF PcOfKind
<1>5. References
  BY <1>2, <1>3 DEF References, TaskRefs, Made, Idle
<1>6. PageTasks
  BY <1>2, <1>3 DEF PageTasks, Mounted, Places, PlaceKinds, Switches, Prepares, Idle
<1> QED BY <1>1, <1>4, <1>5, <1>6

Core == TypeOK /\ PcOfKind /\ References /\ PageTasks

\* The core of the inductive invariant: types, which calls a function makes, what
\* the ids refer to, and which functions of a visit may overlap.
THEOREM CoreInvariant == Spec => []Core
<1>1. Init => Core
  BY InitCore DEF Core
<1>2. Core /\ [Next]_vars => Core'
  BY TypeStep, PcStep, ReferencesStep, PageTasksStep DEF Core
<1> QED BY <1>1, <1>2, PTL DEF Spec

\* Type correctness: every variable keeps its type, however many tasks run and
\* visits overlap; in particular no call of the page sends an id it does not hold.
THEOREM TypeCorrect == Spec => []TypeOK
<1>1. Core => TypeOK
  BY DEF Core
<1> QED BY <1>1, CoreInvariant, PTL

\* The card form pays for the order that the page shows: what createOrder,
\* prepareStripePayment and handlePaymentMethodChange set in the page belongs
\* together, although their answers may come after the page was left and mounted
\* again.
THEOREM FormPaysItsOrderAlways == Spec => []FormPaysItsOrder
<1>1. Core => FormPaysItsOrder
  BY DEF Core, References, PageTasks, FormPaysItsOrder
<1> QED BY <1>1, CoreInvariant, PTL

-----------------------------------------------------------------------------
(* Recorded payments.                                                       *)

\* Payments of different kinds or ids differ.
LEMMA PaymentNames ==
    /\ \A i, j : Card(i) = Card(j) => i = j
    /\ \A p, q : PayPal(p) = PayPal(q) => p = q
    /\ \A i, p : Card(i) # PayPal(p)
    /\ \A i : Card(i) # NoPayment /\ PayPal(i) # NoPayment
BY DEF Card, PayPal, NoPayment

PaidByCard(o, i) == intents[i].state = "succeeded" /\ intents[i].order = o
PaidByPayPal(o, p) == paypal[p].state = "captured" /\ paypal[p].order = o

\* The payment of an order changes to one that was made for it.
LEMMA NewPayment ==
    ASSUME TypeOK, References, [Next]_vars, NEW o \in Order,
           orders'[o].payment # orders[o].payment
    PROVE  \/ \E i \in Intent : orders'[o].payment = Card(i) /\ PaidByCard(o, i)
           \/ \E p \in PayPalOrder : orders'[o].payment = PayPal(p) /\ PaidByPayPal(o, p)
<1> DEFINE Goal ==
        \/ \E i \in Intent : orders'[o].payment = Card(i) /\ PaidByCard(o, i)
        \/ \E p \in PayPalOrder : orders'[o].payment = PayPal(p) /\ PaidByPayPal(o, p)
<1>0. orders \in [Order -> OrderRow] /\ webhooks \subseteq Intent
  BY DEF TypeOK, PayTypeOK
<1>1. CASE UNCHANGED orders
  BY <1>1
<1>2. ASSUME NEW t \in Task, OrderCommits(t) PROVE FALSE
  <2>1. PICK n \in Order : PlaceOrder(n, task[t].amount, task[t].visit)
    BY <1>2 DEF OrderCommits
  <2> QED BY <1>0, <2>1 DEF PlaceOrder, NextId, NoOrder
<1>3. ASSUME NEW n, NEW payment, MarkPaid(n, payment)
      PROVE  n = o /\ orders'[o].payment = payment
  BY <1>0, <1>3 DEF MarkPaid, OrderRow
<1>4. ASSUME NEW t \in Task, OrderConfirmed(t) PROVE Goal
  <2>1. task[t].pc = "confirm" /\ MarkPaid(task[t].order, Card(task[t].pay))
    BY <1>4 DEF OrderConfirmed, ConfirmOrder
  <2>2. task[t].pay \in Intent /\ PaidByCard(task[t].order, task[t].pay)
    BY <2>1 DEF References, TaskRefs, Made, PaidByCard
  <2> QED BY <1>3, <2>1, <2>2
<1>5. ASSUME NEW t \in Task, PayPalRecorded(t) PROVE Goal
  <2>1. task[t].pc = "ppCaptured" /\ MarkPaid(task[t].order, PayPal(task[t].pay))
    BY <1>5 DEF PayPalRecorded, RecordPayPal
  <2>2. task[t].pay \in PayPalOrder /\ PaidByPayPal(task[t].order, task[t].pay)
    BY <2>1 DEF References, TaskRefs, Bought, PaidByPayPal
  <2> QED BY <1>3, <2>1, <2>2
<1>6. ASSUME NEW i \in Intent, EventDelivered(i) \/ EventRepeated(i) PROVE Goal
  <2>1. i \in webhooks /\ MarkPaid(intents[i].order, Card(i))
    BY <1>6 DEF EventDelivered, EventRepeated, Webhook, WebhookUnacked
  <2>2. PaidByCard(intents[i].order, i)
    BY <2>1 DEF References, PaidByCard
  <2> QED BY <1>3, <2>1, <2>2
<1>7. CASE AdminSetsStatus
  BY <1>0, <1>7 DEF AdminSetsStatus, SetStatus, OrderRow
<1> QED BY <1>1, <1>2, <1>4, <1>5, <1>6, <1>7
        DEF Next, Settles, Customer, OrderAnswered, IntentCreated, IntentAnswered, CardCharged,
            PayPalCreated, PayPalCaptured, Success, Fails, CatchBlock, Orphaned, ClickProceed,
            PayByCard, ClickPayPal, Approve, SwitchMethod, AddToCart, ChangeQuantity,
            OpenCheckout, LeaveCheckout, Reload, payVars, vars, CreatePaymentIntent, ChargeCard,
            CreatePayPalOrder, ApprovePayPal, CapturePayPal

\* Recorded payments stay real.
LEMMA RecordedStep ==
    TypeOK /\ References /\ RecordedPaymentIsReal /\ [Next]_vars => RecordedPaymentIsReal'
<1> SUFFICES ASSUME TypeOK, References, RecordedPaymentIsReal, [Next]_vars, NEW o \in Order
             PROVE  /\ \A i \in Intent : orders'[o].payment = Card(i) =>
                          PaidByCard(o, i)'
                    /\ \A p \in PayPalOrder : orders'[o].payment = PayPal(p) =>
                          PaidByPayPal(o, p)'
  BY DEF RecordedPaymentIsReal, Succeeded, PaidByCard, PaidByPayPal
<1>1. ASSUME NEW i \in Intent, orders'[o].payment = Card(i) PROVE PaidByCard(o, i)'
  <2>1. PaidByCard(o, i)
    <3>1. CASE orders'[o].payment = orders[o].payment
      <4>1. i \in Succeeded(o)
        BY <1>1, <3>1 DEF RecordedPaymentIsReal
      <4> QED BY <4>1 DEF Succeeded, PaidByCard
    <3>2. CASE orders'[o].payment # orders[o].payment
      BY <1>1, <3>2, NewPayment, PaymentNames
    <3> QED BY <3>1, <3>2
  <2>2. Made(i)
    BY <2>1 DEF Made, PaidByCard
  <2> QED BY <2>1, <2>2, StepStays, Kept DEF PaidByCard
<1>2. ASSUME NEW p \in PayPalOrder, orders'[o].payment = PayPal(p) PROVE PaidByPayPal(o, p)'
  <2>1. PaidByPayPal(o, p)
    <3>1. CASE orders'[o].payment = orders[o].payment
      BY <1>2, <3>1 DEF RecordedPaymentIsReal, PaidByPayPal
    <3>2. CASE orders'[o].payment # orders[o].payment
      BY <1>2, <3>2, NewPayment, PaymentNames
    <3> QED BY <3>1, <3>2
  <2>2. Bought(p)
    BY <2>1 DEF Bought, PaidByPayPal
  <2> QED BY <2>1, <2>2, StepStays, Kept DEF PaidByPayPal
<1> QED BY <1>1, <1>2

\* A payment that an order records was made, and made for this order: no route
\* compares the two, the client always sends the pair that belongs together.
THEOREM RecordedPaymentsAreReal == Spec => []RecordedPaymentIsReal
<1>1. Init => RecordedPaymentIsReal
  <2> SUFFICES ASSUME Init PROVE RecordedPaymentIsReal
    OBVIOUS
  <2>1. \A o \in Order : orders[o].payment = NoPayment
    BY DEF Init, PayInit, NoOrder
  <2> QED BY <2>1, PaymentNames DEF RecordedPaymentIsReal
<1>2. Core /\ RecordedPaymentIsReal /\ [Next]_vars => RecordedPaymentIsReal'
  BY RecordedStep DEF Core
<1> QED BY <1>1, <1>2, CoreInvariant, PTL DEF Spec

\* Stripe is told 200 only after the UPDATE.
LEMMA EventAcknowledged ==
    ASSUME TypeOK, [Next]_vars, NEW i \in webhooks, i \notin webhooks'
    PROVE  MarkPaid(intents[i].order, Card(i))
BY DEF Next, Settles, Customer, OrderCommits, OrderAnswered, IntentCreated, IntentAnswered,
       CardCharged, OrderConfirmed, PayPalCreated, PayPalCaptured, PayPalRecorded, Success, Fails,
       CatchBlock, Orphaned, ClickProceed, PayByCard, ClickPayPal, Approve, SwitchMethod,
       AddToCart, ChangeQuantity, OpenCheckout, LeaveCheckout, Reload, EventDelivered,
       EventRepeated, Webhook, WebhookUnacked, AdminSetsStatus, SetStatus, payVars, vars,
       PlaceOrder, CreatePaymentIntent, ChargeCard, ConfirmOrder, CreatePayPalOrder,
       ApprovePayPal, CapturePayPal, RecordPayPal

\* CardMoneyNotLost is preserved.
LEMMA MoneyStep ==
    TypeOK /\ References /\ CardMoneyNotLost /\ [Next]_vars => CardMoneyNotLost'
<1> SUFFICES ASSUME TypeOK, References, CardMoneyNotLost, [Next]_vars,
                    NEW i \in Intent, intents'[i].state = "succeeded", i \notin webhooks'
             PROVE  orders'[intents'[i].order].payment # NoPayment
  BY DEF CardMoneyNotLost
<1>1. intents[i].state = "succeeded"
  BY NewSuccess
<1>2. intents'[i].order = intents[i].order /\ intents[i].order \in Order
  <2>1. Made(i)
    BY <1>1 DEF Made
  <2> QED BY <2>1, StepStays, Kept DEF References, Placed
<1>3. CASE i \in webhooks
  <2>1. MarkPaid(intents[i].order, Card(i))
    BY <1>3, EventAcknowledged
  <2>2. orders'[intents[i].order].payment = Card(i)
    BY <1>2, <2>1 DEF MarkPaid, TypeOK, PayTypeOK, OrderRow
  <2> QED BY <1>2, <2>2, PaymentNames
<1>4. CASE i \notin webhooks
  <2>1. orders[intents[i].order].payment # NoPayment
    BY <1>1, <1>4 DEF CardMoneyNotLost
  <2> QED BY <1>2, <2>1, NewPayment, PaymentNames
<1> QED BY <1>3, <1>4

\* Money taken from a card is recorded on its order, or Stripe still owes the
\* event that will record it.
THEOREM CardMoneyIsNotLost == Spec => []CardMoneyNotLost
<1>1. Init => CardMoneyNotLost
  <2> SUFFICES ASSUME Init PROVE CardMoneyNotLost
    OBVIOUS
  <2>1. \A i \in Intent : intents[i].state = "none"
    BY DEF Init, PayInit, NoIntent
  <2> QED BY <2>1 DEF CardMoneyNotLost
<1>2. Core /\ CardMoneyNotLost /\ [Next]_vars => CardMoneyNotLost'
  BY MoneyStep DEF Core
<1> QED BY <1>1, <1>2, CoreInvariant, PTL DEF Spec

-----------------------------------------------------------------------------
(* One charge for an order.                                                 *)

\* A call to place an order: the order is new.
LEMMA NewOrder ==
    ASSUME TypeOK, NEW t \in Task, OrderCommits(t)
    PROVE  \E o \in Order :
              /\ ~Placed(o)
              /\ PlaceOrder(o, task[t].amount, task[t].visit)
              /\ \/ task'[t] = Idle
                 \/ /\ Continues(t) /\ task'[t].pc = "orderPlaced"
                    /\ task'[t].order = o /\ task'[t].pay = task[t].pay
<1>1. PICK o \in Order : /\ PlaceOrder(o, task[t].amount, task[t].visit)
                         /\ Reply(t, [task[t] EXCEPT !.pc = "orderPlaced", !.order = o])
  BY DEF OrderCommits
<1>2. orders[o].status = "none"
  BY <1>1 DEF PlaceOrder, NextId, NoOrder
<1>3. ~Placed(o)
  BY <1>2 DEF Placed
<1> QED BY <1>1, <1>3, AfterOrder

\* Where the order of a task comes from.
LEMMA TaskOrders ==
    ASSUME TypeOK, [Next]_vars, NEW u \in Task
    PROVE  \/ task'[u].order \in {0, task[u].order, page.orderId}
           \/ OrderCommits(u) /\ ~Placed(task'[u].order)
<1> DEFINE Goal == \/ task'[u].order \in {0, task[u].order, page.orderId}
                   \/ OrderCommits(u) /\ ~Placed(task'[u].order)
<1>1. CASE task'[u] = Idle \/ task'[u] = task[u]
  BY <1>1 DEF Idle
<1>2. CASE Reload
  BY <1>1, <1>2, AfterReload DEF Left
<1>3. CASE Settles(u)
  <2>1. CASE OrderCommits(u)
    BY <1>1, <2>1, NewOrder
  <2>2. CASE IntentCreated(u)
    <3>1. PICK i \in Intent : Reply(u, [task[u] EXCEPT !.pc = "intentMade", !.pay = i])
      BY <2>2 DEF IntentCreated
    <3> QED BY <1>1, <3>1, AfterPay
  <2>3. CASE PayPalCreated(u)
    <3>1. PICK p \in PayPalOrder : Reply(u, [task[u] EXCEPT !.pc = "ppApprove", !.pay = p])
      BY <2>3 DEF PayPalCreated
    <3> QED BY <1>1, <3>1, AfterPay
  <2>4. CASE OrderAnswered(u) \/ CardCharged(u) \/ OrderConfirmed(u) \/ PayPalCaptured(u) \/ PayPalRecorded(u)
    BY <1>1, <2>4, AfterGoto, AfterEnd, AfterCapture
       DEF OrderAnswered, CardCharged, OrderConfirmed, PayPalRecorded
  <2>5. CASE IntentAnswered(u) \/ Success(u) \/ Fails(u) \/ Orphaned(u)
    BY <1>1, <2>5, AfterEnd, AfterFail DEF IntentAnswered, Success, Orphaned, Left
  <2> QED BY <1>3, <2>1, <2>2, <2>3, <2>4, <2>5 DEF Settles
<1>4. CASE Customer(u)
  <2>1. CASE Approve(u)
    BY <1>1, <2>1, AfterGoto DEF Approve
  <2>2. CASE ClickProceed(u) \/ PayByCard(u) \/ ClickPayPal(u)
    BY <2>2, AfterStart DEF ClickProceed, PayByCard, ClickPayPal, Begin
  <2>3. ASSUME NEW m \in {"stripe", "paypal"}, SwitchMethod(u, m) PROVE Goal
    <3>1. \/ task' = task
          \/ Start(u, Begin("method", "createIntent", page.orderId, 0, 0))
      BY <2>3 DEF SwitchMethod
    <3> QED BY <1>1, <3>1, AfterStart DEF Begin
  <2> QED BY <1>4, <2>1, <2>2, <2>3 DEF Customer
<1>5. CASE UNCHANGED task
  BY <1>1, <1>5
<1>6. ASSUME NEW t \in Task, t # u, Settles(t) \/ Customer(t) PROVE Goal
  BY <1>1, <1>6, OthersStay
<1> QED BY <1>2, <1>3, <1>4, <1>5, <1>6, TasksUntouched DEF Next

\* The fields of a task that does not run.
LEMMA IdleFields == Idle.pc = "idle" /\ Idle.kind = "none" /\ Idle.order = 0 /\ Idle.live = FALSE
BY DEF Idle

\* The call that a task is at after a step, and the action that brought it there.
SameRow(t) == /\ task'[t].pc = task[t].pc /\ task'[t].kind = task[t].kind
              /\ task'[t].visit = task[t].visit /\ task'[t].order = task[t].order
              /\ task'[t].pay = task[t].pay /\ task'[t].amount = task[t].amount

Arrives(t) ==
    \/ SameRow(t)
    \/ task'[t].pc = "idle"
    \/ OrderCommits(t) /\ task'[t].pc = "orderPlaced"
    \/ OrderAnswered(t) /\ task'[t].pc = "createIntent"
    \/ task'[t].pc \in {"intentMade", "confirm", "recorded", "ppApprove", "ppCreate",
                        "ppCapture", "ppCaptured"}
    \/ ClickProceed(t) /\ task'[t].pc = "placeOrder"
    \/ PayByCard(t) /\ task'[t].pc = "charge"
    \/ task'[t].kind = "method" /\ task'[t].pc = "createIntent"

\* Every step of a task arrives somewhere in this list.
LEMMA Arrivals ==
    ASSUME TypeOK, [Next]_vars, NEW t \in Task
    PROVE  Arrives(t)
<1>0. ASSUME task'[t] = Idle PROVE Arrives(t)
  BY <1>0, IdleFields DEF Arrives
<1>1. ASSUME task'[t] = task[t] PROVE Arrives(t)
  BY <1>1 DEF Arrives, SameRow
<1>2. CASE Reload
  BY <1>0, <1>2, AfterReload DEF Arrives, SameRow, Left
<1>3. CASE Settles(t)
  <2>1. CASE OrderCommits(t)
    <3>1. task'[t] = Idle \/ task'[t].pc = "orderPlaced"
      BY <2>1, NewOrder
    <3> QED BY <1>0, <2>1, <3>1 DEF Arrives
  <2>2. CASE IntentCreated(t)
    <3>1. PICK i \in Intent : Reply(t, [task[t] EXCEPT !.pc = "intentMade", !.pay = i])
      BY <2>2 DEF IntentCreated
    <3>2. task'[t] = Idle \/ task'[t].pc = "intentMade"
      BY <3>1, AfterPay
    <3> QED BY <1>0, <3>2 DEF Arrives
  <2>3. CASE PayPalCreated(t)
    <3>1. PICK p \in PayPalOrder : Reply(t, [task[t] EXCEPT !.pc = "ppApprove", !.pay = p])
      BY <2>3 DEF PayPalCreated
    <3>2. task'[t] = Idle \/ task'[t].pc = "ppApprove"
      BY <3>1, AfterPay
    <3> QED BY <1>0, <3>2 DEF Arrives
  <2>4. CASE OrderAnswered(t)
    <3>1. task'[t] = Idle \/ task'[t].pc = "createIntent"
      BY <2>4, AfterGoto, AfterEnd DEF OrderAnswered
    <3> QED BY <1>0, <2>4, <3>1 DEF Arrives
  <2>5. CASE CardCharged(t) \/ OrderConfirmed(t) \/ PayPalCaptured(t) \/ PayPalRecorded(t)
    <3>1. task'[t] = Idle \/ task'[t].pc \in {"confirm", "recorded", "ppCaptured"}
      BY <2>5, AfterGoto, AfterCapture DEF CardCharged, OrderConfirmed, PayPalRecorded
    <3> QED BY <1>0, <3>1 DEF Arrives
  <2>6. CASE IntentAnswered(t) \/ Success(t) \/ Orphaned(t)
    BY <1>0, <2>6, AfterEnd DEF IntentAnswered, Success, Orphaned
  <2>7. CASE Fails(t)
    BY <1>0, <2>7, AfterFail DEF Arrives, SameRow, Left
  <2> QED BY <1>3, <2>1, <2>2, <2>3, <2>4, <2>5, <2>6, <2>7 DEF Settles
<1>4. CASE Customer(t)
  <2>1. CASE Approve(t)
    <3>1. task'[t] = Idle \/ task'[t].pc = "ppCapture"
      BY <2>1, AfterGoto DEF Approve
    <3> QED BY <1>0, <3>1 DEF Arrives
  <2>2. CASE ClickProceed(t)
    <3>1. task'[t].pc = "placeOrder"
      BY <2>2, AfterStart DEF ClickProceed, Begin
    <3> QED BY <2>2, <3>1 DEF Arrives
  <2>3. CASE PayByCard(t)
    <3>1. task'[t].pc = "charge"
      BY <2>3, AfterStart DEF PayByCard, Begin
    <3> QED BY <2>3, <3>1 DEF Arrives
  <2>4. CASE ClickPayPal(t)
    <3>1. task'[t].pc = "ppCreate"
      BY <2>4, AfterStart DEF ClickPayPal, Begin
    <3> QED BY <3>1 DEF Arrives
  <2>5. ASSUME NEW m \in {"stripe", "paypal"}, SwitchMethod(t, m) PROVE Arrives(t)
    <3>1. \/ task' = task
          \/ Start(t, Begin("method", "createIntent", page.orderId, 0, 0))
      BY <2>5 DEF SwitchMethod
    <3>2. task'[t] = task[t] \/ (task'[t].kind = "method" /\ task'[t].pc = "createIntent")
      BY <3>1, AfterStart DEF Begin
    <3> QED BY <1>1, <3>2 DEF Arrives
  <2> QED BY <1>4, <2>1, <2>2, <2>3, <2>4, <2>5 DEF Customer
<1>5. CASE UNCHANGED task
  BY <1>1, <1>5
<1>6. ASSUME NEW u \in Task, u # t, Settles(u) \/ Customer(u) PROVE Arrives(t)
  BY <1>1, <1>6, OthersStay
<1> QED BY <1>2, <1>3, <1>4, <1>5, <1>6, TasksUntouched DEF Next

\* FreshOrders is preserved.
LEMMA FreshStep ==
    TypeOK /\ PcOfKind /\ References /\ FreshOrders /\ [Next]_vars => FreshOrders'
<1> SUFFICES ASSUME TypeOK, PcOfKind, References, FreshOrders, [Next]_vars, NEW t \in Task
             PROVE  /\ task'[t].pc = "placeOrder" => task'[t].order = 0
                    /\ task'[t].pc = "orderPlaced" =>
                          /\ page'.orderId # task'[t].order
                          /\ \A i \in Intent : Made(i)' => intents'[i].order # task'[t].order
                          /\ \A u \in Task \ {t} : task'[u].order # task'[t].order
  BY DEF FreshOrders
<1>0. Arrives(t)
  BY Arrivals
<1>1. ASSUME task'[t].pc = "placeOrder" PROVE task'[t].order = 0
  <2>1. CASE SameRow(t)
    BY <1>1, <2>1 DEF SameRow, FreshOrders
  <2>2. CASE ClickProceed(t)
    BY <2>2, AfterStart DEF ClickProceed, Begin
  <2> QED BY <1>0, <1>1, <2>1, <2>2 DEF Arrives
<1>2. CASE task'[t].pc = "orderPlaced" /\ SameRow(t)
  <2> DEFINE o == task'[t].order
  <2>1. /\ task[t].pc = "orderPlaced" /\ o = task[t].order /\ o # 0 /\ Placed(o)
        /\ page.orderId # o
        /\ \A i \in Intent : Made(i) => intents[i].order # o
        /\ \A u \in Task \ {t} : task[u].order # o
    BY <1>2, Ids DEF SameRow, FreshOrders, References, TaskRefs, Placed
  <2>2. ~OrderAnswered(t)
    <3>1. OrderAnswered(t) => task'[t].pc \in {"idle", "createIntent"}
      BY AfterGoto, AfterEnd, IdleFields DEF OrderAnswered
    <3> QED BY <1>2, <3>1
  <2>3. page'.orderId # o
    BY <2>1, <2>2, PageIds
  <2>4. ASSUME NEW i \in Intent, Made(i)' PROVE intents'[i].order # o
    <3>1. CASE Made(i)
      BY <2>1, <3>1, StepStays, Kept
    <3>2. CASE ~Made(i)
      <4>1. PICK u \in Task : IntentCreated(u) /\ intents'[i].order = task[u].order
        BY <2>4, <3>2, NewIntent
      <4>2. u # t
        BY <2>1, <4>1 DEF IntentCreated
      <4> QED BY <2>1, <4>1, <4>2
    <3> QED BY <3>1, <3>2
  <2>5. ASSUME NEW u \in Task, u # t PROVE task'[u].order # o
    BY <2>1, <2>5, TaskOrders
  <2> QED BY <1>1, <2>3, <2>4, <2>5
<1>3. CASE task'[t].pc = "orderPlaced" /\ OrderCommits(t)
  <2>1. PICK o \in Order : ~Placed(o) /\ (task'[t] = Idle \/ task'[t].order = o)
    BY <1>3, NewOrder
  <2>2. task'[t].order = o /\ o # 0
    BY <1>3, <2>1, IdleFields, Ids
  <2>3. /\ page' = page /\ intents' = intents
        /\ \A u \in Task \ {t} : task'[u] = task[u]
    BY <1>3, OthersStay DEF OrderCommits, PlaceOrder, Settles
  <2>4. page.orderId # o /\ \A i \in Intent : Made(i) => intents[i].order # o
    BY <2>1, <2>2 DEF References
  <2>5. ASSUME NEW u \in Task PROVE task[u].order # o
    <3>1. task[u].pc \in {"idle", "placeOrder"} \/ Placed(task[u].order)
      BY DEF References, TaskRefs
    <3>2. task[u].pc = "idle" => task[u].order = 0
      BY IdleFields DEF PcOfKind
    <3> QED BY <2>1, <2>2, <3>1, <3>2 DEF FreshOrders
  <2> QED BY <1>1, <2>2, <2>3, <2>4, <2>5 DEF Made
<1> QED BY <1>0, <1>1, <1>2, <1>3 DEF Arrives

\* An intent that is charged exists.
LEMMA InHandIsMade ==
    ASSUME References, NEW i \in Intent, InHand(i)
    PROVE  Made(i) /\ Placed(intents[i].order)
<1>1. Made(i)
  BY DEF InHand, References, TaskRefs, Made
<1> QED BY <1>1 DEF References

\* Only a click on the pay button takes an intent in hand, the one of the page.
LEMMA NewInHand ==
    ASSUME TypeOK, References, [Next]_vars, NEW i \in Intent, InHand(i)'
    PROVE  /\ intents'[i].order = intents[i].order
           /\ Placed(intents[i].order)
           /\ \/ InHand(i)
              \/ \E t \in Task : PayByCard(t) /\ page.secret = i
<1>1. ASSUME NEW t \in Task, task'[t].pc = "charge", task'[t].pay = i
      PROVE  \/ InHand(i)
             \/ PayByCard(t) /\ page.secret = i /\ Made(i)
  <2>1. CASE SameRow(t)
    BY <1>1, <2>1 DEF SameRow, InHand
  <2>2. CASE PayByCard(t)
    <3>1. page.secret = i
      BY <1>1, <2>2, AfterStart DEF PayByCard, Begin
    <3>2. page.secret # 0
      BY <2>2 DEF PayByCard, CardForm
    <3> QED BY <2>2, <3>1, <3>2 DEF References
  <2> QED BY <1>1, <2>1, <2>2, Arrivals DEF Arrives
<1>2. CASE intents'[i].state = "succeeded"
  <2>1. InHand(i)
    <3>1. CASE intents[i].state # "succeeded"
      BY <1>2, <3>1, NewSuccess DEF InHand, CardCharged
    <3>2. CASE intents[i].state = "succeeded"
      BY <3>2 DEF InHand
    <3> QED BY <3>1, <3>2
  <2> QED BY <2>1, InHandIsMade, StepStays, Kept
<1>3. CASE intents'[i].state # "succeeded"
  <2>1. PICK t \in Task : task'[t].pc = "charge" /\ task'[t].pay = i
    BY <1>3 DEF InHand
  <2>2. InHand(i) \/ (PayByCard(t) /\ page.secret = i /\ Made(i))
    BY <1>1, <2>1
  <2>3. Made(i) /\ Placed(intents[i].order)
    BY <2>2, InHandIsMade DEF References
  <2> QED BY <2>2, <2>3, StepStays, Kept
<1> QED BY <1>2, <1>3

\* OneInHand is preserved.
LEMMA OneInHandStep ==
    TypeOK /\ References /\ PageTasks /\ FreshOrders /\ OneInHand /\ [Next]_vars => OneInHand'
<1> SUFFICES ASSUME TypeOK, References, PageTasks, FreshOrders, OneInHand, [Next]_vars
             PROVE  OneInHand'
  OBVIOUS
<1>1. ASSUME NEW i \in Intent, InHand(i)', NEW j \in Intent, InHand(j)',
             intents'[i].order = intents'[j].order
      PROVE  i = j
  <2>1. intents[i].order = intents[j].order
    BY <1>1, NewInHand
  <2>2. ASSUME NEW k \in Intent, NEW l \in Intent, InHand(k), NEW t \in Task, PayByCard(t),
               page.secret = l, intents[k].order = intents[l].order
        PROVE  k = l
    <3>1. page.secret # 0
      BY <2>2 DEF PayByCard, CardForm
    <3>2. intents[l].order = page.orderId
      BY <2>2, <3>1 DEF References
    <3> QED BY <2>2, <3>2 DEF OneInHand
  <2> QED BY <1>1, <2>1, <2>2, NewInHand DEF OneInHand
<1>2. ASSUME NEW i \in Intent, InHand(i)', intents'[i].order = page'.orderId
      PROVE  page'.secret = i
  <2>1. /\ intents[i].order = page'.orderId
        /\ Placed(intents[i].order) /\ intents[i].order # 0
        /\ InHand(i) \/ \E t \in Task : PayByCard(t) /\ page.secret = i
    BY <1>2, NewInHand, Ids DEF Placed
  <2>2. CASE page'.orderId = page.orderId /\ page'.secret = page.secret
    BY <2>1, <2>2 DEF OneInHand
  <2>3. ASSUME NEW t \in Task, OrderAnswered(t), page'.orderId = task[t].order PROVE FALSE
    <3>1. task[t].pc = "orderPlaced"
      BY <2>3 DEF OrderAnswered
    <3>2. ~Made(i)
      BY <2>1, <2>3, <3>1 DEF FreshOrders
    <3>3. \A u \in Task : PayByCard(u) => page.secret # 0
      BY DEF PayByCard, CardForm
    <3>4. Made(i)
      BY <2>1, <3>3, InHandIsMade, Ids DEF References
    <3> QED BY <3>2, <3>4
  <2>4. ASSUME NEW t \in Task, IntentAnswered(t), Mounted(t), page'.orderId = page.orderId
        PROVE  FALSE
    <3>1. page.secret = 0
      BY <2>4 DEF IntentAnswered, PageTasks, Prepares
    <3>2. InHand(i)
      BY <2>1, <3>1, Ids
    <3> QED BY <2>1, <2>4, <3>1, <3>2, Ids DEF OneInHand
  <2> QED BY <2>1, <2>2, <2>3, <2>4, PageIds
<1> QED BY <1>1, <1>2 DEF OneInHand

\* The card is charged once for an order at most, whatever the customer repeats,
\* leaves or comes back to: the page never drops the secret of an intent that may
\* have been charged while it still shows the order.
THEOREM CardIsChargedOnce == Spec => []CardChargedOnce
<1>1. Init => FreshOrders /\ OneInHand
  <2> SUFFICES ASSUME Init PROVE FreshOrders /\ OneInHand
    OBVIOUS
  <2>1. /\ \A i \in Intent : intents[i].state = "none"
        /\ \A t \in Task : task[t] = Idle
    BY DEF Init, PayInit, NoIntent
  <2>2. \A t \in Task : task[t].pc = "idle"
    BY <2>1, IdleFields
  <2> QED BY <2>1, <2>2 DEF FreshOrders, OneInHand, InHand
<1>2. Core /\ FreshOrders /\ OneInHand /\ [Next]_vars => FreshOrders' /\ OneInHand'
  BY FreshStep, OneInHandStep DEF Core
<1>3. OneInHand => CardChargedOnce
  BY DEF OneInHand, InHand, CardChargedOnce, Succeeded
<1> QED BY <1>1, <1>2, <1>3, CoreInvariant, PTL DEF Spec

-----------------------------------------------------------------------------
(* The amount of the order and of the intent made with it.                  *)

\* TaskAmounts is preserved.
LEMMA TaskAmountsStep ==
    TypeOK /\ References /\ TaskAmounts /\ [Next]_vars => TaskAmounts'
<1> SUFFICES ASSUME TypeOK, References, TaskAmounts, [Next]_vars, NEW t \in Task,
                    task'[t].kind = "placeCard", task'[t].pc \in {"orderPlaced", "createIntent"}
             PROVE  task'[t].amount = orders'[task'[t].order].total
  BY DEF TaskAmounts
<1>1. CASE SameRow(t) \/ OrderAnswered(t)
  <2>1. /\ task[t].kind = "placeCard" /\ task[t].pc \in {"orderPlaced", "createIntent"}
        /\ task'[t].amount = task[t].amount /\ task'[t].order = task[t].order
    <3>1. CASE SameRow(t)
      BY <3>1 DEF SameRow
    <3>2. CASE OrderAnswered(t)
      <4>1. task'[t] # Idle
        BY IdleFields
      <4> QED BY <3>2, <4>1, AfterGoto, AfterEnd DEF OrderAnswered, Continues
    <3> QED BY <1>1, <3>1, <3>2
  <2>2. Placed(task[t].order) /\ task[t].amount = orders[task[t].order].total
    BY <2>1 DEF References, TaskRefs, TaskAmounts
  <2> QED BY <2>1, <2>2, StepStays, Kept
<1>2. CASE OrderCommits(t)
  <2>1. PICK o \in Order :
           /\ PlaceOrder(o, task[t].amount, task[t].visit)
           /\ \/ task'[t] = Idle
              \/ Continues(t) /\ task'[t].order = o
    BY <1>2, NewOrder
  <2>2. task'[t].order = o /\ task'[t].amount = task[t].amount
    BY <2>1, IdleFields DEF Continues
  <2>3. orders'[o].total = task[t].amount
    BY <2>1 DEF PlaceOrder, TypeOK, PayTypeOK
  <2> QED BY <2>2, <2>3
<1> QED BY <1>1, <1>2, Arrivals DEF Arrives

\* An intent that is not made says nothing.
WithIsMade == \A i \in Intent : intents[i].with => Made(i)

\* The row of an intent that is not made does not change.
LEMMA UnmadeStays ==
    ASSUME TypeOK, [Next]_vars, NEW i \in Intent, ~Made(i)'
    PROVE  intents'[i].with = intents[i].with /\ ~Made(i)
<1>0. PayTypeOK
  BY DEF TypeOK
<1>1. CASE UNCHANGED intents
  BY <1>1 DEF Made
<1>2. ASSUME NEW t \in Task, IntentCreated(t)
      PROVE  intents'[i].with = intents[i].with /\ ~Made(i)
  BY <1>0, <1>2 DEF IntentCreated, CreatePaymentIntent, PayTypeOK, IntentRow, Made
<1>3. ASSUME NEW t \in Task, CardCharged(t)
      PROVE  intents'[i].with = intents[i].with /\ ~Made(i)
  BY <1>0, <1>3 DEF CardCharged, ChargeCard, PayTypeOK, IntentRow, Made
<1> QED BY <1>1, <1>2, <1>3
        DEF Next, Settles, Customer, OrderCommits, OrderAnswered, IntentAnswered,
            OrderConfirmed, PayPalCreated, PayPalCaptured, PayPalRecorded, Success, Fails,
            CatchBlock, Orphaned, ClickProceed, PayByCard, ClickPayPal, Approve, SwitchMethod,
            AddToCart, ChangeQuantity, OpenCheckout, LeaveCheckout, Reload, EventDelivered,
            EventRepeated, Webhook, WebhookUnacked, AdminSetsStatus, SetStatus, payVars, vars,
            PlaceOrder, ConfirmOrder, CreatePayPalOrder, ApprovePayPal, CapturePayPal, RecordPayPal

\* AmountAgreed is preserved.
LEMMA AmountStep ==
    /\ TypeOK /\ References /\ TaskAmounts /\ WithIsMade /\ AmountAgreed /\ [Next]_vars
    => WithIsMade' /\ AmountAgreed'
<1> SUFFICES ASSUME TypeOK, References, TaskAmounts, WithIsMade, AmountAgreed, [Next]_vars,
                    NEW i \in Intent, intents'[i].with
             PROVE  Made(i)' /\ intents'[i].amount = orders'[intents'[i].order].total
  BY DEF WithIsMade, AmountAgreed
<1>1. Made(i)'
  BY UnmadeStays DEF WithIsMade
<1>2. CASE Made(i)
  <2>1. IntentStays(i) /\ Placed(intents[i].order)
    BY <1>2, StepStays DEF RowsStay, References
  <2>2. orders'[intents[i].order].total = orders[intents[i].order].total
    BY <2>1, StepStays, Kept
  <2> QED BY <1>1, <1>2, <2>1, <2>2 DEF IntentStays, AmountAgreed
<1>3. CASE ~Made(i)
  <2>1. PICK t \in Task : /\ IntentCreated(t)
                          /\ intents'[i].order = task[t].order
                          /\ intents'[i].amount = task[t].amount
                          /\ task[t].kind = "placeCard"
    BY <1>1, <1>3, NewIntent
  <2>2. task[t].pc = "createIntent"
    BY <2>1 DEF IntentCreated
  <2>3. Placed(task[t].order) /\ task[t].amount = orders[task[t].order].total
    BY <2>1, <2>2 DEF References, TaskRefs, TaskAmounts
  <2> QED BY <1>1, <2>1, <2>3, StepStays, Kept
<1> QED BY <1>2, <1>3

\* An intent made along with its order asks for the total of this order, however
\* the cart is edited while POST /orders is on its way.
THEOREM AmountsAgree == Spec => []AmountAgreed
<1>1. Init => TaskAmounts /\ WithIsMade /\ AmountAgreed
  <2> SUFFICES ASSUME Init PROVE TaskAmounts /\ WithIsMade /\ AmountAgreed
    OBVIOUS
  <2>1. /\ \A i \in Intent : ~intents[i].with
        /\ \A t \in Task : task[t] = Idle
    BY DEF Init, PayInit, NoIntent
  <2> QED BY <2>1, IdleFields DEF TaskAmounts, WithIsMade, AmountAgreed
<1>2. Core /\ TaskAmounts /\ WithIsMade /\ AmountAgreed /\ [Next]_vars
      => TaskAmounts' /\ WithIsMade' /\ AmountAgreed'
  BY TaskAmountsStep, AmountStep DEF Core
<1> QED BY <1>1, <1>2, CoreInvariant, PTL DEF Spec

-----------------------------------------------------------------------------
(* How many orders a visit places.                                          *)

\* Only POST /orders gives a row its visit.
LEMMA VisitsStay ==
    ASSUME TypeOK, [Next]_vars, \A t \in Task : ~OrderCommits(t), NEW o \in Order
    PROVE  orders'[o].visit = orders[o].visit
<1>0. orders \in [Order -> OrderRow]
  BY DEF TypeOK, PayTypeOK
<1>1. CASE UNCHANGED orders
  BY <1>1
<1>2. ASSUME NEW n, NEW payment, MarkPaid(n, payment) PROVE orders'[o].visit = orders[o].visit
  BY <1>0, <1>2 DEF MarkPaid, OrderRow
<1>3. CASE AdminSetsStatus
  BY <1>0, <1>3 DEF AdminSetsStatus, SetStatus, OrderRow
<1> QED BY <1>1, <1>2, <1>3
        DEF Next, Settles, Customer, OrderAnswered, IntentCreated, IntentAnswered, CardCharged,
            OrderConfirmed, PayPalCreated, PayPalCaptured, PayPalRecorded, Success, Fails,
            CatchBlock, Orphaned, ClickProceed, PayByCard, ClickPayPal, Approve, SwitchMethod,
            AddToCart, ChangeQuantity, OpenCheckout, LeaveCheckout, Reload, EventDelivered,
            EventRepeated, Webhook, WebhookUnacked, payVars, vars, CreatePaymentIntent,
            ChargeCard, ConfirmOrder, CreatePayPalOrder, ApprovePayPal, CapturePayPal, RecordPayPal

\* The count of a visit's failures grows, by each function of it that fails to
\* place an order.
LEMMA FailuresGrow ==
    ASSUME TypeOK, [Next]_vars, NEW v \in 1..MaxVisits
    PROVE  /\ failures[v] \in Nat /\ failures'[v] \in Nat /\ failures'[v] >= failures[v]
           /\ \A t \in Task : Fails(t) /\ Places(t) /\ task[t].visit = v =>
                 failures'[v] = failures[v] + 1
<1>0. failures \in [1..MaxVisits -> Nat]
  BY DEF TypeOK
<1>1. ASSUME NEW t \in Task, Fails(t)
      PROVE  /\ failures'[v] \in Nat /\ failures'[v] >= failures[v]
             /\ Places(t) /\ task[t].visit = v => failures'[v] = failures[v] + 1
  <2>1. failures' = IF task[t].kind \in PlaceKinds
                    THEN [failures EXCEPT ![task[t].visit] = @ + 1] ELSE failures
    BY <1>1 DEF Fails, CatchBlock
  <2> QED BY <1>0, <2>1 DEF Places
<1>2. CASE \A t \in Task : ~Fails(t)
  <2>1. failures' = failures
    BY <1>2 DEF Next, Settles, Customer, OrderCommits, OrderAnswered, IntentCreated, IntentAnswered,
       CardCharged, OrderConfirmed, PayPalCreated, PayPalCaptured, PayPalRecorded, Success,
       Orphaned, ClickProceed, PayByCard, ClickPayPal, Approve, SwitchMethod,
       AddToCart, ChangeQuantity, OpenCheckout, LeaveCheckout, Reload, EventDelivered,
       EventRepeated, AdminSetsStatus, vars
  <2> QED BY <1>0, <1>2, <2>1
<1> QED BY <1>0, <1>1, <1>2

\* How a page comes to offer the button that places the order.
LEMMA OffersOrder ==
    ASSUME TypeOK, PcOfKind, PageTasks, [Next]_vars, ConfirmView', ~page'.loading
    PROVE  \/ ConfirmView /\ ~page.loading /\ page'.visit = page.visit
           \/ page'.visit = page.visit + 1
           \/ /\ page'.visit = page.visit
              /\ \E t \in Task : Fails(t) /\ Places(t) /\ task[t].visit = page.visit
<1> DEFINE Goal ==
        \/ ConfirmView /\ ~page.loading /\ page'.visit = page.visit
        \/ page'.visit = page.visit + 1
        \/ /\ page'.visit = page.visit
           /\ \E t \in Task : Fails(t) /\ Places(t) /\ task[t].visit = page.visit
<1>0. page \in PageRow /\ page'.open /\ page'.step = "confirm"
  BY DEF TypeOK, ConfirmView
<1>1. CASE /\ page'.open = page.open /\ page'.step = page.step
           /\ page'.loading = page.loading /\ page'.visit = page.visit
  BY <1>0, <1>1 DEF ConfirmView
<1>2. CASE UNCHANGED page
  BY <1>1, <1>2
<1>3. CASE AddToCart \/ ChangeQuantity \/ LeaveCheckout \/ Reload
  <2>1. page' = page \/ page' = Closed
    BY <1>3 DEF AddToCart, ChangeQuantity, LeaveCheckout, Reload, SetCart
  <2> QED BY <1>0, <1>2, <2>1 DEF Closed, Mount
<1>4. CASE OpenCheckout
  BY <1>4 DEF OpenCheckout, Mount
<1>5. ASSUME NEW t \in Task, OrderAnswered(t) PROVE Goal
  <2>1. CASE ~Mounted(t)
    BY <1>2, <1>5, <2>1 DEF OrderAnswered
  <2>2. CASE Mounted(t) /\ task[t].kind = "placeCard"
    BY <1>0, <1>1, <1>5, <2>2 DEF OrderAnswered, PageRow
  <2>3. CASE Mounted(t) /\ task[t].kind # "placeCard"
    BY <1>0, <1>5, <2>3 DEF OrderAnswered, PageRow
  <2> QED BY <2>1, <2>2, <2>3
<1>6. ASSUME NEW t \in Task, IntentAnswered(t) PROVE Goal
  <2>1. CASE ~Mounted(t)
    BY <1>2, <1>6, <2>1 DEF IntentAnswered
  <2>2. CASE Mounted(t) /\ task[t].kind = "placeCard"
    BY <1>0, <1>6, <2>2 DEF IntentAnswered, PageRow
  <2>3. CASE Mounted(t) /\ task[t].kind # "placeCard"
    BY <1>0, <1>1, <1>6, <2>3 DEF IntentAnswered, PageRow
  <2> QED BY <2>1, <2>2, <2>3
<1>7. ASSUME NEW t \in Task, Success(t) PROVE Goal
  <2>1. page' = page \/ page' = Closed
    BY <1>7 DEF Success, SetCart
  <2> QED BY <1>0, <1>2, <2>1 DEF Closed, Mount
<1>8. ASSUME NEW t \in Task, Fails(t) PROVE Goal
  <2>1. CASE Mounted(t) /\ Places(t)
    <3>1. page'.visit = page.visit /\ task[t].visit = page.visit
      BY <1>0, <1>8, <2>1, CatchPage DEF PageRow, Mounted
    <3> QED BY <1>8, <2>1, <3>1
  <2>2. CASE ~(Mounted(t) /\ Places(t))
    <3>1. /\ page'.open = page.open /\ page'.step = page.step
          /\ page'.loading = page.loading /\ page'.visit = page.visit
      BY <1>0, <1>8, <2>2, CatchPage DEF PageRow, Places, Mounted
    <3> QED BY <1>1, <3>1
  <2> QED BY <2>1, <2>2
<1>9. ASSUME NEW t \in Task, Customer(t) PROVE Goal
  <2>1. CASE ClickProceed(t)
    BY <1>0, <2>1 DEF ClickProceed, PageRow
  <2>2. CASE PayByCard(t) \/ ClickPayPal(t) \/ Approve(t)
    BY <1>0, <1>1, <2>2 DEF PayByCard, ClickPayPal, Approve, PageRow
  <2>3. ASSUME NEW m \in {"stripe", "paypal"}, SwitchMethod(t, m) PROVE Goal
    BY <1>0, <1>1, <2>3 DEF SwitchMethod, PageRow
  <2> QED BY <1>9, <2>1, <2>2, <2>3 DEF Customer
<1> QED BY <1>2, <1>3, <1>4, <1>5, <1>6, <1>7, <1>8, <1>9
        DEF Next, Settles, OrderCommits, IntentCreated, CardCharged, OrderConfirmed,
            PayPalCreated, PayPalCaptured, PayPalRecorded, Orphaned, EventDelivered,
            EventRepeated, AdminSetsStatus, vars

\* Visits are counted up.
LEMMA PageVisitGrows ==
    ASSUME TypeOK, [Next]_vars
    PROVE  page.visit \in Nat /\ page'.visit \in Nat /\ page'.visit >= page.visit
<1>0. page \in PageRow /\ page.visit \in Nat
  BY DEF TypeOK, PageRow
<1>1. CASE page'.visit \in {page.visit, page.visit + 1}
  BY <1>0, <1>1
<1>2. CASE AddToCart \/ ChangeQuantity \/ LeaveCheckout \/ Reload \/ OpenCheckout
  BY <1>1, <1>2 DEF AddToCart, ChangeQuantity, LeaveCheckout, Reload, OpenCheckout, SetCart,
                    Closed, Mount
<1>3. ASSUME NEW t \in Task, Settles(t) PROVE page'.visit = page.visit
  <2>1. CASE OrderAnswered(t)
    BY <1>0, <2>1 DEF OrderAnswered, PageRow
  <2>2. CASE IntentAnswered(t)
    BY <1>0, <2>2 DEF IntentAnswered, PageRow
  <2>3. CASE Success(t)
    BY <2>3 DEF Success, SetCart, Closed, Mount
  <2>4. CASE Fails(t)
    BY <1>0, <2>4, CatchPage DEF PageRow
  <2> QED BY <1>3, <2>1, <2>2, <2>3, <2>4
          DEF Settles, OrderCommits, IntentCreated, CardCharged, OrderConfirmed,
              PayPalCreated, PayPalCaptured, PayPalRecorded, Orphaned
<1>4. ASSUME NEW t \in Task, Customer(t) PROVE page'.visit = page.visit
  BY <1>0, <1>4 DEF PageRow, Customer, ClickProceed, PayByCard, ClickPayPal, Approve, SwitchMethod
<1> QED BY <1>1, <1>2, <1>3, <1>4 DEF Next, EventDelivered, EventRepeated, AdminSetsStatus, vars

\* The requests of a visit that may still commit an order, whoever waits for them.
Late(v) == {t \in Task : task[t].pc = "placeOrder" /\ task[t].visit = v}

OrdersAndLate(v) == Cardinality(OrdersOf(v)) + Cardinality(Late(v))

\* The orders of a visit and the requests that may add to them are one more than
\* its failures at most, and no more than these while the button is offered.
Counted(v) ==
    /\ IsFiniteSet(OrdersOf(v)) /\ IsFiniteSet(Late(v))
    /\ page.visit < v => OrdersOf(v) = {} /\ Late(v) = {}
    /\ OrdersAndLate(v) <= 1 + failures[v]
    /\ v = page.visit /\ ConfirmView /\ ~page.loading => OrdersAndLate(v) <= failures[v]

\* Only a click adds a request, one to the visit of the page.
LEMMA LateStep ==
    ASSUME TypeOK, [Next]_vars, NEW v
    PROVE  \/ Late(v)' \subseteq Late(v)
           \/ \E t \in Task : ClickProceed(t) /\ page.visit = v /\ Late(v)' \subseteq Late(v) \cup {t}
<1>1. ASSUME NEW t \in Task, task'[t].pc = "placeOrder", task'[t].visit = v, t \notin Late(v)
      PROVE  ClickProceed(t) /\ page.visit = v
  <2>1. ~SameRow(t)
    BY <1>1 DEF SameRow, Late
  <2>2. ClickProceed(t)
    BY <1>1, <2>1, Arrivals DEF Arrives
  <2>3. task'[t].visit = page.visit
    BY <2>2, AfterStart DEF ClickProceed, Begin
  <2> QED BY <1>1, <2>2, <2>3
<1>2. CASE \E t \in Task : ClickProceed(t)
  <2>1. PICK t \in Task : ClickProceed(t)
    BY <1>2
  <2>2. \A u \in Task \ {t} : task'[u] = task[u]
    BY <2>1, OthersStay DEF Customer
  <2>3. Late(v)' \subseteq Late(v) \cup {t}
    BY <2>2 DEF Late
  <2>4. t \in Late(v)' => t \in Late(v) \/ page.visit = v
    BY <1>1 DEF Late
  <2> QED BY <2>1, <2>3, <2>4
<1>3. CASE \A t \in Task : ~ClickProceed(t)
  BY <1>1, <1>3 DEF Late
<1> QED BY <1>2, <1>3

\* A visit that places no order in this step.
LEMMA CountedSame ==
    ASSUME TypeOK, PcOfKind, PageTasks, [Next]_vars, NEW v \in 1..MaxVisits, Counted(v),
           OrdersOf(v)' = OrdersOf(v)
    PROVE  Counted(v)'
<1>0. /\ Cardinality(OrdersOf(v)) \in Nat /\ Cardinality(Late(v)) \in Nat
      /\ OrdersAndLate(v) \in Nat /\ v \in Nat
  BY ClientAssumption, FS_CardinalityType DEF Counted, OrdersAndLate, ClientAssumption
<1>1. failures[v] \in Nat /\ failures'[v] \in Nat /\ failures'[v] >= failures[v]
  BY FailuresGrow
<1>2. CASE Late(v)' \subseteq Late(v)
  <2>1. IsFiniteSet(Late(v)') /\ Cardinality(Late(v)') <= Cardinality(Late(v))
    BY <1>2, FS_Subset DEF Counted
  <2>2. OrdersAndLate(v)' \in Nat /\ OrdersAndLate(v)' <= OrdersAndLate(v)
    <3>1. Cardinality(Late(v)') \in Nat
      BY <2>1, FS_CardinalityType
    <3> QED BY <1>0, <2>1, <3>1 DEF OrdersAndLate
  <2>3. OrdersAndLate(v) <= 1 + failures[v]
    BY DEF Counted
  <2>4. page'.visit < v => OrdersOf(v)' = {} /\ Late(v)' = {}
    BY <1>0, <1>2, PageVisitGrows DEF Counted
  <2>5. ASSUME v = page'.visit, ConfirmView', ~page'.loading
        PROVE  OrdersAndLate(v)' <= failures'[v]
    <3>1. CASE ConfirmView /\ ~page.loading /\ page'.visit = page.visit
      BY <1>0, <1>1, <2>2, <2>5, <3>1 DEF Counted
    <3>2. CASE page'.visit = page.visit + 1
      <4>1. page.visit < v
        BY <2>5, <3>2, PageVisitGrows
      <4>2. OrdersAndLate(v) = 0
        BY <4>1, FS_EmptySet DEF Counted, OrdersAndLate
      <4> QED BY <1>1, <2>2, <4>2
    <3>3. CASE /\ page'.visit = page.visit
               /\ \E t \in Task : Fails(t) /\ Places(t) /\ task[t].visit = page.visit
      <4>1. failures'[v] = failures[v] + 1
        BY <2>5, <3>3, FailuresGrow
      <4> QED BY <1>0, <1>1, <2>2, <2>3, <4>1
    <3> QED BY <2>5, <3>1, <3>2, <3>3, OffersOrder
  <2>6. OrdersAndLate(v)' <= 1 + failures'[v]
    BY <1>0, <1>1, <2>2, <2>3
  <2> QED BY <2>1, <2>4, <2>5, <2>6 DEF Counted
<1>3. ASSUME NEW t \in Task, ClickProceed(t), page.visit = v,
             Late(v)' \subseteq Late(v) \cup {t}
      PROVE  Counted(v)'
  <2>1. /\ IsFiniteSet(Late(v) \cup {t})
        /\ Cardinality(Late(v) \cup {t}) \in {Cardinality(Late(v)), Cardinality(Late(v)) + 1}
    BY FS_AddElement DEF Counted
  <2>2. /\ IsFiniteSet(Late(v)')
        /\ Cardinality(Late(v)') <= Cardinality(Late(v) \cup {t})
    BY <1>3, <2>1, FS_Subset
  <2>3. Cardinality(Late(v)') \in Nat /\ Cardinality(Late(v)') <= Cardinality(Late(v)) + 1
    BY <1>0, <2>1, <2>2, FS_CardinalityType
  <2>4. OrdersAndLate(v) <= failures[v]
    BY <1>3 DEF Counted, ClickProceed, CanProceed
  <2>5. OrdersAndLate(v)' <= 1 + failures'[v]
    BY <1>0, <1>1, <2>3, <2>4 DEF OrdersAndLate
  <2>6. page'.visit = v /\ page'.loading
    BY <1>3 DEF ClickProceed, TypeOK, PageRow
  <2> QED BY <1>0, <2>2, <2>5, <2>6 DEF Counted
<1> QED BY <1>2, <1>3, LateStep

\* The visit whose order commits: a request less that may still do so.
LEMMA CountedOneMore ==
    ASSUME TypeOK, PcOfKind, PageTasks, [Next]_vars, NEW t \in Task, OrderCommits(t),
           task[t].visit \in 1..MaxVisits, Counted(task[t].visit)
    PROVE  \A v \in 1..MaxVisits : v = task[t].visit => Counted(v)'
<1> SUFFICES ASSUME NEW v \in 1..MaxVisits, v = task[t].visit PROVE Counted(v)'
  OBVIOUS
<1>0. task[t].pc = "placeOrder" /\ page' = page /\ failures' = failures
  BY DEF OrderCommits
<1>1. PICK o \in Order : /\ PlaceOrder(o, task[t].amount, task[t].visit)
                         /\ task'[t] = Idle \/ task'[t].pc = "orderPlaced"
  BY NewOrder
<1>2. OrdersOf(v)' = OrdersOf(v) \cup {o}
  BY <1>1 DEF OrdersOf, PlaceOrder, TypeOK, PayTypeOK
<1>3. IsFiniteSet(OrdersOf(v)) /\ IsFiniteSet(Late(v)) /\ t \in Late(v)
  BY <1>0 DEF Counted, Late
<1>4. /\ Cardinality(OrdersOf(v)) \in Nat /\ Cardinality(OrdersOf(v)') \in Nat
      /\ IsFiniteSet(OrdersOf(v)')
      /\ Cardinality(OrdersOf(v)') <= Cardinality(OrdersOf(v)) + 1
  <2>1. Cardinality(OrdersOf(v)) \in Nat
    BY <1>3, FS_CardinalityType
  <2>2. /\ IsFiniteSet(OrdersOf(v) \cup {o})
        /\ Cardinality(OrdersOf(v) \cup {o}) \in {Cardinality(OrdersOf(v)), Cardinality(OrdersOf(v)) + 1}
    BY <1>3, FS_AddElement
  <2>3. IsFiniteSet(OrdersOf(v)') /\ Cardinality(OrdersOf(v)') = Cardinality(OrdersOf(v) \cup {o})
    BY <1>2, <2>2
  <2> QED BY <2>1, <2>2, <2>3
<1>5. Late(v)' \subseteq Late(v) \ {t}
  <2>1. \A u \in Task \ {t} : task'[u] = task[u]
    BY OthersStay DEF Settles
  <2>2. t \notin Late(v)'
    BY <1>1, IdleFields DEF Late
  <2> QED BY <2>1, <2>2 DEF Late
<1>6. /\ Cardinality(Late(v)) \in Nat /\ Cardinality(Late(v)') \in Nat
      /\ IsFiniteSet(Late(v)')
      /\ Cardinality(Late(v)') <= Cardinality(Late(v)) - 1
  <2>1. IsFiniteSet(Late(v) \ {t}) /\ Cardinality(Late(v) \ {t}) = Cardinality(Late(v)) - 1
    BY <1>3, FS_RemoveElement
  <2>2. IsFiniteSet(Late(v)') /\ Cardinality(Late(v)') <= Cardinality(Late(v) \ {t})
    BY <1>5, <2>1, FS_Subset
  <2>3. Cardinality(Late(v)) \in Nat /\ Cardinality(Late(v)') \in Nat
    BY <1>3, <2>2, FS_CardinalityType
  <2> QED BY <2>1, <2>2, <2>3
<1>7. OrdersAndLate(v)' <= OrdersAndLate(v) /\ OrdersAndLate(v)' \in Nat /\ OrdersAndLate(v) \in Nat
  BY <1>4, <1>6 DEF OrdersAndLate
<1>8. failures[v] \in Nat
  BY FailuresGrow
<1>9. /\ OrdersAndLate(v)' <= 1 + failures'[v]
      /\ v = page.visit /\ ConfirmView /\ ~page.loading => OrdersAndLate(v)' <= failures'[v]
  BY <1>0, <1>7, <1>8 DEF Counted
<1>10. task[t].visit <= page.visit /\ task[t].visit \in Nat /\ page.visit \in Nat
  <2>1. task[t] # Idle
    BY <1>0, IdleFields
  <2> QED BY <2>1, PageVisitGrows DEF PageTasks, TypeOK, TaskRow
<1> QED BY <1>0, <1>4, <1>6, <1>9, <1>10 DEF Counted, ConfirmView

\* Counted is preserved, for every visit.
LEMMA CountedStep ==
    /\ TypeOK /\ PcOfKind /\ PageTasks /\ [Next]_vars
    /\ \A v \in 1..MaxVisits : Counted(v)
    => \A v \in 1..MaxVisits : Counted(v)'
<1> SUFFICES ASSUME TypeOK, PcOfKind, PageTasks, [Next]_vars,
                    \A v \in 1..MaxVisits : Counted(v), NEW v \in 1..MaxVisits
             PROVE  Counted(v)'
  OBVIOUS
<1>1. CASE \A t \in Task : ~OrderCommits(t)
  <2>1. OrdersOf(v)' = OrdersOf(v)
    BY <1>1, VisitsStay DEF OrdersOf
  <2> QED BY <2>1, CountedSame
<1>2. ASSUME NEW t \in Task, OrderCommits(t) PROVE Counted(v)'
  <2>1. CASE v = task[t].visit
    BY <1>2, <2>1, CountedOneMore
  <2>2. CASE v # task[t].visit
    <3>1. PICK o \in Order : PlaceOrder(o, task[t].amount, task[t].visit)
      BY <1>2 DEF OrderCommits
    <3>2. orders[o].visit = 0 /\ 0 # v
      BY <3>1, ClientAssumption DEF PlaceOrder, NextId, NoOrder, ClientAssumption
    <3>3. OrdersOf(v)' = OrdersOf(v)
      BY <2>2, <3>1, <3>2 DEF OrdersOf, PlaceOrder, TypeOK, PayTypeOK
    <3> QED BY <3>3, CountedSame
  <2> QED BY <2>1, <2>2
<1> QED BY <1>1, <1>2

\* A visit of the checkout page places one order, and one more for each attempt
\* that it reported as failed, those included that commit after the report: POST
\* /orders cannot tell that it is repeated.
THEOREM OneOrderPerVisit == Spec => []OrdersPerVisit
<1> DEFINE AllCounted == \A v \in 1..MaxVisits : Counted(v)
<1>1. Init => AllCounted
  <2> SUFFICES ASSUME Init, NEW v \in 1..MaxVisits PROVE Counted(v)
    OBVIOUS
  <2>1. v # 0 /\ failures[v] = 0 /\ ~page.open
    BY ClientAssumption DEF ClientAssumption, Init, Mount
  <2>2. OrdersOf(v) = {}
    BY <2>1 DEF OrdersOf, Init, PayInit, NoOrder
  <2>3. Late(v) = {}
    BY IdleFields DEF Late, Init
  <2> QED BY <2>1, <2>2, <2>3, FS_EmptySet DEF Counted, OrdersAndLate, ConfirmView
<1>2. Core /\ AllCounted /\ [Next]_vars => AllCounted'
  BY CountedStep DEF Core
<1>3. Core /\ AllCounted => OrdersPerVisit
  <2> SUFFICES ASSUME Core, AllCounted, NEW v \in 1..MaxVisits
               PROVE  Cardinality(OrdersOf(v)) <= 1 + failures[v]
    BY DEF OrdersOf, OrdersPerVisit
  <2>1. Cardinality(OrdersOf(v)) \in Nat /\ Cardinality(Late(v)) \in Nat
    BY FS_CardinalityType DEF Counted
  <2>2. failures[v] \in Nat /\ OrdersAndLate(v) <= 1 + failures[v]
    BY DEF Core, TypeOK, Counted
  <2> QED BY <2>1, <2>2 DEF OrdersAndLate
<1> QED BY <1>1, <1>2, <1>3, CoreInvariant, PTL DEF Spec
=============================================================================
