---------------------------- MODULE ClientCheckout ----------------------------
(***************************************************************************)
(* The checkout page (client/src/pages/Checkout.tsx) in one browser tab,   *)
(* with the cart of App.tsx and CartSidebar.tsx, over Payments.            *)
(*                                                                         *)
(* Every async function of the page is a task: a chain of calls that goes  *)
(* on whether or not the page is still shown.  pc names the call a task    *)
(* has sent ("placeOrder", ...) or the answer that is on its way           *)
(* ("orderPlaced", ...).  React ignores what a task sets in a page that is *)
(* gone; the cart belongs to App and is never gone.  A reload of the tab,  *)
(* or an error of the network, ends the client's half of a call and leaves *)
(* the server's: the task stays, not live, and what it does on the server  *)
(* may still take effect, answered to nobody.                              *)
(***************************************************************************)
EXTENDS Payments, FiniteSets

CONSTANTS
    Task,           \* ids of the tasks that may run at once
    NoTask,
    PayPalEnabled,  \* REACT_APP_PAYPAL_CLIENT_ID is set
    MaxCart,        \* bound on the units in the cart
    MaxVisits,      \* bound on the visits of the page
    MaxFailures     \* bound on the failed attempts to create an order in a visit

ASSUME ClientAssumption == /\ NoTask \notin Task
                           /\ PayPalEnabled \in BOOLEAN
                           /\ MaxCart \in Nat /\ MaxVisits \in Nat /\ MaxFailures \in Nat

VARIABLES
    task,       \* the async functions that are running
    page,       \* the state of the mounted page
    cart,       \* the units in the cart; a unit costs 1
    failures    \* auxiliary: failed createOrder calls of each visit, each a toast

vars == <<orders, intents, paypal, webhooks, task, page, cart, failures>>

PlaceKinds == {"placeCard", "placePayPal"}
Kinds == PlaceKinds \cup {"method", "card", "paypal", "none"}

\* ("confirm": Stripe's answer and the confirm-order request that follows it;
\* "ppCaptured": capture-order between its two awaits.)
Calls == {"placeOrder", "createIntent", "charge", "confirm", "ppCreate", "ppCapture", "ppCaptured"}
Answers == {"orderPlaced", "intentMade", "recorded", "ppApprove"}

TaskRow == [pc : Calls \cup Answers \cup {"idle"}, kind : Kinds, visit : Nat,
            live : BOOLEAN, order : Order \cup {0},
            pay : Intent \cup PayPalOrder \cup {0}, amount : Nat]

Idle == [pc |-> "idle", kind |-> "none", visit |-> 0, live |-> FALSE,
         order |-> 0, pay |-> 0, amount |-> 0]

PageRow == [open : BOOLEAN, visit : Nat, step : {"confirm", "payment"},
            method : {"stripe", "paypal"}, orderId : Order \cup {0},
            secret : Intent \cup {0}, loading : BOOLEAN, preparing : BOOLEAN,
            form : Task \cup {NoTask}]

\* The state of a page that has just been mounted.  form is the task the
\* mounted card form waits for; secret stands for the client secret.
Mount(v) == [open |-> TRUE, visit |-> v, step |-> "confirm", method |-> "stripe",
             orderId |-> 0, secret |-> 0, loading |-> FALSE, preparing |-> FALSE,
             form |-> NoTask]

Closed == [Mount(page.visit) EXCEPT !.open = FALSE]

Init == /\ PayInit
        /\ task = [t \in Task |-> Idle]
        /\ page = [Mount(0) EXCEPT !.open = FALSE]
        /\ cart = 0
        /\ failures = [v \in 1..MaxVisits |-> 0]

-----------------------------------------------------------------------------
(* What the page shows, and so what the customer can do.                    *)

ConfirmView == page.open /\ page.step = "confirm"

PaymentView == page.open /\ page.step = "payment" /\ page.orderId # 0

CardForm == /\ PaymentView /\ page.method = "stripe"
            /\ ~page.preparing /\ page.secret # 0

PayPalButtons == PaymentView /\ page.method = "paypal" /\ PayPalEnabled

\* disabled={loading} on the only button of the first step.
\* (Mutant: the button is not disabled.)
ProceedShown == ConfirmView
CanProceed == ConfirmView /\ ~page.loading

\* A task sets the state of the page that started it, if it is still mounted.
Mounted(t) == task[t].live /\ page.open /\ page.visit = task[t].visit

Start(t, row) == /\ task[t] = Idle
                 /\ \A u \in Task : task[u] = Idle => t <= u
                 /\ task' = [task EXCEPT ![t] = row]

Begin(kind, pc, order, pay, amount) ==
    [pc |-> pc, kind |-> kind, visit |-> page.visit, live |-> TRUE,
     order |-> order, pay |-> pay, amount |-> amount]

\* The server has done its part: the answer is on its way, if anyone waits for it.
Reply(t, row) == task' = [task EXCEPT ![t] = IF task[t].live THEN row ELSE Idle]
Goto(t, pc) == Reply(t, [task[t] EXCEPT !.pc = pc])
End(t) == task' = [task EXCEPT ![t] = Idle]

\* The client's half of a call is over, the server may still be at work.
Abandon(t) == task[t].pc \in Calls /\ task' = [task EXCEPT ![t].live = FALSE]

-----------------------------------------------------------------------------
(* The cart.                                                                *)

\* The page leaves for "/" as soon as the cart is empty.
SetCart(units) ==
    /\ cart' = units
    /\ page' = IF page.open /\ units = 0 THEN Closed ELSE page

\* The store pages; the checkout page has no "add" button.
AddToCart == /\ ~page.open /\ cart < MaxCart
             /\ SetCart(cart + 1)
             /\ UNCHANGED <<payVars, task, failures>>

\* The sidebar opens over every page.
ChangeQuantity == /\ cart > 0
                  /\ \E units \in {cart - 1, cart + 1} : units <= MaxCart /\ SetCart(units)
                  /\ UNCHANGED <<payVars, task, failures>>

\* "Proceed to Checkout" of the sidebar, by a customer who is logged in.
OpenCheckout == /\ ~page.open /\ cart > 0 /\ page.visit < MaxVisits
                /\ page' = Mount(page.visit + 1)
                /\ UNCHANGED <<payVars, task, cart, failures>>

LeaveCheckout == /\ page.open
                 /\ page' = Closed
                 /\ UNCHANGED <<payVars, task, cart, failures>>

Reload == /\ page.open \/ cart > 0 \/ \E t \in Task : task[t].live
          /\ page' = Closed
          /\ cart' = 0
          /\ task' = [t \in Task |-> IF task[t].pc \in Calls
                                     THEN [task[t] EXCEPT !.live = FALSE] ELSE Idle]
          /\ UNCHANGED <<payVars, failures>>

-----------------------------------------------------------------------------
(* createOrder: POST /orders, then an intent if the card was selected when  *)
(* the button was clicked.  Amount and method are those of that click.      *)

ClickProceed(t) ==
    /\ CanProceed
    /\ failures[page.visit] <= MaxFailures
    /\ Start(t, Begin(IF page.method = "stripe" THEN "placeCard" ELSE "placePayPal",
                      "placeOrder", 0, 0, cart))
    /\ page' = [page EXCEPT !.loading = TRUE]
    /\ UNCHANGED <<payVars, cart, failures>>

\* (Mutant: a request whose answer is lost is sent again.)
OrderCommitsResent(t) ==
    /\ task[t].pc = "placeOrder"
    /\ \E o \in Order :
          /\ PlaceOrder(o, task[t].amount, task[t].visit)
          /\ \/ Reply(t, [task[t] EXCEPT !.pc = "orderPlaced", !.order = o])
             \/ UNCHANGED task
    /\ UNCHANGED <<page, cart, failures>>
OrderCommits(t) ==
    /\ task[t].pc = "placeOrder"
    /\ \E o \in Order :
          /\ PlaceOrder(o, task[t].amount, task[t].visit)
          /\ Reply(t, [task[t] EXCEPT !.pc = "orderPlaced", !.order = o])
    /\ UNCHANGED <<page, cart, failures>>

OrderAnswered(t) ==
    /\ task[t].pc = "orderPlaced"
    /\ LET shown == [page EXCEPT !.orderId = task[t].order, !.secret = 0]
       IN  IF task[t].kind = "placeCard"
           THEN /\ Goto(t, "createIntent")
                /\ page' = IF Mounted(t) THEN [shown EXCEPT !.preparing = TRUE] ELSE page
           ELSE /\ End(t)
                /\ page' = IF Mounted(t)
                           THEN [shown EXCEPT !.step = "payment", !.loading = FALSE]
                           ELSE page
    /\ UNCHANGED <<payVars, cart, failures>>

\* prepareStripePayment, the request.  The total is that of the render in which
\* its caller was clicked.
\* (Mutant: the total of the cart at this moment.)
IntentAmountNow(t) == cart
IntentAmount(t) == task[t].amount

IntentCreated(t) ==
    /\ task[t].pc = "createIntent"
    /\ \E i \in Intent :
          /\ CreatePaymentIntent(i, task[t].order, IntentAmount(t), task[t].kind = "placeCard")
          /\ Reply(t, [task[t] EXCEPT !.pc = "intentMade", !.pay = i])
    /\ UNCHANGED <<page, cart, failures>>

\* prepareStripePayment, the answer; createOrder then shows the payment step.
IntentAnswered(t) ==
    /\ task[t].pc = "intentMade"
    /\ End(t)
    /\ LET ready == [page EXCEPT !.secret = task[t].pay, !.preparing = FALSE]
       IN  page' = IF ~Mounted(t) THEN page
                   ELSE IF task[t].kind = "placeCard"
                        THEN [ready EXCEPT !.step = "payment", !.loading = FALSE]
                        ELSE ready
    /\ UNCHANGED <<payVars, cart, failures>>

-----------------------------------------------------------------------------
(* handlePaymentMethodChange.  The card form is unmounted by PayPal; an     *)
(* intent is asked for only if the page has none.  (The amount is the total *)
(* of the cart as last rendered; no property is about it.)                  *)
\* (Mutant: the secret is dropped with the form.)

SwitchMethodForgetting(t, m) ==
    /\ ConfirmView \/ (PaymentView /\ ~page.preparing)
    /\ m # page.method /\ (m = "paypal" => PayPalEnabled)
    /\ LET shown == [page EXCEPT !.method = m, !.form = NoTask,
                                 !.secret = IF m = "paypal" THEN 0 ELSE @]
       IN  IF page.step = "payment" /\ m = "stripe" /\ page.secret = 0
           THEN /\ Start(t, Begin("method", "createIntent", page.orderId, 0, 0))
                /\ page' = [shown EXCEPT !.preparing = TRUE]
           ELSE /\ page' = shown
                /\ UNCHANGED task
    /\ UNCHANGED <<payVars, cart, failures>>
SwitchMethod(t, m) ==
    /\ ConfirmView \/ (PaymentView /\ ~page.preparing)
    /\ m # page.method /\ (m = "paypal" => PayPalEnabled)
    /\ LET shown == [page EXCEPT !.method = m, !.form = NoTask]
       IN  IF page.step = "payment" /\ m = "stripe" /\ page.secret = 0
           THEN /\ Start(t, Begin("method", "createIntent", page.orderId, 0, 0))
                /\ page' = [shown EXCEPT !.preparing = TRUE]
           ELSE /\ page' = shown
                /\ UNCHANGED task
    /\ UNCHANGED <<payVars, cart, failures>>

-----------------------------------------------------------------------------
(* handleSubmit of the card form: confirmPayment at Stripe, confirm-order   *)
(* at the server.                                                           *)

PayByCard(t) ==
    /\ CardForm /\ page.form = NoTask
    /\ Start(t, Begin("card", "charge", page.orderId, page.secret, 0))
    /\ page' = [page EXCEPT !.form = t]
    /\ UNCHANGED <<payVars, cart, failures>>

CardCharged(t) == /\ task[t].pc = "charge"
                  /\ ChargeCard(task[t].pay)
                  /\ Goto(t, "confirm")
                  /\ UNCHANGED <<page, cart, failures>>

OrderConfirmed(t) == /\ task[t].pc = "confirm"
                     /\ ConfirmOrder(task[t].pay, task[t].order)
                     /\ Goto(t, "recorded")
                     /\ UNCHANGED <<page, cart, failures>>

-----------------------------------------------------------------------------
(* PayPalButtons: createOrder, the popup, onApprove.  (The amount is the    *)
(* total of the cart as last rendered; no property is about it.)            *)

ClickPayPal(t) ==
    /\ PayPalButtons
    /\ Start(t, Begin("paypal", "ppCreate", page.orderId, 0, 0))
    /\ UNCHANGED <<payVars, page, cart, failures>>

PayPalCreated(t) ==
    /\ task[t].pc = "ppCreate"
    /\ \E p \in PayPalOrder :
          /\ CreatePayPalOrder(p, task[t].order)
          /\ Reply(t, [task[t] EXCEPT !.pc = "ppApprove", !.pay = p])
    /\ UNCHANGED <<page, cart, failures>>

Approve(t) == /\ task[t].pc = "ppApprove"
              /\ ApprovePayPal(task[t].pay)
              /\ Goto(t, "ppCapture")
              /\ UNCHANGED <<page, cart, failures>>

PayPalCaptured(t) == /\ task[t].pc = "ppCapture"
                     /\ CapturePayPal(task[t].pay)
                     /\ task' = [task EXCEPT ![t].pc = "ppCaptured"]
                     /\ UNCHANGED <<page, cart, failures>>

PayPalRecorded(t) == /\ task[t].pc = "ppCaptured"
                     /\ RecordPayPal(task[t].pay, task[t].order)
                     /\ Goto(t, "recorded")
                     /\ UNCHANGED <<page, cart, failures>>

-----------------------------------------------------------------------------
\* handleSuccess, of the page that is shown or of one that is gone: the cart is
\* emptied, which closes whatever checkout page is open.
Success(t) == /\ task[t].pc = "recorded"
              /\ End(t)
              /\ SetCart(0)
              /\ UNCHANGED <<payVars, failures>>

\* A call is refused, fails on the server after its last effect, or its answer
\* is lost, before or after the server has done its part; the catch and finally
\* of its function run.  This is also a card that is declined, a popup that is
\* closed, and a capture whose UPDATE fails.
\* (Mutant: the finally of createOrder is missing.)
CatchBlock(t, stillLoading) ==
    /\ task[t].pc # "idle" /\ task[t].live
    /\ End(t) \/ Abandon(t)
    /\ failures' = IF task[t].kind \in PlaceKinds
                   THEN [failures EXCEPT ![task[t].visit] = @ + 1] ELSE failures
    /\ page' =
         IF ~Mounted(t) THEN page
         ELSE CASE task[t].kind \in PlaceKinds ->
                     [page EXCEPT !.loading = stillLoading, !.preparing = FALSE]
                [] task[t].kind = "method" ->
                     [page EXCEPT !.preparing = FALSE,
                                  !.method = IF PayPalEnabled THEN "paypal" ELSE "stripe"]
                [] task[t].kind = "card" ->
                     [page EXCEPT !.form = IF @ = t THEN NoTask ELSE @]
                [] OTHER -> page
    /\ UNCHANGED <<payVars, cart>>
FailsStillLoading(t) == CatchBlock(t, TRUE)
Fails(t) == CatchBlock(t, FALSE)

\* A task whose client half is gone: its call fails on the server, or never got
\* there.
Orphaned(t) == /\ task[t].pc # "idle" /\ ~task[t].live
               /\ End(t)
               /\ UNCHANGED <<payVars, page, cart, failures>>

-----------------------------------------------------------------------------
\* Stripe's event, and the administrator.
EventDelivered(i) == Webhook(i) /\ UNCHANGED <<task, page, cart, failures>>
EventRepeated(i) == WebhookUnacked(i) /\ UNCHANGED <<task, page, cart, failures>>
AdminSetsStatus == /\ \E o \in Order, s \in AdminStatus : SetStatus(o, s)
                   /\ UNCHANGED <<task, page, cart, failures>>

\* What ends by itself once it has begun.
Settles(t) == \/ OrderCommits(t) \/ OrderAnswered(t) \/ IntentCreated(t) \/ IntentAnswered(t)
              \/ CardCharged(t) \/ OrderConfirmed(t)
              \/ PayPalCreated(t) \/ PayPalCaptured(t) \/ PayPalRecorded(t)
              \/ Success(t) \/ Fails(t) \/ Orphaned(t)

Customer(t) == \/ ClickProceed(t) \/ PayByCard(t) \/ ClickPayPal(t) \/ Approve(t)
               \/ \E m \in {"stripe", "paypal"} : SwitchMethod(t, m)

Next == \/ AddToCart \/ ChangeQuantity \/ OpenCheckout \/ LeaveCheckout \/ Reload
        \/ \E t \in Task : Settles(t) \/ Customer(t)
        \/ \E i \in Intent : EventDelivered(i) \/ EventRepeated(i)
        \/ AdminSetsStatus

Spec == Init /\ [][Next]_vars

\* Every call ends, with an answer or a failure, and Stripe repeats an event
\* until it is acknowledged.  The customer and the administrator do as they like.
FairSpec == /\ Spec
            /\ \A t \in Task : WF_vars(Settles(t))
            /\ \A i \in Intent : WF_vars(EventDelivered(i))

-----------------------------------------------------------------------------
(* Properties.                                                              *)

TypeOK == /\ PayTypeOK
          /\ task \in [Task -> TaskRow]
          /\ page \in PageRow
          /\ cart \in Nat
          /\ failures \in [1..MaxVisits -> Nat]

\* The card form of the page pays for the order the page shows, and a page that
\* still offers to place the order has nothing to pay with.
FormPaysItsOrder ==
    page.open => /\ page.secret # 0 => intents[page.secret].order = page.orderId
                 /\ page.step = "confirm" => page.secret = 0

\* A visit of the page places one order, and one more for each attempt that was
\* reported to the customer as failed: POST /orders cannot tell a repetition.
OrdersPerVisit ==
    \A v \in 1..MaxVisits :
        Cardinality({o \in Order : orders[o].visit = v}) <= 1 + failures[v]

\* A card payment ends up on its order whatever becomes of the tab that made it:
\* the event of Stripe makes up for an answer that is lost, a page that is left
\* and a confirm-order that fails.
CardPaymentsRecorded ==
    []<>(\A i \in Intent : intents[i].state = "succeeded" =>
            orders[intents[i].order].payment # NoPayment)

\* The page never stays busy: whatever fails, its buttons come back.
ButtonsComeBack == []<>(~page.loading /\ ~page.preparing /\ page.form = NoTask)
=============================================================================
