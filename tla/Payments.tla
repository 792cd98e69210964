------------------------------- MODULE Payments -------------------------------
(***************************************************************************)
(* What pays for an order: the rows of orders that the payment routes      *)
(* write, the two payment providers as these routes use them, and the      *)
(* administrator's status form.                                            *)
(*                                                                         *)
(*   server/routes/stripe.ts   create-payment-intent, webhook, confirm     *)
(*   server/routes/paypal.ts   create-order, capture-order                 *)
(*   server/routes/admin.ts    PUT /orders/:id/status                      *)
(*                                                                         *)
(* Each operator is one awaited call of a handler.  The client's calls,    *)
(* their answers and their losses are in ClientCheckout.                   *)
(***************************************************************************)
EXTENDS Integers

CONSTANTS
    Order,        \* ids of orders, in the order the serial column gives them
    Intent,       \* ids of Stripe payment intents
    PayPalOrder,  \* ids of PayPal orders
    AdminStatus   \* the statuses the administrators of an instance choose

Statuses == {"pending", "processing", "shipped", "delivered", "cancelled"}

\* Serial columns start at 1; 0 stands for no id.
ASSUME IdAssumption == Order \cup Intent \cup PayPalOrder \subseteq Nat \ {0}
ASSUME AdminAssumption == AdminStatus \subseteq Statuses

VARIABLES
    orders,     \* status, payment_intent_id, total and (auxiliary) visit of each row
    intents,    \* Stripe's payment intents
    paypal,     \* PayPal's orders
    webhooks    \* intents whose payment_intent.succeeded is not acknowledged yet

payVars == <<orders, intents, paypal, webhooks>>

NoPayment == [by |-> "nobody", id |-> 0]
Card(i) == [by |-> "stripe", id |-> i]
PayPal(p) == [by |-> "paypal", id |-> p]

Payment == {NoPayment} \cup {Card(i) : i \in Intent} \cup {PayPal(p) : p \in PayPalOrder}

OrderRow == [status : Statuses \cup {"none"}, payment : Payment, total : Nat, visit : Nat]

NoOrder == [status |-> "none", payment |-> NoPayment, total |-> 0, visit |-> 0]

\* What a provider knows of a payment; order is the metadata.order_id of an
\* intent and the custom_id of a PayPal order.  with is auxiliary: the intent
\* was requested together with the order, or later from the method buttons.
IntentRow == [state : {"none", "open", "succeeded"}, order : Order \cup {0},
              amount : Nat, with : BOOLEAN]
NoIntent == [state |-> "none", order |-> 0, amount |-> 0, with |-> FALSE]

PayPalRow == [state : {"none", "created", "approved", "captured"},
              order : Order \cup {0}]
NoPayPal == [state |-> "none", order |-> 0]

PayInit == /\ orders = [o \in Order |-> NoOrder]
           /\ intents = [i \in Intent |-> NoIntent]
           /\ paypal = [p \in PayPalOrder |-> NoPayPal]
           /\ webhooks = {}

\* The next id of a table: the least that has no row.
NextId(table, absent, id) ==
    table[id] = absent /\ \A other \in DOMAIN table : table[other] = absent => id <= other

-----------------------------------------------------------------------------
(* POST /orders commits (OrderStock has the handler in full).               *)

PlaceOrder(o, total, visit) ==
    /\ NextId(orders, NoOrder, o)
    /\ orders' = [orders EXCEPT ![o] = [status |-> "pending", payment |-> NoPayment,
                                        total |-> total, visit |-> visit]]
    /\ UNCHANGED <<intents, paypal, webhooks>>

\* UPDATE orders SET status = 'processing', payment_intent_id = ... WHERE
\* order_id = ..., whatever the row says.
\* (Mutant: a status that the list of statuses does not have.)
MarkPaidUnlisted(o, payment) ==
    orders' = [orders EXCEPT ![o].status = "paid", ![o].payment = payment]
MarkPaid(o, payment) ==
    orders' = [orders EXCEPT ![o].status = "processing", ![o].payment = payment]

\* POST /stripe/create-payment-intent: a new intent on every call.
CreatePaymentIntent(i, o, amount, with) ==
    /\ NextId(intents, NoIntent, i)
    /\ intents' = [intents EXCEPT ![i] = [state |-> "open", order |-> o,
                                          amount |-> amount, with |-> with]]
    /\ UNCHANGED <<orders, paypal, webhooks>>

\* Stripe takes the money of an intent that is open, once, and owes the shop
\* an event.
ChargeCard(i) ==
    /\ intents[i].state = "open"
    /\ intents' = [intents EXCEPT ![i].state = "succeeded"]
    /\ webhooks' = webhooks \cup {i}
    /\ UNCHANGED <<orders, paypal>>

\* POST /stripe/confirm-order: retrieve the intent, refuse it unless it has
\* succeeded (for good, so the check still holds at the UPDATE), UPDATE.
ConfirmOrder(i, o) ==
    /\ intents[i].state = "succeeded"
    /\ MarkPaid(o, Card(i))
    /\ UNCHANGED <<intents, paypal, webhooks>>

\* POST /stripe/webhook with payment_intent.succeeded: UPDATE the order that
\* the intent names, then answer 200.  Stripe sends the event again until it
\* gets that answer: a failed UPDATE is a 500, and the answer may be lost.
\* (Mutants: 200 is sent although the UPDATE failed; the order is looked up by
\* its payment_intent_id, and the event refused while no order has it.)
WebhookSwallows(i) ==
    /\ i \in webhooks
    /\ MarkPaid(intents[i].order, Card(i)) \/ UNCHANGED orders
    /\ webhooks' = webhooks \ {i}
    /\ UNCHANGED <<intents, paypal>>
WebhookByIntent(i) ==
    /\ i \in webhooks
    /\ \E o \in Order : orders[o].payment = Card(i) /\ MarkPaid(o, Card(i))
    /\ webhooks' = webhooks \ {i}
    /\ UNCHANGED <<intents, paypal>>
Webhook(i) ==
    /\ i \in webhooks
    /\ MarkPaid(intents[i].order, Card(i))
    /\ webhooks' = webhooks \ {i}
    /\ UNCHANGED <<intents, paypal>>

WebhookUnacked(i) ==
    /\ i \in webhooks
    /\ MarkPaid(intents[i].order, Card(i))
    /\ UNCHANGED <<intents, paypal, webhooks>>

\* POST /paypal/create-order.
CreatePayPalOrder(p, o) ==
    /\ NextId(paypal, NoPayPal, p)
    /\ paypal' = [paypal EXCEPT ![p] = [state |-> "created", order |-> o]]
    /\ UNCHANGED <<orders, intents, webhooks>>

ApprovePayPal(p) ==
    /\ paypal[p].state = "created"
    /\ paypal' = [paypal EXCEPT ![p].state = "approved"]
    /\ UNCHANGED <<orders, intents, webhooks>>

\* POST /paypal/capture-order, first await: the capture at PayPal.  Anything but
\* a COMPLETED capture is answered with an error.
\* (Mutant: the answer of PayPal is not looked at.)
CapturePayPalOrNot(p) ==
    /\ paypal[p].state = "approved"
    /\ \/ paypal' = [paypal EXCEPT ![p].state = "captured"]
       \/ UNCHANGED paypal
    /\ UNCHANGED <<orders, intents, webhooks>>
CapturePayPal(p) ==
    /\ paypal[p].state = "approved"
    /\ paypal' = [paypal EXCEPT ![p].state = "captured"]
    /\ UNCHANGED <<orders, intents, webhooks>>

\* Second await: the UPDATE.
RecordPayPal(p, o) ==
    /\ MarkPaid(o, PayPal(p))
    /\ UNCHANGED <<intents, paypal, webhooks>>

\* PUT /admin/orders/:id/status: any status, over any status; 404 for no row.
SetStatus(o, status) ==
    /\ orders[o] # NoOrder
    /\ orders' = [orders EXCEPT ![o].status = status]
    /\ UNCHANGED <<intents, paypal, webhooks>>

-----------------------------------------------------------------------------
(* Properties.                                                              *)

PayTypeOK == /\ orders \in [Order -> OrderRow]
             /\ intents \in [Intent -> IntentRow]
             /\ paypal \in [PayPalOrder -> PayPalRow]
             /\ webhooks \in SUBSET Intent

Succeeded(o) == {i \in Intent : intents[i].state = "succeeded" /\ intents[i].order = o}

\* A payment that is recorded on an order was really made, and made for this
\* order.  No route compares the two: confirm-order and capture-order write the
\* order id of the request, so it takes the client to send the pair that belongs
\* together, whatever calls of whatever visits overlap.
RecordedPaymentIsReal ==
    \A o \in Order :
        /\ \A i \in Intent : orders[o].payment = Card(i) => i \in Succeeded(o)
        /\ \A p \in PayPalOrder : orders[o].payment = PayPal(p) =>
              paypal[p].state = "captured" /\ paypal[p].order = o

\* Money taken from a card is never lost sight of: the order says it is paid,
\* or Stripe still owes the event that will say so.  (PayPal has no such event:
\* see the README.)
CardMoneyNotLost ==
    \A i \in Intent : intents[i].state = "succeeded" =>
        i \in webhooks \/ orders[intents[i].order].payment # NoPayment

\* However often the customer retries, switches the method or comes back, the
\* card is charged at most once for an order, although the server makes an
\* intent for every request and never looks for an older one.
CardChargedOnce ==
    \A o \in Order : \A i, j \in Succeeded(o) : i = j

\* An intent that was made along with its order asks for the total of this
\* order, also when the cart is edited before the second request is sent.
AmountAgreed ==
    \A i \in Intent : intents[i].with => intents[i].amount = orders[intents[i].order].total
=============================================================================
