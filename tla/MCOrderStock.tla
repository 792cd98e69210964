----------------------------- MODULE MCOrderStock -----------------------------
(***************************************************************************)
(* Instances of OrderStock for TLC: which bodies the requests carry.       *)
(***************************************************************************)
EXTENDS OrderStock, TLC

CONSTANTS w1, w2, ghost,    \* two watches, and an id without a row
          ann, bob,         \* two e-mails, ann has a customers row
          r1, r2, r3        \* requests

Buy(w, n) == [watch |-> w, qty |-> n]

PlaceOrder(cart) ==
    [kind |-> "order", cart |-> cart, email |-> ann, watch |-> w1, level |-> 0]
CheckOut(cart, email) ==
    [kind |-> "checkout", cart |-> cart, email |-> email, watch |-> w1, level |-> 0]
Count(w, n) ==
    [kind |-> "setStock", cart |-> <<>>, email |-> ann, watch |-> w, level |-> n]

TwoEach == [w \in {w1, w2} |-> 2]

\* Every kind of body: both cart orders, a cart that lists a watch twice, an
\* unknown watch, an empty cart, a known and a new customer, two stock counts.
AllBodies ==
    {PlaceOrder(c) : c \in {<<>>, <<Buy(w1, 1), Buy(w2, 2)>>, <<Buy(w2, 1), Buy(w1, 1)>>,
                            <<Buy(w1, 1), Buy(ghost, 1)>>}}
    \cup {CheckOut(c, bob) : c \in {<<>>, <<Buy(w1, 2)>>, <<Buy(w1, 1), Buy(w1, 2)>>,
                                     <<Buy(w2, 1), Buy(w1, 1)>>,
                                     <<Buy(w1, 1), Buy(ghost, 1)>>, <<Buy(w1, 3)>>}}
    \cup {CheckOut(<<Buy(w1, 1)>>, ann), Count(w1, 1), Count(w2, 7), Count(ghost, 1)}

\* Fewer bodies, for three requests at once.
ContendedBodies ==
    {PlaceOrder(<<Buy(w1, 1), Buy(w2, 2)>>), PlaceOrder(<<Buy(w2, 1), Buy(w1, 1)>>),
     CheckOut(<<Buy(w1, 2)>>, bob), Count(w1, 1)}

\* Carts that list w1 before w2, and no watch twice.
SortedBodies ==
    {PlaceOrder(<<Buy(w1, 1), Buy(w2, 1)>>), CheckOut(<<Buy(w1, 2)>>, bob),
     CheckOut(<<Buy(w1, 2)>>, ann), CheckOut(<<Buy(w1, 1), Buy(w2, 2)>>, ann)}

\* Two of them that together want more than there is.
CheckoutBodies == {CheckOut(<<Buy(w1, 2)>>, bob), CheckOut(<<Buy(w1, 2)>>, ann)}

Alike == Permutations(Request)
=============================================================================
