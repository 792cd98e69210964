------------------------------ MODULE SaleLedger ------------------------------
(***************************************************************************)
(* What the order routes promise about the tables they share: a sale is    *)
(* one step that records the units an order bought and takes exactly those *)
(* units from the stock, a restock is one step that overwrites the stock   *)
(* of one watch, and nothing else ever changes either table.  Nothing here *)
(* forbids negative stock: the routes do not promise that.                 *)
(***************************************************************************)
EXTENDS Integers

CONSTANTS Order,        \* the orders that may be placed
          Watch,        \* the rows of the watches table
          InitStock,    \* stock_quantity of each watch at the start
          NoSale        \* the sale of an order that was not placed

VARIABLES stock,        \* stock_quantity of each watch
          sale          \* per order: the units of each watch it bought, or NoSale

Init == /\ stock = InitStock
        /\ sale = [o \in Order |-> NoSale]

\* Order o is placed; it buys sale'[o][w] units of every watch w.
Sell(o) == /\ sale[o] = NoSale
           /\ sale'[o] \in [Watch -> Nat]
           /\ sale' = [sale EXCEPT ![o] = sale'[o]]
           /\ stock' = [w \in Watch |-> stock[w] - sale'[o][w]]

\* An administrator counts watch w and writes what was counted.
Restock(w) == /\ stock'[w] \in Nat
              /\ stock' = [stock EXCEPT ![w] = stock'[w]]
              /\ UNCHANGED sale

Next == (\E o \in Order : Sell(o)) \/ (\E w \in Watch : Restock(w))

Spec == Init /\ [][Next]_<<stock, sale>>
=============================================================================
