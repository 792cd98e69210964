--------------------------- MODULE OrderStock_proofs ---------------------------
(***************************************************************************)
(* Theorems about OrderStock, for any number of requests, any catalogue,   *)
(* any carts, any pool size and any number of restarts.                    *)
(***************************************************************************)
EXTENDS OrderStock, SetInduction, SequenceTheorems

-----------------------------------------------------------------------------
(* The prefix sums of a cart.                                               *)

\* UnitsUpTo satisfies its defining recursion, and its values are units.
LEMMA UnitsRecursion ==
    ASSUME NEW cart \in Seq(Line)
    PROVE  /\ UnitsUpTo(cart)[0] = NoUnits
           /\ \A k \in 1..Len(cart) :
                 UnitsUpTo(cart)[k] =
                    [UnitsUpTo(cart)[k - 1] EXCEPT ![cart[k].watch] = @ + cart[k].qty]
           /\ UnitsUpTo(cart) \in [0..Len(cart) -> [Watch -> Nat]]
<1> DEFINE n == Len(cart)
           V == [Watch -> Nat]
           Add(k, v) == [v EXCEPT ![cart[k].watch] = @ + cart[k].qty]
           step == [k \in 1..n |-> [v \in V |-> Add(k, v)]]
           Rec(f, k) == IF k = 0 THEN NoUnits ELSE Add(k, f[k - 1])
           F == CHOOSE g : g = [k \in 0..n |-> Rec(g, k)]
<1>1. n \in Nat /\ \A k \in 1..n : cart[k] \in Line
  BY LenProperties, ElementOfSeq
<1>2. ASSUME NEW k \in 1..n, NEW v \in V PROVE Add(k, v) \in V
  <2>1. cart[k].qty \in Nat
    BY <1>1 DEF Line
  <2>2. ASSUME NEW w \in Watch PROVE Add(k, v)[w] \in Nat
    BY <2>1
  <2>3. Add(k, v) = [w \in Watch |-> Add(k, v)[w]]
    OBVIOUS
  <2> QED BY <2>2, <2>3
<1>3. step \in [1..n -> [V -> V]]
  BY <1>2
<1>4. NoUnits \in V
  BY DEF NoUnits
<1>5. PICK f \in Iterates(V, NoUnits, step, n) : TRUE
  <2> HIDE DEF V, step, n
  <2> QED BY <1>1, <1>3, <1>4, IterateExists
<1>6. /\ f \in [0..n -> V]
      /\ f[0] = NoUnits
      /\ \A k \in 1..n : f[k] = Add(k, f[k - 1])
  <2>1. /\ f \in [0..n -> V]
        /\ f[0] = NoUnits
        /\ \A k \in 1..n : f[k] = step[k][f[k - 1]]
    BY <1>5 DEF Iterates
  <2>2. ASSUME NEW k \in 1..n PROVE f[k] = Add(k, f[k - 1])
    <3>1. f[k - 1] \in V
      BY <2>1, <1>1
    <3>2. step[k][f[k - 1]] = Add(k, f[k - 1])
      BY <3>1
    <3> QED BY <2>1, <3>2
  <2> QED BY <2>1, <2>2
<1>7. f = [k \in 0..n |-> Rec(f, k)]
  <2> HIDE DEF Add, V
  <2> QED BY <1>1, <1>6
<1>8. F = [k \in 0..n |-> Rec(F, k)]
  <2> HIDE DEF Rec, n
  <2> QED BY <1>7
<1>9. UnitsUpTo(cart) = F
  BY DEF UnitsUpTo
<1>10. F[0] = NoUnits /\ \A k \in 1..n : F[k] = Add(k, F[k - 1])
  <2>1. \A k \in 0..n : F[k] = Rec(F, k)
    <3> HIDE DEF F, Rec, n
    <3> QED BY <1>8
  <2>2. 0 \in 0..n /\ \A k \in 1..n : k \in 0..n /\ k # 0
    BY <1>1
  <2>3. Rec(F, 0) = NoUnits
    OBVIOUS
  <2>4. \A k \in 1..n : Rec(F, k) = Add(k, F[k - 1])
    BY <2>2
  <2> HIDE DEF F, Add, Rec
  <2> QED BY <2>1, <2>2, <2>3, <2>4
<1>11. F \in [0..n -> V]
  <2> DEFINE S == {k \in Nat : k <= n => F[k] \in V}
  <2> HIDE DEF F, V, Add
  <2>1. 0 \in S
    BY <1>10, <1>4
  <2>2. ASSUME NEW k \in Nat, k \in S PROVE k + 1 \in S
    <3>1. CASE k + 1 <= n
      <4>1. k + 1 \in 1..n /\ (k + 1) - 1 = k /\ F[k] \in V
        BY <2>2, <3>1, <1>1
      <4> QED BY <4>1, <1>10, <1>2
    <3>2. CASE ~(k + 1 <= n)
      BY <3>2
    <3> QED BY <3>1, <3>2
  <2>3. Nat \subseteq S
    <3> HIDE DEF S
    <3> QED BY <2>1, <2>2, SetInduction
  <2>4. \A k \in 0..n : F[k] \in V
    BY <2>3, <1>1
  <2> HIDE DEF n
  <2> QED BY <2>4, <1>8
<1> QED
  <2> HIDE DEF F
  <2> QED BY <1>9, <1>10, <1>11

-----------------------------------------------------------------------------
(* Types.                                                                   *)

\* Where a handler is: a transaction belongs to a handler that sells, its loop
\* is within the cart, and only a checkout reaches the statements of checkout.
InBounds ==
    \A r \in Request :
        /\ pc[r] \in InTx => /\ req[r].kind # "setStock"
                             /\ line[r] \in 1..Len(Cart(r))
        /\ pc[r] \in {"findCustomer", "newCustomer", "checkLine",
                      "recordMovement", "invoice"} => IsCheckout(r)
        /\ pc[r] = "setStock" => req[r].kind = "setStock"

\* What the fields of a body are.
LEMMA BodyFields ==
    ASSUME TypeOK, NEW r \in Request
    PROVE  /\ req[r].kind \in {"order", "checkout", "setStock"}
           /\ Cart(r) \in Seq(Line)
           /\ Len(Cart(r)) \in Nat
           /\ Cart(r) # <<>> => Len(Cart(r)) >= 1
           /\ \A k \in 1..Len(Cart(r)) : /\ Cart(r)[k].watch \in WatchId
                                         /\ Cart(r)[k].qty \in Nat \ {0}
           /\ req[r].email \in Email
           /\ req[r].level \in Nat
<1>1. req[r] \in RequestBody
  BY BodyAssumption DEF TypeOK
<1>2. Cart(r) \in Seq(Line)
  BY <1>1 DEF RequestBody, Cart
<1>3. Len(Cart(r)) \in Nat /\ (Cart(r) # <<>> => Len(Cart(r)) >= 1)
  BY <1>2, LenProperties, EmptySeq
<1>4. \A k \in 1..Len(Cart(r)) : Cart(r)[k] \in Line
  BY <1>2, ElementOfSeq
<1> QED BY <1>1, <1>2, <1>3, <1>4 DEF RequestBody, Line

LEMMA TypeInit == Init => TypeOK /\ InBounds
<1>1. NoUnits \in [Watch -> Nat] /\ NoRows \in Rows
  BY DEF NoUnits, NoRows, Rows
<1>2. Init => TypeOK
  BY <1>1, StoreAssumption, LimitAssumption, AbsentAssumption
  DEF Init, TypeOK, Step, Status, InTx
<1>3. Init => InBounds
  BY DEF Init, InBounds, InTx
<1> QED BY <1>2, <1>3

\* Updating one entry of a table of numbers keeps its type (an update of a row
\* that does not exist is none).
LEMMA UpdateTyped ==
    ASSUME NEW f, NEW x, NEW q \in Nat
    PROVE  /\ f \in [Watch -> Nat] => [f EXCEPT ![x] = @ + q] \in [Watch -> Nat]
           /\ f \in [Watch -> Int] => [f EXCEPT ![x] = f[x] - q] \in [Watch -> Int]
<1>1. ASSUME f \in [Watch -> Nat] PROVE [f EXCEPT ![x] = @ + q] \in [Watch -> Nat]
  <2> DEFINE g == [f EXCEPT ![x] = @ + q]
  <2>1. \A w \in Watch : g[w] \in Nat
    BY <1>1
  <2>2. g = [w \in Watch |-> g[w]]
    BY <1>1
  <2>3. g \in [Watch -> Nat]
    <3> HIDE DEF g
    <3> QED BY <2>1, <2>2
  <2> QED BY <2>3
<1>2. ASSUME f \in [Watch -> Int] PROVE [f EXCEPT ![x] = f[x] - q] \in [Watch -> Int]
  <2> DEFINE g == [f EXCEPT ![x] = f[x] - q]
  <2>1. \A w \in Watch : g[w] \in Int
    BY <1>2
  <2>2. g = [w \in Watch |-> g[w]]
    BY <1>2
  <2>3. g \in [Watch -> Int]
    <3> HIDE DEF g
    <3> QED BY <2>1, <2>2
  <2> QED BY <2>3
<1> QED BY <1>1, <1>2

\* A transaction whose rows are replaced by others leaves the rows well typed.
LEMMA RowsReplaced ==
    ASSUME TypeOK, NEW r \in Request, NEW row \in Rows, tx' = [tx EXCEPT ![r] = row]
    PROVE  tx' \in [Request -> Rows]
BY DEF TypeOK

\* The units of a transaction's rows may be replaced by others.
LEMMA FieldReplaced ==
    ASSUME NEW row \in Rows, NEW units \in [Watch -> Nat]
    PROVE  /\ [row EXCEPT !.items = units] \in Rows
           /\ [row EXCEPT !.moves = units] \in Rows
BY DEF Rows

\* Ending a transaction keeps the tables well typed.
LEMMA EndTyped ==
    ASSUME TypeOK, NEW r \in Request, CommitTx(r) \/ AbortTx(r) \/ WriteLevel(r)
    PROVE  /\ stock' \in [Watch -> Int]
           /\ draft' \in [Watch -> Int]
           /\ lockedBy' \in [Watch \cup Email -> Request \cup {NoOne}]
           /\ customers' \in SUBSET Email
           /\ tx' \in [Request -> Rows]
           /\ placed' \in [Request -> Rows]
<1>1. NoRows \in Rows
  BY DEF NoUnits, NoRows, Rows
<1>2. req[r].level \in Int
  BY BodyFields
<1>3. CASE CommitTx(r)
  BY <1>1, <1>3 DEF TypeOK, CommitTx, Unlock
<1>4. CASE AbortTx(r)
  BY <1>1, <1>4 DEF TypeOK, AbortTx, Unlock, committed
<1>5. CASE WriteLevel(r)
  BY <1>2, <1>5 DEF TypeOK, WriteLevel, database
<1> QED BY <1>3, <1>4, <1>5

\* Every step keeps the types and the bounds.
LEMMA TypeStep == TypeOK /\ InBounds /\ [Next]_vars => TypeOK' /\ InBounds'
<1> SUFFICES ASSUME TypeOK, InBounds, [Next]_vars PROVE TypeOK' /\ InBounds'
  OBVIOUS
<1> DEFINE Moves(r) ==
      /\ req' = req
      /\ pc' \in [Request -> Step]
      /\ line' \in [Request -> Nat \ {0}]
      /\ status' \in [Request -> Status]
      /\ \A p \in Request \ {r} : pc'[p] = pc[p] /\ line'[p] = line[p]
      /\ pc'[r] \in InTx => /\ req[r].kind # "setStock"
                            /\ line'[r] \in 1..Len(Cart(r))
      /\ pc'[r] \in {"findCustomer", "newCustomer", "checkLine",
                     "recordMovement", "invoice"} => IsCheckout(r)
      /\ pc'[r] = "setStock" => req[r].kind = "setStock"
    Tables ==
      /\ conn' \in SUBSET Request
      /\ stock' \in [Watch -> Int]
      /\ draft' \in [Watch -> Int]
      /\ lockedBy' \in [Watch \cup Email -> Request \cup {NoOne}]
      /\ customers' \in SUBSET Email
      /\ tx' \in [Request -> Rows]
      /\ placed' \in [Request -> Rows]
      /\ handedOff' \in SUBSET (Sink \X Request)
      /\ crashes' \in 0..MaxCrash
<1>1. ASSUME NEW r \in Request, Moves(r), Tables PROVE TypeOK' /\ InBounds'
  <2>1. TypeOK'
    BY <1>1 DEF TypeOK
  <2>2. InBounds'
    BY <1>1 DEF TypeOK, InBounds, Cart, IsCheckout
  <2> QED BY <2>1, <2>2
<1>2. ASSUME NEW r \in Request, NEW step \in Step, NEW k \in Nat \ {0}, Goto(r, step, k),
             step \in InTx => req[r].kind # "setStock" /\ k \in 1..Len(Cart(r)),
             step \in {"findCustomer", "newCustomer", "checkLine",
                       "recordMovement", "invoice"} => IsCheckout(r),
             step = "setStock" => req[r].kind = "setStock"
      PROVE  Moves(r)
  BY <1>2 DEF Goto, TypeOK
<1>3. ASSUME NEW r \in Request, NEW step \in Step, NEW s \in Status, Leave(r, step, s),
             step \in InTx => pc[r] \in InTx,
             step \notin {"findCustomer", "newCustomer", "checkLine",
                          "recordMovement", "invoice", "setStock"}
      PROVE  Moves(r)
  BY <1>3 DEF Leave, TypeOK, InBounds
<1> HIDE DEF Moves
<1>4. ASSUME NEW r \in Request, Progress(r) PROVE Moves(r) /\ Tables
  <2>0. /\ req[r].kind \in {"order", "checkout", "setStock"}
        /\ Len(Cart(r)) \in Nat
        /\ Cart(r) # <<>> => Len(Cart(r)) >= 1
        /\ \A k \in 1..Len(Cart(r)) : /\ Cart(r)[k].watch \in WatchId
                                      /\ Cart(r)[k].qty \in Nat \ {0}
        /\ req[r].email \in Email
        /\ pc[r] \in InTx => /\ req[r].kind # "setStock"
                             /\ line[r] \in 1..Len(Cart(r))
        /\ pc[r] \in {"findCustomer", "newCustomer", "checkLine",
                      "recordMovement", "invoice"} => IsCheckout(r)
    BY BodyFields DEF InBounds
  <2> USE <2>0 DEF Step, Status, InTx, IsOrder, IsCheckout, database, committed
  <2>1. CASE RejectBody(r)
    <3>1. Moves(r)
      BY <1>2, <1>3, <2>1 DEF RejectBody
    <3>2. Tables
      BY <2>1 DEF RejectBody, TypeOK
    <3> QED BY <3>1, <3>2
  <2>2. CASE Connect(r)
    <3>1. Moves(r)
      BY <1>2, <1>3, <2>2 DEF Connect
    <3>2. Tables
      BY <2>2 DEF Connect, TypeOK
    <3> QED BY <3>1, <3>2
  <2>3. CASE FindCustomer(r)
    <3>1. Moves(r)
      BY <1>2, <1>3, <2>3 DEF FindCustomer
    <3>2. Tables
      BY <2>3 DEF FindCustomer, TypeOK
    <3> QED BY <3>1, <3>2
  <2>4. CASE NewCustomer(r)
    <3>1. Moves(r)
      BY <1>2, <1>3, <2>4 DEF NewCustomer
    <3>2. Tables
      BY <2>4 DEF NewCustomer, TypeOK
    <3> QED BY <3>1, <3>2
  <2>5. CASE CheckLine(r)
    <3>1. Moves(r)
      BY <1>2, <1>3, <2>5 DEF CheckLine, Refuse, LastLine
    <3>2. Tables
      BY <2>5 DEF CheckLine, Refuse, LastLine, TypeOK
    <3> QED BY <3>1, <3>2
  <2>6. CASE InsertOrder(r)
    <3>1. Moves(r)
      BY <1>2, <1>3, <2>6 DEF InsertOrder
    <3>2. tx' \in [Request -> Rows]
      <4>1. tx[r] \in Rows
        BY DEF TypeOK
      <4>2. [tx[r] EXCEPT !.order = TRUE] \in Rows
        BY <4>1 DEF Rows
      <4>3. tx' = [tx EXCEPT ![r] = [tx[r] EXCEPT !.order = TRUE]]
        BY <2>6 DEF InsertOrder
      <4> QED BY <4>2, <4>3, RowsReplaced
    <3>3. Tables
      BY <2>6, <3>2 DEF InsertOrder, TypeOK
    <3> QED BY <3>1, <3>3
  <2>7. CASE InsertItem(r)
    <3>1. Moves(r)
      BY <1>2, <1>3, <2>7 DEF InsertItem, AllItemsIn, LastLine, Item
    <3>2. tx' \in [Request -> Rows]
      <4>1. Item(r).qty \in Nat
        BY <2>7 DEF InsertItem, Item
      <4>2. [tx[r].items EXCEPT ![Item(r).watch] = @ + Item(r).qty] \in [Watch -> Nat]
        BY <4>1, UpdateTyped DEF TypeOK, Rows
      <4>3. CASE Item(r).watch \in Watch
        <5> DEFINE units == [tx[r].items EXCEPT ![Item(r).watch] = @ + Item(r).qty]
        <5>1. tx' = [tx EXCEPT ![r] = [tx[r] EXCEPT !.items = units]]
          BY <2>7, <4>3 DEF InsertItem
        <5>2. units \in [Watch -> Nat]
          BY <4>2
        <5>3. tx[r] \in Rows
          BY DEF TypeOK
        <5> HIDE DEF units
        <5>4. [tx[r] EXCEPT !.items = units] \in Rows
          BY <5>2, <5>3, FieldReplaced
        <5> QED BY <5>1, <5>4, RowsReplaced
      <4>4. CASE Item(r).watch \notin Watch
        BY <2>7, <4>4 DEF InsertItem, TypeOK
      <4> QED BY <4>3, <4>4
    <3>3. Tables
      BY <2>7, <3>2 DEF InsertItem, TypeOK
    <3> QED BY <3>1, <3>3
  <2>8. CASE TakeStock(r)
    <3>1. Moves(r)
      BY <1>2, <1>3, <2>8 DEF TakeStock, QuantityLess, LastLine, Item
    <3>2. draft' \in [Watch -> Int]
      <4>1. Item(r).qty \in Nat
        BY <2>8 DEF TakeStock, Item
      <4> QED BY <2>8, <4>1, UpdateTyped DEF TakeStock, QuantityLess, TypeOK
    <3>3. Tables
      BY <2>8, <3>2 DEF TakeStock, TypeOK
    <3> QED BY <3>1, <3>3
  <2>9. CASE RecordMovement(r)
    <3>1. Moves(r)
      BY <1>2, <1>3, <2>9 DEF RecordMovement, LastLine, Item
    <3>2. tx' \in [Request -> Rows]
      <4>1. Item(r).qty \in Nat
        BY <2>9 DEF RecordMovement, Item
      <4> DEFINE units == [tx[r].moves EXCEPT ![Item(r).watch] = @ + Item(r).qty]
      <4>2. units \in [Watch -> Nat]
        BY <4>1, UpdateTyped DEF TypeOK, Rows
      <4>3. tx' = [tx EXCEPT ![r] = [tx[r] EXCEPT !.moves = units]]
        BY <2>9 DEF RecordMovement
      <4>4. tx[r] \in Rows
        BY DEF TypeOK
      <4> HIDE DEF units
      <4>5. [tx[r] EXCEPT !.moves = units] \in Rows
        BY <4>2, <4>4, FieldReplaced
      <4> QED BY <4>3, <4>5, RowsReplaced
    <3>3. Tables
      BY <2>9, <3>2 DEF RecordMovement, TypeOK
    <3> QED BY <3>1, <3>3
  <2>10. CASE InsertInvoice(r)
    <3>1. Moves(r)
      BY <1>2, <1>3, <2>10 DEF InsertInvoice
    <3>2. tx' \in [Request -> Rows]
      <4>1. tx[r] \in Rows
        BY DEF TypeOK
      <4>2. [tx[r] EXCEPT !.invoice = TRUE] \in Rows
        BY <4>1 DEF Rows
      <4>3. tx' = [tx EXCEPT ![r] = [tx[r] EXCEPT !.invoice = TRUE]]
        BY <2>10 DEF InsertInvoice
      <4> QED BY <4>2, <4>3, RowsReplaced
    <3>3. Tables
      BY <2>10, <3>2 DEF InsertInvoice, TypeOK
    <3> QED BY <3>1, <3>3
  <2>11. CASE Commit(r)
    BY <2>11, <1>3, EndTyped DEF Commit, Moves, TypeOK
  <2>12. CASE Rollback(r)
    BY <2>12, <1>3, EndTyped DEF Rollback, Moves, TypeOK
  <2>13. CASE SetStock(r)
    BY <2>13, <1>3, EndTyped DEF SetStock, Moves, TypeOK
  <2>14. CASE Respond(r)
    BY <2>14 DEF Respond, Announce, Release, Sink, Moves, TypeOK
  <2>15. CASE BreakDeadlock(r)
    BY <2>15, <1>3 DEF BreakDeadlock, Deadlocked, Blocked, TypeOK
  <2>16. CASE BackendAborts(r)
    BY <2>16, EndTyped DEF BackendAborts, Moves, TypeOK
  <2> QED
    BY <1>4, <2>1, <2>2, <2>3, <2>4, <2>5, <2>6, <2>7, <2>8, <2>9, <2>10, <2>11,
       <2>12, <2>13, <2>14, <2>15, <2>16 DEF Progress
<1>5. ASSUME NEW r \in Request, Failure(r) PROVE Moves(r) /\ Tables
  <2>0. /\ req[r].kind \in {"order", "checkout", "setStock"}
        /\ Len(Cart(r)) \in Nat
        /\ Cart(r) # <<>> => Len(Cart(r)) >= 1
        /\ \A k \in 1..Len(Cart(r)) : /\ Cart(r)[k].watch \in WatchId
                                      /\ Cart(r)[k].qty \in Nat \ {0}
        /\ req[r].email \in Email
        /\ pc[r] \in InTx => /\ req[r].kind # "setStock"
                             /\ line[r] \in 1..Len(Cart(r))
        /\ pc[r] \in {"findCustomer", "newCustomer", "checkLine",
                      "recordMovement", "invoice"} => IsCheckout(r)
    BY BodyFields DEF InBounds
  <2> USE <2>0 DEF Step, Status, InTx, IsOrder, IsCheckout, database, committed
  <2>1. CASE ConnectFails(r)
    BY <2>1, <1>3 DEF ConnectFails, TypeOK
  <2>2. CASE StatementFails(r)
    BY <2>2, <1>3 DEF StatementFails, TypeOK
  <2>3. CASE ConnectionBreaks(r)
    BY <2>3, <1>3, EndTyped DEF ConnectionBreaks, TypeOK
  <2>4. CASE CommitUnacked(r)
    BY <2>4, <1>3, EndTyped DEF CommitUnacked, TypeOK
  <2>5. CASE BackendFinishes(r)
    BY <2>5, EndTyped DEF BackendFinishes, Moves, TypeOK
  <2> QED BY <1>5, <2>1, <2>2, <2>3, <2>4, <2>5 DEF Failure
<1>6. CASE Crash
  BY <1>6, LimitAssumption
  DEF Crash, database, TypeOK, InBounds, InTx, Step, Status, Cart, IsCheckout
<1>7. CASE UNCHANGED vars
  BY <1>7 DEF vars, TypeOK, InBounds, Cart, IsCheckout
<1> QED BY <1>1, <1>4, <1>5, <1>6, <1>7 DEF Next

\* Every variable always has its type, whatever fails and however often the
\* server restarts.
THEOREM TypeCorrect == Spec => [](TypeOK /\ InBounds)
<1>1. Init => TypeOK /\ InBounds
  BY TypeInit
<1>2. TypeOK /\ InBounds /\ [Next]_vars => TypeOK' /\ InBounds'
  BY TypeStep
<1> QED BY <1>1, <1>2, PTL DEF Spec

-----------------------------------------------------------------------------
(* Locks, connections and open transactions.                                *)

LEMMA CleanInit == Init => NothingLeftBehind
  BY AbsentAssumption DEF Init, NothingLeftBehind, InTx

\* Every step keeps NothingLeftBehind.
LEMMA CleanStep ==
    TypeOK /\ InBounds /\ NothingLeftBehind /\ [Next]_vars => NothingLeftBehind'
<1> SUFFICES ASSUME TypeOK, InBounds, NothingLeftBehind, [Next]_vars
             PROVE  NothingLeftBehind'
  OBVIOUS
<1> USE AbsentAssumption, StoreAssumption
    DEF NothingLeftBehind, TypeOK, InTx, Goto, Leave, database, committed
<1>1. ASSUME NEW r \in Request, Progress(r) PROVE NothingLeftBehind'
  <2>0. /\ pc[r] \in InTx => req[r].kind # "setStock"
        /\ req[r].kind \in {"order", "checkout", "setStock"}
    BY BodyFields DEF InBounds
  <2> USE <2>0 DEF IsOrder, IsCheckout
  <2>1. CASE RejectBody(r)
    BY <2>1 DEF RejectBody
  <2>2. CASE Connect(r)
    <3>1. /\ pc' = [pc EXCEPT ![r] = pc'[r]]
          /\ pc'[r] \in {"respond", "insertOrder", "findCustomer", "setStock"}
          /\ pc'[r] \in InTx => req[r].kind # "setStock"
      BY <2>2 DEF Connect
    <3>2. /\ conn' = conn \cup {r} /\ pc[r] = "connect"
          /\ UNCHANGED <<req, database>>
      BY <2>2 DEF Connect
    <3> QED BY <3>1, <3>2
  <2>3. CASE FindCustomer(r)
    BY <2>3 DEF FindCustomer
  <2>4. CASE NewCustomer(r)
    BY <2>4 DEF NewCustomer
  <2>5. CASE CheckLine(r)
    BY <2>5 DEF CheckLine, Refuse
  <2>6. CASE InsertOrder(r)
    BY <2>6 DEF InsertOrder
  <2>7. CASE InsertItem(r)
    BY <2>7 DEF InsertItem
  <2>8. CASE TakeStock(r)
    BY <2>8 DEF TakeStock, QuantityLess
  <2>9. CASE RecordMovement(r)
    BY <2>9 DEF RecordMovement
  <2>10. CASE InsertInvoice(r)
    BY <2>10 DEF InsertInvoice
  <2>11. CASE Commit(r)
    BY <2>11 DEF Commit, CommitTx, Unlock
  <2>12. CASE Rollback(r)
    BY <2>12 DEF Rollback, AbortTx, Unlock
  <2>13. CASE SetStock(r)
    BY <2>13 DEF SetStock, WriteLevel
  <2>14. CASE Respond(r)
    BY <2>14 DEF Respond, Release
  <2>15. CASE BreakDeadlock(r)
    BY <2>15 DEF BreakDeadlock, Deadlocked, Blocked
  <2>16. CASE BackendAborts(r)
    BY <2>16 DEF BackendAborts, AbortTx, Unlock
  <2> QED
    BY <1>1, <2>1, <2>2, <2>3, <2>4, <2>5, <2>6, <2>7, <2>8, <2>9, <2>10, <2>11,
       <2>12, <2>13, <2>14, <2>15, <2>16 DEF Progress
<1>2. ASSUME NEW r \in Request, Failure(r) PROVE NothingLeftBehind'
  <2>0. /\ pc[r] \in InTx => req[r].kind # "setStock"
        /\ req[r].kind \in {"order", "checkout", "setStock"}
    BY BodyFields DEF InBounds
  <2> USE <2>0 DEF IsOrder, IsCheckout
  <2>1. CASE ConnectFails(r)
    BY <2>1 DEF ConnectFails
  <2>2. CASE StatementFails(r)
    BY <2>2 DEF StatementFails
  <2>3. CASE ConnectionBreaks(r)
    BY <2>3 DEF ConnectionBreaks, AbortTx, Unlock
  <2>4. CASE CommitUnacked(r)
    BY <2>4 DEF CommitUnacked, CommitTx, Unlock
  <2>5. CASE BackendFinishes(r)
    <3>1. CASE req[r].kind = "setStock"
      BY <2>5, <3>1 DEF BackendFinishes, WriteLevel
    <3>2. CASE req[r].kind # "setStock"
      BY <2>5, <3>2 DEF BackendFinishes, CommitTx, Unlock
    <3> QED BY <3>1, <3>2
  <2> QED BY <1>2, <2>1, <2>2, <2>3, <2>4, <2>5 DEF Failure
<1>3. CASE Crash
  BY <1>3 DEF Crash
<1>4. CASE UNCHANGED vars
  BY <1>4 DEF vars
<1> QED BY <1>1, <1>2, <1>3, <1>4 DEF Next

\* Every handler that is over has returned its connection, its locks and its
\* transaction, on every path through it.
THEOREM Clean == Spec => []NothingLeftBehind
<1>1. Init => NothingLeftBehind
  BY CleanInit
<1>2. TypeOK /\ InBounds /\ NothingLeftBehind /\ [Next]_vars => NothingLeftBehind'
  BY CleanStep
<1> QED BY <1>1, <1>2, TypeCorrect, PTL DEF Spec

-----------------------------------------------------------------------------
(* What a transaction has done so far.                                      *)

\* The prefix sums of the cart of a request, watch by watch.
LEMMA CartUnits ==
    ASSUME TypeOK, NEW r \in Request
    PROVE  LET U == UnitsUpTo(Cart(r)) IN
           /\ Len(Cart(r)) \in Nat
           /\ U[0] = NoUnits
           /\ \A k \in 0..Len(Cart(r)) : U[k] \in [Watch -> Nat]
           /\ \A k \in 1..Len(Cart(r)) :
                 /\ Cart(r)[k].qty \in Nat
                 /\ U[k] = [U[k - 1] EXCEPT ![Cart(r)[k].watch] = @ + Cart(r)[k].qty]
                 /\ \A w \in Watch : U[k][w] = U[k - 1][w] +
                       (IF w = Cart(r)[k].watch THEN Cart(r)[k].qty ELSE 0)
<1> DEFINE U == UnitsUpTo(Cart(r))
<1>1. Cart(r) \in Seq(Line) /\ Len(Cart(r)) \in Nat
      /\ \A k \in 1..Len(Cart(r)) : Cart(r)[k].qty \in Nat
  BY BodyFields
<1>2. /\ U[0] = NoUnits
      /\ \A k \in 1..Len(Cart(r)) :
            U[k] = [U[k - 1] EXCEPT ![Cart(r)[k].watch] = @ + Cart(r)[k].qty]
      /\ U \in [0..Len(Cart(r)) -> [Watch -> Nat]]
  BY <1>1, UnitsRecursion
<1> HIDE DEF U
<1>3. ASSUME NEW k \in 1..Len(Cart(r)), NEW w \in Watch
      PROVE  U[k][w] = U[k - 1][w] +
                          (IF w = Cart(r)[k].watch THEN Cart(r)[k].qty ELSE 0)
  <2>1. U[k - 1] \in [Watch -> Nat]
    <3>1. k - 1 \in 0..Len(Cart(r))
      BY <1>1
    <3> QED BY <3>1, <1>2
  <2>2. U[k] = [U[k - 1] EXCEPT ![Cart(r)[k].watch] = @ + Cart(r)[k].qty]
    BY <1>2
  <2> QED BY <2>1, <2>2
<1> QED BY <1>1, <1>2, <1>3 DEF U

\* The three counts, by kind of request and statement.
Counts(r) ==
    /\ pc[r] \in {"findCustomer", "newCustomer", "checkLine", "insertOrder"} =>
          Inserted(r) = 0 /\ Taken(r) = 0 /\ Moved(r) = 0
    /\ IsOrder(r) =>
          /\ Moved(r) = 0
          /\ pc[r] = "insertItem" => Inserted(r) = line[r] - 1 /\ Taken(r) = line[r] - 1
          /\ pc[r] = "takeStock" => Inserted(r) = line[r] /\ Taken(r) = line[r] - 1
    /\ IsCheckout(r) =>
          /\ pc[r] = "insertItem" =>
                Inserted(r) = line[r] - 1 /\ Taken(r) = 0 /\ Moved(r) = 0
          /\ pc[r] = "takeStock" =>
                /\ Inserted(r) = Len(Cart(r))
                /\ Taken(r) = line[r] - 1 /\ Moved(r) = line[r] - 1
          /\ pc[r] = "recordMovement" =>
                /\ Inserted(r) = Len(Cart(r))
                /\ Taken(r) = line[r] /\ Moved(r) = line[r] - 1
          /\ pc[r] \in {"invoice", "commit", "inFlight"} => Moved(r) = Len(Cart(r))
    /\ pc[r] \in {"invoice", "commit", "inFlight"} =>
          Inserted(r) = Len(Cart(r)) /\ Taken(r) = Len(Cart(r))

LEMMA CountsHold == ASSUME NEW r \in Request PROVE Counts(r) /\ Counts(r)'
<1>1. Counts(r)
  <2>1. CASE IsOrder(r)
    BY <2>1 DEF Counts, Inserted, Taken, Moved, IsOrder, IsCheckout
  <2>2. CASE ~IsOrder(r)
    BY <2>2 DEF Counts, Inserted, Taken, Moved, IsOrder, IsCheckout
  <2> QED BY <2>1, <2>2
<1>2. Counts(r)'
  <2>1. CASE IsOrder(r)'
    BY <2>1 DEF Counts, Inserted, Taken, Moved, IsOrder, IsCheckout
  <2>2. CASE ~IsOrder(r)'
    BY <2>2 DEF Counts, Inserted, Taken, Moved, IsOrder, IsCheckout
  <2> QED BY <2>1, <2>2
<1> QED BY <1>1, <1>2

\* A step of request r keeps the books of another request p: the rows p has
\* locked are out of reach of r.
LEMMA BooksOther ==
    ASSUME TypeOK, NEW r \in Request, NEW p \in Request, p # r,
           Healthy(p) => Books(p),
           req' = req, pc'[p] = pc[p], line'[p] = line[p], tx'[p] = tx[p],
           \A w \in Watch :
              IF lockedBy[w] \in {NoOne, r}
              THEN lockedBy'[w] \in {NoOne, r}
              ELSE /\ lockedBy'[w] = lockedBy[w]
                   /\ draft'[w] = draft[w]
                   /\ stock'[w] = stock[w]
    PROVE  Healthy(p)' => Books(p)'
<1>1. Healthy(p)' <=> Healthy(p)
  BY DEF Healthy
<1>2. /\ Cart(p)' = Cart(p) /\ IsOrder(p)' = IsOrder(p) /\ IsCheckout(p)' = IsCheckout(p)
  BY DEF Cart, IsOrder, IsCheckout
<1>3. /\ Inserted(p)' = Inserted(p) /\ Taken(p)' = Taken(p) /\ Moved(p)' = Moved(p)
  BY <1>2 DEF Inserted, Taken, Moved
<1>4. UnitsUpTo(Cart(p))' = UnitsUpTo(Cart(p))
  BY <1>2 DEF UnitsUpTo, NoUnits
<1>5. \A w \in Watch : (lockedBy'[w] = p <=> lockedBy[w] = p)
  BY AbsentAssumption
<1> SUFFICES ASSUME Books(p) PROVE Books(p)'
  BY <1>1
<1>6. ASSUME NEW w \in Watch
      PROVE  LET taken == UnitsUpTo(Cart(p))[Taken(p)][w]
             IN  (IF lockedBy[w] = p THEN draft[w] = stock[w] - taken ELSE taken = 0)'
  <2> DEFINE taken == UnitsUpTo(Cart(p))[Taken(p)][w]
  <2>1. taken' = taken
    BY <1>3, <1>4
  <2>2. IF lockedBy[w] = p THEN draft[w] = stock[w] - taken ELSE taken = 0
    BY DEF Books
  <2>3. lockedBy[w] = p => draft'[w] = draft[w] /\ stock'[w] = stock[w]
    BY AbsentAssumption
  <2> HIDE DEF taken
  <2>4. (IF lockedBy[w] = p THEN draft[w] = stock[w] - taken ELSE taken = 0)'
    BY <1>5, <2>1, <2>2, <2>3
  <2> QED BY <2>4 DEF taken
<1> QED
  BY <1>2, <1>3, <1>4, <1>6 DEF Books

\* A statement of request r keeps the books of r.
LEMMA BooksOwn ==
    ASSUME TypeOK, InBounds, NothingLeftBehind, Bookkeeping, NEW r \in Request,
           Progress(r) \/ Failure(r)
    PROVE  Healthy(r)' => Books(r)'
<1> DEFINE U == UnitsUpTo(Cart(r))
           n == Len(Cart(r))
           x == Item(r).watch
           q == Item(r).qty
           Stock(k, own) ==
              \A w \in Watch : IF own[w] = r THEN draft'[w] = stock'[w] - U[k][w]
                                             ELSE U[k][w] = 0
<1>1. /\ req[r].kind \in {"order", "checkout", "setStock"}
      /\ Cart(r) # <<>> => n >= 1
      /\ pc[r] \in InTx => req[r].kind # "setStock" /\ line[r] \in 1..n
      /\ pc[r] \in {"findCustomer", "newCustomer", "checkLine",
                    "recordMovement", "invoice"} => IsCheckout(r)
  BY BodyFields DEF InBounds
<1>2. /\ n \in Nat
      /\ U[0] = NoUnits
      /\ \A k \in 0..n : U[k] \in [Watch -> Nat]
      /\ pc[r] \in InTx =>
            /\ q \in Nat
            /\ U[line[r]] = [U[line[r] - 1] EXCEPT ![x] = @ + q]
            /\ \A w \in Watch : U[line[r]][w] = U[line[r] - 1][w] + (IF w = x THEN q ELSE 0)
  BY <1>1, CartUnits DEF Item
<1>3. Healthy(r) => Books(r)
  BY DEF Bookkeeping
<1>4. req' = req
  BY DEF Progress, Failure, RejectBody, Connect, FindCustomer, NewCustomer, CheckLine,
         InsertOrder, InsertItem, TakeStock, RecordMovement, InsertInvoice, Commit,
         Rollback, SetStock, Respond, BreakDeadlock, BackendAborts, ConnectFails,
         StatementFails, ConnectionBreaks, CommitUnacked, BackendFinishes,
         Goto, Leave, Refuse
<1>5. /\ Cart(r)' = Cart(r) /\ IsOrder(r)' = IsOrder(r) /\ IsCheckout(r)' = IsCheckout(r)
      /\ UnitsUpTo(Cart(r))' = U
  BY <1>4 DEF Cart, IsOrder, IsCheckout, UnitsUpTo, NoUnits
\* It is enough to know the loop counts after the step.
<1>6. ASSUME NEW i \in 0..n, NEW t \in 0..n, NEW m \in 0..n,
             Inserted(r)' = i, Taken(r)' = t, Moved(r)' = m,
             tx'[r].items = U[i], tx'[r].moves = U[m],
             tx'[r].order <=> pc'[r] \notin {"findCustomer", "newCustomer",
                                             "checkLine", "insertOrder"},
             tx'[r].invoice <=> IsCheckout(r) /\ pc'[r] \in {"commit", "inFlight"},
             Stock(t, lockedBy')
      PROVE  Books(r)'
  <2> HIDE DEF U
  <2> QED BY <1>5, <1>6 DEF Books
<1> HIDE DEF U, n, x, q
<1> USE <1>1, <1>2, <1>3, <1>5 DEF InTx
\* Before its transaction has done anything, a handler holds no stock.
<1>7. ASSUME pc[r] = "connect", Healthy(r)', UNCHANGED database,
             pc'[r] \in {"insertOrder", "findCustomer"}
      PROVE  Books(r)'
  <2>1. tx[r] = NoRows /\ \A w \in Watch : lockedBy[w] # r
    BY <1>7 DEF NothingLeftBehind
  <2>2. Inserted(r)' = 0 /\ Taken(r)' = 0 /\ Moved(r)' = 0
    BY <1>7 DEF Inserted, Taken, Moved
  <2>3. Stock(0, lockedBy')
    BY <1>7, <2>1 DEF database, NoUnits
  <2> QED BY <1>6, <1>7, <2>1, <2>2, <2>3 DEF database, NoRows
\* Reading and inserting a customer leave the order and the stock alone.
<1>8. ASSUME FindCustomer(r) \/ NewCustomer(r) \/ CheckLine(r), Healthy(r)'
      PROVE  Books(r)'
  <2>1. /\ pc[r] \in {"findCustomer", "newCustomer", "checkLine"}
        /\ pc'[r] \in {"newCustomer", "checkLine", "insertOrder"}
    BY <1>8 DEF FindCustomer, NewCustomer, CheckLine, Refuse, Goto, Leave, TypeOK, Healthy
  <2>2. UNCHANGED <<tx, stock, draft>>
    BY <1>8 DEF FindCustomer, NewCustomer, CheckLine, database
  <2>3. \A w \in Watch : lockedBy'[w] = lockedBy[w]
    BY <1>8, StoreAssumption, BodyFields
    DEF FindCustomer, NewCustomer, CheckLine, database, TypeOK
  <2>4. Healthy(r) /\ Inserted(r) = 0 /\ Taken(r) = 0 /\ Moved(r) = 0
    BY <2>1 DEF Healthy, Inserted, Taken, Moved
  <2>5. Inserted(r)' = 0 /\ Taken(r)' = 0 /\ Moved(r)' = 0
    BY <2>1 DEF Inserted, Taken, Moved
  <2>6. Stock(0, lockedBy')
    BY <1>3, <2>2, <2>3, <2>4 DEF Books, U
  <2> QED BY <1>3, <1>6, <2>1, <2>2, <2>4, <2>5, <2>6 DEF Books, U
<1>9. ASSUME InsertOrder(r) PROVE Books(r)'
  <2>1. pc[r] = "insertOrder" /\ pc'[r] = "insertItem" /\ line'[r] = 1
    BY <1>9 DEF InsertOrder, Goto, TypeOK
  <2>2. UNCHANGED <<stock, draft, lockedBy>> /\ tx'[r] = [tx[r] EXCEPT !.order = TRUE]
    BY <1>9 DEF InsertOrder, committed, TypeOK
  <2>3. Healthy(r) /\ Inserted(r) = 0 /\ Taken(r) = 0 /\ Moved(r) = 0
    BY <2>1 DEF Healthy, Inserted, Taken, Moved
  <2>4. Inserted(r)' = 0 /\ Taken(r)' = 0 /\ Moved(r)' = 0
    BY <2>1 DEF Inserted, Taken, Moved
  <2>5. Stock(0, lockedBy')
    BY <1>3, <2>2, <2>3 DEF Books, U
  <2>6. tx[r] \in Rows
    BY DEF TypeOK
  <2> QED BY <1>3, <1>6, <2>1, <2>2, <2>3, <2>4, <2>5, <2>6 DEF Books, U, Rows
\* The line that was inserted is counted; the stock is not touched.
<1>10. ASSUME InsertItem(r), Healthy(r)' PROVE Books(r)'
  <2> DEFINE units == [tx[r].items EXCEPT ![x] = @ + q]
  <2>a. pc[r] = "insertItem" /\ pc'[r] # "rollback"
    BY <1>10 DEF InsertItem, Healthy
  <2>b. x \in Watch
    <3>1. x \notin Watch => pc'[r] = "rollback"
      BY <1>10 DEF InsertItem, Leave, TypeOK, x
    <3> QED BY <3>1, <2>a
  <2>c. tx' = [tx EXCEPT ![r].items[x] = @ + q] /\ UNCHANGED <<stock, draft, lockedBy>>
    BY <1>10, <2>b DEF InsertItem, committed, x, q
  <2>d. tx'[r] = [tx[r] EXCEPT !.items = units]
    BY <2>c DEF TypeOK
  <2>e. \/ Goto(r, "takeStock", line[r]) /\ IsOrder(r)
        \/ Goto(r, "takeStock", 1) /\ line[r] = n /\ ~IsOrder(r)
        \/ Goto(r, "insertItem", line[r] + 1) /\ line[r] # n /\ ~IsOrder(r)
    BY <1>10, <2>b DEF InsertItem, AllItemsIn, LastLine, x, n
  <2>1. /\ pc[r] = "insertItem"
        /\ UNCHANGED <<stock, draft, lockedBy>>
        /\ \/ pc'[r] = "takeStock" /\ line'[r] = line[r] /\ IsOrder(r)
           \/ pc'[r] = "takeStock" /\ line'[r] = 1 /\ line[r] = n /\ ~IsOrder(r)
           \/ pc'[r] = "insertItem" /\ line'[r] = line[r] + 1 /\ line[r] < n /\ ~IsOrder(r)
    BY <2>a, <2>c, <2>e DEF Goto, TypeOK
  <2>2. /\ Healthy(r)
        /\ Inserted(r) = line[r] - 1
        /\ Taken(r) = IF IsOrder(r) THEN line[r] - 1 ELSE 0
        /\ Moved(r) = 0
    <3>1. Healthy(r)
      BY <2>1 DEF Healthy
    <3>2. Inserted(r) = line[r] - 1
      BY <2>1 DEF Inserted
    <3>3. Taken(r) = IF IsOrder(r) THEN line[r] - 1 ELSE 0
      BY <2>1 DEF Taken
    <3>4. Moved(r) = 0
      BY <2>1 DEF Moved
    <3> QED BY <3>1, <3>2, <3>3, <3>4
  <2>3. Inserted(r)' = line[r] /\ Taken(r)' = Taken(r) /\ Moved(r)' = 0
    <3>1. line[r] \in Nat
      BY <2>1
    <3>2. CASE IsOrder(r)
      <4>1. pc'[r] = "takeStock" /\ line'[r] = line[r]
        BY <2>1, <3>2
      <4>2. Inserted(r)' = line[r]
        BY <1>4, <3>2, <4>1 DEF Inserted, IsOrder, IsCheckout
      <4>3. Taken(r)' = line[r] - 1
        BY <4>1 DEF Taken
      <4>4. Moved(r)' = 0
        BY <1>4, <3>2 DEF Moved, IsOrder
      <4> QED BY <2>2, <3>2, <4>2, <4>3, <4>4
    <3>3. CASE ~IsOrder(r)
      <4>1. IsCheckout(r)
        BY <2>1, <3>3 DEF IsOrder, IsCheckout
      <4> QED BY <2>1, <2>2, <3>1, <3>3, <4>1 DEF Inserted, Taken, Moved, n
    <3> QED BY <3>2, <3>3
  <2>4. Stock(Taken(r), lockedBy')
    BY <1>3, <2>1, <2>2 DEF Books, U
  <2>6. tx[r] \in Rows
    BY DEF TypeOK
  <2>5. tx'[r].items = U[line[r]]
    <3>1. tx[r].items = U[line[r] - 1]
      BY <1>3, <2>2 DEF Books, U
    <3>2. tx'[r].items = units
      BY <2>d, <2>6 DEF Rows
    <3> QED BY <2>1, <3>1, <3>2
  <2>7. /\ tx'[r].moves = U[0]
        /\ tx'[r].order /\ ~tx'[r].invoice
    BY <1>3, <2>1, <2>2, <2>6, <2>d DEF Books, U, Rows
  <2> HIDE DEF units
  <2> QED
    <3>1. Taken(r) \in 0..n /\ line[r] \in 0..n /\ 0 \in 0..n
      BY <2>1, <2>2
    <3>2. pc'[r] \notin {"findCustomer", "newCustomer", "checkLine", "insertOrder",
                         "commit", "inFlight"}
      BY <2>1
    <3> HIDE DEF Stock
    <3> QED BY <1>6, <2>3, <2>4, <2>5, <2>7, <3>1, <3>2
\* The line whose stock was taken is counted, against the committed stock.
<1>11. ASSUME TakeStock(r) PROVE Books(r)'
  <2>1. /\ pc[r] = "takeStock"
        /\ lockedBy[x] \in {NoOne, r}
        /\ lockedBy' = [lockedBy EXCEPT ![x] = r]
        /\ draft' = [draft EXCEPT ![x] = draft[x] - q]
        /\ UNCHANGED <<stock, tx>>
        /\ \/ pc'[r] = "recordMovement" /\ line'[r] = line[r] /\ IsCheckout(r)
           \/ pc'[r] = "commit" /\ line'[r] = line[r] /\ line[r] = n /\ ~IsCheckout(r)
           \/ pc'[r] = "insertItem" /\ line'[r] = line[r] + 1 /\ line[r] < n /\ ~IsCheckout(r)
    BY <1>11 DEF TakeStock, QuantityLess, Goto, LastLine, committed, TypeOK, x, q, n
  <2>2. /\ Healthy(r)
        /\ Inserted(r) = IF IsOrder(r) THEN line[r] ELSE n
        /\ Taken(r) = line[r] - 1
        /\ Moved(r) = IF IsOrder(r) THEN 0 ELSE line[r] - 1
    BY <2>1 DEF Healthy, Inserted, Taken, Moved, IsOrder, IsCheckout, n
  <2>3. /\ Inserted(r)' = Inserted(r)
        /\ Taken(r)' = line[r]
        /\ Moved(r)' = Moved(r)
    BY <2>1, <2>2 DEF Inserted, Taken, Moved, IsOrder, IsCheckout, n
  <2>4. ASSUME NEW w \in Watch
        PROVE  IF lockedBy'[w] = r THEN draft'[w] = stock'[w] - U[line[r]][w]
                                   ELSE U[line[r]][w] = 0
    <3>1. IF lockedBy[w] = r THEN draft[w] = stock[w] - U[line[r] - 1][w]
                             ELSE U[line[r] - 1][w] = 0
      BY <1>3, <2>2 DEF Books, U
    <3>2. lockedBy[w] = NoOne => draft[w] = stock[w]
      BY DEF NothingLeftBehind
    <3>3. draft[w] \in Int /\ stock[w] \in Int /\ U[line[r] - 1][w] \in Int
      BY <2>1, <1>2 DEF TypeOK
    <3>4. U[line[r]][w] = U[line[r] - 1][w] + (IF w = x THEN q ELSE 0)
      BY <2>1
    <3>5. CASE w = x
      <4>1. lockedBy'[w] = r /\ draft'[w] = draft[w] - q
        BY <2>1, <3>5 DEF TypeOK
      <4>2. draft[w] = stock[w] - U[line[r] - 1][w]
        BY <2>1, <3>1, <3>2, <3>3, <3>5
      <4>3. q \in Nat
        BY <2>1
      <4> QED BY <2>1, <3>3, <3>4, <3>5, <4>1, <4>2, <4>3
    <3>6. CASE w # x
      <4>1. lockedBy'[w] = lockedBy[w] /\ draft'[w] = draft[w]
        BY <2>1, <3>6 DEF TypeOK
      <4> QED BY <2>1, <3>1, <3>3, <3>4, <3>6, <4>1
    <3> QED BY <3>5, <3>6
  <2>5. Stock(line[r], lockedBy')
    BY <2>4
  <2> QED BY <1>3, <1>6, <2>1, <2>2, <2>3, <2>5 DEF Books, U
<1>12. ASSUME RecordMovement(r) PROVE Books(r)'
  <2>1. /\ pc[r] = "recordMovement" /\ ~IsOrder(r)
        /\ tx'[r] = [tx[r] EXCEPT !.moves = [tx[r].moves EXCEPT ![x] = @ + q]]
        /\ UNCHANGED <<stock, draft, lockedBy>>
        /\ \/ pc'[r] = "invoice" /\ line[r] = n
           \/ pc'[r] = "takeStock" /\ line'[r] = line[r] + 1 /\ line[r] < n
    BY <1>12
    DEF RecordMovement, Goto, LastLine, committed, TypeOK, IsOrder, IsCheckout, x, q, n
  <2>2. /\ Healthy(r)
        /\ Inserted(r) = n /\ Taken(r) = line[r] /\ Moved(r) = line[r] - 1
    BY <2>1 DEF Healthy, Inserted, Taken, Moved, n
  <2>3. Inserted(r)' = n /\ Taken(r)' = line[r] /\ Moved(r)' = line[r]
    BY <2>1 DEF Inserted, Taken, Moved, IsOrder, IsCheckout, n
  <2>4. Stock(line[r], lockedBy')
    BY <1>3, <2>1, <2>2 DEF Books, U
  <2>5. tx'[r].moves = U[line[r]]
    BY <1>3, <2>1, <2>2 DEF Books, U
  <2>6. tx[r] \in Rows
    BY DEF TypeOK
  <2>7. /\ tx'[r].items = U[n]
        /\ tx'[r].order /\ ~tx'[r].invoice
    BY <1>3, <2>1, <2>2, <2>6 DEF Books, U, Rows
  <2> QED BY <1>6, <2>1, <2>2, <2>3, <2>4, <2>5, <2>7
<1>13. ASSUME InsertInvoice(r) PROVE Books(r)'
  <2>1. /\ pc[r] = "invoice" /\ pc'[r] = "commit" /\ ~IsOrder(r)
        /\ tx'[r] = [tx[r] EXCEPT !.invoice = TRUE]
        /\ UNCHANGED <<stock, draft, lockedBy>>
    BY <1>13 DEF InsertInvoice, Goto, committed, TypeOK, IsOrder, IsCheckout
  <2>2. Healthy(r) /\ Inserted(r) = n /\ Taken(r) = n /\ Moved(r) = n
    BY <2>1 DEF Healthy, Inserted, Taken, Moved, n
  <2>3. Inserted(r)' = n /\ Taken(r)' = n /\ Moved(r)' = n
    BY <2>1 DEF Inserted, Taken, Moved, IsOrder, n
  <2>4. Stock(n, lockedBy')
    BY <1>3, <2>1, <2>2 DEF Books, U
  <2>5. tx[r] \in Rows
    BY DEF TypeOK
  <2> QED BY <1>3, <1>6, <2>1, <2>2, <2>3, <2>4, <2>5 DEF Books, U, Rows
\* No other step leads to a transaction that goes on.
<1>14. ASSUME Connect(r), Healthy(r)' PROVE Books(r)'
  BY <1>7, <1>14 DEF Connect, Goto, Leave, Healthy, TypeOK
<1>15. ASSUME \/ RejectBody(r) \/ Commit(r) \/ Rollback(r) \/ SetStock(r) \/ Respond(r)
              \/ BreakDeadlock(r) \/ BackendAborts(r) \/ Failure(r)
       PROVE  ~Healthy(r)'
  BY <1>15
  DEF RejectBody, Commit, Rollback, SetStock, Respond, BreakDeadlock, BackendAborts,
      Failure, ConnectFails, StatementFails, ConnectionBreaks, CommitUnacked,
      BackendFinishes, Leave, Healthy, TypeOK
<1> QED
  BY <1>8, <1>9, <1>10, <1>11, <1>12, <1>13, <1>14, <1>15 DEF Progress

\* A step of request r is a step of its handler and of the rows it may lock:
\* it leaves the handlers and the locked rows of the others alone.
LEMMA Frame ==
    ASSUME TypeOK, NEW r \in Request, Progress(r) \/ Failure(r)
    PROVE  /\ req' = req
           /\ \A p \in Request \ {r} : /\ pc'[p] = pc[p] /\ line'[p] = line[p]
                                       /\ tx'[p] = tx[p] /\ placed'[p] = placed[p]
           /\ \A w \in Watch :
                 IF lockedBy[w] \in {NoOne, r}
                 THEN lockedBy'[w] \in {NoOne, r}
                 ELSE /\ lockedBy'[w] = lockedBy[w]
                      /\ draft'[w] = draft[w]
                      /\ stock'[w] = stock[w]
<1> USE DEF TypeOK, Goto, Leave, database, committed
<1> DEFINE
      Handlers == /\ req' = req
                  /\ \A p \in Request \ {r} : pc'[p] = pc[p] /\ line'[p] = line[p]
      Rest == /\ \A p \in Request \ {r} : tx'[p] = tx[p] /\ placed'[p] = placed[p]
              /\ \A w \in Watch :
                    IF lockedBy[w] \in {NoOne, r}
                    THEN lockedBy'[w] \in {NoOne, r}
                    ELSE /\ lockedBy'[w] = lockedBy[w]
                         /\ draft'[w] = draft[w]
                         /\ stock'[w] = stock[w]
<1>1. ASSUME Progress(r) PROVE Handlers /\ Rest
  <2>1. CASE RejectBody(r)
    BY <2>1 DEF RejectBody
  <2>2. CASE Connect(r)
    BY <2>2 DEF Connect
  <2>3. CASE FindCustomer(r)
    BY <2>3 DEF FindCustomer
  <2>4. CASE NewCustomer(r)
    BY <2>4 DEF NewCustomer
  <2>5. CASE CheckLine(r)
    BY <2>5 DEF CheckLine, Refuse
  <2>6. CASE InsertOrder(r)
    BY <2>6 DEF InsertOrder
  <2>7. CASE InsertItem(r)
    BY <2>7 DEF InsertItem
  <2>8. CASE TakeStock(r)
    BY <2>8 DEF TakeStock, QuantityLess
  <2>9. CASE RecordMovement(r)
    BY <2>9 DEF RecordMovement
  <2>10. CASE InsertInvoice(r)
    BY <2>10 DEF InsertInvoice
  <2>11. CASE Commit(r)
    BY <2>11 DEF Commit, CommitTx, Unlock
  <2>12. CASE Rollback(r)
    BY <2>12 DEF Rollback, AbortTx, Unlock
  <2>13. CASE SetStock(r)
    BY <2>13 DEF SetStock, WriteLevel
  <2>14. CASE Respond(r)
    BY <2>14 DEF Respond
  <2>15. CASE BreakDeadlock(r)
    BY <2>15 DEF BreakDeadlock
  <2>16. CASE BackendAborts(r)
    BY <2>16 DEF BackendAborts, AbortTx, Unlock
  <2> HIDE DEF Handlers, Rest
  <2> QED
    BY <1>1, <2>1, <2>2, <2>3, <2>4, <2>5, <2>6, <2>7, <2>8, <2>9, <2>10, <2>11,
       <2>12, <2>13, <2>14, <2>15, <2>16 DEF Progress
<1>2. ASSUME Failure(r) PROVE Handlers /\ Rest
  <2>1. CASE ConnectFails(r)
    BY <2>1 DEF ConnectFails
  <2>2. CASE StatementFails(r)
    BY <2>2 DEF StatementFails
  <2>3. CASE ConnectionBreaks(r)
    BY <2>3 DEF ConnectionBreaks, AbortTx, Unlock
  <2>4. CASE CommitUnacked(r)
    BY <2>4 DEF CommitUnacked, CommitTx, Unlock
  <2>5. CASE BackendFinishes(r)
    BY <2>5 DEF BackendFinishes, WriteLevel, CommitTx, Unlock
  <2> HIDE DEF Handlers, Rest
  <2> QED BY <1>2, <2>1, <2>2, <2>3, <2>4, <2>5 DEF Failure
<1> HIDE DEF Handlers, Rest
<1>3. Handlers /\ Rest
  BY <1>1, <1>2
<1> QED BY <1>3 DEF Handlers, Rest

LEMMA BooksInit == Init => Bookkeeping
  BY DEF Init, Bookkeeping, Healthy, InTx

\* A restart turns a transaction that was committing into one whose COMMIT is
\* on its way, and dooms every other.
LEMMA BooksCrash ==
    ASSUME TypeOK, InBounds, Bookkeeping, Crash
    PROVE  Bookkeeping'
<1> SUFFICES ASSUME NEW r \in Request, Healthy(r)' PROVE Books(r)'
  BY DEF Bookkeeping
<1>1. /\ pc[r] \in {"commit", "inFlight"} /\ pc'[r] = "inFlight"
      /\ UNCHANGED <<req, line, database>>
  BY DEF Healthy, Crash, InTx, InBounds, TypeOK
<1>2. Healthy(r)
  BY <1>1 DEF Healthy, InTx
<1>3. /\ Cart(r)' = Cart(r) /\ IsOrder(r)' = IsOrder(r) /\ IsCheckout(r)' = IsCheckout(r)
      /\ UnitsUpTo(Cart(r))' = UnitsUpTo(Cart(r))
  BY <1>1 DEF Cart, IsOrder, IsCheckout, UnitsUpTo, NoUnits
<1>4. /\ Inserted(r)' = Inserted(r) /\ Taken(r)' = Taken(r) /\ Moved(r)' = Moved(r)
  BY <1>1, <1>3 DEF Inserted, Taken, Moved
<1>5. Books(r)
  BY <1>2 DEF Bookkeeping
<1> QED BY <1>1, <1>3, <1>4, <1>5 DEF Books, database

\* Every step keeps the books of every transaction.
LEMMA BooksStep ==
    TypeOK /\ InBounds /\ NothingLeftBehind /\ Bookkeeping /\ [Next]_vars => Bookkeeping'
<1> SUFFICES ASSUME TypeOK, InBounds, NothingLeftBehind, Bookkeeping, [Next]_vars
             PROVE  Bookkeeping'
  OBVIOUS
<1>1. ASSUME NEW r \in Request, Progress(r) \/ Failure(r) PROVE Bookkeeping'
  <2> SUFFICES ASSUME NEW p \in Request PROVE Healthy(p)' => Books(p)'
    BY DEF Bookkeeping
  <2>1. CASE p = r
    BY <1>1, <2>1, BooksOwn
  <2>2. CASE p # r
    <3>1. Healthy(p) => Books(p)
      BY DEF Bookkeeping
    <3> QED BY <1>1, <2>2, <3>1, Frame, BooksOther
  <2> QED BY <2>1, <2>2
<1>2. CASE UNCHANGED vars
  <2> SUFFICES ASSUME NEW p \in Request PROVE Healthy(p)' => Books(p)'
    BY DEF Bookkeeping
  <2>1. UNCHANGED <<req, pc, line, tx, stock, draft, lockedBy>>
    BY <1>2 DEF vars
  <2>2. Healthy(p)' = Healthy(p) /\ Books(p)' = Books(p)
    BY <2>1 DEF Healthy, Books, Inserted, Taken, Moved, Cart, IsOrder, IsCheckout,
                UnitsUpTo, NoUnits
  <2> QED BY <2>2 DEF Bookkeeping
<1>3. CASE Crash
  BY <1>3, BooksCrash
<1> QED BY <1>1, <1>2, <1>3 DEF Next

\* Whatever other requests commit in the meantime, a transaction that is open
\* has the rows and the stock of the cart lines its loops have passed.
THEOREM BooksKept == Spec => []Bookkeeping
<1>1. Init => Bookkeeping
  BY BooksInit
<1>2. TypeOK /\ InBounds /\ NothingLeftBehind /\ Bookkeeping /\ [Next]_vars => Bookkeeping'
  BY BooksStep
<1> QED BY <1>1, <1>2, TypeCorrect, Clean, PTL DEF Spec

-----------------------------------------------------------------------------
(* What is committed.                                                       *)

\* What one step of a handler does to the committed tables: it commits a sale,
\* or it overwrites the stock of one watch, or it leaves them as they are.
LEMMA Effects ==
    ASSUME TypeOK, InBounds, NEW r \in Request, Progress(r) \/ Failure(r)
    PROVE  \/ /\ pc[r] \in {"commit", "inFlight"} /\ pc'[r] \in {"respond", "lost"}
              /\ req[r].kind # "setStock"
              /\ CommitTx(r)
           \/ /\ UNCHANGED <<placed, customers>>
              /\ \/ UNCHANGED stock
                 \/ /\ req[r].kind = "setStock" /\ req[r].watch \in Watch
                    /\ stock' = [stock EXCEPT ![req[r].watch] = req[r].level]
<1> USE DEF TypeOK, InBounds, InTx, Goto, Leave, database, committed
<1> DEFINE
      Commits == /\ pc[r] \in {"commit", "inFlight"} /\ pc'[r] \in {"respond", "lost"}
                 /\ req[r].kind # "setStock"
                 /\ CommitTx(r)
      Writes == /\ UNCHANGED <<placed, customers>>
                /\ \/ UNCHANGED stock
                   \/ /\ req[r].kind = "setStock" /\ req[r].watch \in Watch
                      /\ stock' = [stock EXCEPT ![req[r].watch] = req[r].level]
<1>1. ASSUME Commit(r) PROVE Commits
  BY <1>1 DEF Commit
<1>2. ASSUME CommitUnacked(r) PROVE Commits
  BY <1>2 DEF CommitUnacked
<1>3. ASSUME BackendFinishes(r) PROVE Commits \/ Writes
  BY <1>3 DEF BackendFinishes, WriteLevel
<1>4. ASSUME SetStock(r) PROVE Writes
  BY <1>4 DEF SetStock, WriteLevel
<1>5. ASSUME \/ RejectBody(r) \/ Connect(r) \/ FindCustomer(r) \/ NewCustomer(r)
             \/ CheckLine(r) \/ InsertOrder(r) \/ InsertItem(r) \/ TakeStock(r)
             \/ RecordMovement(r) \/ InsertInvoice(r) \/ Rollback(r)
             \/ Respond(r) \/ BreakDeadlock(r) \/ BackendAborts(r)
             \/ ConnectFails(r) \/ StatementFails(r) \/ ConnectionBreaks(r)
      PROVE  Writes
  BY <1>5
  DEF RejectBody, Connect, FindCustomer, NewCustomer, CheckLine, InsertOrder, InsertItem,
      TakeStock, RecordMovement, InsertInvoice, Rollback, Respond, BreakDeadlock,
      BackendAborts, ConnectFails, StatementFails, ConnectionBreaks, AbortTx
<1> HIDE DEF Commits, Writes
<1>6. Commits \/ Writes
  BY <1>1, <1>2, <1>3, <1>4, <1>5 DEF Progress, Failure
<1> QED BY <1>6 DEF Commits, Writes

\* A transaction that commits takes from the stock exactly the units it records.
LEMMA WholeSale ==
    ASSUME TypeOK, InBounds, NothingLeftBehind, Bookkeeping, NEW r \in Request,
           pc[r] \in {"commit", "inFlight"}, req[r].kind # "setStock", CommitTx(r)
    PROVE  /\ placed' = [placed EXCEPT ![r] = tx[r]]
           /\ tx[r].order
           /\ tx[r].items = Units(Cart(r)) /\ tx[r].items \in [Watch -> Nat]
           /\ IsCheckout(r) => tx[r].moves = Units(Cart(r)) /\ tx[r].invoice
           /\ stock' = [w \in Watch |-> stock[w] - tx[r].items[w]]
<1> DEFINE U == UnitsUpTo(Cart(r))
<1>1. Books(r)
  BY DEF Bookkeeping, Healthy, InTx
<1>2. /\ Inserted(r) = Len(Cart(r)) /\ Taken(r) = Len(Cart(r))
      /\ IsCheckout(r) => Moved(r) = Len(Cart(r))
  BY CountsHold DEF Counts
<1>3. tx[r].items = U[Len(Cart(r))] /\ tx[r].items \in [Watch -> Nat]
  BY <1>1, <1>2 DEF Books, TypeOK, Rows
<1>4. ASSUME NEW w \in Watch
      PROVE  (IF lockedBy[w] = r THEN draft[w] ELSE stock[w]) = stock[w] - tx[r].items[w]
  <2>1. IF lockedBy[w] = r THEN draft[w] = stock[w] - U[Len(Cart(r))][w]
                           ELSE U[Len(Cart(r))][w] = 0
    BY <1>1, <1>2 DEF Books
  <2>2. stock[w] \in Int
    BY DEF TypeOK
  <2> HIDE DEF U
  <2> QED BY <1>3, <2>1, <2>2
<1>5. stock' = [w \in Watch |-> stock[w] - tx[r].items[w]]
  BY <1>4 DEF CommitTx
<1>6. placed' = [placed EXCEPT ![r] = tx[r]]
  BY DEF CommitTx
<1>7. tx[r].order /\ (IsCheckout(r) => tx[r].moves = U[Len(Cart(r))] /\ tx[r].invoice)
  BY <1>1, <1>2 DEF Books
<1> HIDE DEF U
<1> QED BY <1>3, <1>5, <1>6, <1>7 DEF Units, U

\* An order is committed at the end of its handler, and not before.
PlacedLate ==
    \A r \in Request : pc[r] \notin {"respond", "done", "lost"} => placed[r] = NoRows

LEMMA PlacedLateStep ==
    TypeOK /\ InBounds /\ PlacedLate /\ [Next]_vars => PlacedLate'
<1> SUFFICES ASSUME TypeOK, InBounds, PlacedLate, [Next]_vars, NEW p \in Request,
                    pc'[p] \notin {"respond", "done", "lost"}
             PROVE  placed'[p] = NoRows
  BY DEF PlacedLate, NoRows, NoUnits
<1>1. ASSUME NEW r \in Request, Progress(r) \/ Failure(r) PROVE placed'[p] = NoRows
  <2>1. CASE p # r
    BY <1>1, <2>1, Frame DEF PlacedLate
  <2>2. CASE p = r
    <3>1. UNCHANGED placed
      BY <1>1, <2>2, Effects
    <3>2. pc[r] \notin {"respond", "done", "lost"}
      BY <1>1, <2>2
      DEF Progress, Failure, RejectBody, Connect, FindCustomer, NewCustomer, CheckLine,
          InsertOrder, InsertItem, TakeStock, RecordMovement, InsertInvoice, Commit,
          Rollback, SetStock, Respond, BreakDeadlock, Deadlocked, Blocked, BackendAborts,
          ConnectFails, StatementFails, ConnectionBreaks, CommitUnacked, BackendFinishes,
          InTx, TypeOK
    <3> QED BY <2>2, <3>1, <3>2 DEF PlacedLate
  <2> QED BY <2>1, <2>2
<1>2. CASE Crash
  BY <1>2 DEF Crash, PlacedLate, database, TypeOK, InTx
<1>3. CASE UNCHANGED vars
  BY <1>3 DEF vars, PlacedLate
<1> QED BY <1>1, <1>2, <1>3 DEF Next

\* Everything the refinement rests on.
LEMMA Sales == Spec => [](TypeOK /\ InBounds /\ NothingLeftBehind /\ Bookkeeping /\ PlacedLate)
<1>1. Init => PlacedLate
  BY DEF Init, PlacedLate
<1>2. TypeOK /\ InBounds /\ PlacedLate /\ [Next]_vars => PlacedLate'
  BY PlacedLateStep
<1> QED BY <1>1, <1>2, TypeCorrect, Clean, BooksKept, PTL DEF Spec

-----------------------------------------------------------------------------
(* The handlers implement the ledger.                                       *)

\* Every step sells one whole order, restocks one watch, or is not seen.
LEMMA LedgerStep ==
    ASSUME TypeOK, InBounds, NothingLeftBehind, Bookkeeping, PlacedLate, [Next]_vars
    PROVE  [Ledger!Next]_<<stock, Sale>>
<1>1. ASSUME NEW r \in Request, Progress(r) \/ Failure(r)
      PROVE  [Ledger!Next]_<<stock, Sale>>
  <2>1. CASE /\ pc[r] \in {"commit", "inFlight"} /\ pc'[r] \in {"respond", "lost"}
             /\ req[r].kind # "setStock"
             /\ CommitTx(r)
    <3>1. /\ placed' = [placed EXCEPT ![r] = tx[r]]
          /\ tx[r].order
          /\ tx[r].items \in [Watch -> Nat]
          /\ stock' = [w \in Watch |-> stock[w] - tx[r].items[w]]
      BY <2>1, WholeSale
    <3>2. ~placed[r].order
      BY <2>1 DEF PlacedLate, NoRows
    <3>3. Sale[r] = NoSale
      BY <3>2 DEF Sale
    <3>4. Sale' = [Sale EXCEPT ![r] = tx[r].items]
      BY <3>1 DEF Sale, TypeOK
    <3>5. Sale'[r] = tx[r].items
      BY <3>4 DEF Sale
    <3>6. Ledger!Sell(r)
      BY <3>1, <3>3, <3>4, <3>5 DEF Ledger!Sell
    <3> QED BY <3>6 DEF Ledger!Next
  <2>2. CASE UNCHANGED <<placed, customers>> /\ UNCHANGED stock
    BY <2>2 DEF Sale
  <2>3. CASE /\ UNCHANGED <<placed, customers>>
             /\ req[r].watch \in Watch
             /\ stock' = [stock EXCEPT ![req[r].watch] = req[r].level]
    <3>1. req[r].level \in Nat
      BY BodyFields
    <3>2. stock'[req[r].watch] = req[r].level
      BY <2>3 DEF TypeOK
    <3>3. Sale' = Sale
      BY <2>3 DEF Sale
    <3>4. Ledger!Restock(req[r].watch)
      BY <2>3, <3>1, <3>2, <3>3 DEF Ledger!Restock
    <3> QED BY <2>3, <3>4 DEF Ledger!Next
  <2> QED BY <1>1, <2>1, <2>2, <2>3, Effects
<1>2. CASE Crash
  BY <1>2 DEF Crash, database, Sale
<1>3. CASE UNCHANGED vars
  BY <1>3 DEF vars, Sale
<1> QED BY <1>1, <1>2, <1>3 DEF Next

\* Whatever fails and however the statements interleave, stock changes only
\* when a whole order commits, by exactly what it bought, or when an
\* administrator overwrites it.
THEOREM ImplementsLedger == Spec => LedgerSpec
<1>1. Init => Ledger!Init
  BY DEF Init, Ledger!Init, Sale, NoRows
<1>2. TypeOK /\ InBounds /\ NothingLeftBehind /\ Bookkeeping /\ PlacedLate /\ [Next]_vars
      => [Ledger!Next]_<<stock, Sale>>
  BY LedgerStep
<1> QED BY <1>1, <1>2, Sales, PTL DEF Spec, LedgerSpec, Ledger!Spec

-----------------------------------------------------------------------------
(* Whole orders, and the customers rows they come with.                     *)

\* An e-mail row is locked by the checkout that inserts it, and a checkout that
\* is past its customer has it: committed, or inserted by itself.
EmailHeld ==
    \A r \in Request :
        /\ \A e \in Email : lockedBy[e] = r => IsCheckout(r) /\ req[r].email = e
        /\ IsCheckout(r) /\ Healthy(r) /\ pc[r] \notin {"findCustomer", "newCustomer"} =>
              req[r].email \in customers \/ lockedBy[req[r].email] = r

\* How a step of one handler changes the e-mail rows.
LEMMA EmailFrame ==
    ASSUME TypeOK, InBounds, NEW r \in Request, Progress(r) \/ Failure(r)
    PROVE  \/ UNCHANGED customers /\ \A e \in Email : lockedBy'[e] = lockedBy[e]
           \/ /\ pc[r] = "newCustomer" /\ pc'[r] = "checkLine" /\ UNCHANGED customers
              /\ lockedBy[req[r].email] = NoOne
              /\ \A e \in Email : lockedBy'[e] = IF e = req[r].email THEN r ELSE lockedBy[e]
           \/ /\ pc'[r] \in {"respond", "lost"} /\ customers \subseteq customers'
              /\ \A e \in Email : lockedBy'[e] = IF lockedBy[e] = r THEN NoOne ELSE lockedBy[e]
<1> USE BodyFields, StoreAssumption DEF TypeOK, Goto, Leave, database, committed
<1> DEFINE
      Same == UNCHANGED customers /\ \A e \in Email : lockedBy'[e] = lockedBy[e]
      Locks == /\ pc[r] = "newCustomer" /\ pc'[r] = "checkLine" /\ UNCHANGED customers
               /\ lockedBy[req[r].email] = NoOne
               /\ \A e \in Email : lockedBy'[e] = IF e = req[r].email THEN r ELSE lockedBy[e]
      Ends == /\ pc'[r] \in {"respond", "lost"} /\ customers \subseteq customers'
              /\ \A e \in Email : lockedBy'[e] = IF lockedBy[e] = r THEN NoOne ELSE lockedBy[e]
<1>1. ASSUME NewCustomer(r) PROVE Same \/ Locks
  BY <1>1 DEF NewCustomer
<1>2. ASSUME TakeStock(r) PROVE Same
  <2>1. Item(r).watch \in WatchId
    BY <1>2 DEF TakeStock, Item, InBounds, InTx
  <2>2. \A e \in Email : e # Item(r).watch
    BY <2>1
  <2> QED BY <1>2, <2>2 DEF TakeStock
<1>3. ASSUME Commit(r) PROVE Ends
  BY <1>3 DEF Commit, CommitTx, Unlock
<1>4. ASSUME CommitUnacked(r) PROVE Ends
  BY <1>4 DEF CommitUnacked, CommitTx, Unlock
<1>5. ASSUME Rollback(r) PROVE Ends
  BY <1>5 DEF Rollback, AbortTx, Unlock
<1>6. ASSUME ConnectionBreaks(r) PROVE Ends
  BY <1>6 DEF ConnectionBreaks, AbortTx, Unlock
<1>7. ASSUME BackendAborts(r) PROVE Ends
  BY <1>7 DEF BackendAborts, AbortTx, Unlock
<1>8. ASSUME BackendFinishes(r) PROVE Same \/ Ends
  <2>1. CASE req[r].kind = "setStock"
    BY <1>8, <2>1 DEF BackendFinishes, WriteLevel
  <2>2. CASE req[r].kind # "setStock"
    BY <1>8, <2>2 DEF BackendFinishes, CommitTx, Unlock
  <2> QED BY <2>1, <2>2
<1>9. ASSUME SetStock(r) PROVE Same
  BY <1>9 DEF SetStock, WriteLevel
<1>10. ASSUME \/ RejectBody(r) \/ Connect(r) \/ FindCustomer(r)
              \/ CheckLine(r) \/ InsertOrder(r) \/ InsertItem(r)
              \/ RecordMovement(r) \/ InsertInvoice(r)
              \/ Respond(r) \/ BreakDeadlock(r) \/ ConnectFails(r) \/ StatementFails(r)
       PROVE  Same
  BY <1>10
  DEF RejectBody, Connect, FindCustomer, CheckLine, InsertOrder, InsertItem,
      RecordMovement, InsertInvoice, Respond, BreakDeadlock, ConnectFails, StatementFails
<1> HIDE DEF Same, Locks, Ends
<1>11. Same \/ Locks \/ Ends
  BY <1>1, <1>2, <1>3, <1>4, <1>5, <1>6, <1>7, <1>8, <1>9, <1>10 DEF Progress, Failure
<1> QED BY <1>11 DEF Same, Locks, Ends

\* Where a handler is after a step tells where it was.
LEMMA Backwards ==
    ASSUME TypeOK, InBounds, NEW r \in Request, Progress(r) \/ Failure(r),
           Healthy(r)', pc'[r] \notin {"findCustomer", "newCustomer"}
    PROVE  \/ IsOrder(r)
           \/ /\ pc[r] = "findCustomer" /\ pc'[r] = "checkLine"
              /\ req[r].email \in customers
           \/ /\ pc[r] = "newCustomer" /\ pc'[r] = "checkLine"
              /\ lockedBy'[req[r].email] = r
           \/ Healthy(r) /\ pc[r] \notin {"findCustomer", "newCustomer"}
<1> USE BodyFields
    DEF TypeOK, InBounds, InTx, Healthy, IsOrder, IsCheckout, Goto, Leave, Refuse
<1>1. ASSUME Progress(r)
      PROVE  \/ IsOrder(r)
             \/ /\ pc[r] = "findCustomer" /\ pc'[r] = "checkLine"
                /\ req[r].email \in customers
             \/ /\ pc[r] = "newCustomer" /\ pc'[r] = "checkLine"
                /\ lockedBy'[req[r].email] = r
             \/ Healthy(r) /\ pc[r] \notin {"findCustomer", "newCustomer"}
  <2>1. CASE Connect(r)
    BY <2>1 DEF Connect
  <2>2. CASE FindCustomer(r)
    BY <2>2 DEF FindCustomer
  <2>3. CASE NewCustomer(r)
    <3>1. lockedBy' = [lockedBy EXCEPT ![req[r].email] = r]
      BY <2>3 DEF NewCustomer
    <3>2. lockedBy'[req[r].email] = r
      BY <3>1
    <3> QED BY <2>3, <3>2 DEF NewCustomer
  <2>4. CASE CheckLine(r)
    BY <2>4 DEF CheckLine
  <2>5. CASE InsertOrder(r)
    BY <2>5 DEF InsertOrder
  <2>6. CASE InsertItem(r)
    BY <2>6 DEF InsertItem
  <2>7. CASE TakeStock(r)
    BY <2>7 DEF TakeStock
  <2>8. CASE RecordMovement(r)
    BY <2>8 DEF RecordMovement
  <2>9. CASE InsertInvoice(r)
    BY <2>9 DEF InsertInvoice
  <2>10. CASE \/ RejectBody(r) \/ Commit(r) \/ Rollback(r) \/ SetStock(r) \/ Respond(r)
              \/ BreakDeadlock(r) \/ BackendAborts(r)
    BY <2>10 DEF RejectBody, Commit, Rollback, SetStock, Respond, BreakDeadlock, BackendAborts
  <2> QED BY <1>1, <2>1, <2>2, <2>3, <2>4, <2>5, <2>6, <2>7, <2>8, <2>9, <2>10 DEF Progress
<1>2. ASSUME Failure(r) PROVE FALSE
  BY <1>2 DEF Failure, ConnectFails, StatementFails, ConnectionBreaks, CommitUnacked,
              BackendFinishes
<1> QED BY <1>1, <1>2

LEMMA EmailHeldStep ==
    TypeOK /\ InBounds /\ EmailHeld /\ [Next]_vars => EmailHeld'
<1> SUFFICES ASSUME TypeOK, InBounds, EmailHeld, [Next]_vars PROVE EmailHeld'
  OBVIOUS
<1> DEFINE Held(p) ==
      /\ \A e \in Email : lockedBy[e] = p => IsCheckout(p) /\ req[p].email = e
      /\ IsCheckout(p) /\ Healthy(p) /\ pc[p] \notin {"findCustomer", "newCustomer"} =>
            req[p].email \in customers \/ lockedBy[req[p].email] = p
<1>1. ASSUME NEW r \in Request, Progress(r) \/ Failure(r) PROVE EmailHeld'
  <2> SUFFICES ASSUME NEW p \in Request PROVE Held(p)'
    BY DEF EmailHeld
  <2>1. /\ req' = req
        /\ req[p].email \in Email /\ req[r].email \in Email
        /\ IsCheckout(p)' = IsCheckout(p) /\ ~(IsOrder(p) /\ IsCheckout(p))
        /\ NoOne # p
    BY <1>1, Frame, BodyFields, AbsentAssumption DEF IsOrder, IsCheckout
  <2>2. Held(p) /\ Held(r)
    BY DEF EmailHeld
  <2>3. CASE p = r
    <3>1. CASE UNCHANGED customers /\ \A e \in Email : lockedBy'[e] = lockedBy[e]
      BY <1>1, <2>1, <2>2, <2>3, <3>1, Backwards DEF Healthy, InTx
    <3>2. CASE /\ pc[r] = "newCustomer" /\ pc'[r] = "checkLine" /\ UNCHANGED customers
               /\ lockedBy[req[r].email] = NoOne
               /\ \A e \in Email : lockedBy'[e] = IF e = req[r].email THEN r ELSE lockedBy[e]
      <4>1. IsCheckout(r)
        BY <3>2 DEF InBounds
      <4> QED BY <2>1, <2>2, <2>3, <3>2, <4>1
    <3>3. CASE /\ pc'[r] \in {"respond", "lost"} /\ customers \subseteq customers'
               /\ \A e \in Email : lockedBy'[e] = IF lockedBy[e] = r THEN NoOne ELSE lockedBy[e]
      <4>1. ~Healthy(r)'
        BY <3>3 DEF Healthy, InTx
      <4> QED BY <2>1, <2>2, <2>3, <3>3, <4>1
    <3> HIDE DEF Held
    <3> QED BY <1>1, <3>1, <3>2, <3>3, EmailFrame
  <2>4. CASE p # r
    <3>1. pc'[p] = pc[p] /\ Healthy(p)' = Healthy(p)
      BY <1>1, <2>1, <2>4, Frame DEF Healthy
    <3>2. customers \subseteq customers'
      BY <1>1, EmailFrame
    <3>3. ASSUME NEW e \in Email PROVE lockedBy'[e] = p <=> lockedBy[e] = p
      <4>1. \/ lockedBy'[e] = lockedBy[e]
            \/ lockedBy[e] = NoOne /\ lockedBy'[e] = r
            \/ lockedBy[e] = r /\ lockedBy'[e] = NoOne
        BY <1>1, EmailFrame
      <4> QED BY <2>1, <2>4, <4>1
    <3> QED BY <2>1, <2>2, <3>1, <3>2, <3>3
  <2> QED BY <2>3, <2>4
<1>2. CASE Crash
  <2> SUFFICES ASSUME NEW p \in Request PROVE Held(p)'
    BY DEF EmailHeld
  <2>1. /\ UNCHANGED <<req, customers, lockedBy>> /\ Held(p)
        /\ Healthy(p)' => Healthy(p) /\ pc[p] \notin {"findCustomer", "newCustomer"}
    BY <1>2 DEF Crash, database, EmailHeld, Healthy, InTx, InBounds, TypeOK
  <2> QED BY <2>1 DEF IsCheckout
<1>3. CASE UNCHANGED vars
  BY <1>3 DEF vars, EmailHeld, Healthy, IsCheckout
<1> QED BY <1>1, <1>2, <1>3 DEF Next

\* Every step keeps the orders whole and the customers bought.
LEMMA OrdersStep ==
    ASSUME TypeOK, InBounds, NothingLeftBehind, Bookkeeping, PlacedLate, EmailHeld,
           WholeOrders, CustomersBought, [Next]_vars
    PROVE  WholeOrders' /\ CustomersBought'
<1>1. ASSUME UNCHANGED <<req, placed, customers>> PROVE WholeOrders' /\ CustomersBought'
  <2>1. ASSUME NEW p \in Request
        PROVE  /\ Cart(p)' = Cart(p) /\ IsCheckout(p)' = IsCheckout(p)
               /\ Units(Cart(p))' = Units(Cart(p))
    BY <1>1 DEF Cart, IsCheckout, Units, UnitsUpTo, NoUnits
  <2>2. WholeOrders'
    BY <1>1, <2>1 DEF WholeOrders, NoRows, NoUnits
  <2>3. CustomersBought'
    BY <1>1, <2>1 DEF CustomersBought
  <2> QED BY <2>2, <2>3
<1>2. ASSUME NEW r \in Request, Progress(r) \/ Failure(r),
             pc[r] \in {"commit", "inFlight"}, req[r].kind # "setStock", CommitTx(r)
      PROVE  WholeOrders' /\ CustomersBought'
  <2>1. /\ placed' = [placed EXCEPT ![r] = tx[r]]
        /\ tx[r].order
        /\ tx[r].items = Units(Cart(r))
        /\ IsCheckout(r) => tx[r].moves = Units(Cart(r)) /\ tx[r].invoice
    BY <1>2, WholeSale
  <2>2. req' = req /\ customers' = customers \cup {e \in Email : lockedBy[e] = r}
    BY <1>2, Frame DEF CommitTx
  <2>3. IsCheckout(r) => req[r].email \in customers'
    <3>1. Healthy(r)
      BY <1>2 DEF Healthy, InTx
    <3> QED BY <1>2, <2>2, <3>1, BodyFields DEF EmailHeld
  <2>4. ASSUME NEW p \in Request
        PROVE  /\ Cart(p)' = Cart(p) /\ IsCheckout(p)' = IsCheckout(p)
               /\ Units(Cart(p))' = Units(Cart(p))
    BY <2>2 DEF Cart, IsCheckout, Units, UnitsUpTo, NoUnits
  <2>5. placed'[r] = tx[r] /\ \A p \in Request \ {r} : placed'[p] = placed[p]
    BY <2>1 DEF TypeOK
  <2>6. WholeOrders'
    <3> SUFFICES ASSUME NEW p \in Request
                 PROVE  IF placed'[p].order
                        THEN /\ placed'[p].items = Units(Cart(p))
                             /\ IsCheckout(p) => /\ placed'[p].moves = Units(Cart(p))
                                                 /\ placed'[p].invoice
                                                 /\ req[p].email \in customers'
                        ELSE placed'[p] = NoRows
      BY <2>2, <2>4 DEF WholeOrders, NoRows, NoUnits
    <3>1. CASE p = r
      BY <2>1, <2>3, <2>5, <3>1
    <3>2. CASE p # r
      BY <2>2, <2>5, <3>2 DEF WholeOrders
    <3> QED BY <3>1, <3>2
  <2>7. CustomersBought'
    <3> SUFFICES ASSUME NEW e \in customers' \ Known
                 PROVE  \E p \in Request :
                           IsCheckout(p) /\ req[p].email = e /\ placed'[p].order
      BY <2>2, <2>4 DEF CustomersBought
    <3>1. CASE e \in customers
      <4>1. PICK p \in Request : IsCheckout(p) /\ req[p].email = e /\ placed[p].order
        BY <3>1 DEF CustomersBought
      <4>2. placed'[p].order
        BY <2>1, <2>5, <4>1
      <4> QED BY <4>1, <4>2
    <3>2. CASE e \notin customers
      BY <2>1, <2>2, <2>5, <3>2 DEF EmailHeld
    <3> QED BY <3>1, <3>2
  <2> QED BY <2>6, <2>7
<1>3. ASSUME NEW r \in Request, Progress(r) \/ Failure(r) PROVE WholeOrders' /\ CustomersBought'
  BY <1>1, <1>2, <1>3, Effects, Frame
<1>4. CASE Crash
  BY <1>1, <1>4 DEF Crash, database
<1>5. CASE UNCHANGED vars
  BY <1>1, <1>5 DEF vars
<1> QED BY <1>3, <1>4, <1>5 DEF Next

\* An order is in the database with every row of it or with none.
THEOREM OrdersWhole == Spec => [](WholeOrders /\ CustomersBought)
<1>1. Init => EmailHeld /\ WholeOrders /\ CustomersBought
  BY AbsentAssumption
  DEF Init, EmailHeld, WholeOrders, CustomersBought, Healthy, InTx, NoRows
<1>2. TypeOK /\ InBounds /\ EmailHeld /\ [Next]_vars => EmailHeld'
  BY EmailHeldStep
<1>3. TypeOK /\ InBounds /\ NothingLeftBehind /\ Bookkeeping /\ PlacedLate /\ EmailHeld
      /\ WholeOrders /\ CustomersBought /\ [Next]_vars => WholeOrders' /\ CustomersBought'
  BY OrdersStep
<1> QED BY <1>1, <1>2, <1>3, Sales, PTL DEF Spec

-----------------------------------------------------------------------------
(* What clients are told.                                                   *)

Refusals == {"missing", "notFound", "insufficient"}

\* A handler decides on its response once, when it stops issuing statements, and
\* what it decides is true of the committed tables from then on.
Decided ==
    \A r \in Request :
        /\ status[r] # "none" => pc[r] \in {"rollback", "respond", "done"}
        /\ status[r] = "created" => placed[r].order
        /\ status[r] \in Refusals => ~placed[r].order

\* How a step of one handler decides on its response.
LEMMA Deciding ==
    ASSUME TypeOK, InBounds, NEW r \in Request, Progress(r) \/ Failure(r)
    PROVE  /\ \A p \in Request \ {r} : status'[p] = status[p]
           /\ \/ Commit(r) /\ status'[r] = "created" /\ pc'[r] = "respond"
              \/ /\ status'[r] \in Refusals /\ pc'[r] \in {"rollback", "respond", "done"}
                 /\ pc[r] \in {"connect", "checkLine", "setStock"} /\ UNCHANGED placed
              \/ status'[r] \in {"ok", "error"} /\ pc'[r] \in {"rollback", "respond", "done"}
              \/ /\ status'[r] = status[r] /\ pc[r] # "done"
                 /\ pc[r] \in {"rollback", "respond"} =>
                       pc'[r] \in {"respond", "done"} /\ UNCHANGED placed
<1> USE DEF TypeOK, InBounds, InTx, Refusals, Goto, Leave, database, committed
<1> DEFINE
      Others == \A p \in Request \ {r} : status'[p] = status[p]
      Created == Commit(r) /\ status'[r] = "created" /\ pc'[r] = "respond"
      Refused == /\ status'[r] \in Refusals /\ pc'[r] \in {"rollback", "respond", "done"}
                 /\ pc[r] \in {"connect", "checkLine", "setStock"} /\ UNCHANGED placed
      Fails == status'[r] \in {"ok", "error"} /\ pc'[r] \in {"rollback", "respond", "done"}
      Goes == /\ status'[r] = status[r] /\ pc[r] # "done"
              /\ pc[r] \in {"rollback", "respond"} =>
                       pc'[r] \in {"respond", "done"} /\ UNCHANGED placed
<1>1. ASSUME RejectBody(r) PROVE Others /\ Refused
  BY <1>1 DEF RejectBody
<1>2. ASSUME Connect(r) PROVE Others /\ (Refused \/ Goes)
  BY <1>2 DEF Connect
<1>3. ASSUME NewCustomer(r) PROVE Others /\ (Fails \/ Goes)
  BY <1>3 DEF NewCustomer
<1>4. ASSUME CheckLine(r) PROVE Others /\ (Refused \/ Goes)
  BY <1>4 DEF CheckLine, Refuse
<1>5. ASSUME InsertItem(r) PROVE Others /\ (Fails \/ Goes)
  BY <1>5 DEF InsertItem
<1>6. ASSUME Commit(r) PROVE Others /\ Created
  BY <1>6 DEF Commit
<1>7. ASSUME SetStock(r) PROVE Others /\ (Refused \/ Fails)
  BY <1>7 DEF SetStock, WriteLevel
<1>8. ASSUME \/ ConnectFails(r) \/ StatementFails(r) \/ ConnectionBreaks(r)
             \/ CommitUnacked(r) \/ BreakDeadlock(r)
      PROVE  Others /\ Fails
  BY <1>8 DEF ConnectFails, StatementFails, ConnectionBreaks, CommitUnacked, BreakDeadlock
<1>9. ASSUME \/ FindCustomer(r) \/ InsertOrder(r) \/ TakeStock(r) \/ RecordMovement(r)
             \/ InsertInvoice(r) \/ Rollback(r) \/ Respond(r) \/ BackendAborts(r)
             \/ BackendFinishes(r)
      PROVE  Others /\ Goes
  BY <1>9 DEF FindCustomer, InsertOrder, TakeStock, RecordMovement, InsertInvoice,
              Rollback, Respond, BackendAborts, BackendFinishes, AbortTx
<1> HIDE DEF Others, Created, Refused, Fails, Goes
<1>10. Others /\ (Created \/ Refused \/ Fails \/ Goes)
  BY <1>1, <1>2, <1>3, <1>4, <1>5, <1>6, <1>7, <1>8, <1>9 DEF Progress, Failure
<1> QED BY <1>10 DEF Others, Created, Refused, Fails, Goes

LEMMA DecidedStep ==
    TypeOK /\ InBounds /\ NothingLeftBehind /\ Bookkeeping /\ PlacedLate /\ Decided
    /\ [Next]_vars => Decided'
<1> SUFFICES ASSUME TypeOK, InBounds, NothingLeftBehind, Bookkeeping, PlacedLate, Decided,
                    [Next]_vars, NEW p \in Request
             PROVE  /\ status'[p] # "none" => pc'[p] \in {"rollback", "respond", "done"}
                    /\ status'[p] = "created" => placed'[p].order
                    /\ status'[p] \in Refusals => ~placed'[p].order
  BY DEF Decided, Refusals
<1>1. ASSUME NEW r \in Request, Progress(r) \/ Failure(r)
      PROVE  /\ status'[p] # "none" => pc'[p] \in {"rollback", "respond", "done"}
             /\ status'[p] = "created" => placed'[p].order
             /\ status'[p] \in Refusals => ~placed'[p].order
  <2>1. CASE p # r
    BY <1>1, <2>1, Frame, Deciding DEF Decided
  <2>2. CASE p = r
    <3>1. CASE Commit(r) /\ status'[r] = "created" /\ pc'[r] = "respond"
      <4>1. placed'[r] = tx[r] /\ tx[r].order
        BY <3>1, WholeSale DEF Commit, InBounds, InTx, TypeOK
      <4> QED BY <2>2, <3>1, <4>1 DEF Refusals
    <3>2. CASE /\ status'[r] \in Refusals /\ pc'[r] \in {"rollback", "respond", "done"}
               /\ pc[r] \in {"connect", "checkLine", "setStock"} /\ UNCHANGED placed
      BY <2>2, <3>2 DEF PlacedLate, NoRows, Refusals
    <3>3. CASE status'[r] \in {"ok", "error"} /\ pc'[r] \in {"rollback", "respond", "done"}
      BY <2>2, <3>3 DEF Refusals
    <3>4. CASE /\ status'[r] = status[r] /\ pc[r] # "done"
               /\ pc[r] \in {"rollback", "respond"} =>
                      pc'[r] \in {"respond", "done"} /\ UNCHANGED placed
      BY <2>2, <3>4 DEF Decided, Refusals
    <3> QED BY <1>1, <3>1, <3>2, <3>3, <3>4, Deciding
  <2> QED BY <2>1, <2>2
<1>2. CASE Crash
  BY <1>2 DEF Crash, database, Decided, TypeOK, Refusals, InTx
<1>3. CASE UNCHANGED vars
  BY <1>3 DEF vars, Decided
<1> QED BY <1>1, <1>2, <1>3 DEF Next

\* Events and background jobs: only Respond hands them off.
LEMMA AnnouncedStep ==
    TypeOK /\ InBounds /\ NothingLeftBehind /\ Bookkeeping /\ Decided
    /\ AnnouncedOrdersExist /\ [Next]_vars => AnnouncedOrdersExist'
<1> SUFFICES ASSUME TypeOK, InBounds, NothingLeftBehind, Bookkeeping, Decided,
                    AnnouncedOrdersExist, [Next]_vars
             PROVE  AnnouncedOrdersExist'
  OBVIOUS
<1> DEFINE Pair(p) == {<<"orders.created", p>>, <<"order-confirmation", p>>}
           Told(p) ==
              /\ \A sink \in {"orders.created", "order-confirmation"} :
                    <<sink, p>> \in handedOff => IsOrder(p) /\ placed[p].order
              /\ pc[p] = "done" /\ status[p] = "created" /\ IsOrder(p) =>
                    Pair(p) \subseteq handedOff
<1>1. ASSUME NEW r \in Request, Progress(r) \/ Failure(r), NEW p \in Request
      PROVE  Told(p)'
  <2>1. Told(p)
    BY DEF AnnouncedOrdersExist
  <2>2. req' = req /\ IsOrder(p)' = IsOrder(p)
    BY <1>1, Frame DEF IsOrder
  <2>3. placed[p].order => placed'[p].order
    <3>1. CASE p # r
      BY <1>1, <3>1, Frame
    <3>2. CASE p = r
      BY <1>1, <3>2, Effects, WholeSale DEF TypeOK
    <3> QED BY <3>1, <3>2
  <2>4. CASE Respond(r)
    <3>1. /\ handedOff' = handedOff \cup Announce(r) /\ pc[r] = "respond"
          /\ pc' = [pc EXCEPT ![r] = "done"] /\ UNCHANGED <<status, placed>>
      BY <2>4 DEF Respond, database
    <3>2. ASSUME NEW sink \in {"orders.created", "order-confirmation"},
                 <<sink, p>> \in handedOff'
          PROVE  IsOrder(p)' /\ placed'[p].order
      <4>1. CASE <<sink, p>> \in handedOff
        BY <2>1, <2>2, <2>3, <4>1
      <4>2. CASE <<sink, p>> \in Announce(r)
        <5>1. p = r /\ status[r] = "created" /\ IsOrder(r)
          BY <4>2 DEF Announce
        <5> QED BY <2>2, <3>1, <5>1 DEF Decided
      <4> QED BY <3>1, <3>2, <4>1, <4>2
    <3>3. ASSUME pc'[p] = "done", status'[p] = "created", IsOrder(p)'
          PROVE  Pair(p)' \subseteq handedOff'
      <4>1. CASE p = r
        BY <2>2, <3>1, <3>3, <4>1 DEF Announce
      <4>2. CASE p # r
        BY <2>1, <2>2, <3>1, <3>3, <4>2 DEF TypeOK
      <4> QED BY <4>1, <4>2
    <3> QED BY <3>2, <3>3
  <2>5. CASE ~Respond(r)
    <3>1. UNCHANGED handedOff
      BY <1>1, <2>5
      DEF Progress, Failure, RejectBody, Connect, FindCustomer, NewCustomer, CheckLine,
          InsertOrder, InsertItem, TakeStock, RecordMovement, InsertInvoice, Commit,
          Rollback, SetStock, BreakDeadlock, BackendAborts, ConnectFails,
          StatementFails, ConnectionBreaks, CommitUnacked, BackendFinishes
    <3>2. pc'[p] = "done" /\ status'[p] = "created" => pc[p] = "done" /\ status[p] = "created"
      <4>1. CASE p # r
        BY <1>1, <4>1, Frame, Deciding
      <4>2. CASE p = r
        BY <1>1, <2>5, <4>2
        DEF Progress, Failure, RejectBody, Connect, FindCustomer, NewCustomer, CheckLine,
            InsertOrder, InsertItem, TakeStock, RecordMovement, InsertInvoice, Commit,
            Rollback, SetStock, BreakDeadlock, BackendAborts, ConnectFails,
            StatementFails, ConnectionBreaks, CommitUnacked, BackendFinishes,
            Goto, Leave, Refuse, TypeOK
      <4> QED BY <4>1, <4>2
    <3> QED BY <2>1, <2>2, <2>3, <3>1, <3>2
  <2> QED BY <2>4, <2>5
<1>2. ASSUME UNCHANGED <<req, placed, handedOff>>, NEW p \in Request,
             pc'[p] = "done" /\ status'[p] = "created" => pc[p] = "done" /\ status[p] = "created"
      PROVE  Told(p)'
  BY <1>2 DEF AnnouncedOrdersExist, IsOrder
<1>3. CASE Crash
  <2>1. ASSUME NEW p \in Request PROVE Told(p)'
    BY <1>2, <1>3 DEF Crash, database, TypeOK, InTx
  <2> QED BY <2>1 DEF AnnouncedOrdersExist
<1>4. CASE UNCHANGED vars
  BY <1>2, <1>4 DEF vars, AnnouncedOrdersExist
<1>5. ASSUME NEW r \in Request, Progress(r) \/ Failure(r) PROVE AnnouncedOrdersExist'
  BY <1>1, <1>5 DEF AnnouncedOrdersExist
<1> HIDE DEF Told
<1> QED BY <1>3, <1>4, <1>5 DEF Next

\* What clients and the consumers of events are told is true of the database.
THEOREM Truthful == Spec => [](RepliesTruthful /\ AnnouncedOrdersExist)
<1>1. Init => Decided /\ AnnouncedOrdersExist
  BY DEF Init, Decided, AnnouncedOrdersExist, Refusals
<1>2. TypeOK /\ InBounds /\ NothingLeftBehind /\ Bookkeeping /\ PlacedLate /\ Decided
      /\ [Next]_vars => Decided'
  BY DecidedStep
<1>3. TypeOK /\ InBounds /\ NothingLeftBehind /\ Bookkeeping /\ Decided
      /\ AnnouncedOrdersExist /\ [Next]_vars => AnnouncedOrdersExist'
  BY AnnouncedStep
<1>4. Decided => RepliesTruthful
  BY DEF Decided, RepliesTruthful, Refusals
<1> QED BY <1>1, <1>2, <1>3, <1>4, Sales, PTL DEF Spec

\* A checkout leaves no customer without a purchase behind, whatever fails.
THEOREM NoIdleCustomers == Spec => []CustomersBought
  BY OrdersWhole, PTL

\* No order is announced that the database does not hold.
THEOREM EventsAreOfOrders == Spec => []AnnouncedOrdersExist
  BY Truthful, PTL

-----------------------------------------------------------------------------
(* Lock cycles.                                                             *)

\* The locks of a transaction that will commit if nothing fails are on rows of
\* the cart lines it has passed, the lines it has inserted name rows of the
\* table, and it locks no e-mail before its customer is there.
RowsPassed ==
    \A r \in Request : Healthy(r) =>
        /\ \A i \in 1..Inserted(r) : Cart(r)[i].watch \in Watch
        /\ \A w \in Watch : lockedBy[w] = r => \E i \in 1..Taken(r) : Cart(r)[i].watch = w
        /\ pc[r] \in {"findCustomer", "newCustomer"} => \A e \in Email : lockedBy[e] # r

\* A statement of request r: the lines it counts as inserted are the ones before
\* and its own, and so are the rows it has locked.
LEMMA PassedOwn ==
    ASSUME TypeOK, InBounds, NothingLeftBehind, NEW r \in Request,
           Progress(r) \/ Failure(r), Healthy(r)'
    PROVE  \/ /\ Healthy(r)
              /\ \/ Inserted(r)' <= Inserted(r)
                 \/ Inserted(r)' <= line[r] /\ Inserted(r) >= line[r] - 1 /\ Item(r).watch \in Watch
              /\ \A w \in Watch : \/ lockedBy'[w] = lockedBy[w]
                                  \/ w = Item(r).watch /\ line[r] \in 1..Taken(r)'
              /\ Taken(r)' >= Taken(r)
           \/ /\ Inserted(r)' = 0 /\ Taken(r)' = 0
              /\ \A w \in Watch : lockedBy'[w] # r
<1> DEFINE
      Further ==
           /\ Healthy(r)
           /\ \/ Inserted(r)' <= Inserted(r)
              \/ Inserted(r)' <= line[r] /\ Inserted(r) >= line[r] - 1 /\ Item(r).watch \in Watch
           /\ \A w \in Watch : \/ lockedBy'[w] = lockedBy[w]
                               \/ w = Item(r).watch /\ line[r] \in 1..Taken(r)'
           /\ Taken(r)' >= Taken(r)
      Starts == /\ Inserted(r)' = 0 /\ Taken(r)' = 0
                /\ \A w \in Watch : lockedBy'[w] # r
      n == Len(Cart(r))
<1>1. /\ req[r].kind \in {"order", "checkout", "setStock"}
      /\ n \in Nat
      /\ pc[r] \in InTx => req[r].kind # "setStock" /\ line[r] \in 1..n
      /\ pc[r] \in {"findCustomer", "newCustomer", "checkLine",
                    "recordMovement", "invoice"} => IsCheckout(r)
  BY BodyFields DEF InBounds
<1>2. req' = req /\ Cart(r)' = Cart(r) /\ n' = n
      /\ IsOrder(r)' = IsOrder(r) /\ IsCheckout(r)' = IsCheckout(r)
  BY Frame DEF Cart, IsOrder, IsCheckout
<1>3. Counts(r) /\ Counts(r)'
  BY CountsHold
<1>4. ASSUME Connect(r) PROVE Starts
  <2>1. /\ pc[r] = "connect" /\ pc'[r] \in {"insertOrder", "findCustomer"}
        /\ UNCHANGED lockedBy
    BY <1>4 DEF Connect, Goto, Leave, database, Healthy, InTx, TypeOK
  <2>2. \A w \in Watch : lockedBy[w] # r
    BY <2>1 DEF NothingLeftBehind, InTx
  <2> QED BY <2>1, <2>2, <1>3 DEF Counts
<1>5. ASSUME FindCustomer(r) \/ NewCustomer(r) \/ CheckLine(r) PROVE Further
  <2>1. /\ pc[r] \in {"findCustomer", "newCustomer", "checkLine"}
        /\ pc'[r] \in {"newCustomer", "checkLine", "insertOrder"}
    BY <1>5 DEF FindCustomer, NewCustomer, CheckLine, Refuse, Goto, Leave, TypeOK, Healthy
  <2>2. \A w \in Watch : lockedBy'[w] = lockedBy[w]
    BY <1>5, StoreAssumption, BodyFields
    DEF FindCustomer, NewCustomer, CheckLine, database, TypeOK
  <2> QED BY <2>1, <2>2, <1>3 DEF Counts, Healthy, InTx, IsCheckout, InBounds
<1>6. ASSUME InsertOrder(r) PROVE Further
  <2>1. pc[r] = "insertOrder" /\ pc'[r] = "insertItem" /\ line'[r] = 1 /\ UNCHANGED lockedBy
    BY <1>6 DEF InsertOrder, Goto, TypeOK
  <2>2. Inserted(r) = 0 /\ Taken(r) = 0 /\ Inserted(r)' = 0 /\ Taken(r)' = 0
    BY <2>1 DEF Inserted, Taken
  <2> QED BY <2>1, <2>2, <1>1 DEF Healthy, InTx
<1>7. ASSUME InsertItem(r) PROVE Further
  <2>1. /\ pc[r] = "insertItem" /\ Item(r).watch \in Watch /\ UNCHANGED lockedBy
        /\ \/ pc'[r] = "takeStock" /\ line'[r] = line[r] /\ IsOrder(r)
           \/ pc'[r] = "takeStock" /\ line'[r] = 1 /\ line[r] = n /\ ~IsOrder(r)
           \/ pc'[r] = "insertItem" /\ line'[r] = line[r] + 1 /\ ~IsOrder(r)
    BY <1>7 DEF InsertItem, AllItemsIn, LastLine, Goto, Leave, TypeOK, Healthy, InTx
  <2>2. Healthy(r) /\ line[r] \in 1..n
    BY <2>1, <1>1 DEF Healthy, InTx
  <2>3. CASE IsOrder(r)
    <3>1. /\ Inserted(r) = line[r] - 1 /\ Taken(r) = line[r] - 1
          /\ Inserted(r)' = line[r] /\ Taken(r)' = line[r] - 1
      BY <2>1, <2>3, <1>2, <1>3 DEF Counts
    <3> QED BY <2>1, <2>2, <3>1, <1>1
  <2>4. CASE ~IsOrder(r)
    <3>0. IsCheckout(r)
      BY <2>1, <2>4, <1>1 DEF IsOrder, IsCheckout, InTx
    <3>1. /\ Inserted(r) = line[r] - 1 /\ Taken(r) = 0
          /\ Inserted(r)' = line[r] /\ Taken(r)' = 0
      BY <2>1, <2>2, <2>4, <3>0, <1>1, <1>2, <1>3 DEF Counts
    <3> QED BY <2>1, <2>2, <3>1, <1>1
  <2> QED BY <2>3, <2>4
<1>8. ASSUME TakeStock(r) PROVE Further
  <2>1. /\ pc[r] = "takeStock"
        /\ lockedBy' = [lockedBy EXCEPT ![Item(r).watch] = r]
        /\ \/ pc'[r] = "recordMovement" /\ line'[r] = line[r] /\ IsCheckout(r)
           \/ pc'[r] = "commit" /\ line[r] = n /\ ~IsCheckout(r)
           \/ pc'[r] = "insertItem" /\ line'[r] = line[r] + 1 /\ ~IsCheckout(r)
    BY <1>8 DEF TakeStock, LastLine, Goto, TypeOK
  <2>2. Healthy(r) /\ line[r] \in 1..n /\ (IsOrder(r) <=> ~IsCheckout(r))
    BY <2>1, <1>1 DEF Healthy, InTx, IsOrder, IsCheckout
  <2>3. Taken(r) = line[r] - 1
    BY <2>1, <2>2, <1>3 DEF Counts
  <2>4. Taken(r)' = line[r] /\ Inserted(r)' = Inserted(r)
    BY <2>1, <2>2, <1>1, <1>2, <1>3 DEF Counts
  <2>5. \A w \in Watch : w # Item(r).watch => lockedBy'[w] = lockedBy[w]
    BY <2>1 DEF TypeOK
  <2>6. Inserted(r) \in Nat
    BY <2>1, <2>2, <1>1, <1>3 DEF Counts
  <2> QED BY <2>2, <2>3, <2>4, <2>5, <2>6, <1>1
<1>9. ASSUME RecordMovement(r) PROVE Further
  <2>1. /\ pc[r] = "recordMovement" /\ UNCHANGED lockedBy
        /\ \/ pc'[r] = "invoice" /\ line[r] = n
           \/ pc'[r] = "takeStock" /\ line'[r] = line[r] + 1
    BY <1>9 DEF RecordMovement, LastLine, Goto, TypeOK
  <2>2. Healthy(r) /\ line[r] \in 1..n /\ IsCheckout(r)
    BY <2>1, <1>1 DEF Healthy, InTx, IsOrder, IsCheckout
  <2>3. Taken(r) = line[r] /\ Inserted(r) = n
    BY <2>1, <2>2, <1>3 DEF Counts
  <2>4. Taken(r)' = line[r] /\ Inserted(r)' = n
    BY <2>1, <2>2, <1>1, <1>2, <1>3 DEF Counts
  <2> QED BY <2>1, <2>2, <2>3, <2>4, <1>1
<1>10. ASSUME InsertInvoice(r) PROVE Further
  <2>1. pc[r] = "invoice" /\ pc'[r] = "commit" /\ UNCHANGED lockedBy
    BY <1>10 DEF InsertInvoice, Goto, TypeOK
  <2>2. Taken(r) = n /\ Inserted(r) = n /\ Taken(r)' = n /\ Inserted(r)' = n
    BY <2>1, <1>2, <1>3 DEF Counts
  <2> QED BY <2>1, <2>2, <1>1 DEF Healthy, InTx
<1>11. ASSUME \/ RejectBody(r) \/ Commit(r) \/ Rollback(r) \/ SetStock(r) \/ Respond(r)
              \/ BreakDeadlock(r) \/ BackendAborts(r) \/ Failure(r)
       PROVE  FALSE
  BY <1>11
  DEF RejectBody, Commit, Rollback, SetStock, Respond, BreakDeadlock, BackendAborts,
      Failure, ConnectFails, StatementFails, ConnectionBreaks, CommitUnacked,
      BackendFinishes, Leave, Healthy, InTx, TypeOK
<1> HIDE DEF Further, Starts
<1>12. Further \/ Starts
  BY <1>4, <1>5, <1>6, <1>7, <1>8, <1>9, <1>10, <1>11 DEF Progress
<1> QED BY <1>12 DEF Further, Starts

\* A step of request r: what RowsPassed says of r holds after it.
LEMMA RowsPassedOwn ==
    ASSUME TypeOK, InBounds, NothingLeftBehind, RowsPassed, NEW r \in Request,
           Progress(r) \/ Failure(r), Healthy(r)'
    PROVE  /\ \A i \in 1..Inserted(r)' : Cart(r)[i].watch \in Watch
           /\ \A w \in Watch :
                 lockedBy'[w] = r => \E i \in 1..Taken(r)' : Cart(r)[i].watch = w
           /\ pc'[r] \in {"findCustomer", "newCustomer"} =>
                 \A e \in Email : lockedBy'[e] # r
<1>1. pc[r] \in InTx => line[r] \in 1..Len(Cart(r)) /\ Len(Cart(r)) \in Nat
  BY BodyFields DEF InBounds
<1>2. Item(r) = Cart(r)[line[r]] /\ line[r] \in Nat
  BY DEF Item, TypeOK
<1>3. CASE /\ Inserted(r)' = 0 /\ Taken(r)' = 0
           /\ \A w \in Watch : lockedBy'[w] # r
  <2>1. pc'[r] \in {"findCustomer", "newCustomer"} => \A e \in Email : lockedBy'[e] # r
    <3> SUFFICES ASSUME pc'[r] \in {"findCustomer", "newCustomer"}
                 PROVE  \A e \in Email : lockedBy'[e] # r
      OBVIOUS
    <3>1. Connect(r) \/ FindCustomer(r)
      BY DEF Progress, Failure, RejectBody, FindCustomer, NewCustomer, CheckLine,
             InsertOrder, InsertItem, TakeStock, RecordMovement, InsertInvoice, Commit,
             Rollback, SetStock, Respond, BreakDeadlock, BackendAborts, ConnectFails,
             StatementFails, ConnectionBreaks, CommitUnacked, BackendFinishes,
             Goto, Leave, Refuse, TypeOK
    <3>2. UNCHANGED lockedBy
      BY <3>1 DEF Connect, FindCustomer, database
    <3>3. CASE Connect(r)
      BY <3>2, <3>3 DEF Connect, NothingLeftBehind, InTx
    <3>4. CASE FindCustomer(r)
      BY <3>2, <3>4 DEF FindCustomer, RowsPassed, Healthy, InTx, InBounds, IsCheckout
    <3> QED BY <3>1, <3>3, <3>4
  <2> QED BY <1>3, <2>1
<1>4. CASE /\ Healthy(r)
           /\ \/ Inserted(r)' <= Inserted(r)
              \/ /\ Inserted(r)' <= line[r] /\ Inserted(r) >= line[r] - 1
                 /\ Item(r).watch \in Watch
           /\ \A w \in Watch : \/ lockedBy'[w] = lockedBy[w]
                               \/ w = Item(r).watch /\ line[r] \in 1..Taken(r)'
           /\ Taken(r)' >= Taken(r)
  <2>1. /\ \A i \in 1..Inserted(r) : Cart(r)[i].watch \in Watch
        /\ \A w \in Watch : lockedBy[w] = r => \E i \in 1..Taken(r) : Cart(r)[i].watch = w
        /\ pc[r] \in {"findCustomer", "newCustomer"} => \A e \in Email : lockedBy[e] # r
    BY <1>4 DEF RowsPassed
  <2>2. /\ Inserted(r) \in Int /\ Inserted(r)' \in Int
        /\ Taken(r) \in Int /\ Taken(r)' \in Int
    <3>1. TypeOK' /\ Cart(r)' = Cart(r)
      BY TypeStep, Frame DEF Next, Cart
    <3>2. Len(Cart(r)) \in Nat /\ Len(Cart(r)') \in Nat /\ line[r] \in Nat /\ line'[r] \in Nat
      BY <3>1, BodyFields DEF TypeOK
    <3> QED BY <3>1, <3>2 DEF Inserted, Taken
  <2>3. ASSUME NEW i \in 1..Inserted(r)' PROVE Cart(r)[i].watch \in Watch
    BY <1>2, <1>4, <2>1, <2>2
  <2>4. ASSUME NEW w \in Watch, lockedBy'[w] = r
        PROVE  \E i \in 1..Taken(r)' : Cart(r)[i].watch = w
    BY <1>2, <1>4, <2>1, <2>2, <2>4
  <2>5. ASSUME pc'[r] \in {"findCustomer", "newCustomer"}, NEW e \in Email
        PROVE  lockedBy'[e] # r
    <3>1. Connect(r) \/ FindCustomer(r)
      BY <2>5
      DEF Progress, Failure, RejectBody, FindCustomer, NewCustomer, CheckLine,
             InsertOrder, InsertItem, TakeStock, RecordMovement, InsertInvoice, Commit,
             Rollback, SetStock, Respond, BreakDeadlock, BackendAborts, ConnectFails,
             StatementFails, ConnectionBreaks, CommitUnacked, BackendFinishes,
             Goto, Leave, Refuse, TypeOK
    <3>2. UNCHANGED lockedBy /\ pc[r] \in {"connect", "findCustomer"}
      BY <3>1 DEF Connect, FindCustomer, database
    <3> QED BY <1>4, <2>1, <3>2 DEF Healthy, InTx
  <2> QED BY <2>3, <2>4, <2>5
<1> QED BY <1>3, <1>4, PassedOwn

LEMMA RowsPassedStep ==
    TypeOK /\ InBounds /\ NothingLeftBehind /\ RowsPassed /\ [Next]_vars => RowsPassed'
<1> SUFFICES ASSUME TypeOK, InBounds, NothingLeftBehind, RowsPassed, [Next]_vars
             PROVE  RowsPassed'
  OBVIOUS
<1>1. ASSUME NEW r \in Request, Progress(r) \/ Failure(r) PROVE RowsPassed'
  <2> SUFFICES ASSUME NEW p \in Request, Healthy(p)'
               PROVE  /\ \A i \in 1..Inserted(p)' : Cart(p)'[i].watch \in Watch
                      /\ \A w \in Watch :
                            lockedBy'[w] = p => \E i \in 1..Taken(p)' : Cart(p)'[i].watch = w
                      /\ pc'[p] \in {"findCustomer", "newCustomer"} =>
                            \A e \in Email : lockedBy'[e] # p
    BY DEF RowsPassed
  <2>1. req' = req /\ Cart(p)' = Cart(p)
    BY <1>1, Frame DEF Cart
  <2>2. CASE p = r
    <3>1. /\ \A i \in 1..Inserted(r)' : Cart(r)[i].watch \in Watch
          /\ \A w \in Watch :
                lockedBy'[w] = r => \E i \in 1..Taken(r)' : Cart(r)[i].watch = w
          /\ pc'[r] \in {"findCustomer", "newCustomer"} =>
                \A e \in Email : lockedBy'[e] # r
      BY <1>1, <2>2, RowsPassedOwn
    <3> QED BY <2>1, <2>2, <3>1
  <2>3. CASE p # r
    <3>1. /\ pc'[p] = pc[p] /\ line'[p] = line[p] /\ Healthy(p)
          /\ \A w \in Watch : lockedBy'[w] = p => lockedBy[w] = p
      BY <1>1, <2>3, <2>1, Frame, AbsentAssumption DEF Healthy
    <3>2. Inserted(p)' = Inserted(p) /\ Taken(p)' = Taken(p)
      BY <2>1, <3>1 DEF Inserted, Taken, IsOrder, IsCheckout
    <3>3. \A e \in Email : lockedBy'[e] = p => lockedBy[e] = p
      BY <1>1, <2>3, EmailFrame, AbsentAssumption
    <3> QED BY <2>1, <3>1, <3>2, <3>3 DEF RowsPassed
  <2> QED BY <2>2, <2>3
<1>2. CASE Crash
  <2> SUFFICES ASSUME NEW p \in Request, Healthy(p)'
               PROVE  /\ \A i \in 1..Inserted(p)' : Cart(p)'[i].watch \in Watch
                      /\ \A w \in Watch :
                            lockedBy'[w] = p => \E i \in 1..Taken(p)' : Cart(p)'[i].watch = w
                      /\ pc'[p] \in {"findCustomer", "newCustomer"} =>
                            \A e \in Email : lockedBy'[e] # p
    BY DEF RowsPassed
  <2>1. /\ UNCHANGED <<req, line, lockedBy>> /\ Cart(p)' = Cart(p)
        /\ pc[p] \in {"commit", "inFlight"} /\ pc'[p] = "inFlight" /\ Healthy(p)
    BY <1>2 DEF Crash, database, Healthy, InTx, InBounds, TypeOK, Cart
  <2>2. Inserted(p)' = Inserted(p) /\ Taken(p)' = Taken(p)
    BY <2>1 DEF Inserted, Taken, IsOrder, IsCheckout
  <2> QED BY <2>1, <2>2 DEF RowsPassed
<1>3. CASE UNCHANGED vars
  BY <1>3 DEF vars, RowsPassed, Healthy, Inserted, Taken, Cart, IsOrder, IsCheckout
<1> QED BY <1>1, <1>2, <1>3 DEF Next

\* A cart follows the ranks: no line of it has a watch of a lower rank than a
\* line before it.
Follows(cart, rank) ==
    \A i, j \in 1..Len(cart) : i <= j => rank[cart[i].watch] <= rank[cart[j].watch]

\* In a cycle every member holds the row that another one waits for, so it has
\* passed that row's line; the member whose wanted row has the least rank
\* cannot have passed a row of a lesser rank.
LEMMA NoCycle ==
    ASSUME NEW rank \in [WatchId -> Nat],
           \A v, w \in Watch : rank[v] = rank[w] => v = w,
           \A body \in Body : body.kind # "setStock" => Follows(body.cart, rank),
           TypeOK, InBounds, NothingLeftBehind, RowsPassed
    PROVE  NoLockCycle
<1> SUFFICES ASSUME NEW cycle \in SUBSET Request, cycle # {}, Deadlocked(cycle)
             PROVE  FALSE
  BY DEF NoLockCycle
<1>1. /\ \A p \in cycle : Blocked(p)
      /\ {lockedBy[Wanted(p)] : p \in cycle} = cycle
  BY DEF Deadlocked
\* Every member is at the UPDATE of a row of the table.
<1>2. ASSUME NEW p \in cycle
      PROVE  /\ Healthy(p) /\ req[p].kind # "setStock"
             /\ pc[p] \in {"newCustomer", "takeStock"}
             /\ line[p] \in 1..Len(Cart(p)) /\ Len(Cart(p)) \in Nat
  BY <1>1, BodyFields DEF Blocked, InBounds, Healthy, InTx
<1>3. ASSUME NEW p \in cycle, pc[p] = "takeStock"
      PROVE  Wanted(p) = Cart(p)[line[p]].watch /\ Wanted(p) \in Watch
  <2>1. Wanted(p) = Cart(p)[line[p]].watch
    BY <1>3 DEF Wanted, Item
  <2>2. IsOrder(p) \/ IsCheckout(p)
    BY <1>2, BodyFields DEF IsOrder, IsCheckout
  <2>3. line[p] \in 1..Inserted(p)
    BY <1>2, <1>3, <2>2, CountsHold DEF Counts
  <2> QED BY <1>2, <2>1, <2>3 DEF RowsPassed
<1>4. ASSUME NEW p \in cycle PROVE Wanted(p) \in Watch \cup Email
  <2>1. pc[p] = "newCustomer" => Wanted(p) \in Email
    BY BodyFields DEF Wanted
  <2> QED BY <1>2, <1>3, <2>1
<1>5. ASSUME NEW p \in cycle PROVE pc[p] = "takeStock"
  <2>1. PICK q \in cycle : lockedBy[Wanted(q)] = p
    BY <1>1
  <2>2. SUFFICES ASSUME pc[p] = "newCustomer" PROVE FALSE
    BY <1>2
  <2>3. Taken(p) = 0
    BY <2>2 DEF Taken
  <2>4. \A w \in Watch : lockedBy[w] # p
    BY <1>2, <2>3 DEF RowsPassed
  <2>5. \A e \in Email : lockedBy[e] # p
    BY <1>2, <2>2 DEF RowsPassed
  <2> QED BY <1>4, <2>1, <2>4, <2>5
\* The ranks of the wanted rows have no least element.
<1>6. ASSUME NEW p \in cycle
      PROVE  \E q \in cycle : rank[Wanted(q)] < rank[Wanted(p)]
  <2>1. PICK q \in cycle : lockedBy[Wanted(q)] = p
    BY <1>1
  <2>2. Taken(p) = line[p] - 1
    <3>1. IsOrder(p) \/ IsCheckout(p)
      BY <1>2, BodyFields DEF IsOrder, IsCheckout
    <3> QED BY <3>1, <1>5, CountsHold DEF Counts
  <2>3. PICK i \in 1..(line[p] - 1) : Cart(p)[i].watch = Wanted(q)
    BY <1>2, <1>3, <1>5, <2>1, <2>2 DEF RowsPassed
  <2>4. Follows(Cart(p), rank)
    BY <1>2 DEF TypeOK, Cart
  <2>5. i \in 1..Len(Cart(p)) /\ i <= line[p]
    BY <1>2, <2>3
  <2>6. rank[Wanted(q)] <= rank[Wanted(p)]
    BY <1>2, <1>3, <1>5, <2>3, <2>4, <2>5 DEF Follows
  <2>7. Wanted(q) # Wanted(p)
    BY <1>1, <2>1 DEF Blocked
  <2>8. /\ Wanted(p) \in Watch /\ Wanted(q) \in Watch
        /\ rank[Wanted(p)] \in Nat /\ rank[Wanted(q)] \in Nat
    BY <1>3, <1>5, StoreAssumption
  <2> QED BY <2>6, <2>7, <2>8
<1> DEFINE ranks == {rank[Wanted(p)] : p \in cycle}
<1>7. ranks \in SUBSET Nat /\ ranks # {}
  BY <1>3, <1>5, StoreAssumption
<1> HIDE DEF ranks
<1>8. PICK m \in ranks : \A n \in ranks : m <= n
  BY <1>7, LeastElement
<1>9. PICK p \in cycle : m = rank[Wanted(p)]
  BY <1>8 DEF ranks
<1>10. PICK q \in cycle : rank[Wanted(q)] < m
  BY <1>6, <1>9
<1>11. rank[Wanted(q)] \in ranks
  BY DEF ranks
<1>12. rank[Wanted(q)] \in Nat /\ m \in Nat
  BY <1>7, <1>8, <1>11
<1> QED BY <1>8, <1>10, <1>11, <1>12

\* When every cart lists its watches in one order of the catalogue (a watch may
\* be listed twice), no set of transactions ever waits for each other, however
\* many requests, connections, failures and restarts there are.
THEOREM SortedCarts ==
    ASSUME NEW rank \in [WatchId -> Nat],
           \A v, w \in Watch : rank[v] = rank[w] => v = w,
           \A body \in Body : body.kind # "setStock" => Follows(body.cart, rank)
    PROVE  Spec => []NoLockCycle
<1>1. Init => RowsPassed
  BY DEF Init, RowsPassed, Healthy, InTx
<1>2. TypeOK /\ InBounds /\ NothingLeftBehind /\ RowsPassed /\ [Next]_vars => RowsPassed'
  BY RowsPassedStep
<1>3. TypeOK /\ InBounds /\ NothingLeftBehind /\ RowsPassed => NoLockCycle
  BY NoCycle
<1> QED BY <1>1, <1>2, <1>3, TypeCorrect, Clean, PTL DEF Spec

-----------------------------------------------------------------------------
(* The checkouts that were checked and have not sold yet.                   *)

\* The statements of a checkout after its first loop and up to COMMIT.
Checked == {"insertOrder", "insertItem", "takeStock", "recordMovement", "invoice",
            "commit"}

\* The units a checkout has found in stock and has not sold yet.
Owed(r) ==
    IF ~IsCheckout(r) THEN NoUnits
    ELSE CASE pc[r] = "checkLine" -> UnitsUpTo(Cart(r))[line[r] - 1]
           [] pc[r] \in Checked   -> Units(Cart(r))
           [] OTHER               -> NoUnits

Owes(w) == [r \in Request |-> Owed(r)[w]]
Ordered(w) == [r \in Request |-> IF IsOrder(r) THEN placed[r].items[w] ELSE 0]

\* No checkout asks for more than q units of w in a line.
LineBound(w, q) ==
    \A r \in Request : IsCheckout(r) =>
        \A i \in 1..Len(Cart(r)) : Cart(r)[i].watch = w => Cart(r)[i].qty <= q

\* The server has not restarted, and its pool has PoolSize connections.
Serving == /\ Cardinality(conn) <= PoolSize
           /\ \A r \in Request : pc[r] \notin {"orphan", "inFlight", "lost"}

\* What is left of the stock when the unchecked orders are given back and all
\* that is owed is sold: short by at most one line of each other connection.
Covered ==
    \A w \in Watch : \A q \in Nat :
        LineBound(w, q) =>
            stock[w] + SumOf(Ordered(w)) - SumOf(Owes(w)) >= -((PoolSize - 1) * q)

\* A cart that lists no watch twice.
Once(cart) == \A i, j \in 1..Len(cart) : cart[i].watch = cart[j].watch => i = j

\* Of such a cart, the first k lines hold one line's units of a watch or none.
LEMMA OneLine ==
    ASSUME TypeOK, NEW r \in Request, Once(Cart(r)), NEW w \in Watch
    PROVE  \A k \in 0..Len(Cart(r)) :
              IF \E i \in 1..k : Cart(r)[i].watch = w
              THEN \E i \in 1..k : /\ Cart(r)[i].watch = w
                                   /\ UnitsUpTo(Cart(r))[k][w] = Cart(r)[i].qty
              ELSE UnitsUpTo(Cart(r))[k][w] = 0
<1> DEFINE cart == Cart(r)
           n == Len(cart)
           U == UnitsUpTo(cart)
           Has(k) == \E i \in 1..k : cart[i].watch = w
           Right(k) == IF Has(k) THEN \E i \in 1..k : cart[i].watch = w /\ U[k][w] = cart[i].qty
                                 ELSE U[k][w] = 0
           S == {k \in Nat : k <= n => Right(k)}
<1>1. /\ n \in Nat /\ U[0] = NoUnits
      /\ \A k \in 0..n : U[k] \in [Watch -> Nat]
      /\ \A k \in 1..n : cart[k].qty \in Nat
      /\ \A k \in 1..n : U[k][w] = U[k - 1][w] + (IF w = cart[k].watch THEN cart[k].qty ELSE 0)
  <2>1. /\ n \in Nat /\ U[0] = NoUnits
        /\ \A k \in 0..n : U[k] \in [Watch -> Nat]
        /\ \A k \in 1..n :
              /\ cart[k].qty \in Nat
              /\ U[k] = [U[k - 1] EXCEPT ![cart[k].watch] = @ + cart[k].qty]
              /\ \A v \in Watch : U[k][v] = U[k - 1][v] +
                    (IF v = cart[k].watch THEN cart[k].qty ELSE 0)
    BY CartUnits
  <2> HIDE DEF cart, U, n
  <2> QED BY <2>1
<1>2. \A i, j \in 1..n : cart[i].watch = cart[j].watch => i = j
  BY DEF Once
<1> HIDE DEF cart, U, n
<1>3. 0 \in S
  BY <1>1 DEF NoUnits
<1>4. ASSUME NEW k \in Nat, k \in S PROVE k + 1 \in S
  <2>1. SUFFICES ASSUME k + 1 <= n PROVE Right(k + 1)
    OBVIOUS
  <2>2. /\ Right(k) /\ k + 1 \in 1..n /\ k \in 0..n /\ (k + 1) - 1 = k
        /\ \A i \in 1..k : i \in 1..n /\ i # k + 1
        /\ \A i \in 1..(k + 1) : i \in 1..k \/ i = k + 1
        /\ \A i \in 1..k : i \in 1..(k + 1)
        /\ k + 1 \in 1..(k + 1)
    BY <1>1, <1>4, <2>1
  <2>3. U[k + 1][w] = U[k][w] + (IF w = cart[k + 1].watch THEN cart[k + 1].qty ELSE 0)
    BY <1>1, <2>2
  <2>4. U[k][w] \in Nat /\ cart[k + 1].qty \in Nat
    BY <1>1, <2>2
  <2>5. CASE cart[k + 1].watch = w
    <3>1. ~Has(k)
      BY <1>2, <2>2, <2>5
    <3>2. U[k][w] = 0
      BY <2>2, <3>1
    <3>3. U[k + 1][w] = cart[k + 1].qty
      BY <2>3, <2>4, <2>5, <3>2
    <3>4. Has(k + 1)
      BY <2>2, <2>5
    <3> QED BY <2>2, <2>5, <3>3, <3>4
  <2>6. CASE cart[k + 1].watch # w
    <3>1. U[k + 1][w] = U[k][w]
      BY <2>3, <2>4, <2>6
    <3>2. Has(k + 1) <=> Has(k)
      BY <2>2, <2>6
    <3> QED BY <2>2, <3>1, <3>2
  <2> QED BY <2>5, <2>6
<1>5. Nat \subseteq S
  <2> HIDE DEF S
  <2> QED BY <1>3, <1>4, SetInduction
<1>6. \A k \in 0..n : Right(k)
  BY <1>1, <1>5
<1> QED BY <1>6 DEF cart, U, n

\* What is owed is counted in units, is at most one line, and nothing is owed
\* without a connection.
LEMMA OwedBounded ==
    ASSUME TypeOK, InBounds, NothingLeftBehind, NEW r \in Request,
           IsCheckout(r) => Once(Cart(r)), NEW w \in Watch
    PROVE  /\ Owed(r)[w] \in Nat
           /\ \A q \in Nat : LineBound(w, q) => Owed(r)[w] <= q
           /\ r \notin conn => Owed(r)[w] = 0
<1> DEFINE U == UnitsUpTo(Cart(r))
           n == Len(Cart(r))
<1>1. /\ n \in Nat
      /\ pc[r] \in InTx => line[r] \in 1..n
      /\ \A k \in 0..n : U[k] \in [Watch -> Nat]
      /\ \A i \in 1..n : Cart(r)[i].qty \in Nat
  BY CartUnits DEF InBounds
<1>2. CASE /\ IsCheckout(r)
           /\ pc[r] \in Checked \cup {"checkLine"}
  <2>1. PICK k \in 0..n : Owed(r) = U[k]
    <3>1. CASE pc[r] = "checkLine"
      <4>1. line[r] - 1 \in 0..n
        BY <1>1, <3>1 DEF InTx
      <4>2. Owed(r) = U[line[r] - 1]
        BY <1>2, <3>1 DEF Owed, Checked
      <4> HIDE DEF U
      <4> QED BY <4>1, <4>2
    <3>2. CASE pc[r] # "checkLine"
      <4>1. Owed(r) = U[n]
        BY <1>2, <3>2 DEF Owed, Units
      <4> HIDE DEF U
      <4> QED BY <1>1, <4>1
    <3> QED BY <3>1, <3>2
  <2>2. \/ \E i \in 1..k : Cart(r)[i].watch = w /\ U[k][w] = Cart(r)[i].qty
        \/ U[k][w] = 0
    BY <1>2, OneLine
  <2>3. \A i \in 1..k : i \in 1..n
    BY <1>1
  <2>4. r \in conn
    BY <1>2 DEF NothingLeftBehind, Checked, InTx
  <2>5. U[k][w] \in Nat
    BY <1>1
  <2>6. \A q \in Nat : LineBound(w, q) => U[k][w] <= q
    <3> SUFFICES ASSUME NEW q \in Nat, LineBound(w, q) PROVE U[k][w] <= q
      OBVIOUS
    <3>1. \A i \in 1..n : Cart(r)[i].watch = w => Cart(r)[i].qty <= q
      BY <1>2 DEF LineBound
    <3> HIDE DEF U, n
    <3> QED BY <2>2, <2>3, <3>1
  <2> HIDE DEF U
  <2> QED BY <2>1, <2>4, <2>5, <2>6
<1>3. CASE ~IsCheckout(r) \/ pc[r] \notin Checked \cup {"checkLine"}
  <2>1. Owed(r) = NoUnits
    BY <1>3 DEF Owed
  <2> QED BY <2>1 DEF NoUnits
<1> QED BY <1>2, <1>3

\* Where a step takes its handler, as far as what it owes is concerned.
LEMMA OwingMoves ==
    ASSUME TypeOK, InBounds, Serving, NEW r \in Request, Progress(r) \/ Failure(r)
    PROVE  \/ pc'[r] \notin Checked \cup {"checkLine"}
           \/ ~IsCheckout(r)
           \/ pc'[r] = "checkLine" /\ line'[r] = 1
           \/ pc[r] \in Checked /\ pc'[r] \in Checked
           \/ /\ pc[r] = "checkLine" /\ database' = database
              /\ Item(r).watch \in Watch /\ ~Insufficient(r)
              /\ \/ pc'[r] = "checkLine" /\ line'[r] = line[r] + 1
                 \/ pc'[r] = "insertOrder" /\ line[r] = Len(Cart(r))
<1> USE DEF TypeOK, InTx, Checked, Goto, Leave
<1>1. CASE Progress(r)
  <2>1. CASE RejectBody(r) \/ Rollback(r) \/ SetStock(r) \/ Respond(r) \/ BreakDeadlock(r)
             \/ BackendAborts(r) \/ Commit(r)
    BY <2>1 DEF RejectBody, Rollback, SetStock, Respond, BreakDeadlock, BackendAborts,
                Commit
  <2>2. CASE Connect(r)
    BY <2>2 DEF Connect, IsCheckout, IsOrder
  <2>3. CASE FindCustomer(r) \/ NewCustomer(r)
    BY <2>3 DEF FindCustomer, NewCustomer
  <2>4. CASE CheckLine(r)
    BY <2>4 DEF CheckLine, Refuse, LastLine
  <2>5. CASE InsertOrder(r) \/ InsertItem(r) \/ TakeStock(r) \/ RecordMovement(r)
             \/ InsertInvoice(r)
    BY <2>5 DEF InsertOrder, InsertItem, TakeStock, RecordMovement, InsertInvoice
  <2> QED BY <1>1, <2>1, <2>2, <2>3, <2>4, <2>5 DEF Progress
<1>2. CASE Failure(r)
  BY <1>2 DEF Failure, ConnectFails, StatementFails, ConnectionBreaks, CommitUnacked,
              BackendFinishes
<1> QED BY <1>1, <1>2

\* A step of a handler leaves what it owes, gives it up, or finds one more line
\* in stock.
LEMMA OwingSteps ==
    ASSUME TypeOK, InBounds, Serving, NEW r \in Request, Progress(r) \/ Failure(r),
           IsCheckout(r) => Once(Cart(r)), NEW w \in Watch
    PROVE  \/ Owed(r)'[w] = 0
           \/ Owed(r)'[w] = Owed(r)[w]
           \/ /\ pc[r] = "checkLine" /\ database' = database
              /\ Owed(r)'[w] = Item(r).qty /\ Item(r).qty <= stock[w]
<1> DEFINE U == UnitsUpTo(Cart(r))
           n == Len(Cart(r))
<1>1. /\ n \in Nat /\ U[0] = NoUnits
      /\ \A k \in 0..n : U[k] \in [Watch -> Nat]
      /\ \A k \in 1..n : /\ Cart(r)[k].qty \in Nat
                         /\ U[k][w] = U[k - 1][w] + (IF w = Cart(r)[k].watch
                                                     THEN Cart(r)[k].qty ELSE 0)
  <2>1. /\ n \in Nat /\ U[0] = NoUnits
        /\ \A k \in 0..n : U[k] \in [Watch -> Nat]
        /\ \A k \in 1..n :
              /\ Cart(r)[k].qty \in Nat
              /\ U[k] = [U[k - 1] EXCEPT ![Cart(r)[k].watch] = @ + Cart(r)[k].qty]
              /\ \A v \in Watch : U[k][v] = U[k - 1][v] +
                    (IF v = Cart(r)[k].watch THEN Cart(r)[k].qty ELSE 0)
    BY CartUnits
  <2> HIDE DEF U, n
  <2> QED BY <2>1
<1>2. req' = req
  BY Frame
<1>3. IsCheckout(r)' = IsCheckout(r) /\ Cart(r)' = Cart(r)
  BY <1>2 DEF IsCheckout, Cart
<1>4. U' = U
  BY <1>3 DEF UnitsUpTo, NoUnits
<1>5. Units(Cart(r))' = U[n]
  BY <1>3 DEF Units, UnitsUpTo, NoUnits
<1>6. NoUnits[w] = 0 /\ NoUnits' = NoUnits
  BY DEF NoUnits
<1>7. Owed(r)' = IF ~IsCheckout(r) THEN NoUnits
                 ELSE CASE pc'[r] = "checkLine" -> U[line'[r] - 1]
                        [] pc'[r] \in Checked   -> U[n]
                        [] OTHER                -> NoUnits
  BY <1>3, <1>4, <1>5, <1>6 DEF Owed, Checked
<1>8. Owed(r) = IF ~IsCheckout(r) THEN NoUnits
                ELSE CASE pc[r] = "checkLine" -> U[line[r] - 1]
                       [] pc[r] \in Checked   -> U[n]
                       [] OTHER               -> NoUnits
  BY DEF Owed, Units
<1> HIDE DEF U, n
<1>10. CASE pc'[r] \notin Checked \cup {"checkLine"}
  BY <1>6, <1>7, <1>10
<1>11. CASE ~IsCheckout(r)
  BY <1>6, <1>7, <1>11
<1>12. CASE pc'[r] = "checkLine" /\ line'[r] = 1
  <2>1. 1 - 1 = 0
    OBVIOUS
  <2>2. Owed(r)' = NoUnits
    BY <1>1, <1>7, <1>12, <2>1 DEF Checked
  <2> QED BY <1>6, <2>2
<1>13. CASE pc[r] \in Checked /\ pc'[r] \in Checked
  BY <1>7, <1>8, <1>13 DEF Checked
<1>14. CASE /\ pc[r] = "checkLine" /\ database' = database
            /\ Item(r).watch \in Watch /\ ~Insufficient(r)
            /\ \/ pc'[r] = "checkLine" /\ line'[r] = line[r] + 1
               \/ pc'[r] = "insertOrder" /\ line[r] = Len(Cart(r))
  <2>1. IsCheckout(r) /\ line[r] \in 1..n
    BY <1>14 DEF InBounds, InTx, n
  <2>2. Owed(r)' = U[line[r]]
    <3>1. CASE pc'[r] = "checkLine" /\ line'[r] = line[r] + 1
      <4>1. line'[r] - 1 = line[r]
        BY <2>1, <3>1
      <4> QED BY <1>7, <2>1, <3>1, <4>1 DEF Checked
    <3>2. CASE pc'[r] = "insertOrder" /\ line[r] = Len(Cart(r))
      BY <1>7, <2>1, <3>2 DEF Checked, n
    <3> QED BY <1>14, <3>1, <3>2
  <2>3. Owed(r) = U[line[r] - 1]
    BY <1>8, <1>14, <2>1 DEF Checked
  <2>4. line[r] - 1 \in 0..n /\ line[r] \in 0..n
    BY <1>1, <2>1
  <2>5. U[line[r] - 1][w] \in Nat /\ U[line[r]][w] \in Nat
    BY <1>1, <2>4
  <2>6. U[line[r]][w] = U[line[r] - 1][w] + (IF w = Item(r).watch THEN Item(r).qty ELSE 0)
    BY <1>1, <2>1 DEF Item
  <2>7. CASE w # Item(r).watch
    BY <2>2, <2>3, <2>5, <2>6, <2>7
  <2>8. CASE w = Item(r).watch
    <3>1. \E i \in 1..line[r] : Cart(r)[i].watch = w /\ U[line[r]][w] = Cart(r)[i].qty
      <4>1. line[r] \in 1..line[r]
        BY <2>1
      <4>2. \E i \in 1..line[r] : Cart(r)[i].watch = w
        BY <2>8, <4>1 DEF Item
      <4> QED BY <2>1, <2>4, <4>2, OneLine DEF U, n
    <3>2. \A i \in 1..line[r] : i \in 1..n
      BY <1>1, <2>1
    <3>3. U[line[r]][w] = Item(r).qty
      BY <2>1, <2>8, <3>1, <3>2 DEF Once, Item, n
    <3>4. Item(r).qty <= stock[w]
      <4>1. Item(r).qty \in Nat /\ stock[w] \in Int
        BY <1>1, <2>1 DEF TypeOK, Item
      <4>2. ~(stock[w] < Item(r).qty)
        BY <1>14, <2>8 DEF Insufficient
      <4> QED BY <4>1, <4>2
    <3> QED BY <1>14, <2>2, <3>3, <3>4
  <2> QED BY <2>7, <2>8
<1> QED BY <1>10, <1>11, <1>12, <1>13, <1>14, OwingMoves

\* The tables of units the sums are taken of.
LEMMA SumsTyped ==
    ASSUME TypeOK, InBounds, NothingLeftBehind, IsFiniteSet(Request),
           \A r \in Request : IsCheckout(r) => Once(Cart(r)), NEW w \in Watch
    PROVE  /\ Ordered(w) \in [Request -> Nat] /\ SumOf(Ordered(w)) \in Nat
           /\ Owes(w) \in [Request -> Nat] /\ SumOf(Owes(w)) \in Nat
<1>1. Ordered(w) \in [Request -> Nat]
  <2>1. \A r \in Request : placed[r].items[w] \in Nat
    BY DEF TypeOK, Rows
  <2> QED BY <2>1 DEF Ordered
<1>2. Owes(w) \in [Request -> Nat]
  <2>1. \A r \in Request : Owed(r)[w] \in Nat
    BY OwedBounded
  <2> QED BY <2>1 DEF Owes
<1> QED BY <1>1, <1>2, SumNatural

\* What all but one request with a connection owe.
LEMMA OthersOwe ==
    ASSUME TypeOK, InBounds, NothingLeftBehind, Serving, IsFiniteSet(Request),
           \A r \in Request : IsCheckout(r) => Once(Cart(r)), NEW w \in Watch,
           NEW q \in Nat, LineBound(w, q), NEW r \in conn
    PROVE  SumOf([Owes(w) EXCEPT ![r] = 0]) <= (PoolSize - 1) * q
<1> DEFINE rest == [Owes(w) EXCEPT ![r] = 0]
           A == conn \ {r}
<1>1. r \in Request /\ A \in SUBSET Request /\ conn \in SUBSET Request
  BY DEF TypeOK
<1>2. Owes(w) \in [Request -> Nat] /\ \A p \in Request : Owes(w)[p] = Owed(p)[w]
  BY SumsTyped DEF Owes
<1>3. rest \in [Request -> Int]
  BY <1>1, <1>2
<1>4. ASSUME NEW p \in Request PROVE rest[p] <= IF p \in A THEN q ELSE 0
  <2>1. CASE p = r
    BY <1>2, <2>1
  <2>2. CASE p # r
    <3>1. rest[p] = Owed(p)[w]
      BY <1>2, <2>2
    <3>2. Owed(p)[w] \in Nat /\ Owed(p)[w] <= q /\ (p \notin conn => Owed(p)[w] = 0)
      BY OwedBounded
    <3> QED BY <2>2, <3>1, <3>2
  <2> QED BY <2>1, <2>2
<1> HIDE DEF rest, A
<1>5. SumOf(rest) <= Cardinality(A) * q /\ SumOf(rest) \in Int
  <2>1. SumOf(rest) <= Cardinality(A) * q
    BY <1>1, <1>3, <1>4, SumBound
  <2>2. SumOf(rest) \in Int
    BY <1>3, SumMonotone
  <2> QED BY <2>1, <2>2
<1>6. Cardinality(A) \in Nat /\ Cardinality(A) <= PoolSize - 1
  <2>1. IsFiniteSet(conn)
    BY <1>1, FS_Subset
  <2>2. Cardinality(A) = Cardinality(conn) - 1
    BY <2>1, FS_RemoveElement DEF A
  <2>3. Cardinality(conn) \in Nat /\ Cardinality(A) \in Nat
    BY <1>1, <2>1, FS_Subset, FS_CardinalityType
  <2> QED BY <2>2, <2>3, LimitAssumption DEF Serving
<1>7. PoolSize - 1 \in Nat
  BY LimitAssumption
<1>8. Cardinality(A) * q <= (PoolSize - 1) * q
  <2>1. \A a, b \in Nat : a <= b => a * q <= b * q
    OBVIOUS
  <2> QED BY <1>6, <1>7, <2>1
<1>9. Cardinality(A) * q \in Int /\ (PoolSize - 1) * q \in Int
  BY <1>6, <1>7
<1> QED BY <1>5, <1>8, <1>9 DEF rest

\* What a step of a handler does to the stock, as far as the ledger of what was
\* promised is concerned.
LEMMA StockSteps ==
    ASSUME TypeOK, InBounds, Serving, NEW r \in Request, Progress(r) \/ Failure(r)
    PROVE  \/ /\ pc[r] = "commit" /\ pc'[r] = "respond"
              /\ req[r].kind # "setStock"
              /\ CommitTx(r)
           \/ /\ pc[r] = "setStock" /\ UNCHANGED placed
              /\ req[r].watch \in Watch
              /\ stock' = [stock EXCEPT ![req[r].watch] = req[r].level]
           \/ UNCHANGED <<placed, stock>>
<1> USE DEF TypeOK, InBounds, InTx, Goto, Leave, database, committed, Serving
<1>1. CASE Progress(r)
  <2>1. CASE RejectBody(r) \/ Connect(r) \/ FindCustomer(r) \/ NewCustomer(r)
             \/ CheckLine(r) \/ InsertOrder(r) \/ InsertItem(r) \/ TakeStock(r)
             \/ RecordMovement(r) \/ InsertInvoice(r) \/ Respond(r) \/ BreakDeadlock(r)
    BY <2>1 DEF RejectBody, Connect, FindCustomer, NewCustomer, CheckLine, InsertOrder,
                InsertItem, TakeStock, RecordMovement, InsertInvoice, Respond,
                BreakDeadlock
  <2>2. CASE Rollback(r) \/ BackendAborts(r)
    BY <2>2 DEF Rollback, BackendAborts, AbortTx
  <2>3. CASE Commit(r)
    BY <2>3 DEF Commit
  <2>4. CASE SetStock(r)
    BY <2>4 DEF SetStock, WriteLevel
  <2> QED BY <1>1, <2>1, <2>2, <2>3, <2>4 DEF Progress
<1>2. CASE Failure(r)
  <2>1. CASE ConnectFails(r) \/ StatementFails(r)
    BY <2>1 DEF ConnectFails, StatementFails
  <2>2. CASE ConnectionBreaks(r)
    BY <2>2 DEF ConnectionBreaks, AbortTx
  <2>3. CASE CommitUnacked(r)
    BY <2>3 DEF CommitUnacked
  <2>4. CASE BackendFinishes(r)
    BY <2>4 DEF BackendFinishes
  <2> QED BY <1>2, <2>1, <2>2, <2>3, <2>4 DEF Failure
<1> QED BY <1>1, <1>2

\* A step of a handler keeps the stock covered.
LEMMA CoveredOwn ==
    ASSUME TypeOK, InBounds, NothingLeftBehind, Bookkeeping, PlacedLate, Serving, Covered,
           IsFiniteSet(Request), \A r \in Request : IsCheckout(r) => Once(Cart(r)),
           NEW r \in Request, Progress(r) \/ Failure(r),
           NEW w \in Watch, NEW q \in Nat, LineBound(w, q)'
    PROVE  (stock[w] + SumOf(Ordered(w)) - SumOf(Owes(w)))' >= -((PoolSize - 1) * q)
<1> DEFINE o1 == Owes(w)
           o2 == [p \in Request |-> Owed(p)'[w]]
           s1 == Ordered(w)
           s2 == [p \in Request |-> IF IsOrder(p)' THEN placed'[p].items[w] ELSE 0]
           rest == [o1 EXCEPT ![r] = 0]
           B == (PoolSize - 1) * q
<1>1. /\ req' = req
      /\ \A p \in Request \ {r} : pc'[p] = pc[p] /\ line'[p] = line[p] /\ placed'[p] = placed[p]
  BY Frame
<1>2. LineBound(w, q)
  BY <1>1 DEF LineBound, IsCheckout, Cart
<1>3. \A p \in Request : /\ IsOrder(p)' = IsOrder(p) /\ IsCheckout(p)' = IsCheckout(p)
                         /\ Cart(p)' = Cart(p)
  BY <1>1 DEF IsOrder, IsCheckout, Cart
<1>4. /\ o1 \in [Request -> Nat] /\ SumOf(o1) \in Nat
      /\ s1 \in [Request -> Nat] /\ SumOf(s1) \in Nat
      /\ stock[w] \in Int
      /\ \A p \in Request : o1[p] = Owed(p)[w]
      /\ \A p \in Request : s1[p] = IF IsOrder(p) THEN placed[p].items[w] ELSE 0
  BY SumsTyped DEF TypeOK, Owes, Ordered
<1>5. \A p \in Request \ {r} : Owed(p)'[w] = Owed(p)[w]
  <2> SUFFICES ASSUME NEW p \in Request \ {r} PROVE Owed(p)' = Owed(p)
    OBVIOUS
  <2>1. /\ UnitsUpTo(Cart(p))' = UnitsUpTo(Cart(p)) /\ Units(Cart(p))' = Units(Cart(p))
        /\ NoUnits' = NoUnits
    BY <1>3 DEF UnitsUpTo, Units, NoUnits
  <2> QED BY <1>1, <1>3, <2>1 DEF Owed
<1>6. stock[w] + SumOf(s1) - SumOf(o1) >= -B
  BY <1>2 DEF Covered
<1>7. B \in Nat
  BY LimitAssumption
<1>8. o2[r] \in Nat
  <2>1. Owed(r)[w] \in Nat
    BY OwedBounded
  <2>2. pc[r] = "checkLine" => Item(r).qty \in Nat
    BY CartUnits DEF InBounds, InTx, Item
  <2>3. o2[r] = Owed(r)'[w]
    OBVIOUS
  <2> HIDE DEF o2
  <2> QED BY <2>1, <2>2, <2>3, OwingSteps
<1>9. o2 \in [Request -> Int] /\ \A p \in Request \ {r} : o2[p] = o1[p]
  <2>1. \A p \in Request \ {r} : o2[p] = o1[p] /\ o1[p] \in Nat
    BY <1>4, <1>5
  <2>2. \A p \in Request : o2[p] \in Int
    BY <1>8, <2>1
  <2> QED BY <2>1, <2>2
<1>10. s2[r] \in Nat /\ \A p \in Request \ {r} : s2[p] = s1[p]
  <2>1. \A p \in Request \ {r} : s2[p] = s1[p]
    BY <1>1, <1>3, <1>4
  <2>2. placed'[r] = placed[r] \/ placed'[r] = tx[r]
    <3>1. CommitTx(r) => placed'[r] = tx[r]
      BY DEF CommitTx, TypeOK
    <3> QED BY <3>1, StockSteps
  <2>3. placed'[r].items[w] \in Nat
    BY <2>2 DEF TypeOK, Rows
  <2> QED BY <2>1, <2>3
<1>11. s2 \in [Request -> Int]
  <2>1. \A p \in Request \ {r} : s2[p] \in Nat
    BY <1>4, <1>10
  <2>2. \A p \in Request : s2[p] \in Int
    BY <1>10, <2>1
  <2> QED BY <2>2
<1>12. Owes(w)' = o2 /\ Ordered(w)' = s2
  BY DEF Owes, Ordered
<1>13. SumOf(Owes(w))' = SumOf(o2) /\ SumOf(Ordered(w))' = SumOf(s2)
  <2> HIDE DEF o2, s2
  <2> QED BY <1>12 DEF SumOf, Listing
<1>14. o2[r] = Owed(r)'[w] /\ s2[r] = IF IsOrder(r) THEN placed'[r].items[w] ELSE 0
  BY <1>3
<1> HIDE DEF o1, o2, s1, s2, B
<1>15. SumOf(o2) = SumOf(o1) + (o2[r] - o1[r]) /\ SumOf(s2) = SumOf(s1) + (s2[r] - s1[r])
  <2>1. o1 \in [Request -> Int] /\ s1 \in [Request -> Int]
    BY <1>4
  <2> QED BY <1>9, <1>10, <1>11, <2>1, SumChange
<1>16. SumOf(o1) = SumOf(rest) + o1[r] /\ SumOf(rest) \in Int
  <2>1. /\ rest \in [Request -> Int] /\ o1 \in [Request -> Int] /\ rest[r] = 0
        /\ \A p \in Request \ {r} : o1[p] = rest[p]
    BY <1>4
  <2> HIDE DEF rest
  <2>2. SumOf(o1) = SumOf(rest) + (o1[r] - rest[r])
    BY <2>1, SumChange
  <2>3. SumOf(rest) \in Int
    BY <2>1, SumMonotone
  <2>4. o1[r] \in Int
    BY <1>4
  <2> QED BY <2>1, <2>2, <2>3, <2>4
<1>17. o1[r] \in Nat /\ s1[r] \in Nat
  BY <1>4
<1>18. pc[r] \in {"setStock", "checkLine"} => SumOf(rest) <= B
  <2> SUFFICES ASSUME pc[r] \in {"setStock", "checkLine"} PROVE SumOf(rest) <= B
    OBVIOUS
  <2>1. r \in conn
    BY DEF NothingLeftBehind, InTx
  <2> QED BY <1>2, <2>1, OthersOwe DEF B, o1
<1> HIDE DEF rest
<1>19. stock'[w] + SumOf(s2) - SumOf(o2) >= -B
  <2>1. CASE /\ pc[r] = "commit" /\ pc'[r] = "respond"
             /\ req[r].kind # "setStock"
             /\ CommitTx(r)
    <3>1. /\ placed' = [placed EXCEPT ![r] = tx[r]]
          /\ tx[r].items = Units(Cart(r)) /\ tx[r].items \in [Watch -> Nat]
          /\ stock' = [v \in Watch |-> stock[v] - tx[r].items[v]]
      BY <2>1, WholeSale
    <3>2. /\ stock'[w] = stock[w] - tx[r].items[w] /\ tx[r].items[w] \in Nat
          /\ placed'[r] = tx[r]
      BY <3>1 DEF TypeOK
    <3>3. placed[r].items[w] = 0
      BY <2>1 DEF PlacedLate, NoRows, NoUnits
    <3>4. CASE IsOrder(r)
      <4>1. ~IsCheckout(r)
        BY <3>4 DEF IsOrder, IsCheckout
      <4>2. Owed(r) = NoUnits /\ Owed(r)' = NoUnits
        BY <1>3, <4>1 DEF Owed, NoUnits
      <4>3. o1[r] = 0 /\ o2[r] = 0
        BY <1>4, <1>14, <4>2 DEF NoUnits
      <4>4. s1[r] = 0 /\ s2[r] = tx[r].items[w]
        BY <1>4, <1>14, <3>2, <3>3, <3>4
      <4> QED BY <1>4, <1>6, <1>7, <1>15, <3>2, <4>3, <4>4
    <3>5. CASE ~IsOrder(r)
      <4>1. IsCheckout(r)
        BY <2>1, <3>5, BodyFields DEF IsOrder, IsCheckout
      <4>2. o1[r] = tx[r].items[w]
        BY <1>4, <2>1, <3>1, <4>1 DEF Owed, Checked
      <4>3. o2[r] = 0
        BY <1>3, <1>14, <2>1, <4>1 DEF Owed, Checked, NoUnits
      <4>4. s1[r] = 0 /\ s2[r] = 0
        BY <1>4, <1>14, <3>5
      <4> QED BY <1>4, <1>6, <1>7, <1>15, <3>2, <4>2, <4>3, <4>4
    <3> QED BY <3>4, <3>5
  <2>2. CASE /\ pc[r] = "setStock" /\ UNCHANGED placed
             /\ req[r].watch \in Watch
             /\ stock' = [stock EXCEPT ![req[r].watch] = req[r].level]
    <3>1. ~IsCheckout(r)
      BY <2>2 DEF InBounds, IsCheckout
    <3>2. Owed(r) = NoUnits /\ Owed(r)' = NoUnits
      BY <1>3, <3>1 DEF Owed, NoUnits
    <3>3. o1[r] = 0 /\ o2[r] = 0
      BY <1>4, <1>14, <3>2 DEF NoUnits
    <3>4. s1[r] = s2[r]
      BY <1>4, <1>14, <2>2
    <3>5. stock'[w] = stock[w] \/ stock'[w] \in Nat
      BY <2>2, BodyFields DEF TypeOK
    <3> QED BY <1>4, <1>6, <1>7, <1>15, <1>16, <1>18, <2>2, <3>3, <3>4, <3>5
  <2>3. CASE UNCHANGED <<placed, stock>>
    <3>1. s1[r] = s2[r] /\ stock'[w] = stock[w]
      BY <1>4, <1>14, <2>3
    <3>2. CASE o2[r] = 0 \/ o2[r] = o1[r]
      BY <1>4, <1>6, <1>7, <1>15, <1>17, <3>1, <3>2
    <3>3. CASE /\ pc[r] = "checkLine"
               /\ o2[r] = Item(r).qty /\ Item(r).qty <= stock[w]
      BY <1>4, <1>7, <1>8, <1>15, <1>16, <1>17, <1>18, <3>1, <3>3
    <3> QED BY <1>4, <1>14, <3>2, <3>3, OwingSteps
  <2> QED BY <2>1, <2>2, <2>3, StockSteps
<1> QED BY <1>13, <1>19 DEF B

\* Without restarts the pool never lends more connections than it has, and no
\* backend outlives its handler.
LEMMA ServingStep ==
    ASSUME TypeOK, Serving, IsFiniteSet(Request), MaxCrash = 0, [Next]_vars
    PROVE  Serving'
<1>1. IsFiniteSet(conn) /\ Cardinality(conn) \in Nat /\ PoolSize \in Nat
  BY FS_Subset, FS_CardinalityType, LimitAssumption DEF TypeOK
<1>2. ASSUME NEW r \in Request, Progress(r) \/ Failure(r)
      PROVE  \/ conn' = conn
             \/ Cardinality(conn) < PoolSize /\ conn' = conn \cup {r}
             \/ conn' = conn \ {r}
  BY <1>2 DEF Progress, Failure, RejectBody, Connect, FindCustomer, NewCustomer, CheckLine,
     InsertOrder, InsertItem, TakeStock, RecordMovement, InsertInvoice, Commit, Rollback,
     SetStock, Respond, Release, BreakDeadlock, BackendAborts, ConnectFails,
     StatementFails, ConnectionBreaks, CommitUnacked, BackendFinishes
<1>3. ASSUME NEW r \in Request, Progress(r) \/ Failure(r) PROVE Cardinality(conn') <= PoolSize
  <2>1. CASE conn' = conn
    BY <2>1 DEF Serving
  <2>2. CASE Cardinality(conn) < PoolSize /\ conn' = conn \cup {r}
    <3>1. Cardinality(conn \cup {r}) <= Cardinality(conn) + 1
      <4>1. Cardinality(conn \cup {r}) =
              IF r \in conn THEN Cardinality(conn) ELSE Cardinality(conn) + 1
        BY <1>1, FS_AddElement
      <4> QED BY <1>1, <4>1
    <3> QED BY <1>1, <2>2, <3>1, FS_AddElement, FS_CardinalityType
  <2>3. CASE conn' = conn \ {r}
    <3>1. conn \ {r} \in SUBSET conn
      OBVIOUS
    <3>2. Cardinality(conn \ {r}) <= Cardinality(conn) /\ Cardinality(conn \ {r}) \in Nat
      BY <1>1, <3>1, FS_Subset, FS_CardinalityType
    <3> QED BY <1>1, <2>3, <3>2 DEF Serving
  <2> QED BY <1>2, <1>3, <2>1, <2>2, <2>3
<1>4. ASSUME NEW r \in Request, Progress(r) \/ Failure(r)
      PROVE  \A p \in Request : pc'[p] \notin {"orphan", "inFlight", "lost"}
  <2>1. \A p \in Request \ {r} : pc'[p] = pc[p]
    BY <1>4, Frame
  <2>2. pc'[r] \notin {"orphan", "inFlight", "lost"}
    BY <1>4 DEF Progress, Failure, RejectBody, Connect, FindCustomer, NewCustomer,
       CheckLine, Refuse, InsertOrder, InsertItem, TakeStock, RecordMovement,
       InsertInvoice, Commit, Rollback, SetStock, Respond, BreakDeadlock, BackendAborts,
       ConnectFails, StatementFails, ConnectionBreaks, CommitUnacked, BackendFinishes,
       Goto, Leave, Serving, TypeOK, InTx
  <2> QED BY <2>1, <2>2 DEF Serving
<1>5. ~Crash
  BY DEF Crash, TypeOK
<1>6. CASE UNCHANGED vars
  BY <1>6 DEF vars, Serving
<1> QED BY <1>3, <1>4, <1>5, <1>6 DEF Next, Serving

\* Every step keeps the stock covered.
LEMMA CoveredStep ==
    ASSUME TypeOK, InBounds, NothingLeftBehind, Bookkeeping, PlacedLate, Serving, Covered,
           IsFiniteSet(Request), \A r \in Request : IsCheckout(r) => Once(Cart(r)),
           MaxCrash = 0, [Next]_vars
    PROVE  Covered'
<1>1. ASSUME NEW r \in Request, Progress(r) \/ Failure(r) PROVE Covered'
  BY <1>1, CoveredOwn DEF Covered
<1>2. ~Crash
  BY DEF Crash, TypeOK
<1>3. CASE UNCHANGED vars
  <2>1. /\ req' = req /\ pc' = pc /\ line' = line /\ stock' = stock /\ placed' = placed
    BY <1>3 DEF vars
  <2>2. ASSUME NEW w \in Watch, NEW q \in Nat, LineBound(w, q)'
        PROVE  (stock[w] + SumOf(Ordered(w)) - SumOf(Owes(w)))' >= -((PoolSize - 1) * q)
    <3>1. LineBound(w, q)
      BY <2>1, <2>2 DEF LineBound, IsCheckout, Cart
    <3>2. Ordered(w)' = Ordered(w)
      BY <2>1 DEF Ordered, IsOrder
    <3>3. Owes(w)' = Owes(w)
      <4>1. \A r \in Request : Owed(r)' = Owed(r)
        BY <2>1 DEF Owed, IsCheckout, Cart, UnitsUpTo, Units, NoUnits, Checked
      <4> QED BY <4>1 DEF Owes
    <3>4. SumOf(Ordered(w))' = SumOf(Ordered(w)) /\ SumOf(Owes(w))' = SumOf(Owes(w))
      BY <3>2, <3>3 DEF SumOf, Listing
    <3> QED BY <2>1, <3>1, <3>4 DEF Covered
  <2> QED BY <2>2 DEF Covered
<1> QED BY <1>1, <1>2, <1>3 DEF Next

\* The lines of the checkouts have a largest quantity.
LEMMA LargestLine ==
    ASSUME TypeOK, IsFiniteSet(Request), NEW w \in Watch
    PROVE  \E q \in Nat : LineBound(w, q)
<1> DEFINE f == [r \in Request |-> Units(Cart(r))[w]]
<1>1. ASSUME NEW r \in Request
      PROVE  /\ Units(Cart(r))[w] \in Nat
             /\ \A i \in 1..Len(Cart(r)) :
                   Cart(r)[i].watch = w => Cart(r)[i].qty <= Units(Cart(r))[w]
  <2> DEFINE U == UnitsUpTo(Cart(r))
             n == Len(Cart(r))
  <2>1. /\ n \in Nat /\ Units(Cart(r)) = U[n]
        /\ \A k \in 0..n : U[k] \in [Watch -> Nat]
        /\ \A k \in 1..n :
              /\ Cart(r)[k].qty \in Nat
              /\ \A v \in Watch : U[k][v] = U[k - 1][v] +
                    (IF v = Cart(r)[k].watch THEN Cart(r)[k].qty ELSE 0)
    BY CartUnits DEF Units
  <2> HIDE DEF U, n
  <2>2. ASSUME NEW i \in 1..n, Cart(r)[i].watch = w PROVE Cart(r)[i].qty <= U[n][w]
    <3> DEFINE S == {k \in Nat : i + k <= n => Cart(r)[i].qty <= U[i + k][w]}
    <3>1. i - 1 \in 0..n /\ i \in 0..n /\ Cart(r)[i].qty \in Nat
      BY <2>1
    <3>2. U[i - 1][w] \in Nat /\ U[i][w] = U[i - 1][w] + Cart(r)[i].qty
      BY <2>1, <2>2, <3>1
    <3>3. 0 \in S
      <4>1. i + 0 = i
        OBVIOUS
      <4> QED BY <3>1, <3>2, <4>1
    <3>4. ASSUME NEW k \in Nat, k \in S PROVE k + 1 \in S
      <4>1. SUFFICES ASSUME i + (k + 1) <= n PROVE Cart(r)[i].qty <= U[i + (k + 1)][w]
        OBVIOUS
      <4>2. /\ i + (k + 1) \in 1..n /\ i + k \in 0..n /\ (i + (k + 1)) - 1 = i + k
            /\ Cart(r)[i].qty <= U[i + k][w]
        BY <2>1, <3>4, <4>1
      <4>3. U[i + (k + 1)][w] = U[i + k][w] + (IF w = Cart(r)[i + (k + 1)].watch
                                            THEN Cart(r)[i + (k + 1)].qty ELSE 0)
        BY <2>1, <4>2
      <4>4. U[i + k][w] \in Nat /\ Cart(r)[i + (k + 1)].qty \in Nat
        BY <2>1, <4>2
      <4> QED BY <3>1, <4>2, <4>3, <4>4
    <3>5. Nat \subseteq S
      <4> HIDE DEF S
      <4> QED BY <3>3, <3>4, SetInduction
    <3>6. n - i \in Nat /\ i + (n - i) = n /\ n <= n
      BY <2>1
    <3>7. Cart(r)[i].qty <= U[i + (n - i)][w]
      BY <3>5, <3>6
    <3> QED BY <3>6, <3>7
  <2>3. n \in 0..n
    BY <2>1
  <2>4. U[n][w] \in Nat
    BY <2>1, <2>3
  <2> QED BY <2>1, <2>2, <2>4 DEF n
<1>2. f \in [Request -> Nat] /\ \A r \in Request : f[r] = Units(Cart(r))[w]
  BY <1>1
<1> HIDE DEF f
<1>3. SumOf(f) \in Nat /\ \A r \in Request : f[r] <= SumOf(f)
  BY <1>2, SumNatural
<1>4. LineBound(w, SumOf(f))
  <2> SUFFICES ASSUME NEW r \in Request, NEW i \in 1..Len(Cart(r)), Cart(r)[i].watch = w
               PROVE  Cart(r)[i].qty <= SumOf(f)
    BY DEF LineBound
  <2>1. Cart(r)[i].qty <= f[r] /\ Cart(r)[i].qty \in Nat /\ f[r] \in Nat
    BY <1>1, <1>2, BodyFields
  <2> QED BY <1>3, <2>1
<1> QED BY <1>3, <1>4

\* A covered stock is oversold by no more than the property says.
LEMMA CoveredBounded ==
    ASSUME TypeOK, InBounds, NothingLeftBehind, Covered, IsFiniteSet(Request),
           \A r \in Request : IsCheckout(r) => Once(Cart(r))
    PROVE  OversellBounded
<1> SUFFICES ASSUME NEW w \in Watch
             PROVE  \/ stock[w] + OrderedUnits(w) >= 0
                    \/ \E body \in Body : \E i \in 1..Len(body.cart) :
                          /\ body.kind = "checkout" /\ body.cart[i].watch = w
                          /\ stock[w] + OrderedUnits(w) >= -(PoolSize - 1) * body.cart[i].qty
  BY DEF OversellBounded
<1> DEFINE total == stock[w] + OrderedUnits(w)
           bounds == {q \in Nat : LineBound(w, q)}
<1>1. OrderedUnits(w) = SumOf(Ordered(w))
  BY DEF OrderedUnits, Ordered
<1>2. /\ OrderedUnits(w) \in Nat /\ SumOf(Owes(w)) \in Nat
      /\ stock[w] \in Int
  BY <1>1, SumsTyped DEF TypeOK
<1>3. bounds \in SUBSET Nat /\ bounds # {}
  BY LargestLine
<1>4. PICK q \in bounds : \A n \in bounds : q <= n
  <2> HIDE DEF bounds
  <2> QED BY <1>3, LeastElement
<1>5. q \in Nat /\ LineBound(w, q)
  BY <1>4
<1>6. total >= -((PoolSize - 1) * q)
  <2>1. stock[w] + OrderedUnits(w) - SumOf(Owes(w)) >= -((PoolSize - 1) * q)
    BY <1>1, <1>5 DEF Covered
  <2>2. (PoolSize - 1) * q \in Int
    BY <1>5, LimitAssumption
  <2> QED BY <1>2, <2>1, <2>2
<1>7. CASE q = 0
  <2>1. (PoolSize - 1) * q = 0
    BY <1>7, LimitAssumption
  <2> QED BY <1>6, <2>1
<1>8. CASE q # 0
  <2>1. q - 1 \in Nat /\ ~LineBound(w, q - 1)
    BY <1>4, <1>5, <1>8
  <2>2. PICK r \in Request : /\ IsCheckout(r)
                             /\ \E i \in 1..Len(Cart(r)) :
                                   Cart(r)[i].watch = w /\ ~(Cart(r)[i].qty <= q - 1)
    BY <2>1 DEF LineBound
  <2>3. PICK i \in 1..Len(Cart(r)) : Cart(r)[i].watch = w /\ ~(Cart(r)[i].qty <= q - 1)
    BY <2>2
  <2>4. Cart(r)[i].qty = q
    <3>1. Cart(r)[i].qty <= q
      BY <1>5, <2>2, <2>3 DEF LineBound
    <3>2. Cart(r)[i].qty \in Nat
      BY BodyFields
    <3> QED BY <1>5, <2>3, <3>1, <3>2
  <2>5. /\ req[r] \in Body /\ req[r].kind = "checkout"
        /\ i \in 1..Len(req[r].cart) /\ req[r].cart[i].watch = w /\ req[r].cart[i].qty = q
    BY <2>2, <2>3, <2>4 DEF TypeOK, IsCheckout, Cart
  <2>6. -(PoolSize - 1) * q = -((PoolSize - 1) * q)
    BY <1>5, LimitAssumption
  <2>7. total >= -(PoolSize - 1) * req[r].cart[i].qty
    BY <1>6, <2>5, <2>6
  <2> HIDE DEF total
  <2> QED BY <2>5, <2>7 DEF total
<1> QED BY <1>7, <1>8

\* While the server does not restart and no checkout lists a watch twice, what
\* the checkouts take beyond the stock the unchecked orders left is at most
\* PoolSize - 1 lines, however many requests come and however they interleave.
THEOREM OversellBound ==
    ASSUME IsFiniteSet(Request), MaxCrash = 0,
           \A body \in Body : body.kind = "checkout" => Once(body.cart)
    PROVE  Spec => []OversellBounded
<1> DEFINE Base == TypeOK /\ InBounds /\ NothingLeftBehind /\ Bookkeeping /\ PlacedLate
<1>1. TypeOK => \A r \in Request : IsCheckout(r) => Once(Cart(r))
  BY DEF TypeOK, IsCheckout, Cart
<1>2. Init => Serving /\ Covered
  <2> SUFFICES ASSUME Init PROVE Serving /\ Covered
    OBVIOUS
  <2>1. Serving
    BY FS_EmptySet, LimitAssumption DEF Init, Serving
  <2>2. ASSUME NEW w \in Watch, NEW q \in Nat
        PROVE  stock[w] + SumOf(Ordered(w)) - SumOf(Owes(w)) >= -((PoolSize - 1) * q)
    <3>1. Ordered(w) = [r \in Request |-> 0]
      BY DEF Init, Ordered, NoRows, NoUnits
    <3>2. Owes(w) = [r \in Request |-> 0]
      BY DEF Init, Owes, Owed, Checked, NoUnits
    <3>3. SumOf(Ordered(w)) = 0 /\ SumOf(Owes(w)) = 0
      BY <3>1, <3>2, SumZero
    <3>4. stock[w] \in Nat
      BY StoreAssumption DEF Init
    <3>5. (PoolSize - 1) * q \in Nat
      BY LimitAssumption
    <3> QED BY <3>3, <3>4, <3>5
  <2> QED BY <2>1, <2>2 DEF Covered
<1>3. Base /\ Serving /\ Covered /\ [Next]_vars => Serving' /\ Covered'
  BY <1>1, ServingStep, CoveredStep
<1>4. Base /\ Covered => OversellBounded
  BY <1>1, CoveredBounded
<1> QED BY <1>2, <1>3, <1>4, Sales, PTL DEF Spec

-----------------------------------------------------------------------------
(* The stock as a whole.                                                    *)

Sold(w) == [r \in Request |-> placed[r].items[w]]

StockAddsUp == \A w \in Watch : stock[w] + SumOf(Sold(w)) = InitStock[w]

\* A step that sells takes what it sells, every other one leaves both sides.
LEMMA AddsUpStep ==
    ASSUME TypeOK, InBounds, NothingLeftBehind, Bookkeeping, PlacedLate, StockAddsUp,
           IsFiniteSet(Request), \A r \in Request : req[r].kind # "setStock", [Next]_vars
    PROVE  StockAddsUp'
<1>1. ASSUME NEW w \in Watch, placed' = placed, stock'[w] = stock[w]
      PROVE  (stock[w] + SumOf(Sold(w)))' = InitStock[w]
  <2>1. Sold(w)' = Sold(w)
    BY <1>1 DEF Sold
  <2>2. SumOf(Sold(w))' = SumOf(Sold(w))
    BY <2>1 DEF SumOf, Listing
  <2> QED BY <1>1, <2>2 DEF StockAddsUp
<1>2. ASSUME NEW r \in Request, Progress(r) \/ Failure(r), NEW w \in Watch
      PROVE  (stock[w] + SumOf(Sold(w)))' = InitStock[w]
  <2>1. CASE /\ pc[r] \in {"commit", "inFlight"}
             /\ req[r].kind # "setStock"
             /\ CommitTx(r)
    <3> DEFINE s1 == Sold(w)
               s2 == [p \in Request |-> placed'[p].items[w]]
    <3>1. /\ placed' = [placed EXCEPT ![r] = tx[r]]
          /\ tx[r].items \in [Watch -> Nat]
          /\ stock' = [v \in Watch |-> stock[v] - tx[r].items[v]]
      BY <2>1, WholeSale
    <3>2. placed[r].items[w] = 0
      BY <2>1 DEF PlacedLate, NoRows, NoUnits
    <3>3. \A p \in Request : placed[p].items[w] \in Nat /\ s1[p] = placed[p].items[w]
      BY DEF TypeOK, Rows, Sold
    <3>4. placed'[r] = tx[r] /\ \A p \in Request \ {r} : placed'[p] = placed[p]
      BY <3>1 DEF TypeOK
    <3>5. /\ s1 \in [Request -> Int] /\ s1[r] = 0
          /\ s2[r] = tx[r].items[w] /\ \A p \in Request \ {r} : s2[p] = s1[p]
      BY <3>2, <3>3, <3>4 DEF Sold
    <3>6. s2 \in [Request -> Int]
      <4>1. \A p \in Request : s2[p] \in Int
        BY <3>1, <3>3, <3>5
      <4> QED BY <4>1
    <3>7. SumOf(Sold(w))' = SumOf(s2)
      <4>1. Sold(w)' = s2
        BY DEF Sold
      <4> HIDE DEF s2
      <4> QED BY <4>1 DEF SumOf, Listing
    <3> HIDE DEF s1, s2
    <3>8. SumOf(s2) = SumOf(s1) + (s2[r] - s1[r]) /\ SumOf(s1) \in Int
      BY <3>5, <3>6, SumChange, SumMonotone
    <3>9. stock'[w] = stock[w] - tx[r].items[w] /\ tx[r].items[w] \in Int /\ stock[w] \in Int
      BY <3>1 DEF TypeOK
    <3>10. stock[w] + SumOf(s1) = InitStock[w]
      BY DEF StockAddsUp, s1
    <3> QED BY <3>5, <3>7, <3>8, <3>9, <3>10
  <2>2. CASE UNCHANGED <<placed, stock>>
    BY <1>1, <2>2
  <2> QED BY <1>2, <2>1, <2>2, Effects
<1>3. CASE Crash
  BY <1>1, <1>3 DEF Crash, database, StockAddsUp
<1>4. CASE UNCHANGED vars
  BY <1>1, <1>4 DEF vars, StockAddsUp
<1> QED BY <1>2, <1>3, <1>4 DEF Next, StockAddsUp

\* Between two stock counts no unit is lost or invented: what is in stock and
\* what the committed orders hold add up to the stock there was, whatever failed,
\* restarted or ran at the same time.
THEOREM NoUnitLost ==
    ASSUME IsFiniteSet(Request), \A body \in Body : body.kind # "setStock"
    PROVE  Spec => []StockAddsUp
<1> DEFINE Base == TypeOK /\ InBounds /\ NothingLeftBehind /\ Bookkeeping /\ PlacedLate
<1>1. TypeOK => \A r \in Request : req[r].kind # "setStock"
  BY DEF TypeOK
<1>2. Init => StockAddsUp
  <2> SUFFICES ASSUME Init, NEW w \in Watch PROVE stock[w] + SumOf(Sold(w)) = InitStock[w]
    BY DEF StockAddsUp
  <2>1. Sold(w) = [r \in Request |-> 0]
    BY DEF Init, Sold, NoRows, NoUnits
  <2>2. SumOf(Sold(w)) = 0
    BY <2>1, SumZero
  <2>3. stock[w] \in Int /\ stock[w] = InitStock[w]
    BY StoreAssumption DEF Init
  <2> QED BY <2>2, <2>3
<1>3. Base /\ StockAddsUp /\ [Next]_vars => StockAddsUp'
  BY <1>1, AddsUpStep
<1> QED BY <1>2, <1>3, Sales, PTL DEF Spec
=============================================================================
