-------------------------------- MODULE MCShop --------------------------------
(* Browsing, buying and chatting share no state but the page, so a behaviour   *)
(* of this instance does one of them: the sum of their state spaces and not    *)
(* the product.                                                                *)
EXTENDS Storefront, Chat, TLC

VARIABLE focus

Brands == 1 :> "a" @@ 2 :> "b"
Categories == 1 :> "diver" @@ 2 :> "diver"
Prices == 1 :> 10 @@ 2 :> 20
Found == "t" :> {2}
Suits == "herren" :> {1}
Urls == {PlainUrl, [category |-> All, brand |-> "a"]}

MCInit == /\ Init /\ ChatInit
          /\ focus \in {"browse", "buy", "chat"}
          /\ focus = "browse" => stock[1] \in {0, 1} /\ stock[2] = 1
          /\ focus = "chat" => \A w \in Watch : stock[w] = 1

MCNext == \/ /\ focus # "chat"
             /\ \/ Moves \/ Settles
                \/ focus = "browse" /\ Browses
                \/ focus = "buy" /\ (Buys \/ StockMoves)
             /\ UNCHANGED <<chatVars, focus>>
          \/ /\ focus = "chat" /\ ChatNext
             /\ UNCHANGED <<vars, focus>>

MCSpec == MCInit /\ [][MCNext]_<<vars, chatVars, focus>> /\ (focus = "chat" => ChatFairness)
=============================================================================
