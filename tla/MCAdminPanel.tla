----------------------------- MODULE MCAdminPanel -----------------------------
(* Orders, searches and edits of rows meet on the page only, so a behaviour of  *)
(* this instance does one of them, on the tabs it needs: the sum of their state *)
(* spaces and not the product.  Watch 2 is there for watch 1 to leave the page.  *)
EXTENDS AdminPanel, TLC

VARIABLE focus

Found == All :> Watch @@ "x" :> {2, 3}
TabsOf == "orders" :> {"dashboard", "orders"}
          @@ "search" :> {"inventory", "new-product"}
          @@ "edit" :> {"dashboard", "inventory"}

MCInit == /\ Init
          /\ focus \in DOMAIN TabsOf
          /\ \A w \in Watch : stock[w] = 1

MCNext == /\ \/ Visits \/ Settles \/ \E t \in TabsOf[focus] : ChooseTab(t)
             \/ focus = "orders" /\ Orders
             \/ focus = "search" /\ (Searches \/ Pages \/ Create)
             \/ focus = "edit" /\ (Edits(1) \/ Pages)
          /\ UNCHANGED focus

MCSpec == MCInit /\ [][MCNext]_<<vars, focus>> /\ Fairness
=============================================================================
