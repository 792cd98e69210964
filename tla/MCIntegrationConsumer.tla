------------------------- MODULE MCIntegrationConsumer -------------------------
(***************************************************************************)
(* Instances of IntegrationConsumer for TLC: two orders and a record that  *)
(* is not JSON.                                                            *)
(***************************************************************************)
EXTENDS IntegrationConsumer

CONSTANTS e1, e2, junk

Orders == {e1, e2}
Records == {e1, e2, junk}
=============================================================================
