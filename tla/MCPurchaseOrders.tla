--------------------------- MODULE MCPurchaseOrders ---------------------------
(* Instances of PurchaseOrders for TLC. *)
EXTENDS PurchaseOrders, TLC

CONSTANTS production, sandbox, acme, sbx

\* One supplier in each workspace.
MCSuppliersOf == production :> {acme} @@ sandbox :> {sbx}

Symmetry == Permutations(Orders) \cup Permutations(Requests)
=============================================================================
