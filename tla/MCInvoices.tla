------------------------------ MODULE MCInvoices ------------------------------
(* Instances of Invoices for TLC. *)
EXTENDS Invoices, TLC

CONSTANTS production, sandbox, acme, sbx

\* One customer in each workspace.
MCCustomersOf == production :> {acme} @@ sandbox :> {sbx}


\* One customer of a single workspace.
OneCustomer == production :> {acme}

Symmetry == Permutations(InvoiceIds) \cup Permutations(Requests)
=============================================================================
