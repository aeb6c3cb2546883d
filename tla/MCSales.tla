-------------------------------- MODULE MCSales --------------------------------
(* Instances of Sales for TLC. *)
EXTENDS Sales, TLC, FiniteSets

CONSTANTS production, sandbox, acme, sbx, l1

\* One customer in each workspace.
MCCustomersOf == production :> {acme} @@ sandbox :> {sbx}

\* One customer of a single workspace.
OneCustomer == production :> {acme}

\* One look is at two quotes, the other at one whose content changes.
Apart ==
  LET holds(rec) == "lines" \in DOMAIN rec => rec.lines = l1
  IN \/ /\ \A q \in QuoteIds : holds(quote[q])
        /\ \A i \in InvoiceIds : holds(invoice[i])
        /\ \A r \in QuoteRequests : holds(quoteReq[r])
        /\ \A r \in InvoiceRequests : holds(invoiceReq[r])
     \/ Cardinality({q \in QuoteIds : quote[q] # Q!Absent}) = 1

Symmetry ==
  Permutations(InvoiceIds) \cup Permutations(QuoteIds)
    \cup Permutations(InvoiceRequests) \cup Permutations(QuoteRequests)
=============================================================================
