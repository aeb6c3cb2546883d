------------------------------- MODULE MCQuotes -------------------------------
(* Instances of Quotes for TLC. *)
EXTENDS Quotes, TLC

CONSTANTS production, sandbox, acme, sbx

\* One customer in each workspace.
MCCustomersOf == production :> {acme} @@ sandbox :> {sbx}

\* One customer of a single workspace.
OneCustomer == production :> {acme}

Symmetry == Permutations(QuoteIds) \cup Permutations(Requests)
=============================================================================
