------------------------------- MODULE Documents -------------------------------
(***************************************************************************)
(* What invoices and quotes have in common: the content of a commercial    *)
(* document, the way PATCH edits it, and the clock that picks the yearly   *)
(* counter.                                                                *)
(***************************************************************************)
EXTENDS Naturals

CONSTANTS
  Workspaces,    \* production, sandbox
  CustomersOf,   \* CustomersOf[w]: the partners of type customer in w; rows of
                 \* partners are never deleted nor change type or workspace
  Lines,         \* the line lists a client may enter
  Discounts,     \* the discount percentages a client may enter
  FirstYear,     \* the years of an execution: bound the model
  LastYear

ASSUME DocumentsAssumption ==
  /\ DOMAIN CustomersOf = Workspaces
  /\ FirstYear \in Nat /\ LastYear \in Nat /\ FirstYear <= LastYear

Customers == UNION {CustomersOf[w] : w \in Workspaces}

Years == FirstYear .. LastYear

\* computeTotals: the amounts of a document are a function of its lines and
\* its discount; here they remember of which.
Totals(lines, discount) == [of |-> lines, at |-> discount]

AllTotals == [of : Lines, at : Discounts]

\* invoiceNumber and quoteNumber: absent, or the year and the sequence number
\* in SALE-2026-00001 and QT-2026-00001.
NoNumber == <<>>

Numbers == (Years \X Nat) \cup {NoNumber}

\* The fields of dto a PATCH may carry, the others being undefined.
Fields == {"partnerId", "lines", "discountPercent"}

\* (A plausible bug: amounts recomputed for a new discount only.)
EditedWithoutRecount(row, read, given, partner, lines, discount) ==
  [row EXCEPT
     !.partner = IF "partnerId" \in given THEN partner ELSE @,
     !.lines = IF "lines" \in given THEN lines ELSE @,
     !.discount = IF "discountPercent" \in given THEN discount ELSE @,
     !.totals = IF "discountPercent" \in given THEN Totals(read.lines, discount) ELSE @]

\* What a PATCH whose dto carries the fields "given" makes of row, the totals
\* being computed with what the request had read of the document before.
Edited(row, read, given, partner, lines, discount) ==
  LET recompute == given \cap {"lines", "discountPercent"} # {}
      newLines == IF "lines" \in given THEN lines ELSE read.lines
      newDiscount == IF "discountPercent" \in given THEN discount ELSE read.discount
  IN [row EXCEPT
        !.partner = IF "partnerId" \in given THEN partner ELSE @,
        !.lines = IF "lines" \in given THEN lines ELSE @,
        !.discount = IF recompute THEN newDiscount ELSE @,
        !.totals = IF recompute THEN Totals(newLines, newDiscount) ELSE @]
=============================================================================
