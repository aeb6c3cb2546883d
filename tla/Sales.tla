--------------------------------- MODULE Sales ---------------------------------
(***************************************************************************)
(* Quotes and invoices together, over the one database they share: an      *)
(* accepted quote is converted to an invoice, each row of the pair names   *)
(* the other (quotes.converted_to_invoice_id, invoices.quote_id), and      *)
(* deleting either makes the other forget it (ON DELETE SET NULL).         *)
(*                                                                         *)
(* The steps are those of Quotes and of Invoices, joined where one service *)
(* writes both tables.  What is stated here takes both: the link, and what *)
(* a customer is billed for.                                               *)
(***************************************************************************)
EXTENDS Documents

CONSTANTS
  QuoteIds, InvoiceIds,  \* row ids: bound the model
  StatusBodies,          \* the values PATCH /quotes/:id/status is called with
  QuoteRequests,         \* requests in flight to QuotesService: bounds the model
  InvoiceRequests        \* requests in flight to InvoicesService: bounds the model

VARIABLES
  quote, quoteCounter, quoteReq, quoteMet,          \* see Quotes
  invoice, invoiceCounter, invoiceReq, invoiceMet,  \* see Invoices
  year,
  billed    \* history: billed[q] are the invoices that were issued for quote q,
            \* those deleted since included; no action reads it

Q == INSTANCE Quotes WITH
       counter <- quoteCounter, req <- quoteReq, met <- quoteMet,
       Requests <- QuoteRequests

I == INSTANCE Invoices WITH
       counter <- invoiceCounter, req <- invoiceReq, met <- invoiceMet,
       Requests <- InvoiceRequests

ASSUME SalesAssumption ==
  /\ Q!NoQuote \notin QuoteIds /\ Q!NoInvoice \notin InvoiceIds
  /\ StatusBodies \subseteq Q!QuoteStatus

quoteVars == <<quote, quoteCounter, quoteReq>>

invoiceVars == <<invoice, invoiceCounter, invoiceReq>>

vars == <<quoteVars, invoiceVars, year, quoteMet, invoiceMet, billed>>

TypeOK == Q!TypeOK /\ I!TypeOK

Init == Q!Init /\ I!Init /\ billed = [q \in QuoteIds |-> {}]

-----------------------------------------------------------------------------
(* Plausible bugs, each of the shape of an action below.                    *)

\* A conversion without the unique index on quoteId.
ConvertAgain(r, i) ==
  /\ Q!ConvertWrite(r, i)
  /\ invoice[i] = I!Absent
  /\ LET q == quoteReq[r]
     IN invoice' = [invoice EXCEPT ![i] =
          I!NewDraft(q.workspace, q.partner, q.lines, q.discount, q.totals, q.id)]
  /\ UNCHANGED <<invoiceCounter, invoiceReq>>

\* Deleting an invoice its quote still names.
RemoveInvoiceDangling(r) == I!RemoveWrite(r) /\ UNCHANGED quoteVars

-----------------------------------------------------------------------------
\* convertToInvoice, from the insert of the invoice to the commit: invoice i
\* takes over partner, lines and amounts of the quote as it was read.  A second
\* invoice for the quote breaks the unique index on quoteId, a deleted quote
\* the foreign key: both roll back (Abandon).
Convert(r, i) ==
  /\ Q!ConvertWrite(r, i)
  /\ LET q == quoteReq[r]
     IN I!Converted(q.workspace, q.partner, q.lines, q.discount, q.totals, q.id, i)

\* InvoicesService.remove with its effect on the quote.
RemoveInvoice(r) ==
  /\ I!RemoveWrite(r)
  /\ Q!InvoiceRemoved(invoiceReq[r].id)

\* QuotesService.remove with its effect on the invoice.
RemoveQuote(r) ==
  /\ Q!RemoveWrite(r)
  /\ I!QuoteRemoved(quoteReq[r].id)

NewYear == Q!NewYear /\ I!NewYear

\* The issued invoices that name quote q are bills for it.
Bill ==
  billed' = [q \in QuoteIds |->
    billed[q] \cup {i \in InvoiceIds : I!Issued(i)' /\ invoice'[i].quote = q}]

Next ==
  /\ \/ /\ \E r \in QuoteRequests : Q!QuoteStep(r)
        /\ UNCHANGED invoiceVars
     \/ /\ I!InvoiceStep
        /\ UNCHANGED quoteVars
     \/ \E r \in QuoteRequests, i \in InvoiceIds : Convert(r, i)
     \/ \E r \in InvoiceRequests : RemoveInvoice(r)
     \/ \E r \in QuoteRequests : RemoveQuote(r)
     \/ NewYear
  /\ Q!Remember
  /\ I!Remember
  /\ Bill

Spec == Init /\ [][Next]_vars

-----------------------------------------------------------------------------
(* Properties of every execution *)

\* The two halves of the link agree, whatever conversions, removals and
\* failures overlap: the quote names the invoice that names the quote.
LinksAgree ==
  \A q \in QuoteIds, i \in InvoiceIds :
    (Q!Present(q) /\ quote[q].converted = i) <=> (I!Present(i) /\ invoice[i].quote = q)

\* A customer is billed once for a quote, however many conversions of it, removals
\* of its draft invoices and issues overlap or follow each other; a second bill
\* takes two requests that met on one of the invoices (an issue and a removal).
BilledOnce ==
  \A q \in QuoteIds : \A i, j \in billed[q] : i = j \/ {i, j} \cap invoiceMet # {}

-----------------------------------------------------------------------------
(* What the code states of the quotes on which no two requests ever met.    *)

\* Of a quote and the revisions that supersede it the customer is billed for one:
\* there is no invoice of a quote that has a revision, whichever of the two was
\* sent, answered, converted or edited first.
SupersededNotBilledUnlessMet ==
  \A q \in QuoteIds, i \in InvoiceIds :
    /\ Q!Present(q) /\ quote[q].supersedes \in QuoteIds \ quoteMet
    /\ I!Present(i)
    => invoice[i].quote # quote[q].supersedes

\* The invoice of a quote is created for the customer, the lines and the amounts
\* the quote shows at that moment, and the quote is an accepted one.
ConvertedAsAcceptedUnlessMet ==
  [][\A i \in InvoiceIds :
       /\ invoice[i] = I!Absent /\ I!Present(i)'
       /\ invoice'[i].quote \in QuoteIds \ quoteMet
       => LET q == quote'[invoice'[i].quote]
          IN /\ q.status = "accepted"
             /\ \A f \in {"workspace", "partner", "lines", "discount", "totals"} :
                  invoice'[i][f] = q[f]]_vars

\* An invoice's amounts are those of the lines and the discount it shows, its own
\* or the ones it took over, however often quote and invoice were edited before.
TotalsMatchUnlessMet ==
  quoteMet = {} => \A i \in InvoiceIds \ invoiceMet : I!TotalsAgree(i)
=============================================================================
