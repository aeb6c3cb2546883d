------------------------------- MODULE Invoices -------------------------------
(***************************************************************************)
(* InvoicesService (backend/src/invoices): drafts are created, edited and  *)
(* removed, and issued under the next number of the workspace and year.    *)
(*                                                                         *)
(* HTTP requests run concurrently; each is a process of Requests.  An      *)
(* action is what a request does between two awaits that others can        *)
(* interleave with: a read, the counter upsert, or the write that ends the *)
(* operation together with its commit.  A write names its row by the id    *)
(* alone: what it relies on was read before.                               *)
(*                                                                         *)
(* External (PostgreSQL under READ COMMITTED, Prisma): see PurchaseOrders. *)
(***************************************************************************)
EXTENDS Documents

CONSTANTS
  InvoiceIds,   \* the row ids (uuids) an execution may use: bounds the model
  QuoteIds,     \* the quotes an invoice may come from
  Requests      \* requests in flight at the same time: bounds the model

VARIABLES
  invoice,      \* invoice[i]: the committed row of table invoices with its lines
  counter,      \* counter[w, y]: committed last_number of invoice_counters
  req,          \* req[r]: where request r is and what it remembers
  year,         \* new Date().getFullYear() of the server
  met           \* history: the invoices that two requests in flight were
                \* about at the same time; no action reads it

vars == <<invoice, counter, req, year, met>>

-----------------------------------------------------------------------------
(* Types *)

Absent == [status |-> "absent"]     \* the id is not used yet

Deleted == [status |-> "deleted"]   \* the row was deleted; ids are not reused

NoQuote == [none |-> "quote"]

Series == Workspaces \X Years

InvoiceRow ==
  [status : {"draft", "issued"}, workspace : Workspaces, number : Numbers,
   partner : Customers, lines : Lines, discount : Discounts,
   totals : AllTotals, quote : QuoteIds \cup {NoQuote}]

Idle == [at |-> "idle"]

Issuing ==   \* in the transaction of issue, waiting for the counter row
  [at : {"issuing"}, id : InvoiceIds, series : Series]

Numbered ==  \* has locked the counter row and knows its number
  [at : {"numbered"}, id : InvoiceIds, series : Series, number : Nat]

Updating ==  \* update holds the lines and the discount it has read
  [at : {"updating"}, id : InvoiceIds, workspace : Workspaces,
   lines : Lines, discount : Discounts]

Removing ==  \* remove has read a draft
  [at : {"removing"}, id : InvoiceIds]

RequestState == {Idle} \cup Issuing \cup Numbered \cup Updating \cup Removing

TypeOK ==
  /\ invoice \in [InvoiceIds -> InvoiceRow \cup {Absent, Deleted}]
  /\ counter \in [Series -> Nat]
  /\ req \in [Requests -> RequestState]
  /\ year \in Years
  /\ met \in SUBSET InvoiceIds

-----------------------------------------------------------------------------
(* State predicates *)

Present(i) == invoice[i].status \in {"draft", "issued"}

Issued(i) == invoice[i].status = "issued"

\* An open transaction holds the row lock of the counter of series s.
Locked(s) == \E r \in Requests : req[r].at = "numbered" /\ req[r].series = s

\* (A plausible bug: the status is not looked at.)
FindsAny(w, i) == Present(i) /\ invoice[i].workspace = w

\* findUnique({ id, workspace }) finds a draft.
FindsDraft(w, i) == invoice[i].status = "draft" /\ invoice[i].workspace = w

\* The row a new invoice starts as.
NewDraft(w, partner, lines, discount, totals, quote) ==
  [status |-> "draft", workspace |-> w, number |-> NoNumber,
   partner |-> partner, lines |-> lines, discount |-> discount,
   totals |-> totals, quote |-> quote]

-----------------------------------------------------------------------------
(* Plausible bugs, each of the shape of an action below; the runs'          *)
(* properties are shown to notice them.                                     *)

\* Counting up outside the transaction, as a database sequence would.
TakeNumberFromSequence(r) ==
  /\ req[r].at = "issuing"
  /\ req' = [req EXCEPT ![r] =
       [at |-> "numbered", id |-> req[r].id, series |-> req[r].series,
        number |-> counter[req[r].series] + 1]]
  /\ counter' = [counter EXCEPT ![req[r].series] = @ + 1]
  /\ UNCHANGED <<invoice, year>>

\* Naming the invoice after the year of the commit, not that of the counter.
IssueCommitThisYear(r) ==
  /\ req[r].at = "numbered"
  /\ Present(req[r].id)
  /\ invoice' = [invoice EXCEPT
       ![req[r].id].status = "issued", ![req[r].id].number = <<year, req[r].number>>]
  /\ counter' = [counter EXCEPT ![req[r].series] = req[r].number]
  /\ req' = [req EXCEPT ![r] = Idle]
  /\ UNCHANGED year

\* Naming the invoice without its year.
IssueCommitBareNumber(r) ==
  /\ req[r].at = "numbered"
  /\ Present(req[r].id)
  /\ invoice' = [invoice EXCEPT
       ![req[r].id].status = "issued", ![req[r].id].number = <<req[r].number>>]
  /\ counter' = [counter EXCEPT ![req[r].series] = req[r].number]
  /\ req' = [req EXCEPT ![r] = Idle]
  /\ UNCHANGED year

\* Validating the partner of a POST but not the one of a PATCH.
UpdateWriteUnvalidated(r, given, partner, lines, discount) ==
  /\ req[r].at = "updating"
  /\ Present(req[r].id)
  /\ invoice' = [invoice EXCEPT ![req[r].id] =
       Edited(@, req[r], given, partner, lines, discount)]
  /\ req' = [req EXCEPT ![r] = Idle]
  /\ UNCHANGED <<counter, year>>

-----------------------------------------------------------------------------
Init ==
  /\ invoice = [i \in InvoiceIds |-> Absent]
  /\ counter = [s \in Series |-> 0]
  /\ req = [r \in Requests |-> Idle]
  /\ year = FirstYear
  /\ met = {}

\* create: validatePartner has accepted a customer of the user's workspace;
\* one insert writes the row with its lines.
Create(w, partner, lines, discount, i) ==
  /\ partner \in CustomersOf[w]
  /\ invoice[i] = Absent
  /\ invoice' = [invoice EXCEPT ![i] =
       NewDraft(w, partner, lines, discount, Totals(lines, discount), NoQuote)]
  /\ UNCHANGED <<counter, req, year>>

\* issue, in its transaction: the invoice is read as a draft and the year is
\* taken from the clock.
IssueRead(r, w, i) ==
  /\ req[r] = Idle
  /\ FindsDraft(w, i)
  /\ req' = [req EXCEPT ![r] = [at |-> "issuing", id |-> i, series |-> <<w, year>>]]
  /\ UNCHANGED <<invoice, counter, year>>

\* issue: the INSERT ... ON CONFLICT DO UPDATE ... RETURNING last_number waits
\* for the row lock, then computes the new value from the committed one.
TakeNumber(r) ==
  /\ req[r].at = "issuing"
  /\ ~Locked(req[r].series)
  /\ req' = [req EXCEPT ![r] =
       [at |-> "numbered", id |-> req[r].id, series |-> req[r].series,
        number |-> counter[req[r].series] + 1]]
  /\ UNCHANGED <<invoice, counter, year>>

\* issue: the invoice gets number and status, and the transaction commits.
\* The update finds no row when the invoice was deleted meanwhile: it throws
\* and the transaction rolls back (Abandon).
IssueCommit(r) ==
  /\ req[r].at = "numbered"
  /\ Present(req[r].id)
  /\ invoice' = [invoice EXCEPT
       ![req[r].id].status = "issued",
       ![req[r].id].number = <<req[r].series[2], req[r].number>>]
  /\ counter' = [counter EXCEPT ![req[r].series] = req[r].number]
  /\ req' = [req EXCEPT ![r] = Idle]
  /\ UNCHANGED year

\* update: findScoped reads the invoice with its lines, as a draft.
UpdateRead(r, w, i) ==
  /\ req[r] = Idle
  /\ FindsDraft(w, i)
  /\ req' = [req EXCEPT ![r] =
       [at |-> "updating", id |-> i, workspace |-> w,
        lines |-> invoice[i].lines, discount |-> invoice[i].discount]]
  /\ UNCHANGED <<invoice, counter, year>>

\* update: a partner the dto names is validated, then one update writes the
\* row and replaces its lines.
UpdateWrite(r, given, partner, lines, discount) ==
  /\ req[r].at = "updating"
  /\ Present(req[r].id)
  /\ "partnerId" \in given => partner \in CustomersOf[req[r].workspace]
  /\ invoice' = [invoice EXCEPT ![req[r].id] =
       Edited(@, req[r], given, partner, lines, discount)]
  /\ req' = [req EXCEPT ![r] = Idle]
  /\ UNCHANGED <<counter, year>>

\* remove: findScoped reads a draft.
RemoveRead(r, w, i) ==
  /\ req[r] = Idle
  /\ FindsDraft(w, i)
  /\ req' = [req EXCEPT ![r] = [at |-> "removing", id |-> i]]
  /\ UNCHANGED <<invoice, counter, year>>

\* remove: the row is deleted, and its lines with it.
RemoveWrite(r) ==
  /\ req[r].at = "removing"
  /\ Present(req[r].id)
  /\ invoice' = [invoice EXCEPT ![req[r].id] = Deleted]
  /\ req' = [req EXCEPT ![r] = Idle]
  /\ UNCHANGED <<counter, year>>

\* What QuotesService does to the table (see Sales): convertToInvoice inserts a
\* draft with the amounts it copies from quote q; quoteId is unique.
Converted(w, partner, lines, discount, totals, q, i) ==
  /\ partner \in CustomersOf[w]
  /\ invoice[i] = Absent
  /\ \A j \in InvoiceIds : Present(j) => invoice[j].quote # q
  /\ invoice' = [invoice EXCEPT ![i] =
       NewDraft(w, partner, lines, discount, totals, q)]
  /\ UNCHANGED <<counter, req, year>>

\* Quote q is deleted: its invoice forgets it (ON DELETE SET NULL).
QuoteRemoved(q) ==
  /\ invoice' = [i \in InvoiceIds |->
       IF Present(i) /\ invoice[i].quote = q
       THEN [invoice[i] EXCEPT !.quote = NoQuote] ELSE invoice[i]]
  /\ UNCHANGED <<counter, req, year>>

\* A transaction rolls back (5 s timeout, a row that is gone, lost
\* connection), an operation throws, or the server stops before its next step.
Abandon(r) ==
  /\ req[r] # Idle
  /\ req' = [req EXCEPT ![r] = Idle]
  /\ UNCHANGED <<invoice, counter, year>>

\* The year turns.
NewYear ==
  /\ year < LastYear
  /\ year' = year + 1
  /\ UNCHANGED <<invoice, counter, req>>

RequestStep(r) ==
  \/ \E w \in Workspaces, i \in InvoiceIds :
       IssueRead(r, w, i) \/ UpdateRead(r, w, i) \/ RemoveRead(r, w, i)
  \/ TakeNumber(r)
  \/ IssueCommit(r)
  \/ \E given \in SUBSET Fields, partner \in Customers,
        lines \in Lines, discount \in Discounts :
       UpdateWrite(r, given, partner, lines, discount)
  \/ Abandon(r)

CreateStep ==
  \E w \in Workspaces, partner \in Customers, lines \in Lines,
     discount \in Discounts, i \in InvoiceIds :
    Create(w, partner, lines, discount, i)

\* The steps that leave the table quotes alone.
InvoiceStep == CreateStep \/ \E r \in Requests : RequestStep(r)

QuotesServiceStep ==
  \/ \E w \in Workspaces, partner \in Customers, lines \in Lines,
        discount \in Discounts, totals \in AllTotals,
        q \in QuoteIds, i \in InvoiceIds :
       Converted(w, partner, lines, discount, totals, q, i)
  \/ \E q \in QuoteIds : QuoteRemoved(q)

\* The invoices that two requests in flight are about.
Meeting ==
  {i \in InvoiceIds :
     \E r, s \in Requests :
       /\ r # s
       /\ req[r] # Idle /\ req[s] # Idle
       /\ req[r].id = i /\ req[s].id = i}

Remember == met' = met \cup Meeting'

Next ==
  /\ \/ InvoiceStep
     \/ \E r \in Requests : RemoveWrite(r)
     \/ QuotesServiceStep
     \/ NewYear
  /\ Remember

Spec == Init /\ [][Next]_vars

-----------------------------------------------------------------------------
(* Properties of every execution *)

\* Two invoices of a workspace never carry the same number, whatever requests
\* overlap and without the unique index of the table ever being needed.
UniqueNumbers ==
  \A i, j \in InvoiceIds :
    /\ Present(i) /\ Present(j)
    /\ invoice[i].number # NoNumber
    /\ invoice[i].number = invoice[j].number
    /\ invoice[i].workspace = invoice[j].workspace
    => i = j

\* A number that an invoice gets was never handed out before in its series:
\* not to another invoice, not to one deleted since, and not by a transaction
\* of the year before that commits in January.
NumbersAreNew ==
  [][\A i \in InvoiceIds :
       /\ Present(i)
       /\ invoice'[i] \in InvoiceRow
       /\ invoice'[i].number # invoice[i].number
       => /\ invoice'[i].number # NoNumber
          /\ invoice'[i].number[2] > counter[<<invoice[i].workspace, invoice'[i].number[1]>>]
    ]_vars

\* An invoice is of a customer of its own workspace (isolation, TDD 5.9).
PartnersAreLocal ==
  \A i \in InvoiceIds :
    Present(i) => invoice[i].partner \in CustomersOf[invoice[i].workspace]

-----------------------------------------------------------------------------
(* What the code states of issued invoices and of amounts.  It holds of the *)
(* invoices on which no two requests ever met: what the tests exercise      *)
(* (twenty parallel issues of twenty invoices).  The forms without "met"    *)
(* are what the messages of the code say, and do not hold.                  *)

\* Invoice i, if issued, keeps its number and its content and is not deleted
\* (invoices.service.ts:144, :248 "the invoice is locked", :322).
StaysLocked(i) ==
  Issued(i) =>
    /\ Present(i)'
    /\ \A f \in {"status", "number", "partner", "lines", "discount", "totals"} :
         invoice'[i][f] = invoice[i][f]

IssuedLockedUnlessMet == [][\A i \in InvoiceIds \ met : StaysLocked(i)]_vars

IssuedLocked == [][\A i \in InvoiceIds : StaysLocked(i)]_vars

\* The amounts of invoice i are those of the lines and the discount it shows; of
\* a converted one that is up to its quote (TotalsMatchUnlessMet of Sales).
TotalsAgree(i) ==
  Present(i) => invoice[i].totals = Totals(invoice[i].lines, invoice[i].discount)

NumbersIn(s) ==
  {invoice[i].number[2] : i \in
     {j \in InvoiceIds : /\ Present(j)
                        /\ invoice[j].number # NoNumber
                        /\ invoice[j].workspace = s[1]
                        /\ invoice[j].number[1] = s[2]}}

\* The numbers of a series are 1, 2, ..., last_number (REQ-303), whatever
\* overlaps and rolls back, until two requests have met on an invoice.
GaplessUnlessMet ==
  met = {} => \A s \in Series : NumbersIn(s) = 1 .. counter[s]
=============================================================================
