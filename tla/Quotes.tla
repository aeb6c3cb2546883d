-------------------------------- MODULE Quotes --------------------------------
(***************************************************************************)
(* QuotesService (backend/src/quotes): a quote is drafted, sent, answered  *)
(* by the customer, revised into a new quote or converted to an invoice.   *)
(*                                                                         *)
(* Requests, interleaving and the database are as in Invoices.  What the   *)
(* invoice side does to the table quotes is an action of its own here      *)
(* (InvoiceRemoved); Sales joins the two sides.                            *)
(***************************************************************************)
EXTENDS Documents

CONSTANTS
  QuoteIds,     \* the row ids (uuids) an execution may use: bounds the model
  InvoiceIds,   \* the invoices a quote may be converted to
  StatusBodies, \* the values PATCH /quotes/:id/status is called with
  Requests      \* requests in flight at the same time: bounds the model

VARIABLES
  quote,        \* quote[q]: the committed row of table quotes with its lines
  counter,      \* counter[w, y]: committed last_number of quote_counters
  req,          \* req[r]: where request r is and what it remembers
  year,         \* new Date().getFullYear() of the server
  met           \* history: the quotes that two requests in flight were about
                \* at the same time; no action reads it

vars == <<quote, counter, req, year, met>>

-----------------------------------------------------------------------------
(* Types *)

Outcomes == {"accepted", "rejected", "revision_requested"}

QuoteStatus == {"draft", "sent"} \cup Outcomes

Absent == [status |-> "absent"]     \* the id is not used yet

Deleted == [status |-> "deleted"]   \* the row was deleted; ids are not reused

NoQuote == [none |-> "quote"]

NoInvoice == [none |-> "invoice"]

\* The column status is an enum: the database refuses any other value.
ASSUME QuotesAssumption ==
  /\ NoQuote \notin QuoteIds /\ NoInvoice \notin InvoiceIds
  /\ StatusBodies \subseteq QuoteStatus

Series == Workspaces \X Years

QuoteRow ==
  [status : QuoteStatus, workspace : Workspaces, number : Years \X Nat,
   partner : Customers, lines : Lines, discount : Discounts, totals : AllTotals,
   supersedes : QuoteIds \cup {NoQuote}, converted : InvoiceIds \cup {NoInvoice}]

Idle == [at |-> "idle"]

Creating ==   \* in the transaction of create or createRevision, with the
              \* content of the new quote, waiting for the counter row
  [at : {"creating"}, id : QuoteIds, series : Series,
   partner : Customers, lines : Lines, discount : Discounts,
   supersedes : QuoteIds \cup {NoQuote}]

Numbered ==   \* has locked the counter row and knows its number
  [at : {"numbered"}, id : QuoteIds, series : Series,
   partner : Customers, lines : Lines, discount : Discounts,
   supersedes : QuoteIds \cup {NoQuote}, number : Nat]

Updating ==   \* update holds the lines and the discount it has read
  [at : {"updating"}, id : QuoteIds, workspace : Workspaces,
   lines : Lines, discount : Discounts]

Converting == \* convertToInvoice holds the quote it has read
  [at : {"converting"}, id : QuoteIds, workspace : Workspaces,
   partner : Customers, lines : Lines, discount : Discounts, totals : AllTotals]

Holding ==    \* has read the status its write relies on
  [at : {"sending", "answering", "removing"}, id : QuoteIds]

RequestState ==
  {Idle} \cup Creating \cup Numbered \cup Updating \cup Converting \cup Holding

TypeOK ==
  /\ quote \in [QuoteIds -> QuoteRow \cup {Absent, Deleted}]
  /\ counter \in [Series -> Nat]
  /\ req \in [Requests -> RequestState]
  /\ year \in Years
  /\ met \in SUBSET QuoteIds

-----------------------------------------------------------------------------
(* State predicates *)

Present(q) == quote[q].status \in QuoteStatus

InCreate(r) == req[r].at \in {"creating", "numbered"}

\* An open transaction holds the row lock of the counter of series s.
Locked(s) == \E r \in Requests : req[r].at = "numbered" /\ req[r].series = s

\* randomUUID(): an id that was never a row's and is no open transaction's.
Fresh(q) == quote[q] = Absent /\ \A r \in Requests : InCreate(r) => req[r].id # q

\* (A plausible bug: the status is not looked at.)
FindsAny(w, q, status) == Present(q) /\ quote[q].workspace = w

\* findUnique({ id, workspace }) finds a quote of this status.
Finds(w, q, status) == quote[q].status = status /\ quote[q].workspace = w

\* The first await of an operation that checks a status and acts on it later.
ReadAs(r, w, q, status, next) ==
  /\ req[r] = Idle
  /\ Finds(w, q, status)
  /\ req' = [req EXCEPT ![r] = [at |-> next, id |-> q]]
  /\ UNCHANGED <<quote, counter, year>>

\* prisma.quote.update({ where: { id }, data: { status } }).
WriteStatus(r, at, status) ==
  /\ req[r].at = at
  /\ Present(req[r].id)
  /\ quote' = [quote EXCEPT ![req[r].id].status = status]
  /\ req' = [req EXCEPT ![r] = Idle]
  /\ UNCHANGED <<counter, year>>

-----------------------------------------------------------------------------
(* Plausible bugs, each of the shape of an action below; the runs'          *)
(* properties are shown to notice them.                                     *)

\* Reading last_number and adding one, instead of the locking upsert.
TakeNumberUnlocked(r) ==
  /\ req[r].at = "creating"
  /\ req' = [req EXCEPT ![r] =
       [at |-> "numbered", id |-> req[r].id, series |-> req[r].series,
        partner |-> req[r].partner, lines |-> req[r].lines,
        discount |-> req[r].discount, supersedes |-> req[r].supersedes,
        number |-> counter[req[r].series] + 1]]
  /\ UNCHANGED <<quote, counter, year>>

\* Deleting a quote its revisions still name.
RemoveWriteDangling(r) ==
  /\ req[r].at = "removing"
  /\ Present(req[r].id)
  /\ quote' = [quote EXCEPT ![req[r].id] = Deleted]
  /\ req' = [req EXCEPT ![r] = Idle]
  /\ UNCHANGED <<counter, year>>

-----------------------------------------------------------------------------
Init ==
  /\ quote = [q \in QuoteIds |-> Absent]
  /\ counter = [s \in Series |-> 0]
  /\ req = [r \in Requests |-> Idle]
  /\ year = FirstYear
  /\ met = {}

\* create: validatePartner has accepted a customer of the user's workspace,
\* the totals are computed and the transaction is opened.
Create(r, w, partner, lines, discount, q) ==
  /\ req[r] = Idle
  /\ partner \in CustomersOf[w]
  /\ Fresh(q)
  /\ req' = [req EXCEPT ![r] =
       [at |-> "creating", id |-> q, series |-> <<w, year>>, partner |-> partner,
        lines |-> lines, discount |-> discount, supersedes |-> NoQuote]]
  /\ UNCHANGED <<quote, counter, year>>

\* createRevision, in its transaction: the original is read in status
\* revision_requested; its content goes to a new draft.
ReviseRead(r, w, original, q) ==
  /\ req[r] = Idle
  /\ Finds(w, original, "revision_requested")
  /\ Fresh(q)
  /\ req' = [req EXCEPT ![r] =
       [at |-> "creating", id |-> q, series |-> <<w, year>>,
        partner |-> quote[original].partner, lines |-> quote[original].lines,
        discount |-> quote[original].discount, supersedes |-> original]]
  /\ UNCHANGED <<quote, counter, year>>

\* create, createRevision: the counter's upsert waits for the row lock, then
\* computes the new value from the committed one.
TakeNumber(r) ==
  /\ req[r].at = "creating"
  /\ ~Locked(req[r].series)
  /\ req' = [req EXCEPT ![r] =
       [at |-> "numbered", id |-> req[r].id, series |-> req[r].series,
        partner |-> req[r].partner, lines |-> req[r].lines,
        discount |-> req[r].discount, supersedes |-> req[r].supersedes,
        number |-> counter[req[r].series] + 1]]
  /\ UNCHANGED <<quote, counter, year>>

\* create, createRevision: quote.create and the commit.  A revision whose
\* original was deleted meanwhile breaks the foreign key (Abandon).
CommitQuote(r) ==
  /\ req[r].at = "numbered"
  /\ req[r].supersedes # NoQuote => Present(req[r].supersedes)
  /\ quote' = [quote EXCEPT ![req[r].id] =
       [status |-> "draft", workspace |-> req[r].series[1],
        number |-> <<req[r].series[2], req[r].number>>, partner |-> req[r].partner,
        lines |-> req[r].lines, discount |-> req[r].discount,
        totals |-> Totals(req[r].lines, req[r].discount),
        supersedes |-> req[r].supersedes, converted |-> NoInvoice]]
  /\ counter' = [counter EXCEPT ![req[r].series] = req[r].number]
  /\ req' = [req EXCEPT ![r] = Idle]
  /\ UNCHANGED year

\* send: from draft to sent.
SendRead(r, w, q) == ReadAs(r, w, q, "draft", "sending")

SendWrite(r) == WriteStatus(r, "sending", "sent")

\* updateStatus: from sent to the customer's answer, dto.status.
AnswerRead(r, w, q) == ReadAs(r, w, q, "sent", "answering")

AnswerWrite(r, status) == WriteStatus(r, "answering", status)

\* update: findScoped reads the quote with its lines, as a draft.
UpdateRead(r, w, q) ==
  /\ req[r] = Idle
  /\ Finds(w, q, "draft")
  /\ req' = [req EXCEPT ![r] =
       [at |-> "updating", id |-> q, workspace |-> w,
        lines |-> quote[q].lines, discount |-> quote[q].discount]]
  /\ UNCHANGED <<quote, counter, year>>

\* update: a partner the dto names is validated, then one update writes the
\* row and replaces its lines.
UpdateWrite(r, given, partner, lines, discount) ==
  /\ req[r].at = "updating"
  /\ Present(req[r].id)
  /\ "partnerId" \in given => partner \in CustomersOf[req[r].workspace]
  /\ quote' = [quote EXCEPT ![req[r].id] =
       Edited(@, req[r], given, partner, lines, discount)]
  /\ req' = [req EXCEPT ![r] = Idle]
  /\ UNCHANGED <<counter, year>>

\* remove: findScoped reads a draft.
RemoveRead(r, w, q) == ReadAs(r, w, q, "draft", "removing")

\* remove: the row is deleted; its revisions forget it (ON DELETE SET NULL).
RemoveWrite(r) ==
  /\ req[r].at = "removing"
  /\ Present(req[r].id)
  /\ quote' = [q \in QuoteIds |->
       IF q = req[r].id THEN Deleted
       ELSE IF Present(q) /\ quote[q].supersedes = req[r].id
            THEN [quote[q] EXCEPT !.supersedes = NoQuote]
            ELSE quote[q]]
  /\ req' = [req EXCEPT ![r] = Idle]
  /\ UNCHANGED <<counter, year>>

\* convertToInvoice, in its transaction: the quote is read as accepted and not
\* converted; when it is converted its invoice is returned and nothing written.
ConvertRead(r, w, q) ==
  /\ req[r] = Idle
  /\ Finds(w, q, "accepted")
  /\ quote[q].converted = NoInvoice
  /\ req' = [req EXCEPT ![r] =
       [at |-> "converting", id |-> q, workspace |-> w,
        partner |-> quote[q].partner, lines |-> quote[q].lines,
        discount |-> quote[q].discount, totals |-> quote[q].totals]]
  /\ UNCHANGED <<quote, counter, year>>

\* convertToInvoice: the quote is linked to the new invoice i, and the
\* transaction commits; convertedToInvoiceId is unique.
ConvertWrite(r, i) ==
  /\ req[r].at = "converting"
  /\ Present(req[r].id)
  /\ \A q \in QuoteIds : Present(q) => quote[q].converted # i
  /\ quote' = [quote EXCEPT ![req[r].id].converted = i]
  /\ req' = [req EXCEPT ![r] = Idle]
  /\ UNCHANGED <<counter, year>>

\* Invoice i is deleted: the quote it came from forgets it (ON DELETE SET NULL).
InvoiceRemoved(i) ==
  /\ quote' = [q \in QuoteIds |->
       IF Present(q) /\ quote[q].converted = i
       THEN [quote[q] EXCEPT !.converted = NoInvoice] ELSE quote[q]]
  /\ UNCHANGED <<counter, req, year>>

\* A transaction rolls back (5 s timeout, broken constraint, lost connection),
\* an operation throws, or the server stops before its next step.
Abandon(r) ==
  /\ req[r] # Idle
  /\ req' = [req EXCEPT ![r] = Idle]
  /\ UNCHANGED <<quote, counter, year>>

\* The year turns.
NewYear ==
  /\ year < LastYear
  /\ year' = year + 1
  /\ UNCHANGED <<quote, counter, req>>

Reads(r, w, q) ==
  \/ SendRead(r, w, q)
  \/ AnswerRead(r, w, q)
  \/ UpdateRead(r, w, q)
  \/ RemoveRead(r, w, q)
  \/ ConvertRead(r, w, q)
  \/ \E p \in QuoteIds : ReviseRead(r, w, q, p)

Writes(r) ==
  \/ TakeNumber(r)
  \/ CommitQuote(r)
  \/ SendWrite(r)
  \/ \E status \in StatusBodies : AnswerWrite(r, status)
  \/ \E given \in SUBSET Fields, partner \in Customers,
        lines \in Lines, discount \in Discounts :
       UpdateWrite(r, given, partner, lines, discount)
  \/ Abandon(r)

\* The steps that leave the table invoices alone.
QuoteStep(r) ==
  \/ \E w \in Workspaces, partner \in Customers, lines \in Lines,
        discount \in Discounts, q \in QuoteIds :
       Create(r, w, partner, lines, discount, q)
  \/ \E w \in Workspaces, q \in QuoteIds : Reads(r, w, q)
  \/ Writes(r)

\* The quotes request r is about: the one it writes, the one it revises.
Targets(r) ==
  IF req[r] = Idle THEN {}
  ELSE {req[r].id} \cup (IF InCreate(r) THEN {req[r].supersedes} \ {NoQuote} ELSE {})

\* The quotes that two requests in flight are about.
Meeting ==
  {q \in QuoteIds : \E r, s \in Requests :
                       r # s /\ q \in Targets(r) /\ q \in Targets(s)}

Remember == met' = met \cup Meeting'

Next ==
  /\ \/ \E r \in Requests : QuoteStep(r) \/ RemoveWrite(r)
     \/ \E r \in Requests, i \in InvoiceIds : ConvertWrite(r, i)
     \/ \E i \in InvoiceIds : InvoiceRemoved(i)
     \/ NewYear
  /\ Remember

Spec == Init /\ [][Next]_vars

-----------------------------------------------------------------------------
(* Properties of every execution *)

\* Two quotes of a workspace never carry the same number.
UniqueNumbers ==
  \A p, q \in QuoteIds :
    /\ Present(p) /\ Present(q)
    /\ quote[p].number = quote[q].number
    /\ quote[p].workspace = quote[q].workspace
    => p = q

\* n is a number given after m was: of a later year, or later in the year.
Later(n, m) == n[1] > m[1] \/ (n[1] = m[1] /\ n[2] > m[2])

\* A revision carries a later number than the quote it supersedes, so that
\* following supersedesQuoteId leads back in time and ends at a first quote.
RevisionsAreLater ==
  \A q \in QuoteIds :
    Present(q) /\ quote[q].supersedes # NoQuote
      => /\ Present(quote[q].supersedes)
         /\ Later(quote[q].number, quote[quote[q].supersedes].number)

-----------------------------------------------------------------------------
(* What the documents state, of the quotes on which no two requests ever    *)
(* met and as long as the client only sends Outcomes (the pages do).        *)

Edges ==
  {<<"draft", "sent">>} \cup ({"sent"} \X Outcomes)

\* The state machine of TDD 5.8: sent after draft, one answer, which is final.
FollowsEdge(q) ==
  Present(q) /\ Present(q)' /\ quote'[q].status # quote[q].status
    => <<quote[q].status, quote'[q].status>> \in Edges

StateMachineUnlessMet == [][\A q \in QuoteIds \ met : FollowsEdge(q)]_vars

\* What the customer was sent is what he answers: from sent on, a quote keeps
\* its content and is not deleted ("fully frozen", TDD 5.8).
SentFrozenUnlessMet ==
  [][\A q \in QuoteIds \ met :
       Present(q) /\ quote[q].status # "draft"
         => /\ Present(q)'
            /\ \A f \in {"number", "partner", "lines", "discount", "totals"} :
                 quote'[q][f] = quote[q][f]]_vars

\* A revision starts as a copy of a quote whose revision was requested.
RevisionsCopyUnlessMet ==
  [][\A q \in QuoteIds :
       /\ quote[q] = Absent /\ Present(q)'
       /\ quote'[q].supersedes \in QuoteIds \ met
       => LET s == quote'[q].supersedes
          IN /\ quote[s].status = "revision_requested"
             /\ \A f \in {"workspace", "partner", "lines", "discount", "totals"} :
                  quote'[q][f] = quote[s][f]]_vars
=============================================================================
