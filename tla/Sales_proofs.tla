------------------------------ MODULE Sales_proofs ------------------------------
(***************************************************************************)
(* Sales, for every set of workspaces, quotes, invoices and concurrent     *)
(* requests: the two halves of each link agree, and a customer is billed   *)
(* once for a quote.  The invariants of Quotes and of Invoices, which hold *)
(* here because each step is one of each side, say what a request may rely *)
(* on.                                                                     *)
(***************************************************************************)
EXTENDS Sales, TLAPS

\* The theorems about each side.  What they name is what Q and I name.
QP == INSTANCE Quotes_proofs WITH
        counter <- quoteCounter, req <- quoteReq, met <- quoteMet,
        Requests <- QuoteRequests

IP == INSTANCE Invoices_proofs WITH
        counter <- invoiceCounter, req <- invoiceReq, met <- invoiceMet,
        Requests <- InvoiceRequests

LEMMA Assumptions ==
  QP!DocumentsAssumption /\ QP!QuotesAssumption /\ IP!DocumentsAssumption
BY DocumentsAssumption, SalesAssumption
DEF QP!DocumentsAssumption, IP!DocumentsAssumption, QP!QuotesAssumption, QP!NoQuote,
    Q!NoQuote, QP!NoInvoice, Q!NoInvoice, QP!QuoteStatus, Q!QuoteStatus, QP!Outcomes,
    Q!Outcomes

LEMMA SameTypes == (Q!TypeOK <=> QP!TypeOK) /\ (I!TypeOK <=> IP!TypeOK)
<1>1. Q!TypeOK <=> QP!TypeOK
  BY Zenon
  DEF Q!TypeOK, QP!TypeOK, Q!RequestState, QP!RequestState, Q!Series, QP!Series,
      Q!Absent, QP!Absent, Q!Deleted, QP!Deleted, Q!Idle, QP!Idle, Q!NoQuote,
      QP!NoQuote, Q!Customers, QP!Customers, Q!Years, QP!Years, Q!AllTotals,
      QP!AllTotals, Q!Numbered, QP!Numbered, Q!Updating, QP!Updating, Q!Creating,
      QP!Creating, Q!QuoteRow, QP!QuoteRow, Q!QuoteStatus, QP!QuoteStatus,
      Q!Outcomes, QP!Outcomes, Q!NoInvoice, QP!NoInvoice, Q!Converting,
      QP!Converting, Q!Holding, QP!Holding
<1>2. I!TypeOK <=> IP!TypeOK
  BY Zenon
  DEF I!TypeOK, IP!TypeOK, I!RequestState, IP!RequestState, I!Series, IP!Series,
      I!Absent, IP!Absent, I!Deleted, IP!Deleted, I!Idle, IP!Idle, I!NoQuote,
      IP!NoQuote, I!Customers, IP!Customers, I!Years, IP!Years, I!AllTotals,
      IP!AllTotals, I!Numbered, IP!Numbered, I!Updating, IP!Updating, I!Issuing,
      IP!Issuing, I!Removing, IP!Removing, I!InvoiceRow, IP!InvoiceRow, I!Numbers,
      IP!Numbers, I!NoNumber, IP!NoNumber
<1> QED
  BY <1>1, <1>2

LEMMA SameQuoteSteps ==
  (Q!Init <=> QP!Init) /\ (Q!Next <=> QP!Next) /\ Q!vars = QP!vars
BY Zenon
DEF Q!vars, QP!vars, Q!Customers, QP!Customers, Q!Years, QP!Years, Q!Totals, QP!Totals, Q!AllTotals,
    QP!AllTotals, Q!Fields, QP!Fields, Q!Edited, QP!Edited, Q!Outcomes, QP!Outcomes,
    Q!Absent, QP!Absent, Q!Deleted, QP!Deleted, Q!NoQuote, QP!NoQuote, Q!NoInvoice,
    QP!NoInvoice, Q!Series, QP!Series, Q!Idle, QP!Idle, Q!Present, QP!Present,
    Q!InCreate, QP!InCreate, Q!Locked, QP!Locked, Q!Fresh, QP!Fresh, Q!Finds,
    QP!Finds, Q!ReadAs, QP!ReadAs, Q!WriteStatus, QP!WriteStatus, Q!Init, QP!Init,
    Q!Create, QP!Create, Q!ReviseRead, QP!ReviseRead, Q!TakeNumber, QP!TakeNumber,
    Q!CommitQuote, QP!CommitQuote, Q!SendRead, QP!SendRead, Q!SendWrite,
    QP!SendWrite, Q!AnswerRead, QP!AnswerRead, Q!AnswerWrite, QP!AnswerWrite,
    Q!UpdateRead, QP!UpdateRead, Q!UpdateWrite, QP!UpdateWrite, Q!RemoveRead,
    QP!RemoveRead, Q!RemoveWrite, QP!RemoveWrite, Q!ConvertRead, QP!ConvertRead,
    Q!ConvertWrite, QP!ConvertWrite, Q!InvoiceRemoved, QP!InvoiceRemoved, Q!Abandon,
    QP!Abandon, Q!NewYear, QP!NewYear, Q!Reads, QP!Reads, Q!Writes, QP!Writes,
    Q!QuoteStep, QP!QuoteStep, Q!Targets, QP!Targets, Q!Meeting, QP!Meeting,
    Q!Remember, QP!Remember, Q!Next, QP!Next, Q!QuoteStatus, QP!QuoteStatus

LEMMA SameInvoiceSteps ==
  (I!Init <=> IP!Init) /\ (I!Next <=> IP!Next) /\ I!vars = IP!vars
BY Zenon
DEF I!vars, IP!vars, I!Customers, IP!Customers, I!Years, IP!Years, I!Totals, IP!Totals, I!AllTotals,
    IP!AllTotals, I!NoNumber, IP!NoNumber, I!Fields, IP!Fields, I!Edited, IP!Edited,
    I!Absent, IP!Absent, I!Deleted, IP!Deleted, I!NoQuote, IP!NoQuote, I!Series,
    IP!Series, I!Idle, IP!Idle, I!Present, IP!Present, I!Issued, IP!Issued,
    I!Locked, IP!Locked, I!FindsDraft, IP!FindsDraft, I!NewDraft, IP!NewDraft,
    I!Init, IP!Init, I!Create, IP!Create, I!IssueRead, IP!IssueRead, I!TakeNumber,
    IP!TakeNumber, I!IssueCommit, IP!IssueCommit, I!UpdateRead, IP!UpdateRead,
    I!UpdateWrite, IP!UpdateWrite, I!RemoveRead, IP!RemoveRead, I!RemoveWrite,
    IP!RemoveWrite, I!Converted, IP!Converted, I!QuoteRemoved, IP!QuoteRemoved,
    I!Abandon, IP!Abandon, I!NewYear, IP!NewYear, I!RequestStep, IP!RequestStep,
    I!CreateStep, IP!CreateStep, I!InvoiceStep, IP!InvoiceStep, I!QuotesServiceStep,
    IP!QuotesServiceStep, I!Meeting, IP!Meeting, I!Remember, IP!Remember, I!Next,
    IP!Next

-----------------------------------------------------------------------------
(* What the invariants of the two sides say here                            *)

\* A conversion that no other request met finds the quote as it was read.
AsRead(c) ==
  /\ quote[c.id].status = "accepted"
  /\ quote[c.id].workspace = c.workspace
  /\ quote[c.id].partner = c.partner
  /\ quote[c.id].lines = c.lines
  /\ quote[c.id].discount = c.discount
  /\ quote[c.id].totals = c.totals

QuoteFacts ==
  /\ Q!TypeOK
  /\ Q!Meeting \subseteq quoteMet
  /\ \A r \in QuoteRequests :
       /\ quoteReq[r].at = "numbered" =>
            quoteReq[r].id \in QuoteIds /\ quote[quoteReq[r].id] = Q!Absent
       /\ quoteReq[r].at = "converting" =>
            /\ quoteReq[r] \in Q!Converting
            /\ quoteReq[r].id \notin quoteMet => AsRead(quoteReq[r])
       /\ quoteReq[r].at \in {"sending", "answering", "updating", "removing"} =>
            quoteReq[r].id \in QuoteIds
  /\ \A q \in QuoteIds \ quoteMet :
       Q!Present(q) => quote[q].totals = Q!Totals(quote[q].lines, quote[q].discount)
  /\ \A q \in QuoteIds : Q!Present(q) =>
       /\ quote[q] \in Q!QuoteRow
       /\ q \notin quoteMet /\ quote[q].converted # Q!NoInvoice
            => quote[q].status = "accepted"
       /\ quote[q].supersedes \in QuoteIds \ quoteMet
            => quote[quote[q].supersedes].status = "revision_requested"

InvoiceFacts ==
  /\ I!TypeOK
  /\ I!Meeting \subseteq invoiceMet
  /\ \A r \in InvoiceRequests :
       /\ invoiceReq[r] # I!Idle =>
            /\ invoiceReq[r].id \in InvoiceIds
            /\ invoiceReq[r].id \notin invoiceMet =>
                 invoice[invoiceReq[r].id].status = "draft"
       /\ invoiceReq[r].at = "updating" /\ invoiceReq[r].id \notin invoiceMet =>
            /\ invoiceReq[r].lines = invoice[invoiceReq[r].id].lines
            /\ invoiceReq[r].discount = invoice[invoiceReq[r].id].discount
  /\ \A i \in InvoiceIds : I!Present(i) => invoice[i] \in I!InvoiceRow

LEMMA FromQuotes == QP!IInv /\ QP!Answered => QuoteFacts
<1> SUFFICES ASSUME QP!IInv, QP!Answered PROVE QuoteFacts
  OBVIOUS
<1>1. Q!TypeOK /\ QP!TypeOK
  BY SameTypes DEF QP!IInv
<1>2. Q!Meeting \subseteq quoteMet
  <2>1. \A r \in QuoteRequests : Q!Targets(r) = QP!Targets(r)
    BY Zenon
    DEF Q!Targets, QP!Targets, Q!Idle, QP!Idle, Q!InCreate, QP!InCreate, Q!NoQuote,
        QP!NoQuote
  <2> QED
    BY <2>1 DEF Q!Meeting, QP!IInv, QP!Noticed
<1>3. ASSUME NEW r \in QuoteRequests
      PROVE  /\ quoteReq[r].at = "numbered" =>
                  quoteReq[r].id \in QuoteIds /\ quote[quoteReq[r].id] = Q!Absent
             /\ quoteReq[r].at = "converting" =>
                  /\ quoteReq[r] \in Q!Converting
                  /\ quoteReq[r].id \notin quoteMet => AsRead(quoteReq[r])
             /\ quoteReq[r].at \in {"sending", "answering", "updating", "removing"} =>
                  quoteReq[r].id \in QuoteIds
  <2>1. PICK c : c = quoteReq[r]
    OBVIOUS
  <2>2. c \in Q!RequestState /\ QP!RequestSound(c)
    BY <1>1, <2>1 DEF Q!TypeOK, QP!IInv
  <2>3. /\ c.at # "idle" => c # QP!Idle /\ c.id \in QuoteIds
        /\ c.at = "converting" => c \in Q!Converting
    BY <2>2
    DEF Q!RequestState, Q!Idle, QP!Idle, Q!Creating, Q!Numbered, Q!Updating,
        Q!Converting, Q!Holding
  <2>4. c.at = "numbered" => quote[c.id] = Q!Absent
    BY <2>2 DEF QP!RequestSound, QP!Creates, QP!CreateSound, QP!Absent, Q!Absent
  <2>5. c.at = "converting" /\ c.id \notin quoteMet => AsRead(c)
    BY <2>2, <2>3 DEF QP!RequestSound, QP!Creates, QP!WriteSound, AsRead
  <2> QED
    BY <2>1, <2>3, <2>4, <2>5
<1>4. \A q \in QuoteIds : Q!Present(q) => quote[q] \in Q!QuoteRow
  BY <1>1 DEF Q!TypeOK, Q!Present, Q!QuoteStatus, Q!Outcomes, Q!Absent, Q!Deleted
<1>5. \A q \in QuoteIds \ quoteMet :
        Q!Present(q) => quote[q].totals = Q!Totals(quote[q].lines, quote[q].discount)
  BY DEF QP!IInv, QP!RowSound, QP!Present, Q!Present, QP!QuoteStatus, Q!QuoteStatus,
         QP!Outcomes, Q!Outcomes, QP!Totals, Q!Totals
<1>6. \A q \in QuoteIds : Q!Present(q) =>
        /\ q \notin quoteMet /\ quote[q].converted # Q!NoInvoice
             => quote[q].status = "accepted"
        /\ quote[q].supersedes \in QuoteIds \ quoteMet
             => quote[quote[q].supersedes].status = "revision_requested"
  BY DEF QP!Answered, QP!Present, Q!Present, QP!QuoteStatus, Q!QuoteStatus,
         QP!Outcomes, Q!Outcomes, QP!NoInvoice, Q!NoInvoice
<1> QED
  BY <1>1, <1>2, <1>3, <1>4, <1>5, <1>6 DEF QuoteFacts

LEMMA FromInvoices == IP!IInv => InvoiceFacts
<1> SUFFICES ASSUME IP!IInv PROVE InvoiceFacts
  OBVIOUS
<1>1. I!TypeOK
  BY SameTypes DEF IP!IInv
<1>2. I!Meeting \subseteq invoiceMet
  BY DEF I!Meeting, IP!IInv, IP!Noticed, I!Idle, IP!Idle
<1>3. ASSUME NEW r \in InvoiceRequests
      PROVE  /\ invoiceReq[r] # I!Idle =>
                  /\ invoiceReq[r].id \in InvoiceIds
                  /\ invoiceReq[r].id \notin invoiceMet =>
                       invoice[invoiceReq[r].id].status = "draft"
             /\ invoiceReq[r].at = "updating" /\ invoiceReq[r].id \notin invoiceMet =>
                  /\ invoiceReq[r].lines = invoice[invoiceReq[r].id].lines
                  /\ invoiceReq[r].discount = invoice[invoiceReq[r].id].discount
  <2>1. PICK c : c = invoiceReq[r]
    OBVIOUS
  <2>2. c \in I!RequestState /\ IP!RequestSound(c)
    BY <1>1, <2>1 DEF I!TypeOK, IP!IInv
  <2>3. c # I!Idle => c.id \in InvoiceIds
    BY <2>2 DEF I!RequestState, I!Idle, I!Issuing, I!Numbered, I!Updating, I!Removing
  <2>4. c.at = "updating" /\ c.id \notin invoiceMet =>
          c.lines = invoice[c.id].lines /\ c.discount = invoice[c.id].discount
    BY <2>2 DEF IP!RequestSound, IP!Idle
  <2>5. c # I!Idle /\ c.id \notin invoiceMet => invoice[c.id].status = "draft"
    BY <2>2 DEF IP!RequestSound, IP!Idle, I!Idle
  <2> QED
    BY <2>1, <2>3, <2>4, <2>5
<1>4. \A i \in InvoiceIds : I!Present(i) => invoice[i] \in I!InvoiceRow
  BY <1>1 DEF I!TypeOK, I!Present, I!Absent, I!Deleted
<1> QED
  BY <1>1, <1>2, <1>3, <1>4 DEF InvoiceFacts

-----------------------------------------------------------------------------
(* Each step is a step of Quotes and of Invoices, or leaves that side alone *)

\* The steps of one side leave the clock alone.
LEMMA SameYear ==
  /\ \A r : Q!QuoteStep(r) => year' = year
  /\ I!InvoiceStep => year' = year
<1>1. ASSUME NEW r, Q!QuoteStep(r) PROVE year' = year
  BY <1>1
  DEF Q!QuoteStep, Q!Create, Q!Reads, Q!Writes, Q!SendRead, Q!AnswerRead, Q!UpdateRead,
      Q!RemoveRead, Q!ConvertRead, Q!ReviseRead, Q!ReadAs, Q!TakeNumber, Q!CommitQuote,
      Q!SendWrite, Q!AnswerWrite, Q!WriteStatus, Q!UpdateWrite, Q!Abandon
<1>2. ASSUME I!InvoiceStep PROVE year' = year
  BY <1>2
  DEF I!InvoiceStep, I!CreateStep, I!Create, I!RequestStep, I!IssueRead, I!TakeNumber,
      I!IssueCommit, I!UpdateRead, I!UpdateWrite, I!RemoveRead, I!Abandon
<1> QED
  BY <1>1, <1>2

\* A side that is left alone has no new meeting to remember.
LEMMA LeftAlone ==
  ASSUME year' = year
  PROVE  /\ QuoteFacts /\ UNCHANGED quoteVars /\ Q!Remember => UNCHANGED Q!vars
         /\ InvoiceFacts /\ UNCHANGED invoiceVars /\ I!Remember => UNCHANGED I!vars
<1>1. ASSUME QuoteFacts, UNCHANGED quoteVars, Q!Remember PROVE UNCHANGED Q!vars
  <2>1. Q!Meeting' = Q!Meeting
    BY <1>1 DEF quoteVars, Q!Meeting, Q!Targets, Q!InCreate
  <2> QED
    BY <1>1, <2>1 DEF QuoteFacts, quoteVars, Q!Remember, Q!vars
<1>2. ASSUME InvoiceFacts, UNCHANGED invoiceVars, I!Remember PROVE UNCHANGED I!vars
  <2>1. I!Meeting' = I!Meeting
    BY <1>2 DEF invoiceVars, I!Meeting
  <2> QED
    BY <1>2, <2>1 DEF InvoiceFacts, invoiceVars, I!Remember, I!vars
<1> QED
  BY <1>1, <1>2

LEMMA StepIsOfQuotes ==
  ASSUME QuoteFacts, InvoiceFacts, [Next]_vars
  PROVE  [Q!Next]_Q!vars
<1>1. CASE UNCHANGED vars
  BY <1>1 DEF vars, quoteVars, Q!vars
<1> SUFFICES ASSUME Next PROVE [Q!Next]_Q!vars
  BY <1>1
<1>2. Q!Remember
  BY DEF Next
<1>3. CASE \E r \in QuoteRequests : Q!QuoteStep(r)
  BY <1>2, <1>3 DEF Q!Next
<1>4. CASE I!InvoiceStep /\ UNCHANGED quoteVars
  BY <1>2, <1>4, SameYear, LeftAlone
<1>5. CASE \E r \in QuoteRequests, i \in InvoiceIds : Convert(r, i)
  BY <1>2, <1>5 DEF Convert, Q!Next
<1>6. ASSUME NEW r \in InvoiceRequests, RemoveInvoice(r) PROVE Q!Next
  <2>1. invoiceReq[r].id \in InvoiceIds
    BY <1>6 DEF RemoveInvoice, I!RemoveWrite, InvoiceFacts, I!Idle
  <2> QED
    BY <1>2, <1>6, <2>1 DEF RemoveInvoice, Q!Next
<1>7. CASE \E r \in QuoteRequests : RemoveQuote(r)
  BY <1>2, <1>7 DEF RemoveQuote, Q!Next
<1>8. CASE NewYear
  BY <1>2, <1>8 DEF NewYear, Q!Next
<1> QED
  BY <1>3, <1>4, <1>5, <1>6, <1>7, <1>8 DEF Next

LEMMA StepIsOfInvoices ==
  ASSUME QuoteFacts, InvoiceFacts, [Next]_vars
  PROVE  [I!Next]_I!vars
<1>1. CASE UNCHANGED vars
  BY <1>1 DEF vars, invoiceVars, I!vars
<1> SUFFICES ASSUME Next PROVE [I!Next]_I!vars
  BY <1>1
<1>2. I!Remember
  BY DEF Next
<1>3. CASE (\E r \in QuoteRequests : Q!QuoteStep(r)) /\ UNCHANGED invoiceVars
  BY <1>2, <1>3, SameYear, LeftAlone
<1>4. CASE I!InvoiceStep
  BY <1>2, <1>4 DEF I!Next
<1>5. ASSUME NEW r \in QuoteRequests, NEW i \in InvoiceIds, Convert(r, i) PROVE I!Next
  <2>1. PICK c : c = quoteReq[r]
    OBVIOUS
  <2>2. c \in Q!Converting
    BY <1>5, <2>1 DEF Convert, Q!ConvertWrite, QuoteFacts
  <2>3. /\ c.workspace \in Workspaces /\ c.partner \in I!Customers /\ c.lines \in Lines
        /\ c.discount \in Discounts /\ c.totals \in I!AllTotals /\ c.id \in QuoteIds
    BY <2>2 DEF Q!Converting, Q!Customers, I!Customers, Q!AllTotals, I!AllTotals
  <2>4. I!Converted(c.workspace, c.partner, c.lines, c.discount, c.totals, c.id, i)
    BY <1>5, <2>1 DEF Convert
  <2>5. I!QuotesServiceStep
    BY <2>3, <2>4 DEF I!QuotesServiceStep
  <2> QED
    BY <1>2, <2>5 DEF I!Next
<1>6. CASE \E r \in InvoiceRequests : RemoveInvoice(r)
  BY <1>2, <1>6 DEF RemoveInvoice, I!Next
<1>7. ASSUME NEW r \in QuoteRequests, RemoveQuote(r) PROVE I!Next
  <2>1. quoteReq[r].id \in QuoteIds
    BY <1>7 DEF RemoveQuote, Q!RemoveWrite, QuoteFacts
  <2>2. I!QuotesServiceStep
    BY <1>7, <2>1 DEF RemoveQuote, I!QuotesServiceStep
  <2> QED
    BY <1>2, <2>2 DEF I!Next
<1>8. CASE NewYear
  BY <1>2, <1>8 DEF NewYear, I!Next
<1> QED
  BY <1>3, <1>4, <1>5, <1>6, <1>7, <1>8 DEF Next

-----------------------------------------------------------------------------
(* The inductive invariant                                                  *)

\* A bill for quote q stays: the invoice is issued, and it names q, or q is gone.
BilledFor(q, i) == I!Issued(i) /\ (invoice[i].quote = q \/ quote[q] = Q!Deleted)

BillsStand ==
  /\ billed \in [QuoteIds -> SUBSET InvoiceIds]
  /\ \A q \in QuoteIds : \A i \in billed[q] \ invoiceMet : BilledFor(q, i)

SInv ==
  /\ QP!IInv /\ QP!Answered /\ IP!IInv
  /\ LinksAgree /\ TotalsMatchUnlessMet
  /\ BillsStand /\ BilledOnce

LEMMA Facts == SInv => QuoteFacts /\ InvoiceFacts
BY FromQuotes, FromInvoices DEF SInv

LEMMA InitSInv == Init => SInv
<1> SUFFICES ASSUME Init PROVE SInv
  OBVIOUS
<1>1. QP!IInv /\ QP!Answered
  BY QP!InitIInv, QP!InitAnswered, Assumptions, SameQuoteSteps DEF Init
<1>2. IP!IInv
  BY IP!InitIInv, Assumptions, SameInvoiceSteps DEF Init
<1>3. LinksAgree
  BY DEF Init, Q!Init, I!Init, LinksAgree, Q!Present, I!Present, Q!QuoteStatus,
         Q!Outcomes, Q!Absent, I!Absent
<1>4. TotalsMatchUnlessMet
  BY DEF Init, I!Init, TotalsMatchUnlessMet, I!TotalsAgree, I!Present, I!Absent
<1>5. BillsStand /\ BilledOnce
  BY DEF Init, BillsStand, BilledOnce
<1> QED
  BY <1>1, <1>2, <1>3, <1>4, <1>5 DEF SInv

\* The quote's half of the link of quote q and invoice i, and the invoice's.
QuoteHalf(q, i) == Q!Present(q) /\ quote[q].converted = i

InvoiceHalf(q, i) == I!Present(i) /\ invoice[i].quote = q

\* A step of quotes that are neither converted nor deleted leaves their halves.
LEMMA QuoteStepKeepsLinks ==
  ASSUME QuoteFacts, NEW r \in QuoteRequests, Q!QuoteStep(r),
         NEW q \in QuoteIds, NEW i \in InvoiceIds
  PROVE  QuoteHalf(q, i)' <=> QuoteHalf(q, i)
<1>1. CASE quote' = quote
  BY <1>1 DEF QuoteHalf, Q!Present
<1>2. PICK p : p = quoteReq[r].id
  OBVIOUS
<1>3. CASE p # q /\ \E row : quote' = [quote EXCEPT ![p] = row]
  <2>1. quote'[q] = quote[q]
    BY <1>3
  <2> QED
    BY <2>1 DEF QuoteHalf, Q!Present
<1>4. CASE Q!CommitQuote(r) /\ p = q
  <2>1. quote[q] = Q!Absent
    <3>1. quoteReq[r].at = "numbered"
      BY <1>4 DEF Q!CommitQuote
    <3>2. quoteReq[r].at = "numbered" => quote[quoteReq[r].id] = Q!Absent
      BY DEF QuoteFacts
    <3> QED
      BY <1>2, <1>4, <3>1, <3>2
  <2>2. quote'[q].converted = Q!NoInvoice
    BY <1>2, <1>4 DEF Q!CommitQuote, QuoteFacts, Q!TypeOK
  <2> QED
    BY <2>1, <2>2, SalesAssumption
    DEF QuoteHalf, Q!Present, Q!Absent, Q!QuoteStatus, Q!Outcomes
<1>5. ASSUME NEW at \in {"sending", "answering"}, NEW status \in Q!QuoteStatus,
             Q!WriteStatus(r, at, status), p = q
      PROVE  QuoteHalf(q, i)' <=> QuoteHalf(q, i)
  <2>1. Q!Present(q) /\ quote[q] \in Q!QuoteRow
    BY <1>2, <1>5 DEF Q!WriteStatus, QuoteFacts
  <2>2. quote'[q] = [quote[q] EXCEPT !.status = status]
    BY <1>2, <1>5 DEF Q!WriteStatus, QuoteFacts, Q!TypeOK
  <2>3. quote'[q].status = status /\ quote'[q].converted = quote[q].converted
    BY <2>1, <2>2 DEF Q!QuoteRow
  <2> QED
    BY <1>5, <2>1, <2>3 DEF QuoteHalf, Q!Present
<1>6. ASSUME NEW given, NEW partner, NEW lines, NEW discount,
             Q!UpdateWrite(r, given, partner, lines, discount), p = q
      PROVE  QuoteHalf(q, i)' <=> QuoteHalf(q, i)
  <2>1. Q!Present(q) /\ quote[q] \in Q!QuoteRow
    BY <1>2, <1>6 DEF Q!UpdateWrite, QuoteFacts
  <2>2. quote'[q] = Q!Edited(quote[q], quoteReq[r], given, partner, lines, discount)
    BY <1>2, <1>6 DEF Q!UpdateWrite, QuoteFacts, Q!TypeOK
  <2>3. quote'[q].status = quote[q].status /\ quote'[q].converted = quote[q].converted
    BY <2>1, <2>2 DEF Q!QuoteRow, Q!Edited
  <2> QED
    BY <2>3 DEF QuoteHalf, Q!Present
<1> QED
  BY <1>1, <1>2, <1>3, <1>4, <1>5, <1>6, SalesAssumption
  DEF Q!QuoteStep, Q!Create, Q!Reads, Q!Writes, Q!SendRead, Q!AnswerRead, Q!UpdateRead,
      Q!RemoveRead, Q!ConvertRead, Q!ReviseRead, Q!ReadAs, Q!TakeNumber, Q!CommitQuote,
      Q!SendWrite, Q!AnswerWrite, Q!WriteStatus, Q!UpdateWrite, Q!Abandon, Q!QuoteStatus

\* A step of invoices that are not deleted leaves their halves.
LEMMA InvoiceStepKeepsLinks ==
  ASSUME InvoiceFacts, I!InvoiceStep, NEW q \in QuoteIds, NEW i \in InvoiceIds
  PROVE  InvoiceHalf(q, i)' <=> InvoiceHalf(q, i)
<1>1. CASE invoice' = invoice
  BY <1>1 DEF InvoiceHalf, I!Present
<1>2. ASSUME NEW w \in Workspaces, NEW partner, NEW lines, NEW discount,
             NEW j \in InvoiceIds, I!Create(w, partner, lines, discount, j)
      PROVE  InvoiceHalf(q, i)' <=> InvoiceHalf(q, i)
  <2>1. CASE j # i
    BY <1>2, <2>1 DEF I!Create, InvoiceHalf, I!Present, InvoiceFacts, I!TypeOK
  <2>2. CASE j = i
    <3>1. invoice[i] = I!Absent /\ invoice'[i].quote = I!NoQuote
      BY <1>2, <2>2 DEF I!Create, I!NewDraft, InvoiceFacts, I!TypeOK
    <3> QED
      BY <3>1, SalesAssumption DEF InvoiceHalf, I!Present, I!Absent, I!NoQuote, Q!NoQuote
  <2> QED
    BY <2>1, <2>2
<1>3. ASSUME NEW r \in InvoiceRequests, I!IssueCommit(r)
      PROVE  InvoiceHalf(q, i)' <=> InvoiceHalf(q, i)
  <2>1. PICK j : j = invoiceReq[r].id
    OBVIOUS
  <2>2. CASE j # i
    BY <1>3, <2>1, <2>2 DEF I!IssueCommit, InvoiceHalf, I!Present, InvoiceFacts, I!TypeOK
  <2>3. CASE j = i
    <3>1. I!Present(i) /\ invoice[i] \in I!InvoiceRow
      BY <1>3, <2>1, <2>3 DEF I!IssueCommit, InvoiceFacts
    <3>2. invoice'[i] = [invoice[i] EXCEPT !.status = "issued",
                           !.number = <<invoiceReq[r].series[2], invoiceReq[r].number>>]
      BY <1>3, <2>1, <2>3 DEF I!IssueCommit, InvoiceFacts, I!TypeOK
    <3>3. invoice'[i].status = "issued" /\ invoice'[i].quote = invoice[i].quote
      BY <3>1, <3>2 DEF I!InvoiceRow
    <3> QED
      BY <3>1, <3>3 DEF InvoiceHalf, I!Present
  <2> QED
    BY <2>2, <2>3
<1>4. ASSUME NEW r \in InvoiceRequests, NEW given, NEW partner, NEW lines, NEW discount,
             I!UpdateWrite(r, given, partner, lines, discount)
      PROVE  InvoiceHalf(q, i)' <=> InvoiceHalf(q, i)
  <2>1. PICK j : j = invoiceReq[r].id
    OBVIOUS
  <2>2. CASE j # i
    BY <1>4, <2>1, <2>2 DEF I!UpdateWrite, InvoiceHalf, I!Present, InvoiceFacts, I!TypeOK
  <2>3. CASE j = i
    <3>1. I!Present(i) /\ invoice[i] \in I!InvoiceRow
      BY <1>4, <2>1, <2>3 DEF I!UpdateWrite, InvoiceFacts
    <3>2. invoice'[i] = I!Edited(invoice[i], invoiceReq[r], given, partner, lines, discount)
      BY <1>4, <2>1, <2>3 DEF I!UpdateWrite, InvoiceFacts, I!TypeOK
    <3>3. invoice'[i].status = invoice[i].status /\ invoice'[i].quote = invoice[i].quote
      BY <3>1, <3>2 DEF I!InvoiceRow, I!Edited
    <3> QED
      BY <3>3 DEF InvoiceHalf, I!Present
  <2> QED
    BY <2>2, <2>3
<1> QED
  BY <1>1, <1>2, <1>3, <1>4
  DEF I!InvoiceStep, I!CreateStep, I!RequestStep, I!IssueRead, I!TakeNumber,
      I!UpdateRead, I!RemoveRead, I!Abandon

\* The new invoice takes the link of a quote that has none.
LEMMA ConvertLinks ==
  ASSUME QuoteFacts, InvoiceFacts, LinksAgree,
         NEW r \in QuoteRequests, NEW j \in InvoiceIds, Convert(r, j),
         NEW q \in QuoteIds, NEW i \in InvoiceIds
  PROVE  QuoteHalf(q, i)' <=> InvoiceHalf(q, i)'
<1>1. PICK c, p : c = quoteReq[r] /\ p = quoteReq[r].id
  OBVIOUS
<1>2. /\ p \in QuoteIds /\ Q!Present(p) /\ quote[p] \in Q!QuoteRow
      /\ \A k \in QuoteIds : Q!Present(k) => quote[k].converted # j
      /\ quote' = [quote EXCEPT ![p].converted = j]
  BY <1>1 DEF Convert, Q!ConvertWrite, QuoteFacts, Q!Converting
<1>3. PICK row : row = I!NewDraft(c.workspace, c.partner, c.lines, c.discount, c.totals, p)
  OBVIOUS
<1>4. /\ row.status = "draft" /\ row.quote = p
      /\ invoice[j] = I!Absent /\ invoice' = [invoice EXCEPT ![j] = row]
      /\ \A k \in InvoiceIds : I!Present(k) => invoice[k].quote # p
  BY <1>1, <1>3 DEF Convert, I!Converted, I!NewDraft
<1>5. /\ quote'[p].converted = j /\ quote'[p].status = quote[p].status
      /\ \A k \in QuoteIds \ {p} : quote'[k] = quote[k]
  BY <1>2 DEF QuoteFacts, Q!TypeOK, Q!QuoteRow
<1>6. invoice'[j] = row /\ \A k \in InvoiceIds \ {j} : invoice'[k] = invoice[k]
  BY <1>4 DEF InvoiceFacts, I!TypeOK
<1>7. CASE q = p /\ i = j
  BY <1>2, <1>4, <1>5, <1>6, <1>7 DEF QuoteHalf, InvoiceHalf, Q!Present, I!Present
<1>8. CASE q = p /\ i # j
  BY <1>4, <1>5, <1>6, <1>8 DEF QuoteHalf, InvoiceHalf, I!Present
<1>9. CASE q # p /\ i = j
  BY <1>2, <1>4, <1>5, <1>6, <1>9 DEF QuoteHalf, InvoiceHalf, Q!Present
<1>10. CASE q # p /\ i # j
  BY <1>5, <1>6, <1>10 DEF QuoteHalf, InvoiceHalf, Q!Present, I!Present, LinksAgree
<1> QED
  BY <1>7, <1>8, <1>9, <1>10

\* A deleted invoice is no quote's any more.
LEMMA RemoveInvoiceUnlinks ==
  ASSUME QuoteFacts, InvoiceFacts, LinksAgree,
         NEW r \in InvoiceRequests, RemoveInvoice(r),
         NEW q \in QuoteIds, NEW i \in InvoiceIds
  PROVE  QuoteHalf(q, i)' <=> InvoiceHalf(q, i)'
<1>1. PICK j : j = invoiceReq[r].id
  OBVIOUS
<1>2. /\ invoice' = [invoice EXCEPT ![j] = I!Deleted]
      /\ quote' = [k \in QuoteIds |->
           IF Q!Present(k) /\ quote[k].converted = j
           THEN [quote[k] EXCEPT !.converted = Q!NoInvoice] ELSE quote[k]]
  BY <1>1 DEF RemoveInvoice, I!RemoveWrite, Q!InvoiceRemoved
<1>3. QuoteHalf(q, i)' <=> QuoteHalf(q, i) /\ i # j
  <2>1. CASE Q!Present(q) /\ quote[q].converted = j
    <3>1. quote[q] \in Q!QuoteRow
      BY <2>1 DEF QuoteFacts
    <3>2. quote'[q].converted = Q!NoInvoice
      BY <1>2, <2>1, <3>1 DEF Q!QuoteRow
    <3> QED
      BY <2>1, <3>2, SalesAssumption DEF QuoteHalf
  <2>2. CASE ~(Q!Present(q) /\ quote[q].converted = j)
    BY <1>2, <2>2 DEF QuoteHalf, Q!Present
  <2> QED
    BY <2>1, <2>2
<1>4. InvoiceHalf(q, i)' <=> InvoiceHalf(q, i) /\ i # j
  BY <1>2 DEF InvoiceHalf, I!Present, I!Deleted, InvoiceFacts, I!TypeOK
<1> QED
  BY <1>3, <1>4 DEF LinksAgree, QuoteHalf, InvoiceHalf

\* A deleted quote is no invoice's any more.
LEMMA RemoveQuoteUnlinks ==
  ASSUME QuoteFacts, InvoiceFacts, LinksAgree,
         NEW r \in QuoteRequests, RemoveQuote(r),
         NEW q \in QuoteIds, NEW i \in InvoiceIds
  PROVE  QuoteHalf(q, i)' <=> InvoiceHalf(q, i)'
<1>1. PICK p : p = quoteReq[r].id
  OBVIOUS
<1>2. /\ quote' = [k \in QuoteIds |->
           IF k = p THEN Q!Deleted
           ELSE IF Q!Present(k) /\ quote[k].supersedes = p
                THEN [quote[k] EXCEPT !.supersedes = Q!NoQuote]
                ELSE quote[k]]
      /\ invoice' = [k \in InvoiceIds |->
           IF I!Present(k) /\ invoice[k].quote = p
           THEN [invoice[k] EXCEPT !.quote = I!NoQuote] ELSE invoice[k]]
  BY <1>1 DEF RemoveQuote, Q!RemoveWrite, I!QuoteRemoved
<1>3. QuoteHalf(q, i)' <=> QuoteHalf(q, i) /\ q # p
  <2>1. CASE q = p
    <3>1. quote'[q] = Q!Deleted
      BY <1>2, <2>1
    <3> QED
      BY <2>1, <3>1 DEF QuoteHalf, Q!Present, Q!Deleted, Q!QuoteStatus, Q!Outcomes
  <2>2. CASE q # p /\ Q!Present(q) /\ quote[q].supersedes = p
    <3>1. quote[q] \in Q!QuoteRow
      BY <2>2 DEF QuoteFacts
    <3>2. /\ quote'[q].converted = quote[q].converted
          /\ quote'[q].status = quote[q].status
      BY <1>2, <2>2, <3>1 DEF Q!QuoteRow
    <3> QED
      BY <2>2, <3>2 DEF QuoteHalf, Q!Present
  <2>3. CASE q # p /\ ~(Q!Present(q) /\ quote[q].supersedes = p)
    <3>1. quote'[q] = quote[q]
      BY <1>2, <2>3
    <3> QED
      BY <2>3, <3>1 DEF QuoteHalf, Q!Present
  <2> QED
    BY <2>1, <2>2, <2>3
<1>4. InvoiceHalf(q, i)' <=> InvoiceHalf(q, i) /\ q # p
  <2>1. CASE I!Present(i) /\ invoice[i].quote = p
    <3>1. invoice[i] \in I!InvoiceRow
      BY <2>1 DEF InvoiceFacts
    <3>2. invoice'[i].quote = I!NoQuote
      BY <1>2, <2>1, <3>1 DEF I!InvoiceRow
    <3> QED
      BY <2>1, <3>2, SalesAssumption DEF InvoiceHalf, I!NoQuote, Q!NoQuote
  <2>2. CASE ~(I!Present(i) /\ invoice[i].quote = p)
    BY <1>2, <2>2 DEF InvoiceHalf, I!Present
  <2> QED
    BY <2>1, <2>2
<1> QED
  BY <1>3, <1>4 DEF LinksAgree, QuoteHalf, InvoiceHalf

LEMMA StepKeepsLinks ==
  ASSUME QuoteFacts, InvoiceFacts, LinksAgree, [Next]_vars
  PROVE  LinksAgree'
<1> SUFFICES ASSUME NEW q \in QuoteIds, NEW i \in InvoiceIds
             PROVE  QuoteHalf(q, i)' <=> InvoiceHalf(q, i)'
  BY DEF LinksAgree, QuoteHalf, InvoiceHalf
<1>1. QuoteHalf(q, i) <=> InvoiceHalf(q, i)
  BY DEF LinksAgree, QuoteHalf, InvoiceHalf
<1>2. quote' = quote => (QuoteHalf(q, i)' <=> QuoteHalf(q, i))
  BY DEF QuoteHalf, Q!Present
<1>3. invoice' = invoice => (InvoiceHalf(q, i)' <=> InvoiceHalf(q, i))
  BY DEF InvoiceHalf, I!Present
<1>4. CASE UNCHANGED vars
  BY <1>1, <1>2, <1>3, <1>4 DEF vars, quoteVars, invoiceVars
<1>5. CASE (\E r \in QuoteRequests : Q!QuoteStep(r)) /\ UNCHANGED invoiceVars
  BY <1>1, <1>3, <1>5, QuoteStepKeepsLinks DEF invoiceVars
<1>6. CASE I!InvoiceStep /\ UNCHANGED quoteVars
  BY <1>1, <1>2, <1>6, InvoiceStepKeepsLinks DEF quoteVars
<1>7. CASE NewYear
  BY <1>1, <1>2, <1>3, <1>7 DEF NewYear, Q!NewYear, I!NewYear
<1> QED
  BY <1>4, <1>5, <1>6, <1>7, ConvertLinks, RemoveInvoiceUnlinks, RemoveQuoteUnlinks
  DEF Next

\* Content and status of invoice i stay.
SameContent(i) ==
  /\ I!Present(i)' => I!Present(i)
  /\ I!Present(i)' => \A f \in {"lines", "discount", "totals"} : invoice'[i][f] = invoice[i][f]

LEMMA SameAmounts ==
  ASSUME NEW i, SameContent(i), I!TotalsAgree(i)
  PROVE  I!TotalsAgree(i)'
BY DEF SameContent, I!TotalsAgree

\* The service of the invoices computes the amounts it writes of the content the
\* row then has: an update that no other request met relies on what it read.
LEMMA InvoiceStepKeepsAmounts ==
  ASSUME InvoiceFacts, I!InvoiceStep, NEW i \in InvoiceIds \ invoiceMet, I!TotalsAgree(i)
  PROVE  I!TotalsAgree(i)'
<1>1. CASE invoice'[i] = invoice[i]
  BY <1>1 DEF I!TotalsAgree, I!Present
<1>2. ASSUME NEW w \in Workspaces, NEW partner, NEW lines, NEW discount,
             NEW j \in InvoiceIds, I!Create(w, partner, lines, discount, j), i = j
      PROVE  I!TotalsAgree(i)'
  <2>1. invoice'[i] =
          I!NewDraft(w, partner, lines, discount, I!Totals(lines, discount), I!NoQuote)
    BY <1>2 DEF I!Create, InvoiceFacts, I!TypeOK
  <2> QED
    BY <2>1 DEF I!NewDraft, I!TotalsAgree
<1>3. ASSUME NEW r \in InvoiceRequests, I!IssueCommit(r), invoiceReq[r].id = i
      PROVE  I!TotalsAgree(i)'
  <2>1. I!Present(i) /\ invoice[i] \in I!InvoiceRow
    BY <1>3 DEF I!IssueCommit, InvoiceFacts
  <2>2. invoice'[i] = [invoice[i] EXCEPT !.status = "issued",
                         !.number = <<invoiceReq[r].series[2], invoiceReq[r].number>>]
    BY <1>3 DEF I!IssueCommit, InvoiceFacts, I!TypeOK
  <2>3. SameContent(i)
    BY <2>1, <2>2 DEF SameContent, I!InvoiceRow
  <2> QED
    BY <2>3, SameAmounts
<1>4. ASSUME NEW r \in InvoiceRequests, NEW given, NEW partner, NEW lines, NEW discount,
             I!UpdateWrite(r, given, partner, lines, discount), invoiceReq[r].id = i
      PROVE  I!TotalsAgree(i)'
  <2>1. PICK row, c : row = invoice[i] /\ c = invoiceReq[r]
    OBVIOUS
  <2>2. /\ row \in I!InvoiceRow
        /\ row.totals = I!Totals(row.lines, row.discount)
        /\ c.lines = row.lines /\ c.discount = row.discount
    BY <1>4, <2>1 DEF I!UpdateWrite, InvoiceFacts, I!TotalsAgree
  <2>3. PICK new : new = I!Edited(row, c, given, partner, lines, discount)
    OBVIOUS
  <2>4. invoice'[i] = new
    BY <1>4, <2>1, <2>3 DEF I!UpdateWrite, InvoiceFacts, I!TypeOK
  <2>5. new.totals = I!Totals(new.lines, new.discount)
    <3>1. CASE "lines" \in given
      BY <2>2, <2>3, <3>1 DEF I!Edited, I!InvoiceRow
    <3>2. CASE "lines" \notin given /\ "discountPercent" \in given
      BY <2>2, <2>3, <3>2 DEF I!Edited, I!InvoiceRow
    <3>3. CASE "lines" \notin given /\ "discountPercent" \notin given
      BY <2>2, <2>3, <3>3 DEF I!Edited, I!InvoiceRow
    <3> QED
      BY <3>1, <3>2, <3>3
  <2> QED
    BY <2>4, <2>5 DEF I!TotalsAgree
<1> QED
  <2>1. \A r \in InvoiceRequests : I!IssueCommit(r) /\ invoiceReq[r].id # i => invoice'[i] = invoice[i]
    BY DEF I!IssueCommit, InvoiceFacts, I!TypeOK
  <2>2. \A r \in InvoiceRequests : \A given, partner, lines, discount :
          I!UpdateWrite(r, given, partner, lines, discount) /\ invoiceReq[r].id # i
            => invoice'[i] = invoice[i]
    BY DEF I!UpdateWrite, InvoiceFacts, I!TypeOK
  <2>3. \A w, partner, lines, discount, j :
          I!Create(w, partner, lines, discount, j) /\ j # i => invoice'[i] = invoice[i]
    BY DEF I!Create, InvoiceFacts, I!TypeOK
  <2> QED
    BY <1>1, <1>2, <1>3, <1>4, <2>1, <2>2, <2>3
    DEF I!InvoiceStep, I!CreateStep, I!RequestStep, I!IssueRead, I!TakeNumber,
        I!UpdateRead, I!RemoveRead, I!Abandon

\* A conversion copies content and amounts of one and the same reading.
LEMMA StepKeepsAmounts ==
  ASSUME QuoteFacts, InvoiceFacts, TotalsMatchUnlessMet, [Next]_vars
  PROVE  TotalsMatchUnlessMet'
<1> SUFFICES ASSUME quoteMet' = {}, NEW i \in InvoiceIds \ invoiceMet'
             PROVE  I!TotalsAgree(i)'
  BY DEF TotalsMatchUnlessMet
<1>1. quoteMet = {} /\ i \in InvoiceIds \ invoiceMet
  BY DEF Next, vars, Q!Remember, I!Remember
<1>2. I!TotalsAgree(i)
  BY <1>1 DEF TotalsMatchUnlessMet
<1>3. CASE invoice'[i] = invoice[i]
  BY <1>2, <1>3 DEF I!TotalsAgree, I!Present
<1>4. CASE I!InvoiceStep
  BY <1>1, <1>2, <1>4, InvoiceStepKeepsAmounts
<1>5. ASSUME NEW r \in QuoteRequests, Convert(r, i) PROVE I!TotalsAgree(i)'
  <2>1. PICK c : c = quoteReq[r]
    OBVIOUS
  <2>2. AsRead(c) /\ c.id \in QuoteIds /\ Q!Present(c.id)
    BY <1>1, <1>5, <2>1 DEF Convert, Q!ConvertWrite, QuoteFacts, Q!Converting
  <2>3. c.totals = Q!Totals(c.lines, c.discount)
    BY <1>1, <2>2 DEF QuoteFacts, AsRead
  <2>4. invoice'[i] =
          I!NewDraft(c.workspace, c.partner, c.lines, c.discount, c.totals, c.id)
    BY <1>5, <2>1 DEF Convert, I!Converted, InvoiceFacts, I!TypeOK
  <2> QED
    BY <2>3, <2>4 DEF I!NewDraft, I!TotalsAgree, I!Totals, Q!Totals
<1>6. ASSUME NEW r \in QuoteRequests, NEW j \in InvoiceIds, Convert(r, j), j # i
      PROVE  invoice'[i] = invoice[i]
  BY <1>6 DEF Convert, I!Converted, InvoiceFacts, I!TypeOK
<1>7. ASSUME NEW r \in InvoiceRequests, RemoveInvoice(r) PROVE I!TotalsAgree(i)'
  <2>1. invoice'[i] = invoice[i] \/ invoice'[i] = I!Deleted
    BY <1>7 DEF RemoveInvoice, I!RemoveWrite, InvoiceFacts, I!TypeOK
  <2> QED
    BY <1>3, <2>1 DEF I!TotalsAgree, I!Present, I!Deleted
<1>8. ASSUME NEW r \in QuoteRequests, RemoveQuote(r), invoice'[i] # invoice[i]
      PROVE  I!TotalsAgree(i)'
  <2>1. I!Present(i) /\ invoice[i] \in I!InvoiceRow
    BY <1>8 DEF RemoveQuote, I!QuoteRemoved, InvoiceFacts
  <2>2. invoice'[i] = [invoice[i] EXCEPT !.quote = I!NoQuote]
    BY <1>8 DEF RemoveQuote, I!QuoteRemoved
  <2>3. SameContent(i)
    BY <2>1, <2>2 DEF SameContent, I!InvoiceRow
  <2> QED
    BY <1>2, <2>3, SameAmounts
<1>9. UNCHANGED invoiceVars \/ NewYear \/ UNCHANGED vars => invoice'[i] = invoice[i]
  BY DEF invoiceVars, vars, NewYear, I!NewYear
<1> QED
  BY <1>3, <1>4, <1>5, <1>6, <1>7, <1>8, <1>9 DEF Next

\* A deleted quote stays deleted.
LEMMA DeletedStays ==
  ASSUME QuoteFacts, [Next]_vars, NEW q \in QuoteIds, quote[q] = Q!Deleted
  PROVE  quote'[q] = Q!Deleted
<1>1. ~Q!Present(q) /\ quote[q] # Q!Absent
  BY DEF Q!Present, Q!Deleted, Q!Absent, Q!QuoteStatus, Q!Outcomes
<1>2. ASSUME NEW r \in QuoteRequests, Q!QuoteStep(r) PROVE quote'[q] = quote[q]
  <2>1. ASSUME Q!CommitQuote(r) PROVE quote'[q] = quote[q]
    BY <1>1, <2>1 DEF Q!CommitQuote, QuoteFacts
  <2>2. ASSUME NEW at, NEW status, Q!WriteStatus(r, at, status) PROVE quote'[q] = quote[q]
    BY <1>1, <2>2 DEF Q!WriteStatus
  <2>3. ASSUME NEW given, NEW partner, NEW lines, NEW discount,
               Q!UpdateWrite(r, given, partner, lines, discount)
        PROVE  quote'[q] = quote[q]
    BY <1>1, <2>3 DEF Q!UpdateWrite
  <2> QED
    BY <1>2, <2>1, <2>2, <2>3
    DEF Q!QuoteStep, Q!Create, Q!Reads, Q!Writes, Q!SendRead, Q!AnswerRead, Q!UpdateRead,
        Q!RemoveRead, Q!ConvertRead, Q!ReviseRead, Q!ReadAs, Q!TakeNumber, Q!SendWrite,
        Q!AnswerWrite, Q!Abandon
<1>3. ASSUME NEW r \in QuoteRequests, NEW i \in InvoiceIds, Convert(r, i)
      PROVE  quote'[q] = quote[q]
  BY <1>1, <1>3 DEF Convert, Q!ConvertWrite, QuoteFacts, Q!TypeOK
<1>4. ASSUME NEW r \in InvoiceRequests, RemoveInvoice(r) PROVE quote'[q] = quote[q]
  BY <1>1, <1>4 DEF RemoveInvoice, Q!InvoiceRemoved
<1>5. ASSUME NEW r \in QuoteRequests, RemoveQuote(r) PROVE quote'[q] = Q!Deleted
  BY <1>1, <1>5 DEF RemoveQuote, Q!RemoveWrite
<1> QED
  BY <1>2, <1>3, <1>4, <1>5 DEF Next, vars, quoteVars, NewYear, Q!NewYear

\* An issued invoice that no two requests met on is written by no request: what
\* a request holds on its own is a draft.
LEMMA IssuedIsLeft ==
  ASSUME InvoiceFacts, I!InvoiceStep \/ (\E r \in InvoiceRequests : I!RemoveWrite(r)),
         NEW i \in InvoiceIds \ invoiceMet, I!Issued(i)
  PROVE  invoice'[i] = invoice[i]
<1>1. invoice[i] # I!Absent /\ invoice[i].status # "draft"
  BY DEF I!Issued, I!Absent
<1>2. ASSUME NEW r \in InvoiceRequests, invoiceReq[r] # I!Idle PROVE invoiceReq[r].id # i
  BY <1>1, <1>2 DEF InvoiceFacts
<1>3. \A r \in InvoiceRequests :
        invoiceReq[r].at \in {"numbered", "updating", "removing"} => invoiceReq[r] # I!Idle
  BY DEF I!Idle
<1>4. ASSUME NEW r \in InvoiceRequests, I!RequestStep(r) PROVE invoice'[i] = invoice[i]
  BY <1>2, <1>3, <1>4
  DEF I!RequestStep, I!IssueRead, I!TakeNumber, I!IssueCommit, I!UpdateRead,
      I!UpdateWrite, I!RemoveRead, I!Abandon, InvoiceFacts, I!TypeOK
<1>5. ASSUME NEW r \in InvoiceRequests, I!RemoveWrite(r) PROVE invoice'[i] = invoice[i]
  BY <1>2, <1>3, <1>5 DEF I!RemoveWrite, InvoiceFacts, I!TypeOK
<1>6. CASE I!CreateStep
  BY <1>1, <1>6 DEF I!CreateStep, I!Create, InvoiceFacts, I!TypeOK
<1> QED
  BY <1>4, <1>5, <1>6 DEF I!InvoiceStep

\* A bill on which no two requests met stands.
LEMMA BillStays ==
  ASSUME QuoteFacts, InvoiceFacts, [Next]_vars,
         NEW q \in QuoteIds, NEW i \in InvoiceIds \ invoiceMet, BilledFor(q, i)
  PROVE  BilledFor(q, i)'
<1>1. I!Issued(i) /\ I!Present(i) /\ invoice[i] # I!Absent
  BY DEF BilledFor, I!Issued, I!Present, I!Absent
<1>2. CASE invoice'[i] = invoice[i]
  BY <1>1, <1>2, DeletedStays DEF BilledFor, I!Issued
<1>3. ASSUME NEW r \in QuoteRequests, RemoveQuote(r), invoice'[i] # invoice[i]
      PROVE  BilledFor(q, i)'
  <2>1. PICK p : p = quoteReq[r].id
    OBVIOUS
  <2>2. invoice[i].quote = p /\ invoice'[i] = [invoice[i] EXCEPT !.quote = I!NoQuote]
    BY <1>3, <2>1 DEF RemoveQuote, I!QuoteRemoved
  <2>3. invoice'[i].status = "issued"
    BY <1>1, <2>2 DEF InvoiceFacts, I!InvoiceRow, I!Issued
  <2>4. quote'[q] = Q!Deleted
    <3>1. CASE quote[q] = Q!Deleted
      BY <3>1, DeletedStays
    <3>2. CASE q = p
      BY <1>3, <2>1, <3>2 DEF RemoveQuote, Q!RemoveWrite
    <3> QED
      BY <2>2, <3>1, <3>2 DEF BilledFor
  <2> QED
    BY <2>3, <2>4 DEF BilledFor, I!Issued
<1>4. ASSUME NEW r \in QuoteRequests, NEW j \in InvoiceIds, Convert(r, j)
      PROVE  invoice'[i] = invoice[i]
  BY <1>1, <1>4 DEF Convert, I!Converted, InvoiceFacts, I!TypeOK
<1>5. CASE I!InvoiceStep
  BY <1>1, <1>2, <1>5, IssuedIsLeft
<1>6. CASE \E r \in InvoiceRequests : RemoveInvoice(r)
  BY <1>1, <1>2, <1>6, IssuedIsLeft DEF RemoveInvoice
<1> QED
  BY <1>2, <1>3, <1>4, <1>5, <1>6 DEF Next, vars, invoiceVars, NewYear, I!NewYear

\* A new bill is one of a quote that is there and names the invoice; an older
\* one that still stands names the same.
LEMMA StepKeepsBills ==
  ASSUME QuoteFacts, InvoiceFacts, BillsStand, BilledOnce, LinksAgree', [Next]_vars
  PROVE  BillsStand' /\ BilledOnce'
<1>1. invoiceMet \subseteq invoiceMet'
  BY DEF Next, vars, I!Remember
<1>2. /\ billed' \in [QuoteIds -> SUBSET InvoiceIds]
      /\ \A q \in QuoteIds : \A i \in billed'[q] \ billed[q] :
           i \in InvoiceIds /\ I!Issued(i)' /\ invoice'[i].quote = q
  <2>1. CASE UNCHANGED vars
    BY <2>1 DEF vars, BillsStand
  <2>2. CASE Bill
    BY <2>2 DEF Bill, BillsStand
  <2> QED
    BY <2>1, <2>2 DEF Next
<1>3. ASSUME NEW q \in QuoteIds, NEW i \in billed'[q], i \notin invoiceMet'
      PROVE  BilledFor(q, i)'
  <2>1. CASE i \in billed[q]
    BY <1>1, <1>3, <2>1, BillStays DEF BillsStand
  <2>2. CASE i \notin billed[q]
    BY <1>2, <1>3, <2>2 DEF BilledFor
  <2> QED
    BY <2>1, <2>2
<1>4. ASSUME NEW q \in QuoteIds, NEW i \in billed'[q], NEW j \in billed'[q],
             i \notin invoiceMet', j \notin invoiceMet', j \notin billed[q]
      PROVE  i = j
  <2>1. i \in InvoiceIds /\ j \in InvoiceIds
    BY <1>2
  <2>2. I!Issued(j)' /\ invoice'[j].quote = q /\ BilledFor(q, i)'
    BY <1>2, <1>3, <1>4
  <2>3. Q!Present(q)' /\ quote'[q].converted = j
    BY <2>1, <2>2 DEF LinksAgree, I!Issued, I!Present
  <2>4. invoice'[i].quote = q /\ I!Issued(i)'
    BY <2>2, <2>3 DEF BilledFor, Q!Present, Q!Deleted, Q!QuoteStatus, Q!Outcomes
  <2> QED
    BY <2>1, <2>3, <2>4 DEF LinksAgree, I!Issued, I!Present
<1>5. BilledOnce'
  <2> SUFFICES ASSUME NEW q \in QuoteIds, NEW i \in billed'[q], NEW j \in billed'[q],
                      i \notin invoiceMet', j \notin invoiceMet'
               PROVE  i = j
    BY DEF BilledOnce
  <2>1. CASE i \in billed[q] /\ j \in billed[q]
    BY <1>1, <2>1 DEF BilledOnce
  <2> QED
    BY <1>4, <2>1
<1> QED
  BY <1>2, <1>3, <1>5 DEF BillsStand

LEMMA StepSInv == SInv /\ [Next]_vars => SInv'
<1> SUFFICES ASSUME SInv, [Next]_vars PROVE SInv'
  OBVIOUS
<1>1. QuoteFacts /\ InvoiceFacts
  BY Facts
<1>2. QP!IInv' /\ QP!Answered'
  <2>1. CASE Q!Next
    <3>1. QP!Next
      BY <2>1, SameQuoteSteps
    <3>2. QP!IInv /\ QP!Answered /\ [QP!Next]_QP!vars
      BY <3>1 DEF SInv
    <3> QED
      BY <3>2, QP!StepIInv, QP!StepAnswered, Assumptions
  <2>2. CASE UNCHANGED Q!vars
    <3>1. UNCHANGED QP!vars
      BY <2>2 DEF Q!vars, QP!vars
    <3>2. QP!IInv /\ QP!Answered /\ [QP!Next]_QP!vars
      BY <3>1 DEF SInv
    <3> QED
      BY <3>2, QP!StepIInv, QP!StepAnswered, Assumptions
  <2> QED
    BY <1>1, <2>1, <2>2, StepIsOfQuotes
<1>3. IP!IInv'
  <2>1. CASE I!Next
    <3>1. IP!Next
      BY <2>1, SameInvoiceSteps
    <3>2. IP!IInv /\ [IP!Next]_IP!vars
      BY <3>1 DEF SInv
    <3> QED
      BY <3>2, IP!StepIInv, Assumptions
  <2>2. CASE UNCHANGED I!vars
    <3>1. UNCHANGED IP!vars
      BY <2>2 DEF I!vars, IP!vars
    <3>2. IP!IInv /\ [IP!Next]_IP!vars
      BY <3>1 DEF SInv
    <3> QED
      BY <3>2, IP!StepIInv, Assumptions
  <2> QED
    BY <1>1, <2>1, <2>2, StepIsOfInvoices
<1>4. LinksAgree'
  BY <1>1, StepKeepsLinks DEF SInv
<1>5. TotalsMatchUnlessMet'
  BY <1>1, StepKeepsAmounts DEF SInv
<1>6. BillsStand' /\ BilledOnce'
  BY <1>1, <1>4, StepKeepsBills DEF SInv
<1> QED
  BY <1>2, <1>3, <1>4, <1>5, <1>6 DEF SInv

LEMMA Invariance == Spec => []SInv
BY InitSInv, StepSInv, PTL DEF Spec

-----------------------------------------------------------------------------
(* The theorems                                                             *)

\* Whatever conversions, removals and failures overlap, a quote names an invoice
\* exactly when that invoice names it.
THEOREM LinksStayPaired == Spec => []LinksAgree
BY Invariance, PTL DEF SInv

\* Of the invoices made of a quote at most one was ever issued, whatever
\* conversions, removals and issues overlap, but for invoices that two requests
\* met on: an issued invoice stands, and the unique links allow no other beside it.
THEOREM CustomersAreBilledOnce == Spec => []BilledOnce
BY Invariance, PTL DEF SInv

\* A quote with a revision has no invoice, unless two requests met on it: an
\* answer is final, the revision takes one and the conversion another.
THEOREM SupersededQuotesAreNotBilled == Spec => []SupersededNotBilledUnlessMet
<1>1. SInv => SupersededNotBilledUnlessMet
  <2> SUFFICES ASSUME SInv, NEW q \in QuoteIds, NEW i \in InvoiceIds, NEW p,
                      Q!Present(q), p = quote[q].supersedes, p \in QuoteIds \ quoteMet,
                      I!Present(i), invoice[i].quote = p
               PROVE  FALSE
    BY DEF SupersededNotBilledUnlessMet
  <2>1. QuoteFacts /\ LinksAgree
    BY Facts DEF SInv
  <2>2. Q!Present(p) /\ quote[p].converted = i
    BY <2>1 DEF LinksAgree
  <2>3. quote[p].status = "revision_requested"
    BY <2>1 DEF QuoteFacts
  <2>4. quote[p].status = "accepted"
    BY <2>1, <2>2, SalesAssumption DEF QuoteFacts
  <2> QED
    BY <2>3, <2>4
<1> QED
  BY <1>1, Invariance, PTL

\* As long as no two requests have met on a quote, the amounts of an invoice that
\* none have met on are those of its lines: through creation, conversion, edits,
\* issue, and the removal of its quote.
THEOREM AmountsAreOfTheLines == Spec => []TotalsMatchUnlessMet
BY Invariance, PTL DEF SInv

\* An invoice made of a quote that no two requests met on is of the accepted
\* quote, as it is at that moment.
THEOREM InvoicesAreOfAcceptedQuotes == Spec => ConvertedAsAcceptedUnlessMet
<1> DEFINE AsAccepted(i) ==
      /\ invoice[i] = I!Absent /\ I!Present(i)'
      /\ invoice'[i].quote \in QuoteIds \ quoteMet
      => LET q == quote'[invoice'[i].quote]
         IN /\ q.status = "accepted"
            /\ \A f \in {"workspace", "partner", "lines", "discount", "totals"} :
                 invoice'[i][f] = q[f]
<1>1. ASSUME SInv, [Next]_vars, NEW i \in InvoiceIds PROVE AsAccepted(i)
  <2>1. PICK p : p = invoice'[i].quote
    OBVIOUS
  <2> SUFFICES ASSUME invoice[i] = I!Absent, I!Present(i)', p \in QuoteIds \ quoteMet
               PROVE  /\ quote'[p].status = "accepted"
                      /\ \A f \in {"workspace", "partner", "lines", "discount", "totals"} :
                           invoice'[i][f] = quote'[p][f]
    BY <2>1
  <2>2. QuoteFacts /\ InvoiceFacts /\ ~I!Present(i)
    BY <1>1, Facts DEF I!Present, I!Absent
  <2>3. InvoiceHalf(p, i)' /\ ~InvoiceHalf(p, i)
    BY <2>1, <2>2 DEF InvoiceHalf
  <2>4. PICK r \in QuoteRequests, j \in InvoiceIds : Convert(r, j)
    <3>1. invoice' # invoice
      BY <2>2 DEF I!Present
    <3>2. ~I!InvoiceStep
      BY <2>2, <2>3, InvoiceStepKeepsLinks
    <3>3. ASSUME NEW s \in InvoiceRequests, RemoveInvoice(s) PROVE FALSE
      BY <2>2, <3>3
      DEF RemoveInvoice, I!RemoveWrite, InvoiceFacts, I!TypeOK, I!Present, I!Deleted
    <3>4. ASSUME NEW s \in QuoteRequests, RemoveQuote(s) PROVE FALSE
      BY <2>2, <3>4 DEF RemoveQuote, I!QuoteRemoved, I!Present
    <3> QED
      BY <1>1, <3>1, <3>2, <3>3, <3>4
      DEF Next, vars, invoiceVars, NewYear, I!NewYear
  <2>5. PICK c : c = quoteReq[r]
    OBVIOUS
  <2>6. PICK row :
          row = I!NewDraft(c.workspace, c.partner, c.lines, c.discount, c.totals, c.id)
    OBVIOUS
  <2>7. invoice' = [invoice EXCEPT ![j] = row]
    BY <2>4, <2>5, <2>6 DEF Convert, I!Converted
  <2>8. invoice'[i] = row
    BY <2>2, <2>7 DEF InvoiceFacts, I!TypeOK, I!Present
  <2>9. /\ row.workspace = c.workspace /\ row.partner = c.partner /\ row.lines = c.lines
        /\ row.discount = c.discount /\ row.totals = c.totals /\ c.id = p
    BY <2>1, <2>6, <2>8 DEF I!NewDraft
  <2>10. AsRead(c) /\ Q!Present(p) /\ quote[p] \in Q!QuoteRow
    BY <2>2, <2>4, <2>5, <2>9 DEF Convert, Q!ConvertWrite, QuoteFacts
  <2>11. quote'[p] = [quote[p] EXCEPT !.converted = j]
    BY <2>2, <2>4, <2>5, <2>9 DEF Convert, Q!ConvertWrite, QuoteFacts, Q!TypeOK
  <2>12. /\ quote'[p].status = quote[p].status
         /\ quote'[p].workspace = quote[p].workspace
         /\ quote'[p].partner = quote[p].partner /\ quote'[p].lines = quote[p].lines
         /\ quote'[p].discount = quote[p].discount /\ quote'[p].totals = quote[p].totals
    BY <2>10, <2>11 DEF Q!QuoteRow
  <2> QED
    BY <2>8, <2>9, <2>10, <2>12 DEF AsRead
<1>2. SInv /\ [Next]_vars => \A i \in InvoiceIds : AsAccepted(i)
  BY <1>1
<1> QED
  BY <1>2, Invariance, PTL DEF Spec, ConvertedAsAcceptedUnlessMet
=============================================================================
