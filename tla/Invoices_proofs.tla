---------------------------- MODULE Invoices_proofs ----------------------------
(***************************************************************************)
(* Invoices, for every set of workspaces, invoices, quotes and concurrent  *)
(* requests and every span of years.                                       *)
(***************************************************************************)
EXTENDS Invoices, TLAPS

\* What a request in flight may rely on: its row was inserted, in the workspace
\* it remembers; the number it took comes next; and while no other request met
\* it on its invoice, that is still the draft it read.
RequestSound(q) ==
  q # Idle =>
    /\ invoice[q.id] # Absent
    /\ q.at \in {"issuing", "numbered"} /\ Present(q.id)
         => invoice[q.id].workspace = q.series[1]
    /\ q.at = "numbered" => q.number = counter[q.series] + 1
    /\ q.at = "updating" /\ Present(q.id)
         => invoice[q.id].workspace = q.workspace
    /\ q.id \notin met => invoice[q.id].status = "draft"
    /\ q.id \notin met /\ q.at = "updating"
         => /\ q.lines = invoice[q.id].lines
            /\ q.discount = invoice[q.id].discount

\* What a row satisfies on its own.
RowSound(i) ==
  Present(i) =>
    /\ Issued(i) <=> invoice[i].number # NoNumber
    /\ Issued(i) => invoice[i].number[2] \in
                      1 .. counter[<<invoice[i].workspace, invoice[i].number[1]>>]
    /\ invoice[i].partner \in CustomersOf[invoice[i].workspace]

\* A counter's row lock has one holder.
OneHolder ==
  \A r, s \in Requests :
    /\ req[r].at = "numbered" /\ req[s].at = "numbered"
    /\ req[r].series = req[s].series
    => r = s

\* "met" has noticed every meeting.
Noticed ==
  \A r, s \in Requests :
    /\ r # s
    /\ req[r] # Idle /\ req[s] # Idle
    /\ req[r].id = req[s].id
    => req[r].id \in met

\* Every number handed out is on an invoice.
Carried ==
  met = {} =>
    \A w \in Workspaces, y \in Years : \A n \in 1 .. counter[<<w, y>>] :
      \E i \in InvoiceIds :
        Issued(i) /\ invoice[i].workspace = w /\ invoice[i].number = <<y, n>>

IInv ==
  /\ TypeOK
  /\ \A r \in Requests : RequestSound(req[r])
  /\ \A i \in InvoiceIds : RowSound(i)
  /\ OneHolder
  /\ Noticed
  /\ UniqueNumbers
  /\ Carried

-----------------------------------------------------------------------------
(* The shapes of records                                                    *)

LEMMA RequestShape ==
  ASSUME TypeOK, NEW r \in Requests
  PROVE  /\ req[r] \in RequestState
         /\ req[r].at = "issuing" <=> req[r] \in Issuing
         /\ req[r].at = "numbered" <=> req[r] \in Numbered
         /\ req[r].at = "updating" <=> req[r] \in Updating
         /\ req[r].at = "removing" <=> req[r] \in Removing
         /\ req[r].at = "idle" <=> req[r] = Idle
         /\ req[r] # Idle => req[r].id \in InvoiceIds
BY DEF TypeOK, RequestState, Idle, Issuing, Numbered, Updating, Removing

LEMMA InvoiceShape ==
  ASSUME TypeOK, NEW i \in InvoiceIds
  PROVE  /\ Present(i) <=> invoice[i] \in InvoiceRow
         /\ ~Present(i) <=> invoice[i] \in {Absent, Deleted}
         /\ Issued(i) => Present(i)
         /\ Present(i) /\ ~Issued(i) <=> invoice[i].status = "draft"
         /\ invoice[i] = Absent <=> invoice[i].status = "absent"
BY DEF TypeOK, Present, Issued, InvoiceRow, Absent, Deleted

LEMMA NumberShape ==
  ASSUME NEW y, NEW n
  PROVE  /\ <<y, n>> # NoNumber
         /\ <<y, n>>[1] = y /\ <<y, n>>[2] = n
BY DEF NoNumber

LEMMA IdleShape == Idle.at = "idle"
BY DEF Idle

-----------------------------------------------------------------------------
(* Type correctness                                                         *)

LEMMA InitType == Init => TypeOK
<1>1. FirstYear \in Years
  BY DocumentsAssumption DEF Years
<1>2. QED
  BY <1>1 DEF Init, TypeOK, RequestState

LEMMA TypeOfRequestStep ==
  ASSUME TypeOK, NEW r \in Requests, NEW c \in RequestState,
         req' = [req EXCEPT ![r] = c]
  PROVE  req' \in [Requests -> RequestState]
BY DEF TypeOK

LEMMA EditedType ==
  ASSUME NEW row \in InvoiceRow, NEW read, read.lines \in Lines,
         read.discount \in Discounts, NEW given, NEW partner \in Customers,
         NEW lines \in Lines, NEW discount \in Discounts
  PROVE  Edited(row, read, given, partner, lines, discount) \in InvoiceRow
BY DEF InvoiceRow, Edited, Totals, AllTotals

\* Each action leaves the state well typed.
LEMMA StepType == TypeOK /\ [Next]_vars => TypeOK'
<1> SUFFICES ASSUME TypeOK, [Next]_vars PROVE TypeOK'
  OBVIOUS
<1> USE DEF Series
<1>1. CASE UNCHANGED vars
  BY <1>1 DEF TypeOK, vars
<1> SUFFICES ASSUME Next PROVE TypeOK'
  BY <1>1
<1>2. met' \in SUBSET InvoiceIds
  BY DEF Next, Remember, Meeting, TypeOK
<1>3. ASSUME NEW w \in Workspaces, NEW partner \in Customers, NEW lines \in Lines,
             NEW discount \in Discounts, NEW i \in InvoiceIds,
             Create(w, partner, lines, discount, i)
      PROVE  TypeOK'
  <2>1. NewDraft(w, partner, lines, discount, Totals(lines, discount), NoQuote)
          \in InvoiceRow
    BY DEF NewDraft, InvoiceRow, Numbers, Totals, AllTotals
  <2>2. QED
    BY <1>2, <1>3, <2>1 DEF Create, TypeOK
<1>4. ASSUME NEW w \in Workspaces, NEW partner \in Customers, NEW lines \in Lines,
             NEW discount \in Discounts, NEW totals \in AllTotals,
             NEW q \in QuoteIds, NEW i \in InvoiceIds,
             Converted(w, partner, lines, discount, totals, q, i)
      PROVE  TypeOK'
  <2>1. NewDraft(w, partner, lines, discount, totals, q) \in InvoiceRow
    BY DEF NewDraft, InvoiceRow, Numbers
  <2>2. QED
    BY <1>2, <1>4, <2>1 DEF Converted, TypeOK
<1>5. ASSUME NEW r \in Requests, NEW w \in Workspaces, NEW i \in InvoiceIds,
             IssueRead(r, w, i)
      PROVE  TypeOK'
  <2>1. [at |-> "issuing", id |-> i, series |-> <<w, year>>] \in RequestState
    BY DEF RequestState, Issuing, TypeOK
  <2>2. QED
    BY <1>2, <1>5, <2>1, TypeOfRequestStep DEF IssueRead, TypeOK
<1>6. ASSUME NEW r \in Requests, TakeNumber(r) PROVE TypeOK'
  <2>1. req[r] \in Issuing
    BY <1>6, RequestShape DEF TakeNumber
  <2>2. [at |-> "numbered", id |-> req[r].id, series |-> req[r].series,
         number |-> counter[req[r].series] + 1] \in RequestState
    BY <2>1 DEF RequestState, Issuing, Numbered, TypeOK
  <2>3. QED
    BY <1>2, <1>6, <2>2, TypeOfRequestStep DEF TakeNumber, TypeOK
<1>7. ASSUME NEW r \in Requests, IssueCommit(r) PROVE TypeOK'
  <2>1. req[r] \in Numbered
    BY <1>7, RequestShape DEF IssueCommit
  <2>2. /\ invoice[req[r].id] \in InvoiceRow
        /\ <<req[r].series[2], req[r].number>> \in Numbers
    BY <1>7, <2>1, InvoiceShape DEF IssueCommit, Numbered, Numbers
  <2>3. [invoice[req[r].id] EXCEPT !.status = "issued",
           !.number = <<req[r].series[2], req[r].number>>] \in InvoiceRow
    BY <2>2 DEF InvoiceRow
  <2>4. invoice' \in [InvoiceIds -> InvoiceRow \cup {Absent, Deleted}]
    BY <1>7, <2>1, <2>3 DEF IssueCommit, TypeOK, Numbered
  <2>5. counter' \in [Series -> Nat] /\ year' \in Years
    BY <1>7, <2>1 DEF IssueCommit, TypeOK, Numbered
  <2>6. req' \in [Requests -> RequestState]
    BY <1>7, TypeOfRequestStep DEF IssueCommit, RequestState
  <2>7. QED
    BY <1>2, <2>4, <2>5, <2>6 DEF TypeOK
<1>8. ASSUME NEW r \in Requests, NEW w \in Workspaces, NEW i \in InvoiceIds,
             UpdateRead(r, w, i)
      PROVE  TypeOK'
  <2>1. invoice[i] \in InvoiceRow
    BY <1>8, InvoiceShape DEF UpdateRead, FindsDraft, Present
  <2>2. [at |-> "updating", id |-> i, workspace |-> w, lines |-> invoice[i].lines,
         discount |-> invoice[i].discount] \in RequestState
    BY <2>1 DEF RequestState, Updating, InvoiceRow
  <2>3. QED
    BY <1>2, <1>8, <2>2, TypeOfRequestStep DEF UpdateRead, TypeOK
<1>9. ASSUME NEW r \in Requests, NEW given \in SUBSET Fields,
             NEW partner \in Customers, NEW lines \in Lines,
             NEW discount \in Discounts,
             UpdateWrite(r, given, partner, lines, discount)
      PROVE  TypeOK'
  <2>1. req[r] \in Updating /\ invoice[req[r].id] \in InvoiceRow
    BY <1>9, RequestShape, InvoiceShape DEF UpdateWrite, Updating
  <2>2. Edited(invoice[req[r].id], req[r], given, partner, lines, discount)
          \in InvoiceRow
    BY <2>1, EditedType DEF Updating
  <2>3. QED
    BY <1>2, <1>9, <2>1, <2>2, TypeOfRequestStep
    DEF UpdateWrite, TypeOK, RequestState, Updating
<1>10. ASSUME NEW r \in Requests, NEW w \in Workspaces, NEW i \in InvoiceIds,
              RemoveRead(r, w, i)
       PROVE  TypeOK'
  <2>1. [at |-> "removing", id |-> i] \in RequestState
    BY DEF RequestState, Removing
  <2>2. QED
    BY <1>2, <1>10, <2>1, TypeOfRequestStep DEF RemoveRead, TypeOK
<1>11. ASSUME NEW r \in Requests, RemoveWrite(r) PROVE TypeOK'
  BY <1>2, <1>11, TypeOfRequestStep DEF RemoveWrite, TypeOK, RequestState
<1>12. ASSUME NEW r \in Requests, Abandon(r) PROVE TypeOK'
  BY <1>2, <1>12, TypeOfRequestStep DEF Abandon, TypeOK, RequestState
<1>13. ASSUME NEW q \in QuoteIds, QuoteRemoved(q) PROVE TypeOK'
  <2>1. \A i \in InvoiceIds : invoice'[i] \in InvoiceRow \cup {Absent, Deleted}
    <3> SUFFICES ASSUME NEW i \in InvoiceIds
                 PROVE  invoice'[i] \in InvoiceRow \cup {Absent, Deleted}
      OBVIOUS
    <3>1. CASE Present(i)
      <4>1. [invoice[i] EXCEPT !.quote = NoQuote] \in InvoiceRow
        BY <3>1, InvoiceShape DEF InvoiceRow
      <4>2. QED
        BY <1>13, <3>1, <4>1 DEF QuoteRemoved, TypeOK
    <3>2. CASE ~Present(i)
      BY <1>13, <3>2 DEF QuoteRemoved, TypeOK
    <3>3. QED
      BY <3>1, <3>2
  <2>2. QED
    BY <1>2, <1>13, <2>1 DEF QuoteRemoved, TypeOK
<1>14. CASE NewYear
  BY <1>2, <1>14, DocumentsAssumption DEF NewYear, TypeOK, Years
<1>15. QED
  BY <1>3, <1>4, <1>5, <1>6, <1>7, <1>8, <1>9, <1>10, <1>11, <1>12, <1>13, <1>14
  DEF Next, InvoiceStep, CreateStep, RequestStep, QuotesServiceStep

\* Every reachable state is well typed.
THEOREM TypeCorrect == Spec => []TypeOK
BY InitType, StepType, PTL DEF Spec

-----------------------------------------------------------------------------
(* The inductive invariant                                                  *)

LEMMA InitIInv == Init => IInv
<1> SUFFICES ASSUME Init PROVE IInv
  OBVIOUS
<1>1. \A r \in Requests : req[r] = Idle /\ req[r].at = "idle"
  BY IdleShape DEF Init
<1>2. \A i \in InvoiceIds : ~Present(i) /\ ~Issued(i)
  BY DEF Init, Absent, Present, Issued
<1>3. \A w \in Workspaces, y \in Years : \A n \in 1 .. counter[<<w, y>>] : FALSE
  <2>1. \A w \in Workspaces, y \in Years : counter[<<w, y>>] = 0
    BY DEF Init, Series
  <2>2. \A n \in 1 .. 0 : FALSE
    OBVIOUS
  <2>3. QED
    BY <2>1, <2>2
<1>4. QED
  BY <1>1, <1>2, <1>3, InitType
  DEF IInv, RequestSound, RowSound, OneHolder, Noticed, UniqueNumbers, Carried

\* Remembering the meetings of every new state notices them all.
LEMMA RememberNotices ==
  ASSUME TypeOK', Remember
  PROVE  Noticed'
<1>1. \A r \in Requests : req'[r] # Idle => req'[r].id \in InvoiceIds
  BY DEF TypeOK, RequestState, Idle, Issuing, Numbered, Updating, Removing
<1>2. QED
  BY <1>1 DEF Noticed, Meeting, Remember

\* A step in which request r comes to be c and no row changes.
LEMMA RequestStepIInv ==
  ASSUME IInv, TypeOK', Remember,
         invoice' = invoice, counter' = counter,
         NEW r \in Requests, NEW c,
         req' = [req EXCEPT ![r] = c],
         RequestSound(c)',
         c.at = "numbered" =>
           \A s \in Requests \ {r} : req[s].at = "numbered" => req[s].series # c.series
  PROVE  IInv'
<1>1. req'[r] = c /\ \A t \in Requests : t # r => req'[t] = req[t]
  BY DEF IInv, TypeOK
<1>2. met \subseteq met' /\ Meeting' \subseteq met'
  BY DEF Remember
<1>3. \A i : Present(i)' = Present(i) /\ Issued(i)' = Issued(i)
  BY DEF Present, Issued
<1>4. ASSUME NEW t \in Requests PROVE RequestSound(req[t])'
  <2>1. CASE t = r
    BY <2>1, <1>1
  <2>2. CASE t # r
    BY <2>2, <1>1, <1>2, <1>3 DEF IInv, RequestSound
  <2>3. QED
    BY <2>1, <2>2
<1>5. \A i \in InvoiceIds : RowSound(i)'
  BY <1>3 DEF IInv, RowSound
<1>6. OneHolder'
  BY <1>1 DEF IInv, OneHolder
<1>7. Noticed'
  BY RememberNotices
<1>8. UniqueNumbers' /\ Carried'
  BY <1>2, <1>3 DEF IInv, UniqueNumbers, Carried
<1>9. QED
  BY <1>4, <1>5, <1>6, <1>7, <1>8 DEF IInv

\* A request that ends by writing its row leaves the other requests sound: one
\* on the same invoice has met it.
LEMMA OthersStaySound ==
  ASSUME IInv, Remember,
         NEW r \in Requests, req[r] # Idle,
         req' = [req EXCEPT ![r] = Idle],
         NEW i, i = req[r].id,
         \A j \in InvoiceIds : j # i => invoice'[j] = invoice[j],
         invoice'[i] # Absent,
         Present(i)' => /\ Present(i)
                        /\ invoice'[i].workspace = invoice[i].workspace,
         \A t \in Requests \ {r} :
           req[t].at = "numbered" => counter'[req[t].series] = counter[req[t].series]
  PROVE  \A t \in Requests : RequestSound(req[t])'
<1>1. req'[r] = Idle /\ \A t \in Requests : t # r => req'[t] = req[t]
  BY DEF IInv, TypeOK
<1>2. met \subseteq met'
  BY DEF Remember
<1> SUFFICES ASSUME NEW t \in Requests, t # r, req[t] # Idle
             PROVE  RequestSound(req[t])'
  BY <1>1 DEF RequestSound
<1>3. req[t].id \in InvoiceIds
  BY RequestShape DEF IInv
<1>4. req'[t] = req[t] /\ RequestSound(req[t])
  BY <1>1 DEF IInv
<1>5. CASE req[t].id = i
  <2>1. req[t].id \in met'
    BY <1>2, <1>5 DEF IInv, Noticed
  <2>2. QED
    BY <1>4, <1>5, <2>1 DEF RequestSound, Present
<1>6. CASE req[t].id # i
  <2>1. invoice'[req[t].id] = invoice[req[t].id]
    BY <1>3, <1>6
  <2>2. Present(req[t].id)' <=> Present(req[t].id)
    BY <1>4, <2>1 DEF Present
  <2>3. QED
    BY <1>2, <1>4, <2>1, <2>2 DEF RequestSound, Present
<1>7. QED
  BY <1>5, <1>6

\* Ending a request gives up its lock.
LEMMA EndKeepsOneHolder ==
  ASSUME IInv, NEW r \in Requests, req' = [req EXCEPT ![r] = Idle]
  PROVE  OneHolder'
<1>1. req'[r] = Idle /\ \A t \in Requests : t # r => req'[t] = req[t]
  BY DEF IInv, TypeOK
<1>2. QED
  BY <1>1, IdleShape DEF IInv, OneHolder

-----------------------------------------------------------------------------
(* The actions, in the order of the module                                  *)

\* A new draft: its id is no request's, its number is none.
LEMMA InsertIIInv ==
  ASSUME IInv, TypeOK', Remember, req' = req, counter' = counter,
         NEW i \in InvoiceIds, invoice[i] = Absent,
         NEW row, invoice' = [invoice EXCEPT ![i] = row],
         row.status = "draft", row.number = NoNumber,
         row.partner \in CustomersOf[row.workspace]
  PROVE  IInv'
<1>1. invoice'[i] = row /\ \A j \in InvoiceIds : j # i => invoice'[j] = invoice[j]
  BY DEF IInv, TypeOK
<1>2. met \subseteq met'
  BY DEF Remember
<1>3. /\ ~Present(i) /\ ~Issued(i) /\ ~Issued(i)'
      /\ \A j \in InvoiceIds \ {i} : /\ Present(j)' <=> Present(j)
                                    /\ Issued(j)' <=> Issued(j)
  BY <1>1 DEF Present, Issued, Absent
<1>4. ASSUME NEW t \in Requests PROVE RequestSound(req[t])'
  <2>1. req[t] # Idle => req[t].id \in InvoiceIds /\ req[t].id # i
    BY RequestShape DEF IInv, RequestSound
  <2>2. RequestSound(req[t])
    BY DEF IInv
  <2>3. QED
    BY <1>1, <1>2, <2>1, <2>2 DEF RequestSound, Present
<1>5. \A j \in InvoiceIds : RowSound(j)'
  BY <1>1 DEF IInv, RowSound, Present, Issued
<1>6. OneHolder'
  BY DEF IInv, OneHolder
<1>7. UniqueNumbers'
  <2> SUFFICES ASSUME NEW j \in InvoiceIds, NEW k \in InvoiceIds,
                      Present(j)', Present(k)', invoice'[j].number # NoNumber,
                      invoice'[j].number = invoice'[k].number,
                      invoice'[j].workspace = invoice'[k].workspace
               PROVE  j = k
    BY DEF UniqueNumbers
  <2>1. j # i /\ k # i
    BY <1>1
  <2>2. QED
    BY <1>1, <2>1 DEF IInv, UniqueNumbers, Present
<1>8. Carried'
  <2> SUFFICES ASSUME met' = {}, NEW w \in Workspaces, NEW y \in Years,
                      NEW n \in 1 .. counter[<<w, y>>]
               PROVE  \E j \in InvoiceIds :
                        /\ Issued(j)' /\ invoice'[j].workspace = w
                        /\ invoice'[j].number = <<y, n>>
    BY DEF Carried
  <2>1. PICK j \in InvoiceIds :
          Issued(j) /\ invoice[j].workspace = w /\ invoice[j].number = <<y, n>>
    BY <1>2 DEF IInv, Carried
  <2>2. QED
    BY <1>1, <1>3, <2>1
<1>9. QED
  BY <1>4, <1>5, <1>6, <1>7, <1>8, RememberNotices DEF IInv

LEMMA CreateIInv ==
  ASSUME IInv, TypeOK', Remember,
         NEW w \in Workspaces, NEW partner \in Customers, NEW lines \in Lines,
         NEW discount \in Discounts, NEW i \in InvoiceIds,
         Create(w, partner, lines, discount, i)
  PROVE  IInv'
<1>1. PICK row : row = NewDraft(w, partner, lines, discount, Totals(lines, discount), NoQuote)
  OBVIOUS
<1>2. /\ row.status = "draft" /\ row.number = NoNumber
      /\ row.partner = partner /\ row.workspace = w
  BY <1>1 DEF NewDraft
<1>3. QED
  BY <1>1, <1>2, InsertIIInv DEF Create

LEMMA ConvertedIInv ==
  ASSUME IInv, TypeOK', Remember,
         NEW w \in Workspaces, NEW partner \in Customers, NEW lines \in Lines,
         NEW discount \in Discounts, NEW totals \in AllTotals,
         NEW q \in QuoteIds, NEW i \in InvoiceIds,
         Converted(w, partner, lines, discount, totals, q, i)
  PROVE  IInv'
<1>1. PICK row : row = NewDraft(w, partner, lines, discount, totals, q)
  OBVIOUS
<1>2. /\ row.status = "draft" /\ row.number = NoNumber
      /\ row.partner = partner /\ row.workspace = w
  BY <1>1 DEF NewDraft
<1>3. QED
  BY <1>1, <1>2, InsertIIInv DEF Converted

LEMMA IssueReadIInv ==
  ASSUME IInv, TypeOK', Remember,
         NEW r \in Requests, NEW w \in Workspaces, NEW i \in InvoiceIds,
         IssueRead(r, w, i)
  PROVE  IInv'
<1>0. PICK c : c = [at |-> "issuing", id |-> i, series |-> <<w, year>>]
  OBVIOUS
<1>1. c.at = "issuing" /\ c.id = i /\ c.series[1] = w
  BY <1>0
<1>2. /\ req' = [req EXCEPT ![r] = c] /\ invoice' = invoice /\ counter' = counter
      /\ invoice[i].status = "draft" /\ invoice[i].workspace = w
  BY <1>0 DEF IssueRead, FindsDraft
<1>3. RequestSound(c)'
  BY <1>1, <1>2, InvoiceShape DEF IInv, RequestSound, Absent
<1>4. QED
  BY <1>1, <1>2, <1>3, RequestStepIInv

LEMMA TakeNumberIInv ==
  ASSUME IInv, TypeOK', Remember, NEW r \in Requests, TakeNumber(r)
  PROVE  IInv'
<1>0. PICK c : c = [at |-> "numbered", id |-> req[r].id, series |-> req[r].series,
                     number |-> counter[req[r].series] + 1]
  OBVIOUS
<1>1. /\ c.at = "numbered" /\ c.id = req[r].id /\ c.series = req[r].series
      /\ c.number = counter[req[r].series] + 1
  BY <1>0
<1>2. /\ req' = [req EXCEPT ![r] = c] /\ invoice' = invoice /\ counter' = counter
      /\ req[r].at = "issuing" /\ ~Locked(req[r].series)
  BY <1>0 DEF TakeNumber
<1>3. req[r] # Idle /\ RequestSound(req[r])
  BY <1>2, IdleShape DEF IInv
<1>4. RequestSound(c)'
  BY <1>1, <1>2, <1>3 DEF RequestSound, Remember, Present
<1>5. QED
  BY <1>1, <1>2, <1>4, RequestStepIInv DEF Locked

LEMMA UpdateReadIInv ==
  ASSUME IInv, TypeOK', Remember,
         NEW r \in Requests, NEW w \in Workspaces, NEW i \in InvoiceIds,
         UpdateRead(r, w, i)
  PROVE  IInv'
<1>0. PICK c : c = [at |-> "updating", id |-> i, workspace |-> w,
                     lines |-> invoice[i].lines, discount |-> invoice[i].discount]
  OBVIOUS
<1>1. /\ c.at = "updating" /\ c.id = i /\ c.workspace = w
      /\ c.lines = invoice[i].lines /\ c.discount = invoice[i].discount
  BY <1>0
<1>2. /\ req' = [req EXCEPT ![r] = c] /\ invoice' = invoice /\ counter' = counter
      /\ invoice[i].status = "draft" /\ invoice[i].workspace = w
  BY <1>0 DEF UpdateRead, FindsDraft
<1>3. RequestSound(c)'
  BY <1>1, <1>2, InvoiceShape DEF IInv, RequestSound, Absent
<1>4. QED
  BY <1>1, <1>2, <1>3, RequestStepIInv

LEMMA RemoveReadIInv ==
  ASSUME IInv, TypeOK', Remember,
         NEW r \in Requests, NEW w \in Workspaces, NEW i \in InvoiceIds,
         RemoveRead(r, w, i)
  PROVE  IInv'
<1>0. PICK c : c = [at |-> "removing", id |-> i]
  OBVIOUS
<1>1. c.at = "removing" /\ c.id = i
  BY <1>0
<1>2. /\ req' = [req EXCEPT ![r] = c] /\ invoice' = invoice /\ counter' = counter
      /\ invoice[i].status = "draft"
  BY <1>0 DEF RemoveRead, FindsDraft
<1>3. RequestSound(c)'
  BY <1>1, <1>2, InvoiceShape DEF IInv, RequestSound, Absent
<1>4. QED
  BY <1>1, <1>2, <1>3, RequestStepIInv

LEMMA AbandonIInv ==
  ASSUME IInv, TypeOK', Remember, NEW r \in Requests, Abandon(r)
  PROVE  IInv'
<1>1. RequestSound(Idle)'
  BY DEF RequestSound
<1>2. QED
  BY <1>1, IdleShape, RequestStepIInv DEF Abandon

LEMMA IssueCommitIInv ==
  ASSUME IInv, TypeOK', Remember, NEW r \in Requests, IssueCommit(r)
  PROVE  IInv'
<1>0. PICK i, w, y, n : /\ i = req[r].id /\ w = req[r].series[1]
                        /\ y = req[r].series[2] /\ n = req[r].number
  OBVIOUS
<1>1. /\ i \in InvoiceIds /\ w \in Workspaces /\ y \in Years /\ n \in Nat
      /\ req[r].series = <<w, y>> /\ <<w, y>> \in Series
      /\ req[r].at = "numbered" /\ req[r] # Idle
  BY <1>0, RequestShape, IdleShape DEF IssueCommit, IInv, Numbered, Series
<1>2. /\ Present(i) /\ invoice[i] \in InvoiceRow
      /\ req' = [req EXCEPT ![r] = Idle]
      /\ invoice' = [invoice EXCEPT ![i].status = "issued", ![i].number = <<y, n>>]
      /\ counter' = [counter EXCEPT ![<<w, y>>] = n]
  BY <1>0, <1>1, InvoiceShape DEF IssueCommit, IInv
<1>3. /\ invoice[i].workspace = w /\ n = counter[<<w, y>>] + 1
      /\ i \notin met => invoice[i].status = "draft"
  BY <1>0, <1>1, <1>2 DEF IInv, RequestSound
<1>4. /\ invoice'[i].status = "issued" /\ invoice'[i].number = <<y, n>>
      /\ invoice'[i].workspace = w /\ invoice'[i].partner = invoice[i].partner
      /\ \A j \in InvoiceIds : j # i => invoice'[j] = invoice[j]
  BY <1>1, <1>2, <1>3 DEF IInv, TypeOK, InvoiceRow
<1>5. /\ counter'[<<w, y>>] = n
      /\ \A s \in Series : s # <<w, y>> => counter'[s] = counter[s]
  BY <1>1, <1>2 DEF IInv, TypeOK
<1>6. met \subseteq met'
  BY DEF Remember
<1>7. /\ Present(i)' /\ Issued(i)'
      /\ \A j \in InvoiceIds \ {i} : /\ Present(j)' <=> Present(j)
                                    /\ Issued(j)' <=> Issued(j)
  BY <1>4 DEF Present, Issued
<1>8. \A t \in Requests : RequestSound(req[t])'
  <2>1. ASSUME NEW t \in Requests \ {r}, req[t].at = "numbered"
        PROVE  counter'[req[t].series] = counter[req[t].series]
    <3>1. req[t].series \in Series
      BY <2>1, RequestShape DEF IInv, Numbered
    <3>2. req[t].series # <<w, y>>
      BY <1>1, <2>1 DEF IInv, OneHolder
    <3>3. QED
      BY <1>5, <3>1, <3>2
  <2>2. invoice'[i] # Absent
    BY <1>4 DEF Absent
  <2>3. Present(i)' => Present(i) /\ invoice'[i].workspace = invoice[i].workspace
    BY <1>2, <1>3, <1>4
  <2>4. \A t \in Requests \ {r} :
          req[t].at = "numbered" => counter'[req[t].series] = counter[req[t].series]
    BY <2>1
  <2>5. i = req[r].id /\ req[r] # Idle /\ req' = [req EXCEPT ![r] = Idle]
    BY <1>0, <1>1, <1>2
  <2>6. \A j \in InvoiceIds : j # i => invoice'[j] = invoice[j]
    BY <1>4
  <2>7. QED
    BY <2>2, <2>3, <2>4, <2>5, <2>6, OthersStaySound
<1>9. ASSUME NEW j \in InvoiceIds PROVE RowSound(j)'
  <2>1. CASE j = i
    <3>1. n \in 1 .. n /\ <<y, n>> # NoNumber /\ <<y, n>>[1] = y /\ <<y, n>>[2] = n
      BY <1>1, <1>3, NumberShape DEF IInv, TypeOK
    <3>2. invoice[i].partner \in CustomersOf[w]
      BY <1>1, <1>2, <1>3 DEF IInv, RowSound
    <3>3. QED
      BY <1>4, <1>5, <1>7, <2>1, <3>1, <3>2 DEF RowSound
  <2>2. CASE j # i
    <3> SUFFICES ASSUME Present(j)' PROVE RowSound(j)'
      BY DEF RowSound
    <3>1. /\ Present(j) /\ invoice[j] \in InvoiceRow /\ invoice'[j] = invoice[j]
          /\ RowSound(j)
          /\ Issued(j)' <=> Issued(j)
      BY <1>4, <2>2, InvoiceShape DEF IInv, Present, Issued
    <3>2. ASSUME Issued(j)
          PROVE  invoice[j].number[2] \in
                   1 .. counter'[<<invoice[j].workspace, invoice[j].number[1]>>]
      <4>1. invoice[j].number \in Years \X Nat /\ invoice[j].workspace \in Workspaces
        BY <3>1, <3>2 DEF RowSound, InvoiceRow, Numbers
      <4>2. <<invoice[j].workspace, invoice[j].number[1]>> \in Series
        BY <4>1 DEF Series
      <4>3. /\ counter \in [Series -> Nat]
            /\ invoice[j].number[2] \in
                 1 .. counter[<<invoice[j].workspace, invoice[j].number[1]>>]
        BY <3>1, <3>2 DEF IInv, TypeOK, RowSound
      <4>4. QED
        BY <1>1, <1>3, <1>5, <4>2, <4>3
    <3>3. QED
      BY <3>1, <3>2 DEF RowSound
  <2>3. QED
    BY <2>1, <2>2
<1>10. UniqueNumbers'
  <2> SUFFICES ASSUME NEW j \in InvoiceIds, NEW k \in InvoiceIds,
                      Present(j)', Present(k)', invoice'[j].number # NoNumber,
                      invoice'[j].number = invoice'[k].number,
                      invoice'[j].workspace = invoice'[k].workspace
               PROVE  j = k
    BY DEF UniqueNumbers
  <2>1. ASSUME NEW l \in InvoiceIds, l # i, Present(l)', invoice'[l].workspace = w
        PROVE  invoice'[l].number # <<y, n>>
    <3>1. Present(l) /\ invoice'[l] = invoice[l] /\ RowSound(l)
      <4>1. l \in InvoiceIds \ {i}
        BY <2>1
      <4>2. Present(l) /\ invoice'[l] = invoice[l]
        BY <1>4, <2>1, <4>1 DEF Present
      <4>3. RowSound(l)
        BY DEF IInv
      <4>4. QED
        BY <4>2, <4>3
    <3>2. SUFFICES ASSUME invoice[l].number = <<y, n>> PROVE FALSE
      BY <3>1
    <3>3. n \in 1 .. counter[<<w, y>>]
      BY <2>1, <3>1, <3>2, NumberShape DEF RowSound
    <3>4. counter[<<w, y>>] \in Nat
      BY <1>1 DEF IInv, TypeOK
    <3>5. QED
      BY <1>3, <3>3, <3>4
  <2>2. CASE j = i \/ k = i
    BY <1>4, <2>1, <2>2
  <2>3. CASE j # i /\ k # i
    <3>1. /\ Present(j) /\ invoice'[j] = invoice[j]
          /\ Present(k) /\ invoice'[k] = invoice[k]
      BY <1>4, <2>3 DEF Present
    <3>2. QED
      BY <3>1 DEF IInv, UniqueNumbers
  <2>4. QED
    BY <2>2, <2>3
<1>11. Carried'
  <2> SUFFICES ASSUME met' = {}, NEW v \in Workspaces, NEW x \in Years,
                      NEW m \in 1 .. counter'[<<v, x>>]
               PROVE  \E j \in InvoiceIds :
                        /\ Issued(j)' /\ invoice'[j].workspace = v
                        /\ invoice'[j].number = <<x, m>>
    BY DEF Carried
  <2>1. CASE <<v, x>> = <<w, y>> /\ m = n
    BY <1>1, <1>4, <1>7, <2>1
  <2>2. CASE ~(<<v, x>> = <<w, y>> /\ m = n)
    <3>1. <<v, x>> \in Series
      BY DEF Series
    <3>2. m \in 1 .. counter[<<v, x>>]
      BY <1>1, <1>3, <1>5, <2>2, <3>1 DEF IInv, TypeOK
    <3>3. PICK j \in InvoiceIds :
            Issued(j) /\ invoice[j].workspace = v /\ invoice[j].number = <<x, m>>
      BY <1>6, <3>2 DEF IInv, Carried
    <3>4. j # i
      BY <1>3, <1>6, <3>3 DEF Issued
    <3>5. QED
      BY <1>4, <1>7, <3>3, <3>4
  <2>3. QED
    BY <2>1, <2>2
<1>12. QED
  BY <1>2, <1>8, <1>9, <1>10, <1>11, RememberNotices, EndKeepsOneHolder DEF IInv

\* A write that changes no status, number or workspace of a row, and leaves the
\* counters alone: PATCH, and the loss of a link to a quote.
LEMMA EditIInv ==
  ASSUME IInv, TypeOK', Remember, counter' = counter,
         \A t \in Requests : RequestSound(req[t])',
         OneHolder',
         \A j \in InvoiceIds :
           /\ invoice'[j].status = invoice[j].status
           /\ Present(j) =>
                /\ invoice'[j].number = invoice[j].number
                /\ invoice'[j].workspace = invoice[j].workspace
                /\ invoice'[j].partner \in CustomersOf[invoice[j].workspace]
  PROVE  IInv'
<1>1. \A j \in InvoiceIds : RowSound(j)'
  BY DEF IInv, RowSound, Present, Issued
<1>2. UniqueNumbers'
  BY DEF IInv, UniqueNumbers, Present
<1>3. Carried'
  BY DEF IInv, Carried, Remember, Issued, Present
<1>4. QED
  BY <1>1, <1>2, <1>3, RememberNotices DEF IInv

LEMMA UpdateWriteIInv ==
  ASSUME IInv, TypeOK', Remember, NEW r \in Requests, NEW given \in SUBSET Fields,
         NEW partner \in Customers, NEW lines \in Lines, NEW discount \in Discounts,
         UpdateWrite(r, given, partner, lines, discount)
  PROVE  IInv'
<1>0. PICK i, q : i = req[r].id /\ q = req[r]
  OBVIOUS
<1>1. /\ i \in InvoiceIds /\ req[r] # Idle /\ req[r].at = "updating"
      /\ Present(i) /\ invoice[i] \in InvoiceRow
      /\ req' = [req EXCEPT ![r] = Idle] /\ counter' = counter
      /\ invoice' = [invoice EXCEPT ![i] = Edited(@, q, given, partner, lines, discount)]
  BY <1>0, RequestShape, InvoiceShape, IdleShape DEF UpdateWrite, IInv, Updating
<1>2. /\ invoice[i].workspace = q.workspace
      /\ "partnerId" \in given => partner \in CustomersOf[q.workspace]
      /\ invoice[i].partner \in CustomersOf[invoice[i].workspace]
  BY <1>0, <1>1 DEF UpdateWrite, IInv, RequestSound, RowSound
<1>3. PICK row : row = Edited(invoice[i], q, given, partner, lines, discount)
  OBVIOUS
<1>4. /\ row.status = invoice[i].status /\ row.number = invoice[i].number
      /\ row.workspace = invoice[i].workspace
      /\ row.partner \in CustomersOf[invoice[i].workspace]
  BY <1>1, <1>2, <1>3 DEF Edited, InvoiceRow
<1>5. invoice'[i] = row /\ \A j \in InvoiceIds : j # i => invoice'[j] = invoice[j]
  BY <1>1, <1>3 DEF IInv, TypeOK
<1>6. \A t \in Requests : RequestSound(req[t])'
  <2>1. invoice'[i] # Absent
    BY <1>1, <1>4, <1>5 DEF Absent, Present
  <2>2. Present(i)' => Present(i) /\ invoice'[i].workspace = invoice[i].workspace
    BY <1>1, <1>4, <1>5
  <2>3. QED
    BY <1>0, <1>1, <1>5, <2>1, <2>2, OthersStaySound
<1>7. \A j \in InvoiceIds :
        /\ invoice'[j].status = invoice[j].status
        /\ Present(j) =>
             /\ invoice'[j].number = invoice[j].number
             /\ invoice'[j].workspace = invoice[j].workspace
             /\ invoice'[j].partner \in CustomersOf[invoice[j].workspace]
  BY <1>4, <1>5 DEF IInv, RowSound
<1>8. OneHolder'
  BY <1>1, EndKeepsOneHolder
<1>9. QED
  BY <1>1, <1>6, <1>7, <1>8, EditIInv

\* Only drafts are removed while no two requests have met.
LEMMA RemoveWriteIInv ==
  ASSUME IInv, TypeOK', Remember, NEW r \in Requests, RemoveWrite(r)
  PROVE  IInv'
<1>0. PICK i : i = req[r].id
  OBVIOUS
<1>1. /\ i \in InvoiceIds /\ req[r] # Idle /\ Present(i)
      /\ req' = [req EXCEPT ![r] = Idle] /\ counter' = counter
      /\ i \notin met => invoice[i].status = "draft"
  BY <1>0, RequestShape, IdleShape DEF RemoveWrite, IInv, RequestSound, Removing
<1>2. /\ invoice'[i] = Deleted
      /\ \A j \in InvoiceIds : j # i => invoice'[j] = invoice[j]
  BY <1>0, <1>1 DEF RemoveWrite, IInv, TypeOK
<1>3. invoice'[i].status = "deleted"
  BY <1>2 DEF Deleted
<1>4. \A t \in Requests : RequestSound(req[t])'
  <2>1. invoice'[i] # Absent /\ ~Present(i)'
    BY <1>3 DEF Absent, Present
  <2>2. QED
    BY <1>0, <1>1, <1>2, <2>1, OthersStaySound
<1>5. \A j \in InvoiceIds : RowSound(j)'
  BY <1>1, <1>2, <1>3 DEF IInv, RowSound, Present, Issued
<1>6. UniqueNumbers'
  BY <1>2, <1>3 DEF IInv, UniqueNumbers, Present
<1>7. Carried'
  <2> SUFFICES ASSUME met' = {}, NEW w \in Workspaces, NEW y \in Years,
                      NEW n \in 1 .. counter[<<w, y>>]
               PROVE  \E j \in InvoiceIds :
                        /\ Issued(j)' /\ invoice'[j].workspace = w
                        /\ invoice'[j].number = <<y, n>>
    BY <1>1 DEF Carried
  <2>1. PICK j \in InvoiceIds :
          Issued(j) /\ invoice[j].workspace = w /\ invoice[j].number = <<y, n>>
    BY DEF IInv, Carried, Remember
  <2>2. j # i
    BY <1>1, <2>1 DEF Remember, Issued
  <2>3. QED
    BY <1>2, <2>1, <2>2 DEF Issued
<1>8. QED
  BY <1>1, <1>4, <1>5, <1>6, <1>7, RememberNotices, EndKeepsOneHolder DEF IInv

LEMMA QuoteRemovedIInv ==
  ASSUME IInv, TypeOK', Remember, NEW q \in QuoteIds, QuoteRemoved(q)
  PROVE  IInv'
<1>1. counter' = counter /\ req' = req
  BY DEF QuoteRemoved
<1>2. ASSUME NEW j \in InvoiceIds
      PROVE  /\ ~Present(j) => invoice'[j] = invoice[j]
             /\ invoice'[j].status = invoice[j].status
             /\ Present(j) => \A f \in {"number", "workspace", "partner", "lines", "discount"} :
                                invoice'[j][f] = invoice[j][f]
  BY InvoiceShape DEF QuoteRemoved, IInv, InvoiceRow
<1>3. ASSUME NEW t \in Requests PROVE RequestSound(req[t])'
  <2> SUFFICES ASSUME req[t] # Idle PROVE RequestSound(req[t])'
    BY <1>1 DEF RequestSound
  <2>1. PICK p, i : p = req[t] /\ i = req[t].id
    OBVIOUS
  <2>2. i \in InvoiceIds /\ RequestSound(p)
    BY <2>1, RequestShape DEF IInv
  <2>3. (invoice'[i] # Absent) <=> (invoice[i] # Absent)
    BY <1>2, <2>2, InvoiceShape DEF IInv, Absent
  <2>4. RequestSound(p)'
    BY <1>1, <1>2, <2>1, <2>2, <2>3 DEF RequestSound, Remember, Present
  <2>5. QED
    BY <1>1, <2>1, <2>4
<1>4. OneHolder'
  BY <1>1 DEF IInv, OneHolder
<1>5. QED
  BY <1>1, <1>2, <1>3, <1>4, EditIInv DEF IInv, RowSound

\* NewYear and stuttering.
LEMMA SameRowsIInv ==
  ASSUME IInv, TypeOK', invoice' = invoice, counter' = counter, req' = req,
         met \subseteq met'
  PROVE  IInv'
BY DEF IInv, RequestSound, RowSound, OneHolder, Noticed, UniqueNumbers, Carried,
       Present, Issued

\* Every step preserves the invariant.
LEMMA StepIInv == IInv /\ [Next]_vars => IInv'
<1> SUFFICES ASSUME IInv, [Next]_vars PROVE IInv'
  OBVIOUS
<1>1. TypeOK'
  BY StepType DEF IInv
<1>2. CASE UNCHANGED vars
  BY <1>1, <1>2, SameRowsIInv DEF vars
<1>3. CASE Next
  <2>1. Remember
    BY <1>3 DEF Next
  <2>2. CASE NewYear
    BY <1>1, <2>1, <2>2, SameRowsIInv DEF NewYear, Remember
  <2>3. CASE QuotesServiceStep
    BY <1>1, <2>1, <2>3, ConvertedIInv, QuoteRemovedIInv DEF QuotesServiceStep
  <2>4. CASE \E r \in Requests : RemoveWrite(r)
    BY <1>1, <2>1, <2>4, RemoveWriteIInv
  <2>5. CASE InvoiceStep
    BY <1>1, <2>1, <2>5, CreateIInv, IssueReadIInv, TakeNumberIInv, IssueCommitIInv,
       UpdateReadIInv, UpdateWriteIInv, RemoveReadIInv, AbandonIInv
    DEF InvoiceStep, CreateStep, RequestStep
  <2>6. QED
    BY <1>3, <2>2, <2>3, <2>4, <2>5 DEF Next
<1>4. QED
  BY <1>2, <1>3

LEMMA Invariance == Spec => []IInv
BY InitIInv, StepIInv, PTL DEF Spec

-----------------------------------------------------------------------------
(* The theorems                                                             *)

\* Two invoices of a workspace never carry the same number: the unique index of
\* the table is never what stops a duplicate.
THEOREM InvoiceNumbersAreUnique == Spec => []UniqueNumbers
BY Invariance, PTL DEF IInv

\* validatePartner at creation and at each PATCH is enough for every invoice to
\* be of a customer of its own workspace.
THEOREM PartnersStayLocal == Spec => []PartnersAreLocal
<1>1. IInv => PartnersAreLocal
  BY DEF IInv, RowSound, PartnersAreLocal
<1>2. QED
  BY <1>1, Invariance, PTL

\* Until two requests meet on an invoice, the numbers of a workspace and year
\* are 1 .. last_number, whatever overlaps and rolls back.
THEOREM InvoiceNumbersAreGapless == Spec => []GaplessUnlessMet
<1>1. ASSUME IInv, met = {}, NEW s \in Series PROVE NumbersIn(s) = 1 .. counter[s]
  <2>1. PICK w \in Workspaces, y \in Years : s = <<w, y>>
    BY DEF Series
  <2>2. s[1] = w /\ s[2] = y /\ counter[s] \in Nat
    BY <1>1, <2>1 DEF IInv, TypeOK
  <2>3. ASSUME NEW j \in InvoiceIds, Present(j), invoice[j].number # NoNumber,
               invoice[j].workspace = w, invoice[j].number[1] = y
        PROVE  invoice[j].number[2] \in 1 .. counter[s]
    BY <1>1, <2>1, <2>3 DEF IInv, RowSound
  <2>4. ASSUME NEW n \in 1 .. counter[s]
        PROVE  \E j \in InvoiceIds :
                 /\ Present(j) /\ invoice[j].number # NoNumber
                 /\ invoice[j].workspace = w /\ invoice[j].number[1] = y
                 /\ invoice[j].number[2] = n
    <3>1. PICK j \in InvoiceIds :
            Issued(j) /\ invoice[j].workspace = w /\ invoice[j].number = <<y, n>>
      BY <1>1, <2>1, <2>4 DEF IInv, Carried
    <3>2. Present(j)
      BY <3>1 DEF Issued, Present
    <3>3. <<y, n>> # NoNumber /\ <<y, n>>[1] = y /\ <<y, n>>[2] = n
      BY NumberShape
    <3>4. QED
      BY <3>1, <3>2, <3>3
  <2>5. QED
    BY <2>2, <2>3, <2>4 DEF NumbersIn
<1>2. IInv => GaplessUnlessMet
  BY <1>1 DEF GaplessUnlessMet
<1>3. QED
  BY <1>2, Invariance, PTL

\* What a step leaves of a row: only issue gives a number, and it is the next one.
LEMMA NumberStep ==
  ASSUME IInv, Next, NEW i \in InvoiceIds, Present(i), invoice'[i] \in InvoiceRow,
         invoice'[i].number # invoice[i].number
  PROVE  /\ invoice'[i].number # NoNumber
         /\ invoice'[i].number[2] > counter[<<invoice[i].workspace, invoice'[i].number[1]>>]
<1>1. invoice[i] # Absent /\ invoice[i] \in InvoiceRow /\ invoice'[i] # Deleted
  BY InvoiceShape DEF IInv, Present, Absent, Deleted, InvoiceRow
<1>2. ASSUME NEW r \in Requests, IssueCommit(r)
      PROVE  /\ invoice'[i].number # NoNumber
             /\ invoice'[i].number[2] > counter[<<invoice[i].workspace, invoice'[i].number[1]>>]
  <2>1. req[r] \in Numbered /\ req[r] # Idle /\ req[r].at = "numbered"
    BY <1>2, RequestShape, IdleShape DEF IssueCommit, IInv
  <2>2. req[r].id = i
    BY <1>2, <2>1 DEF IssueCommit, IInv, TypeOK, Numbered
  <2>3. invoice'[i].number = <<req[r].series[2], req[r].number>>
    BY <1>1, <1>2, <2>2 DEF IssueCommit, IInv, TypeOK, InvoiceRow
  <2>4. /\ invoice[i].workspace = req[r].series[1]
        /\ req[r].number = counter[req[r].series] + 1
    BY <2>1, <2>2 DEF IInv, RequestSound
  <2>5. PICK w \in Workspaces, y \in Years, n \in Nat :
          req[r].series = <<w, y>> /\ req[r].number = n
    BY <2>1 DEF Numbered, Series
  <2>6. /\ invoice'[i].number = <<y, n>> /\ invoice[i].workspace = w
        /\ n = counter[<<w, y>>] + 1
    BY <2>3, <2>4, <2>5
  <2>7. counter[<<w, y>>] \in Nat
    BY DEF IInv, TypeOK, Series
  <2>8. <<y, n>> # NoNumber /\ <<y, n>>[1] = y /\ <<y, n>>[2] = n
    BY NumberShape
  <2>9. n > counter[<<w, y>>]
    BY <2>6, <2>7
  <2>10. QED
    BY <2>6, <2>8, <2>9
<1>3. ASSUME NEW r \in Requests, NEW given \in SUBSET Fields,
             NEW partner \in Customers, NEW lines \in Lines,
             NEW discount \in Discounts,
             UpdateWrite(r, given, partner, lines, discount)
      PROVE  FALSE
  <2>1. PICK row : row = Edited(invoice[i], req[r], given, partner, lines, discount)
    OBVIOUS
  <2>2. row.number = invoice[i].number
    BY <1>1, <2>1 DEF Edited, InvoiceRow
  <2>3. invoice'[i] \in {row, invoice[i]}
    BY <1>3, <2>1 DEF UpdateWrite, IInv, TypeOK
  <2>4. QED
    BY <2>2, <2>3
<1>4. ASSUME NEW r \in Requests, RemoveWrite(r) PROVE FALSE
  <2>1. invoice'[i] \in {Deleted, invoice[i]}
    BY <1>4 DEF RemoveWrite, IInv, TypeOK
  <2>2. QED
    BY <1>1, <2>1
<1>5. ASSUME CreateStep PROVE invoice'[i] = invoice[i]
  BY <1>1, <1>5 DEF CreateStep, Create, IInv, TypeOK
<1>6. ASSUME QuotesServiceStep PROVE invoice'[i].number = invoice[i].number
  <2>1. ASSUME NEW q \in QuoteIds, QuoteRemoved(q)
        PROVE  invoice'[i].number = invoice[i].number
    BY <1>1, <2>1 DEF QuoteRemoved, InvoiceRow
  <2>2. ASSUME NEW w \in Workspaces, NEW partner \in Customers, NEW lines \in Lines,
               NEW discount \in Discounts, NEW totals \in AllTotals,
               NEW q \in QuoteIds, NEW j \in InvoiceIds,
               Converted(w, partner, lines, discount, totals, q, j)
        PROVE  invoice'[i] = invoice[i]
    BY <1>1, <2>2 DEF Converted, IInv, TypeOK
  <2>3. QED
    BY <1>6, <2>1, <2>2 DEF QuotesServiceStep
<1>7. QED
  BY <1>2, <1>3, <1>4, <1>5, <1>6
  DEF Next, InvoiceStep, RequestStep, IssueRead, TakeNumber, UpdateRead, RemoveRead,
      Abandon, NewYear

\* A number an invoice gets is above every one handed out in its series before:
\* one deleted since, or one a rolled back transaction gave up, never returns twice.
THEOREM InvoiceNumbersAreNew == Spec => NumbersAreNew
<1>1. ASSUME IInv, [Next]_vars, NEW i \in InvoiceIds, Present(i),
             invoice'[i] \in InvoiceRow, invoice'[i].number # invoice[i].number
      PROVE  /\ invoice'[i].number # NoNumber
             /\ invoice'[i].number[2] > counter[<<invoice[i].workspace, invoice'[i].number[1]>>]
  <2>1. CASE UNCHANGED vars
    BY <1>1, <2>1 DEF vars
  <2>2. CASE Next
    BY <1>1, <2>2, NumberStep
  <2>3. QED
    BY <1>1, <2>1, <2>2
<1>2. IInv /\ [Next]_vars =>
        \A i \in InvoiceIds :
          /\ Present(i)
          /\ invoice'[i] \in InvoiceRow
          /\ invoice'[i].number # invoice[i].number
          => /\ invoice'[i].number # NoNumber
             /\ invoice'[i].number[2] > counter[<<invoice[i].workspace, invoice'[i].number[1]>>]
  BY <1>1
<1>3. QED
  BY <1>2, Invariance, PTL DEF Spec, NumbersAreNew

\* A request that is alone on an invoice finds it a draft when it writes, so an
\* issued one that no two requests met on is neither changed nor removed.
THEOREM IssuedInvoicesStayLocked == Spec => IssuedLockedUnlessMet
<1>1. ASSUME IInv, [Next]_vars, NEW i \in InvoiceIds \ met PROVE StaysLocked(i)
  <2> SUFFICES ASSUME Issued(i) PROVE StaysLocked(i)
    BY DEF StaysLocked
  <2>1. /\ Present(i) /\ invoice[i] # Absent
        /\ \A r \in Requests : req[r] # Idle => req[r].id # i
    BY <1>1 DEF IInv, RequestSound, Issued, Present, Absent
  <2>2. /\ invoice'[i].status = invoice[i].status
        /\ \A f \in {"number", "partner", "lines", "discount", "totals"} :
             invoice'[i][f] = invoice[i][f]
    <3>1. CASE UNCHANGED vars
      BY <3>1 DEF vars
    <3>2. ASSUME NEW r \in Requests, req[r] # Idle,
                 \/ IssueCommit(r)
                 \/ RemoveWrite(r)
                 \/ \E given \in SUBSET Fields, partner \in Customers,
                       lines \in Lines, discount \in Discounts :
                      UpdateWrite(r, given, partner, lines, discount)
          PROVE  invoice'[i] = invoice[i]
      BY <1>1, <2>1, <3>2 DEF IssueCommit, RemoveWrite, UpdateWrite, IInv, TypeOK
    <3>3. ASSUME NEW r \in Requests, RequestStep(r) \/ RemoveWrite(r)
          PROVE  invoice'[i] = invoice[i]
      BY <3>2, <3>3, IdleShape
      DEF RequestStep, IssueRead, TakeNumber, UpdateRead, RemoveRead, Abandon,
          IssueCommit, UpdateWrite, RemoveWrite
    <3>4. CASE CreateStep
      BY <2>1, <3>4 DEF CreateStep, Create, IInv, TypeOK
    <3>5. CASE QuotesServiceStep
      <4>1. invoice[i] \in InvoiceRow
        BY <1>1, <2>1, InvoiceShape DEF IInv
      <4>2. ASSUME NEW q \in QuoteIds, QuoteRemoved(q) 
            PROVE  /\ invoice'[i].status = invoice[i].status
                   /\ \A f \in {"number", "partner", "lines", "discount", "totals"} :
                        invoice'[i][f] = invoice[i][f]
        BY <1>1, <4>1, <4>2 DEF QuoteRemoved, InvoiceRow
      <4>3. ASSUME NEW w \in Workspaces, NEW partner \in Customers, NEW lines \in Lines,
                   NEW discount \in Discounts, NEW totals \in AllTotals,
                   NEW q \in QuoteIds, NEW j \in InvoiceIds,
                   Converted(w, partner, lines, discount, totals, q, j)
            PROVE  invoice'[i] = invoice[i]
        BY <1>1, <2>1, <4>3 DEF Converted, IInv, TypeOK
      <4>4. QED
        BY <3>5, <4>2, <4>3 DEF QuotesServiceStep
    <3>6. QED
      BY <1>1, <3>1, <3>3, <3>4, <3>5 DEF Next, InvoiceStep, NewYear
  <2>3. Present(i)'
    BY <2>1, <2>2 DEF Present
  <2>4. QED
    BY <2>2, <2>3 DEF StaysLocked
<1>2. IInv /\ [Next]_vars => \A i \in InvoiceIds \ met : StaysLocked(i)
  BY <1>1
<1>3. QED
  BY <1>2, Invariance, PTL DEF Spec, IssuedLockedUnlessMet
=============================================================================
