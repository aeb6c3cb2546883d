----------------------------- MODULE Quotes_proofs -----------------------------
(***************************************************************************)
(* Quotes, for every set of workspaces, quotes, invoices and concurrent    *)
(* requests and every span of years.                                       *)
(***************************************************************************)
EXTENDS Quotes, TLAPS

\* What a request that creates a quote may rely on: its id is no row's yet; the
\* number it took comes next; what it revises was a quote of its workspace, not
\* younger than its series, and while no other request met it there that is
\* still waiting for this revision, as it was read.
CreateSound(c) ==
  /\ quote[c.id] = Absent
  /\ c.series[2] <= year
  /\ c.at = "numbered" => c.number = counter[c.series] + 1
  /\ c.supersedes # NoQuote =>
       /\ quote[c.supersedes] # Absent
       /\ Present(c.supersedes) =>
            /\ quote[c.supersedes].workspace = c.series[1]
            /\ quote[c.supersedes].number[1] <= c.series[2]
       /\ c.supersedes \notin met =>
            /\ quote[c.supersedes].status = "revision_requested"
            /\ quote[c.supersedes].partner = c.partner
            /\ quote[c.supersedes].lines = c.lines
            /\ quote[c.supersedes].discount = c.discount

\* What a request that writes a quote may rely on: the row was inserted, and
\* while no other request met it there it is in the status that was read.
WriteSound(c) ==
  /\ quote[c.id] # Absent
  /\ c.id \notin met =>
       /\ c.at \in {"sending", "updating", "removing"} => quote[c.id].status = "draft"
       /\ c.at = "answering" => quote[c.id].status = "sent"
       /\ c.at = "updating" => /\ quote[c.id].lines = c.lines
                               /\ quote[c.id].discount = c.discount
       /\ c.at = "converting" =>
            /\ quote[c.id].status = "accepted"
            /\ quote[c.id].workspace = c.workspace
            /\ quote[c.id].partner = c.partner
            /\ quote[c.id].lines = c.lines
            /\ quote[c.id].discount = c.discount
            /\ quote[c.id].totals = c.totals

Creates(c) == c.at \in {"creating", "numbered"}

RequestSound(c) ==
  /\ Creates(c) => CreateSound(c)
  /\ c # Idle /\ ~Creates(c) => WriteSound(c)

\* A row's number was handed out, and its amounts are those of its lines unless
\* requests met on it.
RowSound(q) ==
  Present(q) =>
    /\ quote[q].number[1] <= year
    /\ quote[q].number[2] \in 1 .. counter[<<quote[q].workspace, quote[q].number[1]>>]
    /\ q \notin met => quote[q].totals = Totals(quote[q].lines, quote[q].discount)

\* A counter's row lock has one holder.
OneHolder ==
  \A r, s \in Requests :
    /\ req[r].at = "numbered" /\ req[s].at = "numbered"
    /\ req[r].series = req[s].series
    => r = s

\* An id is given to one request.
OneMaker ==
  \A r, s \in Requests :
    InCreate(r) /\ InCreate(s) /\ req[r].id = req[s].id => r = s

\* "met" has noticed every meeting.
Noticed ==
  \A q \in QuoteIds, r, s \in Requests :
    r # s /\ q \in Targets(r) /\ q \in Targets(s) => q \in met

IInv ==
  /\ TypeOK
  /\ \A r \in Requests : RequestSound(req[r])
  /\ \A q \in QuoteIds : RowSound(q)
  /\ OneHolder
  /\ OneMaker
  /\ Noticed
  /\ UniqueNumbers
  /\ RevisionsAreLater

-----------------------------------------------------------------------------
(* The shapes of records                                                    *)

LEMMA RequestShape ==
  ASSUME TypeOK, NEW r \in Requests
  PROVE  /\ req[r] \in RequestState
         /\ req[r].at = "creating" <=> req[r] \in Creating
         /\ req[r].at = "numbered" <=> req[r] \in Numbered
         /\ req[r].at = "updating" <=> req[r] \in Updating
         /\ req[r].at = "converting" <=> req[r] \in Converting
         /\ req[r].at \in {"sending", "answering", "removing"} <=> req[r] \in Holding
         /\ req[r].at = "idle" <=> req[r] = Idle
         /\ req[r] # Idle => req[r].id \in QuoteIds
BY DEF TypeOK, RequestState, Idle, Creating, Numbered, Updating, Converting, Holding

LEMMA QuoteShape ==
  ASSUME TypeOK, NEW q \in QuoteIds
  PROVE  /\ Present(q) <=> quote[q] \in QuoteRow
         /\ ~Present(q) <=> quote[q] \in {Absent, Deleted}
         /\ quote[q] = Absent <=> quote[q].status = "absent"
BY DEF TypeOK, Present, QuoteRow, QuoteStatus, Outcomes, Absent, Deleted

LEMMA IdleShape == Idle.at = "idle" /\ ~Creates(Idle)
BY DEF Idle, Creates

\* The quotes a request is about.
LEMMA TargetsOf ==
  ASSUME TypeOK, NEW r \in Requests
  PROVE  /\ Targets(r) \subseteq QuoteIds
         /\ req[r] # Idle => req[r].id \in Targets(r)
         /\ InCreate(r) /\ req[r].supersedes # NoQuote
              => req[r].supersedes \in Targets(r) /\ req[r].supersedes \in QuoteIds
<1>1. InCreate(r) => req[r].supersedes \in QuoteIds \cup {NoQuote} /\ req[r] # Idle
  BY RequestShape, IdleShape DEF InCreate, Creating, Numbered
<1> QED
  BY <1>1, RequestShape DEF Targets

-----------------------------------------------------------------------------
(* Type correctness                                                         *)

LEMMA InitType == Init => TypeOK
<1>1. FirstYear \in Years
  BY DocumentsAssumption DEF Years
<1> QED
  BY <1>1 DEF Init, TypeOK, RequestState

LEMMA TypeOfRequestStep ==
  ASSUME TypeOK, NEW r \in Requests, NEW c \in RequestState,
         req' = [req EXCEPT ![r] = c]
  PROVE  req' \in [Requests -> RequestState]
BY DEF TypeOK

LEMMA EditedType ==
  ASSUME NEW row \in QuoteRow, NEW read, read.lines \in Lines,
         read.discount \in Discounts, NEW given, NEW partner \in Customers,
         NEW lines \in Lines, NEW discount \in Discounts
  PROVE  Edited(row, read, given, partner, lines, discount) \in QuoteRow
BY DEF QuoteRow, Edited, Totals, AllTotals

\* What TypeOK says of all but the history.
TypedButMet ==
  /\ quote \in [QuoteIds -> QuoteRow \cup {Absent, Deleted}]
  /\ counter \in [Series -> Nat]
  /\ req \in [Requests -> RequestState]
  /\ year \in Years

\* A step of request r that writes no row.
LEMMA ReadType ==
  ASSUME TypeOK, NEW r \in Requests, NEW c \in RequestState,
         req' = [req EXCEPT ![r] = c], UNCHANGED <<quote, counter, year>>
  PROVE  TypedButMet'
BY TypeOfRequestStep DEF TypeOK, TypedButMet

\* A step of request r that writes the rows and ends it.
LEMMA WriteType ==
  ASSUME TypeOK, NEW r \in Requests, req' = [req EXCEPT ![r] = Idle],
         UNCHANGED <<counter, year>>,
         quote' \in [QuoteIds -> QuoteRow \cup {Absent, Deleted}]
  PROVE  TypedButMet'
BY TypeOfRequestStep DEF TypeOK, TypedButMet, RequestState

LEMMA StatusType ==
  ASSUME TypeOK, NEW r \in Requests, NEW at, NEW status \in QuoteStatus,
         WriteStatus(r, at, status), at \in {"sending", "answering"}
  PROVE  TypedButMet'
<1>1. PICK i : i = req[r].id
  OBVIOUS
<1>2. i \in QuoteIds /\ quote[i] \in QuoteRow
  BY <1>1, RequestShape, QuoteShape DEF WriteStatus, Holding
<1>3. [quote[i] EXCEPT !.status = status] \in QuoteRow
  BY <1>2 DEF QuoteRow
<1>4. quote' \in [QuoteIds -> QuoteRow \cup {Absent, Deleted}]
  BY <1>1, <1>2, <1>3 DEF WriteStatus, TypeOK
<1> QED
  BY <1>4, WriteType DEF WriteStatus

LEMMA HoldingType ==
  ASSUME TypeOK, NEW r \in Requests, NEW w, NEW q \in QuoteIds, NEW status,
         NEW next \in {"sending", "answering", "removing"},
         ReadAs(r, w, q, status, next)
  PROVE  TypedButMet'
<1>1. [at |-> next, id |-> q] \in RequestState
  BY DEF RequestState, Holding
<1> QED
  BY <1>1, ReadType DEF ReadAs

\* Each action leaves the state well typed.
LEMMA ReadsType ==
  ASSUME TypeOK, NEW r \in Requests, NEW w \in Workspaces, NEW q \in QuoteIds,
         Reads(r, w, q)
  PROVE  TypedButMet'
<1>1. ASSUME UpdateRead(r, w, q) PROVE TypedButMet'
  <2>1. quote[q] \in QuoteRow
    BY <1>1, QuoteShape DEF UpdateRead, Finds, Present, QuoteStatus
  <2>2. [at |-> "updating", id |-> q, workspace |-> w,
         lines |-> quote[q].lines, discount |-> quote[q].discount] \in RequestState
    BY <2>1 DEF RequestState, Updating, QuoteRow
  <2> QED
    BY <1>1, <2>2, ReadType DEF UpdateRead
<1>2. ASSUME ConvertRead(r, w, q) PROVE TypedButMet'
  <2>1. quote[q] \in QuoteRow
    BY <1>2, QuoteShape DEF ConvertRead, Finds, Present, QuoteStatus, Outcomes
  <2>2. [at |-> "converting", id |-> q, workspace |-> w,
         partner |-> quote[q].partner, lines |-> quote[q].lines,
         discount |-> quote[q].discount, totals |-> quote[q].totals] \in RequestState
    BY <2>1 DEF RequestState, Converting, QuoteRow
  <2> QED
    BY <1>2, <2>2, ReadType DEF ConvertRead
<1>3. ASSUME NEW p \in QuoteIds, ReviseRead(r, w, q, p) PROVE TypedButMet'
  <2>1. quote[q] \in QuoteRow
    BY <1>3, QuoteShape DEF ReviseRead, Finds, Present, QuoteStatus, Outcomes
  <2>2. [at |-> "creating", id |-> p, series |-> <<w, year>>,
         partner |-> quote[q].partner, lines |-> quote[q].lines,
         discount |-> quote[q].discount, supersedes |-> q] \in RequestState
    BY <2>1 DEF RequestState, Creating, QuoteRow, Series, TypeOK
  <2> QED
    BY <1>3, <2>2, ReadType DEF ReviseRead
<1> QED
  BY <1>1, <1>2, <1>3, HoldingType DEF Reads, SendRead, AnswerRead, RemoveRead

LEMMA StepType == TypeOK /\ [Next]_vars => TypeOK'
<1> SUFFICES ASSUME TypeOK, [Next]_vars PROVE TypeOK'
  OBVIOUS
<1>1. CASE UNCHANGED vars
  BY <1>1 DEF TypeOK, vars
<1> SUFFICES ASSUME Next PROVE TypedButMet'
  BY <1>1 DEF Next, Remember, Meeting, TypeOK, TypedButMet
<1>2. ASSUME NEW r \in Requests, NEW w \in Workspaces, NEW partner \in Customers,
             NEW lines \in Lines, NEW discount \in Discounts, NEW q \in QuoteIds,
             Create(r, w, partner, lines, discount, q)
      PROVE  TypedButMet'
  <2>1. [at |-> "creating", id |-> q, series |-> <<w, year>>, partner |-> partner,
         lines |-> lines, discount |-> discount, supersedes |-> NoQuote] \in RequestState
    BY DEF RequestState, Creating, Series, TypeOK
  <2> QED
    BY <1>2, <2>1, ReadType DEF Create
<1>3. ASSUME NEW r \in Requests, TakeNumber(r) PROVE TypedButMet'
  <2>1. req[r] \in Creating
    BY <1>3, RequestShape DEF TakeNumber
  <2>2. counter[req[r].series] + 1 \in Nat
    BY <2>1 DEF Creating, TypeOK
  <2>3. [at |-> "numbered", id |-> req[r].id, series |-> req[r].series,
         partner |-> req[r].partner, lines |-> req[r].lines,
         discount |-> req[r].discount, supersedes |-> req[r].supersedes,
         number |-> counter[req[r].series] + 1] \in RequestState
    BY <2>1, <2>2 DEF RequestState, Creating, Numbered
  <2> QED
    BY <1>3, <2>3, ReadType DEF TakeNumber
<1>4. ASSUME NEW r \in Requests, CommitQuote(r) PROVE TypedButMet'
  <2>1. req[r] \in Numbered
    BY <1>4, RequestShape DEF CommitQuote
  <2>2. [status |-> "draft", workspace |-> req[r].series[1],
         number |-> <<req[r].series[2], req[r].number>>, partner |-> req[r].partner,
         lines |-> req[r].lines, discount |-> req[r].discount,
         totals |-> Totals(req[r].lines, req[r].discount),
         supersedes |-> req[r].supersedes, converted |-> NoInvoice] \in QuoteRow
    BY <2>1 DEF Numbered, QuoteRow, QuoteStatus, Series, Totals, AllTotals
  <2>3. quote' \in [QuoteIds -> QuoteRow \cup {Absent, Deleted}]
    BY <1>4, <2>2 DEF CommitQuote, TypeOK
  <2>4. counter' \in [Series -> Nat] /\ year' \in Years
    BY <1>4, <2>1 DEF CommitQuote, TypeOK, Numbered
  <2>5. req' \in [Requests -> RequestState]
    BY <1>4, TypeOfRequestStep DEF CommitQuote, RequestState
  <2> QED
    BY <2>3, <2>4, <2>5 DEF TypedButMet
<1>5. ASSUME NEW r \in Requests, SendWrite(r) PROVE TypedButMet'
  BY <1>5, StatusType DEF SendWrite, QuoteStatus
<1>6. ASSUME NEW r \in Requests, NEW status \in StatusBodies, AnswerWrite(r, status)
      PROVE  TypedButMet'
  BY <1>6, StatusType, QuotesAssumption DEF AnswerWrite, QuoteStatus
<1>7. ASSUME NEW r \in Requests, NEW given \in SUBSET Fields,
             NEW partner \in Customers, NEW lines \in Lines, NEW discount \in Discounts,
             UpdateWrite(r, given, partner, lines, discount)
      PROVE  TypedButMet'
  <2>1. req[r] \in Updating /\ quote[req[r].id] \in QuoteRow
    BY <1>7, RequestShape, QuoteShape DEF UpdateWrite, Updating
  <2>2. Edited(quote[req[r].id], req[r], given, partner, lines, discount) \in QuoteRow
    BY <2>1, EditedType DEF Updating
  <2>3. quote' \in [QuoteIds -> QuoteRow \cup {Absent, Deleted}]
    BY <1>7, <2>1, <2>2 DEF UpdateWrite, TypeOK
  <2> QED
    BY <1>7, <2>3, WriteType DEF UpdateWrite
<1>8. ASSUME NEW r \in Requests, RemoveWrite(r) PROVE TypedButMet'
  <2>1. ASSUME NEW q \in QuoteIds, Present(q)
        PROVE  [quote[q] EXCEPT !.supersedes = NoQuote] \in QuoteRow
    BY <2>1, QuoteShape DEF QuoteRow
  <2>2. quote' \in [QuoteIds -> QuoteRow \cup {Absent, Deleted}]
    BY <1>8, <2>1 DEF RemoveWrite, TypeOK
  <2> QED
    BY <1>8, <2>2, WriteType DEF RemoveWrite
<1>9. ASSUME NEW r \in Requests, NEW i \in InvoiceIds, ConvertWrite(r, i)
      PROVE  TypedButMet'
  <2>1. PICK q : q = req[r].id
    OBVIOUS
  <2>2. q \in QuoteIds /\ quote[q] \in QuoteRow
    BY <1>9, <2>1, RequestShape, QuoteShape DEF ConvertWrite, Converting
  <2>3. [quote[q] EXCEPT !.converted = i] \in QuoteRow
    BY <2>2 DEF QuoteRow
  <2>4. quote' \in [QuoteIds -> QuoteRow \cup {Absent, Deleted}]
    BY <1>9, <2>1, <2>2, <2>3 DEF ConvertWrite, TypeOK
  <2> QED
    BY <1>9, <2>4, WriteType DEF ConvertWrite
<1>10. ASSUME NEW i \in InvoiceIds, InvoiceRemoved(i) PROVE TypedButMet'
  <2>1. ASSUME NEW q \in QuoteIds, Present(q)
        PROVE  [quote[q] EXCEPT !.converted = NoInvoice] \in QuoteRow
    BY <2>1, QuoteShape DEF QuoteRow
  <2>2. quote' \in [QuoteIds -> QuoteRow \cup {Absent, Deleted}]
    BY <1>10, <2>1 DEF InvoiceRemoved, TypeOK
  <2> QED
    BY <1>10, <2>2 DEF InvoiceRemoved, TypeOK, TypedButMet
<1>11. ASSUME NEW r \in Requests, Abandon(r) PROVE TypedButMet'
  BY <1>11, ReadType DEF Abandon, RequestState
<1>12. CASE NewYear
  BY <1>12, DocumentsAssumption DEF NewYear, TypeOK, TypedButMet, Years
<1> QED
  BY <1>2, <1>3, <1>4, <1>5, <1>6, <1>7, <1>8, <1>9, <1>10, <1>11, <1>12, ReadsType
  DEF Next, QuoteStep, Writes

\* Every reachable state is well typed, when the client only sends statuses of
\* quotes.
THEOREM TypeCorrect == Spec => []TypeOK
BY InitType, StepType, PTL DEF Spec

-----------------------------------------------------------------------------
(* The inductive invariant                                                  *)

LEMMA InitIInv == Init => IInv
<1> SUFFICES ASSUME Init PROVE IInv
  OBVIOUS
<1>1. \A r \in Requests : req[r] = Idle /\ ~Creates(req[r]) /\ ~InCreate(r) /\ Targets(r) = {}
  BY IdleShape DEF Init, InCreate, Creates, Targets
<1>2. \A q \in QuoteIds : ~Present(q)
  BY DEF Init, Absent, Present, QuoteStatus, Outcomes
<1>3. \A r \in Requests : req[r].at # "numbered"
  BY <1>1 DEF Creates
<1> QED
  BY <1>1, <1>2, <1>3, InitType
  DEF IInv, RequestSound, RowSound, OneHolder, OneMaker, Noticed, UniqueNumbers,
      RevisionsAreLater

\* Remembering the meetings of every new state notices them all.
LEMMA RememberNotices ==
  ASSUME Remember
  PROVE  Noticed'
BY DEF Noticed, Meeting, Remember

\* The step leaves quote q as it was but for its links.
Kept(q) ==
  /\ (quote'[q] = Absent) <=> (quote[q] = Absent)
  /\ quote'[q].status = quote[q].status
  /\ Present(q) => /\ quote'[q].workspace = quote[q].workspace
                   /\ quote'[q].number = quote[q].number
                   /\ quote'[q].partner = quote[q].partner
                   /\ quote'[q].lines = quote[q].lines
                   /\ quote'[q].discount = quote[q].discount
                   /\ quote'[q].totals = quote[q].totals

\* The step neither inserts quote q nor gives it another number.
SameQuote(q) ==
  /\ quote[q] # Absent /\ quote'[q] # Absent
  /\ Present(q)' => /\ Present(q)
                    /\ quote'[q].workspace = quote[q].workspace
                    /\ quote'[q].number = quote[q].number

\* A request stays sound while the quotes it is about are kept: one that another
\* writes is of a meeting.
LEMMA StaysSound ==
  ASSUME TypeOK, met \subseteq met', year \in Nat, year' \in Nat, year <= year',
         NEW t \in Requests, RequestSound(req[t]), req'[t] = req[t],
         req[t].at = "numbered" => counter'[req[t].series] = counter[req[t].series],
         \A q \in Targets(t) : Kept(q) \/ (q \in met' /\ SameQuote(q))
  PROVE  RequestSound(req[t])'
<1>1. PICK c : c = req[t]
  OBVIOUS
<1>2. ASSUME Creates(c) PROVE CreateSound(c)'
  <2>1. /\ c \in Creating \cup Numbered
        /\ c.id \in Targets(t)
        /\ c.supersedes # NoQuote => c.supersedes \in Targets(t)
    BY <1>1, <1>2, RequestShape, TargetsOf, IdleShape DEF Creates, InCreate
  <2>2. CreateSound(c)
    BY <1>1, <1>2 DEF RequestSound
  <2>3. quote'[c.id] = Absent
    BY <2>1, <2>2 DEF CreateSound, Kept, SameQuote
  <2>4. c.series[2] \in Nat /\ c.series[2] <= year'
    BY <2>1, <2>2, DocumentsAssumption DEF CreateSound, Creating, Numbered, Series, Years
  <2>5. ASSUME c.supersedes # NoQuote
        PROVE  /\ quote'[c.supersedes] # Absent
               /\ Present(c.supersedes)' =>
                    /\ quote'[c.supersedes].workspace = c.series[1]
                    /\ quote'[c.supersedes].number[1] <= c.series[2]
               /\ c.supersedes \notin met' =>
                    /\ quote'[c.supersedes].status = "revision_requested"
                    /\ quote'[c.supersedes].partner = c.partner
                    /\ quote'[c.supersedes].lines = c.lines
                    /\ quote'[c.supersedes].discount = c.discount
    <3>1. PICK s : s = c.supersedes
      OBVIOUS
    <3>2. s \in Targets(t) /\ (Kept(s) \/ (s \in met' /\ SameQuote(s)))
      BY <2>1, <2>5, <3>1
    <3>3. CASE s \in met' /\ SameQuote(s)
      BY <2>2, <2>5, <3>1, <3>3 DEF CreateSound, SameQuote
    <3>4. CASE Kept(s)
      BY <2>2, <2>5, <3>1, <3>4 DEF CreateSound, Kept, Present, QuoteStatus, Outcomes
    <3> QED
      BY <3>2, <3>3, <3>4
  <2> QED
    BY <1>1, <2>2, <2>3, <2>4, <2>5 DEF CreateSound
<1>3. ASSUME c # Idle, ~Creates(c) PROVE WriteSound(c)'
  <2>1. c.id \in Targets(t) /\ WriteSound(c)
    BY <1>1, <1>3, TargetsOf DEF RequestSound
  <2>2. CASE c.id \in met' /\ SameQuote(c.id)
    BY <2>2 DEF WriteSound, SameQuote
  <2>3. CASE Kept(c.id)
    BY <2>1, <2>3 DEF WriteSound, Kept, Present, QuoteStatus, Outcomes
  <2> QED
    BY <1>1, <2>1, <2>2, <2>3
<1> QED
  BY <1>1, <1>2, <1>3 DEF RequestSound

\* A row that only changes a link is kept.
LEMMA LinksOnly ==
  ASSUME NEW q, quote[q] \in QuoteRow, NEW x,
         \/ quote'[q] = [quote[q] EXCEPT !.supersedes = x]
         \/ quote'[q] = [quote[q] EXCEPT !.converted = x]
  PROVE  Kept(q) /\ Present(q)'
BY DEF QuoteRow, Kept, Present, Absent, QuoteStatus, Outcomes

\* What a step that inserts no row must do to keep the rows sound.
LEMMA RowsStay ==
  ASSUME IInv, TypeOK', met \subseteq met', counter' = counter, year <= year',
         \A q \in QuoteIds : Present(q)' =>
           /\ Present(q)
           /\ quote'[q].workspace = quote[q].workspace
           /\ quote'[q].number = quote[q].number
           /\ q \notin met' => quote'[q].totals = Totals(quote'[q].lines, quote'[q].discount)
           /\ quote'[q].supersedes \in {quote[q].supersedes, NoQuote}
           /\ \A s \in QuoteIds : quote'[q].supersedes = s => Present(s)'
  PROVE  (\A q \in QuoteIds : RowSound(q)') /\ UniqueNumbers' /\ RevisionsAreLater'
<1>1. ASSUME NEW q \in QuoteIds PROVE RowSound(q)'
  <2> SUFFICES ASSUME Present(q)' PROVE RowSound(q)'
    BY DEF RowSound
  <2>1. /\ RowSound(q) /\ Present(q)
        /\ quote[q].number[1] \in Nat
    BY QuoteShape, DocumentsAssumption DEF IInv, QuoteRow, Years
  <2>2. year \in Nat /\ year' \in Nat
    BY DocumentsAssumption DEF IInv, TypeOK, Years
  <2> QED
    BY <2>1, <2>2 DEF RowSound
<1>2. UniqueNumbers'
  BY DEF IInv, UniqueNumbers
<1>3. ASSUME NEW q \in QuoteIds, Present(q)', quote'[q].supersedes # NoQuote
      PROVE  \E s \in QuoteIds : /\ s = quote'[q].supersedes
                                /\ Present(s)'
                                /\ Later(quote'[q].number, quote'[s].number)
  <2>1. PICK s : s = quote'[q].supersedes
    OBVIOUS
  <2>2. Present(q) /\ s = quote[q].supersedes /\ s # NoQuote
    BY <1>3, <2>1
  <2>3. s \in QuoteIds
    BY <2>2, QuoteShape DEF IInv, QuoteRow
  <2>4. Later(quote[q].number, quote[s].number)
    BY <2>2 DEF IInv, RevisionsAreLater
  <2>5. Present(s)'
    BY <1>3, <2>1, <2>3
  <2>6. quote'[q].number = quote[q].number /\ quote'[s].number = quote[s].number
    BY <1>3, <2>3, <2>5
  <2> QED
    BY <2>1, <2>3, <2>4, <2>5, <2>6
<1>4. RevisionsAreLater'
  BY <1>3 DEF RevisionsAreLater, Present
<1> QED
  BY <1>1, <1>2, <1>4

\* The clock and the history only grow.
LEMMA Growing ==
  ASSUME IInv, TypeOK', Remember, year' = year
  PROVE  year \in Nat /\ year' \in Nat /\ year <= year' /\ met \subseteq met'
BY DocumentsAssumption DEF IInv, TypeOK, Years, Remember

\* What the rows satisfy stays when they do not change.
LEMMA SameRowsStay ==
  ASSUME IInv, TypeOK', met \subseteq met', quote' = quote, counter' = counter,
         year <= year'
  PROVE  (\A q \in QuoteIds : RowSound(q)') /\ UniqueNumbers' /\ RevisionsAreLater'
<1>1. \A q : Present(q)' = Present(q)
  BY DEF Present
<1>2. ASSUME NEW q \in QuoteIds, Present(q)'
      PROVE  /\ q \notin met' => quote'[q].totals = Totals(quote'[q].lines, quote'[q].discount)
             /\ \A s \in QuoteIds : quote'[q].supersedes = s => Present(s)'
  BY <1>1, <1>2, QuotesAssumption DEF IInv, RowSound, RevisionsAreLater
<1> QED
  BY <1>1, <1>2, RowsStay

\* A step in which request r comes to be c and no row changes.
LEMMA RequestIInv ==
  ASSUME IInv, TypeOK', Remember, UNCHANGED <<quote, counter, year>>,
         NEW r \in Requests, NEW c, req' = [req EXCEPT ![r] = c], RequestSound(c),
         c.at = "numbered" =>
           \A s \in Requests \ {r} : req[s].at = "numbered" => req[s].series # c.series,
         Creates(c) =>
           \A s \in Requests \ {r} : InCreate(s) => req[s].id # c.id
  PROVE  IInv'
<1>1. req'[r] = c /\ \A t \in Requests : t # r => req'[t] = req[t]
  BY DEF IInv, TypeOK
<1>2. year \in Nat /\ year' \in Nat /\ year <= year' /\ met \subseteq met'
  BY Growing
<1>3. ASSUME NEW t \in Requests PROVE RequestSound(req[t])'
  <2>1. CASE t # r
    <3>1. \A q : Kept(q)
      BY DEF Kept
    <3> QED
      BY <1>1, <1>2, <2>1, <3>1, StaysSound DEF IInv
  <2>2. CASE t = r
    <3>1. RequestSound(c)'
      BY <1>2 DEF RequestSound, CreateSound, WriteSound, Present
    <3> QED
      BY <1>1, <2>2, <3>1
  <2> QED
    BY <2>1, <2>2
<1>4. OneHolder'
  BY <1>1 DEF IInv, OneHolder
<1>5. OneMaker'
  BY <1>1 DEF IInv, OneMaker, InCreate, Creates
<1> QED
  BY <1>2, <1>3, <1>4, <1>5, SameRowsStay, RememberNotices DEF IInv

\* A step in which request r ends by writing quote i, or by nothing.
LEMMA WriteIInv ==
  ASSUME IInv, TypeOK', Remember, UNCHANGED <<counter, year>>,
         NEW r \in Requests, req' = [req EXCEPT ![r] = Idle],
         NEW i \in Targets(r), SameQuote(i), \A q \in QuoteIds \ {i} : Kept(q),
         \A q \in QuoteIds : Present(q)' =>
           /\ q \notin met' => quote'[q].totals = Totals(quote'[q].lines, quote'[q].discount)
           /\ quote'[q].supersedes \in {quote[q].supersedes, NoQuote}
           /\ \A s \in QuoteIds : quote'[q].supersedes = s => Present(s)'
  PROVE  IInv'
<1>1. req'[r] = Idle /\ \A t \in Requests : t # r => req'[t] = req[t]
  BY DEF IInv, TypeOK
<1>2. year \in Nat /\ year' \in Nat /\ year <= year' /\ met \subseteq met'
  BY Growing
<1>3. ASSUME NEW t \in Requests PROVE RequestSound(req[t])'
  <2>1. CASE t # r
    <3>1. ASSUME NEW q \in Targets(t) PROVE Kept(q) \/ (q \in met' /\ SameQuote(q))
      <4>1. q \in QuoteIds
        BY <3>1, TargetsOf DEF IInv
      <4>2. q = i => q \in met'
        BY <1>2, <2>1, <4>1 DEF IInv, Noticed
      <4> QED
        BY <4>1, <4>2
    <3> QED
      BY <1>1, <1>2, <2>1, <3>1, StaysSound DEF IInv
  <2>2. CASE t = r
    BY <1>1, <2>2, IdleShape DEF RequestSound
  <2> QED
    BY <2>1, <2>2
<1>4. OneHolder'
  BY <1>1, IdleShape DEF IInv, OneHolder
<1>5. OneMaker'
  BY <1>1, IdleShape DEF IInv, OneMaker, InCreate
<1>6. ASSUME NEW q \in QuoteIds, Present(q)'
      PROVE  /\ Present(q)
             /\ quote'[q].workspace = quote[q].workspace
             /\ quote'[q].number = quote[q].number
  BY <1>6 DEF Kept, SameQuote, Present
<1> QED
  BY <1>2, <1>3, <1>4, <1>5, <1>6, RowsStay, RememberNotices DEF IInv

-----------------------------------------------------------------------------
(* The actions, in the order of the module                                  *)

LEMMA CreateIInv ==
  ASSUME IInv, TypeOK', Remember, NEW r \in Requests, NEW w \in Workspaces,
         NEW partner, NEW lines, NEW discount, NEW q \in QuoteIds,
         Create(r, w, partner, lines, discount, q)
  PROVE  IInv'
<1>0. PICK c : c = [at |-> "creating", id |-> q, series |-> <<w, year>>,
                     partner |-> partner, lines |-> lines, discount |-> discount,
                     supersedes |-> NoQuote]
  OBVIOUS
<1>1. c.at = "creating" /\ c.id = q /\ c.series[2] = year /\ c.supersedes = NoQuote
  BY <1>0
<1>2. year \in Nat
  BY DocumentsAssumption DEF IInv, TypeOK, Years
<1>3. RequestSound(c)
  BY <1>1, <1>2 DEF Create, Fresh, RequestSound, CreateSound, Creates
<1> QED
  BY <1>0, <1>1, <1>3, RequestIInv DEF Create, Fresh

LEMMA ReviseReadIInv ==
  ASSUME IInv, TypeOK', Remember, NEW r \in Requests, NEW w \in Workspaces,
         NEW original \in QuoteIds, NEW q \in QuoteIds,
         ReviseRead(r, w, original, q)
  PROVE  IInv'
<1>0. PICK c : c = [at |-> "creating", id |-> q, series |-> <<w, year>>,
                     partner |-> quote[original].partner,
                     lines |-> quote[original].lines,
                     discount |-> quote[original].discount, supersedes |-> original]
  OBVIOUS
<1>1. /\ c.at = "creating" /\ c.id = q /\ c.series[1] = w /\ c.series[2] = year
      /\ c.supersedes = original
      /\ c.partner = quote[original].partner /\ c.lines = quote[original].lines
      /\ c.discount = quote[original].discount
  BY <1>0
<1>2. year \in Nat
  BY DocumentsAssumption DEF IInv, TypeOK, Years
<1>3. /\ quote[original].status = "revision_requested"
      /\ quote[original].workspace = w
      /\ quote[original] # Absent
      /\ quote[original].number[1] <= year
  <2>1. quote[original].status = "revision_requested" /\ quote[original].workspace = w
    BY DEF ReviseRead, Finds
  <2>2. Present(original) /\ quote[original] # Absent
    BY <2>1 DEF Present, Absent, QuoteStatus, Outcomes
  <2> QED
    BY <2>1, <2>2 DEF IInv, RowSound
<1>4. RequestSound(c)
  BY <1>1, <1>2, <1>3 DEF ReviseRead, Fresh, RequestSound, CreateSound, Creates
<1> QED
  BY <1>0, <1>1, <1>4, RequestIInv DEF ReviseRead, Fresh

LEMMA TakeNumberIInv ==
  ASSUME IInv, TypeOK', Remember, NEW r \in Requests, TakeNumber(r)
  PROVE  IInv'
<1>0. PICK c : c = [at |-> "numbered", id |-> req[r].id, series |-> req[r].series,
                     partner |-> req[r].partner, lines |-> req[r].lines,
                     discount |-> req[r].discount, supersedes |-> req[r].supersedes,
                     number |-> counter[req[r].series] + 1]
  OBVIOUS
<1>1. /\ c.at = "numbered" /\ c.id = req[r].id /\ c.series = req[r].series
      /\ c.supersedes = req[r].supersedes
      /\ c.partner = req[r].partner /\ c.lines = req[r].lines
      /\ c.discount = req[r].discount /\ c.number = counter[req[r].series] + 1
  BY <1>0
<1>2. CreateSound(req[r]) /\ InCreate(r)
  BY DEF TakeNumber, IInv, RequestSound, Creates, InCreate
<1>3. RequestSound(c)
  BY <1>1, <1>2, IdleShape DEF RequestSound, CreateSound, Creates
<1>4. \A s \in Requests \ {r} : InCreate(s) => req[s].id # c.id
  BY <1>1, <1>2 DEF IInv, OneMaker
<1> QED
  BY <1>0, <1>1, <1>3, <1>4, RequestIInv DEF TakeNumber, Locked

\* The new quote takes the number that comes next; no other request is about it.
LEMMA CommitQuoteIInv ==
  ASSUME IInv, TypeOK', Remember, NEW r \in Requests, CommitQuote(r)
  PROVE  IInv'
<1>1. PICK c, i, s : c = req[r] /\ i = req[r].id /\ s = req[r].series
  OBVIOUS
<1>2. /\ c \in Numbered /\ i \in QuoteIds /\ s \in Series
      /\ c.id = i /\ c.series = s /\ c.at = "numbered" /\ Creates(c) /\ InCreate(r)
  BY <1>1, RequestShape DEF CommitQuote, IInv, Numbered, Creates, InCreate
<1>3. /\ CreateSound(c) /\ quote[i] = Absent /\ ~Present(i)
      /\ c.number = counter[s] + 1 /\ s[2] <= year
  BY <1>1, <1>2 DEF IInv, RequestSound, CreateSound, Absent, Present, QuoteStatus, Outcomes
<1>4. PICK row : row = [status |-> "draft", workspace |-> s[1],
        number |-> <<s[2], c.number>>, partner |-> c.partner,
        lines |-> c.lines, discount |-> c.discount,
        totals |-> Totals(c.lines, c.discount),
        supersedes |-> c.supersedes, converted |-> NoInvoice]
  OBVIOUS
<1>5. /\ row.status = "draft" /\ row.workspace = s[1]
      /\ row.number[1] = s[2] /\ row.number[2] = c.number
      /\ row.totals = Totals(row.lines, row.discount)
      /\ row.supersedes = c.supersedes
  BY <1>4
<1>6. /\ quote'[i] = row /\ \A q \in QuoteIds \ {i} : quote'[q] = quote[q]
      /\ counter'[s] = c.number /\ \A t \in Series \ {s} : counter'[t] = counter[t]
      /\ req'[r] = Idle /\ \A t \in Requests : t # r => req'[t] = req[t]
      /\ year' = year
  BY <1>1, <1>2, <1>4 DEF CommitQuote, IInv, TypeOK
<1>7. year \in Nat /\ year' \in Nat /\ year <= year' /\ met \subseteq met'
  BY <1>6, Growing
<1>8. s = <<s[1], s[2]>> /\ s[1] \in Workspaces /\ s[2] \in Nat /\ counter[s] \in Nat
  BY <1>2, DocumentsAssumption DEF Series, Years, IInv, TypeOK
<1>9. Present(i)' /\ \A q \in QuoteIds \ {i} : Present(q)' = Present(q) /\ Kept(q)
  BY <1>5, <1>6 DEF Present, Kept, QuoteStatus
<1>10. ASSUME NEW t \in Requests PROVE RequestSound(req[t])'
  <2>1. CASE t = r
    BY <1>6, <2>1, IdleShape DEF RequestSound
  <2>2. CASE t # r
    <3>1. RequestSound(req[t])
      BY DEF IInv
    <3>2. ASSUME NEW q \in Targets(t) PROVE Kept(q)
      <4>1. q \in QuoteIds
        BY <3>2, TargetsOf DEF IInv
      <4>2. InCreate(t) => req[t].id # i
        BY <1>1, <1>2, <2>2 DEF IInv, OneMaker
      <4>3. q # i
        BY <1>3, <3>1, <3>2, <4>2
        DEF Targets, RequestSound, Creates, InCreate, CreateSound, WriteSound
      <4> QED
        BY <1>9, <4>1, <4>3
    <3>3. req[t].at = "numbered" => counter'[req[t].series] = counter[req[t].series]
      <4> SUFFICES ASSUME req[t].at = "numbered"
                   PROVE  counter'[req[t].series] = counter[req[t].series]
        OBVIOUS
      <4>1. req[t].series \in Series
        BY RequestShape DEF IInv, Numbered
      <4>2. req[t].series # s
        BY <1>1, <1>2, <2>2 DEF IInv, OneHolder
      <4> QED
        BY <1>6, <4>1, <4>2
    <3> QED
      BY <1>6, <1>7, <2>2, <3>1, <3>2, <3>3, StaysSound DEF IInv
  <2> QED
    BY <2>1, <2>2
<1>11. OneHolder' /\ OneMaker'
  BY <1>6, IdleShape DEF IInv, OneHolder, OneMaker, InCreate
<1>12. ASSUME NEW q \in QuoteIds \ {i}, Present(q)
       PROVE  /\ quote[q].workspace \in Workspaces /\ quote[q].number[1] \in Years
              /\ quote[q].number[1] \in Nat /\ quote[q].number[2] \in Nat
              /\ quote[q].number[1] <= year
              /\ quote[q].number[2] <= counter[<<quote[q].workspace, quote[q].number[1]>>]
              /\ quote[q].number[2] >= 1
              /\ quote[q].number = <<quote[q].number[1], quote[q].number[2]>>
  <2>1. quote[q] \in QuoteRow /\ RowSound(q)
    BY <1>12, QuoteShape DEF IInv
  <2>2. counter[<<quote[q].workspace, quote[q].number[1]>>] \in Nat
    BY <2>1 DEF QuoteRow, IInv, TypeOK, Series
  <2> QED
    BY <1>12, <2>1, <2>2, DocumentsAssumption DEF QuoteRow, RowSound, Years
<1>13. ASSUME NEW q \in QuoteIds PROVE RowSound(q)'
  <2>1. CASE q = i
    BY <1>3, <1>5, <1>6, <1>8, <2>1 DEF RowSound
  <2>2. CASE q # i
    <3> SUFFICES ASSUME Present(q) PROVE RowSound(q)'
      BY <1>9, <2>2 DEF RowSound
    <3>1. PICK t : t = <<quote[q].workspace, quote[q].number[1]>>
      OBVIOUS
    <3>2. t \in Series /\ quote[q].number[2] \in 1 .. counter[t]
      BY <1>12, <2>2, <3>1 DEF Series, IInv, RowSound
    <3>3. counter[t] \in Nat /\ counter'[t] \in Nat /\ counter[t] <= counter'[t]
      BY <1>3, <1>6, <1>8, <3>2 DEF IInv, TypeOK
    <3>4. quote[q].number[2] \in 1 .. counter'[t]
      BY <3>2, <3>3
    <3> QED
      BY <1>6, <1>7, <2>2, <3>1, <3>4 DEF RowSound, IInv
  <2> QED
    BY <2>1, <2>2
<1>14. ASSUME NEW q \in QuoteIds \ {i}, Present(q), quote[q].workspace = s[1],
              quote[q].number[1] = s[2]
       PROVE  quote[q].number[2] \in Nat /\ quote[q].number[2] < c.number
  BY <1>3, <1>8, <1>12, <1>14
<1>15. UniqueNumbers'
  <2> SUFFICES ASSUME NEW p \in QuoteIds, NEW q \in QuoteIds, Present(p)', Present(q)',
                      quote'[p].number = quote'[q].number,
                      quote'[p].workspace = quote'[q].workspace, p # q
               PROVE  FALSE
    BY DEF UniqueNumbers
  <2>1. CASE p = i
    BY <1>5, <1>6, <1>9, <1>14, <2>1
  <2>2. CASE q = i
    BY <1>5, <1>6, <1>9, <1>14, <2>2
  <2>3. CASE p # i /\ q # i
    BY <1>6, <1>9, <2>3 DEF IInv, UniqueNumbers
  <2> QED
    BY <2>1, <2>2, <2>3
<1>16. ASSUME NEW q \in QuoteIds, Present(q)', quote'[q].supersedes # NoQuote
       PROVE  \E p \in QuoteIds : /\ p = quote'[q].supersedes
                                  /\ Present(p)'
                                  /\ Later(quote'[q].number, quote'[p].number)
  <2>1. CASE q = i
    <3>1. PICK p : p = c.supersedes
      OBVIOUS
    <3>2. p = quote'[q].supersedes /\ p # NoQuote /\ p \in QuoteIds /\ Present(p) /\ p # i
      BY <1>1, <1>2, <1>3, <1>5, <1>6, <1>16, <2>1, <3>1 DEF CommitQuote, Numbered
    <3>3. quote[p].workspace = s[1] /\ quote[p].number[1] <= s[2]
      BY <1>2, <1>3, <3>1, <3>2 DEF CreateSound
    <3>4. quote'[q].number[1] = s[2] /\ quote'[q].number[2] = c.number
      BY <1>5, <1>6, <2>1
    <3>5. quote[p].number[1] \in Nat
      BY <1>12, <3>2
    <3>6. quote[p].number[1] = s[2] => quote[p].number[2] \in Nat /\ quote[p].number[2] < c.number
      BY <1>14, <3>2, <3>3
    <3>7. c.number \in Nat
      BY <1>3, <1>8
    <3>8. Later(quote'[q].number, quote[p].number)
      BY <1>8, <3>3, <3>4, <3>5, <3>6, <3>7 DEF Later
    <3> QED
      BY <1>6, <1>9, <3>2, <3>8
  <2>2. CASE q # i
    <3>1. PICK p : p = quote[q].supersedes
      OBVIOUS
    <3>2. Present(q) /\ p = quote'[q].supersedes /\ p # NoQuote
      BY <1>6, <1>9, <1>16, <2>2, <3>1
    <3>3. p \in QuoteIds /\ Present(p) /\ Later(quote[q].number, quote[p].number)
      BY <3>1, <3>2, QuoteShape DEF IInv, RevisionsAreLater, QuoteRow
    <3>4. p # i
      BY <1>3, <3>3
    <3> QED
      BY <1>6, <1>9, <2>2, <3>2, <3>3, <3>4
  <2> QED
    BY <2>1, <2>2
<1>17. RevisionsAreLater'
  BY <1>16 DEF RevisionsAreLater, Present
<1> QED
  BY <1>10, <1>11, <1>13, <1>15, <1>17, RememberNotices DEF IInv

\* A read of send, updateStatus or remove.
LEMMA ReadAsIInv ==
  ASSUME IInv, TypeOK', Remember, NEW r \in Requests, NEW w, NEW q \in QuoteIds,
         NEW status, NEW next, ReadAs(r, w, q, status, next),
         \/ next \in {"sending", "removing"} /\ status = "draft"
         \/ next = "answering" /\ status = "sent"
  PROVE  IInv'
<1>0. PICK c : c = [at |-> next, id |-> q]
  OBVIOUS
<1>1. /\ c.at = next /\ c.id = q /\ req' = [req EXCEPT ![r] = c]
      /\ quote[q].status = status /\ UNCHANGED <<quote, counter, year>>
  BY <1>0 DEF ReadAs, Finds
<1>2. RequestSound(c)
  BY <1>1 DEF RequestSound, WriteSound, Creates, Absent
<1> QED
  BY <1>1, <1>2, RequestIInv DEF Creates

LEMMA UpdateReadIInv ==
  ASSUME IInv, TypeOK', Remember, NEW r \in Requests, NEW w, NEW q \in QuoteIds,
         UpdateRead(r, w, q)
  PROVE  IInv'
<1>0. PICK c : c = [at |-> "updating", id |-> q, workspace |-> w,
                     lines |-> quote[q].lines, discount |-> quote[q].discount]
  OBVIOUS
<1>1. /\ c.at = "updating" /\ c.id = q /\ req' = [req EXCEPT ![r] = c]
      /\ c.lines = quote[q].lines /\ c.discount = quote[q].discount
      /\ quote[q].status = "draft" /\ UNCHANGED <<quote, counter, year>>
  BY <1>0 DEF UpdateRead, Finds
<1>2. RequestSound(c)
  BY <1>1 DEF RequestSound, WriteSound, Creates, Absent
<1> QED
  BY <1>1, <1>2, RequestIInv DEF Creates

LEMMA ConvertReadIInv ==
  ASSUME IInv, TypeOK', Remember, NEW r \in Requests, NEW w, NEW q \in QuoteIds,
         ConvertRead(r, w, q)
  PROVE  IInv'
<1>0. PICK c : c = [at |-> "converting", id |-> q, workspace |-> w,
                     partner |-> quote[q].partner, lines |-> quote[q].lines,
                     discount |-> quote[q].discount, totals |-> quote[q].totals]
  OBVIOUS
<1>1. /\ c.at = "converting" /\ c.id = q /\ req' = [req EXCEPT ![r] = c]
      /\ quote[q].workspace = c.workspace /\ quote[q].partner = c.partner
      /\ quote[q].lines = c.lines /\ quote[q].discount = c.discount
      /\ quote[q].totals = c.totals
      /\ quote[q].status = "accepted" /\ UNCHANGED <<quote, counter, year>>
  BY <1>0 DEF ConvertRead, Finds
<1>2. RequestSound(c)
  BY <1>1 DEF RequestSound, WriteSound, Creates, Absent
<1> QED
  BY <1>1, <1>2, RequestIInv DEF Creates

LEMMA AbandonIInv ==
  ASSUME IInv, TypeOK', Remember, NEW r \in Requests, Abandon(r)
  PROVE  IInv'
<1>1. RequestSound(Idle)
  BY IdleShape DEF RequestSound
<1> QED
  BY <1>1, IdleShape, RequestIInv DEF Abandon

\* Request r writes its quote and ends.
LEMMA OneRowIInv ==
  ASSUME IInv, TypeOK', Remember, UNCHANGED <<counter, year>>,
         NEW r \in Requests, req' = [req EXCEPT ![r] = Idle], req[r] # Idle,
         NEW i, i = req[r].id, Present(i),
         NEW row, quote' = [quote EXCEPT ![i] = row],
         row.status \in QuoteStatus, row.workspace = quote[i].workspace,
         row.number = quote[i].number, row.supersedes = quote[i].supersedes,
         i \notin met => row.totals = Totals(row.lines, row.discount)
  PROVE  IInv'
<1>1. i \in Targets(r) /\ i \in QuoteIds
  BY TargetsOf DEF IInv
<1>2. quote'[i] = row /\ \A q \in QuoteIds \ {i} : quote'[q] = quote[q]
  BY <1>1 DEF IInv, TypeOK
<1>3. \A q \in QuoteIds \ {i} : Kept(q)
  BY <1>2 DEF Kept
<1>4. SameQuote(i)
  BY <1>2 DEF SameQuote, Present, Absent, QuoteStatus, Outcomes
<1>5. \A q \in QuoteIds : Present(q)' <=> Present(q)
  BY <1>2 DEF Present
<1>6. met \subseteq met'
  BY DEF Remember
<1>7. ASSUME NEW q \in QuoteIds, Present(q)'
      PROVE  /\ q \notin met' => quote'[q].totals = Totals(quote'[q].lines, quote'[q].discount)
             /\ quote'[q].supersedes = quote[q].supersedes
  BY <1>2, <1>5, <1>6, <1>7 DEF IInv, RowSound
<1>8. ASSUME NEW q \in QuoteIds, Present(q)', NEW s \in QuoteIds, quote'[q].supersedes = s
      PROVE  Present(s)'
  BY <1>5, <1>7, <1>8, QuotesAssumption DEF IInv, RevisionsAreLater
<1> QED
  BY <1>1, <1>3, <1>4, <1>7, <1>8, WriteIInv

LEMMA StatusIInv ==
  ASSUME IInv, TypeOK', Remember, NEW r \in Requests, NEW at \in {"sending", "answering"},
         NEW status \in QuoteStatus, WriteStatus(r, at, status)
  PROVE  IInv'
<1>1. PICK i : i = req[r].id
  OBVIOUS
<1>2. i \in QuoteIds /\ req[r] # Idle /\ Present(i) /\ quote[i] \in QuoteRow
  BY <1>1, RequestShape, QuoteShape, IdleShape DEF WriteStatus, IInv, Holding
<1>3. PICK row : row = [quote[i] EXCEPT !.status = status]
  OBVIOUS
<1>4. /\ row.status = status /\ row.workspace = quote[i].workspace
      /\ row.number = quote[i].number /\ row.supersedes = quote[i].supersedes
      /\ row.totals = quote[i].totals /\ row.lines = quote[i].lines
      /\ row.discount = quote[i].discount
  BY <1>2, <1>3 DEF QuoteRow
<1>5. quote' = [quote EXCEPT ![i] = row]
  BY <1>1, <1>2, <1>3 DEF WriteStatus, IInv, TypeOK
<1>6. i \notin met => row.totals = Totals(row.lines, row.discount)
  BY <1>2, <1>4 DEF IInv, RowSound
<1>7. UNCHANGED <<counter, year>> /\ req' = [req EXCEPT ![r] = Idle]
  BY DEF WriteStatus
<1> QED
  BY <1>1, <1>2, <1>4, <1>5, <1>6, <1>7, OneRowIInv

\* The amounts a PATCH writes are of the lines and the discount that the row then
\* has: what the request had read is still there, unless requests met.
LEMMA UpdateWriteIInv ==
  ASSUME IInv, TypeOK', Remember, NEW r \in Requests, NEW given, NEW partner,
         NEW lines, NEW discount,
         UpdateWrite(r, given, partner, lines, discount)
  PROVE  IInv'
<1>1. PICK c, i : c = req[r] /\ i = req[r].id
  OBVIOUS
<1>2. /\ i \in QuoteIds /\ c # Idle /\ Present(i) /\ quote[i] \in QuoteRow
      /\ c.id = i /\ c.at = "updating"
  BY <1>1, RequestShape, QuoteShape, IdleShape DEF UpdateWrite, IInv, Updating
<1>3. i \notin met => quote[i].lines = c.lines /\ quote[i].discount = c.discount
  BY <1>1, <1>2 DEF IInv, RequestSound, WriteSound, Creates
<1>4. PICK row : row = Edited(quote[i], c, given, partner, lines, discount)
  OBVIOUS
<1>5. /\ row.status = quote[i].status /\ row.workspace = quote[i].workspace
      /\ row.number = quote[i].number /\ row.supersedes = quote[i].supersedes
  BY <1>2, <1>4 DEF Edited, QuoteRow
<1>6. i \notin met => row.totals = Totals(row.lines, row.discount)
  <2>1. i \notin met => quote[i].totals = Totals(quote[i].lines, quote[i].discount)
    BY <1>2 DEF IInv, RowSound
  <2> QED
    BY <1>2, <1>3, <1>4, <2>1 DEF Edited, QuoteRow
<1>7. quote' = [quote EXCEPT ![i] = row]
  BY <1>1, <1>2, <1>4 DEF UpdateWrite
<1>8. UNCHANGED <<counter, year>> /\ req' = [req EXCEPT ![r] = Idle]
  BY DEF UpdateWrite
<1>9. row.status \in QuoteStatus
  BY <1>2, <1>5 DEF Present
<1> QED
  BY <1>1, <1>2, <1>5, <1>6, <1>7, <1>8, <1>9, OneRowIInv

LEMMA ConvertWriteIInv ==
  ASSUME IInv, TypeOK', Remember, NEW r \in Requests, NEW i, ConvertWrite(r, i)
  PROVE  IInv'
<1>1. PICK q : q = req[r].id
  OBVIOUS
<1>2. q \in QuoteIds /\ req[r] # Idle /\ Present(q) /\ quote[q] \in QuoteRow
  BY <1>1, RequestShape, QuoteShape, IdleShape DEF ConvertWrite, IInv, Converting
<1>3. PICK row : row = [quote[q] EXCEPT !.converted = i]
  OBVIOUS
<1>4. /\ row.status = quote[q].status /\ row.workspace = quote[q].workspace
      /\ row.number = quote[q].number /\ row.supersedes = quote[q].supersedes
      /\ row.totals = quote[q].totals /\ row.lines = quote[q].lines
      /\ row.discount = quote[q].discount
  BY <1>2, <1>3 DEF QuoteRow
<1>5. quote' = [quote EXCEPT ![q] = row]
  BY <1>1, <1>2, <1>3 DEF ConvertWrite, IInv, TypeOK
<1>6. q \notin met => row.totals = Totals(row.lines, row.discount)
  BY <1>2, <1>4 DEF IInv, RowSound
<1>7. UNCHANGED <<counter, year>> /\ req' = [req EXCEPT ![r] = Idle]
  BY DEF ConvertWrite
<1>8. row.status \in QuoteStatus
  BY <1>2, <1>4 DEF Present
<1> QED
  BY <1>1, <1>2, <1>4, <1>5, <1>6, <1>7, <1>8, OneRowIInv

\* A deleted quote is no revision's any more.
LEMMA RemoveWriteIInv ==
  ASSUME IInv, TypeOK', Remember, NEW r \in Requests, RemoveWrite(r)
  PROVE  IInv'
<1>1. PICK i : i = req[r].id
  OBVIOUS
<1>2. i \in QuoteIds /\ i \in Targets(r) /\ Present(i)
  BY <1>1, RequestShape, TargetsOf, IdleShape DEF RemoveWrite, IInv
<1>3. quote'[i] = Deleted /\ ~Present(i)'
  BY <1>1, <1>2 DEF RemoveWrite, Deleted, Present, QuoteStatus, Outcomes
<1>4. SameQuote(i)
  BY <1>2, <1>3 DEF SameQuote, Present, Absent, Deleted, QuoteStatus, Outcomes
<1>5. ASSUME NEW q \in QuoteIds \ {i}
      PROVE  /\ Kept(q)
             /\ Present(q)' <=> Present(q)
             /\ Present(q) => /\ quote'[q].supersedes \in {quote[q].supersedes, NoQuote}
                              /\ quote'[q].supersedes # i
  <2>1. CASE Present(q) /\ quote[q].supersedes = i
    <3>1. quote[q] \in QuoteRow
      BY <2>1, QuoteShape DEF IInv
    <3>2. quote'[q] = [quote[q] EXCEPT !.supersedes = NoQuote]
      BY <1>1, <1>5, <2>1 DEF RemoveWrite
    <3>3. quote'[q].supersedes = NoQuote
      BY <3>1, <3>2 DEF QuoteRow
    <3> QED
      BY <1>2, <2>1, <3>1, <3>2, <3>3, LinksOnly, QuotesAssumption
  <2>2. CASE ~(Present(q) /\ quote[q].supersedes = i)
    <3>1. quote'[q] = quote[q]
      BY <1>1, <1>5, <2>2 DEF RemoveWrite
    <3> QED
      BY <2>2, <3>1 DEF Kept, Present
  <2> QED
    BY <2>1, <2>2
<1>6. ASSUME NEW q \in QuoteIds, Present(q)'
      PROVE  /\ q \notin met' => quote'[q].totals = Totals(quote'[q].lines, quote'[q].discount)
             /\ quote'[q].supersedes \in {quote[q].supersedes, NoQuote}
             /\ \A s \in QuoteIds : quote'[q].supersedes = s => Present(s)'
  <2>1. q # i /\ Present(q) /\ Kept(q)
    BY <1>3, <1>5, <1>6
  <2>2. q \notin met' => quote[q].totals = Totals(quote[q].lines, quote[q].discount)
    BY <2>1 DEF IInv, RowSound, Remember
  <2>3. ASSUME NEW s \in QuoteIds, quote'[q].supersedes = s PROVE Present(s)'
    <3>1. s # i /\ quote[q].supersedes = s
      BY <1>5, <2>1, <2>3, QuotesAssumption
    <3>2. Present(s)
      BY <2>1, <3>1, QuotesAssumption DEF IInv, RevisionsAreLater
    <3> QED
      BY <1>5, <3>1, <3>2
  <2> QED
    BY <1>5, <2>1, <2>2, <2>3 DEF Kept
<1> QED
  BY <1>2, <1>4, <1>5, <1>6, WriteIInv DEF RemoveWrite

LEMMA InvoiceRemovedIInv ==
  ASSUME IInv, TypeOK', Remember, NEW i, InvoiceRemoved(i)
  PROVE  IInv'
<1>1. UNCHANGED <<counter, req, year>>
  BY DEF InvoiceRemoved
<1>2. year \in Nat /\ year' \in Nat /\ year <= year' /\ met \subseteq met'
  BY <1>1, Growing
<1>3. ASSUME NEW q \in QuoteIds
      PROVE  /\ Kept(q)
             /\ Present(q)' <=> Present(q)
             /\ Present(q) => quote'[q].supersedes = quote[q].supersedes
  <2>1. CASE Present(q) /\ quote[q].converted = i
    <3>1. quote[q] \in QuoteRow
      BY <2>1, QuoteShape DEF IInv
    <3>2. quote'[q] = [quote[q] EXCEPT !.converted = NoInvoice]
      BY <2>1 DEF InvoiceRemoved
    <3>3. quote'[q].supersedes = quote[q].supersedes
      BY <3>1, <3>2 DEF QuoteRow
    <3> QED
      BY <2>1, <3>1, <3>2, <3>3, LinksOnly
  <2>2. CASE ~(Present(q) /\ quote[q].converted = i)
    <3>1. quote'[q] = quote[q]
      BY <2>2 DEF InvoiceRemoved
    <3> QED
      BY <3>1 DEF Kept, Present
  <2> QED
    BY <2>1, <2>2
<1>4. ASSUME NEW t \in Requests PROVE RequestSound(req[t])'
  <2>1. \A q \in Targets(t) : Kept(q)
    BY <1>3, TargetsOf DEF IInv
  <2> QED
    BY <1>1, <1>2, <2>1, StaysSound DEF IInv
<1>5. OneHolder' /\ OneMaker'
  BY <1>1 DEF IInv, OneHolder, OneMaker, InCreate
<1>6. ASSUME NEW q \in QuoteIds, Present(q)'
      PROVE  /\ Present(q)
             /\ quote'[q].workspace = quote[q].workspace
             /\ quote'[q].number = quote[q].number
             /\ q \notin met' => quote'[q].totals = Totals(quote'[q].lines, quote'[q].discount)
             /\ quote'[q].supersedes \in {quote[q].supersedes, NoQuote}
             /\ \A s \in QuoteIds : quote'[q].supersedes = s => Present(s)'
  <2>1. Present(q) /\ Kept(q) /\ quote'[q].supersedes = quote[q].supersedes
    BY <1>3, <1>6
  <2>2. q \notin met' => quote[q].totals = Totals(quote[q].lines, quote[q].discount)
    BY <1>2, <2>1 DEF IInv, RowSound
  <2>3. \A s \in QuoteIds : quote'[q].supersedes = s => Present(s)'
    BY <1>3, <2>1, QuotesAssumption DEF IInv, RevisionsAreLater
  <2> QED
    BY <2>1, <2>2, <2>3 DEF Kept
<1> QED
  BY <1>1, <1>2, <1>4, <1>5, <1>6, RowsStay, RememberNotices DEF IInv

\* NewYear and stuttering.
LEMMA SameRequestsIInv ==
  ASSUME IInv, TypeOK', UNCHANGED <<quote, counter, req>>, year <= year',
         met \subseteq met'
  PROVE  IInv'
<1>1. year \in Nat /\ year' \in Nat
  BY DocumentsAssumption DEF IInv, TypeOK, Years
<1>2. \A q : Kept(q)
  BY DEF Kept
<1>3. \A t \in Requests : RequestSound(req[t])'
  BY <1>1, <1>2, StaysSound DEF IInv
<1>4. OneHolder' /\ OneMaker' /\ Noticed'
  BY DEF IInv, OneHolder, OneMaker, Noticed, InCreate, Targets
<1> QED
  BY <1>3, <1>4, SameRowsStay DEF IInv

\* Every step preserves the invariant.
LEMMA StepIInv == IInv /\ [Next]_vars => IInv'
<1> SUFFICES ASSUME IInv, [Next]_vars PROVE IInv'
  OBVIOUS
<1>1. TypeOK' /\ year \in Nat
  BY StepType, DocumentsAssumption DEF IInv, TypeOK, Years
<1>2. CASE UNCHANGED vars
  BY <1>1, <1>2, SameRequestsIInv DEF vars
<1>3. CASE Next
  <2>1. Remember
    BY <1>3 DEF Next
  <2>2. CASE NewYear
    BY <1>1, <2>1, <2>2, SameRequestsIInv DEF NewYear, Remember
  <2>3. ASSUME NEW r \in Requests, QuoteStep(r) PROVE IInv'
    <3>1. ASSUME NEW w \in Workspaces, NEW q \in QuoteIds, Reads(r, w, q) PROVE IInv'
      BY <1>1, <2>1, <3>1, ReadAsIInv, UpdateReadIInv, ConvertReadIInv, ReviseReadIInv
      DEF Reads, SendRead, AnswerRead, RemoveRead
    <3>2. CASE SendWrite(r)
      BY <1>1, <2>1, <3>2, StatusIInv DEF SendWrite, QuoteStatus
    <3>3. ASSUME NEW status \in StatusBodies, AnswerWrite(r, status) PROVE IInv'
      BY <1>1, <2>1, <3>3, StatusIInv, QuotesAssumption DEF AnswerWrite
    <3>4. CASE Writes(r)
      BY <1>1, <2>1, <3>2, <3>3, <3>4, TakeNumberIInv, CommitQuoteIInv,
         UpdateWriteIInv, AbandonIInv
      DEF Writes
    <3> QED
      BY <1>1, <2>1, <2>3, <3>1, <3>4, CreateIInv DEF QuoteStep
  <2> QED
    BY <1>1, <1>3, <2>1, <2>2, <2>3, RemoveWriteIInv, ConvertWriteIInv,
       InvoiceRemovedIInv
    DEF Next
<1> QED
  BY <1>2, <1>3

LEMMA Invariance == Spec => []IInv
BY InitIInv, StepIInv, PTL DEF Spec

-----------------------------------------------------------------------------
(* The theorems                                                             *)

\* Two quotes of a workspace never carry the same number: the unique index of
\* the table is never what stops a duplicate.
THEOREM QuoteNumbersAreUnique == Spec => []UniqueNumbers
BY Invariance, PTL DEF IInv

\* A revision is numbered after the quote it supersedes, also over the turn of a
\* year, so that the chain of revisions has no cycle.
THEOREM RevisionsComeLater == Spec => []RevisionsAreLater
BY Invariance, PTL DEF IInv

\* The steps that change more of quote q than its links.
Changes(q) ==
  \E r \in Requests :
    /\ req[r].id = q
    /\ \/ CommitQuote(r)
       \/ SendWrite(r)
       \/ \E status \in StatusBodies : AnswerWrite(r, status)
       \/ \E given \in SUBSET Fields, partner \in Customers,
             lines \in Lines, discount \in Discounts :
            UpdateWrite(r, given, partner, lines, discount)
       \/ RemoveWrite(r)

LEMMA KeptUnlessChanged ==
  ASSUME IInv, [Next]_vars, NEW q \in QuoteIds, ~Changes(q)
  PROVE  Kept(q)
<1>1. CASE quote'[q] = quote[q]
  BY <1>1 DEF Kept
<1>2. CASE UNCHANGED vars
  BY <1>1, <1>2 DEF vars
<1>3. ASSUME NEW r \in Requests, NEW i \in InvoiceIds, ConvertWrite(r, i) PROVE Kept(q)
  <2>1. CASE req[r].id # q
    BY <1>1, <1>3, <2>1 DEF ConvertWrite, IInv, TypeOK
  <2>2. CASE req[r].id = q
    <3>1. quote[q] \in QuoteRow
      BY <1>3, <2>2, QuoteShape DEF ConvertWrite, IInv
    <3>2. quote'[q] = [quote[q] EXCEPT !.converted = i]
      BY <1>3, <2>2 DEF ConvertWrite, IInv, TypeOK
    <3> QED
      BY <3>1, <3>2, LinksOnly
  <2> QED
    BY <2>1, <2>2
<1>4. ASSUME NEW i \in InvoiceIds, InvoiceRemoved(i) PROVE Kept(q)
  <2>1. Present(q) => quote[q] \in QuoteRow
    BY QuoteShape DEF IInv
  <2> QED
    BY <1>1, <1>4, <2>1, LinksOnly DEF InvoiceRemoved
<1>5. ASSUME NEW r \in Requests, RemoveWrite(r) PROVE Kept(q)
  <2>1. req[r].id # q
    BY <1>5 DEF Changes
  <2>2. Present(q) => quote[q] \in QuoteRow
    BY QuoteShape DEF IInv
  <2> QED
    BY <1>1, <1>5, <2>1, <2>2, LinksOnly DEF RemoveWrite
<1>6. ASSUME NEW r \in Requests, QuoteStep(r) PROVE quote'[q] = quote[q]
  BY <1>6
  DEF QuoteStep, Create, Reads, Writes, SendRead, AnswerRead, UpdateRead, RemoveRead,
      ConvertRead, ReviseRead, ReadAs, TakeNumber, Abandon, Changes, CommitQuote,
      SendWrite, AnswerWrite, WriteStatus, UpdateWrite, IInv, TypeOK
<1> QED
  BY <1>1, <1>2, <1>3, <1>4, <1>5, <1>6 DEF Next, NewYear

\* What a write finds: while no other request met it, what it has read.
LEMMA WritesFindWhatTheyRead ==
  ASSUME IInv, NEW r \in Requests, NEW q \in QuoteIds, req[r].id = q
  PROVE  /\ CommitQuote(r) => quote[q] = Absent
         /\ q \notin met =>
              /\ SendWrite(r) => quote[q].status = "draft"
              /\ \A status : AnswerWrite(r, status) => quote[q].status = "sent"
              /\ req[r].at = "updating" => quote[q].status = "draft"
              /\ RemoveWrite(r) => quote[q].status = "draft"
<1>1. PICK c : c = req[r]
  OBVIOUS
<1>2. RequestSound(c) /\ c.id = q
  BY <1>1 DEF IInv
<1>3. c.at # "idle" => c # Idle
  BY IdleShape
<1>4. c.at = "numbered" => quote[q] = Absent
  BY <1>2 DEF RequestSound, CreateSound, Creates
<1>5. q \notin met =>
        /\ c.at \in {"sending", "updating", "removing"} => quote[q].status = "draft"
        /\ c.at = "answering" => quote[q].status = "sent"
  BY <1>2, <1>3 DEF RequestSound, WriteSound, Creates
<1> QED
  BY <1>1, <1>4, <1>5
  DEF CommitQuote, SendWrite, AnswerWrite, WriteStatus, UpdateWrite, RemoveWrite

\* The row a PATCH leaves.
LEMMA UpdateLeaves ==
  ASSUME IInv, NEW r \in Requests, NEW given, NEW partner, NEW lines, NEW discount,
         UpdateWrite(r, given, partner, lines, discount)
  PROVE  /\ req[r].at = "updating"
         /\ quote'[req[r].id].status = quote[req[r].id].status
<1>1. PICK q : q = req[r].id
  OBVIOUS
<1>2. q \in QuoteIds /\ quote[q] \in QuoteRow /\ req[r].at = "updating"
  BY <1>1, RequestShape, QuoteShape DEF UpdateWrite, IInv, Updating
<1>3. quote'[q] = Edited(quote[q], req[r], given, partner, lines, discount)
  BY <1>1, <1>2 DEF UpdateWrite, IInv, TypeOK
<1>4. quote'[q].status = quote[q].status
  BY <1>2, <1>3 DEF Edited, QuoteRow
<1> QED
  BY <1>1, <1>2, <1>4

\* A quote that no two requests met on goes from draft to sent to one answer,
\* when the client only sends answers: the server itself checks only where it
\* starts from.
THEOREM QuotesFollowTheMachine ==
  ASSUME StatusBodies \subseteq Outcomes
  PROVE  Spec => StateMachineUnlessMet
<1>1. ASSUME IInv, [Next]_vars, NEW q \in QuoteIds \ met PROVE FollowsEdge(q)
  <2> SUFFICES ASSUME Present(q), Present(q)', quote'[q].status # quote[q].status
               PROVE  <<quote[q].status, quote'[q].status>> \in Edges
    BY DEF FollowsEdge
  <2>1. Changes(q)
    BY <1>1, KeptUnlessChanged DEF Kept
  <2>2. PICK r \in Requests :
          /\ req[r].id = q
          /\ \/ CommitQuote(r)
             \/ SendWrite(r)
             \/ \E status \in StatusBodies : AnswerWrite(r, status)
             \/ \E given \in SUBSET Fields, partner \in Customers,
                   lines \in Lines, discount \in Discounts :
                  UpdateWrite(r, given, partner, lines, discount)
             \/ RemoveWrite(r)
    BY <2>1 DEF Changes
  <2>3. CASE CommitQuote(r)
    BY <1>1, <2>2, <2>3, WritesFindWhatTheyRead
    DEF Present, Absent, QuoteStatus, Outcomes
  <2>4. CASE SendWrite(r)
    <3>1. quote'[q].status = "sent"
      BY <1>1, <2>2, <2>4, QuoteShape DEF SendWrite, WriteStatus, IInv, TypeOK, QuoteRow
    <3> QED
      BY <1>1, <2>2, <2>4, <3>1, WritesFindWhatTheyRead DEF Edges
  <2>5. ASSUME NEW status \in StatusBodies, AnswerWrite(r, status)
        PROVE  <<quote[q].status, quote'[q].status>> \in Edges
    <3>1. quote'[q].status = status
      BY <1>1, <2>2, <2>5, QuoteShape DEF AnswerWrite, WriteStatus, IInv, TypeOK, QuoteRow
    <3> QED
      BY <1>1, <2>2, <2>5, <3>1, WritesFindWhatTheyRead DEF Edges
  <2>6. ASSUME NEW given, NEW partner, NEW lines, NEW discount,
               UpdateWrite(r, given, partner, lines, discount)
        PROVE  FALSE
    BY <1>1, <2>2, <2>6, UpdateLeaves
  <2>7. CASE RemoveWrite(r)
    BY <1>1, <2>2, <2>7 DEF RemoveWrite, Present, Deleted, QuoteStatus, Outcomes
  <2> QED
    BY <2>2, <2>3, <2>4, <2>5, <2>6, <2>7
<1>2. IInv /\ [Next]_vars => \A q \in QuoteIds \ met : FollowsEdge(q)
  BY <1>1
<1> QED
  BY <1>2, Invariance, PTL DEF Spec, StateMachineUnlessMet

\* A quote that was sent keeps its content and is not deleted, unless two
\* requests met on it.
THEOREM SentQuotesAreFrozen == Spec => SentFrozenUnlessMet
<1> DEFINE Frozen(q) ==
      Present(q) /\ quote[q].status # "draft"
        => /\ Present(q)'
           /\ \A f \in {"number", "partner", "lines", "discount", "totals"} :
                quote'[q][f] = quote[q][f]
<1>1. ASSUME IInv, [Next]_vars, NEW q \in QuoteIds \ met PROVE Frozen(q)
  <2> SUFFICES ASSUME Present(q), quote[q].status # "draft"
               PROVE  /\ Present(q)'
                      /\ \A f \in {"number", "partner", "lines", "discount", "totals"} :
                           quote'[q][f] = quote[q][f]
    OBVIOUS
  <2>1. quote[q] \in QuoteRow
    BY <1>1, QuoteShape DEF IInv
  <2>2. CASE Kept(q)
    BY <2>2 DEF Kept, Present
  <2>3. CASE Changes(q)
    <3>1. PICK r \in Requests :
            /\ req[r].id = q
            /\ \/ CommitQuote(r)
               \/ SendWrite(r)
               \/ \E status \in StatusBodies : AnswerWrite(r, status)
               \/ \E given \in SUBSET Fields, partner \in Customers,
                     lines \in Lines, discount \in Discounts :
                    UpdateWrite(r, given, partner, lines, discount)
               \/ RemoveWrite(r)
      BY <2>3 DEF Changes
    <3>2. PICK status \in StatusBodies : AnswerWrite(r, status)
      BY <1>1, <3>1, WritesFindWhatTheyRead, UpdateLeaves
      DEF Present, Absent, QuoteStatus, Outcomes
    <3>3. quote'[q] = [quote[q] EXCEPT !.status = status]
      BY <1>1, <3>1, <3>2 DEF AnswerWrite, WriteStatus, IInv, TypeOK
    <3>4. /\ quote'[q].status = status /\ status \in QuoteStatus
          /\ \A f \in {"number", "partner", "lines", "discount", "totals"} :
               quote'[q][f] = quote[q][f]
      BY <2>1, <3>3, QuotesAssumption DEF QuoteRow
    <3> QED
      BY <3>4 DEF Present
  <2> QED
    BY <1>1, <2>2, <2>3, KeptUnlessChanged
<1>2. IInv /\ [Next]_vars => \A q \in QuoteIds \ met : Frozen(q)
  BY <1>1
<1> QED
  BY <1>2, Invariance, PTL DEF Spec, SentFrozenUnlessMet

\* A revision starts as a copy of a quote whose revision was requested, though it
\* was read some steps before, unless two requests met on that quote.
THEOREM RevisionsAreCopies == Spec => RevisionsCopyUnlessMet
<1> DEFINE Copies(q) ==
      /\ quote[q] = Absent /\ Present(q)'
      /\ quote'[q].supersedes \in QuoteIds \ met
      => LET s == quote'[q].supersedes
         IN /\ quote[s].status = "revision_requested"
            /\ \A f \in {"workspace", "partner", "lines", "discount", "totals"} :
                 quote'[q][f] = quote[s][f]
<1>1. ASSUME IInv, [Next]_vars, NEW q \in QuoteIds PROVE Copies(q)
  <2>1. PICK s : s = quote'[q].supersedes
    OBVIOUS
  <2> SUFFICES ASSUME quote[q] = Absent, Present(q)', s \in QuoteIds \ met
               PROVE  /\ quote[s].status = "revision_requested"
                      /\ \A f \in {"workspace", "partner", "lines", "discount", "totals"} :
                           quote'[q][f] = quote[s][f]
    BY <2>1
  <2>2. ~Present(q) /\ ~Kept(q)
    BY DEF Present, Kept, Absent, QuoteStatus, Outcomes
  <2>3. PICK r \in Requests : req[r].id = q /\ CommitQuote(r)
    <3>1. Changes(q)
      BY <1>1, <2>2, KeptUnlessChanged
    <3> QED
      BY <2>2, <3>1
      DEF Changes, SendWrite, AnswerWrite, WriteStatus, UpdateWrite, RemoveWrite
  <2>4. PICK c : c = req[r]
    OBVIOUS
  <2>5. quote'[q] = [status |-> "draft", workspace |-> c.series[1],
          number |-> <<c.series[2], c.number>>, partner |-> c.partner,
          lines |-> c.lines, discount |-> c.discount,
          totals |-> Totals(c.lines, c.discount),
          supersedes |-> c.supersedes, converted |-> NoInvoice]
    BY <1>1, <2>3, <2>4 DEF CommitQuote, IInv, TypeOK
  <2>6. /\ quote'[q].workspace = c.series[1] /\ quote'[q].partner = c.partner
        /\ quote'[q].lines = c.lines /\ quote'[q].discount = c.discount
        /\ quote'[q].totals = Totals(c.lines, c.discount)
        /\ c.supersedes = s
    BY <2>1, <2>5
  <2>7. CreateSound(c) /\ Present(s) /\ s # NoQuote
    BY <1>1, <2>3, <2>4, <2>6, QuotesAssumption
    DEF CommitQuote, IInv, RequestSound, Creates
  <2>8. quote[s].totals = Totals(quote[s].lines, quote[s].discount)
    BY <1>1, <2>7 DEF IInv, RowSound
  <2> QED
    BY <2>6, <2>7, <2>8 DEF CreateSound
<1>2. IInv /\ [Next]_vars => \A q \in QuoteIds : Copies(q)
  BY <1>1
<1> QED
  BY <1>2, Invariance, PTL DEF Spec, RevisionsCopyUnlessMet
-----------------------------------------------------------------------------
(* What the links of a quote say of its status (Sales builds on it)         *)

\* A quote with an invoice is accepted, one with a revision is waiting for it,
\* unless two requests met on it.
Answered ==
  \A q \in QuoteIds : Present(q) =>
    /\ q \notin met /\ quote[q].converted # NoInvoice => quote[q].status = "accepted"
    /\ quote[q].supersedes \in QuoteIds \ met
         => quote[quote[q].supersedes].status = "revision_requested"

LEMMA InitAnswered == Init => Answered
BY DEF Init, Answered, Present, Absent, QuoteStatus, Outcomes

\* Every answer is final.
LEMMA AnswersStay ==
  ASSUME IInv, [Next]_vars, NEW q \in QuoteIds \ met,
         quote[q].status \in Outcomes
  PROVE  quote'[q].status = quote[q].status
<1>1. CASE ~Changes(q)
  BY <1>1, KeptUnlessChanged DEF Kept
<1>2. CASE Changes(q)
  <2>1. quote[q].status \notin {"absent", "draft", "sent"}
    BY DEF Outcomes
  <2>2. PICK r \in Requests :
          /\ req[r].id = q
          /\ \/ CommitQuote(r)
             \/ SendWrite(r)
             \/ \E status \in StatusBodies : AnswerWrite(r, status)
             \/ \E given \in SUBSET Fields, partner \in Customers,
                   lines \in Lines, discount \in Discounts :
                  UpdateWrite(r, given, partner, lines, discount)
             \/ RemoveWrite(r)
    BY <1>2 DEF Changes
  <2> QED
    BY <2>1, <2>2, WritesFindWhatTheyRead, UpdateLeaves DEF Absent
<1> QED
  BY <1>1, <1>2

\* Where the links of a quote come from: they were there, its conversion writes
\* one, or the quote is new.
LEMMA LinksComeFrom ==
  ASSUME IInv, [Next]_vars, NEW q \in QuoteIds, Present(q)'
  PROVE  \/ /\ Present(q)
            /\ quote'[q].converted \in {quote[q].converted, NoInvoice}
            /\ quote'[q].supersedes \in {quote[q].supersedes, NoQuote}
         \/ \E r \in Requests, i \in InvoiceIds :
              /\ ConvertWrite(r, i) /\ req[r].id = q /\ Present(q)
              /\ quote'[q].supersedes = quote[q].supersedes
         \/ \E r \in Requests : CommitQuote(r) /\ req[r].id = q
<1> DEFINE Same == /\ Present(q)
                   /\ quote'[q].converted \in {quote[q].converted, NoInvoice}
                   /\ quote'[q].supersedes \in {quote[q].supersedes, NoQuote}
<1>1. Present(q) => quote[q] \in QuoteRow
  BY QuoteShape DEF IInv
<1>2. CASE quote'[q] = quote[q]
  BY <1>2 DEF Present
<1>3. ASSUME NEW r \in Requests, NEW i \in InvoiceIds, ConvertWrite(r, i), req[r].id = q
      PROVE  Present(q) /\ quote'[q].supersedes = quote[q].supersedes
  BY <1>1, <1>3 DEF ConvertWrite, IInv, TypeOK, QuoteRow
<1>4. ASSUME NEW i \in InvoiceIds, InvoiceRemoved(i) PROVE Same
  <2>1. CASE Present(q) /\ quote[q].converted = i
    <3>1. quote'[q] = [quote[q] EXCEPT !.converted = NoInvoice]
      BY <1>4, <2>1 DEF InvoiceRemoved
    <3> QED
      BY <1>1, <2>1, <3>1 DEF QuoteRow
  <2>2. CASE ~(Present(q) /\ quote[q].converted = i)
    <3>1. quote'[q] = quote[q]
      BY <1>4, <2>2 DEF InvoiceRemoved
    <3> QED
      BY <3>1 DEF Present
  <2> QED
    BY <2>1, <2>2
<1>5. ASSUME NEW r \in Requests, RemoveWrite(r) PROVE Same
  <2>1. req[r].id # q
    BY <1>5 DEF RemoveWrite, Present, Deleted, QuoteStatus, Outcomes
  <2>2. CASE Present(q) /\ quote[q].supersedes = req[r].id
    <3>1. quote'[q] = [quote[q] EXCEPT !.supersedes = NoQuote]
      BY <1>5, <2>1, <2>2 DEF RemoveWrite
    <3> QED
      BY <1>1, <2>2, <3>1 DEF QuoteRow
  <2>3. CASE ~(Present(q) /\ quote[q].supersedes = req[r].id)
    <3>1. quote'[q] = quote[q]
      BY <1>5, <2>1, <2>3 DEF RemoveWrite
    <3> QED
      BY <3>1 DEF Present
  <2> QED
    BY <2>2, <2>3
<1>6. ASSUME NEW r \in Requests, NEW at, NEW status, WriteStatus(r, at, status), req[r].id = q
      PROVE  Same
  BY <1>1, <1>6 DEF WriteStatus, IInv, TypeOK, QuoteRow
<1>7. ASSUME NEW r \in Requests, NEW given, NEW partner, NEW lines, NEW discount,
             UpdateWrite(r, given, partner, lines, discount), req[r].id = q
      PROVE  Same
  <2>1. /\ Present(q) /\ quote[q] \in QuoteRow
        /\ quote'[q] = Edited(quote[q], req[r], given, partner, lines, discount)
    BY <1>1, <1>7 DEF UpdateWrite, IInv, TypeOK
  <2> QED
    BY <2>1 DEF Edited, QuoteRow
<1>8. \/ UNCHANGED vars \/ NewYear
      \/ \E r \in Requests :
           \/ RemoveWrite(r) \/ (QuoteStep(r) /\ req[r].id # q) \/ (QuoteStep(r) /\ req[r].id = q)
      \/ \E r \in Requests, i \in InvoiceIds : ConvertWrite(r, i)
      \/ \E i \in InvoiceIds : InvoiceRemoved(i)
  BY DEF Next
<1>9. ASSUME NEW r \in Requests, QuoteStep(r)
      PROVE  \/ quote'[q] = quote[q]
             \/ /\ req[r].id = q
                /\ \/ CommitQuote(r) \/ SendWrite(r)
                   \/ \E status \in StatusBodies : AnswerWrite(r, status)
                   \/ \E given \in SUBSET Fields, partner \in Customers,
                         lines \in Lines, discount \in Discounts :
                        UpdateWrite(r, given, partner, lines, discount)
  BY <1>9
  DEF QuoteStep, Create, Reads, Writes, SendRead, AnswerRead, UpdateRead, RemoveRead,
      ConvertRead, ReviseRead, ReadAs, TakeNumber, Abandon, CommitQuote,
      SendWrite, AnswerWrite, WriteStatus, UpdateWrite, IInv, TypeOK
<1>10. ASSUME NEW r \in Requests, NEW i \in InvoiceIds, ConvertWrite(r, i), req[r].id # q
       PROVE  quote'[q] = quote[q]
  BY <1>10 DEF ConvertWrite, IInv, TypeOK
<1> QED
  BY <1>2, <1>3, <1>4, <1>5, <1>6, <1>7, <1>8, <1>9, <1>10
  DEF vars, NewYear, SendWrite, AnswerWrite

LEMMA StepAnswered == IInv /\ Answered /\ [Next]_vars => Answered'
<1> SUFFICES ASSUME IInv, Answered, [Next]_vars, NEW q \in QuoteIds, Present(q)'
             PROVE  /\ q \notin met' /\ quote'[q].converted # NoInvoice
                         => quote'[q].status = "accepted"
                    /\ quote'[q].supersedes \in QuoteIds \ met'
                         => quote'[quote'[q].supersedes].status = "revision_requested"
  BY DEF Answered
<1>1. met \subseteq met'
  BY DEF Next, Remember, vars
<1>2. NoQuote \notin QuoteIds
  BY QuotesAssumption
<1>3. ASSUME Present(q), quote[q].converted # NoInvoice, q \notin met'
      PROVE  quote'[q].status = "accepted"
  <2>1. quote[q].status = "accepted"
    BY <1>1, <1>3 DEF Answered
  <2> QED
    BY <1>1, <1>3, <2>1, AnswersStay DEF Outcomes
<1>4. ASSUME Present(q), quote[q].supersedes \in QuoteIds \ met',
             quote'[q].supersedes = quote[q].supersedes
      PROVE  quote'[quote'[q].supersedes].status = "revision_requested"
  <2>1. quote[quote[q].supersedes].status = "revision_requested"
    BY <1>1, <1>4 DEF Answered
  <2> QED
    BY <1>1, <1>4, <2>1, AnswersStay DEF Outcomes
<1>5. CASE /\ Present(q)
           /\ quote'[q].converted \in {quote[q].converted, NoInvoice}
           /\ quote'[q].supersedes \in {quote[q].supersedes, NoQuote}
  BY <1>2, <1>3, <1>4, <1>5
<1>6. ASSUME NEW r \in Requests, NEW i \in InvoiceIds, ConvertWrite(r, i),
             req[r].id = q, Present(q), quote'[q].supersedes = quote[q].supersedes
      PROVE  /\ q \notin met' => quote'[q].status = "accepted"
             /\ quote'[q].supersedes \in QuoteIds \ met'
                  => quote'[quote'[q].supersedes].status = "revision_requested"
  <2>1. ASSUME q \notin met' PROVE quote[q].status = "accepted"
    <3>1. RequestSound(req[r]) /\ req[r].at = "converting"
      BY <1>6 DEF IInv, ConvertWrite
    <3> QED
      BY <1>1, <1>6, <2>1, <3>1, IdleShape DEF RequestSound, WriteSound, Creates
  <2>2. q \notin met' => quote'[q].status = "accepted"
    BY <1>1, <2>1, AnswersStay DEF Outcomes
  <2> QED
    BY <1>4, <1>6, <2>2
<1>7. ASSUME NEW r \in Requests, CommitQuote(r), req[r].id = q
      PROVE  /\ quote'[q].converted = NoInvoice
             /\ quote'[q].supersedes \in QuoteIds \ met'
                  => quote'[quote'[q].supersedes].status = "revision_requested"
  <2>1. PICK c : c = req[r]
    OBVIOUS
  <2>2. CreateSound(c) /\ c.at = "numbered" /\ c.id = q
    BY <1>7, <2>1 DEF CommitQuote, IInv, RequestSound, Creates
  <2>3. quote'[q].converted = NoInvoice /\ quote'[q].supersedes = c.supersedes
    BY <1>7, <2>1 DEF CommitQuote, IInv, TypeOK
  <2>4. ASSUME c.supersedes \in QuoteIds \ met'
        PROVE  quote'[c.supersedes].status = "revision_requested"
    <3>1. quote[c.supersedes].status = "revision_requested"
      BY <1>1, <1>2, <2>2, <2>4 DEF CreateSound
    <3> QED
      BY <1>1, <2>4, <3>1, AnswersStay DEF Outcomes
  <2> QED
    BY <2>3, <2>4
<1> QED
  BY <1>5, <1>6, <1>7, LinksComeFrom
=============================================================================
