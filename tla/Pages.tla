-------------------------------- MODULE Pages --------------------------------
(***************************************************************************)
(* A page of the web client at work: the rows it shows, its controls, its  *)
(* dialogs and forms, and the calls it has in flight, whose answers come   *)
(* in any order or not at all.  DocumentPages and PartnerPages say what    *)
(* each page does; one of them is mounted.  Other users change the rows    *)
(* meanwhile.                                                              *)
(*                                                                         *)
(* The state of a page is React's: a handler goes on with the page and the *)
(* filter of the render its button was pressed in (want), a choice of      *)
(* filter or page starts the page's effect.  A dialog covers the page.     *)
(***************************************************************************)
EXTENDS PartnerPages, Integers, FiniteSets, SequencesExt

CONSTANTS
  Screens,    \* the pages an instance looks at
  RowIds,     \* the rows an execution may use, numbered in order of creation
  PageSize,   \* PAGE_SIZE (20 in the source)
  FewPages,   \* from how many pages on the pager leaves numbers out (7)
  MaxCalls    \* the user presses nothing while so many calls are in flight

Page ==
  [invoices |-> InvoicesPage, quotes |-> QuotesPage, orders |-> OrdersPage,
   overdue |-> OverduePage, customers |-> CustomersPage, suppliers |-> SuppliersPage,
   users |-> UsersPage, categories |-> CategoriesPage,
   invoiceDetail |-> InvoiceDetailPage, quoteDetail |-> QuoteDetailPage,
   orderDetail |-> OrderDetailPage, customerDetail |-> CustomerDetailPage,
   supplierDetail |-> SupplierDetailPage]

ASSUME PagesAssumption ==
  /\ Screens \subseteq DOMAIN Page
  /\ RowIds \subseteq Nat
  /\ {PageSize, FewPages, MaxCalls} \subseteq Nat \ {0}

VARIABLES
  screen,   \* the page that is mounted
  db,       \* db[r]: the row on the server
  at,       \* the page and the filter chosen, or the id in the URL
  shown,    \* the rows shown, how many there are in all, and what was asked
  view,     \* spinner, error message, flags of the buttons, still mounted
  dialog,   \* the dialog or form that is open
  calls,    \* the calls in flight, oldest first
  strayed   \* history: what the user did before something had ended

vars == <<screen, db, at, shown, view, dialog, calls, strayed>>

P == Page[screen]

Handler(op) == P.handlers[op]

NoDialog == [op |-> "none"]

Pending == [is |-> "pending"]

Refused == [is |-> "refused"]

\* A field of a record, or nothing where the page's record has none.
Entry(f, x) == IF x \in DOMAIN f THEN f[x] ELSE {}

-----------------------------------------------------------------------------
(* The server *)

Listed(filter) == {r \in RowIds : db[r] \in P.findAll[filter]}

\* What the server answers to a reading: one page, all rows, or one row (404
\* when it is gone).  Rows are as of the sending of the request: read later they
\* would only be fresher.
Answer(want) ==
  LET ids == SetToSortSeq(Listed(want.filter), LAMBDA a, b : a > b)
      from == (want.page - 1) * PageSize
      rows == CASE P.kind = "one" -> <<want.page>>
                [] P.kind = "whole" -> ids
                [] OTHER -> SubSeq(ids, from + 1, IF from + PageSize < Len(ids)
                                                   THEN from + PageSize ELSE Len(ids))
  IN IF P.kind = "one" /\ want.page \notin Listed("all") THEN Refused
     ELSE [is |-> "rows", total |-> Len(ids),
           rows |-> [i \in DOMAIN rows |-> [id |-> rows[i], state |-> db[rows[i]]]]]

Moves(op, s) == {m \in P.moves : m[1] = op /\ m[2] = s}

-----------------------------------------------------------------------------
(* What the page shows *)

TotalPages(total) ==
  IF total = 0 THEN 1 ELSE (total + PageSize - 1) \div PageSize

\* Rows with their buttons are there when the spinner and, on a detail page,
\* the load error are not.
Rows ==
  IF view.loading \/ ~view.mounted \/ (P.kind = "one" /\ view.error)
    THEN {} ELSE {shown.rows[i] : i \in DOMAIN shown.rows}

\* The pages the pager's buttons go to.
PagerTargets ==
  LET n == TotalPages(shown.total)
      there == P.kind = "list" /\ ~view.loading /\ (P.pager.single \/ n > 1)
      number(i) == P.pager.all \/ n <= FewPages \/ i \in {1, n}
                     \/ i \in (at.page - 1)..(at.page + 1)
      previous == IF at.page > 1 THEN {at.page - 1} ELSE {}
      next == IF at.page < n THEN {at.page + 1} ELSE {}
  IN IF there THEN {i \in 1..n : number(i)} \cup previous \cup next ELSE {}

\* A form's button is disabled while the form's own call runs, a dialog's by
\* its flag, which outlives the dialog.
Disabled(op) ==
  IF Handler(op).asks = "form"
    THEN \E i \in DOMAIN calls : calls[i].own
    ELSE op \in DOMAIN P.flags /\ P.flags[op] \in view.busy

Free == view.mounted /\ Len(calls) < MaxCalls

-----------------------------------------------------------------------------
(* Effects *)

Load(want) ==
  [for |-> "load", op |-> "none", id |-> 0, opened |-> 0, saw |-> "none",
   want |-> want, own |-> FALSE, ans |-> Answer(want)]

Cancelled(c) == c.for = "load" /\ P.effect.cancels

\* (A plausible bug: no cleanup, so that a late answer is not ignored.)
KeptAll(seq) == seq

\* What the effect's cleanup leaves in flight: it cancels the load of the effect
\* before, which cancelled those before it.
Kept(seq) ==
  LET loads == {i \in DOMAIN seq : Cancelled(seq[i])}
  IN IF loads = {} THEN seq ELSE RemoveAt(seq, CHOOSE i \in loads : TRUE)

\* (A plausible bug: the effect runs on mount only.)
ChosenOnMount(new, rest) == rest

\* Choosing another page or filter runs the effect again; its cleanup cancels
\* the one before where the page does so.
Chosen(new, rest) ==
  IF new = at THEN rest ELSE Append(Kept(rest), Load(new))

\* page 1 with the search cleared; a category stays chosen.
First(want) ==
  [page |-> 1, filter |-> IF want.filter = "search" THEN "all" ELSE want.filter]

Target(kind, want) ==
  CASE kind = "page1" -> [want EXCEPT !.page = 1]
    [] kind = "first" -> First(want)
    [] OTHER -> want

\* (A plausible bug: every answer closes what is open.)
ClosesAnything(effs, c) == TRUE

\* The controls after these effects of call c.
AtAfter(effs, c, new) ==
  IF "first" \in effs THEN First(at)
  ELSE IF "page1" \in effs THEN [at EXCEPT !.page = 1]
  ELSE IF "follow" \in effs THEN [at EXCEPT !.page = new] ELSE at

Closes(effs, c) ==
  \/ "closeAny" \in effs
  \/ "close" \in effs /\ dialog.op = c.op
  \/ "closeForm" \in effs /\ dialog.op \in {"create", "update"}

\* The calls sent from a dialog that is closed belong to no dialog any more.
Disowned(seq) == [i \in DOMAIN seq |-> [seq[i] EXCEPT !.own = FALSE]]

ViewAfter(v, effs) ==
  [v EXCEPT
     !.error = (@ \/ "error" \in effs) /\ "clear" \notin effs,
     !.loading = @ /\ "ready" \notin effs,
     !.mounted = @ /\ "leave" \notin effs]

\* A reading that starts, and one that ends.
Started(v, reading) ==
  [v EXCEPT !.loading = @ \/ reading.starts, !.error = @ /\ reading.clears # "before"]

Ended(v, reading, ok) ==
  [v EXCEPT !.loading = @ /\ ~reading.ends,
            !.error = IF ok THEN @ /\ reading.clears # "ok" ELSE TRUE]

\* finally: the button's flag is taken back.
Freed(v, c) ==
  [v EXCEPT !.busy = IF c.op \in DOMAIN P.flags THEN @ \ {P.flags[c.op]} ELSE @]

\* The controls change under a dialog that stays open, or under a call in flight
\* that wants something else: a handler's, or the reading of a detail page whose
\* effect has no cleanup.
Moved(new, open, rest) ==
  LET late(c) == /\ c.want # new
                 /\ c.for # "load" \/ (P.kind = "one" /\ ~P.effect.cancels)
  IN IF new # at /\ (open \/ \E i \in DOMAIN rest : late(rest[i]))
       THEN strayed \cup {"moved"} ELSE strayed

\* The step's new controls, dialog and calls, with the spinner of the effect:
\* rest is what stays in flight, more what the step sends.
Settle(new, shut, rest, more, v) ==
  LET after == IF v.mounted THEN Chosen(new, rest \o more) ELSE << >>
      open == dialog # NoDialog /\ ~shut
  IN /\ at' = new
     /\ dialog' = IF open /\ v.mounted THEN dialog ELSE NoDialog
     /\ calls' = IF shut THEN Disowned(after) ELSE after
     /\ view' = IF new # at THEN Started(v, P.effect) ELSE v
     /\ strayed' = Moved(new, open, rest)

-----------------------------------------------------------------------------
(* The user *)

\* A filter, a search, a sort: page 1 of the new list.
ChooseFilter(f) ==
  /\ Free /\ dialog = NoDialog
  /\ f \in P.filters.choices /\ f # at.filter
  /\ Settle([page |-> 1, filter |-> f], FALSE, calls, << >>, view)
  /\ UNCHANGED <<screen, db, shown>>

\* A button of the pager; on some pages it sets the spinner itself, also when it
\* is the number of the current page, which chooses nothing.
Turn(n) ==
  LET v == [view EXCEPT !.loading = @ \/ P.pager.spins]
  IN /\ Free /\ dialog = NoDialog
     /\ n \in PagerTargets
     /\ UNCHANGED <<screen, db, shown>>
     /\ \/ /\ n # at.page
           /\ Settle([at EXCEPT !.page = n], FALSE, calls, << >>, v)
        \/ /\ n = at.page /\ P.pager.spins
           /\ view' = v
           /\ strayed' = strayed \cup {"again"}
           /\ UNCHANGED <<at, dialog, calls>>

\* Another document in the URL: a link to a revision, or back and forward,
\* which a dialog does not cover.
Visit(r) ==
  /\ Free /\ P.kind = "one"
  /\ r \in RowIds /\ db[r] # "none" /\ r # at.page
  /\ Settle([at EXCEPT !.page = r], FALSE, calls, << >>, view)
  /\ UNCHANGED <<screen, db, shown>>

\* (A plausible bug: acting on the first row instead of the chosen one.)
CallFirst(op, row, opened) ==
  [for |-> "op", op |-> op, opened |-> opened, saw |-> row.state, want |-> at,
   id |-> IF Len(shown.rows) > 0 THEN shown.rows[1].id ELSE 0,
   own |-> dialog # NoDialog, ans |-> Pending]

\* The call a handler makes: a list's about the row of the dialog, a detail
\* page's about the row of the URL.
Call(op, row, opened) ==
  [for |-> "op", op |-> op, id |-> IF P.kind = "one" THEN at.page ELSE row.id,
   opened |-> opened, saw |-> row.state, want |-> at,
   own |-> dialog # NoDialog, ans |-> Pending]

Send(op, row, opened) ==
  /\ calls' = Append(calls, Call(op, row, opened))
  /\ view' = [ViewAfter(view, Handler(op).start) EXCEPT
                !.busy = IF op \in DOMAIN P.flags THEN @ \cup {P.flags[op]} ELSE @]
  /\ UNCHANGED <<screen, db, at, shown, dialog, strayed>>

Offered(op, row) == op \in Entry(P.buttons, row.state)

\* A button that needs no confirmation.
Press(op, row) ==
  /\ Free /\ dialog = NoDialog
  /\ row \in Rows /\ Offered(op, row)
  /\ Handler(op).asks = "no" /\ ~Disabled(op)
  /\ Send(op, row, row.id)

Open(op, row) ==
  /\ Free /\ dialog = NoDialog
  /\ \/ row \in Rows /\ Offered(op, row)
     \/ op \in P.header /\ row = [id |-> 0, state |-> "none"]
  /\ Handler(op).asks # "no"
  /\ dialog' = [op |-> op, row |-> row]
  /\ strayed' = IF \E i \in DOMAIN calls : calls[i].for # "load"
                  THEN strayed \cup {"opened"} ELSE strayed
  /\ UNCHANGED <<screen, db, at, shown, view, calls>>

\* The confirming button of a dialog, the submit button of a form.
Confirm ==
  /\ Free /\ dialog # NoDialog /\ ~Disabled(dialog.op)
  /\ Send(dialog.op, dialog.row, dialog.row.id)

\* Escape, the backdrop and the cross close every dialog, also one whose
\* buttons are disabled because its call runs.
Close ==
  /\ view.mounted /\ dialog # NoDialog
  /\ dialog' = NoDialog
  /\ calls' = Disowned(calls)
  /\ UNCHANGED <<screen, db, at, shown, view, strayed>>

-----------------------------------------------------------------------------
(* Calls *)

\* The service executes a handler's call: it finds the row in a state it works on,
\* or it refuses, for that state or for something else; the answer is on its way.
\* (A request that reaches no service, for want of a session or a role, OpFails.)
Serve(i) ==
  LET c == calls[i] IN
  /\ c.ans = Pending
  /\ UNCHANGED <<screen, at, shown, view, dialog, strayed>>
  /\ \/ /\ c.op = "revision" => Moves(c.op, db[c.id]) # {}
        /\ \E r \in RowIds :
             \E m \in Moves(IF c.op = "revision" THEN "create" ELSE c.op, db[r]) :
               /\ c.op \notin {"create", "revision"} => r = c.id
               /\ db' = [db EXCEPT ![r] = m[3]]
               /\ calls' = [calls EXCEPT ![i].ans = [is |-> "row", row |-> [id |-> r, state |-> m[3]]]]
     \/ /\ c.op # "create" /\ Moves(c.op, db[c.id]) = {}
        /\ calls' = [calls EXCEPT ![i].ans = Refused]
        /\ UNCHANGED db
     \/ /\ c.op \in P.refusals
        /\ calls' = [calls EXCEPT ![i].ans = Refused]
        /\ UNCHANGED db

\* The answer to a reading arrives, or its failure does; setPage(1) after a
\* reading is skipped when it failed.  A form that closes in the end has waited
\* for the reading (own).
ReadingEnds(i, ok) ==
  LET c == calls[i]
      h == Handler(c.op)
      reading == IF c.for = "load" THEN P.effect ELSE P.fetch
      effs == IF c.for = "load" THEN {} ELSE IF ok THEN h.last ELSE h.last \ {"first"}
  IN /\ c.for # "op"
     /\ shown' = IF ok THEN [rows |-> c.ans.rows, total |-> c.ans.total, of |-> c.want] ELSE shown
     /\ Settle(AtAfter(effs, c, 0), Closes(effs, c), RemoveAt(calls, i), << >>,
               ViewAfter(Freed(Ended(view, reading, ok), c), effs))
     /\ UNCHANGED <<screen, db>>

\* A handler's call has succeeded: what comes before its reading, and the reading.
Succeeds(i) ==
  LET c == calls[i]
      h == Handler(c.op)
      want == Target(h.fetch, c.want)
      reload == [c EXCEPT !.for = "reload", !.want = want, !.ans = Answer(want),
                          !.own = @ /\ "closeForm" \in h.last]
      done == ViewAfter(view, h.ok)
      v == IF h.fetch = "no" THEN Freed(done, c) ELSE Started(done, P.fetch)
  IN /\ c.for = "op" /\ c.ans.is = "row"
     /\ shown' = IF "show" \in h.ok
                   THEN [shown EXCEPT !.rows = <<c.ans.row>>, !.of = c.want] ELSE shown
     /\ Settle(AtAfter(h.ok, c, c.ans.row.id), Closes(h.ok, c), RemoveAt(calls, i),
               IF h.fetch = "no" THEN << >> ELSE <<reload>>, v)
     /\ UNCHANGED <<screen, db>>

\* It has failed: refused, or the request or its answer was lost.
OpFails(i) ==
  LET c == calls[i]
      effs == Handler(c.op).fail
  IN /\ c.for = "op"
     /\ shown' = shown
     /\ Settle(at, Closes(effs, c), RemoveAt(calls, i), << >>,
               Freed(ViewAfter(view, effs), c))
     /\ UNCHANGED <<screen, db>>

Arrives(i) ==
  \/ calls[i].ans.is = "rows" /\ ReadingEnds(i, TRUE)
  \/ Succeeds(i)
  \/ ReadingEnds(i, FALSE)
  \/ OpFails(i)

\* Another user works on the same rows; with nothing in flight that is as good
\* as just after the next call was sent.
Other(r) ==
  /\ view.mounted /\ calls # << >>
  /\ \E m \in P.moves : m[2] = db[r] /\ m[3] # db[r] /\ db' = [db EXCEPT ![r] = m[3]]
  /\ UNCHANGED <<screen, at, shown, view, dialog, calls, strayed>>

-----------------------------------------------------------------------------
(* The specification *)

States == UNION {{m[2], m[3]} : m \in P.moves} \cup {"none"}

Init ==
  /\ screen \in Screens
  /\ db \in [RowIds -> States \ {"gone"}]
  /\ at \in [page : IF P.kind = "one" THEN RowIds ELSE {1}, filter : {"all"}]
  /\ shown = [rows |-> << >>, total |-> 0, of |-> [page |-> 0, filter |-> "all"]]
  /\ view = [loading |-> TRUE, error |-> FALSE, busy |-> {}, mounted |-> TRUE]
  /\ dialog = NoDialog
  /\ calls = <<Load(at)>>
  /\ strayed = {}

Next ==
  \/ \E f \in P.filters.choices : ChooseFilter(f)
  \/ \E n \in RowIds : Turn(n) \/ Visit(n) \/ Other(n)
  \/ \E op \in DOMAIN P.handlers :
       \E row \in Rows \cup {[id |-> 0, state |-> "none"]} : Press(op, row) \/ Open(op, row)
  \/ Confirm \/ Close
  \/ \E i \in DOMAIN calls : Serve(i) \/ Arrives(i)

Spec == Init /\ [][Next]_vars

-----------------------------------------------------------------------------
(* Properties *)

CallFields ==
  [for : {"load", "op", "reload"}, op : {"none"} \cup DOMAIN P.handlers,
   id : RowIds \cup {0}, opened : RowIds \cup {0}, saw : States,
   want : [page : RowIds, filter : DOMAIN P.findAll], own : BOOLEAN]

\* The shapes of the variables.
TypeOK ==
  /\ screen \in Screens
  /\ db \in [RowIds -> States]
  /\ at \in [page : RowIds, filter : DOMAIN P.findAll]
  /\ shown.total \in 0..Cardinality(RowIds)
  /\ view \in [loading : BOOLEAN, error : BOOLEAN, mounted : BOOLEAN,
                busy : SUBSET {P.flags[op] : op \in DOMAIN P.flags}]
  /\ dialog = NoDialog \/ dialog.op \in DOMAIN P.handlers
  /\ \A i \in DOMAIN calls :
       [f \in DOMAIN calls[i] \ {"ans"} |-> calls[i][f]] \in CallFields

\* When nothing is in flight the rows shown are those of the page and filter (or
\* of the URL) that the controls show, unless there is an error message, or they
\* changed while a handler was at work, whose closure reads the old ones, or, on a
\* detail page without cleanup, while its reading was.
QuietRowsAreChosen ==
  calls = << >> /\ view.mounted /\ ~view.error /\ "moved" \notin strayed
    => shown.of = at

\* The spinner turns only while a reading that ends it is in flight; not so on
\* customers and suppliers once the number of the current page was pressed: it
\* sets the spinner, and the effect does not run again.
SpinnerIsAwaited ==
  view.loading /\ view.mounted /\ "again" \notin strayed
    => \E i \in DOMAIN calls :
         calls[i].for = "load" \/ (calls[i].for = "reload" /\ P.fetch.ends)

\* A dialog or a form is closed by the user, by leaving the page, or by the call
\* that was sent from it; unless it was opened while another handler's call was
\* in flight, whose success closes whatever is open (and loses what was typed).
DialogsCloseForTheirOwn ==
  [][dialog # NoDialog /\ dialog' = NoDialog /\ view'.mounted /\ "opened" \notin strayed
       => Close \/ \E i \in DOMAIN calls : calls[i].own /\ Arrives(i)]_vars

\* A call concerns the row its button or dialog was opened for, also on a detail
\* page, where it is addressed by the URL; unless the URL changed under it.
ActsOnOpened ==
  "moved" \notin strayed =>
    \A i \in DOMAIN calls : calls[i].for = "op" => calls[i].id = calls[i].opened

\* A row a reading found is worth its buttons: a service that decides by the state
\* of the row refuses what a page offers only when the row has changed since.
\* (What it may refuse for something else, the row does not tell.)
RefusedOnlyIfChanged ==
  [][\A i \in DOMAIN calls :
       /\ calls[i].ans = Pending /\ calls[i].op \notin P.refusals
       /\ Serve(i) /\ calls'[i].ans = Refused
       => db[calls[i].id] # calls[i].saw]_vars
=============================================================================
