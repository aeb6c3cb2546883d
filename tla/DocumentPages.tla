---------------------------- MODULE DocumentPages ----------------------------
(***************************************************************************)
(* The pages of the web client about quotes, invoices and purchase orders: *)
(* what each of them does with the answers of the server, which controls   *)
(* it offers, and in which order its handlers do their work.  All of them  *)
(* run on the machine of Pages; this module holds what differs.            *)
(*                                                                         *)
(* A handler is what happens when its call is answered:                    *)
(*   asks     a dialog to be confirmed first: "confirm", "form" or "no"    *)
(*   start    done when the call is sent                                   *)
(*   ok       done when the call has succeeded                             *)
(*   fetch    what is read again then: "same" (page and filter as they     *)
(*            were when the button was pressed), "page1", "first" (page 1  *)
(*            without a search) or "no"                                    *)
(*   last     done when that reading has ended, well or not                *)
(*   fail     done when the call has failed                                *)
(* in terms of: "close" (the dialog of the same handler), "closeAny",      *)
(* "closeForm" (any form), "error" and "clear" (the message of the page),  *)
(* "ready" (no spinner), "page1" and "first" (as above, for the controls), *)
(* "show" (the row answered), "follow" (the page of the new row), "leave"  *)
(* (another page).  Messages that hide nothing (the toast, the error       *)
(* beside a document) are left out.                                        *)
(*                                                                         *)
(* A reading starts (sets) and ends (takes away) the spinner or does not,  *)
(* clears the message ("before" it, after an "ok", or "no"), and is        *)
(* cancelled by another choice (its answer is ignored) or not.             *)
(***************************************************************************)
EXTENDS Naturals, Sequences

\* A first reading that ignores late answers and keeps an old message.
Cancelling == [starts |-> FALSE, ends |-> TRUE, clears |-> "no", cancels |-> TRUE]

\* fetchPage: sets the spinner, clears the message, never cancelled.
Fetching == [starts |-> TRUE, ends |-> TRUE, clears |-> "before", cancels |-> FALSE]

\* A numbered pager: always there, and not a cause of the spinner.
Numbered == [spins |-> FALSE, single |-> TRUE, all |-> TRUE]

NoPager == [spins |-> FALSE, single |-> FALSE, all |-> FALSE]

NoFilters == [turns |-> "no", choices |-> {}]

\* A call that is confirmed in a dialog, which its answer closes.
Confirmed ==
  [asks |-> "confirm", start |-> {}, ok |-> {"close"}, fetch |-> "same",
   last |-> {}, fail |-> {"error", "close"}]

\* A call of a form: its success closes the form, its failure is shown in it.
Submitted ==
  [asks |-> "form", start |-> {}, ok |-> {"closeForm"}, fetch |-> "same",
   last |-> {}, fail |-> {}]

\* One that goes to another page when it has succeeded.
Leaving == [Confirmed EXCEPT !.ok = {"close", "leave"}, !.fetch = "no"]

-----------------------------------------------------------------------------
(* What the services do with a row: <<operation, state before, after>>.    *)
(* Every other state they refuse, and besides it what "refusals" names: an *)
(* operation that may be refused for something the row does not show.      *)

InvoiceMoves ==
  {<<"create", "none", "draft">>, <<"issue", "draft", "issued">>,
   <<"delete", "draft", "gone">>}

\* converted: accepted, with an invoice, which converting again returns and whose
\* removal makes the quote free again; like a rejected one it has no button.
QuoteMoves ==
  {<<"create", "none", "draft">>, <<"send", "draft", "sent">>,
   <<"delete", "draft", "gone">>, <<"accepted", "sent", "accepted">>,
   <<"rejected", "sent", "rejected">>,
   <<"revision_requested", "sent", "revision_requested">>,
   <<"convert", "accepted", "converted">>, <<"convert", "converted", "converted">>,
   <<"removeInvoice", "converted", "accepted">>,
   <<"revision", "revision_requested", "revision_requested">>}

OrderMoves == {<<"create", "none", "draft">>, <<"send", "draft", "sent">>}

\* The documents' services decide by the status of the document alone.
DocumentRefusals == {}

\* The states each choice of the filters stands for, as findAll reads them.
InvoiceFindAll == [all |-> {"draft", "issued"}, some |-> {"draft"}]

QuoteFindAll ==
  [all |-> {"draft", "sent", "accepted", "revision_requested", "rejected", "converted"},
   some |-> {"draft", "accepted"}]

OrderFindAll == [all |-> {"draft", "sent"}, some |-> {"draft"}]

-----------------------------------------------------------------------------
(* InvoicesPage *)

InvoicesFetchPage == Fetching

InvoicesEffect == Cancelling

\* Changing the search, the status or the sort goes back to page 1.
InvoicesFilters == [turns |-> "page1", choices |-> DOMAIN InvoiceFindAll]

InvoicesHandleIssue == Confirmed

InvoicesHandleDelete == Confirmed

\* (A plausible bug: the button is there whatever the status.)
InvoicesTableAnyStatus == [draft |-> {"issue", "delete"}, issued |-> {"issue"}]

\* Buttons of a row, for a role that may write: others only view.
InvoicesTable == [draft |-> {"issue", "delete"}]

InvoicesPager == Numbered

\* The two dialogs: while a call runs, their buttons are disabled; one flag each.
InvoicesDialogs == [issue |-> "isIssuing", delete |-> "isDeleting"]

InvoicesPage ==
  [kind |-> "list", moves |-> InvoiceMoves, refusals |-> DocumentRefusals,
   findAll |-> InvoiceFindAll,
   effect |-> InvoicesEffect, fetch |-> InvoicesFetchPage, filters |-> InvoicesFilters,
   handlers |-> [issue |-> InvoicesHandleIssue, delete |-> InvoicesHandleDelete],
   buttons |-> InvoicesTable, header |-> {}, pager |-> InvoicesPager,
   flags |-> InvoicesDialogs]

-----------------------------------------------------------------------------
(* QuotesPage *)

QuotesEffect == Cancelling

QuotesFetchPage == Fetching

QuotesFilters == [turns |-> "page1", choices |-> DOMAIN QuoteFindAll]

QuotesHandleSend == Confirmed

\* Converting goes to the page of the new invoice.
QuotesHandleConvert == Leaving

QuotesHandleDelete == Confirmed

QuotesHandleCreateRevision == Leaving

QuotesTable ==
  [draft |-> {"send", "delete"}, accepted |-> {"convert"},
   revision_requested |-> {"revision"}]

QuotesPager == Numbered

QuotesDialogs ==
  [send |-> "isSending", convert |-> "isConverting", delete |-> "isDeleting",
   revision |-> "isCreatingRevision"]

QuotesPage ==
  [kind |-> "list", moves |-> QuoteMoves, refusals |-> DocumentRefusals,
   findAll |-> QuoteFindAll,
   effect |-> QuotesEffect, fetch |-> QuotesFetchPage, filters |-> QuotesFilters,
   handlers |-> [send |-> QuotesHandleSend, convert |-> QuotesHandleConvert,
                 delete |-> QuotesHandleDelete, revision |-> QuotesHandleCreateRevision],
   buttons |-> QuotesTable, header |-> {}, pager |-> QuotesPager, flags |-> QuotesDialogs]

-----------------------------------------------------------------------------
(* PurchaseOrdersPage *)

OrdersEffect == Cancelling

\* The list handleSend reads again itself: no spinner, an old message stays.
OrdersFetch == [starts |-> FALSE, ends |-> FALSE, clears |-> "no", cancels |-> FALSE]

OrdersFilters == [turns |-> "page1", choices |-> DOMAIN OrderFindAll]

OrdersHandleSend ==
  [Confirmed EXCEPT !.ok = {"close", "page1"}, !.fetch = "page1"]

OrdersTable == [draft |-> {"send"}]

\* With many pages only the first, the last and the neighbours have a number.
OrdersPager == [spins |-> FALSE, single |-> TRUE, all |-> FALSE]

OrdersDialog == [send |-> "isSending"]

OrdersPage ==
  [kind |-> "list", moves |-> OrderMoves, refusals |-> DocumentRefusals,
   findAll |-> OrderFindAll,
   effect |-> OrdersEffect, fetch |-> OrdersFetch, filters |-> OrdersFilters,
   handlers |-> [send |-> OrdersHandleSend], buttons |-> OrdersTable,
   header |-> {}, pager |-> OrdersPager, flags |-> OrdersDialog]

-----------------------------------------------------------------------------
(* OverdueReportPage: nothing but a filter; the search is over the rows shown. *)

OverdueFindAll == [all |-> {"due", "overdue"}, some |-> {"overdue"}]

OverdueMoves == {<<"pass", "due", "overdue">>, <<"pay", "overdue", "gone">>}

OverdueEffect == Cancelling

OverdueToggle == [turns |-> "page1", choices |-> DOMAIN OverdueFindAll]

OverdueTable == [due |-> {}, overdue |-> {}]

OverduePage ==
  [kind |-> "whole", moves |-> OverdueMoves, refusals |-> DocumentRefusals,
   findAll |-> OverdueFindAll,
   effect |-> OverdueEffect, fetch |-> Fetching, filters |-> OverdueToggle,
   handlers |-> << >>, buttons |-> OverdueTable, header |-> {}, pager |-> NoPager,
   flags |-> << >>]

-----------------------------------------------------------------------------
(* The detail pages: one row, the one named in the URL; load is no reading  *)
(* that is cancelled, and the handlers act on the URL's row.                *)

Loading == Fetching

InvoiceDetailLoad == Loading

\* Issue asks nothing; what the server answers is shown.
InvoiceDetailHandleIssue ==
  [Confirmed EXCEPT !.asks = "no", !.ok = {"show"}, !.fetch = "no", !.fail = {}]

InvoiceDetailHandleDelete ==
  [Leaving EXCEPT !.ok = {"leave"}, !.fail = {"close"}]

InvoiceDetailButtons == [draft |-> {"issue", "delete"}]

InvoiceDetailPage ==
  [kind |-> "one", moves |-> InvoiceMoves, refusals |-> DocumentRefusals,
   findAll |-> InvoiceFindAll,
   effect |-> InvoiceDetailLoad, fetch |-> InvoiceDetailLoad,
   filters |-> NoFilters,
   handlers |-> [issue |-> InvoiceDetailHandleIssue, delete |-> InvoiceDetailHandleDelete],
   buttons |-> InvoiceDetailButtons, header |-> {}, pager |-> NoPager,
   flags |-> [issue |-> "isIssuing", delete |-> "isDeleting"]]

QuoteDetailLoad == Loading

\* Answer and failure alike close the one dialog of the page, whichever it is by
\* then.
Worked(ok) == [Confirmed EXCEPT !.ok = ok, !.fetch = "no", !.fail = {"closeAny"}]

QuoteDetailHandleSend == Worked({"show", "closeAny"})

QuoteDetailHandleStatusChange == Worked({"show", "closeAny"})

QuoteDetailHandleConvert == Worked({"closeAny", "leave"})

\* The new quote's page is this page with another id.
QuoteDetailHandleCreateRevision == Worked({"closeAny", "follow"})

QuoteDetailHandleDelete == Worked({"leave"})

QuoteDetailButtons ==
  [draft |-> {"send", "delete"}, sent |-> {"accepted", "rejected", "revision_requested"},
   revision_requested |-> {"revision"}, accepted |-> {"convert"}]

\* One flag for all: isWorking.
QuoteDetailDialog ==
  [op \in {"send", "accepted", "rejected", "revision_requested", "convert",
           "revision", "delete"} |-> "isWorking"]

QuoteDetailPage ==
  [kind |-> "one", moves |-> QuoteMoves, refusals |-> DocumentRefusals,
   findAll |-> QuoteFindAll,
   effect |-> QuoteDetailLoad, fetch |-> QuoteDetailLoad,
   filters |-> NoFilters,
   handlers |->
     [send |-> QuoteDetailHandleSend, accepted |-> QuoteDetailHandleStatusChange,
      rejected |-> QuoteDetailHandleStatusChange,
      revision_requested |-> QuoteDetailHandleStatusChange,
      convert |-> QuoteDetailHandleConvert, revision |-> QuoteDetailHandleCreateRevision,
      delete |-> QuoteDetailHandleDelete],
   buttons |-> QuoteDetailButtons, header |-> {}, pager |-> NoPager,
   flags |-> QuoteDetailDialog]

\* The one detail page whose reading is cancelled.
OrderDetailEffect == [Loading EXCEPT !.cancels = TRUE]

OrderDetailPage ==
  [kind |-> "one", moves |-> OrderMoves, refusals |-> DocumentRefusals,
   findAll |-> OrderFindAll,
   effect |-> OrderDetailEffect, fetch |-> OrderDetailEffect,
   filters |-> NoFilters, handlers |-> << >>,
   buttons |-> [draft |-> {}], header |-> {}, pager |-> NoPager, flags |-> << >>]
=============================================================================
