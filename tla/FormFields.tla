------------------------------ MODULE FormFields ------------------------------
(***************************************************************************)
(* The forms of the web client: which fields each of them has, what it     *)
(* sends for them, what it insists on before it sends, and what it does    *)
(* with the answer.  All of them run on the machine of Forms.              *)
(*                                                                         *)
(* Fields that are treated alike are one field here.  The value of a field *)
(* is "" (empty), "a", "b", "old" (a partner that is not offered any more) *)
(* or "unfit" (typed, but nothing the form will send: a discount outside   *)
(* 0..100, payment methods without labels, contacts without names).  What  *)
(* becomes of an empty or unfit field in the request:                      *)
(*   "plain"     it is sent as it is                                       *)
(*   "cleared"   it is sent as null or as an empty list                    *)
(*   "left out"  it is undefined, and so not in the request                *)
(*   "own"       it is not the request's: it has calls of its own          *)
(* The lines of a document are "good", "other" (valid, another amount),    *)
(* "empty" (EMPTY_LINE), "unnamed" (an amount without a description) or    *)
(* "wrong" (a description, and a quantity that is not positive).           *)
(***************************************************************************)
EXTENDS Sequences

Pickable == {"a", "b"}

Texts == {"", "a", "b"}

Unfit == Texts \cup {"unfit"}

LineDrafts ==
  {{"empty"}, {"good"}, {"other"}, {"good", "unnamed"}, {"good", "wrong"}}

\* texts: dates, reference and object.  (A date that is left out is today's.)
EmptyDocument ==
  [partner |-> "", texts |-> "", discount |-> "", payments |-> "", lines |-> {"empty"}]

DocumentRequest ==
  [partner |-> "plain", texts |-> "left out", discount |-> "left out",
   payments |-> "cleared", lines |-> "lines"]

\* removeLine: instead of the last line there is an empty one.
LinesLeft(lines) == IF lines = {} THEN {"empty"} ELSE lines

\* There is a line to send, and none that was begun and cannot be sent.
LinesFit(lines, fit) == lines \cap fit # {} /\ "wrong" \notin lines

-----------------------------------------------------------------------------
(* InvoiceFormPage: a new invoice, or the draft of one. *)

\* The preview of the totals counts every line that has numbers.
InvoiceComputeTotals(lines) == lines \ {"empty"}

InvoiceToLineDrafts(lines) == LinesLeft(lines)

InvoiceIsValidLine == {"good", "other"}

InvoiceFormState == EmptyDocument

\* Whatever its status, the invoice in the URL fills the fields.
InvoiceFormLoad == {"draft", "issued"}

\* The customers that can be chosen, once they have arrived: the active ones.
InvoiceFormPartners == Pickable

InvoiceFormEdits(draft) == [draft EXCEPT !.lines = LinesLeft(@)]

InvoiceFormBuildInput == DocumentRequest

InvoiceFormValidate(draft) ==
  draft.partner # "" /\ LinesFit(draft.lines, InvoiceIsValidLine)

\* The calls a button makes, one after the other; then the page of the invoice.
InvoiceFormHandleSaveDraft == <<"save">>

\* (A plausible bug: what was typed is not saved before issuing.)
InvoiceFormIssueOnly == <<"issue">>

InvoiceFormHandleIssue == <<"save", "issue">>

\* For a role that may not write there is no form.
InvoiceFormGuards(mayWrite) == IF mayWrite THEN "open" ELSE "forbidden"

InvoiceFormInputs ==
  [partner |-> InvoiceFormPartners \cup {""}, texts |-> Texts, discount |-> Unfit]

InvoiceFormPayments == Unfit

InvoiceFormLines == LineDrafts

\* (A plausible bug: each button minds its own calls only.)
InvoiceFormButtonsApart == [b \in {"saveDraft", "issue"} |-> {b}]

\* Both buttons wait for the calls of either.
InvoiceFormButtons == [b \in {"saveDraft", "issue"} |-> {"saveDraft", "issue"}]

-----------------------------------------------------------------------------
(* QuoteFormPage: a new quote, or the draft of one. *)

QuoteComputeTotals(lines) == lines \ {"empty"}

QuoteToLineDrafts(lines) == LinesLeft(lines)

QuoteIsValidLine == {"good", "other"}

QuoteFormState == EmptyDocument

\* A quote that is not a draft fills nothing.
QuoteFormLoad == {"draft"}

QuoteFormPartners == Pickable

QuoteFormEdits(draft) == [draft EXCEPT !.lines = LinesLeft(@)]

QuoteFormBuildInput == DocumentRequest

QuoteFormValidate(draft) ==
  draft.partner # "" /\ LinesFit(draft.lines, QuoteIsValidLine)

QuoteFormHandleSave == <<"save">>

QuoteFormGuards(mayWrite, filled) ==
  IF ~filled THEN "notEditable" ELSE IF mayWrite THEN "open" ELSE "forbidden"

QuoteFormInputs ==
  [partner |-> QuoteFormPartners \cup {""}, texts |-> Texts, discount |-> Unfit]

QuoteFormPayments == Unfit

QuoteFormLines == LineDrafts

QuoteFormButtons == [saveDraft |-> {"saveDraft"}]

-----------------------------------------------------------------------------
(* PurchaseOrderFormPage: new orders only, for whoever gets to the page. *)

OrderComputeTotals(lines) == lines \ {"empty"}

OrderIsValidLine == {"good", "other"}

OrderFormState == EmptyDocument

OrderFormSuppliers == Pickable

OrderFormEdits(draft) == [draft EXCEPT !.lines = LinesLeft(@)]

OrderFormBuildInput == [DocumentRequest EXCEPT !.texts = "plain"]

OrderFormValidate(draft) ==
  draft.partner # "" /\ LinesFit(draft.lines, OrderIsValidLine)

OrderFormHandleCreate == <<"save">>

OrderFormInputs ==
  [partner |-> OrderFormSuppliers \cup {""}, texts |-> Texts, discount |-> Unfit]

OrderFormPayments == Unfit

OrderFormLines == LineDrafts

OrderFormButtons == [saveDraft |-> {"saveDraft"}]

-----------------------------------------------------------------------------
(* SupplierFormModal and CustomerFormModal *)

\* texts: register, NIF, address, payment terms; choice: the currency.
SupplierFormState ==
  [name |-> "", texts |-> "", choice |-> "a", contacts |-> "", categories |-> ""]

SupplierFormInputs ==
  [name |-> Texts, texts |-> Texts, choice |-> Pickable, categories |-> Texts]

\* updateContact, addContact, removeContact.
SupplierFormContacts == Unfit

\* No contacts, or no categories, are no part of the request.
SupplierToInput ==
  [name |-> "plain", texts |-> "cleared", choice |-> "plain",
   contacts |-> "left out", categories |-> "left out"]

SupplierFormHandleSubmit == <<"save">>

\* For an administrator; a new category is added to the chosen ones.
SupplierFormHandleCreateCategory == <<"category">>

\* Submitting waits for its own call; Enter in the name of a new category waits for
\* nothing, not even for the creation that has disabled the button beside it.
SupplierFormButtons == [submit |-> {"submit"}, category |-> {}]

CustomerFormState == [name |-> "", texts |-> "", contacts |-> ""]

CustomerFormInputs == [name |-> Texts, texts |-> Texts]

CustomerFormContacts == Unfit

\* (A plausible bug: empty texts are undefined instead of null.)
CustomerToInputUndefined ==
  [name |-> "plain", texts |-> "left out", contacts |-> "left out"]

CustomerToInput ==
  [name |-> "plain", texts |-> "cleared", contacts |-> "left out"]

CustomerFormHandleSubmit == <<"save">>

CustomerFormButtons == [submit |-> {"submit"}]

-----------------------------------------------------------------------------
(* CategoryFormModal and UserFormModal *)

CategoryFormState == [name |-> ""]

CategoryFormHandleSubmit == <<"save">>

CategoryFormInputs == [name |-> Texts]

\* name: the username, fixed for a user that exists; choice: role and isActive.
UserFormState == [name |-> "", texts |-> "", choice |-> "a"]

UserFormHandleSave == <<"save">>

UserFormInputs == [name |-> Texts, texts |-> Texts, choice |-> Pickable]

-----------------------------------------------------------------------------
(* CompanySettingsPage: an administrator's; the row always exists. *)

CompanyFormState == [name |-> "", texts |-> ""]

\* What was typed is replaced by the company whenever one arrives.
CompanyFormEffect == {"draft"}

\* Empty fields are not sent, so no field of the company is ever cleared.
CompanyFormHandleSave == [name |-> "left out", texts |-> "left out"]

CompanyFormInputs == [name |-> Texts, texts |-> Texts]
=============================================================================
