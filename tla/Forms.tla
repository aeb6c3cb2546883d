-------------------------------- MODULE Forms --------------------------------
(***************************************************************************)
(* A form of the web client at work: it is filled from a row of the server *)
(* or starts empty, the user types, a button sends what was typed, and the *)
(* answer closes the form, or is lost.  Another user changes the row       *)
(* meanwhile.  FormFields says what the forms are.                         *)
(***************************************************************************)
EXTENDS FormFields, Naturals, SequencesExt

CONSTANTS
  FormKinds,   \* the forms an instance looks at
  MaxEdits,    \* how many fields the user changes (one more in a new row)
  MaxPresses,  \* how many buttons the user presses
  MaxOthers    \* how often another user changes the row

VARIABLES
  form,      \* [kind, editing, mayWrite]: the form that is mounted
  row,       \* the row edited, or the one created last: state and fields
  others,    \* how often another user has changed it
  made,      \* the rows created from this form
  page,      \* "loading", "failed", "notEditable", "forbidden", "open", "left"
  draft,     \* what the fields hold
  options,   \* the partners to choose from: "pending", "listed", "failed"
  inFlight,  \* the calls in flight
  busy,      \* the buttons whose calls have not ended: isSaving and the like
  acts,      \* history: how many fields were changed, buttons pressed
  met        \* history: what the properties make exceptions for

formVars == <<form, row, others, made, page, draft, options, inFlight, busy, acts, met>>

Documents == {"invoice", "quote", "order"}

NoRow == [state |-> "none"]

Absent == "absent"

-----------------------------------------------------------------------------
(* What the form at hand does *)

NewDraft ==
  [invoice |-> InvoiceFormState, quote |-> QuoteFormState, order |-> OrderFormState,
   supplier |-> SupplierFormState, customer |-> CustomerFormState,
   category |-> CategoryFormState, user |-> UserFormState, company |-> CompanyFormState]

ASSUME FormsAssumption ==
  FormKinds \subseteq DOMAIN NewDraft /\ {MaxEdits, MaxPresses, MaxOthers} \subseteq Nat

DocumentInputs(inputs, payments, lines) ==
  [partner |-> inputs.partner, texts |-> inputs.texts, discount |-> inputs.discount,
   payments |-> payments, lines |-> lines]

Inputs ==
  [invoice |-> DocumentInputs(InvoiceFormInputs, InvoiceFormPayments, InvoiceFormLines),
   quote |-> DocumentInputs(QuoteFormInputs, QuoteFormPayments, QuoteFormLines),
   order |-> DocumentInputs(OrderFormInputs, OrderFormPayments, OrderFormLines),
   supplier |-> [name |-> SupplierFormInputs.name, texts |-> SupplierFormInputs.texts,
                 choice |-> SupplierFormInputs.choice, contacts |-> SupplierFormContacts,
                 categories |-> SupplierFormInputs.categories],
   customer |-> [name |-> CustomerFormInputs.name, texts |-> CustomerFormInputs.texts,
                 contacts |-> CustomerFormContacts],
   category |-> CategoryFormInputs, user |-> UserFormInputs, company |-> CompanyFormInputs]

Requests ==
  [invoice |-> InvoiceFormBuildInput, quote |-> QuoteFormBuildInput,
   order |-> OrderFormBuildInput, supplier |-> SupplierToInput,
   customer |-> CustomerToInput, category |-> [name |-> "plain"],
   user |-> [name |-> "plain", texts |-> "plain", choice |-> "plain"],
   company |-> CompanyFormHandleSave]

Steps ==
  [invoice |-> [saveDraft |-> InvoiceFormHandleSaveDraft, issue |-> InvoiceFormHandleIssue],
   quote |-> [saveDraft |-> QuoteFormHandleSave], order |-> [saveDraft |-> OrderFormHandleCreate],
   supplier |-> [submit |-> SupplierFormHandleSubmit,
                 category |-> SupplierFormHandleCreateCategory],
   customer |-> [submit |-> CustomerFormHandleSubmit],
   category |-> [submit |-> CategoryFormHandleSubmit],
   user |-> [submit |-> UserFormHandleSave], company |-> [submit |-> <<"save">>]]

\* The buttons a button waits for.
WaitsFor(b) ==
  CASE form.kind = "invoice" -> InvoiceFormButtons[b]
    [] form.kind = "quote" -> QuoteFormButtons[b]
    [] form.kind = "order" -> OrderFormButtons[b]
    [] form.kind = "supplier" -> SupplierFormButtons[b]
    [] form.kind = "customer" -> CustomerFormButtons[b]
    [] OTHER -> {b}

Edited(d) ==
  CASE form.kind = "invoice" -> InvoiceFormEdits(d)
    [] form.kind = "quote" -> QuoteFormEdits(d)
    [] form.kind = "order" -> OrderFormEdits(d)
    [] OTHER -> d

\* What a form insists on: the documents' validate, the others' names.
Valid(d) ==
  CASE form.kind = "invoice" -> InvoiceFormValidate(d)
    [] form.kind = "quote" -> QuoteFormValidate(d)
    [] form.kind = "order" -> OrderFormValidate(d)
    [] form.kind = "user" -> TRUE
    [] OTHER -> d.name # ""

ValidLines ==
  CASE form.kind = "invoice" -> InvoiceIsValidLine
    [] form.kind = "quote" -> QuoteIsValidLine
    [] OTHER -> OrderIsValidLine

\* The statuses in which a row fills the fields of a page.
Fills ==
  CASE form.kind = "invoice" -> InvoiceFormLoad
    [] form.kind = "quote" -> QuoteFormLoad
    [] OTHER -> CompanyFormEffect

Filled(fields) ==
  CASE form.kind = "invoice" -> [fields EXCEPT !.lines = InvoiceToLineDrafts(@)]
    [] form.kind = "quote" -> [fields EXCEPT !.lines = QuoteToLineDrafts(@)]
    [] OTHER -> fields

\* What is there: the form, or why it is not.
Guarded(filled) ==
  IF form.kind = "quote" THEN QuoteFormGuards(form.mayWrite, filled)
  ELSE InvoiceFormGuards(form.mayWrite)

\* The pages ask the server for the row, a modal is given it by its page.
AsksForRow == form.editing /\ form.kind \in {"invoice", "quote", "company"}

\* buildInput, toInput: the request for a draft; what is undefined is absent.
Sent(d) ==
  [f \in DOMAIN d |->
     IF f = "lines" THEN d.lines \cap ValidLines
     ELSE IF d[f] \notin {"", "unfit"} THEN d[f]
     ELSE IF Requests[form.kind][f] = "left out" THEN Absent ELSE ""]

-----------------------------------------------------------------------------
(* The server *)

\* create: what is absent is null.
Created(input) ==
  [state |-> "draft",
   fields |-> [f \in DOMAIN input |-> IF f # "lines" /\ input[f] = Absent THEN "" ELSE input[f]]]

\* update: what is absent stays as it is.
Updated(input) ==
  [row EXCEPT !.fields =
     [f \in DOMAIN @ |-> IF f # "lines" /\ input[f] = Absent THEN @[f] ELSE input[f]]]

\* A document that is not a draft is not edited; a username is taken once.
Refuses(c) ==
  \/ c.steps[1] = "save" /\ form.editing /\ form.kind \in Documents /\ row.state # "draft"
  \/ c.steps[1] = "save" /\ ~form.editing /\ form.kind = "user" /\ made > 0
       /\ row.fields.name = c.input.name
  \/ c.steps[1] = "issue" /\ row.state # "draft"

ServeCall(i) ==
  LET c == inFlight[i]
      saves == c.steps[1] = "save"
  IN
  /\ c.ans = "pending"
  /\ inFlight' = [inFlight EXCEPT ![i].ans = IF Refuses(c) THEN "refused" ELSE "ok",
                                ![i].others = others]
  /\ row' = IF Refuses(c) \/ c.steps[1] = "category" THEN row
            ELSE IF ~saves THEN [row EXCEPT !.state = "issued"]
            ELSE IF form.editing THEN Updated(c.input) ELSE Created(c.input)
  /\ made' = IF saves /\ ~form.editing /\ ~Refuses(c) THEN made + 1 ELSE made
  /\ UNCHANGED <<form, others, page, draft, options, busy, acts, met>>

\* Another user edits the row, or issues (sends) the document.
OtherEdits ==
  /\ page # "left" /\ row # NoRow /\ others < MaxOthers
  /\ others' = others + 1
  /\ \/ row.state = "draft" /\ form.kind # "order"
          /\ \E f \in DOMAIN row.fields : \E v \in Inputs[form.kind][f] \ {row.fields[f]} :
               /\ IF f = "lines" THEN v \subseteq ValidLines ELSE v \in Pickable
               /\ row' = [row EXCEPT !.fields[f] = v]
     \/ form.kind \in Documents /\ row.state = "draft" /\ row' = [row EXCEPT !.state = "issued"]
  /\ UNCHANGED <<form, made, page, draft, options, inFlight, busy, acts, met>>

-----------------------------------------------------------------------------
(* The form *)

\* The row arrives and fills the fields, or it does not.
RowArrives ==
  /\ page = "loading"
  /\ page' = Guarded(row.state \in Fills)
  /\ draft' = IF row.state \in Fills THEN Filled(row.fields) ELSE draft
  /\ UNCHANGED <<form, row, others, made, options, inFlight, busy, acts, met>>

\* The settings show the fields as they were: empty ones at first.
RowFails ==
  /\ page = "loading"
  /\ page' = IF form.kind = "company" THEN "open" ELSE "failed"
  /\ UNCHANGED <<form, row, others, made, draft, options, inFlight, busy, acts, met>>

OptionsArrive ==
  /\ options = "pending" /\ page # "left"
  /\ options' \in {"listed", "failed"}
  /\ UNCHANGED <<form, row, others, made, page, draft, inFlight, busy, acts, met>>

\* A call that carries what was typed is in flight.
Saving == \E i \in DOMAIN inFlight : inFlight[i].button # "category"

\* Fields stay enabled while a call is in flight.
Type(f, v) ==
  /\ page = "open" /\ acts.edits < MaxEdits + (IF form.editing THEN 0 ELSE 1)
  /\ v \in Inputs[form.kind][f] /\ v # draft[f]
  /\ f = "partner" => options = "listed" \/ (options = "failed" /\ v = "")
  /\ form.kind = "user" /\ form.editing => f # "name"
  /\ draft' = Edited([draft EXCEPT ![f] = v])
  /\ acts' = [acts EXCEPT !.edits = @ + 1]
  /\ met' = IF Saving THEN met \cup {"typed"} ELSE met
  /\ UNCHANGED <<form, row, others, made, page, options, inFlight, busy>>

\* A button; what does not validate is not sent.
PressButton(b) ==
  /\ page = "open" /\ acts.presses < MaxPresses
  /\ acts' = [acts EXCEPT !.presses = @ + 1]
  /\ WaitsFor(b) \cap busy = {}
  /\ Steps[form.kind][b][1] = "category" \/ Valid(draft)
  /\ busy' = busy \cup {b}
  /\ inFlight' = Append(inFlight, [button |-> b, steps |-> Steps[form.kind][b], typed |-> draft,
                                   input |-> Sent(draft), ans |-> "pending", others |-> others])
  /\ met' = IF made > 0 /\ met \cap {"lost", "unissued"} = {} THEN met \cup {"again"} ELSE met
  /\ UNCHANGED <<form, row, others, made, page, draft, options>>

\* (A plausible bug: no finally.)
ReleasedNever(b) == busy

\* finally: the button can be pressed again, also if another call of it is in flight.
Released(b) == busy \ {b}

\* A call has succeeded: the next one of its button, or the end.  A page that
\* was left meanwhile is not there to be changed.
CallSucceeds(i) ==
  LET c == inFlight[i]
      last == Len(c.steps) = 1
  IN
  /\ c.ans = "ok"
  /\ inFlight' = IF last THEN RemoveAt(inFlight, i)
                 ELSE [inFlight EXCEPT ![i].steps = Tail(@), ![i].ans = "pending"]
  /\ busy' = IF last THEN Released(c.button) ELSE busy
  /\ draft' = IF c.steps[1] = "category" /\ page = "open"
                THEN [draft EXCEPT !.categories = "b"] ELSE draft
  /\ page' = IF ~last \/ page # "open" \/ c.steps[1] = "category" THEN page
             ELSE IF form.kind = "company" THEN "loading"
             ELSE IF form.kind = "user" /\ ~form.editing THEN "open" ELSE "left"
  /\ met' = IF draft' # draft /\ Saving THEN met \cup {"typed"} ELSE met
  /\ UNCHANGED <<form, row, others, made, options, acts>>

\* (A plausible bug: the page is left although the call failed.)
AfterFailureLeaves(c) == "left"

\* The message of the failure is shown in the form.
AfterFailure(c) == page

\* It was refused, or the request or its answer was lost.
CallFails(i) ==
  LET c == inFlight[i] IN
  /\ inFlight' = RemoveAt(inFlight, i)
  /\ busy' = Released(c.button)
  /\ page' = AfterFailure(c)
  /\ met' = IF c.steps[1] = "issue" THEN met \cup {"unissued"}
            ELSE IF c.ans = "ok" THEN met \cup {"lost"} ELSE met
  /\ UNCHANGED <<form, row, others, made, draft, options, acts>>

CallArrives(i) == i \in DOMAIN inFlight /\ (ServeCall(i) \/ CallSucceeds(i) \/ CallFails(i))

\* Cancel, Escape, another page.
Leave ==
  /\ page \in {"open", "failed", "notEditable", "forbidden"}
  /\ page' = "left"
  /\ UNCHANGED <<form, row, others, made, draft, options, inFlight, busy, acts, met>>

-----------------------------------------------------------------------------
(* The specification *)

\* A row that has everything, and one that has only what it needs.
RowsToEdit(kind) ==
  LET full == [f \in DOMAIN NewDraft[kind] |-> IF f = "lines" THEN {"good"} ELSE "a"]
      bare == [f \in DOMAIN full |->
                 IF f \in {"lines", "name", "choice"} THEN full[f]
                 ELSE IF f = "partner" THEN "old" ELSE ""]
  IN [state : {"draft"}, fields : {full, bare}]
       \cup (IF kind \in Documents THEN [state : {"issued"}, fields : {full}] ELSE {})

FormInit ==
  /\ form \in [kind : FormKinds, editing : BOOLEAN, mayWrite : BOOLEAN]
  /\ form.kind = "order" => ~form.editing /\ form.mayWrite
  /\ form.kind = "company" => form.editing
  /\ form.kind \notin Documents => form.mayWrite
  /\ row \in IF form.editing THEN RowsToEdit(form.kind) ELSE {NoRow}
  /\ others = 0 /\ made = 0 /\ acts = [edits |-> 0, presses |-> 0]
  /\ page = IF AsksForRow THEN "loading" ELSE Guarded(TRUE)
  /\ draft = IF form.editing /\ ~AsksForRow THEN row.fields ELSE NewDraft[form.kind]
  /\ options = IF form.kind \in Documents THEN "pending" ELSE "listed"
  /\ inFlight = << >> /\ busy = {} /\ met = {}

FormNext ==
  \/ RowArrives \/ RowFails \/ OptionsArrive \/ OtherEdits \/ Leave
  \/ \E f \in DOMAIN draft : \E v \in Inputs[form.kind][f] : Type(f, v)
  \/ \E b \in DOMAIN Steps[form.kind] : PressButton(b)
  \/ \E i \in DOMAIN inFlight : CallArrives(i)

\* fetch resolves or rejects in the end, whatever becomes of the form.
FormSpec == FormInit /\ [][FormNext]_formVars /\ WF_formVars(CallArrives(1))

-----------------------------------------------------------------------------
(* Properties *)

\* The shapes of the variables.
FormTypeOK ==
  /\ page \in {"loading", "failed", "notEditable", "forbidden", "open", "left"}
  /\ DOMAIN draft = DOMAIN NewDraft[form.kind]
  /\ \A f \in DOMAIN draft : draft[f] \in Inputs[form.kind][f] \cup {NewDraft[form.kind][f]}
                               \/ (f = "partner" /\ draft[f] = "old")
  /\ row # NoRow => /\ row.state \in {"draft", "issued"}
                    /\ \A f \in DOMAIN draft :
                         IF f = "lines" THEN row.fields.lines \subseteq ValidLines
                         ELSE row.fields[f] \in Texts \cup {"old"}
  /\ made \in 0..MaxPresses /\ others \in 0..MaxOthers
  /\ busy \subseteq DOMAIN Steps[form.kind]
  /\ Len(inFlight) <= MaxPresses

\* The fields of a form whose emptying is not saved: undefined in an update.
NeverEmptied ==
  [invoice |-> {"texts", "discount"}, quote |-> {"texts", "discount"}, order |-> {},
   supplier |-> {"contacts", "categories"}, customer |-> {"contacts"}, category |-> {},
   user |-> {}, company |-> {"texts"}]

\* What a field shows, as it should be stored.
Shows(f, v) ==
  IF f # "lines" THEN IF v = "unfit" THEN "" ELSE v
  ELSE CASE form.kind = "invoice" -> InvoiceComputeTotals(v)
         [] form.kind = "quote" -> QuoteComputeTotals(v)
         [] OTHER -> OrderComputeTotals(v)

\* What the server stores is what the form showed when the button was pressed,
\* the lines its totals were computed of included.  Not so for fields emptied in
\* an edit that leaves them out of the request, and for a line with an amount
\* and no description, which the totals count and the request drops.
StoredIsShown ==
  [][\A i \in DOMAIN inFlight :
       ServeCall(i) /\ ~Refuses(inFlight[i]) /\ inFlight[i].steps[1] = "save" =>
         \A f \in DOMAIN draft :
           LET v == inFlight[i].typed[f]
               unnamed == f = "lines" /\ "unnamed" \in v
               emptied == f \in NeverEmptied[form.kind] /\ form.editing /\ Shows(f, v) = ""
           IN row'.fields[f] = Shows(f, v) \/ unnamed \/ emptied]_formVars

\* A form for something new creates it once, however often the user presses;
\* unless an answer was lost, the invoice was created but not issued (pressing
\* again creates another), or the form stays open for more.
OneRowPerForm ==
  made > 1 => met \cap {"lost", "unissued", "again"} # {}

\* The invoice that is issued from the form is the one that was on the screen
\* when the button was pressed, unless another user got between the two calls.
IssuedIsSaved ==
  [][\A i \in DOMAIN inFlight :
       ServeCall(i) /\ row'.state = "issued" /\ row.state = "draft" /\ others = inFlight[i].others
         => \A f \in DOMAIN draft : LET sent == inFlight[i].input[f] IN
              (f # "lines" /\ sent = Absent) \/ sent = row'.fields[f]]_formVars

\* What was typed goes away with the form only when the user leaves it or when
\* it has been saved; unless the user typed on after pressing the button.
TypedIsKept ==
  [][page = "open" /\ page' # "open" /\ "typed" \notin met =>
       Leave \/ \E i \in DOMAIN inFlight : CallSucceeds(i) /\ inFlight[i].typed = draft]_formVars

\* Every button that was pressed can be pressed again once its calls have ended,
\* and they end.
ButtonsComeBack ==
  \A b \in {"saveDraft", "issue", "submit", "category"} : b \in busy ~> b \notin busy
=============================================================================
