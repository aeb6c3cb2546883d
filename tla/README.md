# BIETMI in TLA+

Specifications of BIETMI, an ERP for a construction company: customers and
suppliers, quotes (devis), invoices (factures), purchase orders (bons de
commande), users and roles. A NestJS server (`backend/src`) keeps everything in
PostgreSQL through Prisma; a React client (`frontend/src`) calls it over HTTP and
is installable, with a service worker (`frontend/public/sw.js`).
The modules are translated from those sources, `backend/prisma/schema.prisma` and
the two workflows; `PROJECT.json` maps each definition to its lines.

Run a model with `tlc -config X.cfg M.tla`, the proofs with `tlapm M.tla`.

## The system and its parts

State lives in PostgreSQL (committed rows), in the requests being served (what
a handler has read and not written yet), in the server's clock, and in the
browser: the storage its tabs share, the variables of each tab's scripts, the
state of the mounted page, the caches. Requests run concurrently and interleave
at every `await`; no handler takes a lock except through a counter's upsert. On the
server parts interact through the tables, and the services never call each other:
`QuotesService.convertToInvoice` writes the table `invoices` directly. In the client
a page keeps what it has read until it reads again; nothing is pushed to it.

| Part | State | Operations | What makes it correct |
|---|---|---|---|
| Purchase orders (`purchase-orders/`) | `purchase_orders`, `purchase_order_counters` (one row per workspace) | create, send, reads | numbers are 1, 2, ... without a hole or a repeat, across roll-backs; requests end |
| Invoices (`invoices/`) | `invoices`, `invoice_lines`, `invoice_counters` (per workspace and year) | create, issue, update, remove, reads | gapless unique numbers per year (REQ-303); an issued invoice is immutable; amounts agree with lines |
| Quotes (`quotes/`) | `quotes`, `quote_lines`, `quote_counters` | create, send, updateStatus, update, createRevision, remove, convertToInvoice, reads | the state machine of TDD 5.8; sent content is frozen; revisions copy and come later |
| Conversion | `quotes.converted_to_invoice_id`, `invoices.quote_id` | convertToInvoice, the ON DELETE SET NULL of both links | the halves of a link agree; the invoice is the accepted quote |
| Users (`users/`) | `users` | create, update, reset and change password, remove | an active administrator remains; users with records stay; a password is replaced by who knows it |
| Authentication (`auth/`, `common/`) | JWT in the client; role, workspace, activity read live | login, me, validate, canActivate | a change of role takes effect on the next request |
| Password reset (`auth/`, `mail/`) | `password_reset_tokens` | forgotPassword, resetPassword | one use, not after expiry, also when the server stops half way |
| Partners, categories (`partners/`) | `partners`, `contacts`, `supplier_categories` | create, update, remove (soft), category create, update, remove | a partner with invoices stays active; a category in use stays |
| Company (`company/`, `hooks/useCompany.ts`, settings) | `companies` (one row per workspace), a copy in each tab's scripts | get (find or create), update; load, refresh, save | pages show what was saved last, and their workspace's letterhead |
| Session (`AuthContext`, `http.ts`, `LoginForm`, `App`) | the token in the storage, token and profile in each tab | login, logout, refresh on start and on focus, reload | a tab shows who it acts as, with a live role |
| Service worker (`sw.js`, `main.tsx`, the workflows) | the caches, the active and the arriving worker | register, install, activate, fetch; deploy, roll back | the app opens offline; a page runs its own version |
| List and detail pages (13 `*Page.tsx`) | controls, rows read, spinner, dialog, calls in flight | choose, turn, open, confirm, close, handlers | rows fit the controls; buttons act on the row shown; dialogs close for their own call |
| Forms (8) | fields, options, flags of the buttons | load, type, save, issue, cancel | what is stored is what was shown, once; nothing typed is lost |
| Password pages, amounts in words, formats | a flag, a message; none | one call each; pure functions | - |
| Bootstrap, mail, seed | - | wiring, SMTP, initial rows | - |

What is hard here is concurrency over rows that are read in one statement and
written, by id alone, in another: what was checked may no longer hold when it
is used. Then failure: a transaction of several statements that is rolled back
or cut off, and what it had already taken (a number); a form whose button makes
two calls. Then time: the year that turns inside a transaction. And in the
client the order of answers: nearly no call is cancelled, and whatever arrives
last is shown. `PROJECT.json` lists the hazards at their lines.

## The modules

| Module | Models | Of the code |
|---|---|---|
| `GaplessNumbering` | the numbering REQ-303 promises (TDD lines 43, 89, 137, 238), abstractly | - |
| `PurchaseOrders` | `PurchaseOrdersService` with its counter's row lock | purchase-orders.service.ts |
| `Documents` | the content of quotes and invoices, and what a PATCH makes of it | money.ts, the two `update` methods |
| `Invoices` | `InvoicesService`, and what `QuotesService` does to its table | invoices.service.ts |
| `Quotes` | `QuotesService`, and what `InvoicesService` does to its table | quotes.service.ts |
| `Sales` | `Quotes` and `Invoices` over one database | quotes.service.ts 431-493, schema.prisma |
| `Accounts` | `UsersService`, `JwtStrategy` with `RolesGuard`, the reset by mail of `AuthService` | users.service.ts, auth.service.ts, jwt.strategy.ts |
| `Directory` | `PartnersService`, `SupplierCategoriesService`, and the invoices that `remove` looks at | partners.service.ts, supplier-categories.service.ts |
| `Session` | the session of a browser with several tabs | AuthContext.tsx, http.ts, LoginForm.tsx, App.tsx |
| `Company` | the letterhead, on the server and in each tab; extends `Session` | company.service.ts, useCompany.ts, CompanySettingsPage.tsx |
| `ServiceWorker` | the worker between pages, caches and deployments | sw.js, main.tsx, deploy.yml, rollback.yml |
| `DocumentPages`, `PartnerPages` | what each list and detail page does, as data | the 13 pages |
| `Pages` | the machine all of them run on | the same, Table, Modal, dialogs |
| `FormFields` | what each form has, sends, insists on and does, as data | the 8 forms |
| `Forms` | the machine all of them run on | the same, partners.service.ts, invoices.service.ts |
| `MC*` | the instances TLC checks | - |
| `Client_proofs` | the theorems about `Session`, `Company` and `ServiceWorker` | - |
| `Interface_proofs` | the theorems about `Pages` and `Forms` | - |
| `PurchaseOrders_proofs` | the theorems about `GaplessNumbering` and `PurchaseOrders` | - |
| other `*_proofs` | the theorems about the module of that name | - |

### How the modules of the server correspond to the code

- `order`, `invoice`, `quote` hold the committed rows; an id is `Absent` until
  its row is inserted and `Deleted` for good after its delete. `counter` holds
  `last_number` of the committed counter rows, 0 standing for no row. `req[r]`
  is a request: which `await` it is at and what it has read. `year` is
  `new Date().getFullYear()`.
- An action is what a request does between two points where others can come
  in between. `SendRead` is `findUnique` with the checks after it, `SendWrite`
  the `update`. A refused request (404, 409, 400, 403) changes nothing and is no
  action: the guard is its negation.
- A transaction that takes a number is three actions: the read, `TakeNumber`
  (the `INSERT ... ON CONFLICT DO UPDATE ... RETURNING`, enabled when no other
  transaction holds the counter's row), and the last write with the commit. What
  it wrote is in `req[r]` until it commits.
- `Abandon` is everything that ends a request early: roll-back after an error or
  the 5 s timeout, a lost connection, a stop of the server. Committed rows stay,
  the request is gone.
- `Locked` is derived: a counter's row is locked exactly while a transaction has
  taken a number from it.
- The content of a document is a line list, a discount, a partner, and `totals`,
  which remembers what the amounts were computed from. Dates, references, the
  payment methods, contacts and the author are data no property tells apart.
- `met` (Invoices, Quotes, Accounts, Directory) is a history variable no action
  reads: the rows that two requests in flight were about at the same time.
- In `Directory` a row of a partner holds its rows of the join table. `update` has
  two reads, the partner (whatever its type: `ensureExists` does not compare it)
  and its new categories; the write connects those that still exist.
- In `Accounts`, `Admit` is `JwtStrategy.validate`, which reads the caller's row
  before every handler; a request then acts with the role it read (`by` is the
  caller, `id` the row it is about). A row stands for its username and email,
  `staff` for every role but admin, `Temporary` for a generated password with
  `mustChangePassword`. `redeemed` and `cut` are histories: the tokens that set a
  password, and those whose request stopped before its second write.

What is taken from outside `src/` (marked external): PostgreSQL under READ
COMMITTED, a row lock held to the end of the transaction and handed to its
waiters, Prisma executing one call with its nested writes atomically, unique
indexes and foreign keys refusing a statement, a UUID that is always new. In
`convertToInvoice` the insert, the update and the commit are one step: between
them the unique `quote_id` makes a second conversion wait, and the foreign key's
lock a delete of the quote.

Left out of the states: the type and the workspace of a partner never change,
nor is a partner ever deleted (`remove` only clears `isActive`, which
`validatePartner` does not read), so `CustomersOf` is a constant. The statuses
`partially_paid`, `paid` and `overdue` of an invoice are set by no code.

### How the modules of the client correspond to the code

- `Session`: `stored` is `localStorage`, `tab[t]` the state of `AuthProvider` in a
  tab. A call is in `calls` from its sending to the use of its answer; `Serve`
  is the server's part, which decides the answer at some moment in between.
  `POST /auth/login` looks at the credentials only; `GET /auth/me` is refused
  (401) to an account that is not active. Only the tab that has the focus is
  used, and `focus` is the event that refreshes; a reload drops the tab's calls.
- `Company`: `client[t]` holds the variables of `useCompany.ts` (`cached`,
  `inflight`) with the mounted page. A request says of whom its promise is still
  awaited: the page, the script once the page went, or nobody. `WithSession` and
  `Reloaded` are the steps of `Session`, with what they do to the pages: a
  session that ends unmounts them, a reload starts the scripts anew.
- `ServiceWorker`: a version is its shell (`/`) and one script with a hashed name.
  `cacheOf` is the `CACHE_VERSION` each version carries, which its author may or may
  not have bumped. `Deploy` and `ScriptsDeployed` are the two ends of the `rsync`.
  `puts` are the answers on their way into a cache, by the worker that asked.
- `Pages`: `Page[screen]` is a record with what the page does: when its effect
  runs and whether it cancels, what starts and ends the spinner, which buttons a
  row of a status has, and for each handler what it does before, after success, after
  the following reading, and on failure. The machine has the actions of the user
  (`ChooseFilter`, `Turn`, `Visit`, `Press`, `Open`, `Confirm`, `Close`), the
  server's (`Serve`, `Other`) and the arrivals (`ReadingEnds`, `Succeeds`, `OpFails`).
  `Settle` is the render after a step, with the effect it runs; `Kept` is the
  effect's cleanup, which cancels the load of the effect before.
  What is read is computed when the call is sent; read later it would only be
  fresher. `moves` says from which state to which state of a row a service takes an
  operation, and every other state it refuses. What it may refuse besides, for
  something the row does not show, is in `refusals`: the NIF, name or username of
  another row, the invoices of a partner, the use of a category, and of a user the
  caller's own account, the documents and the last administrator. Whether such a
  reason exists is left open (`Serve`); the services of the documents have none
  (`DocumentRefusals`).
- `Forms`: fields that are treated alike are one; a value says only whether it is
  there, which of two it is, and whether the form would send it. The request of
  a draft is `Sent`, `undefined` being `Absent`; the services' `update` keeps what is
  absent and `create` makes it null. A button may make two calls, `steps`.
  `PressButton` sends the first; `ServeCall` is the server's part, `CallSucceeds` and
  `CallFails` are the answers. The definitions have names of their own (`FormSpec`,
  `inFlight`), since `Interface_proofs` extends `Pages` and `Forms` together.
- Histories no action reads: `behind`, `asked` (Session), `saved`, `since`, `crossed`
  (Company), `calm` (ServiceWorker), `strayed` (Pages), `met` (Forms), `billed` (Sales:
  the invoices issued for a quote, those deleted since included).

## What the runs check

| Run | Bounds | What it shows |
|---|---|---|
| `MCPurchaseOrders` | 2 workspaces, 3 orders, 3 requests | numbers are 1..`last_number` in every state (`GaplessNumbers`), though the unique index is not modelled; `ImplementsNumbering`; `RequestsEnd` |
| `MCInvoices` | 2 workspaces, 2 invoices, 3 requests, 2 line lists, 2 years | `NumbersAreNew` also for deleted invoices and transactions over New Year, `PartnersAreLocal`; unless two requests met on an invoice it is immutable once issued, and no number of its series is missing |
| `MCInvoicesLocked` | 1 workspace, 2 invoices, 2 requests | a violation: see below |
| `MCQuotes` | 2 workspaces, 2 quotes, 2 requests, 2 line lists, 2 years | `UniqueNumbers`, `RevisionsAreLater`; unless two requests met on a quote it follows the state machine, is frozen once sent, and its revision is a copy |
| `MCSales` | 2 quotes, or 1 with 2 line lists; 2 invoices, 2 + 1 requests | `LinksAgree` in every interleaving; a customer is billed once for a quote, over conversions, removals and issues that overlap, unless two requests met on one of the invoices (`BilledOnce`); unless two requests met on the quote, none that a revision supersedes has an invoice (`SupersededNotBilledUnlessMet`), the invoice is the accepted quote (`ConvertedAsAcceptedUnlessMet`) and its amounts are those of its lines (`TotalsMatchUnlessMet`) |
| `MCAccounts` | 2 workspaces, 3 users, 2 requests; or 1 workspace, 2 passwords, 1 token | `AuthorsStay`; `ManagedByAdminsUnlessMet`: role and workspace, read before the handler, still hold when it writes, unless another request concerned the caller; `VerifiedIsReplacedUnlessMet`, `OneUseUnlessCut`, with stops between the two writes of a reset, expiry and deletion |
| `MCAccountsLastAdmin` | 1 workspace, 2 users, 2 requests | a violation: see below |
| `MCDirectory` | 2 workspaces, 2 partners, 2 categories, 2 requests | `CategoriesAreLocal`; unless two requests met on it, a category in use is not deleted (`UsedCategoriesStayUnlessMet`) and a partner with invoices not deactivated by `remove` (`InvoicedStayActiveUnlessMet`) |
| `MCPages` | each of 13 pages, 2 rows, 1 a page, 2 calls in flight | rows fit the controls when all is quiet (`QuietRowsAreChosen`), the spinner ends (`SpinnerIsAwaited`), a call is about the row it was opened for (`ActsOnOpened`), a dialog is closed by its own call (`DialogsCloseForTheirOwn`), what a page offers is refused only when the row has changed, by a service that decides by its state (`RefusedOnlyIfChanged`) |
| `MCForms` | each of 8 forms, new and editing, 1 or 2 edits, 2 presses, 1 change by others | `StoredIsShown`, `OneRowPerForm`, `IssuedIsSaved`, `TypedIsKept`, `ButtonsComeBack` |
| `MCClient` | 2 tabs, 2 users, 2 calls of `refreshMe` a tab, 1 change of an account; 6 requests about the company; 1 page, 2 versions | `ShownIsLive`, `SavedIsShown`, `OpensOffline`, `RunsWhole` |
| `MCClientCompany` | 1 tab, a user of each workspace | a violation: see below |

Why the bounds are enough to be telling: every hazard of the server needs two requests
on one document or one counter and, at most, a third that intervenes; two documents
share a series, a third comes after a number was lost; two years are one turn;
two line lists are one edit. On a page a hazard is two calls that overlap, and the
second of two rows is on the second of two pages; `FewPages = 1` makes the pager leave
numbers out where it would from 7 pages on. A form needs one change and a second
press, a deployment two versions. Ids (which are never reused), years and the bounds of
calls, presses and requests bound the executions, so a run ends in states where nothing
is left to do: deadlock is not checked (`CHECK_DEADLOCK FALSE`), except by
`MCDirectory`, where a partner can always be updated. Requests, and ids that play no
part by name, are interchangeable: `Symmetry`; not for `MCPurchaseOrders` and `MCForms`,
whose runs check liveness.

Four runs leave out executions that are of no further interest by a constraint. `Apart`
of `MCSales` looks either at two quotes or at one whose lines change; `Apart` of
`MCAccounts` at the management of users or at passwords; `Apart` of `MCClient` at the
session or the worker, which share no state, at accounts that change in one tab, and at
the company in one tab. `Astray` of `MCPages` follows an execution in which the user did
one thing before another had ended (`strayed`, for which the properties make their
exceptions) only until the calls have ended.

The type invariants of `Quotes`, `Sales`, `Pages` and `Forms` are in no run: replace the
properties of `MCQuotes`, `MCSales`, `MCPages` or `MCForms` with `TypeOK` (in `Forms`,
`FormTypeOK`) to check them. That of `Quotes` is proved; `Sales`'s is those of its two
sides. Those of the other modules are checked or proved.

Fairness. `PurchaseOrders!Fairness`: a handler that can take its next step takes
it (weak fairness on the writes: Node and PostgreSQL run whatever is runnable), and
a waiter for a counter's row lock that is released again and again gets it
(strong fairness on `TakeNumber`: PostgreSQL queues the waiters of a lock).
Nothing is assumed of `Create`, `SendRead` or `Abandon`. `Forms`: the oldest call in
flight gets on (weak fairness of `CallArrives(1)`): `fetch` resolves or rejects in the end.
Nothing is assumed of the user.

### Where the code does not do what it says

- **An issued invoice can be deleted, edited or issued again** (`MCInvoicesLocked`).
  `issue`, `update` and `remove` check the status they read and then name the row
  by id alone; `issue` waits for the counter's row in between.
- **The last active administrator is deleted** (`MCAccountsLastAdmin`). `remove`
  counts the active administrators and then deletes by id: two who delete each
  other leave none.
- **The letterhead of the other workspace** (`MCClientCompany`). `cached` in
  `useCompany.ts` lives through a logout, so who logs in next in that tab sees and
  prints the company of the one before, until a reload or a save of the settings.

The same windows show in places that have no run of their own, each of them an
exception its property names. On the server (`...UnlessMet`): a change of the discount
recomputes the amounts from lines that another update has replaced meanwhile, which
leaves amounts of other lines (`docs/pdf-template-spec.md:11`); two
`PATCH /quotes/:id/status` both find the quote sent, and a final answer is replaced
(`docs/TDD_v1.md:196`), even of a quote already converted; a purchase order sent
twice answers 200 twice; the second of two overlapping conversions breaks the
unique index and answers 500 where `tasks/plan.md:31` promises the first one's
invoice. `PATCH /quotes/:id/status` stores the status of the body
as it comes, because `main.ts` installs no `ValidationPipe`: with `StatusBodies`
set to all of `QuoteStatus`, `StateMachineUnlessMet` is violated by one request alone.
`update` of a user may deactivate or demote the last administrator, which nothing
in the code forbids. A server that stops between the two writes of
`resetPassword` leaves a link that works a second time within its hour. A category
that a supplier has just got is deleted, its link with it
(`supplier-categories.service.ts:81` refuses that), and a partner that has just
got an invoice is deactivated (`partners.service.ts:322`). `PATCH /customers/:id`
also updates a supplier, where `docs/TDD_v1.md:118` says the path enforces the type.

On the pages (`strayed`): a choice made while a handler is at work is undone by the
handler's reading, which uses the page and filter of the render its button was in, and
the load of a detail page may, where nothing cancels it, answer for the URL before
(`"moved"`); the number of the current page, pressed on customers or suppliers, leaves
the spinner turning (`"again"`); the success of one call closes whatever dialog is open,
a form with what was typed included (`"opened"`). After the last row of the last page is
deleted the page shown is empty, and with one page left its pager is hidden. In the
forms: a field that is emptied in an edit is left out of the request and keeps its old
value (`NeverEmptied`); a line with an amount and no description counts in the total
shown and is not sent; when the invoice was created but not issued, pressing again
creates another (`"unissued"`). In the client: when an older answer to `refreshMe` comes
after a newer one, or another tab changes the session under the one in front, a tab
shows another user's profile until it gets the focus again; a get and a save of the
company that cross may leave the older one cached (`crossed`); the worker caches the
answer to a script that is missing during a deployment, and its page fails until the
next version.

## What is proved

`tlapm` checks these for every value of the constants.

- `PurchaseOrders_proofs`: `NumberingHasNoHole` of the abstract numbering, which is
  directly inductive (the number assigned is one more than the last one);
  `TypeCorrect`, `OrderNumbersAreGapless`, `OrderNumbersAreUnique`,
  `OrdersImplementNumbering`.
- `Invoices_proofs`: `TypeCorrect`, `InvoiceNumbersAreUnique`, `InvoiceNumbersAreNew`,
  `InvoiceNumbersAreGapless`, `IssuedInvoicesStayLocked`, `PartnersStayLocal`.
- `Directory_proofs`: `TypeCorrect`, `CategoriesStayLocal`, `UsedCategoriesStay`,
  `InvoicedStayActive`.
- `Accounts_proofs`: `TypeCorrect`, `AuthorsAreKept`, `RowsAreManagedByAdmins`,
  `VerifiedIsReplaced`, `TokensAreUsedOnce`.
- `Quotes_proofs`: `TypeCorrect`, `QuoteNumbersAreUnique`, `RevisionsComeLater`,
  `QuotesFollowTheMachine` (when clients send only answers), `SentQuotesAreFrozen`,
  `RevisionsAreCopies`.
- `Sales_proofs`: `LinksStayPaired`, `CustomersAreBilledOnce`,
  `SupersededQuotesAreNotBilled`, `AmountsAreOfTheLines`, `InvoicesAreOfAcceptedQuotes`.
- `Client_proofs`: `SessionTypeCorrect`, `FrontTabIsLive` of the session;
  `SavesAreShown` of the company; `WorkerTypeCorrect`,
  `AppOpensOffline`, `PagesRunWhole` of the worker.
- `Interface_proofs`: `PagesInvariant`, `QuietRowsAreThoseChosen`, `SpinnersEnd`,
  `CallsActOnOpened`, `OwnDialogsClose`, `OfferedIsServed` of the 13 pages;
  `FormsInvariant`, `OneRowEach`, `TypedIsNotLost`, `IssuedWasShown`, `StoredWasShown` of
  the 8 forms.

With these every invariant and action property of the passing runs is a theorem.

The argument for purchase orders: `GaplessNumbers` is not inductive, since the step that
commits order number `n` needs `n` to be the counter's value plus one at that moment,
which was true when the transaction took it. The invariant adds what keeps it true: a
transaction that has taken a number holds one more than the committed counter, at most
one transaction per workspace has taken one (the row lock), an order being created is
not placed yet, and no two creates have one id. `UniqueNumbers` needs in addition that a
placed order's number is at most the counter. The refinement maps `CommitOrder` to
`Assign` and every other step to a stutter.

The argument for invoices (`IInv`): what a request in flight has read need not hold
when it writes, so the invariant says what still does (`RequestSound`). Its row was
inserted, in the workspace it remembers, because ids and workspaces never change;
the number it took is one more than the committed counter, because it alone holds
the counter's lock (`OneHolder`); and its row is the draft it read unless another
request met it there, which `met` remembers (`Noticed`). A row's number is at most
its counter and its partner is local (`RowSound`); with no meeting, every number
up to the counter is carried by a row (`Carried`), since only drafts are deleted.
`NumbersAreNew` and `IssuedLockedUnlessMet` are consequences of a step from a state
of `IInv`.

The argument for quotes (`IInv` of `Quotes_proofs`) is that of invoices, with two rows a
request may rely on. A create or a revision: its id is nobody else's and not placed yet
(`OneMaker`, `CreateSound`), its number is one more than the counter (`OneHolder`), and
the quote it revises is of its workspace and no younger than its series, which is why a
number that is taken after the turn of a year still comes later. A status change, an
update, a removal or a conversion: its row is in the status it read, with the lines it
read, unless `met` says otherwise (`WriteSound`, `Noticed`); the three action properties
are consequences. Amounts are those of the lines, for rows with no meeting (`RowSound`).

The argument for sales (`SInv`): `Sales_proofs` instantiates the two proof modules (`QP`,
`IP`), whose `Quotes` and `Invoices` are those of `Q` and `I` (`SameQuoteSteps`,
`SameInvoiceSteps`). Every step of `Sales` is a step of each side or leaves it alone, so
both invariants hold; what they say of a request in flight (`QuoteFacts`,
`InvoiceFacts`) gives the rest. `LinksAgree` is inductive with them: a conversion writes
both halves at once on a quote without an invoice, and whichever row is deleted takes the
half on the other side with it (`ON DELETE SET NULL`). With the links go the bills
(`BillsStand`): an issued invoice of a quote still stands and names it, so the link
leaves no other, unless it was removed after a request had met it, since `remove` takes
drafts only. `SupersededNotBilledUnlessMet` needs the status behind the links
(`Answered`): a quote with a revision was answered `revision_requested`, one with
an invoice was accepted, and an answer is final. `TotalsMatchUnlessMet` needs both
sides as well: an invoice's amounts come from its request's own lines, from the lines
the update read (which `IInv` says are still there unless `met` says otherwise), or with
a conversion from a quote whose amounts `IInv` of the quotes says are of its lines. It
asks that no two requests met on any quote, and none on the invoice itself.

The argument for users (`IInv` of `Accounts_proofs`) has the same shape: rows a
request names were inserted, in the workspace it remembers; unless it met another
request there, its caller is still an active administrator and the password it
compared is still stored (`UsersSound`). A token belongs to a user that is present
(`Owned`, by the cascade), and one that set a password is marked used, is about to
be by a request at `marking`, or was cut (`Spent`). A second request that finds it
redeemable therefore meets that first request on their user.

The argument for the directory: a request's partner is there in the workspace it
remembers, its categories are of that workspace if they still exist, and what it
checked (a category unused, a partner without invoices) holds until another
request about the same row writes, which has then met it (`Sound`).

The argument for the session (`SInv`): nothing compares an answer with the session
it was asked for, so what saves the tab in front is that it has asked again. A call is
numbered at most `sent` (`CallsFit`), and `seen = sent` means that the last one was
answered last. That call went out with the token that is stored, and the
account is no older than it was then (`FrontFits`): every change of the storage by
another tab sets `behind`, and only a refresh takes it back.

The argument for the company (`CInv`): the version of a row only grows, and every copy is
of what the row was (`InRow`). A get that is answered and still awaited was served after
the last save of its tab was (`RequestFits`), else the save's answer found it under
way, which `crossed` remembers; so neither the copy nor the page goes back.

The argument for the worker (`WInv`): the cache of the active worker and of a
precached one has a shell, because a worker takes over only after its precache and
deletes only the caches of others (`ShellsKept`); an entry for a script is that script
or the answer that it is missing (`EntriesFit`), so a cache never gives the script of
another version; between deployments the server has the script of its shell
(`ServerWhole`), and a page still calm has the server's shell (`WindowsFit`).

The argument for the pages (`PagesInv`): a call is in flight with the page and the
filter it was sent for, so the invariant relates each of them to what is chosen now.
Unless the controls moved under a dialog or a handler (`strayed`), every call wants what
is chosen, or the first page its handler is about to choose (`Wanted`): where the effect
cancels, one load is in flight at most (`OneLoad`), and the cleanup takes that one
(`KeptCalls`). Rows of another choice are therefore shown only while a reading is on its
way, or a call that will put up a message (`Fresh`); a spinner has a reading that stops
it (`Awaited`); a detail page shows and changes the row of its URL (`OfUrl`); and what
may close the dialog was sent from it (`Owned`). A call is for a status its page offers
the operation in, and in which the server has a step for it (`CallsSound`,
`DialogSound`), so when the operation is none of `refusals`, what is refused has
changed. Of the 13 pages the steps use only a few facts (`PageSound`, `HandlerSound`): a
reading after a handler ends the spinner it starts, it reads again what the handler
chooses, the effect of every list cancels, an error message is only
taken back when a reading follows, and each button has a handler and a move. These are
proved page by page from the tables, so they say which changes to a page would break it.

The argument for the forms (`FormsInv`): a call in flight is the draft its button was
pressed with, turned into a request and validated, and its button is still disabled,
except that of a new category, whose input takes Enter at any time (`CallFits`). The
buttons that wait for each other leave two calls in flight only in the form of a
supplier, at most one of them not for a new category (`Apart`). So once something was
created no other creation is on its way (`Once`), what is in flight is what is typed
unless the user typed on while a call carried the form (`Saving`, `TypedStill`), and
between the two calls of `handleIssue` the row is what was sent unless another user
changed it (`Saved`). `StoredIsShown` then follows field by field: what `Sent` leaves
out is what `Created` makes null, and what `Updated` keeps is among the fields
`NeverEmptied` names; `TypedIsKept` and `IssuedIsSaved` are consequences of a step as
well. `PagesInv` and `FormsInv` were checked on small instances before they were proved.

The only assumptions are `SuppliersAssumption`, `DocumentsAssumption`,
`QuotesAssumption`, `SalesAssumption`, `AccountsAssumption`, `DirectoryAssumption`,
`NoUserAssumption`, `BoundsAssumption`, `VersionAssumption`, `PagesAssumption` (the
pages looked at are among the 13, ids are numbers, the page size and the bounds are at
least 1) and `FormsAssumption` (the forms looked at are among the 8, bounds are
numbers), about the shape of constants. `QuotesAssumption` also says that what clients
send as a status is one of `QuoteStatus`: the column is an enum (`schema.prisma:173`),
which refuses anything else.

Only model-checked: `RequestsEnd` and `ButtonsComeBack`. Liveness under fairness rests on
`ENABLED`, which is out of the prover's reach. The type invariants of `Pages` and `Forms`
are only model-checked too: the proofs need no more of the types than `Shapes`,
`DraftFits` and `RowFits`, which hold whatever the bounds are.

## Plan

Done: every part of the server that keeps state, the session, the company, the service
worker, the list and detail pages and the forms; the theorems above. Next:

- `TypeOK` of `Pages` and `FormTypeOK` as theorems: the first needs that a page's choices
  are among what its `findAll` knows, the second that the calls not yet served and what
  was created are no more than the presses.
- Which two calls of a page may be in flight together, as an invariant of `Pages`: a flag
  outlives its dialog, so it is not only what the dialog shows that keeps calls apart.
- The router of the client as a module that composes `Session`, `Pages` and `Forms`: a
  form that was left still navigates when its answer comes (InvoiceFormPage.tsx:275).

## Not modelled

- The password pages and `ResetPasswordModal`: one call each, whose effect on the server
  is in `Accounts`, and a flag and a message nothing else reads.
- The sums of `money.ts`, the formats of `currency.interceptor.ts` and
  `numberFormat.ts`, and the words of `amountToFrenchWords.ts`: decimals and text, which
  TLC has no values for and no state depends on. `Documents` keeps what matters of the sums:
  which lines and which discount they are of.
- Rendering, printing and translations; SMTP; migrations; wiring of modules; what the
  workflows do on the host besides the files of the web client.
