------------------------------ MODULE Directory ------------------------------
(***************************************************************************)
(* Customers and suppliers, one table (PartnersService), and the categories*)
(* of suppliers (SupplierCategoriesService), with what InvoicesService and *)
(* QuotesService do that PartnersService reads: invoices of a partner.     *)
(*                                                                         *)
(* HTTP requests run concurrently; each is a process of Requests, and an   *)
(* action is what it does between two awaits.  A handler checks the rows   *)
(* it needs in one call and names them by id alone in the next.            *)
(*                                                                         *)
(* External (PostgreSQL under READ COMMITTED, Prisma): a call is atomic    *)
(* with its nested writes; connecting a row that is gone refuses the call, *)
(* a set of connections leaves it out; the rows of the join table go with  *)
(* the category (ON DELETE CASCADE).                                       *)
(***************************************************************************)
EXTENDS Naturals, FiniteSets

CONSTANTS
  Workspaces,    \* production, sandbox
  PartnerIds,    \* the rows of table partners an execution may use
  CategoryIds,   \* the rows of supplier_categories; a row stands for its name
  Requests       \* requests in flight at the same time: bounds the model

ASSUME DirectoryAssumption == PartnerIds \cap CategoryIds = {}

VARIABLES
  partner,       \* partner[p]: the committed row of table partners, with its
                 \* rows of the join table
  category,      \* category[c]: the committed row of supplier_categories
  invoiced,      \* the partners with invoices
  req,           \* req[r]: where request r is and what it remembers
  met            \* history: the partners and categories that two requests in
                 \* flight were about at the same time; no action reads it

vars == <<partner, category, invoiced, req, met>>

-----------------------------------------------------------------------------
(* Types *)

Absent == [status |-> "absent"]     \* the id is not used yet

Deleted == [status |-> "deleted"]   \* the row was deleted; ids are not reused

Types == {"customer", "supplier"}

PartnerRow ==
  [status : {"present"}, workspace : Workspaces, type : Types,
   isActive : BOOLEAN, categories : SUBSET CategoryIds]

CategoryRow == [status : {"present"}, workspace : Workspaces]

Idle == [at |-> "idle"]

\* A request has found, or will insert, the row id; categories are those it
\* has validated.
Working ==
  [at : {"creating", "finding", "updating", "replacing", "deactivating",
         "deleting", "invoicing"},
   id : PartnerIds \cup CategoryIds, workspace : Workspaces, type : Types,
   categories : SUBSET CategoryIds]

TypeOK ==
  /\ partner \in [PartnerIds -> PartnerRow \cup {Absent}]
  /\ category \in [CategoryIds -> CategoryRow \cup {Absent, Deleted}]
  /\ invoiced \in SUBSET PartnerIds
  /\ req \in [Requests -> {Idle} \cup Working]
  /\ met \in SUBSET (PartnerIds \cup CategoryIds)

-----------------------------------------------------------------------------
(* State predicates *)

\* findUnique({ id, workspace }) finds the partner, or the category.
FindsPartner(p, w) == partner[p].status = "present" /\ partner[p].workspace = w

FindsCategory(c, w) == category[c].status = "present" /\ category[c].workspace = w

HasCategory(p, c) == partner[p].status = "present" /\ c \in partner[p].categories

\* (A plausible bug: inactive partners are not counted.)
InUseByActive(c) == \E p \in PartnerIds : HasCategory(p, c) /\ partner[p].isActive

\* _count of the partners of a category
InUse(c) == \E p \in PartnerIds : HasCategory(p, c)

\* (A plausible bug: they are looked up by id alone.)
KnownCategories(categories, w) == \A c \in categories : category[c].status = "present"

\* ensureCategoryWorkspace
ValidCategories(categories, w) == \A c \in categories : FindsCategory(c, w)

\* Those of a set of categories that a write can still connect.
Connectable(categories) == {c \in categories : category[c].status = "present"}

\* The rows request r is about.
About(r) == IF req[r] = Idle THEN {} ELSE {req[r].id} \cup req[r].categories

\* The id of a new row: no other insert has it.
NewId(p) == partner[p] = Absent /\ \A r \in Requests : p \notin About(r)

-----------------------------------------------------------------------------
(* Plausible bugs, each of the shape of an action below.                    *)

\* Deactivating a partner without a look at its invoices.
RemoveFindAny(r, p, w) ==
  /\ req[r] = Idle
  /\ FindsPartner(p, w)
  /\ req' = [req EXCEPT ![r] =
       [at |-> "deactivating", id |-> p, workspace |-> w,
        type |-> partner[p].type, categories |-> {}]]
  /\ UNCHANGED <<partner, category, invoiced>>

-----------------------------------------------------------------------------
Init ==
  /\ partner = [p \in PartnerIds |-> Absent]
  /\ category = [c \in CategoryIds |-> Absent]
  /\ invoiced = {}
  /\ req = [r \in Requests |-> Idle]
  /\ met = {}

\* PartnersService.create: the categories of the body are validated ...
CreateFind(r, p, w, type, categories) ==
  /\ req[r] = Idle
  /\ NewId(p)
  /\ ValidCategories(categories, w)
  /\ req' = [req EXCEPT ![r] =
       [at |-> "creating", id |-> p, workspace |-> w, type |-> type,
        categories |-> categories]]
  /\ UNCHANGED <<partner, category, invoiced>>

\* ... and the partner is inserted, connected to all of them.
CreateWrite(r) ==
  /\ req[r].at = "creating"
  /\ req[r].categories = Connectable(req[r].categories)
  /\ partner' = [partner EXCEPT ![req[r].id] =
       [status |-> "present", workspace |-> req[r].workspace,
        type |-> req[r].type, isActive |-> TRUE,
        categories |-> req[r].categories]]
  /\ req' = [req EXCEPT ![r] = Idle]
  /\ UNCHANGED <<category, invoiced>>

\* PartnersService.update: ensureExists, which does not look at the type;
UpdateFind(r, p, w) ==
  /\ req[r] = Idle
  /\ FindsPartner(p, w)
  /\ req' = [req EXCEPT ![r] =
       [at |-> "finding", id |-> p, workspace |-> w, type |-> partner[p].type,
        categories |-> {}]]
  /\ UNCHANGED <<partner, category, invoiced>>

\* the categories of the body, if it has any, are validated;
UpdateCheck(r, given, categories) ==
  /\ req[r].at = "finding"
  /\ given \/ categories = {}
  /\ ValidCategories(categories, req[r].workspace)
  /\ req' = [req EXCEPT
       ![r].at = IF given THEN "replacing" ELSE "updating",
       ![r].categories = categories]
  /\ UNCHANGED <<partner, category, invoiced>>

\* isActive is written if the body has it, and the categories replaced.
UpdateWrite(r, isActive) ==
  /\ req[r].at \in {"updating", "replacing"}
  /\ partner' = [partner EXCEPT
       ![req[r].id].isActive = isActive,
       ![req[r].id].categories =
         IF req[r].at = "replacing" THEN Connectable(req[r].categories) ELSE @]
  /\ req' = [req EXCEPT ![r] = Idle]
  /\ UNCHANGED <<category, invoiced>>

\* PartnersService.remove: a partner without invoices is deactivated.
RemoveFind(r, p, w) ==
  /\ req[r] = Idle
  /\ FindsPartner(p, w)
  /\ p \notin invoiced
  /\ req' = [req EXCEPT ![r] =
       [at |-> "deactivating", id |-> p, workspace |-> w,
        type |-> partner[p].type, categories |-> {}]]
  /\ UNCHANGED <<partner, category, invoiced>>

RemoveWrite(r) ==
  /\ req[r].at = "deactivating"
  /\ partner' = [partner EXCEPT ![req[r].id].isActive = FALSE]
  /\ req' = [req EXCEPT ![r] = Idle]
  /\ UNCHANGED <<category, invoiced>>

\* SupplierCategoriesService.create (update changes the name, which the row
\* stands for).
CategoryCreate(c, w) ==
  /\ category[c] = Absent
  /\ category' = [category EXCEPT ![c] = [status |-> "present", workspace |-> w]]
  /\ UNCHANGED <<partner, invoiced, req>>

\* SupplierCategoriesService.remove: a category without partners is deleted.
CategoryRemoveFind(r, c, w) ==
  /\ req[r] = Idle
  /\ FindsCategory(c, w)
  /\ ~InUse(c)
  /\ req' = [req EXCEPT ![r] =
       [at |-> "deleting", id |-> c, workspace |-> w, type |-> "supplier",
        categories |-> {}]]
  /\ UNCHANGED <<partner, category, invoiced>>

CategoryRemoveWrite(r) ==
  /\ req[r].at = "deleting"
  /\ category[req[r].id].status = "present"
  /\ category' = [category EXCEPT ![req[r].id] = Deleted]
  /\ partner' = [p \in PartnerIds |->
       IF partner[p].status = "present"
       THEN [partner[p] EXCEPT !.categories = @ \ {req[r].id}]
       ELSE partner[p]]
  /\ req' = [req EXCEPT ![r] = Idle]
  /\ UNCHANGED invoiced

\* InvoicesService.create and update, QuotesService.convertToInvoice: the
\* customer of an invoice is read, active or not ...
InvoiceFind(r, p, w) ==
  /\ req[r] = Idle
  /\ FindsPartner(p, w)
  /\ partner[p].type = "customer"
  /\ req' = [req EXCEPT ![r] =
       [at |-> "invoicing", id |-> p, workspace |-> w, type |-> "customer",
        categories |-> {}]]
  /\ UNCHANGED <<partner, category, invoiced>>

\* ... and an invoice of it is written.
InvoiceWrite(r) ==
  /\ req[r].at = "invoicing"
  /\ invoiced' = invoiced \cup {req[r].id}
  /\ req' = [req EXCEPT ![r] = Idle]
  /\ UNCHANGED <<partner, category>>

\* The last invoice of a partner, a draft, is deleted or given to another.
InvoiceGone(p) ==
  /\ p \in invoiced
  /\ invoiced' = invoiced \ {p}
  /\ UNCHANGED <<partner, category, req>>

\* An operation is refused or throws, or the server stops before its write.
Abandon(r) ==
  /\ req[r] # Idle
  /\ req' = [req EXCEPT ![r] = Idle]
  /\ UNCHANGED <<partner, category, invoiced>>

PartnerStep(r) ==
  \/ \E p \in PartnerIds, w \in Workspaces :
       \/ \E type \in Types, categories \in SUBSET CategoryIds :
            CreateFind(r, p, w, type, categories)
       \/ UpdateFind(r, p, w)
       \/ RemoveFind(r, p, w)
       \/ InvoiceFind(r, p, w)
  \/ CreateWrite(r)
  \/ \E given \in BOOLEAN, categories \in SUBSET CategoryIds :
       UpdateCheck(r, given, categories)
  \/ \E isActive \in BOOLEAN : UpdateWrite(r, isActive)
  \/ RemoveWrite(r)
  \/ InvoiceWrite(r)

CategoryStep(r) ==
  \/ \E c \in CategoryIds, w \in Workspaces : CategoryRemoveFind(r, c, w)
  \/ CategoryRemoveWrite(r)

\* The rows that two requests in flight are about.
Meeting ==
  {i \in PartnerIds \cup CategoryIds :
     \E r, s \in Requests : r # s /\ i \in About(r) \cap About(s)}

Remember == met' = met \cup Meeting'

Next ==
  /\ \/ \E r \in Requests : PartnerStep(r) \/ CategoryStep(r) \/ Abandon(r)
     \/ \E c \in CategoryIds, w \in Workspaces : CategoryCreate(c, w)
     \/ \E p \in PartnerIds : InvoiceGone(p)
  /\ Remember

Spec == Init /\ [][Next]_vars

-----------------------------------------------------------------------------
(* Properties of every execution *)

\* A partner has only categories that exist, of its own workspace
\* (partners.service.ts:95), however deletes and replacements overlap.
CategoriesAreLocal ==
  \A p \in PartnerIds :
    partner[p].status = "present" =>
      \A c \in partner[p].categories : FindsCategory(c, partner[p].workspace)

\* A delete never takes a category from a partner that has it
\* (supplier-categories.service.ts:81) -- unless another request in flight was
\* about the category.
UsedCategoriesStayUnlessMet ==
  [][\A c \in CategoryIds :
       /\ category'[c] # category[c]
       /\ \E p \in PartnerIds : HasCategory(p, c)
       => c \in met]_vars

\* remove never deactivates a partner with invoices (partners.service.ts:322)
\* -- unless another request in flight was about the partner.
InvoicedStayActiveUnlessMet ==
  [][\A r \in Requests :
       /\ req[r] # Idle
       /\ req[r].at = "deactivating"
       /\ partner'[req[r].id] # partner[req[r].id]
       => req[r].id \notin invoiced \/ req[r].id \in met]_vars
=============================================================================
