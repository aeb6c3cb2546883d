-------------------------- MODULE Interface_proofs --------------------------
(***************************************************************************)
(* Proofs about the pages and the forms of the web client, for any rows,   *)
(* page sizes, users and bounds.                                           *)
(* Pages: what a page shows once its calls have ended is what it has       *)
(* chosen, what it offers and closes is its own.                           *)
(* Forms: a form creates one row, what is stored and issued is what was    *)
(* shown, and what was typed is not lost.                                  *)
(***************************************************************************)
EXTENDS Pages, Forms, TLAPS

-----------------------------------------------------------------------------
(* Sequences                                                                *)

\* A sequence, of whatever it holds.
Sequence(s) == s \in Seq(ToSet(s))

\* What s holds, with x put behind.
LEMMA Appended ==
  ASSUME NEW s, Sequence(s), NEW x
  PROVE  /\ Sequence(Append(s, x))
         /\ ToSet(Append(s, x)) = ToSet(s) \cup {x}
         /\ DOMAIN Append(s, x) = DOMAIN s \cup {Len(s) + 1}
         /\ Append(s, x)[Len(s) + 1] = x
         /\ \A i \in DOMAIN s : Append(s, x)[i] = s[i]
<1> DEFINE T == ToSet(s) \cup {x}
           t == Append(s, x)
<1>1. s \in Seq(T)
  BY DEF Sequence
<1>2. t \in Seq(T) /\ Len(t) = Len(s) + 1
  BY <1>1
<1>3. DOMAIN s = 1 .. Len(s) /\ DOMAIN t = 1 .. Len(s) + 1 /\ Len(s) \in Nat
  BY <1>1, <1>2
<1>4. \A i \in DOMAIN s : t[i] = s[i]
  BY <1>1, <1>3
<1>5. t[Len(s) + 1] = x
  BY <1>1, <1>3
<1>6. ToSet(t) = T
  <2>1. ToSet(t) \subseteq T
    BY <1>3, <1>4, <1>5 DEF ToSet
  <2>2. x \in ToSet(t)
    BY <1>3, <1>5 DEF ToSet
  <2>3. ToSet(s) \subseteq ToSet(t)
    BY <1>3, <1>4 DEF ToSet
  <2> QED
    BY <2>1, <2>2, <2>3
<1>7. DOMAIN t = DOMAIN s \cup {Len(s) + 1}
  BY <1>3
<1> QED
  BY <1>2, <1>4, <1>5, <1>6, <1>7 DEF Sequence

\* What is left of s without its i-th element.
LEMMA Removed ==
  ASSUME NEW s, Sequence(s), NEW i \in DOMAIN s
  PROVE  /\ Sequence(RemoveAt(s, i))
         /\ Len(RemoveAt(s, i)) = Len(s) - 1
         /\ \A j \in DOMAIN RemoveAt(s, i) :
              RemoveAt(s, i)[j] = IF j < i THEN s[j] ELSE s[j + 1]
         /\ \A j \in DOMAIN RemoveAt(s, i) :
              \E k \in DOMAIN s \ {i} : RemoveAt(s, i)[j] = s[k]
         /\ \A k \in DOMAIN s \ {i} :
              \E j \in DOMAIN RemoveAt(s, i) : RemoveAt(s, i)[j] = s[k]
         /\ \A j, k \in DOMAIN RemoveAt(s, i) : j # k =>
              \E m, n \in DOMAIN s :
                m # n /\ RemoveAt(s, i)[j] = s[m] /\ RemoveAt(s, i)[k] = s[n]
<1> DEFINE T == ToSet(s)
           t == RemoveAt(s, i)
<1>1. s \in Seq(T)
  BY DEF Sequence
<1>2. DOMAIN s = 1 .. Len(s) /\ Len(s) \in Nat /\ i \in 1 .. Len(s)
  BY <1>1
<1>3. t \in Seq(T) /\ Len(t) = Len(s) - 1
  BY <1>1, <1>2 DEF RemoveAt
<1>4. DOMAIN t = 1 .. Len(s) - 1
  BY <1>3
<1>5. \A j \in DOMAIN t : t[j] = IF j < i THEN s[j] ELSE s[j + 1]
  <2> DEFINE a == SubSeq(s, 1, i - 1)
             b == SubSeq(s, i + 1, Len(s))
  <2>1. a \in Seq(T) /\ Len(a) = i - 1 /\ \A j \in 1 .. i - 1 : a[j] = s[j]
    BY <1>1, <1>2
  <2>2. /\ b \in Seq(T) /\ Len(b) = Len(s) - i
        /\ \A j \in 1 .. Len(s) - i : b[j] = s[j + i]
    BY <1>1, <1>2
  <2>3. t = a \o b
    BY DEF RemoveAt
  <2> HIDE DEF a, b, t
  <2>4. \A j \in 1 .. Len(s) - 1 : t[j] = IF j <= Len(a) THEN a[j] ELSE b[j - Len(a)]
    BY <1>2, <2>1, <2>2, <2>3
  <2> TAKE j \in DOMAIN t
  <2>5. CASE j < i
    BY <1>2, <1>4, <2>1, <2>4, <2>5
  <2>6. CASE ~(j < i)
    <3>1. j \in 1 .. Len(s) - 1 /\ j - Len(a) \in 1 .. Len(s) - i
      BY <1>2, <1>4, <2>1, <2>6
    <3>2. t[j] = b[j - Len(a)] /\ b[j - Len(a)] = s[j - Len(a) + i]
      BY <1>2, <2>1, <2>2, <2>4, <2>6, <3>1
    <3>3. j - Len(a) + i = j + 1
      BY <1>2, <2>1, <3>1
    <3> QED
      BY <2>6, <3>2, <3>3
  <2> QED
    BY <2>5, <2>6
<1>6. \A j \in DOMAIN t : \E k \in DOMAIN s \ {i} : t[j] = s[k]
  <2> TAKE j \in DOMAIN t
  <2>1. CASE j < i
    BY <1>2, <1>4, <1>5, <2>1
  <2>2. CASE ~(j < i)
    BY <1>2, <1>4, <1>5, <2>2
  <2> QED
    BY <2>1, <2>2
<1>7. \A k \in DOMAIN s \ {i} : \E j \in DOMAIN t : t[j] = s[k]
  <2> TAKE k \in DOMAIN s \ {i}
  <2>1. CASE k < i
    BY <1>2, <1>4, <1>5, <2>1
  <2>2. CASE ~(k < i)
    <3>1. k - 1 \in DOMAIN t /\ t[k - 1] = s[k]
      BY <1>2, <1>4, <1>5, <2>2
    <3> QED
      BY <3>1
  <2> QED
    BY <2>1, <2>2
<1>8. \A j, k \in DOMAIN t : j # k =>
        \E m, n \in DOMAIN s : m # n /\ t[j] = s[m] /\ t[k] = s[n]
  <2> TAKE j, k \in DOMAIN t
  <2> DEFINE At(n) == IF n < i THEN n ELSE n + 1
  <2>1. /\ At(j) \in DOMAIN s /\ At(k) \in DOMAIN s
        /\ t[j] = s[At(j)] /\ t[k] = s[At(k)] /\ (j # k => At(j) # At(k))
    BY <1>2, <1>4, <1>5
  <2> QED
    BY <2>1
<1>9. t \in Seq(ToSet(t))
  BY <1>3 DEF ToSet
<1> QED
  BY <1>3, <1>5, <1>6, <1>7, <1>8, <1>9 DEF Sequence

\* A sequence of anything is one.
LEMMA OfItself ==
  ASSUME NEW S, NEW t \in Seq(S)
  PROVE  Sequence(t)
<1>1. \A j \in 1 .. Len(t) : t[j] \in ToSet(t)
  BY DEF ToSet
<1>2. t = [j \in 1 .. Len(t) |-> t[j]] /\ Len(t) \in Nat
  OBVIOUS
<1> QED
  BY <1>1, <1>2 DEF Sequence

\* s with another element at i.
LEMMA Replaced ==
  ASSUME NEW s, Sequence(s), NEW i \in DOMAIN s, NEW d, NEW t, t = [s EXCEPT ![i] = d]
  PROVE  /\ Sequence(t) /\ DOMAIN t = DOMAIN s /\ Len(t) = Len(s)
         /\ t[i] = d /\ \A j \in DOMAIN s \ {i} : t[j] = s[j]
         /\ \A e \in ToSet(t) : e = d \/ \E j \in DOMAIN s \ {i} : e = s[j]
<1>1. DOMAIN t = DOMAIN s /\ t[i] = d /\ \A j \in DOMAIN s \ {i} : t[j] = s[j]
  OBVIOUS
<1>2. s \in Seq(ToSet(s)) /\ DOMAIN s = 1 .. Len(s)
  BY DEF Sequence
<1>3. s \in Seq(ToSet(s) \cup {d})
  BY <1>2
<1>4. t \in Seq(ToSet(s) \cup {d}) /\ Len(t) = Len(s)
  BY <1>2, <1>3
<1>5. Sequence(t)
  BY <1>4, OfItself
<1> QED
  BY <1>1, <1>4, <1>5 DEF ToSet

-----------------------------------------------------------------------------
(* The pages of the client, as the proofs use them                          *)

\* What the proofs use of a handler: what it reads again is what it chooses; it
\* only clears the message when a reading or a new message follows; and so on.
HandlerSound(h, op, kind) ==
  LET effs == h.start \cup h.ok \cup h.last \cup h.fail
  IN /\ h.last \subseteq {"first", "closeForm"}
     /\ "clear" \notin h.ok /\ "clear" \notin h.fail
     /\ "clear" \in h.start => h.fetch # "no" /\ "error" \in h.fail
     /\ h.fetch = "same" => "first" \notin h.ok /\ "page1" \notin h.ok /\ "follow" \notin h.ok
     /\ h.fetch = "page1" => "first" \notin h.ok /\ "page1" \in h.ok
     /\ h.fetch = "first" =>
          \/ "first" \in h.ok
          \/ "first" \in h.last /\ "page1" \notin h.ok /\ "follow" \notin h.ok
     /\ h.fetch \in {"no", "same", "page1", "first"}
     /\ "show" \in h.ok => op # "create" /\ op # "revision"
     /\ kind = "one" => "ready" \notin effs /\ "clear" \notin effs

\* And of a page: loading ends, and every button has a handler and a move.
PageSound(p) ==
  /\ p.effect.ends
  /\ p.fetch.starts => p.fetch.ends
  /\ p.kind = "one" => p.header = {} /\ p.effect.starts /\ p.fetch.starts
  /\ p.kind # "one" => p.effect.cancels
  /\ \A op \in DOMAIN p.handlers : HandlerSound(p.handlers[op], op, p.kind)
  /\ \A op \in p.header :
       op \in DOMAIN p.handlers /\ \E m \in p.moves : m[1] = op /\ m[2] = "none"
  /\ \A s \in DOMAIN p.buttons : \A op \in p.buttons[s] :
       op \in DOMAIN p.handlers /\ \E m \in p.moves : m[1] = op /\ m[2] = s

\* Every handler of the pages is as the proofs use it.
LEMMA HandlersSound ==
  /\ \A op, kind : HandlerSound(Confirmed, op, kind)
  /\ \A op, kind : HandlerSound(Submitted, op, kind)
  /\ \A op, kind : HandlerSound(Leaving, op, kind)
  /\ \A op, kind : HandlerSound(OrdersHandleSend, op, kind)
  /\ \A op, kind : HandlerSound(CustomersHandleCreate, op, kind)
  /\ \A op : HandlerSound(CustomersHandleDelete, op, "list")
  /\ \A op, kind : HandlerSound(SuppliersHandleCreate, op, kind)
  /\ \A op : HandlerSound(SuppliersHandleDelete, op, "list")
  /\ \A op, kind : HandlerSound(UsersHandleCreated, op, kind)
  /\ \A op : HandlerSound(UsersToggleActive, op, "list")
  /\ \A op : HandlerSound(UsersHandleDelete, op, "list")
  /\ \A op, kind : HandlerSound(CategoriesHandleSubmit, op, kind)
  /\ \A op : HandlerSound(CategoriesHandleDelete, op, "whole")
  /\ \A kind : HandlerSound(InvoiceDetailHandleIssue, "issue", kind)
  /\ \A op, kind : HandlerSound(InvoiceDetailHandleDelete, op, kind)
  /\ \A op \in {"send", "accepted", "rejected", "revision_requested"} : \A kind :
       HandlerSound(QuoteDetailHandleSend, op, kind)
  /\ \A op \in {"send", "accepted", "rejected", "revision_requested"} : \A kind :
       HandlerSound(QuoteDetailHandleStatusChange, op, kind)
  /\ \A op, kind : HandlerSound(QuoteDetailHandleConvert, op, kind)
  /\ \A op, kind : HandlerSound(QuoteDetailHandleCreateRevision, op, kind)
  /\ \A op, kind : HandlerSound(QuoteDetailHandleDelete, op, kind)
<1>1. \A op, kind : HandlerSound(Confirmed, op, kind)
  BY DEF HandlerSound, Confirmed
<1>2. \A op, kind : HandlerSound(Submitted, op, kind)
  BY DEF HandlerSound, Submitted
<1>3. \A op, kind : HandlerSound(Leaving, op, kind)
  BY DEF HandlerSound, Leaving, Confirmed
<1>4. \A op, kind : HandlerSound(OrdersHandleSend, op, kind)
  BY DEF HandlerSound, OrdersHandleSend, Confirmed
<1>5. \A op, kind : HandlerSound(CustomersHandleCreate, op, kind)
  BY DEF HandlerSound, CustomersHandleCreate, Submitted
<1>6. \A op : HandlerSound(CustomersHandleDelete, op, "list")
  BY DEF HandlerSound, CustomersHandleDelete, Confirmed
<1>7. \A op, kind : HandlerSound(SuppliersHandleCreate, op, kind)
  BY DEF HandlerSound, SuppliersHandleCreate, Submitted
<1>8. \A op : HandlerSound(SuppliersHandleDelete, op, "list")
  BY DEF HandlerSound, SuppliersHandleDelete, Confirmed
<1>9. \A op, kind : HandlerSound(UsersHandleCreated, op, kind)
  BY DEF HandlerSound, UsersHandleCreated, Submitted
<1>10. \A op : HandlerSound(UsersToggleActive, op, "list")
  BY DEF HandlerSound, UsersToggleActive, Submitted
<1>11. \A op : HandlerSound(UsersHandleDelete, op, "list")
  BY DEF HandlerSound, UsersHandleDelete, Confirmed
<1>12. \A op, kind : HandlerSound(CategoriesHandleSubmit, op, kind)
  BY DEF HandlerSound, CategoriesHandleSubmit, Submitted
<1>13. \A op : HandlerSound(CategoriesHandleDelete, op, "whole")
  BY DEF HandlerSound, CategoriesHandleDelete, Confirmed
<1>14. \A kind : HandlerSound(InvoiceDetailHandleIssue, "issue", kind)
  BY DEF HandlerSound, InvoiceDetailHandleIssue, Confirmed
<1>15. \A op, kind : HandlerSound(InvoiceDetailHandleDelete, op, kind)
  BY DEF HandlerSound, InvoiceDetailHandleDelete, Leaving, Confirmed
<1>16. \A op \in {"send", "accepted", "rejected", "revision_requested"} : \A kind :
          HandlerSound(QuoteDetailHandleSend, op, kind)
  BY DEF HandlerSound, QuoteDetailHandleSend, Worked, Confirmed
<1>17. \A op \in {"send", "accepted", "rejected", "revision_requested"} : \A kind :
          HandlerSound(QuoteDetailHandleStatusChange, op, kind)
  BY DEF HandlerSound, QuoteDetailHandleStatusChange, Worked, Confirmed
<1>18. \A op, kind : HandlerSound(QuoteDetailHandleConvert, op, kind)
  BY DEF HandlerSound, QuoteDetailHandleConvert, Worked, Confirmed
<1>19. \A op, kind : HandlerSound(QuoteDetailHandleCreateRevision, op, kind)
  BY DEF HandlerSound, QuoteDetailHandleCreateRevision, Worked, Confirmed
<1>20. \A op, kind : HandlerSound(QuoteDetailHandleDelete, op, kind)
  BY DEF HandlerSound, QuoteDetailHandleDelete, Worked, Confirmed
<1> QED
  BY <1>1, <1>2, <1>3, <1>4, <1>5, <1>6, <1>7, <1>8, <1>9, <1>10, <1>11, <1>12, <1>13, <1>14,
     <1>15, <1>16, <1>17, <1>18, <1>19, <1>20

\* So is each page; first the lists.
LEMMA InvoicesPageSound == PageSound(InvoicesPage)
<1>1. \A op \in DOMAIN InvoicesPage.handlers :
        HandlerSound(InvoicesPage.handlers[op], op, "list")
  BY HandlersSound DEF InvoicesPage, InvoicesHandleIssue, InvoicesHandleDelete
<1>2. \A s \in DOMAIN InvoicesTable : \A op \in InvoicesTable[s] :
        op \in DOMAIN InvoicesPage.handlers /\ \E m \in InvoiceMoves : m[1] = op /\ m[2] = s
  BY DEF InvoicesPage, InvoicesTable, InvoiceMoves
<1> QED
  BY <1>1, <1>2
  DEF PageSound, InvoicesPage, InvoicesEffect, InvoicesFetchPage, Cancelling,
      Fetching

LEMMA QuotesPageSound == PageSound(QuotesPage)
<1>1. \A op \in DOMAIN QuotesPage.handlers : HandlerSound(QuotesPage.handlers[op], op, "list")
  BY HandlersSound DEF QuotesPage, QuotesHandleSend, QuotesHandleConvert,
     QuotesHandleDelete, QuotesHandleCreateRevision
<1>2. \A s \in DOMAIN QuotesTable : \A op \in QuotesTable[s] :
        op \in DOMAIN QuotesPage.handlers /\ \E m \in QuoteMoves : m[1] = op /\ m[2] = s
  BY DEF QuotesPage, QuotesTable, QuoteMoves
<1> QED
  BY <1>1, <1>2
  DEF PageSound, QuotesPage, QuotesEffect, QuotesFetchPage, Cancelling, Fetching

LEMMA OrdersPageSound == PageSound(OrdersPage)
<1>1. \A op \in DOMAIN OrdersPage.handlers : HandlerSound(OrdersPage.handlers[op], op, "list")
  BY HandlersSound DEF OrdersPage
<1>2. \A s \in DOMAIN OrdersTable : \A op \in OrdersTable[s] :
        op \in DOMAIN OrdersPage.handlers /\ \E m \in OrderMoves : m[1] = op /\ m[2] = s
  BY DEF OrdersPage, OrdersTable, OrderMoves
<1> QED
  BY <1>1, <1>2
  DEF PageSound, OrdersPage, OrdersEffect, OrdersFetch, Cancelling, Fetching

LEMMA OverduePageSound == PageSound(OverduePage)
<1>1. \A op \in DOMAIN OverduePage.handlers :
        HandlerSound(OverduePage.handlers[op], op, "whole")
  BY DEF OverduePage
<1>2. \A s \in DOMAIN OverdueTable : \A op \in OverdueTable[s] :
        op \in DOMAIN OverduePage.handlers /\ \E m \in OverdueMoves : m[1] = op /\ m[2] = s
  BY DEF OverduePage, OverdueTable, OverdueMoves
<1> QED
  BY <1>1, <1>2
  DEF PageSound, OverduePage, OverdueEffect, Cancelling, Fetching

LEMMA CustomersPageSound == PageSound(CustomersPage)
<1>1. \A op \in DOMAIN CustomersPage.handlers :
        HandlerSound(CustomersPage.handlers[op], op, "list")
  BY HandlersSound DEF CustomersPage, CustomersHandleUpdate
<1>2. \A s \in DOMAIN CustomerTable : \A op \in CustomerTable[s] :
        op \in DOMAIN CustomersPage.handlers /\ \E m \in PartnerMoves : m[1] = op /\ m[2] = s
  BY DEF CustomersPage, CustomerTable, PartnerMoves
<1>3. "create" \in DOMAIN CustomersPage.handlers
      /\ \E m \in PartnerMoves : m[1] = "create" /\ m[2] = "none"
  BY DEF CustomersPage, PartnerMoves
<1> QED
  BY <1>1, <1>2, <1>3
  DEF PageSound, CustomersPage, CustomersEffect, CustomersFetchPage, Cancelling,
      Fetching

LEMMA SuppliersPageSound == PageSound(SuppliersPage)
<1>1. \A op \in DOMAIN SuppliersPage.handlers :
        HandlerSound(SuppliersPage.handlers[op], op, "list")
  BY HandlersSound DEF SuppliersPage, SuppliersHandleUpdate
<1>2. \A s \in DOMAIN SupplierTable : \A op \in SupplierTable[s] :
        op \in DOMAIN SuppliersPage.handlers /\ \E m \in PartnerMoves : m[1] = op /\ m[2] = s
  BY DEF SuppliersPage, SupplierTable, PartnerMoves
<1>3. "create" \in DOMAIN SuppliersPage.handlers
      /\ \E m \in PartnerMoves : m[1] = "create" /\ m[2] = "none"
  BY DEF SuppliersPage, PartnerMoves
<1> QED
  BY <1>1, <1>2, <1>3
  DEF PageSound, SuppliersPage, SuppliersEffect, SuppliersFetchPage, Cancelling,
      Fetching

LEMMA UsersPageSound == PageSound(UsersPage)
<1>1. \A op \in DOMAIN UsersPage.handlers : HandlerSound(UsersPage.handlers[op], op, "list")
  BY HandlersSound DEF UsersPage, UsersHandleUpdated
<1>2. \A s \in DOMAIN UsersTable : \A op \in UsersTable[s] :
        op \in DOMAIN UsersPage.handlers /\ \E m \in UserMoves : m[1] = op /\ m[2] = s
  BY DEF UsersPage, UsersTable, UserMoves
<1>3. "create" \in DOMAIN UsersPage.handlers
      /\ \E m \in UserMoves : m[1] = "create" /\ m[2] = "none"
  BY DEF UsersPage, UserMoves
<1> QED
  BY <1>1, <1>2, <1>3
  DEF PageSound, UsersPage, UsersEffect, UsersFetch, Cancelling, Fetching

LEMMA CategoriesPageSound == PageSound(CategoriesPage)
<1>1. \A op \in DOMAIN CategoriesPage.handlers :
        HandlerSound(CategoriesPage.handlers[op], op, "whole")
  BY HandlersSound DEF CategoriesPage
<1>2. \A s \in DOMAIN CategoriesTable : \A op \in CategoriesTable[s] :
        op \in DOMAIN CategoriesPage.handlers /\ \E m \in CategoryMoves : m[1] = op /\ m[2] = s
  BY DEF CategoriesPage, CategoriesTable, CategoryMoves
<1>3. "create" \in DOMAIN CategoriesPage.handlers
      /\ \E m \in CategoryMoves : m[1] = "create" /\ m[2] = "none"
  BY DEF CategoriesPage, CategoryMoves
<1> QED
  BY <1>1, <1>2, <1>3
  DEF PageSound, CategoriesPage, CategoriesEffect, CategoriesRefresh, Cancelling,
      Fetching

\* The detail pages.
LEMMA InvoiceDetailPageSound == PageSound(InvoiceDetailPage)
<1>1. \A op \in DOMAIN InvoiceDetailPage.handlers :
        HandlerSound(InvoiceDetailPage.handlers[op], op, "one")
  BY HandlersSound DEF InvoiceDetailPage
<1>2. \A s \in DOMAIN InvoiceDetailButtons : \A op \in InvoiceDetailButtons[s] :
        op \in DOMAIN InvoiceDetailPage.handlers /\ \E m \in InvoiceMoves : m[1] = op /\ m[2] = s
  BY DEF InvoiceDetailPage, InvoiceDetailButtons, InvoiceMoves
<1> QED
  BY <1>1, <1>2
  DEF PageSound, InvoiceDetailPage, InvoiceDetailLoad, Cancelling, Fetching, Loading

LEMMA QuoteDetailPageSound == PageSound(QuoteDetailPage)
<1>1. \A op \in DOMAIN QuoteDetailPage.handlers :
        HandlerSound(QuoteDetailPage.handlers[op], op, "one")
  BY HandlersSound DEF QuoteDetailPage
<1>2. \A s \in DOMAIN QuoteDetailButtons : \A op \in QuoteDetailButtons[s] :
        op \in DOMAIN QuoteDetailPage.handlers /\ \E m \in QuoteMoves : m[1] = op /\ m[2] = s
  BY DEF QuoteDetailPage, QuoteDetailButtons, QuoteMoves
<1> QED
  BY <1>1, <1>2
  DEF PageSound, QuoteDetailPage, QuoteDetailLoad, Cancelling, Fetching, Loading

LEMMA OrderDetailPageSound == PageSound(OrderDetailPage)
<1>1. \A op \in DOMAIN OrderDetailPage.handlers :
        HandlerSound(OrderDetailPage.handlers[op], op, "one")
  BY DEF OrderDetailPage
<1> QED
  BY <1>1
  DEF PageSound, OrderDetailPage, OrderDetailEffect, Cancelling, Fetching, Loading

LEMMA CustomerDetailPageSound == PageSound(CustomerDetailPage)
<1>1. \A op \in DOMAIN CustomerDetailPage.handlers :
        HandlerSound(CustomerDetailPage.handlers[op], op, "one")
  BY HandlersSound DEF CustomerDetailPage, CustomerDetailHandleUpdate,
     CustomerDetailHandleDelete
<1>2. \A s \in DOMAIN CustomerDetailButtons : \A op \in CustomerDetailButtons[s] :
        op \in DOMAIN CustomerDetailPage.handlers /\ \E m \in PartnerMoves : m[1] = op /\ m[2] = s
  BY DEF CustomerDetailPage, CustomerDetailButtons, PartnerMoves
<1> QED
  BY <1>1, <1>2
  DEF PageSound, CustomerDetailPage, CustomerDetailLoad, Cancelling, Fetching,
      Loading

LEMMA SupplierDetailPageSound == PageSound(SupplierDetailPage)
<1>1. \A op \in DOMAIN SupplierDetailPage.handlers :
        HandlerSound(SupplierDetailPage.handlers[op], op, "one")
  BY HandlersSound DEF SupplierDetailPage, SupplierDetailHandleUpdate,
     SupplierDetailHandleDelete
<1>2. \A s \in DOMAIN SupplierDetailButtons : \A op \in SupplierDetailButtons[s] :
        op \in DOMAIN SupplierDetailPage.handlers /\ \E m \in PartnerMoves : m[1] = op /\ m[2] = s
  BY DEF SupplierDetailPage, SupplierDetailButtons, PartnerMoves
<1> QED
  BY <1>1, <1>2
  DEF PageSound, SupplierDetailPage, SupplierDetailLoad, Cancelling, Fetching,
      Loading

\* So is every page an instance looks at.
LEMMA PagesSound == screen \in Screens => PageSound(P)
<1>1. \A s \in DOMAIN Page : PageSound(Page[s])
  BY InvoicesPageSound, QuotesPageSound, OrdersPageSound, OverduePageSound,
     CustomersPageSound, SuppliersPageSound, UsersPageSound, CategoriesPageSound,
     InvoiceDetailPageSound, QuoteDetailPageSound, OrderDetailPageSound,
     CustomerDetailPageSound, SupplierDetailPageSound
  DEF Page
<1> QED
  BY <1>1, PagesAssumption DEF P

-----------------------------------------------------------------------------
(* The load of the effect                                                   *)

\* The effect's cleanup leaves no load that it cancels, when there is one at most.
OneLoad(s) ==
  \A i, j \in DOMAIN s : Cancelled(s[i]) /\ Cancelled(s[j]) => i = j

\* One less, and there is still one at most.
LEMMA OneLoadLeft ==
  ASSUME NEW s, Sequence(s), OneLoad(s), NEW i \in DOMAIN s
  PROVE  OneLoad(RemoveAt(s, i))
<1> DEFINE t == RemoveAt(s, i)
<1>1. \A j, k \in DOMAIN t : j # k =>
        \E m, n \in DOMAIN s : m # n /\ t[j] = s[m] /\ t[k] = s[n]
  BY Removed
<1> HIDE DEF t
<1>2. OneLoad(t)
  BY <1>1 DEF OneLoad
<1> QED
  BY <1>2 DEF t

\* The effect's cleanup leaves in flight every call it does not cancel, and no other.
LEMMA KeptCalls ==
  ASSUME NEW s, Sequence(s), OneLoad(s)
  PROVE  /\ Sequence(Kept(s))
         /\ \A c \in ToSet(Kept(s)) : c \in ToSet(s) /\ ~Cancelled(c)
         /\ \A c \in ToSet(s) : ~Cancelled(c) => c \in ToSet(Kept(s))
<1> DEFINE loads == {i \in DOMAIN s : Cancelled(s[i])}
<1>1. CASE loads = {}
  BY <1>1 DEF Kept, ToSet
<1>2. CASE loads # {}
  <2>1. PICK i : i = CHOOSE j \in loads : TRUE
    OBVIOUS
  <2>2. i \in loads
    BY <1>2, <2>1
  <2>3. Kept(s) = RemoveAt(s, i)
    BY <1>2, <2>1 DEF Kept
  <2>4. \A j \in DOMAIN s \ {i} : ~Cancelled(s[j])
    BY <2>2 DEF OneLoad
  <2> QED
    BY <2>2, <2>3, <2>4, Removed DEF ToSet
<1> QED
  BY <1>1, <1>2

-----------------------------------------------------------------------------
(* The inductive invariant of the pages                                     *)

\* What every call in flight records.
IsCall(c) ==
  DOMAIN c = {"for", "op", "id", "opened", "saw", "want", "own", "ans"}

\* A call of a button is one the server has a step for; on a detail page it is
\* about the row of the URL it was sent from, and so is its answer.
CallSound(c) ==
  /\ IsCall(c)
  /\ c.for \in {"load", "op", "reload"}
  /\ c.for # "load" => c.op \in DOMAIN P.handlers
  /\ c.for = "op" =>
       /\ Moves(c.op, c.saw) # {}
       /\ IF P.kind = "one" THEN c.id = c.want.page ELSE c.id = c.opened
       /\ c.ans.is = "row" /\ c.op \notin {"create", "revision"} => c.ans.row.id = c.id
  /\ c.for # "op" =>
       /\ c.ans # Pending
       /\ P.kind = "one" /\ c.ans.is = "rows" =>
            \A i \in DOMAIN c.ans.rows : c.ans.rows[i].id = c.want.page

\* All the calls in flight are.
CallsSound == \A c \in ToSet(calls) : CallSound(c)

\* What a call is for is what is chosen now; or the first page, which a handler is
\* about to choose once it has read it.
WantedAt(c, now) ==
  \/ c.want = now
  \/ c.for = "reload" /\ "first" \in Handler(c.op).last /\ c.want = First(now)

\* A response for what was chosen before is never on its way: the effect's
\* cleanup cancels it.
Wanted == "moved" \notin strayed => \A c \in ToSet(calls) : WantedAt(c, at)

\* A detail page shows, offers and changes the row of its URL.
OfUrl ==
  P.kind = "one" /\ "moved" \notin strayed =>
    /\ \A c \in ToSet(calls) : c.for = "op" => c.id = c.opened
    /\ dialog # NoDialog => dialog.row.id = at.page
    /\ view.mounted /\ ~view.loading /\ ~view.error =>
         \A i \in DOMAIN shown.rows : shown.rows[i].id = at.page

\* A dialog stands for an operation of its page that its row allows.
DialogSound ==
  dialog # NoDialog =>
    /\ dialog.op \in DOMAIN P.handlers
    /\ Moves(dialog.op, dialog.row.state) # {}

\* Rows of another choice are shown only until a call in flight has ended.
Fresh ==
  view.mounted /\ ~view.error /\ "moved" \notin strayed =>
    \/ shown.of = at
    \/ \E c \in ToSet(calls) : c.for # "op" \/ "clear" \in Handler(c.op).start

\* A spinner has a call in flight that stops it.
Awaited ==
  view.loading /\ view.mounted /\ "again" \notin strayed
    => \E c \in ToSet(calls) : c.for = "load" \/ (c.for = "reload" /\ P.fetch.ends)

\* A call in flight that may close a dialog is of the one that is open.
Owned ==
  dialog # NoDialog /\ "opened" \notin strayed =>
    \A c \in ToSet(calls) :
      c.for = "op" \/ (c.for = "reload" /\ "closeForm" \in Handler(c.op).last) => c.own

\* The flags of a page.
IsView(v) ==
  /\ DOMAIN v = {"loading", "error", "busy", "mounted"}
  /\ {v.loading, v.error, v.mounted} \subseteq BOOLEAN

\* The shapes of the variables.
Shapes ==
  /\ screen \in Screens
  /\ DOMAIN at = {"page", "filter"}
  /\ DOMAIN shown = {"rows", "total", "of"}
  /\ IsView(view)
  /\ Sequence(calls)

\* The inductive invariant.
PagesInv ==
  /\ Shapes /\ OneLoad(calls) /\ CallsSound /\ Wanted /\ OfUrl
  /\ DialogSound /\ Fresh /\ Awaited /\ Owned

-----------------------------------------------------------------------------
(* Views                                                                    *)

\* The flags once the effects of a handler are applied.
LEMMA ViewAfterIs ==
  ASSUME NEW v, IsView(v), NEW effs
  PROVE  LET w == ViewAfter(v, effs)
         IN /\ IsView(w)
            /\ w.error <=> (v.error \/ "error" \in effs) /\ "clear" \notin effs
            /\ w.loading <=> v.loading /\ "ready" \notin effs
            /\ w.mounted <=> v.mounted /\ "leave" \notin effs
<1> DEFINE e == (v.error \/ "error" \in effs) /\ "clear" \notin effs
           l == v.loading /\ "ready" \notin effs
           m == v.mounted /\ "leave" \notin effs
           w == ViewAfter(v, effs)
<1>1. w = [[[v EXCEPT !.error = e] EXCEPT !.loading = l] EXCEPT !.mounted = m]
  BY DEF ViewAfter
<1>2. {e, l, m} \subseteq BOOLEAN
  OBVIOUS
<1> HIDE DEF e, l, m, w
<1>3. DOMAIN w = DOMAIN v /\ w.error = e /\ w.loading = l /\ w.mounted = m
  BY <1>1 DEF IsView
<1>4. IsView(w)
  BY <1>2, <1>3 DEF IsView
<1> QED
  BY <1>3, <1>4 DEF e, l, m, w

\* The flags once a reading has started.
LEMMA StartedIs ==
  ASSUME NEW v, IsView(v), NEW reading
  PROVE  LET w == Started(v, reading)
         IN /\ IsView(w)
            /\ w.error <=> v.error /\ reading.clears # "before"
            /\ w.loading <=> v.loading \/ reading.starts
            /\ w.mounted = v.mounted
<1> DEFINE l == v.loading \/ reading.starts
           e == v.error /\ reading.clears # "before"
           w == Started(v, reading)
<1>1. w = [[v EXCEPT !.loading = l] EXCEPT !.error = e]
  BY DEF Started
<1>2. {e, l} \subseteq BOOLEAN
  OBVIOUS
<1> HIDE DEF e, l, w
<1>3. DOMAIN w = DOMAIN v /\ w.error = e /\ w.loading = l /\ w.mounted = v.mounted
  BY <1>1 DEF IsView
<1>4. IsView(w)
  BY <1>2, <1>3 DEF IsView
<1> QED
  BY <1>3, <1>4 DEF e, l, w

\* The flags once it has ended.
LEMMA EndedIs ==
  ASSUME NEW v, IsView(v), NEW reading, NEW ok \in BOOLEAN
  PROVE  LET w == Ended(v, reading, ok)
         IN /\ IsView(w)
            /\ w.error <=> ~ok \/ (v.error /\ reading.clears # "ok")
            /\ w.loading <=> v.loading /\ ~reading.ends
            /\ w.mounted = v.mounted
<1> DEFINE l == v.loading /\ ~reading.ends
           e == IF ok THEN v.error /\ reading.clears # "ok" ELSE TRUE
           w == Ended(v, reading, ok)
<1>1. w = [[v EXCEPT !.loading = l] EXCEPT !.error = e]
  BY DEF Ended
<1>2. {e, l} \subseteq BOOLEAN
  OBVIOUS
<1> HIDE DEF e, l, w
<1>3. DOMAIN w = DOMAIN v /\ w.error = e /\ w.loading = l /\ w.mounted = v.mounted
  BY <1>1 DEF IsView
<1>4. IsView(w)
  BY <1>2, <1>3 DEF IsView
<1> QED
  BY <1>3, <1>4 DEF e, l, w

\* The flags once a button is enabled again: what the rest reads is as before.
LEMMA FreedIs ==
  ASSUME NEW v, IsView(v), NEW c
  PROVE  LET w == Freed(v, c)
         IN /\ IsView(w) /\ w.error = v.error
            /\ w.loading = v.loading /\ w.mounted = v.mounted
<1> DEFINE w == Freed(v, c)
           b == IF c.op \in DOMAIN P.flags THEN v.busy \ {P.flags[c.op]} ELSE v.busy
<1>1. w = [v EXCEPT !.busy = b]
  BY DEF Freed
<1> HIDE DEF b, w
<1>2. /\ DOMAIN w = DOMAIN v /\ w.error = v.error
      /\ w.loading = v.loading /\ w.mounted = v.mounted
  BY <1>1 DEF IsView
<1> QED
  BY <1>2 DEF IsView, w

-----------------------------------------------------------------------------
(* The calls after a step                                                   *)

\* What two sequences hold together.
LEMMA Joined ==
  ASSUME NEW s, Sequence(s)
  PROVE  s \o << >> = s /\ \A x : s \o <<x>> = Append(s, x)
<1>1. s \in Seq(ToSet(s))
  BY DEF Sequence
<1>2. s \o << >> = s
  BY <1>1
<1>3. ASSUME NEW x PROVE s \o <<x>> = Append(s, x)
  <2>1. s \in Seq(ToSet(s) \cup {x})
    BY <1>1
  <2> QED
    BY <2>1
<1> QED
  BY <1>2, <1>3

\* The same call, but for the form that waits for it.
Alike(d, c) ==
  /\ DOMAIN d = DOMAIN c
  /\ d.for = c.for /\ d.op = c.op /\ d.id = c.id /\ d.opened = c.opened
  /\ d.saw = c.saw /\ d.want = c.want /\ d.ans = c.ans

\* Closing the dialog keeps the calls, but none is of the dialog any more.
LEMMA DisownedCalls ==
  ASSUME NEW s, Sequence(s), \A c \in ToSet(s) : IsCall(c)
  PROVE  LET t == Disowned(s)
         IN /\ Sequence(t)
            /\ DOMAIN t = DOMAIN s
            /\ \A i \in DOMAIN s : Alike(t[i], s[i])
<1> DEFINE t == Disowned(s)
<1>1. s \in Seq(ToSet(s)) /\ DOMAIN s = 1 .. Len(s) /\ Len(s) \in Nat
  BY DEF Sequence
<1>2. DOMAIN t = DOMAIN s /\ \A i \in DOMAIN s : t[i] = [s[i] EXCEPT !.own = FALSE]
  BY DEF Disowned
<1>3. ASSUME NEW i \in DOMAIN s PROVE Alike(t[i], s[i])
  <2>1. PICK c : c = s[i]
    OBVIOUS
  <2>2. IsCall(c)
    BY <2>1 DEF ToSet
  <2>3. PICK d : d = t[i]
    OBVIOUS
  <2>4. d = [c EXCEPT !.own = FALSE]
    BY <1>2, <2>1, <2>3
  <2>5. Alike(d, c)
    BY <2>2, <2>4 DEF Alike, IsCall
  <2> QED
    BY <2>1, <2>3, <2>5
<1>4. Sequence(t)
  <2>1. t = [i \in 1 .. Len(s) |-> t[i]]
    BY <1>1 DEF Disowned
  <2>2. \A i \in 1 .. Len(s) : t[i] \in ToSet(t)
    BY <1>1, <1>2 DEF ToSet
  <2> HIDE DEF t
  <2>3. t \in Seq(ToSet(t))
    BY <1>1, <2>1, <2>2
  <2> QED
    BY <2>3, OfItself
<1> QED
  BY <1>2, <1>3, <1>4

\* The calls that Settle leaves in flight.
CallsAfter(new, shut, rest, more, mounted) ==
  LET after == IF mounted THEN Chosen(new, rest \o more) ELSE << >>
  IN IF shut THEN Disowned(after) ELSE after

\* Calls a step sends besides the load of the effect.
IsMore(more) == more = << >> \/ \E x : more = <<x>> /\ IsCall(x) /\ x.for # "load"

\* The call of the effect.
LEMMA LoadIs ==
  ASSUME NEW new
  PROVE  LET c == Load(new)
         IN IsCall(c) /\ c.for = "load" /\ c.want = new /\ c.ans = Answer(new)
<1> DEFINE a == Answer(new)
<1> HIDE DEF a
<1> QED
  BY DEF Load, IsCall, a

\* rest and more together.
LEMMA Together ==
  ASSUME NEW rest, Sequence(rest), OneLoad(rest), \A c \in ToSet(rest) : IsCall(c),
         NEW more, IsMore(more)
  PROVE  LET s == rest \o more
         IN /\ Sequence(s) /\ OneLoad(s)
            /\ ToSet(s) = ToSet(rest) \cup ToSet(more)
            /\ \A c \in ToSet(s) : IsCall(c)
<1>1. CASE more = << >>
  <2>1. rest \o more = rest
    BY <1>1, Joined
  <2>2. ToSet(more) = {}
    BY <1>1 DEF ToSet
  <2> QED
    BY <2>1, <2>2
<1>2. CASE more # << >>
  <2>1. PICK x : more = <<x>> /\ IsCall(x) /\ x.for # "load"
    BY <1>2 DEF IsMore
  <2>2. PICK s : s = rest \o more
    OBVIOUS
  <2>3. s = Append(rest, x)
    BY <2>1, <2>2, Joined
  <2>4. ToSet(more) = {x}
    BY <2>1 DEF ToSet
  <2>5. /\ Sequence(s) /\ ToSet(s) = ToSet(rest) \cup {x}
        /\ DOMAIN s = DOMAIN rest \cup {Len(rest) + 1} /\ s[Len(rest) + 1] = x
        /\ \A i \in DOMAIN rest : s[i] = rest[i]
    BY <2>3, Appended
  <2>6. ~Cancelled(x)
    BY <2>1 DEF Cancelled
  <2>7. OneLoad(s)
    BY <2>5, <2>6 DEF OneLoad
  <2>8. \A c \in ToSet(s) : IsCall(c)
    BY <2>1, <2>5
  <2> QED
    BY <2>2, <2>4, <2>5, <2>7, <2>8
<1> QED
  BY <1>1, <1>2

\* What is in flight when something else is chosen: the load of it, and what the
\* cleanup of the effect does not cancel.
LEMMA ChosenCalls ==
  ASSUME NEW s, Sequence(s), OneLoad(s), \A c \in ToSet(s) : IsCall(c), NEW new
  PROVE  LET t == Chosen(new, s)
         IN /\ Sequence(t) /\ OneLoad(t) /\ \A c \in ToSet(t) : IsCall(c)
            /\ \A d \in ToSet(t) : \/ new # at /\ d = Load(new)
                                   \/ d \in ToSet(s) /\ (new = at \/ ~Cancelled(d))
            /\ \A c \in ToSet(s) : new = at \/ ~Cancelled(c) => c \in ToSet(t)
            /\ new # at => Load(new) \in ToSet(t)
<1>1. CASE new = at
  BY <1>1 DEF Chosen
<1>2. CASE new # at
  <2>1. PICK k : k = Kept(s)
    OBVIOUS
  <2>2. PICK l : l = Load(new)
    OBVIOUS
  <2>3. PICK t : t = Chosen(new, s)
    OBVIOUS
  <2>4. t = Append(k, l)
    BY <1>2, <2>1, <2>2, <2>3 DEF Chosen
  <2>5. /\ Sequence(k) /\ \A c \in ToSet(k) : c \in ToSet(s) /\ ~Cancelled(c)
        /\ \A c \in ToSet(s) : ~Cancelled(c) => c \in ToSet(k)
    BY <2>1, KeptCalls
  <2>6. /\ Sequence(t) /\ ToSet(t) = ToSet(k) \cup {l}
        /\ DOMAIN t = DOMAIN k \cup {Len(k) + 1} /\ t[Len(k) + 1] = l
        /\ \A i \in DOMAIN k : t[i] = k[i]
    BY <2>4, <2>5, Appended
  <2>7. OneLoad(t)
    <3>1. \A i \in DOMAIN k : ~Cancelled(t[i])
      BY <2>5, <2>6 DEF ToSet
    <3> QED
      BY <2>6, <3>1 DEF OneLoad
  <2>8. IsCall(l)
    BY <2>2, LoadIs
  <2> QED
    BY <1>2, <2>2, <2>3, <2>5, <2>6, <2>7, <2>8
<1> QED
  BY <1>1, <1>2

\* What a step leaves in flight, and that it has one load at most.
LEMMA SettledCalls ==
  ASSUME NEW new, NEW shut \in BOOLEAN, NEW mounted \in BOOLEAN,
         NEW rest, Sequence(rest), OneLoad(rest), \A c \in ToSet(rest) : IsCall(c),
         NEW more, IsMore(more)
  PROVE  LET t == CallsAfter(new, shut, rest, more, mounted)
             S == ToSet(rest) \cup ToSet(more)
         IN /\ Sequence(t) /\ OneLoad(t)
            /\ \A d \in ToSet(t) :
                 \/ new # at /\ Alike(d, Load(new))
                 \/ \E c \in S : (new = at \/ ~Cancelled(c)) /\ Alike(d, c) /\ (shut \/ d = c)
            /\ ~mounted => ToSet(t) = {}
            /\ mounted =>
                 /\ \A c \in S : new = at \/ ~Cancelled(c) => \E d \in ToSet(t) : Alike(d, c)
                 /\ new # at => \E d \in ToSet(t) : Alike(d, Load(new))
<1>1. PICK s : s = rest \o more
  OBVIOUS
<1>2. PICK l : l = Load(new)
  OBVIOUS
<1>3. PICK a : a = IF mounted THEN Chosen(new, s) ELSE << >>
  OBVIOUS
<1>4. PICK t : t = CallsAfter(new, shut, rest, more, mounted)
  OBVIOUS
<1>5. t = IF shut THEN Disowned(a) ELSE a
  BY <1>1, <1>3, <1>4 DEF CallsAfter
<1>6. /\ Sequence(s) /\ OneLoad(s) /\ ToSet(s) = ToSet(rest) \cup ToSet(more)
      /\ \A c \in ToSet(s) : IsCall(c)
  BY <1>1, Together
<1>7. /\ Sequence(a) /\ OneLoad(a) /\ \A c \in ToSet(a) : IsCall(c)
      /\ \A d \in ToSet(a) : \/ new # at /\ d = l
                             \/ d \in ToSet(s) /\ (new = at \/ ~Cancelled(d))
      /\ ~mounted => ToSet(a) = {}
      /\ mounted => /\ \A c \in ToSet(s) : new = at \/ ~Cancelled(c) => c \in ToSet(a)
                    /\ new # at => l \in ToSet(a)
  <2>1. CASE mounted
    BY <1>2, <1>3, <1>6, <2>1, ChosenCalls
  <2>2. CASE ~mounted
    <3>1. a = << >> /\ ToSet(a) = {} /\ DOMAIN a = {}
      BY <1>3, <2>2 DEF ToSet
    <3>2. Sequence(a)
      BY <3>1 DEF Sequence
    <3> QED
      BY <2>2, <3>1, <3>2 DEF OneLoad
  <2> QED
    BY <2>1, <2>2
<1>8. /\ Sequence(t) /\ DOMAIN t = DOMAIN a
      /\ \A i \in DOMAIN a : Alike(t[i], a[i]) /\ (shut \/ t[i] = a[i])
  <2>1. CASE shut
    BY <1>5, <1>7, <2>1, DisownedCalls
  <2>2. CASE ~shut
    BY <1>5, <1>7, <2>2 DEF Alike
  <2> QED
    BY <2>1, <2>2
<1>9. OneLoad(t)
  <2>1. \A i \in DOMAIN a : t[i].for = a[i].for
    BY <1>8 DEF Alike
  <2> QED
    BY <1>7, <1>8, <2>1 DEF OneLoad, Cancelled
<1>10. \A d \in ToSet(t) : \E c \in ToSet(a) : Alike(d, c) /\ (shut \/ d = c)
  BY <1>8 DEF ToSet
<1>11. \A c \in ToSet(a) : \E d \in ToSet(t) : Alike(d, c)
  BY <1>8 DEF ToSet
<1>12. \A d \in ToSet(t) :
         \/ new # at /\ Alike(d, l)
         \/ \E c \in ToSet(s) : (new = at \/ ~Cancelled(c)) /\ Alike(d, c) /\ (shut \/ d = c)
  BY <1>7, <1>10
<1>13. ~mounted => ToSet(t) = {}
  BY <1>7, <1>10
<1>14. mounted =>
         /\ \A c \in ToSet(s) : new = at \/ ~Cancelled(c) => \E d \in ToSet(t) : Alike(d, c)
         /\ new # at => \E d \in ToSet(t) : Alike(d, l)
  BY <1>7, <1>11
<1> QED
  BY <1>2, <1>4, <1>6, <1>8, <1>9, <1>12, <1>13, <1>14

-----------------------------------------------------------------------------
(* What a step leaves: Settle                                               *)

\* The server's answer to a reading of one row is that row.
LEMMA AnswerIs ==
  ASSUME NEW want
  PROVE  /\ Answer(want) # Pending
         /\ P.kind = "one" /\ Answer(want).is = "rows" =>
              \A i \in DOMAIN Answer(want).rows : Answer(want).rows[i].id = want.page
<1> DEFINE ids == SetToSortSeq(Listed(want.filter), LAMBDA a, b : a > b)
           from == (want.page - 1) * PageSize
           some == SubSeq(ids, from + 1, IF from + PageSize < Len(ids)
                                           THEN from + PageSize ELSE Len(ids))
           rows == CASE P.kind = "one" -> <<want.page>>
                     [] P.kind = "whole" -> ids
                     [] OTHER -> some
           gone == P.kind = "one" /\ want.page \notin Listed("all")
           found == [is |-> "rows", total |-> Len(ids),
                     rows |-> [i \in DOMAIN rows |-> [id |-> rows[i], state |-> db[rows[i]]]]]
<1>1. PICK a : a = Answer(want)
  OBVIOUS
<1>2. a = IF gone THEN Refused ELSE found
  BY <1>1 DEF Answer
<1> HIDE DEF ids, some, gone
<1>3. P.kind = "one" => rows = <<want.page>>
  OBVIOUS
<1> HIDE DEF rows
<1>4. a.is # "pending"
  BY <1>2 DEF Refused
<1>5. ASSUME P.kind = "one", a.is = "rows"
      PROVE  \A i \in DOMAIN a.rows : a.rows[i].id = want.page
  <2>1. a = found
    BY <1>2, <1>5 DEF Refused
  <2>2. rows = <<want.page>> /\ DOMAIN rows = {1} /\ rows[1] = want.page
    BY <1>3, <1>5
  <2>3. a.rows = [i \in DOMAIN rows |-> [id |-> rows[i], state |-> db[rows[i]]]]
    BY <2>1
  <2> QED
    BY <2>2, <2>3
<1> QED
  BY <1>1, <1>4, <1>5 DEF Pending

\* The calls Settle leaves, and what the history says of them.
LEMMA SettleStep ==
  ASSUME NEW new, NEW shut \in BOOLEAN, NEW rest, NEW more, NEW v,
         \A c \in ToSet(rest) : IsCall(c),
         P.kind # "one" => P.effect.cancels,
         Settle(new, shut, rest, more, v)
  PROVE  /\ at' = new
         /\ calls' = CallsAfter(new, shut, rest, more, v.mounted)
         /\ dialog' = IF dialog # NoDialog /\ ~shut /\ v.mounted THEN dialog ELSE NoDialog
         /\ view' = IF new # at THEN Started(v, P.effect) ELSE v
         /\ strayed \subseteq strayed'
         /\ "moved" \notin strayed' /\ new # at =>
              /\ dialog = NoDialog \/ shut
              /\ \A c \in ToSet(rest) : Cancelled(c) \/ c.want = new
  BY DEF Settle, CallsAfter, Moved, ToSet, Cancelled

\* Settle keeps the invariant, when what it leaves in flight is sound and what
\* still shows the old choice has a call to replace it.
LEMMA SettleKeeps ==
  ASSUME PagesInv, screen' = screen,
         NEW new, NEW shut \in BOOLEAN, NEW rest, NEW more, NEW v,
         DOMAIN new = {"page", "filter"},
         Sequence(rest), OneLoad(rest), ToSet(rest) \subseteq ToSet(calls),
         IsMore(more), IsView(v),
         Settle(new, shut, rest, more, v),
         DOMAIN shown' = {"rows", "total", "of"},
         \A c \in ToSet(more) :
           /\ c.for = "reload" /\ CallSound(c)
           /\ "moved" \notin strayed => WantedAt(c, new)
           /\ dialog # NoDialog /\ "opened" \notin strayed
                /\ "closeForm" \in Handler(c.op).last => c.own,
         v.mounted /\ ~v.error /\ "moved" \notin strayed /\ new = at =>
           \/ shown'.of = at
           \/ \E c \in ToSet(rest) \cup ToSet(more) :
                c.for # "op" \/ "clear" \in Handler(c.op).start,
         v.mounted /\ v.loading /\ "again" \notin strayed /\ new = at =>
           \E c \in ToSet(rest) \cup ToSet(more) :
             c.for = "load" \/ (c.for = "reload" /\ P.fetch.ends),
         P.kind = "one" /\ "moved" \notin strayed /\ new = at
           /\ v.mounted /\ ~v.loading /\ ~v.error =>
           \A i \in DOMAIN shown'.rows : shown'.rows[i].id = at.page
  PROVE  PagesInv'
<1>1. screen \in Screens /\ PageSound(P)
  BY PagesSound DEF PagesInv, Shapes
<1>2. P' = P
  BY DEF P
<1>3. /\ at' = new
      /\ calls' = CallsAfter(new, shut, rest, more, v.mounted)
      /\ dialog' = IF dialog # NoDialog /\ ~shut /\ v.mounted THEN dialog ELSE NoDialog
      /\ view' = IF new # at THEN Started(v, P.effect) ELSE v
      /\ strayed \subseteq strayed'
      /\ "moved" \notin strayed' /\ new # at =>
           /\ dialog = NoDialog \/ shut
           /\ \A c \in ToSet(rest) : Cancelled(c) \/ c.want = new
  <2>1. P.kind # "one" => P.effect.cancels
    BY <1>1 DEF PageSound
  <2>2. \A c \in ToSet(rest) : IsCall(c)
    BY DEF PagesInv, CallsSound, CallSound
  <2> QED
    BY <2>1, <2>2, SettleStep
<1>4. PICK m : m = v.mounted
  OBVIOUS
<1>5. m \in BOOLEAN
  BY <1>4 DEF IsView
<1>6. PICK l : l = Load(new)
  OBVIOUS
<1>7. \A c \in ToSet(calls) : IsCall(c) /\ CallSound(c)
  BY DEF PagesInv, CallsSound, CallSound
<1>8. PICK S : S = ToSet(rest) \cup ToSet(more)
  OBVIOUS
<1>9. \A c \in ToSet(rest) : IsCall(c)
  BY <1>7
<1>10. PICK t : t = CallsAfter(new, shut, rest, more, m)
  OBVIOUS
<1>11. calls' = t
  BY <1>3, <1>4, <1>10
<1>12. /\ Sequence(t) /\ OneLoad(t)
       /\ \A d \in ToSet(t) :
            \/ new # at /\ Alike(d, l)
            \/ \E c \in S : (new = at \/ ~Cancelled(c)) /\ Alike(d, c) /\ (shut \/ d = c)
       /\ ~m => ToSet(t) = {}
       /\ m =>
            /\ \A c \in S : new = at \/ ~Cancelled(c) => \E d \in ToSet(t) : Alike(d, c)
            /\ new # at => \E d \in ToSet(t) : Alike(d, l)
  BY <1>5, <1>6, <1>8, <1>9, <1>10, SettledCalls
<1>13. /\ IsCall(l) /\ l.for = "load" /\ l.want = new /\ CallSound(l)
  BY <1>6, LoadIs, AnswerIs DEF CallSound
<1>14. \A c \in S : CallSound(c)
  BY <1>7, <1>8
<1>15. /\ IsView(view')
       /\ view'.mounted = m
       /\ new # at /\ P.effect.starts => view'.loading
       /\ new = at => view' = v
  BY <1>3, <1>4, StartedIs
<1>16. Shapes'
  BY <1>1, <1>3, <1>11, <1>12, <1>15 DEF Shapes, IsView, Sequence, ToSet
<1>17. OneLoad(calls)'
  BY <1>2, <1>11, <1>12 DEF OneLoad, Cancelled
<1>18. CallsSound'
  BY <1>2, <1>11, <1>12, <1>13, <1>14 DEF CallsSound, CallSound, IsCall, Alike, Moves, ToSet
<1>19. Wanted'
  <2>1. SUFFICES ASSUME "moved" \notin strayed', NEW d \in ToSet(t)
                 PROVE  d.want = new \/ (d.for = "reload" /\ "first" \in P.handlers[d.op].last
                                           /\ d.want = First(new))
    BY <1>2, <1>3, <1>11 DEF Wanted, WantedAt, Handler, First, ToSet
  <2>2. "moved" \notin strayed
    BY <1>3, <2>1
  <2>3. CASE Alike(d, l)
    BY <1>13, <2>3 DEF Alike
  <2>4. ASSUME NEW c \in S, new = at \/ ~Cancelled(c), Alike(d, c)
        PROVE  d.want = new \/ (d.for = "reload" /\ "first" \in P.handlers[d.op].last
                                  /\ d.want = First(new))
    <3>1. WantedAt(c, new)
      <4>1. CASE c \in ToSet(more)
        BY <2>2, <4>1
      <4>2. CASE c \in ToSet(rest) /\ new = at
        BY <2>2, <4>2 DEF PagesInv, Wanted
      <4>3. CASE c \in ToSet(rest) /\ new # at
        BY <1>3, <2>1, <2>4, <4>3 DEF WantedAt
      <4> QED
        BY <1>8, <4>1, <4>2, <4>3
    <3> QED
      BY <2>4, <3>1 DEF WantedAt, Alike, Handler
  <2> QED
    BY <1>12, <2>1, <2>3, <2>4
<1>20. OfUrl'
  <2>1. SUFFICES ASSUME P.kind = "one", "moved" \notin strayed'
                 PROVE  /\ \A d \in ToSet(t) : d.for = "op" => d.id = d.opened
                        /\ dialog' # NoDialog => dialog'.row.id = new.page
                        /\ view'.mounted /\ ~view'.loading /\ ~view'.error =>
                             \A i \in DOMAIN shown'.rows : shown'.rows[i].id = new.page
    BY <1>2, <1>3, <1>11 DEF OfUrl, ToSet, NoDialog
  <2>2. "moved" \notin strayed
    BY <1>3, <2>1
  <2>3. ASSUME NEW d \in ToSet(t), d.for = "op" PROVE d.id = d.opened
    <3>1. PICK c \in S : Alike(d, c)
      BY <1>12, <1>13, <2>3 DEF Alike
    <3>2. c.for = "op" /\ c \in ToSet(rest)
      BY <1>8, <2>3, <3>1 DEF Alike
    <3>3. c.id = c.opened
      BY <2>1, <2>2, <3>2 DEF PagesInv, OfUrl
    <3> QED
      BY <3>1, <3>3 DEF Alike
  <2>4. dialog' # NoDialog => dialog'.row.id = new.page
    BY <1>3, <2>1, <2>2 DEF PagesInv, OfUrl
  <2>5. new # at => view'.loading
    BY <1>1, <1>15, <2>1 DEF PageSound
  <2>6. view'.mounted /\ ~view'.loading /\ ~view'.error =>
          \A i \in DOMAIN shown'.rows : shown'.rows[i].id = new.page
    BY <1>15, <2>1, <2>2, <2>5
  <2> QED
    BY <2>3, <2>4, <2>6
<1>21. DialogSound'
  BY <1>2, <1>3 DEF PagesInv, DialogSound, NoDialog, Moves
<1>22. Fresh'
  <2>1. SUFFICES ASSUME view'.mounted, ~view'.error, "moved" \notin strayed'
                 PROVE  \/ shown'.of = new
                        \/ \E d \in ToSet(t) : d.for # "op" \/ "clear" \in P.handlers[d.op].start
    BY <1>2, <1>3, <1>11 DEF Fresh, Handler, ToSet
  <2>2. m /\ "moved" \notin strayed
    BY <1>3, <1>15, <2>1
  <2>3. CASE new # at
    BY <1>12, <1>13, <2>2, <2>3 DEF Alike
  <2>4. CASE new = at
    <3>1. v.mounted /\ ~v.error
      BY <1>4, <1>15, <2>1, <2>2, <2>4
    <3>2. \/ shown'.of = at
          \/ \E c \in S : c.for # "op" \/ "clear" \in Handler(c.op).start
      BY <1>8, <2>2, <2>4, <3>1
    <3>3. \A c \in S : \E d \in ToSet(t) : d.for = c.for /\ d.op = c.op
      BY <1>12, <2>2, <2>4 DEF Alike
    <3> QED
      BY <2>4, <3>2, <3>3 DEF Handler
  <2> QED
    BY <2>3, <2>4
<1>23. Awaited'
  <2>1. SUFFICES ASSUME view'.mounted, view'.loading, "again" \notin strayed'
                 PROVE  \E d \in ToSet(t) : d.for = "load" \/ (d.for = "reload" /\ P.fetch.ends)
    BY <1>2, <1>11 DEF Awaited, ToSet
  <2>2. m /\ "again" \notin strayed
    BY <1>3, <1>15, <2>1
  <2>3. CASE new # at
    BY <1>12, <1>13, <2>2, <2>3 DEF Alike
  <2>4. CASE new = at
    <3>1. v.mounted /\ v.loading
      BY <1>4, <1>15, <2>1, <2>2, <2>4
    <3>2. \E c \in S : c.for = "load" \/ (c.for = "reload" /\ P.fetch.ends)
      BY <1>8, <2>2, <2>4, <3>1
    <3>3. \A c \in S : \E d \in ToSet(t) : d.for = c.for
      BY <1>12, <2>2, <2>4 DEF Alike
    <3> QED
      BY <3>2, <3>3
  <2> QED
    BY <2>3, <2>4
<1>24. Owned'
  <2>1. SUFFICES ASSUME dialog' # NoDialog, "opened" \notin strayed', NEW d \in ToSet(t),
                        d.for = "op" \/ (d.for = "reload" /\ "closeForm" \in P.handlers[d.op].last)
                 PROVE  d.own
    BY <1>2, <1>11 DEF Owned, Handler, NoDialog, ToSet
  <2>2. dialog # NoDialog /\ ~shut /\ "opened" \notin strayed
    BY <1>3, <2>1
  <2>3. d \in S
    BY <1>12, <1>13, <2>1, <2>2 DEF Alike
  <2> QED
    BY <1>8, <2>1, <2>2, <2>3 DEF PagesInv, Owned, Handler
<1> QED
  BY <1>16, <1>17, <1>18, <1>19, <1>20, <1>21, <1>22, <1>23, <1>24 DEF PagesInv

-----------------------------------------------------------------------------
(* Choosing                                                                 *)

\* Without the call that ended, the others are as they were.
LEMMA RestOf ==
  ASSUME PagesInv, NEW i \in DOMAIN calls
  PROVE  LET rest == RemoveAt(calls, i)
         IN /\ Sequence(rest) /\ OneLoad(rest)
            /\ ToSet(rest) \subseteq ToSet(calls)
            /\ \A e \in ToSet(calls) : e = calls[i] \/ e \in ToSet(rest)
<1>1. Sequence(calls) /\ OneLoad(calls)
  BY DEF PagesInv, Shapes
<1>2. PICK s : s = calls
  OBVIOUS
<1>3. Sequence(s) /\ OneLoad(s) /\ i \in DOMAIN s
  BY <1>1, <1>2
<1>4. PICK rest : rest = RemoveAt(s, i)
  OBVIOUS
<1>5. /\ Sequence(rest)
      /\ \A j \in DOMAIN rest : \E k \in DOMAIN s \ {i} : rest[j] = s[k]
      /\ \A k \in DOMAIN s \ {i} : \E j \in DOMAIN rest : rest[j] = s[k]
  BY <1>3, <1>4, Removed
<1>6. OneLoad(rest)
  BY <1>3, <1>4, OneLoadLeft
<1>7. ToSet(rest) \subseteq ToSet(s)
  BY <1>5 DEF ToSet
<1>8. \A e \in ToSet(s) : e = s[i] \/ e \in ToSet(rest)
  BY <1>5 DEF ToSet
<1> QED
  BY <1>2, <1>4, <1>5, <1>6, <1>7, <1>8

\* Choosing something else while nothing is answered.
LEMMA ChoiceKeeps ==
  ASSUME PagesInv, NEW new, NEW v, new # at, DOMAIN new = {"page", "filter"},
         IsView(v), Settle(new, FALSE, calls, << >>, v),
         UNCHANGED <<screen, db, shown>>
  PROVE  PagesInv'
<1>1. PICK rest : rest = calls
  OBVIOUS
<1>2. PICK more : more = << >>
  OBVIOUS
<1>3. IsMore(more) /\ ToSet(more) = {}
  BY <1>2 DEF IsMore, ToSet
<1>4. Settle(new, FALSE, rest, more, v)
  BY <1>1, <1>2
<1>5. Sequence(rest) /\ OneLoad(rest) /\ ToSet(rest) \subseteq ToSet(calls)
  BY <1>1 DEF PagesInv, Shapes
<1>6. DOMAIN shown' = {"rows", "total", "of"} /\ screen' = screen
  BY DEF PagesInv, Shapes
<1>7. \A c \in ToSet(more) :
        /\ c.for = "reload" /\ CallSound(c)
        /\ "moved" \notin strayed => WantedAt(c, new)
        /\ dialog # NoDialog /\ "opened" \notin strayed
             /\ "closeForm" \in Handler(c.op).last => c.own
  BY <1>3
<1>8. PICK shut \in BOOLEAN : shut = FALSE
  OBVIOUS
<1>9. Settle(new, shut, rest, more, v)
  BY <1>4, <1>8
<1>10. v.mounted /\ ~v.error /\ "moved" \notin strayed /\ new = at =>
         \/ shown'.of = at
         \/ \E c \in ToSet(rest) \cup ToSet(more) :
              c.for # "op" \/ "clear" \in Handler(c.op).start
  OBVIOUS
<1>11. v.mounted /\ v.loading /\ "again" \notin strayed /\ new = at =>
         \E c \in ToSet(rest) \cup ToSet(more) :
           c.for = "load" \/ (c.for = "reload" /\ P.fetch.ends)
  OBVIOUS
<1>12. P.kind = "one" /\ "moved" \notin strayed /\ new = at
         /\ v.mounted /\ ~v.loading /\ ~v.error =>
         \A j \in DOMAIN shown'.rows : shown'.rows[j].id = at.page
  OBVIOUS
<1> QED
  BY <1>3, <1>5, <1>6, <1>7, <1>9, <1>10, <1>11, <1>12, SettleKeeps

\* Another filter.
LEMMA ChooseFilterKeeps ==
  ASSUME PagesInv, NEW f, ChooseFilter(f)
  PROVE  PagesInv'
<1>1. PICK new : new = [page |-> 1, filter |-> f]
  OBVIOUS
<1>2. PICK v : v = view
  OBVIOUS
<1>3. new # at /\ DOMAIN new = {"page", "filter"}
  BY <1>1 DEF ChooseFilter
<1>4. Settle(new, FALSE, calls, << >>, v) /\ UNCHANGED <<screen, db, shown>>
  BY <1>1, <1>2 DEF ChooseFilter
<1> QED
  BY <1>2, <1>3, <1>4, ChoiceKeeps DEF PagesInv, Shapes

\* Another row, through the URL.
LEMMA VisitKeeps ==
  ASSUME PagesInv, NEW r, Visit(r)
  PROVE  PagesInv'
<1>1. PICK new : new = [at EXCEPT !.page = r]
  OBVIOUS
<1>2. PICK v : v = view
  OBVIOUS
<1>3. new # at /\ DOMAIN new = {"page", "filter"}
  BY <1>1 DEF Visit, PagesInv, Shapes
<1>4. Settle(new, FALSE, calls, << >>, v) /\ UNCHANGED <<screen, db, shown>>
  BY <1>1, <1>2 DEF Visit
<1> QED
  BY <1>2, <1>3, <1>4, ChoiceKeeps DEF PagesInv, Shapes

\* Another page of the list.
LEMMA TurnKeeps ==
  ASSUME PagesInv, NEW n, Turn(n)
  PROVE  PagesInv'
<1>1. PICK v : v = [view EXCEPT !.loading = @ \/ P.pager.spins]
  OBVIOUS
<1>2. IsView(v) /\ v.mounted = view.mounted /\ v.error = view.error
  BY <1>1 DEF PagesInv, Shapes, IsView
<1>3. UNCHANGED <<screen, db, shown>>
  BY DEF Turn
<1>4. CASE n # at.page /\ Settle([at EXCEPT !.page = n], FALSE, calls, << >>, v)
  <2>1. PICK new : new = [at EXCEPT !.page = n]
    OBVIOUS
  <2>2. new # at /\ DOMAIN new = {"page", "filter"}
    BY <1>4, <2>1 DEF PagesInv, Shapes
  <2>3. Settle(new, FALSE, calls, << >>, v)
    BY <1>4, <2>1
  <2> QED
    BY <1>2, <1>3, <2>2, <2>3, ChoiceKeeps
<1>5. CASE /\ view' = v /\ strayed' = strayed \cup {"again"}
           /\ UNCHANGED <<at, dialog, calls>>
  <2>1. P' = P
    BY <1>3 DEF P
  <2>2. dialog = NoDialog /\ P.kind # "one"
    BY DEF Turn, PagerTargets
  <2>3. Shapes' /\ OneLoad(calls)' /\ CallsSound'
    BY <1>2, <1>3, <1>5, <2>1
       DEF PagesInv, Shapes, IsView, Sequence, OneLoad, Cancelled, CallsSound, CallSound, IsCall, Moves
  <2>4. Wanted' /\ OfUrl' /\ DialogSound' /\ Owned'
    BY <1>5, <2>1, <2>2
       DEF PagesInv, Wanted, WantedAt, First, Handler, OfUrl, DialogSound, Owned, NoDialog
  <2>5. Fresh' /\ Awaited'
    BY <1>2, <1>3, <1>5, <2>1 DEF PagesInv, Fresh, Awaited, Handler
  <2> QED
    BY <2>3, <2>4, <2>5 DEF PagesInv
<1> QED
  BY <1>1, <1>4, <1>5 DEF Turn

-----------------------------------------------------------------------------
(* Answers to readings, and failures                                        *)

\* What is chosen once a handler has run.
LEMMA AtAfterIs ==
  ASSUME NEW effs, NEW c, NEW new, DOMAIN at = {"page", "filter"}
  PROVE  /\ DOMAIN AtAfter(effs, c, new) = {"page", "filter"}
         /\ "first" \in effs => AtAfter(effs, c, new) = First(at)
         /\ "first" \notin effs /\ "page1" \in effs => AtAfter(effs, c, new) = [at EXCEPT !.page = 1]
         /\ effs \cap {"first", "page1", "follow"} = {} => AtAfter(effs, c, new) = at
  BY DEF AtAfter, First

\* A reading ends.
LEMMA ReadingEndsKeeps ==
  ASSUME PagesInv, NEW i \in DOMAIN calls, NEW ok \in BOOLEAN, ReadingEnds(i, ok),
         ok => calls[i].ans.is = "rows"
  PROVE  PagesInv'
<1>1. PICK c : c = calls[i]
  OBVIOUS
<1>2. c \in ToSet(calls) /\ CallSound(c) /\ c.for # "op"
  BY <1>1 DEF ReadingEnds, PagesInv, CallsSound, ToSet
<1>3. PICK reading : reading = IF c.for = "load" THEN P.effect ELSE P.fetch
  OBVIOUS
<1>4. PICK effs : effs = IF c.for = "load" THEN {}
                         ELSE IF ok THEN Handler(c.op).last ELSE Handler(c.op).last \ {"first"}
  OBVIOUS
<1>5. PICK v : v = ViewAfter(Freed(Ended(view, reading, ok), c), effs)
  OBVIOUS
<1>6. PICK new : new = AtAfter(effs, c, 0)
  OBVIOUS
<1>7. PICK shut \in BOOLEAN : shut = Closes(effs, c)
  BY DEF Closes
<1>8. PICK rest : rest = RemoveAt(calls, i)
  OBVIOUS
<1>9. PICK more : more = << >>
  OBVIOUS
<1>10. PageSound(P)
  BY PagesSound DEF PagesInv, Shapes
<1>11. effs \subseteq {"first", "closeForm"}
  BY <1>2, <1>4, <1>10 DEF CallSound, PageSound, HandlerSound, Handler
<1>12. /\ IsView(v) /\ (v.loading <=> view.loading /\ ~reading.ends)
       /\ (v.error <=> ~ok \/ (view.error /\ reading.clears # "ok"))
       /\ v.mounted = view.mounted
  <2>1. PICK u : u = Ended(view, reading, ok)
    OBVIOUS
  <2>2. /\ IsView(u) /\ (u.error <=> ~ok \/ (view.error /\ reading.clears # "ok"))
        /\ (u.loading <=> view.loading /\ ~reading.ends)
        /\ u.mounted = view.mounted
    <3>1. PICK w : w = view
      OBVIOUS
    <3>2. IsView(w)
      BY <3>1 DEF PagesInv, Shapes
    <3> QED
      BY <2>1, <3>1, <3>2, EndedIs
  <2>3. PICK w : w = Freed(u, c)
    OBVIOUS
  <2>4. /\ IsView(w) /\ w.error = u.error
        /\ w.loading = u.loading /\ w.mounted = u.mounted
    BY <2>2, <2>3, FreedIs
  <2>5. v = ViewAfter(w, effs)
    BY <1>5, <2>1, <2>3
  <2>6. /\ IsView(v) /\ (v.error <=> (w.error \/ "error" \in effs) /\ "clear" \notin effs)
        /\ (v.loading <=> w.loading /\ "ready" \notin effs)
        /\ (v.mounted <=> w.mounted /\ "leave" \notin effs)
    BY <2>4, <2>5, ViewAfterIs
  <2> QED
    BY <1>11, <2>2, <2>4, <2>6 DEF IsView
<1>13. /\ UNCHANGED <<screen, db>>
       /\ shown' = IF ok THEN [rows |-> c.ans.rows, total |-> c.ans.total, of |-> c.want] ELSE shown
       /\ Settle(new, shut, rest, more, v)
  BY <1>1, <1>3, <1>4, <1>5, <1>6, <1>7, <1>8, <1>9 DEF ReadingEnds
<1>14. DOMAIN new = {"page", "filter"} /\ DOMAIN shown' = {"rows", "total", "of"}
  BY <1>6, <1>13, AtAfterIs DEF PagesInv, Shapes
<1>15. /\ Sequence(rest) /\ OneLoad(rest) /\ ToSet(rest) \subseteq ToSet(calls)
       /\ \A e \in ToSet(calls) : e = c \/ e \in ToSet(rest)
  BY <1>1, <1>8, RestOf
<1>16. IsMore(more) /\ ToSet(more) = {}
  BY <1>9 DEF IsMore, ToSet
<1>17. \A d \in ToSet(more) :
         /\ d.for = "reload" /\ CallSound(d)
         /\ "moved" \notin strayed => WantedAt(d, new)
         /\ dialog # NoDialog /\ "opened" \notin strayed
              /\ "closeForm" \in Handler(d.op).last => d.own
  BY <1>16
\* What was read is what is chosen now.
<1>18. ASSUME "moved" \notin strayed, new = at, ok PROVE c.want = at
  <2>1. WantedAt(c, at)
    BY <1>2, <1>18 DEF PagesInv, Wanted
  <2>2. CASE c.for = "reload" /\ "first" \in Handler(c.op).last /\ c.want = First(at)
    <3>1. "first" \in effs
      BY <1>4, <1>18, <2>2
    <3> QED
      BY <1>6, <1>18, <2>2, <3>1 DEF AtAfter
  <2> QED
    BY <2>1, <2>2 DEF WantedAt
<1>19. v.mounted /\ ~v.error /\ "moved" \notin strayed /\ new = at =>
         \/ shown'.of = at
         \/ \E d \in ToSet(rest) \cup ToSet(more) :
              d.for # "op" \/ "clear" \in Handler(d.op).start
  BY <1>12, <1>13, <1>18
<1>20. v.mounted /\ v.loading /\ "again" \notin strayed /\ new = at =>
         \E d \in ToSet(rest) \cup ToSet(more) :
           d.for = "load" \/ (d.for = "reload" /\ P.fetch.ends)
  <2>1. SUFFICES ASSUME v.mounted, v.loading, "again" \notin strayed
                 PROVE  \E d \in ToSet(rest) :
                          d.for = "load" \/ (d.for = "reload" /\ P.fetch.ends)
    OBVIOUS
  <2>2. PICK e \in ToSet(calls) : e.for = "load" \/ (e.for = "reload" /\ P.fetch.ends)
    BY <1>12, <2>1 DEF PagesInv, Awaited
  <2>3. e # c
    BY <1>3, <1>10, <1>12, <2>1, <2>2 DEF PageSound
  <2> QED
    BY <1>15, <2>2, <2>3
<1>21. P.kind = "one" /\ "moved" \notin strayed /\ new = at
         /\ v.mounted /\ ~v.loading /\ ~v.error =>
         \A j \in DOMAIN shown'.rows : shown'.rows[j].id = at.page
  <2>1. SUFFICES ASSUME P.kind = "one", "moved" \notin strayed, new = at, ~v.error
                 PROVE  \A j \in DOMAIN shown'.rows : shown'.rows[j].id = at.page
    OBVIOUS
  <2>2. ok /\ c.want = at
    BY <1>12, <1>18, <2>1
  <2>3. shown'.rows = c.ans.rows /\ c.ans.is = "rows"
    BY <1>1, <1>13, <2>2
  <2> QED
    BY <1>2, <2>1, <2>2, <2>3 DEF CallSound
<1> QED
  BY <1>12, <1>13, <1>14, <1>15, <1>16, <1>17, <1>19, <1>20, <1>21, SettleKeeps

\* An operation fails.
LEMMA OpFailsKeeps ==
  ASSUME PagesInv, NEW i \in DOMAIN calls, OpFails(i)
  PROVE  PagesInv'
<1>1. PICK c : c = calls[i]
  OBVIOUS
<1>2. c \in ToSet(calls) /\ CallSound(c) /\ c.for = "op"
  BY <1>1 DEF OpFails, PagesInv, CallsSound, ToSet
<1>3. PICK effs : effs = Handler(c.op).fail
  OBVIOUS
<1>4. PICK v : v = Freed(ViewAfter(view, effs), c)
  OBVIOUS
<1>5. PICK new : new = at
  OBVIOUS
<1>6. PICK shut \in BOOLEAN : shut = Closes(effs, c)
  BY DEF Closes
<1>7. PICK rest : rest = RemoveAt(calls, i)
  OBVIOUS
<1>8. PICK more : more = << >>
  OBVIOUS
<1>9. PageSound(P) /\ HandlerSound(Handler(c.op), c.op, P.kind)
  BY <1>2, PagesSound DEF PagesInv, Shapes, CallSound, PageSound, Handler
<1>10. /\ IsView(v) /\ (v.error <=> (view.error \/ "error" \in effs) /\ "clear" \notin effs)
       /\ (v.loading <=> view.loading /\ "ready" \notin effs)
       /\ (v.mounted <=> view.mounted /\ "leave" \notin effs)
  <2>1. PICK u : u = view
    OBVIOUS
  <2>2. IsView(u)
    BY <2>1 DEF PagesInv, Shapes
  <2>3. PICK w : w = ViewAfter(u, effs)
    OBVIOUS
  <2>4. /\ IsView(w) /\ (w.error <=> (u.error \/ "error" \in effs) /\ "clear" \notin effs)
        /\ (w.loading <=> u.loading /\ "ready" \notin effs)
        /\ (w.mounted <=> u.mounted /\ "leave" \notin effs)
    BY <2>2, <2>3, ViewAfterIs
  <2>5. v = Freed(w, c)
    BY <1>4, <2>1, <2>3
  <2>6. IsView(v) /\ v.error = w.error /\ v.loading = w.loading /\ v.mounted = w.mounted
    BY <2>4, <2>5, FreedIs
  <2> QED
    BY <2>1, <2>4, <2>6
<1>11. UNCHANGED <<screen, db>> /\ shown' = shown /\ Settle(new, shut, rest, more, v)
  BY <1>1, <1>3, <1>4, <1>5, <1>6, <1>7, <1>8 DEF OpFails
<1>12. DOMAIN new = {"page", "filter"} /\ DOMAIN shown' = {"rows", "total", "of"}
  BY <1>5, <1>11 DEF PagesInv, Shapes
<1>13. /\ Sequence(rest) /\ OneLoad(rest) /\ ToSet(rest) \subseteq ToSet(calls)
       /\ \A e \in ToSet(calls) : e = c \/ e \in ToSet(rest)
  BY <1>1, <1>7, RestOf
<1>14. IsMore(more) /\ ToSet(more) = {}
  BY <1>8 DEF IsMore, ToSet
<1>15. \A d \in ToSet(more) :
         /\ d.for = "reload" /\ CallSound(d)
         /\ "moved" \notin strayed => WantedAt(d, new)
         /\ dialog # NoDialog /\ "opened" \notin strayed
              /\ "closeForm" \in Handler(d.op).last => d.own
  BY <1>14
<1>16. v.mounted /\ ~v.error /\ "moved" \notin strayed /\ new = at =>
         \/ shown'.of = at
         \/ \E d \in ToSet(rest) \cup ToSet(more) :
              d.for # "op" \/ "clear" \in Handler(d.op).start
  <2>1. SUFFICES ASSUME v.mounted, ~v.error, "moved" \notin strayed
                 PROVE  \/ shown'.of = at
                        \/ \E d \in ToSet(rest) : d.for # "op" \/ "clear" \in Handler(d.op).start
    OBVIOUS
  <2>2. "clear" \notin effs /\ "error" \notin effs /\ "clear" \notin Handler(c.op).start
    BY <1>3, <1>9, <1>10, <2>1 DEF HandlerSound
  <2>3. view.mounted /\ ~view.error
    BY <1>10, <2>1, <2>2
  <2>4. \/ shown.of = at
        \/ \E e \in ToSet(calls) : e.for # "op" \/ "clear" \in Handler(e.op).start
    BY <2>1, <2>3 DEF PagesInv, Fresh
  <2> QED
    BY <1>2, <1>11, <1>13, <2>2, <2>4
<1>17. v.mounted /\ v.loading /\ "again" \notin strayed /\ new = at =>
         \E d \in ToSet(rest) \cup ToSet(more) :
           d.for = "load" \/ (d.for = "reload" /\ P.fetch.ends)
  <2>1. SUFFICES ASSUME v.mounted, v.loading, "again" \notin strayed
                 PROVE  \E d \in ToSet(rest) :
                          d.for = "load" \/ (d.for = "reload" /\ P.fetch.ends)
    OBVIOUS
  <2>2. PICK e \in ToSet(calls) : e.for = "load" \/ (e.for = "reload" /\ P.fetch.ends)
    BY <1>10, <2>1 DEF PagesInv, Awaited
  <2> QED
    BY <1>2, <1>13, <2>2
<1>18. P.kind = "one" /\ "moved" \notin strayed /\ new = at
         /\ v.mounted /\ ~v.loading /\ ~v.error =>
         \A j \in DOMAIN shown'.rows : shown'.rows[j].id = at.page
  <2>1. P.kind = "one" => "ready" \notin effs /\ "clear" \notin effs
    BY <1>3, <1>9 DEF HandlerSound
  <2> QED
    BY <1>10, <1>11, <2>1 DEF PagesInv, OfUrl
<1> QED
  BY <1>10, <1>11, <1>12, <1>13, <1>14, <1>15, <1>16, <1>17, <1>18, SettleKeeps

\* An operation succeeds.
LEMMA SucceedsKeeps ==
  ASSUME PagesInv, NEW i \in DOMAIN calls, Succeeds(i)
  PROVE  PagesInv'
<1>1. PICK c : c = calls[i]
  OBVIOUS
<1>2. c \in ToSet(calls) /\ CallSound(c) /\ c.for = "op" /\ c.ans.is = "row"
  BY <1>1 DEF Succeeds, PagesInv, CallsSound, ToSet
<1>3. PICK h : h = Handler(c.op)
  OBVIOUS
<1>4. PICK effs : effs = h.ok
  OBVIOUS
<1>5. PICK want : want = Target(h.fetch, c.want)
  OBVIOUS
<1>6. PICK reload : reload = [c EXCEPT !.for = "reload", !.want = want, !.ans = Answer(want),
                                       !.own = @ /\ "closeForm" \in h.last]
  OBVIOUS
<1>7. PICK done : done = ViewAfter(view, effs)
  OBVIOUS
<1>8. PICK v : v = IF h.fetch = "no" THEN Freed(done, c) ELSE Started(done, P.fetch)
  OBVIOUS
<1>9. PICK new : new = AtAfter(effs, c, c.ans.row.id)
  OBVIOUS
<1>10. PICK shut \in BOOLEAN : shut = Closes(effs, c)
  BY DEF Closes
<1>11. PICK rest : rest = RemoveAt(calls, i)
  OBVIOUS
<1>12. PICK more : more = IF h.fetch = "no" THEN << >> ELSE <<reload>>
  OBVIOUS
<1>13. PageSound(P) /\ HandlerSound(h, c.op, P.kind)
  BY <1>2, <1>3, PagesSound DEF PagesInv, Shapes, CallSound, PageSound, Handler
<1>14. /\ UNCHANGED <<screen, db>>
       /\ shown' = IF "show" \in effs THEN [shown EXCEPT !.rows = <<c.ans.row>>, !.of = c.want]
                   ELSE shown
       /\ Settle(new, shut, rest, more, v)
  BY <1>1, <1>3, <1>4, <1>5, <1>6, <1>7, <1>8, <1>9, <1>10, <1>11, <1>12 DEF Succeeds
<1>15. /\ IsView(done)
       /\ done.error <=> (view.error \/ "error" \in effs) /\ "clear" \notin effs
       /\ done.loading <=> view.loading /\ "ready" \notin effs
       /\ done.mounted <=> view.mounted /\ "leave" \notin effs
  <2>1. PICK u : u = view
    OBVIOUS
  <2>2. IsView(u)
    BY <2>1 DEF PagesInv, Shapes
  <2> QED
    BY <1>7, <2>1, <2>2, ViewAfterIs
<1>16. /\ IsView(v) /\ v.mounted = done.mounted
       /\ h.fetch = "no" => v.error = done.error /\ v.loading = done.loading
       /\ h.fetch # "no" => (v.loading <=> done.loading \/ P.fetch.starts)
  <2>1. CASE h.fetch = "no"
    BY <1>8, <1>15, <2>1, FreedIs
  <2>2. CASE h.fetch # "no"
    <3>1. PICK reading : reading = P.fetch
      OBVIOUS
    <3>2. v = Started(done, reading)
      BY <1>8, <2>2, <3>1
    <3>3. IsView(v) /\ v.mounted = done.mounted /\ (v.loading <=> done.loading \/ reading.starts)
      BY <1>15, <3>2, StartedIs
    <3> QED
      BY <2>2, <3>1, <3>3
  <2> QED
    BY <2>1, <2>2
<1>17. DOMAIN new = {"page", "filter"} /\ DOMAIN shown' = {"rows", "total", "of"}
  <2>1. DOMAIN new = {"page", "filter"}
    BY <1>9, AtAfterIs DEF PagesInv, Shapes
  <2>2. DOMAIN shown' = DOMAIN shown
    BY <1>14
  <2> QED
    BY <2>1, <2>2 DEF PagesInv, Shapes
<1>18. /\ Sequence(rest) /\ OneLoad(rest) /\ ToSet(rest) \subseteq ToSet(calls)
       /\ \A e \in ToSet(calls) : e = c \/ e \in ToSet(rest)
  BY <1>1, <1>11, RestOf
<1>19. /\ IsCall(reload) /\ reload.for = "reload" /\ reload.op = c.op
       /\ reload.want = want /\ reload.ans = Answer(want)
       /\ reload.own <=> c.own /\ "closeForm" \in h.last
  <2>1. PICK a : a = Answer(want)
    OBVIOUS
  <2>2. PICK o \in BOOLEAN : o <=> c.own /\ "closeForm" \in h.last
    OBVIOUS
  <2>3. PICK d : d = [c EXCEPT !.for = "reload"]
    OBVIOUS
  <2>4. PICK e : e = [d EXCEPT !.want = want]
    OBVIOUS
  <2>5. PICK f : f = [e EXCEPT !.ans = a]
    OBVIOUS
  <2>6. reload = [f EXCEPT !.own = @ /\ "closeForm" \in h.last]
    BY <1>6, <2>1, <2>3, <2>4, <2>5
  <2>7. IsCall(c)
    BY <1>2 DEF CallSound
  <2>8. IsCall(d) /\ d.for = "reload" /\ d.op = c.op /\ d.own = c.own
    BY <2>3, <2>7 DEF IsCall
  <2>9. IsCall(e) /\ e.for = "reload" /\ e.op = c.op /\ e.own = c.own /\ e.want = want
    BY <2>4, <2>8 DEF IsCall
  <2>10. /\ IsCall(f) /\ f.for = "reload" /\ f.op = c.op /\ f.own = c.own
         /\ f.want = want /\ f.ans = a
    BY <2>5, <2>9 DEF IsCall
  <2> QED
    BY <2>1, <2>6, <2>10 DEF IsCall
<1>20. CallSound(reload)
  BY <1>2, <1>19, AnswerIs DEF CallSound
<1>21. IsMore(more) /\ ToSet(more) = IF h.fetch = "no" THEN {} ELSE {reload}
  BY <1>12, <1>19 DEF IsMore, ToSet
<1>22. "moved" \notin strayed => c.want = at
  BY <1>2 DEF PagesInv, Wanted, WantedAt
<1>23. "moved" \notin strayed /\ h.fetch # "no" => WantedAt(reload, new)
  <2>1. SUFFICES ASSUME c.want = at, h.fetch # "no"
                 PROVE  \/ want = new
                        \/ "first" \in h.last /\ want = First(new)
    BY <1>3, <1>19, <1>22 DEF WantedAt
  <2>2. CASE h.fetch = "same"
    BY <1>4, <1>5, <1>9, <1>13, <2>1, <2>2 DEF HandlerSound, Target, AtAfter
  <2>3. CASE h.fetch = "page1"
    BY <1>4, <1>5, <1>9, <1>13, <2>1, <2>3 DEF HandlerSound, Target, AtAfter
  <2>4. CASE h.fetch = "first"
    BY <1>4, <1>5, <1>9, <1>13, <2>1, <2>4 DEF HandlerSound, Target, AtAfter
  <2> QED
    BY <1>13, <2>1, <2>2, <2>3, <2>4 DEF HandlerSound
<1>24. \A d \in ToSet(more) :
         /\ d.for = "reload" /\ CallSound(d)
         /\ "moved" \notin strayed => WantedAt(d, new)
         /\ dialog # NoDialog /\ "opened" \notin strayed
              /\ "closeForm" \in Handler(d.op).last => d.own
  <2>1. dialog # NoDialog /\ "opened" \notin strayed => c.own
    BY <1>2 DEF PagesInv, Owned
  <2> QED
    BY <1>3, <1>19, <1>20, <1>21, <1>23, <2>1
<1>25. v.mounted /\ ~v.error /\ "moved" \notin strayed /\ new = at =>
         \/ shown'.of = at
         \/ \E d \in ToSet(rest) \cup ToSet(more) :
              d.for # "op" \/ "clear" \in Handler(d.op).start
  <2>1. SUFFICES ASSUME v.mounted, ~v.error, "moved" \notin strayed, h.fetch = "no"
                 PROVE  \/ shown'.of = at
                        \/ \E d \in ToSet(rest) : d.for # "op" \/ "clear" \in Handler(d.op).start
    BY <1>19, <1>21
  <2>2. "clear" \notin effs /\ "clear" \notin h.start
    BY <1>4, <1>13, <2>1 DEF HandlerSound
  <2>3. view.mounted /\ ~view.error
    BY <1>15, <1>16, <2>1, <2>2
  <2>4. \/ shown.of = at
        \/ \E e \in ToSet(calls) : e.for # "op" \/ "clear" \in Handler(e.op).start
    BY <2>1, <2>3 DEF PagesInv, Fresh
  <2>5. CASE "show" \in effs
    <3>1. shown'.of = c.want
      BY <1>14, <2>5 DEF PagesInv, Shapes
    <3> QED
      BY <1>22, <2>1, <3>1
  <2>6. CASE "show" \notin effs
    BY <1>2, <1>3, <1>14, <1>18, <2>2, <2>4, <2>6
  <2> QED
    BY <2>5, <2>6
<1>26. v.mounted /\ v.loading /\ "again" \notin strayed /\ new = at =>
         \E d \in ToSet(rest) \cup ToSet(more) :
           d.for = "load" \/ (d.for = "reload" /\ P.fetch.ends)
  <2>1. CASE h.fetch # "no" /\ P.fetch.ends
    BY <1>19, <1>21, <2>1
  <2>2. CASE ~(h.fetch # "no" /\ P.fetch.ends)
    <3>1. v.loading => view.loading
      BY <1>13, <1>15, <1>16, <2>2 DEF PageSound
    <3>2. SUFFICES ASSUME view.mounted, view.loading, "again" \notin strayed
                   PROVE  \E d \in ToSet(rest) :
                            d.for = "load" \/ (d.for = "reload" /\ P.fetch.ends)
      BY <1>15, <1>16, <3>1
    <3>3. PICK e \in ToSet(calls) : e.for = "load" \/ (e.for = "reload" /\ P.fetch.ends)
      BY <3>2 DEF PagesInv, Awaited
    <3> QED
      BY <1>2, <1>18, <3>3
  <2> QED
    BY <2>1, <2>2
<1>27. P.kind = "one" /\ "moved" \notin strayed /\ new = at
         /\ v.mounted /\ ~v.loading /\ ~v.error =>
         \A j \in DOMAIN shown'.rows : shown'.rows[j].id = at.page
  <2>1. SUFFICES ASSUME P.kind = "one", "moved" \notin strayed,
                        v.mounted, ~v.loading, ~v.error
                 PROVE  \A j \in DOMAIN shown'.rows : shown'.rows[j].id = at.page
    OBVIOUS
  <2>2. h.fetch = "no"
    BY <1>13, <1>16, <2>1 DEF PageSound
  <2>3. "ready" \notin effs /\ "clear" \notin effs
    BY <1>4, <1>13, <2>1 DEF HandlerSound
  <2>4. view.mounted /\ ~view.loading /\ ~view.error
    BY <1>15, <1>16, <2>1, <2>2, <2>3
  <2>5. CASE "show" \in effs
    <3>1. c.ans.row.id = at.page
      BY <1>2, <1>4, <1>13, <1>22, <2>1, <2>5 DEF CallSound, HandlerSound
    <3>2. shown'.rows = <<c.ans.row>>
      BY <1>14, <2>5 DEF PagesInv, Shapes
    <3> QED
      BY <3>1, <3>2
  <2>6. CASE "show" \notin effs
    BY <1>14, <2>1, <2>4, <2>6 DEF PagesInv, OfUrl
  <2> QED
    BY <2>5, <2>6
<1> QED
  BY <1>14, <1>16, <1>17, <1>18, <1>21, <1>24, <1>25, <1>26, <1>27, SettleKeeps

-----------------------------------------------------------------------------
(* The server and other users                                               *)

\* Another user changes a row.
LEMMA OtherKeeps ==
  ASSUME PagesInv, NEW r, Other(r)
  PROVE  PagesInv'
<1>1. UNCHANGED <<screen, at, shown, view, dialog, calls, strayed>>
  BY DEF Other
<1>2. P' = P
  BY <1>1 DEF P
<1> QED
  BY <1>1, <1>2
     DEF PagesInv, Shapes, IsView, Sequence, OneLoad, Cancelled, CallsSound, CallSound, IsCall, Moves,
         Wanted, WantedAt, First, Handler, OfUrl, DialogSound, Fresh, Awaited, Owned, NoDialog

\* The server serves an operation.
LEMMA ServeKeeps ==
  ASSUME PagesInv, NEW i \in DOMAIN calls, Serve(i)
  PROVE  PagesInv'
<1>1. UNCHANGED <<screen, at, shown, view, dialog, strayed>>
  BY DEF Serve
<1>2. P' = P
  BY <1>1 DEF P
<1>3. PICK c : c = calls[i]
  OBVIOUS
<1>4. c \in ToSet(calls) /\ CallSound(c) /\ c.ans = Pending
  BY <1>3 DEF Serve, PagesInv, CallsSound, ToSet
<1>5. c.for = "op"
  BY <1>4 DEF CallSound
\* What is answered about another row than the call's is a new row.
<1>6. PICK ans : /\ calls' = [calls EXCEPT ![i].ans = ans]
                 /\ ans # Pending
                 /\ ans.is = "row" /\ c.op \notin {"create", "revision"} => ans.row.id = c.id
  <2>1. CASE calls' = [calls EXCEPT ![i].ans = Refused]
    <3>1. PICK ans : ans = Refused
      OBVIOUS
    <3>2. ans.is = "refused"
      BY <3>1 DEF Refused
    <3>3. ans # Pending /\ ans.is # "row"
      BY <3>2 DEF Pending
    <3> QED
      BY <2>1, <3>1, <3>3
  <2>2. CASE \E r \in RowIds :
               \E m \in Moves(IF c.op = "revision" THEN "create" ELSE c.op, db[r]) :
                 /\ c.op \notin {"create", "revision"} => r = c.id
                 /\ calls' = [calls EXCEPT ![i].ans = [is |-> "row",
                                                       row |-> [id |-> r, state |-> m[3]]]]
    <3>1. PICK r \in RowIds :
               \E m \in Moves(IF c.op = "revision" THEN "create" ELSE c.op, db[r]) :
                 /\ c.op \notin {"create", "revision"} => r = c.id
                 /\ calls' = [calls EXCEPT ![i].ans = [is |-> "row",
                                                       row |-> [id |-> r, state |-> m[3]]]]
      BY <2>2
    <3>2. PICK m \in Moves(IF c.op = "revision" THEN "create" ELSE c.op, db[r]) :
                 /\ c.op \notin {"create", "revision"} => r = c.id
                 /\ calls' = [calls EXCEPT ![i].ans = [is |-> "row",
                                                       row |-> [id |-> r, state |-> m[3]]]]
      BY <3>1
    <3>3. PICK ans : ans = [is |-> "row", row |-> [id |-> r, state |-> m[3]]]
      OBVIOUS
    <3>4. /\ calls' = [calls EXCEPT ![i].ans = ans]
          /\ c.op \notin {"create", "revision"} => ans.row.id = c.id
      BY <3>2, <3>3
    <3>5. ans # Pending
      BY <3>3 DEF Pending
    <3> QED
      BY <3>4, <3>5
  <2> QED
    BY <1>3, <2>1, <2>2 DEF Serve
<1>7. PICK t : t = calls'
  OBVIOUS
<1>8. PICK d : d = [c EXCEPT !.ans = ans]
  OBVIOUS
<1>9. /\ DOMAIN d = DOMAIN c /\ d.for = c.for /\ d.op = c.op /\ d.id = c.id
      /\ d.opened = c.opened /\ d.saw = c.saw /\ d.want = c.want /\ d.own = c.own
      /\ d.ans = ans
  BY <1>4, <1>8 DEF CallSound, IsCall
<1>10. t = [calls EXCEPT ![i] = d]
  BY <1>3, <1>6, <1>7, <1>8
<1>11. DOMAIN t = DOMAIN calls /\ t[i] = d /\ \A j \in DOMAIN calls \ {i} : t[j] = calls[j]
  BY <1>10
<1>12. Sequence(t)
  <2>1. Sequence(calls)
    BY DEF PagesInv, Shapes
  <2> QED
    BY <1>10, <2>1, Replaced
<1>13. ToSet(t) \subseteq ToSet(calls) \cup {d} /\ d \in ToSet(t)
       /\ \A e \in ToSet(calls) : e = c \/ e \in ToSet(t)
  BY <1>3, <1>11 DEF ToSet
<1>14. CallSound(d)
  BY <1>4, <1>5, <1>6, <1>9 DEF CallSound, IsCall
<1>15. Shapes'
  BY <1>1, <1>7, <1>12 DEF PagesInv, Shapes, IsView, Sequence, ToSet
<1>16. OneLoad(calls)'
  BY <1>2, <1>3, <1>5, <1>7, <1>9, <1>11 DEF PagesInv, OneLoad, Cancelled
<1>17. CallsSound'
  <2>1. \A e \in ToSet(t) : CallSound(e)
    BY <1>13, <1>14 DEF PagesInv, CallsSound
  <2> QED
    BY <1>2, <1>7, <2>1 DEF CallsSound, CallSound, IsCall, Moves, ToSet
<1>18. Wanted'
  <2>1. "moved" \notin strayed => \A e \in ToSet(t) : WantedAt(e, at)
    BY <1>4, <1>9, <1>13 DEF PagesInv, Wanted, WantedAt
  <2> QED
    BY <1>1, <1>2, <1>7, <2>1 DEF Wanted, WantedAt, First, Handler, ToSet
<1>19. OfUrl'
  <2>1. P.kind = "one" /\ "moved" \notin strayed =>
          \A e \in ToSet(t) : e.for = "op" => e.id = e.opened
    BY <1>4, <1>9, <1>13 DEF PagesInv, OfUrl
  <2> QED
    BY <1>1, <1>2, <1>7, <2>1 DEF PagesInv, OfUrl, NoDialog, ToSet
<1>20. DialogSound'
  BY <1>1, <1>2 DEF PagesInv, DialogSound, NoDialog, Moves
<1>21. Fresh'
  <2>1. view.mounted /\ ~view.error /\ "moved" \notin strayed =>
          \/ shown.of = at
          \/ \E e \in ToSet(t) : e.for # "op" \/ "clear" \in Handler(e.op).start
    BY <1>9, <1>13 DEF PagesInv, Fresh
  <2> QED
    BY <1>1, <1>2, <1>7, <2>1 DEF Fresh, Handler, ToSet
<1>22. Awaited'
  <2>1. view.loading /\ view.mounted /\ "again" \notin strayed =>
          \E e \in ToSet(t) : e.for = "load" \/ (e.for = "reload" /\ P.fetch.ends)
    BY <1>9, <1>13 DEF PagesInv, Awaited
  <2> QED
    BY <1>1, <1>2, <1>7, <2>1 DEF Awaited, ToSet
<1>23. Owned'
  <2>1. dialog # NoDialog /\ "opened" \notin strayed =>
          \A e \in ToSet(t) :
            e.for = "op" \/ (e.for = "reload" /\ "closeForm" \in Handler(e.op).last) => e.own
    BY <1>4, <1>9, <1>13 DEF PagesInv, Owned
  <2> QED
    BY <1>1, <1>2, <1>7, <2>1 DEF Owned, Handler, NoDialog, ToSet
<1> QED
  BY <1>15, <1>16, <1>17, <1>18, <1>19, <1>20, <1>21, <1>22, <1>23 DEF PagesInv

-----------------------------------------------------------------------------
(* Dialogs and buttons                                                      *)

\* A dialog is opened.
LEMMA OpenKeeps ==
  ASSUME PagesInv, NEW op, NEW r, Open(op, r)
  PROVE  PagesInv'
<1>1. UNCHANGED <<screen, db, at, shown, view, calls>> /\ dialog = NoDialog
  BY DEF Open
<1>2. P' = P /\ PageSound(P)
  BY <1>1, PagesSound DEF P, PagesInv, Shapes
<1>3. PICK d : d = [op |-> op, row |-> r]
  OBVIOUS
<1>4. dialog' = d /\ d.op = op /\ d.row = r
  BY <1>3 DEF Open
<1>5. strayed \subseteq strayed'
  BY DEF Open
<1>6. \/ r \in Rows /\ Offered(op, r)
      \/ op \in P.header /\ r = [id |-> 0, state |-> "none"]
  BY DEF Open
<1>7. op \in DOMAIN P.handlers /\ Moves(op, r.state) # {}
  <2>1. CASE Offered(op, r)
    BY <1>2, <2>1 DEF Offered, Entry, PageSound, Moves
  <2>2. CASE op \in P.header /\ r = [id |-> 0, state |-> "none"]
    BY <1>2, <2>2 DEF PageSound, Moves
  <2> QED
    BY <1>6, <2>1, <2>2
<1>8. Shapes' /\ OneLoad(calls)' /\ CallsSound'
  BY <1>1, <1>2
     DEF PagesInv, Shapes, IsView, Sequence, OneLoad, Cancelled, CallsSound, CallSound, IsCall, Moves
<1>9. Wanted' /\ Fresh' /\ Awaited'
  BY <1>1, <1>2, <1>5 DEF PagesInv, Wanted, WantedAt, First, Handler, Fresh, Awaited
<1>10. OfUrl'
  <2>1. P.kind = "one" /\ "moved" \notin strayed => r.id = at.page
    <3>1. SUFFICES ASSUME P.kind = "one", "moved" \notin strayed
                   PROVE  r.id = at.page
      OBVIOUS
    <3>2. r \in Rows
      BY <1>2, <1>6, <3>1 DEF PageSound
    <3>3. view.mounted /\ ~view.loading /\ ~view.error
      BY <3>1, <3>2 DEF Rows
    <3>4. \E i \in DOMAIN shown.rows : r = shown.rows[i]
      BY <3>2, <3>3 DEF Rows
    <3> QED
      BY <3>1, <3>3, <3>4 DEF PagesInv, OfUrl
  <2> QED
    BY <1>1, <1>2, <1>4, <1>5, <2>1 DEF PagesInv, OfUrl
<1>11. DialogSound'
  BY <1>2, <1>4, <1>7 DEF DialogSound, Moves
<1>12. Owned'
  <2>1. \/ "opened" \in strayed'
        \/ \A i \in DOMAIN calls : calls[i].for = "load"
    BY DEF Open
  <2> QED
    BY <1>1, <2>1 DEF Owned, ToSet
<1> QED
  BY <1>8, <1>9, <1>10, <1>11, <1>12 DEF PagesInv

\* It is closed without an answer.
LEMMA CloseKeeps ==
  ASSUME PagesInv, Close
  PROVE  PagesInv'
<1>1. UNCHANGED <<screen, db, at, shown, view, strayed>> /\ dialog' = NoDialog
  BY DEF Close
<1>2. P' = P
  BY <1>1 DEF P
<1>3. PICK s : s = calls
  OBVIOUS
<1>4. PICK t : t = Disowned(s)
  OBVIOUS
<1>5. calls' = t
  BY <1>3, <1>4 DEF Close
<1>6. Sequence(s) /\ OneLoad(s) /\ \A c \in ToSet(s) : IsCall(c) /\ CallSound(c)
  BY <1>3 DEF PagesInv, Shapes, CallsSound, CallSound
<1>7. Sequence(t) /\ DOMAIN t = DOMAIN s /\ \A i \in DOMAIN s : Alike(t[i], s[i])
  BY <1>4, <1>6, DisownedCalls
<1>8. /\ \A d \in ToSet(t) : \E c \in ToSet(s) : Alike(d, c)
      /\ \A c \in ToSet(s) : \E d \in ToSet(t) : Alike(d, c)
  BY <1>7 DEF ToSet
<1>9. Shapes'
  BY <1>1, <1>5, <1>7 DEF PagesInv, Shapes, IsView, Sequence, ToSet
<1>10. OneLoad(calls)'
  <2>1. \A i \in DOMAIN s : t[i].for = s[i].for
    BY <1>7 DEF Alike
  <2> QED
    BY <1>2, <1>5, <1>6, <1>7, <2>1 DEF OneLoad, Cancelled
<1>11. CallsSound'
  BY <1>2, <1>5, <1>6, <1>8 DEF CallsSound, CallSound, IsCall, Alike, Moves, ToSet
<1>12. Wanted'
  <2>1. "moved" \notin strayed => \A d \in ToSet(t) : WantedAt(d, at)
    BY <1>3, <1>8 DEF PagesInv, Wanted, WantedAt, Alike
  <2> QED
    BY <1>1, <1>2, <1>5, <2>1 DEF Wanted, WantedAt, First, Handler, ToSet
<1>13. OfUrl'
  <2>1. P.kind = "one" /\ "moved" \notin strayed =>
          \A d \in ToSet(t) : d.for = "op" => d.id = d.opened
    BY <1>3, <1>8 DEF PagesInv, OfUrl, Alike
  <2> QED
    BY <1>1, <1>2, <1>5, <2>1 DEF PagesInv, OfUrl, NoDialog, ToSet
<1>14. DialogSound' /\ Owned'
  BY <1>1 DEF DialogSound, Owned, NoDialog
<1>15. Fresh'
  <2>1. view.mounted /\ ~view.error /\ "moved" \notin strayed =>
          \/ shown.of = at
          \/ \E e \in ToSet(t) : e.for # "op" \/ "clear" \in Handler(e.op).start
    BY <1>3, <1>8 DEF PagesInv, Fresh, Alike
  <2> QED
    BY <1>1, <1>2, <1>5, <2>1 DEF Fresh, Handler, ToSet
<1>16. Awaited'
  <2>1. view.loading /\ view.mounted /\ "again" \notin strayed =>
          \E e \in ToSet(t) : e.for = "load" \/ (e.for = "reload" /\ P.fetch.ends)
    BY <1>3, <1>8 DEF PagesInv, Awaited, Alike
  <2> QED
    BY <1>1, <1>2, <1>5, <2>1 DEF Awaited, ToSet
<1> QED
  BY <1>9, <1>10, <1>11, <1>12, <1>13, <1>14, <1>15, <1>16 DEF PagesInv

\* An operation is sent.
LEMMA SendKeeps ==
  ASSUME PagesInv, NEW op, NEW r, op \in DOMAIN P.handlers, Moves(op, r.state) # {},
         P.kind = "one" /\ "moved" \notin strayed => r.id = at.page,
         Send(op, r, r.id)
  PROVE  PagesInv'
<1>1. UNCHANGED <<screen, db, at, shown, dialog, strayed>>
  BY DEF Send
<1>2. P' = P /\ PageSound(P) /\ HandlerSound(Handler(op), op, P.kind)
  BY <1>1, PagesSound DEF P, PagesInv, Shapes, PageSound, Handler
<1>3. PICK c : c = Call(op, r, r.id)
  OBVIOUS
<1>4. /\ IsCall(c) /\ c.for = "op" /\ c.op = op /\ c.saw = r.state /\ c.opened = r.id
      /\ c.want = at /\ c.id = (IF P.kind = "one" THEN at.page ELSE r.id)
      /\ c.own = (dialog # NoDialog) /\ c.ans = Pending
  BY <1>3 DEF Call, IsCall
<1>5. CallSound(c)
  BY <1>4 DEF CallSound, Pending
<1>6. PICK s : s = calls
  OBVIOUS
<1>7. PICK t : t = Append(s, c)
  OBVIOUS
<1>8. calls' = t
  BY <1>3, <1>6, <1>7 DEF Send
<1>9. Sequence(s) /\ OneLoad(s)
  BY <1>6 DEF PagesInv, Shapes
<1>10. /\ Sequence(t) /\ ToSet(t) = ToSet(s) \cup {c}
       /\ DOMAIN t = DOMAIN s \cup {Len(s) + 1} /\ t[Len(s) + 1] = c
       /\ \A i \in DOMAIN s : t[i] = s[i]
  BY <1>7, <1>9, Appended
<1>11. PICK effs : effs = Handler(op).start
  OBVIOUS
<1>12. PICK v : v = ViewAfter(view, effs)
  OBVIOUS
<1>13. /\ IsView(v) /\ (v.error <=> (view.error \/ "error" \in effs) /\ "clear" \notin effs)
       /\ (v.loading <=> view.loading /\ "ready" \notin effs)
       /\ (v.mounted <=> view.mounted /\ "leave" \notin effs)
  <2>1. PICK u : u = view
    OBVIOUS
  <2>2. IsView(u)
    BY <2>1 DEF PagesInv, Shapes
  <2> QED
    BY <1>12, <2>1, <2>2, ViewAfterIs
<1>14. /\ DOMAIN view' = DOMAIN v
       /\ view'.error = v.error /\ view'.loading = v.loading /\ view'.mounted = v.mounted
  <2>1. PICK b : b = IF op \in DOMAIN P.flags THEN v.busy \cup {P.flags[op]} ELSE v.busy
    OBVIOUS
  <2>2. view' = [v EXCEPT !.busy = b]
    BY <1>11, <1>12, <2>1 DEF Send
  <2> QED
    BY <1>13, <2>2 DEF IsView
<1>15. Shapes'
  BY <1>1, <1>8, <1>10, <1>13, <1>14 DEF PagesInv, Shapes, IsView, Sequence, ToSet
<1>16. OneLoad(calls)'
  BY <1>2, <1>4, <1>8, <1>9, <1>10 DEF OneLoad, Cancelled
<1>17. CallsSound'
  <2>1. \A e \in ToSet(t) : CallSound(e)
    BY <1>5, <1>6, <1>10 DEF PagesInv, CallsSound
  <2> QED
    BY <1>2, <1>8, <2>1 DEF CallsSound, CallSound, IsCall, Moves, ToSet
<1>18. Wanted'
  <2>1. "moved" \notin strayed => \A e \in ToSet(t) : WantedAt(e, at)
    BY <1>4, <1>6, <1>10 DEF PagesInv, Wanted, WantedAt
  <2> QED
    BY <1>1, <1>2, <1>8, <2>1 DEF Wanted, WantedAt, First, Handler, ToSet
<1>19. OfUrl'
  <2>1. P.kind = "one" /\ "moved" \notin strayed =>
          \A e \in ToSet(t) : e.for = "op" => e.id = e.opened
    BY <1>4, <1>6, <1>10 DEF PagesInv, OfUrl
  <2>2. P.kind = "one" => "ready" \notin effs /\ "clear" \notin effs
    BY <1>2, <1>11 DEF HandlerSound
  <2>3. P.kind = "one" /\ view'.mounted /\ ~view'.loading /\ ~view'.error =>
          view.mounted /\ ~view.loading /\ ~view.error
    BY <1>13, <1>14, <2>2
  <2> QED
    BY <1>1, <1>2, <1>8, <2>1, <2>3 DEF PagesInv, OfUrl, NoDialog, ToSet
<1>20. DialogSound'
  BY <1>1, <1>2 DEF PagesInv, DialogSound, NoDialog, Moves
<1>21. Fresh'
  <2>1. view'.mounted /\ ~view'.error /\ "moved" \notin strayed =>
          \/ shown.of = at
          \/ \E e \in ToSet(t) : e.for # "op" \/ "clear" \in Handler(e.op).start
    <3>1. CASE "clear" \in effs
      BY <1>4, <1>10, <1>11, <3>1
    <3>2. CASE "clear" \notin effs
      BY <1>6, <1>10, <1>13, <1>14, <3>2 DEF PagesInv, Fresh
    <3> QED
      BY <3>1, <3>2
  <2> QED
    BY <1>1, <1>2, <1>8, <2>1 DEF Fresh, Handler, ToSet
<1>22. Awaited'
  <2>1. view'.loading /\ view'.mounted /\ "again" \notin strayed =>
          \E e \in ToSet(t) : e.for = "load" \/ (e.for = "reload" /\ P.fetch.ends)
    BY <1>6, <1>10, <1>13, <1>14 DEF PagesInv, Awaited
  <2> QED
    BY <1>1, <1>2, <1>8, <2>1 DEF Awaited, ToSet
<1>23. Owned'
  <2>1. dialog # NoDialog /\ "opened" \notin strayed =>
          \A e \in ToSet(t) :
            e.for = "op" \/ (e.for = "reload" /\ "closeForm" \in Handler(e.op).last) => e.own
    BY <1>4, <1>6, <1>10 DEF PagesInv, Owned
  <2> QED
    BY <1>1, <1>2, <1>8, <2>1 DEF Owned, Handler, NoDialog, ToSet
<1> QED
  BY <1>15, <1>16, <1>17, <1>18, <1>19, <1>20, <1>21, <1>22, <1>23 DEF PagesInv

\* The row of a button on a detail page is that of the URL.
LEMMA RowIsOfUrl ==
  ASSUME PagesInv, NEW r \in Rows, P.kind = "one", "moved" \notin strayed
  PROVE  r.id = at.page
<1>1. view.mounted /\ ~view.loading /\ ~view.error
  BY DEF Rows
<1>2. \E i \in DOMAIN shown.rows : r = shown.rows[i]
  BY <1>1 DEF Rows
<1> QED
  BY <1>1, <1>2 DEF PagesInv, OfUrl

\* A button without a dialog is pressed.
LEMMA PressKeeps ==
  ASSUME PagesInv, NEW op, NEW r, Press(op, r)
  PROVE  PagesInv'
<1>1. PageSound(P)
  BY PagesSound DEF PagesInv, Shapes
<1>2. r \in Rows /\ Offered(op, r) /\ Send(op, r, r.id)
  BY DEF Press
<1>3. op \in DOMAIN P.handlers /\ Moves(op, r.state) # {}
  BY <1>1, <1>2 DEF Offered, Entry, PageSound, Moves
<1> QED
  BY <1>2, <1>3, RowIsOfUrl, SendKeeps

\* A dialog is confirmed.
LEMMA ConfirmKeeps ==
  ASSUME PagesInv, Confirm
  PROVE  PagesInv'
<1>1. PICK op : op = dialog.op
  OBVIOUS
<1>2. PICK r : r = dialog.row
  OBVIOUS
<1>3. dialog # NoDialog /\ Send(op, r, r.id)
  BY <1>1, <1>2 DEF Confirm
<1>4. op \in DOMAIN P.handlers /\ Moves(op, r.state) # {}
  BY <1>1, <1>2, <1>3 DEF PagesInv, DialogSound
<1>5. P.kind = "one" /\ "moved" \notin strayed => r.id = at.page
  BY <1>2, <1>3 DEF PagesInv, OfUrl
<1> QED
  BY <1>3, <1>4, <1>5, SendKeeps

-----------------------------------------------------------------------------
(* The theorems of the pages                                                *)

\* The invariant holds at first.
LEMMA InitPagesInv ==
  ASSUME Init
  PROVE  PagesInv
<1>1. PICK c : c = Load(at)
  OBVIOUS
<1>2. IsCall(c) /\ c.for = "load" /\ c.want = at /\ c.ans = Answer(at)
  <2>1. PICK want : want = at
    OBVIOUS
  <2> QED
    BY <1>1, <2>1, LoadIs
<1>3. CallSound(c)
  BY <1>2, AnswerIs DEF CallSound
<1>4. calls = <<c>>
  BY <1>1 DEF Init
<1>5. /\ Sequence(calls) /\ DOMAIN calls = {1} /\ calls[1] = c /\ ToSet(calls) = {c}
  <2>1. DOMAIN calls = {1} /\ calls[1] = c /\ ToSet(calls) = {c}
    BY <1>4 DEF ToSet
  <2> QED
    BY <1>4, <2>1 DEF Sequence
<1>6. Shapes
  BY <1>5 DEF Init, Shapes, IsView
<1>7. OneLoad(calls) /\ CallsSound /\ Wanted
  BY <1>2, <1>3, <1>5 DEF OneLoad, CallsSound, Wanted, WantedAt
<1>8. dialog = NoDialog /\ view.loading
  BY DEF Init
<1>9. OfUrl /\ DialogSound /\ Fresh /\ Awaited /\ Owned
  BY <1>2, <1>5, <1>8 DEF OfUrl, DialogSound, Fresh, Awaited, Owned
<1> QED
  BY <1>6, <1>7, <1>9 DEF PagesInv

\* Whatever answer arrives.
LEMMA ArrivesKeeps ==
  ASSUME PagesInv, NEW i \in DOMAIN calls, Arrives(i)
  PROVE  PagesInv'
<1>1. CASE calls[i].ans.is = "rows" /\ ReadingEnds(i, TRUE)
  <2>1. PICK ok \in BOOLEAN : ok = TRUE
    OBVIOUS
  <2> QED
    BY <1>1, <2>1, ReadingEndsKeeps
<1>2. CASE Succeeds(i)
  BY <1>2, SucceedsKeeps
<1>3. CASE ReadingEnds(i, FALSE)
  <2>1. PICK ok \in BOOLEAN : ok = FALSE
    OBVIOUS
  <2> QED
    BY <1>3, <2>1, ReadingEndsKeeps
<1>4. CASE OpFails(i)
  BY <1>4, OpFailsKeeps
<1> QED
  BY <1>1, <1>2, <1>3, <1>4 DEF Arrives

\* Every step keeps it.
LEMMA NextPagesInv ==
  ASSUME PagesInv, [Next]_vars
  PROVE  PagesInv'
<1>1. CASE UNCHANGED vars
  <2>1. UNCHANGED <<screen, at, shown, view, dialog, calls, strayed>>
    BY <1>1 DEF vars
  <2>2. P' = P
    BY <2>1 DEF P
  <2> QED
    BY <2>1, <2>2
       DEF PagesInv, Shapes, IsView, Sequence, OneLoad, Cancelled, CallsSound, CallSound, IsCall, Moves,
           Wanted, WantedAt, First, Handler, OfUrl, DialogSound, Fresh, Awaited, Owned, NoDialog
<1>2. ASSUME NEW f, ChooseFilter(f) PROVE PagesInv'
  BY <1>2, ChooseFilterKeeps
<1>3. ASSUME NEW n, Turn(n) \/ Visit(n) \/ Other(n) PROVE PagesInv'
  BY <1>3, TurnKeeps, VisitKeeps, OtherKeeps
<1>4. ASSUME NEW op, NEW r, Press(op, r) \/ Open(op, r) PROVE PagesInv'
  BY <1>4, PressKeeps, OpenKeeps
<1>5. CASE Confirm \/ Close
  BY <1>5, ConfirmKeeps, CloseKeeps
<1>6. ASSUME NEW i \in DOMAIN calls, Serve(i) \/ Arrives(i) PROVE PagesInv'
  BY <1>6, ServeKeeps, ArrivesKeeps
<1> QED
  BY <1>1, <1>2, <1>3, <1>4, <1>5, <1>6 DEF Next

\* The invariant holds always, for any rows, page size and bounds, on every page.
THEOREM PagesInvariant == Spec => []PagesInv
<1>1. Init => PagesInv
  BY InitPagesInv
<1>2. PagesInv /\ [Next]_vars => PagesInv'
  BY NextPagesInv
<1> QED
  BY <1>1, <1>2, PTL DEF Spec

\* When the answers are in, a page shows what its controls say (useEffect with its
\* cancelled flag; the handlers read again what is chosen), unless it says so.
THEOREM QuietRowsAreThoseChosen == Spec => []QuietRowsAreChosen
<1>1. PagesInv => QuietRowsAreChosen
  <2>1. calls = << >> => ToSet(calls) = {}
    BY DEF ToSet
  <2> QED
    BY <2>1 DEF PagesInv, Fresh, QuietRowsAreChosen
<1> QED
  BY <1>1, PagesInvariant, PTL

\* setLoading(true) is always followed by a reading that sets it to false; not so
\* where the number of the current page is pressed.
THEOREM SpinnersEnd == Spec => []SpinnerIsAwaited
<1>1. PagesInv => SpinnerIsAwaited
  BY DEF PagesInv, Awaited, SpinnerIsAwaited, ToSet
<1> QED
  BY <1>1, PagesInvariant, PTL

\* A handler acts on the row its button or dialog was opened for: the detail pages
\* address the row of the URL, which is the one they show.
THEOREM CallsActOnOpened == Spec => []ActsOnOpened
<1>1. PagesInv => ActsOnOpened
  <2>1. SUFFICES ASSUME PagesInv, "moved" \notin strayed, NEW i \in DOMAIN calls, calls[i].for = "op"
                 PROVE  calls[i].id = calls[i].opened
    BY DEF ActsOnOpened
  <2>2. PICK c : c = calls[i]
    OBVIOUS
  <2>3. c \in ToSet(calls) /\ CallSound(c) /\ c.for = "op"
    BY <2>1, <2>2 DEF PagesInv, CallsSound, ToSet
  <2>4. P.kind = "one" => c.id = c.opened
    BY <2>1, <2>3 DEF PagesInv, OfUrl
  <2> QED
    BY <2>2, <2>3, <2>4 DEF CallSound
<1> QED
  BY <1>1, PagesInvariant, PTL

\* When a step closes the dialog.
LEMMA SettleCloses ==
  ASSUME NEW new, NEW shut \in BOOLEAN, NEW rest, NEW more, NEW v, Settle(new, shut, rest, more, v),
         dialog # NoDialog, dialog' = NoDialog, view'.mounted, IsView(v)
  PROVE  shut
<1>1. view'.mounted => v.mounted
  BY StartedIs DEF Settle
<1> QED
  BY <1>1 DEF Settle

\* An answer closes a dialog only when its call was sent from it.
LEMMA AnswerCloses ==
  ASSUME PagesInv, NEW i \in DOMAIN calls, Arrives(i),
         dialog # NoDialog, dialog' = NoDialog, view'.mounted, "opened" \notin strayed
  PROVE  calls[i].own
<1>1. PICK c : c = calls[i]
  OBVIOUS
<1>2. c \in ToSet(calls) /\ CallSound(c)
  BY <1>1 DEF PagesInv, CallsSound, ToSet
<1>3. PICK u : u = view
  OBVIOUS
<1>4. IsView(u) /\ PageSound(P)
  BY <1>3, PagesSound DEF PagesInv, Shapes
<1>5. CASE c.for = "op"
  BY <1>1, <1>2, <1>5 DEF PagesInv, Owned
<1>6. ASSUME NEW ok \in BOOLEAN, ReadingEnds(i, ok) PROVE c.own
  <2>1. PICK reading : reading = IF c.for = "load" THEN P.effect ELSE P.fetch
    OBVIOUS
  <2>2. PICK effs : effs = IF c.for = "load" THEN {}
                           ELSE IF ok THEN Handler(c.op).last ELSE Handler(c.op).last \ {"first"}
    OBVIOUS
  <2>3. PICK v : v = ViewAfter(Freed(Ended(u, reading, ok), c), effs)
    OBVIOUS
  <2>4. PICK new : new = AtAfter(effs, c, 0)
    OBVIOUS
  <2>5. PICK shut \in BOOLEAN : shut = Closes(effs, c)
    BY DEF Closes
  <2>6. PICK rest : rest = RemoveAt(calls, i)
    OBVIOUS
  <2>7. PICK more : more = << >>
    OBVIOUS
  <2>8. IsView(v)
    <3>1. PICK w : w = Ended(u, reading, ok)
      OBVIOUS
    <3>2. IsView(w)
      BY <1>4, <3>1, EndedIs
    <3>3. PICK x : x = Freed(w, c)
      OBVIOUS
    <3>4. IsView(x) /\ v = ViewAfter(x, effs)
      BY <2>3, <3>1, <3>2, <3>3, FreedIs
    <3> QED
      BY <3>4, ViewAfterIs
  <2>9. Settle(new, shut, rest, more, v) /\ c.for # "op"
    BY <1>1, <1>3, <1>6, <2>1, <2>2, <2>3, <2>4, <2>5, <2>6, <2>7 DEF ReadingEnds
  <2>10. Closes(effs, c)
    BY <2>5, <2>8, <2>9, SettleCloses
  <2>11. effs \subseteq {"first", "closeForm"}
    BY <1>2, <1>4, <2>2, <2>9 DEF CallSound, PageSound, HandlerSound, Handler
  <2>12. "closeForm" \in effs
    BY <2>10, <2>11 DEF Closes
  <2>13. c.for = "reload" /\ "closeForm" \in Handler(c.op).last
    BY <1>2, <2>2, <2>9, <2>12 DEF CallSound
  <2> QED
    BY <1>2, <2>13 DEF PagesInv, Owned
<1>7. CASE c.for # "op"
  <2>1. ~Succeeds(i) /\ ~OpFails(i)
    BY <1>1, <1>7 DEF Succeeds, OpFails
  <2>2. ReadingEnds(i, TRUE) \/ ReadingEnds(i, FALSE)
    BY <2>1 DEF Arrives
  <2>3. PICK ok \in BOOLEAN : ReadingEnds(i, ok)
    BY <2>2
  <2> QED
    BY <1>1, <1>6, <2>3
<1> QED
  BY <1>1, <1>5, <1>7

\* A step that closes a dialog is the user's or an answer to it.
LEMMA ClosingStep ==
  ASSUME PagesInv, [Next]_vars, dialog # NoDialog, dialog' = NoDialog, view'.mounted,
         "opened" \notin strayed
  PROVE  Close \/ \E i \in DOMAIN calls : calls[i].own /\ Arrives(i)
<1>1. ~UNCHANGED vars
  BY DEF vars
<1>2. ASSUME NEW f, ChooseFilter(f) PROVE FALSE
  BY <1>2 DEF ChooseFilter
<1>3. ASSUME NEW n, Turn(n) PROVE FALSE
  BY <1>3 DEF Turn
<1>4. ASSUME NEW n, Visit(n) PROVE FALSE
  <2>1. PICK new : new = [at EXCEPT !.page = n]
    OBVIOUS
  <2>2. PICK v : v = view
    OBVIOUS
  <2>3. PICK rest : rest = calls
    OBVIOUS
  <2>4. PICK more : more = << >>
    OBVIOUS
  <2>5. PICK shut \in BOOLEAN : shut = FALSE
    OBVIOUS
  <2>6. IsView(v)
    BY <2>2 DEF PagesInv, Shapes
  <2>7. Settle(new, shut, rest, more, v)
    BY <1>4, <2>1, <2>2, <2>3, <2>4, <2>5 DEF Visit
  <2> QED
    BY <2>5, <2>6, <2>7, SettleCloses
<1>5. ASSUME NEW n, Other(n) PROVE FALSE
  BY <1>5 DEF Other
<1>6. ASSUME NEW op, NEW r, Press(op, r) \/ Open(op, r) PROVE FALSE
  BY <1>6 DEF Press, Open
<1>7. CASE Confirm
  BY <1>7 DEF Confirm, Send
<1>8. ASSUME NEW i \in DOMAIN calls, Serve(i) PROVE FALSE
  BY <1>8 DEF Serve
<1>9. ASSUME NEW i \in DOMAIN calls, Arrives(i) PROVE calls[i].own
  BY <1>9, AnswerCloses
<1> QED
  BY <1>1, <1>2, <1>3, <1>4, <1>5, <1>6, <1>7, <1>8, <1>9 DEF Next

\* No late answer closes a dialog it was not sent from, unless that was opened
\* while another handler was at work.
THEOREM OwnDialogsClose == Spec => DialogsCloseForTheirOwn
<1>1. PagesInv /\ [Next]_vars =>
        [dialog # NoDialog /\ dialog' = NoDialog /\ view'.mounted /\ "opened" \notin strayed
           => Close \/ \E i \in DOMAIN calls : calls[i].own /\ Arrives(i)]_vars
  BY ClosingStep
<1> QED
  BY <1>1, PagesInvariant, PTL DEF Spec, DialogsCloseForTheirOwn

\* A button is offered for a state the service accepts: one that decides by the
\* state of the row refuses only a row that has changed since it was read.
THEOREM OfferedIsServed == Spec => RefusedOnlyIfChanged
<1>1. ASSUME PagesInv, NEW i \in DOMAIN calls, calls[i].op \notin P.refusals, Serve(i),
             calls'[i].ans = Refused
      PROVE  db[calls[i].id] # calls[i].saw
  <2>1. PICK c : c = calls[i]
    OBVIOUS
  <2>2. CallSound(c) /\ c.ans = Pending
    BY <1>1, <2>1 DEF PagesInv, CallsSound, ToSet, Serve
  \* A row that is found is no refusal.
  <2>3. ASSUME NEW r, NEW m,
               calls' = [calls EXCEPT ![i].ans = [is |-> "row",
                                                  row |-> [id |-> r, state |-> m[3]]]]
        PROVE  FALSE
    <3>1. PICK ans : ans = [is |-> "row", row |-> [id |-> r, state |-> m[3]]]
      OBVIOUS
    <3>2. ans.is = "row"
      BY <3>1
    <3>3. calls' = [calls EXCEPT ![i] = [c EXCEPT !.ans = ans]]
      BY <2>1, <2>3, <3>1
    <3>4. calls'[i].ans = ans
      BY <2>2, <3>3 DEF CallSound, IsCall
    <3> QED
      BY <1>1, <3>2, <3>4 DEF Refused
  <2>4. Moves(c.op, db[c.id]) = {} /\ c.op # "create"
    BY <1>1, <2>1, <2>3 DEF Serve
  <2>5. Moves(c.op, c.saw) # {}
    BY <2>2, <2>4 DEF CallSound, Pending
  <2> QED
    BY <2>1, <2>4, <2>5
<1>2. PagesInv =>
        [\A i \in DOMAIN calls :
           /\ calls[i].ans = Pending /\ calls[i].op \notin P.refusals
           /\ Serve(i) /\ calls'[i].ans = Refused
           => db[calls[i].id] # calls[i].saw]_vars
  BY <1>1
<1> QED
  BY <1>2, PagesInvariant, PTL DEF Spec, RefusedOnlyIfChanged

-----------------------------------------------------------------------------
(* The inductive invariant of the forms                                     *)

\* The forms.
Kinds == {"invoice", "quote", "order", "supplier", "customer", "category", "user", "company"}

\* The fields of each form.
FieldsOf ==
  [k \in Kinds |->
     IF k \in Documents THEN {"partner", "texts", "discount", "payments", "lines"}
     ELSE IF k = "supplier" THEN {"name", "texts", "choice", "contacts", "categories"}
     ELSE IF k = "customer" THEN {"name", "texts", "contacts"}
     ELSE IF k = "category" THEN {"name"}
     ELSE IF k = "user" THEN {"name", "texts", "choice"} ELSE {"name", "texts"}]

\* The kinds of lines a form tells apart.
LineKinds == {"empty", "good", "other", "unnamed", "wrong"}

\* What a field can hold; a name is never half typed.
FieldFits(f, v) ==
  /\ IF f = "lines" THEN v \subseteq LineKinds ELSE v \in {"", "a", "b", "old", "unfit"}
  /\ f = "name" => v # "unfit"

\* The fields of the form at hand.
Fields == FieldsOf[form.kind]

\* A draft has the fields of its form.
DraftFits(d) == DOMAIN d = Fields /\ \A f \in Fields : FieldFits(f, d[f])

\* The lines that can be sent.
GoodLines == {"good", "other"}

\* The request for a draft.
Asked(kind, d) ==
  [f \in DOMAIN d |->
     IF f = "lines" THEN d.lines \cap GoodLines
     ELSE IF d[f] \notin {"", "unfit"} THEN d[f]
     ELSE IF Requests[kind][f] = "left out" THEN Absent ELSE ""]

\* What a draft must be to be sent.
Passed(kind, d) ==
  /\ kind \in Documents => "wrong" \notin d.lines
  /\ kind = "company" => d.name # ""

\* What the server stores fits the form; it has no half typed amounts.
RowFits ==
  \/ row = NoRow /\ ~form.editing
  \/ /\ DOMAIN row = {"state", "fields"} /\ row.state \in {"draft", "issued"}
     /\ DOMAIN row.fields = Fields
     /\ \A f \in Fields :
          IF f = "lines" THEN row.fields[f] \subseteq GoodLines
          ELSE row.fields[f] \in {"", "a", "b", "old"}

\* A call in flight was checked when it was sent, and has its button disabled; that
\* for a new category may have lost this to another one that has ended.
CallFits(c) ==
  /\ DOMAIN c = {"button", "steps", "typed", "input", "ans", "others"}
  /\ c.steps \in {<<"save">>, <<"save", "issue">>, <<"issue">>, <<"category">>}
  /\ c.button # "category" => c.button \in busy
  /\ c.button \in DOMAIN Steps[form.kind]
  /\ c.button = "category" <=> c.steps = <<"category">>
  /\ c.steps \in {<<"save", "issue">>, <<"issue">>} => form.kind = "invoice"
  /\ DraftFits(c.typed) /\ c.input = Asked(form.kind, c.typed)
  /\ c.steps[1] = "save" => Passed(form.kind, c.typed)
  /\ c.others \in Nat /\ c.others <= others

\* Two calls are in flight only where one of them is for a new category.
Apart(kind, s) ==
  \A i, j \in DOMAIN s : i # j =>
    /\ kind = "supplier"
    /\ s[i].button = "category" \/ s[j].button = "category"

\* Once created, no call is on its way that would create another.
Once ==
  /\ form.editing => made = 0
  /\ made \in Nat
  /\ met \cap {"lost", "unissued", "again"} = {} =>
       /\ made <= 1
       /\ made = 1 => \A c \in ToSet(inFlight) : c.steps[1] = "save" => c.ans # "pending"

\* The row is what the call asked for.
Holds(c) ==
  /\ DOMAIN row = {"state", "fields"}
  /\ \A f \in Fields : (f # "lines" /\ c.input[f] = Absent) \/ c.input[f] = row.fields[f]

\* What is about to be issued has been saved.
Saved ==
  \A c \in ToSet(inFlight) :
    (c.steps = <<"issue">> /\ c.ans = "pending") \/ (c.steps = <<"save", "issue">> /\ c.ans = "ok")
      => c.others # others \/ Holds(c)

\* What is in flight is what was typed, unless the user typed on.
TypedStill ==
  /\ page = "loading" => inFlight = << >>
  /\ page = "open" /\ "typed" \notin met =>
       \A c \in ToSet(inFlight) : c.button # "category" => c.typed = draft

\* The inductive invariant.
FormsInv ==
  /\ form.kind \in Kinds /\ Sequence(inFlight) /\ others \in Nat
  /\ (form.kind = "order" => ~form.editing)
  /\ DraftFits(draft) /\ RowFits /\ (\A c \in ToSet(inFlight) : CallFits(c))
  /\ Apart(form.kind, inFlight)
  /\ Once /\ Saved /\ TypedStill

-----------------------------------------------------------------------------
(* What the forms are                                                       *)

\* An instance looks at some of them.
LEMMA KindsAre ==
  ASSUME form.kind \in FormKinds
  PROVE  form.kind \in Kinds
BY FormsAssumption DEF NewDraft, Kinds

\* What a new form holds fits its fields.
LEMMA NewDraftFits ==
  ASSUME NEW k \in Kinds
  PROVE  DOMAIN NewDraft[k] = FieldsOf[k] /\ \A f \in FieldsOf[k] : FieldFits(f, NewDraft[k][f])
<1>1. ASSUME NEW d, d = EmptyDocument
      PROVE  DOMAIN d = {"partner", "texts", "discount", "payments", "lines"}
             /\ \A f \in DOMAIN d : FieldFits(f, d[f])
  <2>1. /\ DOMAIN d = {"partner", "texts", "discount", "payments", "lines"}
        /\ d["partner"] = ""
        /\ d["texts"] = ""
        /\ d["discount"] = ""
        /\ d["payments"] = ""
        /\ d["lines"] = {"empty"}
    BY <1>1 DEF EmptyDocument
  <2> QED
    BY <2>1 DEF FieldFits, LineKinds
<1>2. CASE k \in Documents
  <2>1. NewDraft[k] = EmptyDocument
    BY <1>2 DEF Documents, NewDraft, InvoiceFormState, QuoteFormState, OrderFormState
  <2>2. PICK d : d = NewDraft[k]
    OBVIOUS
  <2> QED
    BY <1>1, <1>2, <2>1, <2>2 DEF FieldsOf
<1>3. CASE k = "supplier"
  <2>1. PICK d : d = NewDraft[k]
    OBVIOUS
  <2>2. d = SupplierFormState
    BY <1>3, <2>1 DEF NewDraft
  <2>3. /\ DOMAIN d = {"name", "texts", "choice", "contacts", "categories"}
        /\ d["name"] = ""
        /\ d["texts"] = ""
        /\ d["choice"] = "a"
        /\ d["contacts"] = ""
        /\ d["categories"] = ""
    BY <2>2 DEF SupplierFormState
  <2>4. \A f \in DOMAIN d : FieldFits(f, d[f])
    BY <2>3 DEF FieldFits
  <2>5. FieldsOf[k] = {"name", "texts", "choice", "contacts", "categories"}
    BY <1>3 DEF FieldsOf, Documents
  <2> QED
    BY <2>1, <2>3, <2>4, <2>5
<1>4. CASE k = "customer"
  <2>1. PICK d : d = NewDraft[k]
    OBVIOUS
  <2>2. d = CustomerFormState
    BY <1>4, <2>1 DEF NewDraft
  <2>3. /\ DOMAIN d = {"name", "texts", "contacts"}
        /\ d["name"] = ""
        /\ d["texts"] = ""
        /\ d["contacts"] = ""
    BY <2>2 DEF CustomerFormState
  <2>4. \A f \in DOMAIN d : FieldFits(f, d[f])
    BY <2>3 DEF FieldFits
  <2>5. FieldsOf[k] = {"name", "texts", "contacts"}
    BY <1>4 DEF FieldsOf, Documents
  <2> QED
    BY <2>1, <2>3, <2>4, <2>5
<1>5. CASE k = "category"
  <2>1. PICK d : d = NewDraft[k]
    OBVIOUS
  <2>2. d = CategoryFormState
    BY <1>5, <2>1 DEF NewDraft
  <2>3. /\ DOMAIN d = {"name"}
        /\ d["name"] = ""
    BY <2>2 DEF CategoryFormState
  <2>4. \A f \in DOMAIN d : FieldFits(f, d[f])
    BY <2>3 DEF FieldFits
  <2>5. FieldsOf[k] = {"name"}
    BY <1>5 DEF FieldsOf, Documents
  <2> QED
    BY <2>1, <2>3, <2>4, <2>5
<1>6. CASE k = "user"
  <2>1. PICK d : d = NewDraft[k]
    OBVIOUS
  <2>2. d = UserFormState
    BY <1>6, <2>1 DEF NewDraft
  <2>3. /\ DOMAIN d = {"name", "texts", "choice"}
        /\ d["name"] = ""
        /\ d["texts"] = ""
        /\ d["choice"] = "a"
    BY <2>2 DEF UserFormState
  <2>4. \A f \in DOMAIN d : FieldFits(f, d[f])
    BY <2>3 DEF FieldFits
  <2>5. FieldsOf[k] = {"name", "texts", "choice"}
    BY <1>6 DEF FieldsOf, Documents
  <2> QED
    BY <2>1, <2>3, <2>4, <2>5
<1>7. CASE k = "company"
  <2>1. PICK d : d = NewDraft[k]
    OBVIOUS
  <2>2. d = CompanyFormState
    BY <1>7, <2>1 DEF NewDraft
  <2>3. /\ DOMAIN d = {"name", "texts"}
        /\ d["name"] = ""
        /\ d["texts"] = ""
    BY <2>2 DEF CompanyFormState
  <2>4. \A f \in DOMAIN d : FieldFits(f, d[f])
    BY <2>3 DEF FieldFits
  <2>5. FieldsOf[k] = {"name", "texts"}
    BY <1>7 DEF FieldsOf, Documents
  <2> QED
    BY <2>1, <2>3, <2>4, <2>5
<1> QED
  BY <1>2, <1>3, <1>4, <1>5, <1>6, <1>7 DEF Kinds, Documents

\* What can be typed fits the field.
LEMMA InputsFit ==
  ASSUME NEW k \in Kinds, NEW f \in FieldsOf[k], NEW v \in Inputs[k][f]
  PROVE  FieldFits(f, v)
<1>0. /\ \A w \in Texts \cup Pickable : w \in {"", "a", "b"}
      /\ \A w \in Unfit : w \in {"", "a", "b", "unfit"}
      /\ \A w \in LineDrafts : w \subseteq LineKinds
  BY DEF Texts, Pickable, Unfit, LineDrafts, LineKinds
<1>1. CASE k \in Documents
  <2>1. PICK d : d = Inputs[k]
    OBVIOUS
  <2>2. /\ d.partner = Texts /\ d.texts = Texts /\ d.discount = Unfit
        /\ d.payments = Unfit /\ d.lines = LineDrafts
    <3>1. CASE k = "invoice"
      <4>1. d = DocumentInputs(InvoiceFormInputs, InvoiceFormPayments, InvoiceFormLines)
        BY <3>1, <2>1 DEF Inputs
      <4> QED
        BY <4>1 DEF DocumentInputs, InvoiceFormInputs, InvoiceFormPayments, InvoiceFormLines,
           InvoiceFormPartners, Texts, Pickable
    <3>2. CASE k = "quote"
      <4>1. d = DocumentInputs(QuoteFormInputs, QuoteFormPayments, QuoteFormLines)
        BY <3>2, <2>1 DEF Inputs
      <4> QED
        BY <4>1 DEF DocumentInputs, QuoteFormInputs, QuoteFormPayments, QuoteFormLines,
           QuoteFormPartners, Texts, Pickable
    <3>3. CASE k = "order"
      <4>1. d = DocumentInputs(OrderFormInputs, OrderFormPayments, OrderFormLines)
        BY <3>3, <2>1 DEF Inputs
      <4> QED
        BY <4>1 DEF DocumentInputs, OrderFormInputs, OrderFormPayments, OrderFormLines,
           OrderFormSuppliers, Texts, Pickable
    <3> QED
      BY <1>1, <3>1, <3>2, <3>3 DEF Documents
  <2>3. f \in {"partner", "texts", "discount", "payments", "lines"}
    BY <1>1 DEF FieldsOf
  <2> QED
    BY <1>0, <2>1, <2>2, <2>3 DEF FieldFits
<1>2. CASE k = "supplier"
  <2>1. PICK d : d = Inputs[k]
    OBVIOUS
  <2>2. /\ d.name = Texts /\ d.texts = Texts /\ d.choice = Pickable
        /\ d.contacts = Unfit /\ d.categories = Texts
    <3>1. d = [name |-> SupplierFormInputs.name, texts |-> SupplierFormInputs.texts,
                choice |-> SupplierFormInputs.choice,
                contacts |-> SupplierFormContacts, categories |-> SupplierFormInputs.categories]
      BY <1>2, <2>1 DEF Inputs
    <3> QED
      BY <3>1 DEF SupplierFormInputs, SupplierFormContacts
  <2>3. f \in {"name", "texts", "choice", "contacts", "categories"}
    BY <1>2 DEF FieldsOf, Documents
  <2> QED
    BY <1>0, <2>1, <2>2, <2>3 DEF FieldFits
<1>3. CASE k = "customer"
  <2>1. PICK d : d = Inputs[k]
    OBVIOUS
  <2>2. d.name = Texts /\ d.texts = Texts /\ d.contacts = Unfit
    <3>1. d = [name |-> CustomerFormInputs.name, texts |-> CustomerFormInputs.texts,
                contacts |-> CustomerFormContacts]
      BY <1>3, <2>1 DEF Inputs
    <3> QED
      BY <3>1 DEF CustomerFormInputs, CustomerFormContacts
  <2>3. f \in {"name", "texts", "contacts"}
    BY <1>3 DEF FieldsOf, Documents
  <2> QED
    BY <1>0, <2>1, <2>2, <2>3 DEF FieldFits
<1>4. CASE k = "category"
  <2>1. PICK d : d = Inputs[k]
    OBVIOUS
  <2>2. d.name = Texts
    <3>1. d = CategoryFormInputs
      BY <1>4, <2>1 DEF Inputs
    <3> QED
      BY <3>1 DEF CategoryFormInputs
  <2>3. f \in {"name"}
    BY <1>4 DEF FieldsOf, Documents
  <2> QED
    BY <1>0, <2>1, <2>2, <2>3 DEF FieldFits
<1>5. CASE k = "user"
  <2>1. PICK d : d = Inputs[k]
    OBVIOUS
  <2>2. d.name = Texts /\ d.texts = Texts /\ d.choice = Pickable
    <3>1. d = UserFormInputs
      BY <1>5, <2>1 DEF Inputs
    <3> QED
      BY <3>1 DEF UserFormInputs
  <2>3. f \in {"name", "texts", "choice"}
    BY <1>5 DEF FieldsOf, Documents
  <2> QED
    BY <1>0, <2>1, <2>2, <2>3 DEF FieldFits
<1>6. CASE k = "company"
  <2>1. PICK d : d = Inputs[k]
    OBVIOUS
  <2>2. d.name = Texts /\ d.texts = Texts
    <3>1. d = CompanyFormInputs
      BY <1>6, <2>1 DEF Inputs
    <3> QED
      BY <3>1 DEF CompanyFormInputs
  <2>3. f \in {"name", "texts"}
    BY <1>6 DEF FieldsOf, Documents
  <2> QED
    BY <1>0, <2>1, <2>2, <2>3 DEF FieldFits
<1> QED
  BY <1>1, <1>2, <1>3, <1>4, <1>5, <1>6 DEF Kinds, Documents

\* The forms agree on the lines to be sent.
LEMMA ValidLinesAre == ValidLines = GoodLines
<1>1. ValidLines \in {InvoiceIsValidLine, QuoteIsValidLine, OrderIsValidLine}
  BY Zenon DEF ValidLines
<1> QED
  BY <1>1 DEF GoodLines, InvoiceIsValidLine, QuoteIsValidLine, OrderIsValidLine

\* What is sent.
LEMMA SentIs ==
  ASSUME NEW d
  PROVE  Sent(d) = Asked(form.kind, d)
BY ValidLinesAre DEF Sent, Asked

\* And what is not sent.
LEMMA ValidPasses ==
  ASSUME form.kind \in Kinds, NEW d, Valid(d)
  PROVE  Passed(form.kind, d)
<1>1. form.kind = "invoice" => InvoiceFormValidate(d)
  BY Zenon DEF Valid
<1>2. form.kind = "quote" => QuoteFormValidate(d)
  BY Zenon DEF Valid
<1>3. form.kind = "order" => OrderFormValidate(d)
  BY Zenon DEF Valid
<1>4. form.kind = "company" => d.name # ""
  BY Zenon DEF Valid
<1> QED
  BY <1>1, <1>2, <1>3, <1>4
     DEF Passed, Documents, InvoiceFormValidate, QuoteFormValidate, OrderFormValidate, LinesFit

\* Removing the last line leaves a draft.
LEMMA LinesLeftFit ==
  ASSUME NEW d, DraftFits(d), "lines" \in Fields
  PROVE  DraftFits([d EXCEPT !.lines = LinesLeft(@)])
<1>1. PICK e : e = [d EXCEPT !.lines = LinesLeft(@)]
  OBVIOUS
<1>2. DOMAIN e = DOMAIN d /\ e["lines"] = LinesLeft(d["lines"])
      /\ \A f \in DOMAIN d \ {"lines"} : e[f] = d[f]
  BY <1>1 DEF DraftFits
<1>3. LinesLeft(d["lines"]) \subseteq LineKinds
  BY DEF DraftFits, FieldFits, LinesLeft, LineKinds
<1> QED
  BY <1>1, <1>2, <1>3 DEF DraftFits, FieldFits

\* So does whatever is typed.
LEMMA EditedFits ==
  ASSUME form.kind \in Kinds, NEW d, DraftFits(d)
  PROVE  DraftFits(Edited(d))
<1>1. CASE form.kind \in Documents
  <2>1. Edited(d) \in {InvoiceFormEdits(d), QuoteFormEdits(d), OrderFormEdits(d)}
    BY <1>1, Zenon DEF Edited, Documents
  <2>2. Edited(d) = [d EXCEPT !.lines = LinesLeft(@)]
    BY <2>1 DEF InvoiceFormEdits, QuoteFormEdits, OrderFormEdits
  <2> QED
    BY <1>1, <2>2, LinesLeftFit DEF Fields, FieldsOf
<1>2. CASE form.kind \notin Documents
  <2>1. Edited(d) = d
    BY <1>2, Zenon DEF Edited, Documents
  <2> QED
    BY <2>1
<1> QED
  BY <1>1, <1>2

\* And so does a row that fills the fields.
LEMMA FilledFits ==
  ASSUME form.kind \in Kinds, NEW d, DraftFits(d)
  PROVE  DraftFits(Filled(d))
<1>1. CASE form.kind \in {"invoice", "quote"}
  <2>1. Filled(d) = [d EXCEPT !.lines = InvoiceToLineDrafts(@)]
        \/ Filled(d) = [d EXCEPT !.lines = QuoteToLineDrafts(@)]
    BY <1>1, Zenon DEF Filled
  <2>2. Filled(d) = [d EXCEPT !.lines = LinesLeft(@)]
    BY <2>1 DEF InvoiceToLineDrafts, QuoteToLineDrafts
  <2> QED
    BY <1>1, <2>2, LinesLeftFit DEF Fields, FieldsOf, Documents
<1>2. CASE form.kind \notin {"invoice", "quote"}
  <2>1. Filled(d) = d
    BY <1>2, Zenon DEF Filled
  <2> QED
    BY <2>1
<1> QED
  BY <1>1, <1>2

\* The calls of a button, and which buttons there are.
LEMMA StepsAre ==
  ASSUME NEW k \in Kinds, NEW b \in DOMAIN Steps[k]
  PROVE  /\ Steps[k][b] \in {<<"save">>, <<"save", "issue">>, <<"category">>}
         /\ b = "category" <=> Steps[k][b] = <<"category">>
         /\ Steps[k][b] = <<"save", "issue">> => k = "invoice"
         /\ k = "invoice" => b \in {"saveDraft", "issue"}
         /\ k = "supplier" => b \in {"submit", "category"}
         /\ k \in {"quote", "order"} => b = "saveDraft"
         /\ k \notin Documents \cup {"supplier"} => b = "submit"
<1>1. CASE k = "invoice"
  <2>1. PICK s : s = Steps[k]
    OBVIOUS
  <2>2. s = [saveDraft |-> <<"save">>, issue |-> <<"save", "issue">>]
    BY <1>1, <2>1 DEF Steps, InvoiceFormHandleSaveDraft, InvoiceFormHandleIssue
  <2> QED
    BY <1>1, <2>1, <2>2 DEF Documents
<1>2. CASE k \in {"quote", "order"}
  <2>1. PICK s : s = Steps[k]
    OBVIOUS
  <2>2. s = [saveDraft |-> <<"save">>]
    BY <1>2, <2>1 DEF Steps, QuoteFormHandleSave, OrderFormHandleCreate
  <2> QED
    BY <1>2, <2>1, <2>2 DEF Documents
<1>3. CASE k = "supplier"
  <2>1. PICK s : s = Steps[k]
    OBVIOUS
  <2>2. s = [submit |-> <<"save">>, category |-> <<"category">>]
    BY <1>3, <2>1 DEF Steps, SupplierFormHandleSubmit, SupplierFormHandleCreateCategory
  <2> QED
    BY <1>3, <2>1, <2>2 DEF Documents
<1>4. CASE k \in {"customer", "category", "user", "company"}
  <2>1. PICK s : s = Steps[k]
    OBVIOUS
  <2>2. s = [submit |-> <<"save">>]
    BY <1>4, <2>1 DEF Steps, CustomerFormHandleSubmit, CategoryFormHandleSubmit,
       UserFormHandleSave
  <2> QED
    BY <1>4, <2>1, <2>2 DEF Documents
<1> QED
  BY <1>1, <1>2, <1>3, <1>4 DEF Kinds

\* Every button but that of a new category waits for itself, and on an invoice for
\* the other one.
LEMMA ButtonsWait ==
  ASSUME form.kind \in Kinds, NEW b \in DOMAIN Steps[form.kind]
  PROVE  /\ b # "category" => b \in WaitsFor(b)
         /\ form.kind = "invoice" => WaitsFor(b) = {"saveDraft", "issue"}
<1>1. PICK k \in Kinds : k = form.kind
  OBVIOUS
<1>2. /\ k = "invoice" => b \in {"saveDraft", "issue"}
      /\ k = "supplier" => b \in {"submit", "category"}
      /\ k \in {"quote", "order"} => b = "saveDraft"
      /\ k \notin Documents \cup {"supplier"} => b = "submit"
  BY <1>1, StepsAre
<1>3. CASE k = "invoice"
  <2>1. WaitsFor(b) = InvoiceFormButtons[b]
    BY <1>1, <1>3, Zenon DEF WaitsFor
  <2> QED
    BY <1>1, <1>2, <1>3, <2>1 DEF InvoiceFormButtons
<1>4. CASE k = "quote"
  <2>1. WaitsFor(b) = QuoteFormButtons[b]
    BY <1>1, <1>4, Zenon DEF WaitsFor
  <2> QED
    BY <1>1, <1>2, <1>4, <2>1 DEF QuoteFormButtons
<1>5. CASE k = "order"
  <2>1. WaitsFor(b) = OrderFormButtons[b]
    BY <1>1, <1>5, Zenon DEF WaitsFor
  <2> QED
    BY <1>1, <1>2, <1>5, <2>1 DEF OrderFormButtons
<1>6. CASE k = "supplier"
  <2>1. WaitsFor(b) = SupplierFormButtons[b]
    BY <1>1, <1>6, Zenon DEF WaitsFor
  <2> QED
    BY <1>1, <1>2, <1>6, <2>1 DEF SupplierFormButtons
<1>7. CASE k = "customer"
  <2>1. WaitsFor(b) = CustomerFormButtons[b]
    BY <1>1, <1>7, Zenon DEF WaitsFor
  <2> QED
    BY <1>1, <1>2, <1>7, <2>1 DEF CustomerFormButtons, Documents
<1>8. CASE k \in {"category", "user", "company"}
  <2>1. WaitsFor(b) = {b}
    BY <1>1, <1>8, Zenon DEF WaitsFor
  <2> QED
    BY <1>1, <1>8, <2>1
<1> QED
  BY <1>3, <1>4, <1>5, <1>6, <1>7, <1>8 DEF Kinds

\* Two calls are in flight only where one of them is for a new category.
LEMMA Waited ==
  ASSUME form.kind \in Kinds, NEW b \in DOMAIN Steps[form.kind], WaitsFor(b) \cap busy = {},
         NEW o \in DOMAIN Steps[form.kind], o # "category" => o \in busy
  PROVE  form.kind = "supplier" /\ (o = "category" \/ b = "category")
<1>1. PICK k \in Kinds : k = form.kind
  OBVIOUS
<1>2. o # "category" /\ b # "category" =>
        o # b /\ (k = "invoice" => o \notin {"saveDraft", "issue"})
  BY <1>1, ButtonsWait
<1>3. /\ k = "invoice" => o \in {"saveDraft", "issue"} /\ b \in {"saveDraft", "issue"}
      /\ k = "supplier" => o \in {"submit", "category"} /\ b \in {"submit", "category"}
      /\ k \in {"quote", "order"} => o = "saveDraft" /\ b = "saveDraft"
      /\ k \notin Documents \cup {"supplier"} => o = "submit" /\ b = "submit"
  BY <1>1, StepsAre
<1> QED
  BY <1>1, <1>2, <1>3 DEF Documents

\* What a call asks for.
LEMMA CallAsks ==
  ASSUME NEW c, CallFits(c), NEW f \in Fields
  PROVE  /\ DOMAIN c.input = Fields /\ FieldFits(f, c.typed[f])
         /\ f = "lines" => c.input[f] = c.typed[f] \cap GoodLines
         /\ f # "lines" /\ c.typed[f] \notin {"", "unfit"} =>
              c.input[f] = c.typed[f] /\ c.typed[f] \in {"a", "b", "old"}
         /\ f # "lines" /\ c.typed[f] \in {"", "unfit"} =>
              \/ c.input[f] = ""
              \/ c.input[f] = Absent /\ Requests[form.kind][f] = "left out"
<1>1. PICK d : d = c.typed
  OBVIOUS
<1>2. PICK k : k = form.kind
  OBVIOUS
<1>3. PICK a : a = c.input
  OBVIOUS
<1>4. DraftFits(d) /\ a = Asked(k, d)
  BY <1>1, <1>2, <1>3 DEF CallFits
<1>5. /\ DOMAIN a = Fields
      /\ f = "lines" => a[f] = d[f] \cap GoodLines
      /\ f # "lines" /\ d[f] \notin {"", "unfit"} => a[f] = d[f] /\ d[f] \in {"a", "b", "old"}
      /\ f # "lines" /\ d[f] \in {"", "unfit"} =>
           a[f] = "" \/ (a[f] = Absent /\ Requests[k][f] = "left out")
  BY <1>4 DEF Asked, DraftFits, FieldFits
<1> QED
  BY <1>1, <1>2, <1>3, <1>4, <1>5 DEF DraftFits

\* The same, one kind of field at a time: the lines.
LEMMA LinesAsked ==
  ASSUME NEW c, CallFits(c), NEW f \in Fields, f = "lines"
  PROVE  c.input[f] = c.typed[f] \cap GoodLines
BY CallAsks
\* A field that is filled.
LEMMA TextAsked ==
  ASSUME NEW c, CallFits(c), NEW f \in Fields, f # "lines", c.typed[f] \notin {"", "unfit"}
  PROVE  c.input[f] = c.typed[f] /\ c.typed[f] \in {"a", "b", "old"}
BY CallAsks
\* A field that is not.
LEMMA EmptyAsked ==
  ASSUME NEW c, CallFits(c), NEW f \in Fields, f # "lines", c.typed[f] \in {"", "unfit"}
  PROVE  c.input[f] = "" \/ (c.input[f] = Absent /\ Requests[form.kind][f] = "left out")
BY CallAsks
\* What is asked for fits a row.
LEMMA InputFits ==
  ASSUME NEW c, CallFits(c)
  PROVE  \A f \in Fields :
           IF f = "lines" THEN c.input[f] \subseteq GoodLines
           ELSE c.input[f] \in {"a", "b", "old", "", Absent}
<1> TAKE f \in Fields
<1>1. f = "lines" => c.input[f] \subseteq GoodLines
  <2>1. f = "lines" => c.input[f] = c.typed[f] \cap GoodLines
    BY LinesAsked
  <2> QED
    BY <2>1
<1>2. f # "lines" /\ c.typed[f] \notin {"", "unfit"} => c.input[f] \in {"a", "b", "old", "", Absent}
  <2>1. f # "lines" /\ c.typed[f] \notin {"", "unfit"} =>
          c.input[f] = c.typed[f] /\ c.typed[f] \in {"a", "b", "old"}
    BY TextAsked
  <2> QED
    BY <2>1
<1>3. f # "lines" /\ c.typed[f] \in {"", "unfit"} => c.input[f] \in {"a", "b", "old", "", Absent}
  BY EmptyAsked
<1> QED
  BY <1>1, <1>2, <1>3

\* A field that can be left out is one that an edit does not empty, or the form
\* edits nothing, or the field is never empty.
LEMMA LeftOutIs ==
  ASSUME NEW k \in Kinds, NEW f \in FieldsOf[k], f # "lines", Requests[k][f] = "left out"
  PROVE  f \in NeverEmptied[k] \/ k = "order" \/ (k = "company" /\ f = "name")
<1>1. PICK r : r = Requests[k]
  OBVIOUS
<1>2. CASE k \in {"invoice", "quote"}
  <2>1. r = DocumentRequest
    <3>1. Requests["invoice"] = InvoiceFormBuildInput
      BY DEF Requests
    <3>2. Requests["quote"] = QuoteFormBuildInput
      BY DEF Requests
    <3> QED
      BY <1>1, <1>2, <3>1, <3>2 DEF InvoiceFormBuildInput, QuoteFormBuildInput
  <2>2. r["partner"] = "plain" /\ r["payments"] = "cleared"
    BY <2>1 DEF DocumentRequest
  <2>3. NeverEmptied[k] = {"texts", "discount"}
    <3>1. NeverEmptied["invoice"] = {"texts", "discount"}
      BY DEF NeverEmptied
    <3>2. NeverEmptied["quote"] = {"texts", "discount"}
      BY DEF NeverEmptied
    <3> QED
      BY <1>2, <3>1, <3>2
  <2> QED
    BY <1>1, <1>2, <2>2, <2>3 DEF FieldsOf, Documents
<1>3. CASE k = "supplier"
  <2>1. r = SupplierToInput
    BY <1>1, <1>3 DEF Requests
  <2>2. r["name"] = "plain" /\ r["texts"] = "cleared" /\ r["choice"] = "plain"
    BY <2>1 DEF SupplierToInput
  <2>3. NeverEmptied[k] = {"contacts", "categories"}
    BY <1>3 DEF NeverEmptied
  <2> QED
    BY <1>1, <1>3, <2>2, <2>3 DEF FieldsOf, Documents
<1>4. CASE k = "customer"
  <2>1. r = CustomerToInput
    BY <1>1, <1>4 DEF Requests
  <2>2. r["name"] = "plain" /\ r["texts"] = "cleared"
    BY <2>1 DEF CustomerToInput
  <2>3. NeverEmptied[k] = {"contacts"}
    BY <1>4 DEF NeverEmptied
  <2> QED
    BY <1>1, <1>4, <2>2, <2>3 DEF FieldsOf, Documents
<1>5. CASE k = "category"
  <2>1. r = [name |-> "plain"]
    BY <1>1, <1>5 DEF Requests
  <2>2. r["name"] = "plain"
    BY <2>1
  <2> QED
    BY <1>1, <1>5, <2>2 DEF FieldsOf, Documents
<1>6. CASE k = "user"
  <2>1. r = [name |-> "plain", texts |-> "plain", choice |-> "plain"]
    BY <1>1, <1>6 DEF Requests
  <2>2. r["name"] = "plain" /\ r["texts"] = "plain" /\ r["choice"] = "plain"
    BY <2>1
  <2> QED
    BY <1>1, <1>6, <2>2 DEF FieldsOf, Documents
<1>7. CASE k = "company"
  <2>1. NeverEmptied[k] = {"texts"}
    BY <1>7 DEF NeverEmptied
  <2> QED
    BY <1>7, <2>1 DEF FieldsOf, Documents
<1> QED
  BY <1>2, <1>3, <1>4, <1>5, <1>6, <1>7 DEF Kinds

\* The row that is created.
LEMMA CreatedIs ==
  ASSUME NEW a, DOMAIN a = Fields
  PROVE  /\ DOMAIN Created(a) = {"state", "fields"} /\ Created(a).state = "draft"
         /\ DOMAIN Created(a).fields = Fields
         /\ \A f \in Fields :
              Created(a).fields[f] = IF f # "lines" /\ a[f] = Absent THEN "" ELSE a[f]
BY DEF Created

\* The row that is updated.
LEMMA UpdatedIs ==
  ASSUME NEW a, DOMAIN row = {"state", "fields"}, DOMAIN row.fields = Fields
  PROVE  /\ DOMAIN Updated(a) = {"state", "fields"} /\ Updated(a).state = row.state
         /\ DOMAIN Updated(a).fields = Fields
         /\ \A f \in Fields :
              Updated(a).fields[f] =
                IF f # "lines" /\ a[f] = Absent THEN row.fields[f] ELSE a[f]
<1> DEFINE new == [f \in DOMAIN row.fields |->
                     IF f # "lines" /\ a[f] = Absent THEN row.fields[f] ELSE a[f]]
<1>1. Updated(a) = [row EXCEPT !.fields = new]
  BY DEF Updated
<1>2. DOMAIN new = Fields
      /\ \A f \in Fields : new[f] = IF f # "lines" /\ a[f] = Absent THEN row.fields[f] ELSE a[f]
  OBVIOUS
<1> HIDE DEF new
<1>3. PICK u : u = Updated(a)
  OBVIOUS
<1>4. DOMAIN u = {"state", "fields"} /\ u.state = row.state /\ u.fields = new
  BY <1>1, <1>3
<1> QED
  BY <1>2, <1>3, <1>4

-----------------------------------------------------------------------------
(* The calls of a form after a step                                         *)

\* An answer changes no button.
LEMMA ReplacedApart ==
  ASSUME NEW k, NEW s, Sequence(s), Apart(k, s), NEW i \in DOMAIN s,
         NEW d, d.button = s[i].button, NEW t, t = [s EXCEPT ![i] = d]
  PROVE  Apart(k, t)
<1>1. DOMAIN t = DOMAIN s /\ t[i] = d /\ \A j \in DOMAIN s \ {i} : t[j] = s[j]
  BY Replaced
<1> QED
  BY <1>1 DEF Apart

\* The calls left, once one has ended, are of other buttons or for a new category.
LEMMA RemovedApart ==
  ASSUME NEW k, NEW s, Sequence(s), Apart(k, s), NEW i \in DOMAIN s,
         NEW t, t = RemoveAt(s, i)
  PROVE  /\ Sequence(t) /\ Apart(k, t)
         /\ \A c \in ToSet(t) :
              c \in ToSet(s) /\ (c.button # s[i].button \/ c.button = "category")
         /\ k # "supplier" => t = << >>
<1>1. /\ Sequence(t) /\ Len(t) = Len(s) - 1
      /\ \A j \in DOMAIN t : \E m \in DOMAIN s \ {i} : t[j] = s[m]
      /\ \A j, m \in DOMAIN t : j # m =>
           \E n, o \in DOMAIN s : n # o /\ t[j] = s[n] /\ t[m] = s[o]
  BY Removed
<1>2. Apart(k, t)
  BY <1>1 DEF Apart
<1>3. \A c \in ToSet(t) :
        c \in ToSet(s) /\ (c.button # s[i].button \/ c.button = "category")
  BY <1>1 DEF ToSet, Apart
<1>4. ASSUME k # "supplier" PROVE t = << >>
  <2>1. DOMAIN t = {}
    BY <1>1, <1>4 DEF Apart
  <2>2. t \in Seq(ToSet(t)) /\ DOMAIN t = 1 .. Len(t) /\ Len(t) \in Nat
    BY <1>1 DEF Sequence
  <2> QED
    BY <2>1, <2>2
<1> QED
  BY <1>1, <1>2, <1>3, <1>4

\* A call goes on being one while its button is busy.
LEMMA CallStillFits ==
  ASSUME NEW c, CallFits(c), form' = form, c.button # "category" => c.button \in busy',
         others' \in Nat, others <= others',
         others \in Nat
  PROVE  CallFits(c)'
BY DEF CallFits, DraftFits, Fields

\* The same draft still is one.
LEMMA DraftStillFits ==
  ASSUME NEW d, DraftFits(d), form' = form
  PROVE  DraftFits(d)'
BY DEF DraftFits, Fields

-----------------------------------------------------------------------------
(* The form, and other users                                                *)

\* The row is shown, or does not arrive.
LEMMA RowArrivesKeeps ==
  ASSUME FormsInv, RowArrives \/ RowFails
  PROVE  FormsInv'
<1>1. /\ UNCHANGED <<form, row, others, made, inFlight, busy, met>>
      /\ page = "loading"
  BY DEF RowArrives, RowFails
<1>2. inFlight = << >>
  BY <1>1 DEF FormsInv, TypedStill
<1>3. ToSet(inFlight) = {}
  BY <1>2 DEF ToSet
<1>4. DraftFits(draft')
  <2>1. CASE draft' = draft
    BY <2>1 DEF FormsInv
  <2>2. CASE RowArrives /\ row.state \in Fills /\ draft' = Filled(row.fields)
    <3>1. row # NoRow
      <4>1. Fills \in {InvoiceFormLoad, QuoteFormLoad, CompanyFormEffect}
        BY Zenon DEF Fills
      <4>2. row.state # "none"
        BY <2>2, <4>1 DEF InvoiceFormLoad, QuoteFormLoad, CompanyFormEffect
      <4> QED
        BY <4>2 DEF NoRow
    <3>2. PICK d : d = row.fields
      OBVIOUS
    <3>3. DraftFits(d)
      BY <3>1, <3>2 DEF FormsInv, RowFits, DraftFits, FieldFits, GoodLines, LineKinds
    <3>4. DraftFits(Filled(d))
      BY <3>3, FilledFits DEF FormsInv
    <3> QED
      BY <2>2, <3>2, <3>4
  <2> QED
    BY <2>1, <2>2 DEF RowArrives, RowFails
<1>5. DraftFits(draft)'
  BY <1>1, <1>4 DEF DraftFits, Fields
<1>6. RowFits'
  BY <1>1 DEF FormsInv, RowFits, Fields, NoRow
<1>7. (\A c \in ToSet(inFlight) : CallFits(c))' /\ Saved' /\ TypedStill'
  BY <1>1, <1>2, <1>3 DEF Saved, TypedStill
<1>8. Once'
  BY <1>1, <1>3 DEF FormsInv, Once
<1>9. Apart(form.kind, inFlight)' /\ Sequence(inFlight)'
  BY <1>1 DEF FormsInv
<1> QED
  BY <1>1, <1>5, <1>6, <1>7, <1>8, <1>9 DEF FormsInv

\* The user leaves, and the partners arrive.
LEMMA LeaveKeeps ==
  ASSUME FormsInv, Leave \/ OptionsArrive \/ UNCHANGED formVars
  PROVE  FormsInv'
<1>1. /\ UNCHANGED <<form, row, others, made, draft, inFlight, busy, met>>
      /\ page' = page \/ page' = "left"
  BY DEF Leave, OptionsArrive, formVars
<1>2. DraftFits(draft)' /\ RowFits' /\ Sequence(inFlight)' /\ Apart(form.kind, inFlight)'
  BY <1>1 DEF FormsInv, DraftFits, RowFits, Fields, NoRow
<1>3. \A c \in ToSet(inFlight) : CallFits(c)'
  BY <1>1, CallStillFits DEF FormsInv, CallFits
<1>4. Once' /\ Saved' /\ TypedStill'
  BY <1>1 DEF FormsInv, Once, Saved, Holds, Fields, TypedStill
<1> QED
  BY <1>1, <1>2, <1>3, <1>4 DEF FormsInv

\* The user types.
LEMMA TypeKeeps ==
  ASSUME FormsInv, NEW f \in DOMAIN draft, NEW v \in Inputs[form.kind][f], Type(f, v)
  PROVE  FormsInv'
<1>1. /\ UNCHANGED <<form, row, others, made, page, inFlight, busy>>
      /\ draft' = Edited([draft EXCEPT ![f] = v])
      /\ met' = IF Saving THEN met \cup {"typed"} ELSE met
  BY DEF Type
<1>2. PICK d : d = [draft EXCEPT ![f] = v]
  OBVIOUS
<1>3. DraftFits(d)
  <2>1. FieldFits(f, v)
    BY InputsFit DEF FormsInv, DraftFits, Fields
  <2> QED
    BY <1>2, <2>1 DEF FormsInv, DraftFits
<1>4. DraftFits(draft')
  BY <1>1, <1>2, <1>3, EditedFits DEF FormsInv
<1>5. DraftFits(draft)' /\ RowFits' /\ Sequence(inFlight)' /\ Apart(form.kind, inFlight)'
  BY <1>1, <1>4 DEF FormsInv, DraftFits, RowFits, Fields, NoRow
<1>6. \A c \in ToSet(inFlight) : CallFits(c)'
  BY <1>1, CallStillFits DEF FormsInv, CallFits
<1>7. Once' /\ Saved'
  BY <1>1 DEF FormsInv, Once, Saved, Holds, Fields
<1>8. TypedStill'
  BY <1>1 DEF FormsInv, TypedStill, Saving, ToSet
<1> QED
  BY <1>1, <1>5, <1>6, <1>7, <1>8 DEF FormsInv

\* Another user changes the row.
LEMMA OtherEditsKeeps ==
  ASSUME FormsInv, OtherEdits
  PROVE  FormsInv'
<1>1. /\ UNCHANGED <<form, made, page, draft, inFlight, busy, met>>
      /\ others' = others + 1 /\ row # NoRow
  BY DEF OtherEdits
<1>2. /\ DOMAIN row = {"state", "fields"} /\ row.state \in {"draft", "issued"}
      /\ DOMAIN row.fields = Fields
  BY <1>1 DEF FormsInv, RowFits
<1>3. RowFits'
  <2>1. CASE \E f \in DOMAIN row.fields : \E v \in Inputs[form.kind][f] \ {row.fields[f]} :
               /\ IF f = "lines" THEN v \subseteq ValidLines ELSE v \in Pickable
               /\ row' = [row EXCEPT !.fields[f] = v]
    <3>0. PICK f \in DOMAIN row.fields :
            \E v \in Inputs[form.kind][f] \ {row.fields[f]} :
               /\ IF f = "lines" THEN v \subseteq ValidLines ELSE v \in Pickable
               /\ row' = [row EXCEPT !.fields[f] = v]
      BY <2>1
    <3>1. PICK v : /\ IF f = "lines" THEN v \subseteq ValidLines ELSE v \in Pickable
                   /\ row' = [row EXCEPT !.fields[f] = v]
      BY <3>0
    <3>2. PICK g : g = [row.fields EXCEPT ![f] = v]
      OBVIOUS
    <3>3. PICK r : r = row'
      OBVIOUS
    <3>4. r = [row EXCEPT !.fields = g]
      BY <3>1, <3>2, <3>3
    <3>5. DOMAIN r = {"state", "fields"} /\ r.state = row.state /\ r.fields = g
      BY <1>2, <3>4
    <3>6. DOMAIN g = Fields /\ g[f] = v /\ \A x \in Fields \ {f} : g[x] = row.fields[x]
      BY <1>2, <3>2
    <3>7. IF f = "lines" THEN v \subseteq GoodLines ELSE v \in {"", "a", "b", "old"}
      BY <3>1, ValidLinesAre DEF Pickable
    <3>8. \A x \in Fields : IF x = "lines" THEN g[x] \subseteq GoodLines
                            ELSE g[x] \in {"", "a", "b", "old"}
      BY <1>1, <3>6, <3>7 DEF FormsInv, RowFits
    <3> QED
      BY <1>1, <1>2, <3>3, <3>5, <3>6, <3>8 DEF RowFits, Fields
  <2>2. CASE row' = [row EXCEPT !.state = "issued"]
    <3>1. PICK r : r = row'
      OBVIOUS
    <3>2. DOMAIN r = {"state", "fields"} /\ r.state = "issued" /\ r.fields = row.fields
      BY <1>2, <2>2, <3>1
    <3> QED
      BY <1>1, <1>2, <3>1, <3>2 DEF FormsInv, RowFits, Fields
  <2> QED
    BY <2>1, <2>2 DEF OtherEdits
<1>4. DraftFits(draft)' /\ Sequence(inFlight)' /\ Apart(form.kind, inFlight)'
  BY <1>1 DEF FormsInv, DraftFits, Fields
<1>5. others' \in Nat /\ others <= others' /\ others \in Nat
  BY <1>1 DEF FormsInv
<1>6. \A c \in ToSet(inFlight) : CallFits(c)' /\ c.others # others'
  <2> TAKE c \in ToSet(inFlight)
  <2>1. /\ CallFits(c) /\ (c.button # "category" => c.button \in busy')
        /\ c.others \in Nat /\ c.others <= others
    BY <1>1 DEF FormsInv, CallFits
  <2> QED
    BY <1>1, <1>5, <2>1, CallStillFits
<1>7. Once' /\ TypedStill'
  BY <1>1 DEF FormsInv, Once, TypedStill
<1>8. Saved'
  BY <1>1, <1>6 DEF Saved
<1> QED
  BY <1>1, <1>3, <1>4, <1>5, <1>6, <1>7, <1>8 DEF FormsInv

-----------------------------------------------------------------------------
(* The calls of a form                                                      *)

\* A button is pressed.
LEMMA PressKeepsForm ==
  ASSUME FormsInv, NEW b \in DOMAIN Steps[form.kind], PressButton(b)
  PROVE  FormsInv'
<1>1. /\ UNCHANGED <<form, row, others, made, page, draft>>
      /\ busy' = busy \cup {b} /\ page = "open"
      /\ met' = IF made > 0 /\ met \cap {"lost", "unissued"} = {} THEN met \cup {"again"} ELSE met
  BY DEF PressButton
<1>2. PICK c : c = [button |-> b, steps |-> Steps[form.kind][b], typed |-> draft,
                    input |-> Sent(draft), ans |-> "pending", others |-> others]
  OBVIOUS
<1>3. /\ DOMAIN c = {"button", "steps", "typed", "input", "ans", "others"}
      /\ c.button = b /\ c.steps = Steps[form.kind][b] /\ c.typed = draft
      /\ c.input = Sent(draft) /\ c.ans = "pending" /\ c.others = others
  BY <1>2
<1>4. inFlight' = Append(inFlight, c)
  BY <1>2 DEF PressButton
<1>5. PICK t : t = inFlight'
  OBVIOUS
<1>6. /\ Sequence(t) /\ ToSet(t) = ToSet(inFlight) \cup {c}
      /\ DOMAIN t = DOMAIN inFlight \cup {Len(inFlight) + 1} /\ t[Len(inFlight) + 1] = c
      /\ \A i \in DOMAIN inFlight : t[i] = inFlight[i]
  BY <1>4, <1>5, Appended DEF FormsInv
<1>7. /\ c.steps \in {<<"save">>, <<"save", "issue">>, <<"category">>}
      /\ b = "category" <=> c.steps = <<"category">>
      /\ c.steps = <<"save", "issue">> => form.kind = "invoice"
  BY <1>3, StepsAre DEF FormsInv
<1>8. c.input = Asked(form.kind, draft) /\ (c.steps[1] = "save" => Passed(form.kind, draft))
  <2>1. c.steps[1] = "save" => Valid(draft)
    BY <1>3 DEF PressButton
  <2> QED
    BY <1>3, <2>1, SentIs, ValidPasses DEF FormsInv
<1>9. CallFits(c)'
  <2>1. /\ c.steps \in {<<"save">>, <<"save", "issue">>, <<"issue">>, <<"category">>}
        /\ c.steps \in {<<"save", "issue">>, <<"issue">>} => form.kind = "invoice"
    BY <1>7
  <2>2. DraftFits(c.typed)'
    BY <1>1, <1>3 DEF FormsInv, DraftFits, Fields
  <2>3. c.button \in busy' /\ c.button \in DOMAIN Steps[form'.kind]
        /\ c.others \in Nat /\ c.others <= others'
    BY <1>1, <1>3 DEF FormsInv
  <2> QED
    BY <1>1, <1>3, <1>7, <1>8, <2>1, <2>2, <2>3 DEF CallFits
<1>10. \A e \in ToSet(inFlight) : CallFits(e)'
  BY <1>1, CallStillFits DEF FormsInv, CallFits
<1>11. (\A e \in ToSet(inFlight) : CallFits(e))'
  BY <1>5, <1>6, <1>9, <1>10
<1>12. Apart(form.kind, t)
  <2>1. \A i \in DOMAIN inFlight :
          /\ form.kind = "supplier"
          /\ inFlight[i].button = "category" \/ b = "category"
    <3> TAKE i \in DOMAIN inFlight
    <3>1. PICK e : e = inFlight[i]
      OBVIOUS
    <3>2. (e.button # "category" => e.button \in busy) /\ e.button \in DOMAIN Steps[form.kind]
      BY <3>1 DEF FormsInv, CallFits, ToSet
    <3>3. WaitsFor(b) \cap busy = {} /\ form.kind \in Kinds
      BY DEF FormsInv, PressButton
    <3>4. PICK o \in DOMAIN Steps[form.kind] : o = e.button
      BY <3>2
    <3>5. form.kind = "supplier" /\ (o = "category" \/ b = "category")
      BY <3>2, <3>3, <3>4, Waited
    <3> QED
      BY <3>1, <3>4, <3>5
  <2>2. Apart(form.kind, inFlight)
    BY DEF FormsInv
  <2> QED
    BY <1>3, <1>6, <2>1, <2>2 DEF Apart
<1>13. DraftFits(draft)' /\ RowFits' /\ Sequence(inFlight)' /\ Apart(form.kind, inFlight)'
  BY <1>1, <1>5, <1>6, <1>12 DEF FormsInv, DraftFits, RowFits, Fields, NoRow
<1>14. Once'
  BY <1>1 DEF FormsInv, Once
<1>15. Saved'
  <2>1. ~(c.steps = <<"issue">> \/ c.ans = "ok")
    BY <1>3, <1>7
  <2> QED
    BY <1>1, <1>5, <1>6, <2>1 DEF FormsInv, Saved, Holds, Fields
<1>16. TypedStill'
  BY <1>1, <1>3, <1>5, <1>6 DEF FormsInv, TypedStill
<1> QED
  BY <1>1, <1>11, <1>13, <1>14, <1>15, <1>16 DEF FormsInv

\* A call fails.
LEMMA CallFailsKeeps ==
  ASSUME FormsInv, NEW i \in DOMAIN inFlight, CallFails(i)
  PROVE  FormsInv'
<1>1. PICK c : c = inFlight[i]
  OBVIOUS
<1>2. /\ UNCHANGED <<form, row, others, made, page, draft>>
      /\ inFlight' = RemoveAt(inFlight, i) /\ busy' = busy \ {c.button}
      /\ met \subseteq met'
      /\ c.steps[1] # "issue" /\ c.ans # "ok" => met' = met
  BY <1>1 DEF CallFails, AfterFailure, Released
<1>3. met' \cap {"again", "typed"} = met \cap {"again", "typed"}
  BY DEF CallFails
<1>4. PICK t : t = inFlight'
  OBVIOUS
<1>5. PICK k : k = form.kind
  OBVIOUS
<1>6. /\ Sequence(t) /\ Apart(k, t)
      /\ \A e \in ToSet(t) :
           e \in ToSet(inFlight) /\ (e.button # c.button \/ e.button = "category")
  <2>1. Apart(k, inFlight) /\ Sequence(inFlight)
    BY <1>5 DEF FormsInv
  <2> QED
    BY <1>1, <1>2, <1>4, <2>1, RemovedApart
<1>7. \A e \in ToSet(t) : CallFits(e)'
  <2> TAKE e \in ToSet(t)
  <2>1. /\ CallFits(e) /\ (e.button # "category" => e.button \in busy')
        /\ others' \in Nat /\ others <= others' /\ others \in Nat
    BY <1>2, <1>6 DEF FormsInv, CallFits
  <2> QED
    BY <1>2, <2>1, CallStillFits
<1>8. (\A e \in ToSet(inFlight) : CallFits(e))'
  BY <1>4, <1>7
<1>9. DraftFits(draft)' /\ RowFits' /\ Sequence(inFlight)' /\ Apart(form.kind, inFlight)'
  BY <1>2, <1>4, <1>5, <1>6 DEF FormsInv, DraftFits, RowFits, Fields, NoRow
<1>10. Once'
  BY <1>2, <1>4, <1>6 DEF FormsInv, Once
<1>11. Saved'
  BY <1>2, <1>4, <1>6 DEF FormsInv, Saved, Holds, Fields
<1>12. TypedStill'
  <2>1. page # "loading"
    BY DEF FormsInv, TypedStill
  <2> QED
    BY <1>2, <1>3, <1>4, <1>6, <2>1 DEF FormsInv, TypedStill
<1> QED
  BY <1>2, <1>8, <1>9, <1>10, <1>11, <1>12 DEF FormsInv

\* The last call of a button has succeeded.
LEMMA LastSucceedsKeeps ==
  ASSUME FormsInv, NEW i \in DOMAIN inFlight, CallSucceeds(i), Len(inFlight[i].steps) = 1
  PROVE  FormsInv'
<1>1. PICK c : c = inFlight[i]
  OBVIOUS
<1>2. /\ UNCHANGED <<form, row, others, made>>
      /\ inFlight' = RemoveAt(inFlight, i) /\ busy' = busy \ {c.button}
  BY <1>1 DEF CallSucceeds, Released
<1>3. draft' = IF c.steps[1] = "category" /\ page = "open"
                 THEN [draft EXCEPT !.categories = "b"] ELSE draft
  BY <1>1 DEF CallSucceeds
<1>4. met' = IF draft' # draft /\ Saving THEN met \cup {"typed"} ELSE met
  BY <1>1 DEF CallSucceeds
<1>5. PICK t : t = inFlight'
  OBVIOUS
<1>6. PICK k : k = form.kind
  OBVIOUS
<1>7. /\ Sequence(t) /\ Apart(k, t) /\ (k # "supplier" => t = << >>)
      /\ \A e \in ToSet(t) :
           e \in ToSet(inFlight) /\ (e.button # c.button \/ e.button = "category")
  <2>1. Apart(k, inFlight) /\ Sequence(inFlight)
    BY <1>6 DEF FormsInv
  <2> QED
    BY <1>1, <1>2, <1>5, <2>1, RemovedApart
<1>8. \A e \in ToSet(t) : CallFits(e)'
  <2> TAKE e \in ToSet(t)
  <2>1. /\ CallFits(e) /\ (e.button # "category" => e.button \in busy')
        /\ others' \in Nat /\ others <= others' /\ others \in Nat
    BY <1>2, <1>7 DEF FormsInv, CallFits
  <2> QED
    BY <1>2, <2>1, CallStillFits
<1>9. (\A e \in ToSet(inFlight) : CallFits(e))'
  BY <1>5, <1>8
<1>10. DraftFits(draft')
  <2>1. CASE draft' = draft
    BY <2>1 DEF FormsInv
  <2>2. CASE draft' # draft
    <3>1. c.steps[1] = "category" /\ draft' = [draft EXCEPT !.categories = "b"]
      BY <1>3, <2>2
    <3>2. PICK d : d = [draft EXCEPT !.categories = "b"]
      OBVIOUS
    <3>3. DOMAIN d = DOMAIN draft
          /\ \A f \in DOMAIN draft : d[f] = draft[f] \/ (d[f] = "b" /\ f = "categories")
      BY <3>2
    <3>4. DraftFits(d)
      BY <3>3 DEF FormsInv, DraftFits, FieldFits
    <3> QED
      BY <3>1, <3>2, <3>4
  <2> QED
    BY <2>1, <2>2
<1>11. DraftFits(draft)'
  BY <1>2, <1>10 DEF DraftFits, Fields
<1>12. RowFits' /\ Sequence(inFlight)' /\ Apart(form.kind, inFlight)'
  BY <1>2, <1>5, <1>6, <1>7 DEF FormsInv, RowFits, Fields, NoRow
<1>13. Once' /\ Saved'
  BY <1>2, <1>4, <1>5, <1>7 DEF FormsInv, Once, Saved, Holds, Fields
<1>14. TypedStill'
  <2>1. page # "loading"
    BY DEF FormsInv, TypedStill
  <2>2. CASE c.steps[1] = "category"
    <3>1. page' = page
      BY <1>1, <2>2 DEF CallSucceeds
    <3>2. ASSUME page' = "open", "typed" \notin met', NEW e \in ToSet(t), e.button # "category"
          PROVE  e.typed = draft'
      <4>1. CallFits(c) /\ CallFits(e) /\ e.typed = draft
        BY <1>1, <1>4, <1>7, <3>1, <3>2 DEF FormsInv, TypedStill, ToSet
      <4>2. Saving
        BY <1>7, <3>2 DEF Saving, ToSet
      <4>3. draft' = draft
        BY <1>4, <3>2, <4>2
      <4> QED
        BY <4>1, <4>3
    <3> QED
      BY <1>5, <2>1, <3>1, <3>2 DEF TypedStill
  <2>3. CASE c.steps[1] # "category"
    <3>1. page' = IF page # "open" THEN page ELSE IF k = "company" THEN "loading"
                  ELSE IF k = "user" /\ ~form.editing THEN "open" ELSE "left"
      BY <1>1, <1>6, <2>3 DEF CallSucceeds
    <3>2. draft' = draft /\ met' = met
      BY <1>3, <1>4, <2>3
    <3>3. page' = "loading" => t = << >>
      BY <1>7, <2>1, <3>1
    <3> QED
      BY <1>5, <1>7, <3>1, <3>2, <3>3 DEF FormsInv, TypedStill
  <2> QED
    BY <2>2, <2>3
<1> QED
  BY <1>2, <1>9, <1>11, <1>12, <1>13, <1>14 DEF FormsInv

\* The invoice has been saved, and is issued next.
LEMMA SavedSucceedsKeeps ==
  ASSUME FormsInv, NEW i \in DOMAIN inFlight, CallSucceeds(i), Len(inFlight[i].steps) # 1
  PROVE  FormsInv'
<1>1. PICK c : c = inFlight[i]
  OBVIOUS
<1>2. CallFits(c) /\ c \in ToSet(inFlight)
  BY <1>1 DEF FormsInv, ToSet
<1>3. c.steps = <<"save", "issue">> /\ c.ans = "ok" /\ form.kind = "invoice" /\ c.button # "category"
  <2>1. Len(c.steps) # 1
    BY <1>1
  <2>2. c.steps \in {<<"save">>, <<"save", "issue">>, <<"issue">>, <<"category">>}
    BY <1>2 DEF CallFits
  <2>3. c.steps = <<"save", "issue">>
    BY <2>1, <2>2
  <2>4. c.steps # <<"category">>
    BY <2>3
  <2> QED
    BY <1>1, <1>2, <2>3, <2>4 DEF CallSucceeds, CallFits
<1>4. PICK d : d = [[c EXCEPT !.steps = Tail(@)] EXCEPT !.ans = "pending"]
  OBVIOUS
<1>5. /\ DOMAIN d = DOMAIN c /\ d.steps = <<"issue">> /\ d.ans = "pending"
      /\ d.button = c.button /\ d.typed = c.typed /\ d.input = c.input /\ d.others = c.others
  <2>1. PICK e : e = [c EXCEPT !.steps = Tail(@)]
    OBVIOUS
  <2>2. Tail(c.steps) = <<"issue">>
    BY <1>3
  <2>3. /\ DOMAIN e = DOMAIN c /\ e.steps = Tail(c.steps)
        /\ e.button = c.button /\ e.typed = c.typed /\ e.input = c.input /\ e.others = c.others
    BY <1>2, <2>1 DEF CallFits
  <2>4. /\ d = [e EXCEPT !.ans = "pending"]
        /\ DOMAIN e = {"button", "steps", "typed", "input", "ans", "others"}
    BY <1>2, <1>4, <2>1, <2>3 DEF CallFits
  <2> QED
    BY <2>2, <2>3, <2>4
<1>6. PICK t : t = inFlight'
  OBVIOUS
<1>7. t = [inFlight EXCEPT ![i] = d]
  <2>1. t = [inFlight EXCEPT ![i].steps = Tail(@), ![i].ans = "pending"]
    BY <1>6 DEF CallSucceeds
  <2> QED
    BY <1>1, <1>4, <2>1
<1>8. PICK k : k = form.kind
  OBVIOUS
<1>9. Sequence(t) /\ Apart(k, t) /\ ToSet(t) = {d}
  <2>1. Sequence(inFlight) /\ Apart(k, inFlight)
    BY <1>8 DEF FormsInv
  <2>2. Apart(k, t)
    BY <1>1, <1>5, <1>7, <2>1, ReplacedApart
  <2>3. Sequence(t)
    BY <1>7, <2>1, Replaced
  <2>5. DOMAIN t = DOMAIN inFlight /\ t[i] = d
    BY <1>7
  <2>4. DOMAIN inFlight \ {i} = {}
    BY <1>3, <1>8, <2>1 DEF Apart
  <2> QED
    BY <2>2, <2>3, <2>4, <2>5 DEF ToSet
<1>10. UNCHANGED <<form, row, others, made, page, draft, busy, met>>
  BY <1>1, <1>3 DEF CallSucceeds
<1>11. CallFits(d)'
  <2>1. CallFits(d)
    <3>1. d.steps # <<"category">> /\ d.steps[1] # "save"
      BY <1>5
    <3> QED
      BY <1>2, <1>3, <1>5, <3>1 DEF CallFits
  <2>2. /\ d.button # "category" => d.button \in busy'
        /\ others' \in Nat /\ others <= others' /\ others \in Nat
    BY <1>2, <1>5, <1>10 DEF FormsInv, CallFits
  <2> QED
    BY <1>10, <2>1, <2>2, CallStillFits
<1>12. (\A e \in ToSet(inFlight) : CallFits(e))'
  BY <1>6, <1>9, <1>11
<1>13. DraftFits(draft)' /\ RowFits' /\ Sequence(inFlight)' /\ Apart(form.kind, inFlight)'
  BY <1>6, <1>8, <1>9, <1>10 DEF FormsInv, DraftFits, RowFits, Fields, NoRow
<1>14. Once'
  <2>1. d.steps[1] # "save"
    BY <1>5
  <2> QED
    BY <1>6, <1>9, <1>10, <2>1 DEF FormsInv, Once
<1>15. Saved'
  <2>1. d.others # others \/ Holds(d)
    BY <1>2, <1>3, <1>5 DEF FormsInv, Saved, Holds
  <2> QED
    BY <1>6, <1>9, <1>10, <2>1 DEF Saved, Holds, Fields
<1>16. TypedStill'
  <2>1. page # "loading"
    BY DEF FormsInv, TypedStill
  <2> QED
    BY <1>2, <1>3, <1>5, <1>6, <1>9, <1>10, <2>1 DEF FormsInv, TypedStill
<1> QED
  BY <1>10, <1>12, <1>13, <1>14, <1>15, <1>16 DEF FormsInv

\* What the server makes of a call to save.
LEMMA SavedIs ==
  ASSUME FormsInv, NEW c, CallFits(c), c.steps[1] = "save", ~Refuses(c),
         row' = IF form.editing THEN Updated(c.input) ELSE Created(c.input)
  PROVE  /\ DOMAIN row' = {"state", "fields"} /\ DOMAIN row'.fields = Fields
         /\ form.editing => row'.state = row.state
         /\ ~form.editing => row'.state = "draft"
         /\ row'.state \in {"draft", "issued"}
         /\ \A f \in Fields :
              row'.fields[f] = IF f # "lines" /\ c.input[f] = Absent
                                 THEN IF form.editing THEN row.fields[f] ELSE ""
                                 ELSE c.input[f]
<1>1. PICK a : a = c.input
  OBVIOUS
<1>2. DOMAIN a = Fields
  BY <1>1 DEF CallFits, Asked, DraftFits
<1>3. CASE form.editing
  <2>1. DOMAIN row = {"state", "fields"} /\ DOMAIN row.fields = Fields /\ row.state \in {"draft", "issued"}
    BY <1>3 DEF FormsInv, RowFits
  <2> QED
    BY <1>1, <1>3, <2>1, UpdatedIs
<1>4. CASE ~form.editing
  BY <1>1, <1>2, <1>4, CreatedIs
<1> QED
  BY <1>3, <1>4

\* A row that was saved fits the fields.
LEMMA SavedFits ==
  ASSUME FormsInv, NEW c, CallFits(c), c.steps[1] = "save", ~Refuses(c), form' = form,
         row' = IF form.editing THEN Updated(c.input) ELSE Created(c.input)
  PROVE  RowFits'
<1>1. PICK r : r = row'
  OBVIOUS
<1>2. /\ DOMAIN r = {"state", "fields"} /\ DOMAIN r.fields = Fields
      /\ r.state \in {"draft", "issued"}
      /\ \A f \in Fields :
           r.fields[f] = IF f # "lines" /\ c.input[f] = Absent
                           THEN IF form.editing THEN row.fields[f] ELSE ""
                           ELSE c.input[f]
  BY <1>1, SavedIs
<1>3. \A f \in Fields :
        IF f = "lines" THEN c.input[f] \subseteq GoodLines
        ELSE c.input[f] \in {"a", "b", "old", "", Absent}
  BY InputFits
<1>4. form.editing => \A f \in Fields : f # "lines" => row.fields[f] \in {"a", "b", "old", ""}
  BY DEF FormsInv, RowFits
<1>5. \A f \in Fields : IF f = "lines" THEN r.fields[f] \subseteq GoodLines
                        ELSE r.fields[f] \in {"", "a", "b", "old"}
  BY <1>2, <1>3, <1>4
<1> QED
  BY <1>1, <1>2, <1>5 DEF RowFits, Fields

\* What a call that was served records.
LEMMA ServedIs ==
  ASSUME FormsInv, NEW i \in DOMAIN inFlight, ServeCall(i), NEW c, c = inFlight[i]
  PROVE  \E d :
    /\ DOMAIN d = DOMAIN c /\ d.others = others /\ d.ans = IF Refuses(c) THEN "refused" ELSE "ok"
    /\ d.button = c.button /\ d.steps = c.steps /\ d.typed = c.typed /\ d.input = c.input
    /\ inFlight' = [inFlight EXCEPT ![i] = d]
<1>1. PICK n : n = IF Refuses(c) THEN "refused" ELSE "ok"
  OBVIOUS
<1>2. PICK o : o = others
  OBVIOUS
<1>3. PICK d : d = [[c EXCEPT !.ans = n] EXCEPT !.others = o]
  OBVIOUS
<1>4. DOMAIN c = {"button", "steps", "typed", "input", "ans", "others"}
  BY DEF FormsInv, CallFits, ToSet
<1>5. /\ DOMAIN d = DOMAIN c /\ d.others = o /\ d.ans = n
      /\ d.button = c.button /\ d.steps = c.steps /\ d.typed = c.typed /\ d.input = c.input
  <2>1. PICK e : e = [c EXCEPT !.ans = n]
    OBVIOUS
  <2>2. /\ DOMAIN e = DOMAIN c /\ e.ans = n
        /\ e.button = c.button /\ e.steps = c.steps /\ e.typed = c.typed /\ e.input = c.input
    BY <1>4, <2>1
  <2>3. d = [e EXCEPT !.others = o]
    BY <1>3, <2>1
  <2> QED
    BY <1>4, <2>2, <2>3
<1>6. inFlight' = [inFlight EXCEPT ![i] = d]
  <2>1. inFlight' = [inFlight EXCEPT ![i].ans = n, ![i].others = o]
    BY <1>1, <1>2 DEF ServeCall
  <2> QED
    BY <1>3, <2>1
<1> QED
  BY <1>1, <1>2, <1>5, <1>6

\* The server serves a call.
LEMMA ServeCallKeeps ==
  ASSUME FormsInv, NEW i \in DOMAIN inFlight, ServeCall(i)
  PROVE  FormsInv'
<1>1. PICK c : c = inFlight[i]
  OBVIOUS
<1>2. CallFits(c) /\ c \in ToSet(inFlight) /\ c.ans = "pending"
  BY <1>1 DEF FormsInv, ToSet, ServeCall
<1>3. PICK d :
        /\ DOMAIN d = DOMAIN c /\ d.others = others /\ d.ans = IF Refuses(c) THEN "refused" ELSE "ok"
        /\ d.button = c.button /\ d.steps = c.steps /\ d.typed = c.typed /\ d.input = c.input
        /\ inFlight' = [inFlight EXCEPT ![i] = d]
  BY <1>1, ServedIs
<1>4. UNCHANGED <<form, others, page, draft, busy, met>>
  BY DEF ServeCall
<1>5. /\ row' = IF Refuses(c) \/ c.steps[1] = "category" THEN row
                ELSE IF c.steps[1] # "save" THEN [row EXCEPT !.state = "issued"]
                ELSE IF form.editing THEN Updated(c.input) ELSE Created(c.input)
      /\ made' = IF c.steps[1] = "save" /\ ~form.editing /\ ~Refuses(c) THEN made + 1 ELSE made
  BY <1>1 DEF ServeCall
<1>6. PICK t : t = inFlight'
  OBVIOUS
<1>7. PICK k : k = form.kind
  OBVIOUS
<1>8. Sequence(inFlight) /\ Apart(k, inFlight)
  BY <1>7 DEF FormsInv
<1>9. Sequence(t)
  BY <1>3, <1>6, <1>8, Replaced
<1>10. Apart(k, t)
  BY <1>1, <1>3, <1>6, <1>8, ReplacedApart
<1>11. \A e \in ToSet(t) :
         \/ e = d
         \/ /\ e \in ToSet(inFlight) /\ CallFits(e) /\ k = "supplier"
            /\ e.button = "category" \/ c.button = "category"
  <2> TAKE e \in ToSet(t)
  <2>1. DOMAIN t = DOMAIN inFlight /\ t[i] = d /\ \A j \in DOMAIN inFlight \ {i} : t[j] = inFlight[j]
    BY <1>3, <1>6
  <2>2. PICK j \in DOMAIN t : e = t[j]
    BY DEF ToSet
  <2>3. CASE j = i
    BY <2>1, <2>2, <2>3
  <2>4. CASE j # i
    <3>1. e = inFlight[j] /\ j \in DOMAIN inFlight
      BY <2>1, <2>2, <2>4
    <3>2. e \in ToSet(inFlight) /\ CallFits(e)
      BY <3>1 DEF FormsInv, ToSet
    <3>3. k = "supplier" /\ (e.button = "category" \/ c.button = "category")
      BY <1>1, <1>8, <2>4, <3>1 DEF Apart
    <3> QED
      BY <3>2, <3>3
  <2> QED
    BY <2>3, <2>4
<1>12. CallFits(d)'
  <2>1. others \in Nat
    BY DEF FormsInv
  <2>2. CallFits(d)
    BY <1>2, <1>3, <2>1 DEF CallFits
  <2>3. (d.button # "category" => d.button \in busy') /\ others' \in Nat /\ others <= others'
    BY <1>4, <2>1, <2>2 DEF CallFits
  <2> QED
    BY <1>4, <2>1, <2>2, <2>3, CallStillFits
<1>13. \A e \in ToSet(inFlight) : CallFits(e)'
  BY <1>4, CallStillFits DEF FormsInv, CallFits
<1>14. (\A e \in ToSet(inFlight) : CallFits(e))'
  BY <1>6, <1>11, <1>12, <1>13
<1>15. RowFits'
  <2>1. CASE Refuses(c) \/ c.steps[1] = "category"
    BY <1>4, <1>5, <2>1 DEF FormsInv, RowFits, Fields, NoRow
  <2>2. CASE ~Refuses(c) /\ c.steps[1] = "save"
    <3>1. row' = IF form.editing THEN Updated(c.input) ELSE Created(c.input)
      BY <1>5, <2>2
    <3> QED
      BY <1>2, <1>4, <2>2, <3>1, SavedFits
  <2>3. CASE ~Refuses(c) /\ c.steps[1] \notin {"save", "category"}
    <3>1. c.steps = <<"issue">>
      BY <1>2, <2>3 DEF CallFits
    <3>2. row.state = "draft"
      BY <2>3, <3>1 DEF Refuses
    <3>3. /\ DOMAIN row = {"state", "fields"} /\ DOMAIN row.fields = Fields
          /\ \A f \in Fields : IF f = "lines" THEN row.fields[f] \subseteq GoodLines
                               ELSE row.fields[f] \in {"", "a", "b", "old"}
      <4>1. row # NoRow
        BY <3>2 DEF NoRow
      <4> QED
        BY <4>1 DEF FormsInv, RowFits
    <3>4. PICK r : r = row'
      OBVIOUS
    <3>5. r = [row EXCEPT !.state = "issued"]
      BY <1>5, <2>3, <3>4
    <3>6. DOMAIN r = {"state", "fields"} /\ r.state = "issued" /\ r.fields = row.fields
      BY <3>3, <3>5
    <3> QED
      BY <1>4, <3>3, <3>4, <3>6 DEF RowFits, Fields
  <2> QED
    BY <2>1, <2>2, <2>3
<1>16. DraftFits(draft)' /\ Sequence(inFlight)' /\ Apart(form.kind, inFlight)'
  BY <1>4, <1>6, <1>7, <1>9, <1>10 DEF FormsInv, DraftFits, Fields
<1>17. Once'
  <2>1. d.ans # "pending"
    BY <1>3
  <2>2. CASE c.steps[1] = "save" /\ ~form.editing /\ ~Refuses(c)
    <3>1. made' = made + 1
      BY <1>5, <2>2
    <3>2. met \cap {"lost", "unissued", "again"} = {} => made = 0
      BY <1>2, <2>2 DEF FormsInv, Once
    <3>3. c.button # "category"
      BY <1>2, <2>2 DEF CallFits
    <3>4. \A e \in ToSet(t) : e.steps[1] = "save" => e.ans # "pending"
      BY <1>11, <2>1, <3>3 DEF CallFits
    <3> QED
      BY <1>4, <1>6, <2>2, <3>1, <3>2, <3>4 DEF FormsInv, Once
  <2>3. CASE ~(c.steps[1] = "save" /\ ~form.editing /\ ~Refuses(c))
    <3>1. made' = made
      BY <1>5, <2>3
    <3> QED
      BY <1>4, <1>6, <1>11, <2>1, <3>1 DEF FormsInv, Once
  <2> QED
    BY <2>2, <2>3
<1>18. Saved'
  <2>1. ASSUME d.steps = <<"save", "issue">>, d.ans = "ok" PROVE Holds(d)'
    <3>1. ~Refuses(c) /\ c.steps[1] = "save"
      BY <1>3, <2>1
    <3>2. row' = IF form.editing THEN Updated(c.input) ELSE Created(c.input)
      BY <1>5, <3>1
    <3>3. /\ DOMAIN row' = {"state", "fields"}
          /\ \A f \in Fields :
               row'.fields[f] = IF f # "lines" /\ c.input[f] = Absent
                                  THEN IF form.editing THEN row.fields[f] ELSE ""
                                  ELSE c.input[f]
      BY <1>2, <3>1, <3>2, SavedIs
    <3> QED
      BY <1>3, <1>4, <3>3 DEF Holds, Fields
  <2>2. d.ans # "pending"
    BY <1>3
  <2>3. \A e \in ToSet(t) : e = d \/ e.steps \notin {<<"save", "issue">>, <<"issue">>}
    BY <1>7, <1>11 DEF CallFits
  <2> QED
    BY <1>6, <2>1, <2>2, <2>3 DEF Saved
<1>19. TypedStill'
  <2>1. page # "loading"
    BY DEF FormsInv, TypedStill
  <2> QED
    BY <1>2, <1>3, <1>4, <1>6, <1>11, <2>1 DEF FormsInv, TypedStill
<1> QED
  BY <1>4, <1>14, <1>15, <1>16, <1>17, <1>18, <1>19 DEF FormsInv

-----------------------------------------------------------------------------
(* The theorems of the forms                                                *)

\* The invariant holds when a form is mounted.
LEMMA InitFormsInv ==
  ASSUME FormInit
  PROVE  FormsInv
<1>1. form.kind \in Kinds
  BY KindsAre DEF FormInit
<1>2. PICK k \in Kinds : k = form.kind
  BY <1>1
<1>3. /\ inFlight = << >> /\ busy = {} /\ met = {} /\ made = 0 /\ others = 0
      /\ (k = "order" => ~form.editing)
  BY <1>2 DEF FormInit
<1>4. Sequence(inFlight) /\ ToSet(inFlight) = {} /\ DOMAIN inFlight = {}
  <2>1. ToSet(inFlight) = {} /\ DOMAIN inFlight = {}
    BY <1>3 DEF ToSet
  <2> QED
    BY <1>3, <2>1 DEF Sequence
<1>5. RowFits
  <2>1. CASE ~form.editing
    BY <2>1 DEF FormInit, RowFits
  <2>2. CASE form.editing
    <3>1. row \in RowsToEdit(k)
      BY <1>2, <2>2 DEF FormInit
    <3>2. PICK full :
            full = [f \in DOMAIN NewDraft[k] |-> IF f = "lines" THEN {"good"} ELSE "a"]
      OBVIOUS
    <3>3. PICK bare :
            bare = [f \in DOMAIN full |->
                      IF f \in {"lines", "name", "choice"} THEN full[f]
                      ELSE IF f = "partner" THEN "old" ELSE ""]
      OBVIOUS
    <3>4. row \in [state : {"draft"}, fields : {full, bare}] \cup [state : {"issued"}, fields : {full}]
      BY <3>1, <3>2, <3>3 DEF RowsToEdit
    <3>5. DOMAIN NewDraft[k] = Fields
      BY <1>2, NewDraftFits DEF Fields
    <3>6. /\ DOMAIN full = Fields
          /\ \A f \in Fields : IF f = "lines" THEN full[f] \subseteq GoodLines
                               ELSE full[f] \in {"", "a", "b", "old"}
      BY <3>2, <3>5 DEF GoodLines
    <3>7. /\ DOMAIN bare = Fields
          /\ \A f \in Fields : IF f = "lines" THEN bare[f] \subseteq GoodLines
                               ELSE bare[f] \in {"", "a", "b", "old"}
      BY <3>3, <3>6
    <3>8. DOMAIN row = {"state", "fields"} /\ row.state \in {"draft", "issued"}
          /\ (row.fields = full \/ row.fields = bare)
      BY <3>4
    <3> QED
      BY <3>6, <3>7, <3>8 DEF RowFits
  <2> QED
    BY <2>1, <2>2
<1>6. DraftFits(draft)
  <2>1. CASE draft = NewDraft[k]
    <3>1. DOMAIN NewDraft[k] = FieldsOf[k] /\ \A f \in FieldsOf[k] : FieldFits(f, NewDraft[k][f])
      BY NewDraftFits
    <3> QED
      BY <1>2, <2>1, <3>1 DEF DraftFits, Fields
  <2>2. CASE form.editing /\ draft = row.fields
    <3>1. row # NoRow
      BY <2>2 DEF FormInit, RowsToEdit, NoRow
    <3> QED
      BY <1>5, <2>2, <3>1 DEF RowFits, DraftFits, FieldFits, GoodLines, LineKinds
  <2> QED
    BY <1>2, <2>1, <2>2 DEF FormInit
<1>7. Apart(form.kind, inFlight) /\ Once /\ Saved /\ TypedStill
  BY <1>3, <1>4 DEF Apart, Once, Saved, TypedStill
<1> QED
  BY <1>1, <1>2, <1>3, <1>4, <1>5, <1>6, <1>7 DEF FormsInv

\* Every step keeps it.
LEMMA NextFormsInv ==
  ASSUME FormsInv, [FormNext]_formVars
  PROVE  FormsInv'
<1>1. CASE RowArrives \/ RowFails
  BY <1>1, RowArrivesKeeps
<1>2. CASE Leave \/ OptionsArrive \/ UNCHANGED formVars
  BY <1>2, LeaveKeeps
<1>3. CASE OtherEdits
  BY <1>3, OtherEditsKeeps
<1>4. ASSUME NEW f \in DOMAIN draft, NEW v \in Inputs[form.kind][f], Type(f, v) PROVE FormsInv'
  BY <1>4, TypeKeeps
<1>5. ASSUME NEW b \in DOMAIN Steps[form.kind], PressButton(b) PROVE FormsInv'
  BY <1>5, PressKeepsForm
<1>6. ASSUME NEW i \in DOMAIN inFlight, CallArrives(i) PROVE FormsInv'
  <2>1. CASE ServeCall(i)
    BY <2>1, ServeCallKeeps
  <2>2. CASE CallSucceeds(i)
    BY <2>2, LastSucceedsKeeps, SavedSucceedsKeeps
  <2>3. CASE CallFails(i)
    BY <2>3, CallFailsKeeps
  <2> QED
    BY <1>6, <2>1, <2>2, <2>3 DEF CallArrives
<1> QED
  BY <1>1, <1>2, <1>3, <1>4, <1>5, <1>6 DEF FormNext

\* The invariant holds always, on every form, for any number of edits, presses and
\* other users' changes.
THEOREM FormsInvariant == FormSpec => []FormsInv
<1>1. FormInit => FormsInv
  BY InitFormsInv
<1>2. FormsInv /\ [FormNext]_formVars => FormsInv'
  BY NextFormsInv
<1> QED
  BY <1>1, <1>2, PTL DEF FormSpec

\* isSaving and its like let a form create once what it is for, unless an answer
\* was lost, the second call failed, or the form stays open for more.
THEOREM OneRowEach == FormSpec => []OneRowPerForm
<1>1. FormsInv => OneRowPerForm
  BY DEF FormsInv, Once, OneRowPerForm
<1> QED
  BY <1>1, FormsInvariant, PTL

\* Leaving an open form.
LEMMA LeavingStep ==
  ASSUME FormsInv, [FormNext]_formVars, page = "open", page' # "open", "typed" \notin met
  PROVE  Leave \/ \E i \in DOMAIN inFlight : CallSucceeds(i) /\ inFlight[i].typed = draft
<1>1. ~UNCHANGED formVars
  BY DEF formVars
<1>2. ~(RowArrives \/ RowFails \/ OptionsArrive \/ OtherEdits)
  BY DEF RowArrives, RowFails, OptionsArrive, OtherEdits
<1>3. ASSUME NEW f, NEW v, Type(f, v) PROVE FALSE
  BY <1>3 DEF Type
<1>4. ASSUME NEW b, PressButton(b) PROVE FALSE
  BY <1>4 DEF PressButton
<1>5. ASSUME NEW i \in DOMAIN inFlight, CallArrives(i)
      PROVE  CallSucceeds(i) /\ inFlight[i].typed = draft
  <2>1. ~ServeCall(i) /\ ~CallFails(i)
    BY DEF ServeCall, CallFails, AfterFailure
  <2>2. CallSucceeds(i)
    BY <1>5, <2>1 DEF CallArrives
  <2>3. PICK c : c = inFlight[i]
    OBVIOUS
  <2>4. c \in ToSet(inFlight) /\ CallFits(c)
    BY <2>3 DEF FormsInv, ToSet
  <2>5. c.steps[1] # "category"
    BY <2>2, <2>3 DEF CallSucceeds
  <2>6. c.button # "category"
    BY <2>4, <2>5 DEF CallFits
  <2> QED
    BY <2>2, <2>3, <2>4, <2>6 DEF FormsInv, TypedStill
<1> QED
  BY <1>1, <1>2, <1>3, <1>4, <1>5 DEF FormNext

\* What was typed is dropped by the user or saved first: handleSave and its like
\* leave the form after the answer to what was on the screen.
THEOREM TypedIsNotLost == FormSpec => TypedIsKept
<1>1. FormsInv /\ [FormNext]_formVars =>
        [page = "open" /\ page' # "open" /\ "typed" \notin met =>
           Leave \/ \E i \in DOMAIN inFlight : CallSucceeds(i) /\ inFlight[i].typed = draft]_formVars
  BY LeavingStep
<1> QED
  BY <1>1, FormsInvariant, PTL DEF FormSpec, TypedIsKept

\* The step that issues.
LEMMA IssuingStep ==
  ASSUME FormsInv, NEW i \in DOMAIN inFlight, ServeCall(i), row'.state = "issued", row.state = "draft",
         others = inFlight[i].others, NEW f \in DOMAIN draft
  PROVE  LET sent == inFlight[i].input[f]
         IN (f # "lines" /\ sent = Absent) \/ sent = row'.fields[f]
<1>1. PICK c : c = inFlight[i]
  OBVIOUS
<1>2. CallFits(c) /\ c \in ToSet(inFlight) /\ c.ans = "pending"
  BY <1>1 DEF FormsInv, ToSet, ServeCall
<1>3. f \in Fields
  BY DEF FormsInv, DraftFits
<1>4. row' = IF Refuses(c) \/ c.steps[1] = "category" THEN row
             ELSE IF c.steps[1] # "save" THEN [row EXCEPT !.state = "issued"]
             ELSE IF form.editing THEN Updated(c.input) ELSE Created(c.input)
  BY <1>1 DEF ServeCall
<1>5. ~Refuses(c) /\ c.steps[1] # "category"
  BY <1>4
<1>6. c.steps[1] # "save"
  <2>1. ASSUME c.steps[1] = "save" PROVE FALSE
    <3>1. row' = IF form.editing THEN Updated(c.input) ELSE Created(c.input)
      BY <1>4, <1>5, <2>1
    <3>2. row'.state = row.state \/ row'.state = "draft"
      BY <1>2, <1>5, <2>1, <3>1, SavedIs
    <3> QED
      BY <3>2
  <2> QED
    BY <2>1
<1>7. c.steps = <<"issue">>
  BY <1>2, <1>5, <1>6 DEF CallFits
<1>8. Holds(c)
  BY <1>1, <1>2, <1>7 DEF FormsInv, Saved
<1>9. row'.fields = row.fields
  BY <1>4, <1>5, <1>6, <1>8 DEF Holds
<1> QED
  BY <1>1, <1>3, <1>8, <1>9 DEF Holds

\* handleIssue saves and then issues: what is issued is what was on the screen.
THEOREM IssuedWasShown == FormSpec => IssuedIsSaved
<1>1. FormsInv /\ [FormNext]_formVars =>
        [\A i \in DOMAIN inFlight :
           ServeCall(i) /\ row'.state = "issued" /\ row.state = "draft" /\ others = inFlight[i].others
             => \A f \in DOMAIN draft : LET sent == inFlight[i].input[f] IN
                  (f # "lines" /\ sent = Absent) \/ sent = row'.fields[f]]_formVars
  BY IssuingStep
<1> QED
  BY <1>1, FormsInvariant, PTL DEF FormSpec, IssuedIsSaved

\* What is stored of a field.
LEMMA StoringStep ==
  ASSUME FormsInv, NEW i \in DOMAIN inFlight, ServeCall(i), ~Refuses(inFlight[i]),
         inFlight[i].steps[1] = "save", NEW f \in DOMAIN draft
  PROVE  LET v == inFlight[i].typed[f]
             unnamed == f = "lines" /\ "unnamed" \in v
             emptied == f \in NeverEmptied[form.kind] /\ form.editing /\ Shows(f, v) = ""
         IN row'.fields[f] = Shows(f, v) \/ unnamed \/ emptied
<1>1. PICK c : c = inFlight[i]
  OBVIOUS
<1>2. CallFits(c) /\ ~Refuses(c) /\ c.steps[1] = "save"
  BY <1>1 DEF FormsInv, ToSet
<1>3. f \in Fields /\ form.kind \in Kinds
  BY DEF FormsInv, DraftFits
<1>4. PICK k \in Kinds : k = form.kind
  BY <1>3
<1>5. PICK v : v = c.typed[f]
  OBVIOUS
<1>6. row' = IF form.editing THEN Updated(c.input) ELSE Created(c.input)
  <2>1. c.steps[1] # "category"
    BY <1>2
  <2> QED
    BY <1>1, <1>2, <2>1 DEF ServeCall
<1>7. row'.fields[f] = IF f # "lines" /\ c.input[f] = Absent
                         THEN IF form.editing THEN row.fields[f] ELSE ""
                         ELSE c.input[f]
  BY <1>2, <1>3, <1>6, SavedIs
<1>8. Passed(k, c.typed) /\ FieldFits(f, v)
  BY <1>2, <1>3, <1>4, <1>5 DEF CallFits, DraftFits
<1>9. CASE f = "lines"
  <2>1. Shows(f, v) \in {InvoiceComputeTotals(v), QuoteComputeTotals(v), OrderComputeTotals(v)}
    BY <1>9, Zenon DEF Shows
  <2>2. Shows(f, v) = v \ {"empty"}
    BY <2>1 DEF InvoiceComputeTotals, QuoteComputeTotals, OrderComputeTotals
  <2>3. row'.fields[f] = v \cap GoodLines
    <3>1. c.input[f] = c.typed[f] \cap GoodLines
      BY <1>2, <1>3, <1>9, LinesAsked
    <3>2. row'.fields[f] = c.input[f]
      BY <1>7, <1>9
    <3> QED
      BY <1>5, <3>1, <3>2
  <2>4. k \in Documents
    BY <1>3, <1>4, <1>9 DEF Fields, FieldsOf
  <2>5. "wrong" \notin v /\ v \subseteq LineKinds
    BY <1>5, <1>8, <1>9, <2>4 DEF Passed, FieldFits
  <2>6. "unnamed" \in v \/ v \cap GoodLines = v \ {"empty"}
    BY <2>5 DEF LineKinds, GoodLines
  <2> QED
    BY <1>1, <1>5, <1>9, <2>2, <2>3, <2>6
<1>10. CASE f # "lines" /\ v \notin {"", "unfit"}
  <2>1. c.input[f] = v /\ v \in {"a", "b", "old"}
    BY <1>2, <1>3, <1>5, <1>10, TextAsked
  <2>2. row'.fields[f] = v
    BY <1>7, <2>1 DEF Absent
  <2>3. Shows(f, v) = v
    BY <1>10 DEF Shows
  <2> QED
    BY <1>1, <1>5, <2>2, <2>3
<1>11. CASE f # "lines" /\ v \in {"", "unfit"}
  <2>1. Shows(f, v) = ""
    BY <1>11 DEF Shows
  <2>2. c.input[f] = "" \/ (c.input[f] = Absent /\ Requests[k][f] = "left out")
    BY <1>2, <1>3, <1>4, <1>5, <1>11, EmptyAsked
  <2>3. row'.fields[f] = "" \/ (form.editing /\ Requests[k][f] = "left out")
    <3>1. CASE c.input[f] = ""
      <4>1. c.input[f] # Absent
        BY <3>1 DEF Absent
      <4> QED
        BY <1>7, <3>1, <4>1
    <3>2. CASE c.input[f] = Absent /\ Requests[k][f] = "left out"
      BY <1>7, <1>11, <3>2
    <3> QED
      BY <2>2, <3>1, <3>2
  <2>4. ASSUME form.editing, Requests[k][f] = "left out" PROVE f \in NeverEmptied[k]
    <3>1. f \in FieldsOf[k]
      BY <1>3, <1>4 DEF Fields
    <3>2. f \in NeverEmptied[k] \/ k = "order" \/ (k = "company" /\ f = "name")
      BY <1>11, <2>4, <3>1, LeftOutIs
    <3>3. k # "order"
      BY <1>4, <2>4 DEF FormsInv
    <3>4. ~(k = "company" /\ f = "name")
      BY <1>5, <1>8, <1>11 DEF Passed, FieldFits
    <3> QED
      BY <3>2, <3>3, <3>4
  <2> QED
    BY <1>1, <1>4, <1>5, <2>1, <2>3, <2>4
<1> QED
  BY <1>9, <1>10, <1>11

\* buildInput and toInput send what the form showed, validate stops what they
\* would drop, and create and update store it.
THEOREM StoredWasShown == FormSpec => StoredIsShown
<1>1. FormsInv /\ [FormNext]_formVars =>
        [\A i \in DOMAIN inFlight :
           ServeCall(i) /\ ~Refuses(inFlight[i]) /\ inFlight[i].steps[1] = "save" =>
             \A f \in DOMAIN draft :
               LET v == inFlight[i].typed[f]
                   unnamed == f = "lines" /\ "unnamed" \in v
                   emptied == f \in NeverEmptied[form.kind] /\ form.editing /\ Shows(f, v) = ""
               IN row'.fields[f] = Shows(f, v) \/ unnamed \/ emptied]_formVars
  BY StoringStep
<1> QED
  BY <1>1, FormsInvariant, PTL DEF FormSpec, StoredIsShown
=============================================================================
