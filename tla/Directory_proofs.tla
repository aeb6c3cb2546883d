--------------------------- MODULE Directory_proofs ---------------------------
(***************************************************************************)
(* Directory, for every set of workspaces, partners, categories and        *)
(* concurrent requests.                                                    *)
(***************************************************************************)
EXTENDS Directory, TLAPS

PartnerAts == {"finding", "updating", "replacing", "deactivating", "invoicing"}

\* What a request may rely on when it writes: its row is there, in the
\* workspace it remembers; so are its categories, if they still exist; and
\* what it checked holds until another request meets it on its row.
Sound(q) ==
  q # Idle =>
    /\ q.at = "creating" => q.id \in PartnerIds /\ partner[q.id] = Absent
    /\ q.at \in PartnerAts => q.id \in PartnerIds /\ FindsPartner(q.id, q.workspace)
    /\ q.at = "deleting" => q.id \in CategoryIds /\ (q.id \in met \/ ~InUse(q.id))
    /\ q.at = "deactivating" => q.id \in met \/ q.id \notin invoiced
    /\ \A c \in q.categories :
         category[c].status = "present" => category[c].workspace = q.workspace
    /\ \A c \in q.categories : category[c].status # "absent"

\* The partner a request will insert is nobody else's.
InsertsApart ==
  \A r, s \in Requests :
    r # s /\ req[r] # Idle /\ req[r].at = "creating" => req[r].id \notin About(s)

\* "met" has noticed every meeting.
Noticed ==
  \A r, s \in Requests : r # s => About(r) \cap About(s) \subseteq met

IInv ==
  /\ TypeOK
  /\ \A r \in Requests : Sound(req[r])
  /\ InsertsApart
  /\ CategoriesAreLocal
  /\ Noticed

-----------------------------------------------------------------------------
(* Type correctness                                                         *)

LEMMA Shapes ==
  /\ Idle.at = "idle"
  /\ Absent.status = "absent" /\ Deleted.status = "deleted"
BY DEF Idle, Absent, Deleted

LEMMA WorkingShape ==
  ASSUME TypeOK, NEW r \in Requests
  PROVE  /\ req[r] # Idle <=> req[r] \in Working
         /\ req[r].at # "idle" <=> req[r] \in Working
BY DEF TypeOK, Idle, Working

LEMMA RowShape ==
  ASSUME TypeOK
  PROVE  /\ \A p \in PartnerIds :
              /\ partner[p].status = "present" <=> partner[p] \in PartnerRow
              /\ partner[p].status # "present" <=> partner[p] = Absent
         /\ \A c \in CategoryIds :
              /\ category[c].status = "present" <=> category[c] \in CategoryRow
              /\ category[c].status = "absent" <=> category[c] = Absent
BY DEF TypeOK, PartnerRow, CategoryRow, Absent, Deleted

LEMMA TypeOfRequest ==
  ASSUME TypeOK, NEW r \in Requests, NEW c \in {Idle} \cup Working,
         req' = [req EXCEPT ![r] = c]
  PROVE  req' \in [Requests -> {Idle} \cup Working]
BY DEF TypeOK

LEMMA TypeOfPartner ==
  ASSUME TypeOK, NEW p \in PartnerIds, NEW row \in PartnerRow,
         partner' = [partner EXCEPT ![p] = row]
  PROVE  partner' \in [PartnerIds -> PartnerRow \cup {Absent}]
BY DEF TypeOK

\* Each action leaves every table well typed.
Tables ==
  /\ partner \in [PartnerIds -> PartnerRow \cup {Absent}]
  /\ category \in [CategoryIds -> CategoryRow \cup {Absent, Deleted}]
  /\ invoiced \in SUBSET PartnerIds
  /\ req \in [Requests -> {Idle} \cup Working]

LEMMA PartnerStepType ==
  ASSUME IInv, NEW r \in Requests, PartnerStep(r)
  PROVE  Tables'
<1> USE DEF IInv
<1>1. ASSUME NEW p \in PartnerIds, NEW w \in Workspaces, NEW type \in Types,
             NEW categories \in SUBSET CategoryIds,
             CreateFind(r, p, w, type, categories)
      PROVE  Tables'
  BY <1>1 DEF CreateFind, TypeOK, Working, Tables
<1>2. ASSUME NEW p \in PartnerIds, NEW w \in Workspaces,
             UpdateFind(r, p, w) \/ RemoveFind(r, p, w) \/ InvoiceFind(r, p, w)
      PROVE  Tables'
  BY <1>2, RowShape
  DEF UpdateFind, RemoveFind, InvoiceFind, FindsPartner, TypeOK, Working, PartnerRow,
      Types, Tables
<1>3. CASE CreateWrite(r)
  <2>1. req[r] \in Working /\ req[r].id \in PartnerIds
    BY <1>3, WorkingShape, Shapes DEF CreateWrite, Sound
  <2>2. [status |-> "present", workspace |-> req[r].workspace, type |-> req[r].type,
         isActive |-> TRUE, categories |-> req[r].categories] \in PartnerRow
    BY <2>1 DEF Working, PartnerRow
  <2>3. QED
    BY <1>3, <2>1, <2>2, TypeOfPartner, TypeOfRequest DEF CreateWrite, TypeOK, Tables
<1>4. ASSUME NEW given \in BOOLEAN, NEW categories \in SUBSET CategoryIds,
             UpdateCheck(r, given, categories)
      PROVE  Tables'
  <2>1. PICK c : c = [req[r] EXCEPT !.at = IF given THEN "replacing" ELSE "updating",
                                    !.categories = categories]
    OBVIOUS
  <2>2. req[r] \in Working
    BY <1>4, WorkingShape DEF UpdateCheck
  <2>3. c \in Working
    BY <2>1, <2>2 DEF Working
  <2>4. req' = [req EXCEPT ![r] = c]
    BY <1>4, <2>1, <2>2 DEF UpdateCheck, TypeOK, Working
  <2>5. QED
    BY <1>4, <2>3, <2>4, TypeOfRequest DEF UpdateCheck, TypeOK, Tables
<1>5. ASSUME NEW isActive \in BOOLEAN, UpdateWrite(r, isActive) PROVE Tables'
  <2>1. req[r] \in Working /\ req[r].id \in PartnerIds /\ partner[req[r].id] \in PartnerRow
    BY <1>5, WorkingShape, RowShape, Shapes DEF UpdateWrite, Sound, PartnerAts, FindsPartner
  <2>2. PICK p \in PartnerIds : p = req[r].id
    BY <2>1
  <2>3. PICK row : row = [partner[p] EXCEPT
          !.isActive = isActive,
          !.categories = IF req[r].at = "replacing"
                         THEN Connectable(req[r].categories) ELSE @]
    OBVIOUS
  <2>4. row \in PartnerRow
    BY <2>1, <2>2, <2>3 DEF PartnerRow, Connectable, Working
  <2>5. partner' = [partner EXCEPT ![p] = row]
    BY <1>5, <2>1, <2>2, <2>3 DEF UpdateWrite, TypeOK, PartnerRow
  <2>6. QED
    BY <1>5, <2>4, <2>5, TypeOfPartner, TypeOfRequest DEF UpdateWrite, TypeOK, Tables
<1>6. CASE RemoveWrite(r)
  <2>1. req[r].id \in PartnerIds /\ partner[req[r].id] \in PartnerRow
    BY <1>6, RowShape, Shapes DEF RemoveWrite, Sound, PartnerAts, FindsPartner
  <2>2. PICK row : row = [partner[req[r].id] EXCEPT !.isActive = FALSE]
    OBVIOUS
  <2>3. row \in PartnerRow /\ partner' = [partner EXCEPT ![req[r].id] = row]
    BY <1>6, <2>1, <2>2 DEF RemoveWrite, PartnerRow
  <2>4. QED
    BY <1>6, <2>1, <2>3, TypeOfPartner, TypeOfRequest DEF RemoveWrite, TypeOK, Tables
<1>7. CASE InvoiceWrite(r)
  <2>1. req[r].id \in PartnerIds
    BY <1>7, Shapes DEF InvoiceWrite, Sound, PartnerAts
  <2>2. QED
    BY <1>7, <2>1, TypeOfRequest DEF InvoiceWrite, TypeOK, Tables
<1>8. QED
  BY <1>1, <1>2, <1>3, <1>4, <1>5, <1>6, <1>7 DEF PartnerStep

LEMMA CategoryStepType ==
  ASSUME IInv, NEW r \in Requests, CategoryStep(r)
  PROVE  Tables'
<1> USE DEF IInv
<1>1. ASSUME NEW c \in CategoryIds, NEW w \in Workspaces, CategoryRemoveFind(r, c, w)
      PROVE  Tables'
  BY <1>1 DEF CategoryRemoveFind, TypeOK, Working, Types, Tables
<1>2. CASE CategoryRemoveWrite(r)
  <2>1. req[r].id \in CategoryIds
    BY <1>2, Shapes DEF CategoryRemoveWrite, Sound
  <2>2. \A p \in PartnerIds : partner[p].status = "present" =>
          [partner[p] EXCEPT !.categories = @ \ {req[r].id}] \in PartnerRow
    BY RowShape DEF PartnerRow
  <2>3. partner' \in [PartnerIds -> PartnerRow \cup {Absent}]
    BY <1>2, <2>2 DEF CategoryRemoveWrite, TypeOK
  <2>4. QED
    BY <1>2, <2>1, <2>3, TypeOfRequest DEF CategoryRemoveWrite, TypeOK, Tables
<1>3. QED
  BY <1>1, <1>2 DEF CategoryStep

LEMMA StepType == IInv /\ [Next]_vars => TypeOK'
<1> SUFFICES ASSUME IInv, [Next]_vars PROVE TypeOK'
  OBVIOUS
<1>1. CASE UNCHANGED vars
  BY <1>1 DEF IInv, TypeOK, vars
<1>2. CASE Next
  <2>1. ASSUME NEW r \in Requests, Abandon(r) PROVE Tables'
    BY <2>1, TypeOfRequest DEF Abandon, IInv, TypeOK, Tables
  <2>2. ASSUME NEW c \in CategoryIds, NEW w \in Workspaces, CategoryCreate(c, w)
        PROVE  Tables'
    BY <2>2 DEF CategoryCreate, IInv, TypeOK, CategoryRow, Tables
  <2>3. ASSUME NEW p \in PartnerIds, InvoiceGone(p) PROVE Tables'
    BY <2>3 DEF InvoiceGone, IInv, TypeOK, Tables
  <2>4. Tables'
    BY <1>2, <2>1, <2>2, <2>3, PartnerStepType, CategoryStepType DEF Next
  <2>5. met' \in SUBSET (PartnerIds \cup CategoryIds)
    BY <1>2 DEF Next, Remember, Meeting, IInv, TypeOK
  <2>6. QED
    BY <2>4, <2>5 DEF Tables, TypeOK
<1>3. QED
  BY <1>1, <1>2

-----------------------------------------------------------------------------
(* The inductive invariant                                                  *)

LEMMA InitIInv == Init => IInv
<1> SUFFICES ASSUME Init PROVE IInv
  OBVIOUS
<1>1. \A p \in PartnerIds : partner[p].status # "present"
  BY Shapes DEF Init
<1>2. TypeOK
  BY DEF Init, TypeOK
<1>3. QED
  BY <1>1, <1>2 DEF Init, IInv, Sound, InsertsApart, CategoriesAreLocal, Noticed, About

LEMMA AboutIds ==
  ASSUME TypeOK, NEW r \in Requests
  PROVE  About(r) \subseteq PartnerIds \cup CategoryIds
BY DEF TypeOK, About, Working

\* Remembering the meetings of every new state notices them all.
LEMMA RememberNotices ==
  ASSUME TypeOK', Remember
  PROVE  Noticed'
<1>1. \A r \in Requests : req'[r] # Idle =>
        {req'[r].id} \cup req'[r].categories \subseteq PartnerIds \cup CategoryIds
  BY DEF TypeOK, Working
<1>2. QED
  BY <1>1 DEF Noticed, Meeting, Remember, About

\* What request r changes disturbs what another relies on only where they meet.
LEMMA OtherStaysSound ==
  ASSUME IInv, Remember, NEW r \in Requests, NEW t \in Requests, t # r,
         req'[t] = req[t],
         \A p \in PartnerIds :
           /\ partner[p].status = "present" =>
                partner'[p].status = "present" /\ partner'[p].workspace = partner[p].workspace
           /\ partner[p] = Absent => partner'[p] = Absent \/ p \in About(r),
         \A k \in CategoryIds : category[k].status # "absent" =>
           /\ category'[k].status # "absent"
           /\ category'[k].status = "present" => category'[k] = category[k],
         \A k \in CategoryIds : InUse(k)' => InUse(k) \/ k \in About(r),
         \A p \in invoiced' : p \in invoiced \/ p \in About(r)
  PROVE  Sound(req[t])'
<1> SUFFICES ASSUME req[t] # Idle PROVE Sound(req[t])'
  BY DEF Sound
<1>1. PICK q : q = req[t]
  OBVIOUS
<1>2. Sound(q) /\ q \in Working /\ About(t) = {q.id} \cup q.categories /\ q # Idle
  BY <1>1, WorkingShape DEF IInv, About
<1>3. q.id \in About(r) => q.id \in met
  BY <1>2 DEF IInv, Noticed
<1>4. q.at = "creating" => q.id \notin About(r)
  BY <1>1, <1>2 DEF IInv, InsertsApart
<1>5. met \subseteq met'
  BY DEF Remember
<1>6. q.at = "creating" => partner'[q.id] = Absent
  BY <1>2, <1>4 DEF Sound
<1>7. q.at \in PartnerAts => q.id \in PartnerIds /\ FindsPartner(q.id, q.workspace)'
  BY <1>2 DEF Sound, FindsPartner
<1>8. q.at = "deleting" => q.id \in CategoryIds /\ (q.id \in met' \/ ~InUse(q.id)')
  <2> SUFFICES ASSUME q.at = "deleting" PROVE q.id \in CategoryIds /\ (q.id \in met' \/ ~InUse(q.id)')
    OBVIOUS
  <2>1. PICK k \in CategoryIds : k = q.id
    BY <1>2 DEF Sound
  <2>2. k \in met \/ ~InUse(k)
    BY <1>2, <2>1 DEF Sound
  <2>3. InUse(k)' => InUse(k) \/ k \in met
    BY <1>3, <2>1
  <2>4. k \in met' \/ ~InUse(k)'
    BY <1>5, <2>2, <2>3
  <2>5. QED
    BY <2>1, <2>4
<1>9. q.at = "deactivating" => q.id \in met' \/ q.id \notin invoiced'
  BY <1>2, <1>3, <1>5 DEF Sound
<1>10. \A c \in q.categories :
         /\ category'[c].status = "present" => category'[c].workspace = q.workspace
         /\ category'[c].status # "absent"
  BY <1>2 DEF Sound, Working
<1>11. Sound(q)'
  BY <1>2, <1>6, <1>7, <1>8, <1>9, <1>10 DEF Sound
<1>12. QED
  BY <1>1, <1>11

\* A step of request r.
LEMMA RequestStepIInv ==
  ASSUME IInv, TypeOK', Remember, NEW r \in Requests, NEW c,
         req' = [req EXCEPT ![r] = c],
         Sound(c)', CategoriesAreLocal',
         c # Idle /\ c.at = "creating" => \A s \in Requests : c.id \notin About(s),
         \A s \in Requests \ {r} :
           c # Idle /\ req[s] # Idle /\ req[s].at = "creating" =>
             req[s].id \notin {c.id} \cup c.categories,
         \A p \in PartnerIds :
           /\ partner[p].status = "present" =>
                partner'[p].status = "present" /\ partner'[p].workspace = partner[p].workspace
           /\ partner[p] = Absent => partner'[p] = Absent \/ p \in About(r),
         \A k \in CategoryIds : category[k].status # "absent" =>
           /\ category'[k].status # "absent"
           /\ category'[k].status = "present" => category'[k] = category[k],
         \A k \in CategoryIds : InUse(k)' => InUse(k) \/ k \in About(r),
         \A p \in invoiced' : p \in invoiced \/ p \in About(r)
  PROVE  IInv'
<1>1. req'[r] = c /\ \A s \in Requests : s # r => req'[s] = req[s]
  BY DEF IInv, TypeOK
<1>2. ASSUME NEW s \in Requests PROVE Sound(req[s])'
  <2>1. CASE s = r
    BY <1>1, <2>1
  <2>2. CASE s # r
    BY <1>1, <2>2, OtherStaysSound
  <2>3. QED
    BY <2>1, <2>2
<1>3. InsertsApart'
  BY <1>1 DEF IInv, InsertsApart, About
<1>4. QED
  BY <1>2, <1>3, RememberNotices DEF IInv

\* A step of request r that only reads.
LEMMA ReadIInv ==
  ASSUME IInv, TypeOK', Remember, NEW r \in Requests, NEW c,
         req' = [req EXCEPT ![r] = c],
         UNCHANGED <<partner, category, invoiced>>,
         Sound(c)',
         c # Idle /\ c.at = "creating" => \A s \in Requests : c.id \notin About(s),
         \A s \in Requests \ {r} :
           c # Idle /\ req[s] # Idle /\ req[s].at = "creating" =>
             req[s].id \notin {c.id} \cup c.categories
  PROVE  IInv'
<1>1. CategoriesAreLocal'
  BY DEF IInv, CategoriesAreLocal, FindsCategory
<1>2. \A p \in PartnerIds :
        /\ partner[p].status = "present" =>
             partner'[p].status = "present" /\ partner'[p].workspace = partner[p].workspace
        /\ partner[p] = Absent => partner'[p] = Absent \/ p \in About(r)
  OBVIOUS
<1>3. \A k \in CategoryIds : category[k].status # "absent" =>
        /\ category'[k].status # "absent"
        /\ category'[k].status = "present" => category'[k] = category[k]
  OBVIOUS
<1>4. \A k \in CategoryIds : InUse(k)' => InUse(k) \/ k \in About(r)
  BY DEF InUse, HasCategory
<1>5. \A p \in invoiced' : p \in invoiced \/ p \in About(r)
  OBVIOUS
<1>6. QED
  BY <1>1, <1>2, <1>3, <1>4, <1>5, RequestStepIInv

\* A request that finds a row is about no partner that is being inserted.
LEMMA FoundApart ==
  ASSUME IInv, NEW s \in Requests, req[s] # Idle, req[s].at = "creating",
         NEW i, NEW categories \in SUBSET CategoryIds,
         i \in CategoryIds \/ (i \in PartnerIds /\ partner[i] # Absent)
  PROVE  req[s].id \notin {i} \cup categories
BY DirectoryAssumption DEF IInv, Sound

LEMMA CreateFindIInv ==
  ASSUME IInv, TypeOK', Remember, NEW r \in Requests, NEW p \in PartnerIds,
         NEW w \in Workspaces, NEW type \in Types, NEW categories \in SUBSET CategoryIds,
         CreateFind(r, p, w, type, categories)
  PROVE  IInv'
<1>1. PICK c : c = [at |-> "creating", id |-> p, workspace |-> w, type |-> type,
                     categories |-> categories]
  OBVIOUS
<1>2. c.at = "creating" /\ c.id = p /\ c.workspace = w /\ c.categories = categories
  BY <1>1
<1>3. req' = [req EXCEPT ![r] = c] /\ UNCHANGED <<partner, category, invoiced>>
  BY <1>1 DEF CreateFind
<1>4. Sound(c)'
  BY <1>2, <1>3 DEF Sound, PartnerAts, CreateFind, NewId, ValidCategories, FindsCategory
<1>5. \A s \in Requests : c.id \notin About(s)
  BY <1>2 DEF CreateFind, NewId
<1>6. ASSUME NEW s \in Requests \ {r}, req[s] # Idle, req[s].at = "creating"
      PROVE  req[s].id \notin {c.id} \cup c.categories
  <2>1. req[s].id \in PartnerIds /\ req[s].id # p
    BY <1>2, <1>5, <1>6 DEF IInv, Sound, About
  <2>2. QED
    BY <1>2, <2>1, DirectoryAssumption
<1>7. QED
  BY <1>3, <1>4, <1>5, <1>6, ReadIInv

LEMMA FindIInv ==
  ASSUME IInv, TypeOK', Remember, NEW r \in Requests, NEW p \in PartnerIds,
         NEW w \in Workspaces,
         UpdateFind(r, p, w) \/ RemoveFind(r, p, w) \/ InvoiceFind(r, p, w)
  PROVE  IInv'
<1>1. PICK c : /\ req' = [req EXCEPT ![r] = c]
               /\ c.at \in {"finding", "deactivating", "invoicing"}
               /\ c.id = p /\ c.workspace = w /\ c.categories = {}
               /\ c.at = "deactivating" => p \notin invoiced
  <2>1. PICK at \in {"finding", "deactivating", "invoicing"} :
          /\ req' = [req EXCEPT ![r] =
               [at |-> at, id |-> p, workspace |-> w, type |-> partner[p].type,
                categories |-> {}]]
          /\ at = "deactivating" => p \notin invoiced
    BY DEF UpdateFind, RemoveFind, InvoiceFind
  <2>2. PICK c : c = [at |-> at, id |-> p, workspace |-> w, type |-> partner[p].type,
                      categories |-> {}]
    OBVIOUS
  <2>3. c.at = at /\ c.id = p /\ c.workspace = w /\ c.categories = {}
    BY <2>2
  <2>4. QED
    BY <2>1, <2>2, <2>3
<1>2. FindsPartner(p, w) /\ UNCHANGED <<partner, category, invoiced>>
  BY DEF UpdateFind, RemoveFind, InvoiceFind
<1>3. Sound(c)'
  BY <1>1, <1>2 DEF Sound, PartnerAts, FindsPartner
<1>4. partner[p] # Absent
  BY <1>2, Shapes DEF FindsPartner
<1>5. \A s \in Requests \ {r} : req[s] # Idle /\ req[s].at = "creating" =>
        req[s].id \notin {c.id} \cup c.categories
  BY <1>1, <1>4, FoundApart
<1>6. QED
  BY <1>1, <1>2, <1>3, <1>5, ReadIInv

LEMMA UpdateCheckIInv ==
  ASSUME IInv, TypeOK', Remember, NEW r \in Requests, NEW given \in BOOLEAN,
         NEW categories \in SUBSET CategoryIds, UpdateCheck(r, given, categories)
  PROVE  IInv'
<1>1. PICK c : c = [req[r] EXCEPT !.at = IF given THEN "replacing" ELSE "updating",
                                  !.categories = categories]
  OBVIOUS
<1>2. req[r] \in Working /\ req[r] # Idle /\ Sound(req[r]) /\ req[r].at = "finding"
  BY WorkingShape DEF UpdateCheck, IInv
<1>3. /\ c.at \in {"updating", "replacing"} /\ c.id = req[r].id
      /\ c.workspace = req[r].workspace /\ c.categories = categories
  BY <1>1, <1>2 DEF Working
<1>4. req' = [req EXCEPT ![r] = c] /\ UNCHANGED <<partner, category, invoiced>>
  BY <1>1, <1>2 DEF UpdateCheck, IInv, TypeOK, Working
<1>5. c.id \in PartnerIds /\ FindsPartner(c.id, c.workspace)
  BY <1>2, <1>3 DEF Sound, PartnerAts
<1>6. Sound(c)'
  BY <1>3, <1>4, <1>5
  DEF Sound, PartnerAts, FindsPartner, UpdateCheck, ValidCategories, FindsCategory
<1>7. partner[c.id] # Absent
  BY <1>5, Shapes DEF FindsPartner
<1>8. \A s \in Requests \ {r} : req[s] # Idle /\ req[s].at = "creating" =>
        req[s].id \notin {c.id} \cup c.categories
  BY <1>3, <1>5, <1>7, FoundApart
<1>9. QED
  BY <1>3, <1>4, <1>6, <1>8, ReadIInv

LEMMA CategoryRemoveFindIInv ==
  ASSUME IInv, TypeOK', Remember, NEW r \in Requests, NEW k \in CategoryIds,
         NEW w \in Workspaces, CategoryRemoveFind(r, k, w)
  PROVE  IInv'
<1>1. PICK c : c = [at |-> "deleting", id |-> k, workspace |-> w,
                     type |-> "supplier", categories |-> {}]
  OBVIOUS
<1>2. c.at = "deleting" /\ c.id = k /\ c.categories = {}
  BY <1>1
<1>3. /\ req' = [req EXCEPT ![r] = c] /\ UNCHANGED <<partner, category, invoiced>>
      /\ ~InUse(k)
  BY <1>1 DEF CategoryRemoveFind
<1>4. Sound(c)'
  BY <1>2, <1>3 DEF Sound, PartnerAts, InUse, HasCategory
<1>5. \A s \in Requests \ {r} : req[s] # Idle /\ req[s].at = "creating" =>
        req[s].id \notin {c.id} \cup c.categories
  BY <1>2, FoundApart
<1>6. QED
  BY <1>2, <1>3, <1>4, <1>5, ReadIInv

\* A write to the partner the request found.
LEMMA RowWriteIInv ==
  ASSUME IInv, TypeOK', Remember, NEW r \in Requests, req[r] # Idle,
         NEW p \in PartnerIds, p = req[r].id,
         NEW row, row.status = "present",
         partner[p] = Absent \/ row.workspace = partner[p].workspace,
         partner' = [partner EXCEPT ![p] = row],
         req' = [req EXCEPT ![r] = Idle],
         UNCHANGED <<category, invoiced>>,
         \A k \in row.categories :
           /\ k \in CategoryIds /\ FindsCategory(k, row.workspace)
           /\ k \in req[r].categories \/ InUse(k)
  PROVE  IInv'
<1>1. partner'[p] = row /\ \A o \in PartnerIds : o # p => partner'[o] = partner[o]
  BY DEF IInv, TypeOK
<1>2. CategoriesAreLocal'
  BY <1>1 DEF IInv, CategoriesAreLocal, FindsCategory
<1>3. Sound(Idle)'
  BY DEF Sound
<1>4. About(r) = {p} \cup req[r].categories
  BY DEF About
<1>5. \A o \in PartnerIds :
        /\ partner[o].status = "present" =>
             partner'[o].status = "present" /\ partner'[o].workspace = partner[o].workspace
        /\ partner[o] = Absent => partner'[o] = Absent \/ o \in About(r)
  BY <1>1, <1>4, Shapes
<1>6. \A k \in CategoryIds : category[k].status # "absent" =>
        /\ category'[k].status # "absent"
        /\ category'[k].status = "present" => category'[k] = category[k]
  OBVIOUS
<1>7. \A k \in CategoryIds : InUse(k)' => InUse(k) \/ k \in About(r)
  BY <1>1, <1>4 DEF InUse, HasCategory
<1>8. \A o \in invoiced' : o \in invoiced \/ o \in About(r)
  OBVIOUS
<1>9. QED
  BY <1>2, <1>3, <1>5, <1>6, <1>7, <1>8, RequestStepIInv

LEMMA CreateWriteIInv ==
  ASSUME IInv, TypeOK', Remember, NEW r \in Requests, CreateWrite(r)
  PROVE  IInv'
<1>1. req[r] # Idle /\ req[r] \in Working /\ Sound(req[r]) /\ req[r].at = "creating"
  BY WorkingShape, Shapes DEF CreateWrite, IInv
<1>2. PICK p \in PartnerIds : p = req[r].id
  BY <1>1 DEF Sound
<1>3. PICK row : row = [status |-> "present", workspace |-> req[r].workspace,
                        type |-> req[r].type, isActive |-> TRUE,
                        categories |-> req[r].categories]
  OBVIOUS
<1>4. /\ row.status = "present" /\ row.workspace = req[r].workspace
      /\ row.categories = req[r].categories
  BY <1>3
<1>5. partner[p] = Absent
  BY <1>1, <1>2 DEF Sound
<1>6. \A k \in row.categories :
        k \in CategoryIds /\ FindsCategory(k, row.workspace) /\ k \in req[r].categories
  BY <1>1, <1>4 DEF Sound, CreateWrite, Connectable, FindsCategory, Working
<1>7. partner' = [partner EXCEPT ![p] = row]
  BY <1>2, <1>3 DEF CreateWrite
<1>8. QED
  BY <1>1, <1>2, <1>4, <1>5, <1>6, <1>7, RowWriteIInv DEF CreateWrite

\* The row a write to a partner starts from.
LEMMA FoundRow ==
  ASSUME IInv, NEW r \in Requests, req[r].at \in PartnerAts
  PROVE  /\ req[r] # Idle /\ req[r] \in Working /\ req[r].id \in PartnerIds
         /\ partner[req[r].id] \in PartnerRow
         /\ partner[req[r].id].workspace = req[r].workspace
<1>1. req[r] # Idle /\ req[r] \in Working /\ Sound(req[r])
  BY WorkingShape, Shapes DEF PartnerAts, IInv
<1>2. QED
  BY <1>1, RowShape DEF Sound, FindsPartner, IInv

LEMMA UpdateWriteIInv ==
  ASSUME IInv, TypeOK', Remember, NEW r \in Requests, NEW isActive \in BOOLEAN,
         UpdateWrite(r, isActive)
  PROVE  IInv'
<1>1. /\ req[r] # Idle /\ req[r] \in Working /\ req[r].id \in PartnerIds
      /\ partner[req[r].id] \in PartnerRow
      /\ partner[req[r].id].workspace = req[r].workspace
  BY FoundRow DEF UpdateWrite, PartnerAts
<1>2. PICK p \in PartnerIds : p = req[r].id
  BY <1>1
<1>3. PICK row : row = [partner[p] EXCEPT
        !.isActive = isActive,
        !.categories = IF req[r].at = "replacing"
                       THEN Connectable(req[r].categories) ELSE @]
  OBVIOUS
<1>4. /\ row.status = "present" /\ row.workspace = partner[p].workspace
      /\ row.categories = IF req[r].at = "replacing"
                          THEN Connectable(req[r].categories) ELSE partner[p].categories
  BY <1>1, <1>2, <1>3 DEF PartnerRow
<1>5. partner' = [partner EXCEPT ![p] = row]
  BY <1>1, <1>2, <1>3 DEF UpdateWrite, PartnerRow, IInv, TypeOK
<1>6. \A k \in row.categories :
        /\ k \in CategoryIds /\ FindsCategory(k, row.workspace)
        /\ k \in req[r].categories \/ InUse(k)
  <2>1. CASE req[r].at = "replacing"
    <3>1. Sound(req[r])
      BY DEF IInv
    <3>2. QED
      BY <1>1, <1>2, <1>4, <2>1, <3>1 DEF Sound, Connectable, FindsCategory, Working
  <2>2. CASE req[r].at # "replacing"
    <3>1. row.categories = partner[p].categories /\ partner[p].status = "present"
      BY <1>1, <1>2, <1>4, <2>2 DEF PartnerRow
    <3>2. \A k \in row.categories : k \in CategoryIds /\ InUse(k)
      BY <1>1, <1>2, <3>1 DEF InUse, HasCategory, PartnerRow
    <3>3. \A k \in row.categories : FindsCategory(k, row.workspace)
      BY <1>4, <3>1 DEF IInv, CategoriesAreLocal
    <3>4. QED
      BY <3>2, <3>3
  <2>3. QED
    BY <2>1, <2>2
<1>7. QED
  BY <1>1, <1>2, <1>4, <1>5, <1>6, RowWriteIInv DEF UpdateWrite

LEMMA RemoveWriteIInv ==
  ASSUME IInv, TypeOK', Remember, NEW r \in Requests, RemoveWrite(r)
  PROVE  IInv'
<1>1. /\ req[r] # Idle /\ req[r].id \in PartnerIds /\ partner[req[r].id] \in PartnerRow
  BY FoundRow DEF RemoveWrite, PartnerAts
<1>2. PICK p \in PartnerIds : p = req[r].id
  BY <1>1
<1>3. PICK row : row = [partner[p] EXCEPT !.isActive = FALSE]
  OBVIOUS
<1>4. /\ row.status = "present" /\ row.workspace = partner[p].workspace
      /\ row.categories = partner[p].categories /\ partner[p].status = "present"
  BY <1>1, <1>2, <1>3 DEF PartnerRow
<1>5. partner' = [partner EXCEPT ![p] = row]
  BY <1>2, <1>3 DEF RemoveWrite
<1>6. \A k \in row.categories : k \in CategoryIds /\ InUse(k)
  BY <1>1, <1>2, <1>4 DEF InUse, HasCategory, PartnerRow
<1>7. \A k \in row.categories : FindsCategory(k, row.workspace)
  BY <1>4 DEF IInv, CategoriesAreLocal
<1>8. QED
  BY <1>1, <1>2, <1>4, <1>5, <1>6, <1>7, RowWriteIInv DEF RemoveWrite

LEMMA InvoiceWriteIInv ==
  ASSUME IInv, TypeOK', Remember, NEW r \in Requests, InvoiceWrite(r)
  PROVE  IInv'
<1>1. req[r] # Idle
  BY Shapes DEF InvoiceWrite
<1>2. /\ req' = [req EXCEPT ![r] = Idle] /\ UNCHANGED <<partner, category>>
      /\ invoiced' = invoiced \cup {req[r].id}
  BY DEF InvoiceWrite
<1>3. CategoriesAreLocal' /\ Sound(Idle)'
  BY <1>2 DEF IInv, CategoriesAreLocal, FindsCategory, Sound
<1>4. \A p \in PartnerIds :
        /\ partner[p].status = "present" =>
             partner'[p].status = "present" /\ partner'[p].workspace = partner[p].workspace
        /\ partner[p] = Absent => partner'[p] = Absent \/ p \in About(r)
  BY <1>2
<1>5. \A k \in CategoryIds : category[k].status # "absent" =>
        /\ category'[k].status # "absent"
        /\ category'[k].status = "present" => category'[k] = category[k]
  BY <1>2
<1>6. \A k \in CategoryIds : InUse(k)' => InUse(k) \/ k \in About(r)
  BY <1>2 DEF InUse, HasCategory
<1>7. \A p \in invoiced' : p \in invoiced \/ p \in About(r)
  BY <1>1, <1>2 DEF About
<1>8. QED
  BY <1>2, <1>3, <1>4, <1>5, <1>6, <1>7, RequestStepIInv

LEMMA AbandonIInv ==
  ASSUME IInv, TypeOK', Remember, NEW r \in Requests, Abandon(r)
  PROVE  IInv'
<1>1. Sound(Idle)'
  BY DEF Sound
<1>2. QED
  BY <1>1, ReadIInv DEF Abandon

\* No partner keeps the category that is deleted.
LEMMA CategoryRemoveWriteIInv ==
  ASSUME IInv, TypeOK', Remember, NEW r \in Requests, CategoryRemoveWrite(r)
  PROVE  IInv'
<1>1. req[r] # Idle /\ Sound(req[r])
  BY Shapes DEF CategoryRemoveWrite, IInv
<1>2. PICK k \in CategoryIds : k = req[r].id
  BY <1>1 DEF Sound, CategoryRemoveWrite
<1>3. /\ category' = [category EXCEPT ![k] = Deleted]
      /\ req' = [req EXCEPT ![r] = Idle] /\ UNCHANGED invoiced
  BY <1>2 DEF CategoryRemoveWrite
<1>4. category'[k] = Deleted /\ \A c \in CategoryIds : c # k => category'[c] = category[c]
  BY <1>3 DEF IInv, TypeOK
<1>5. ASSUME NEW p \in PartnerIds
      PROVE  /\ partner[p].status = "present" =>
                  /\ partner'[p].status = "present"
                  /\ partner'[p].workspace = partner[p].workspace
                  /\ partner'[p].categories = partner[p].categories \ {k}
             /\ partner[p].status # "present" => partner'[p] = partner[p]
  <2>1. CASE partner[p].status = "present"
    <3>1. partner[p] \in PartnerRow
      BY <2>1, RowShape DEF IInv
    <3>2. partner'[p] = [partner[p] EXCEPT !.categories = @ \ {k}]
      BY <1>2, <2>1 DEF CategoryRemoveWrite
    <3>3. QED
      BY <2>1, <3>1, <3>2 DEF PartnerRow
  <2>2. CASE partner[p].status # "present"
    BY <2>2 DEF CategoryRemoveWrite
  <2>3. QED
    BY <2>1, <2>2
<1>6. CategoriesAreLocal'
  <2> SUFFICES ASSUME NEW p \in PartnerIds, partner'[p].status = "present",
                      NEW c \in partner'[p].categories
               PROVE  /\ category'[c].status = "present"
                      /\ category'[c].workspace = partner'[p].workspace
    BY DEF CategoriesAreLocal, FindsCategory
  <2>1. /\ partner[p].status = "present" /\ partner'[p].workspace = partner[p].workspace
        /\ c \in partner[p].categories /\ c # k
    BY <1>5
  <2>2. c \in CategoryIds
    BY <2>1, RowShape DEF IInv, PartnerRow
  <2>3. FindsCategory(c, partner[p].workspace)
    BY <2>1 DEF IInv, CategoriesAreLocal
  <2>4. QED
    BY <1>4, <2>1, <2>2, <2>3 DEF FindsCategory
<1>7. \A p \in PartnerIds :
        /\ partner[p].status = "present" =>
             partner'[p].status = "present" /\ partner'[p].workspace = partner[p].workspace
        /\ partner[p] = Absent => partner'[p] = Absent \/ p \in About(r)
  BY <1>5, Shapes
<1>8. \A c \in CategoryIds : category[c].status # "absent" =>
        /\ category'[c].status # "absent"
        /\ category'[c].status = "present" => category'[c] = category[c]
  BY <1>4, Shapes
<1>9. \A c \in CategoryIds : InUse(c)' => InUse(c) \/ c \in About(r)
  BY <1>5 DEF InUse, HasCategory
<1>10. Sound(Idle)'
  BY DEF Sound
<1>11. QED
  BY <1>3, <1>6, <1>7, <1>8, <1>9, <1>10, RequestStepIInv

\* What no request does.
LEMMA CategoryCreateIInv ==
  ASSUME IInv, TypeOK', Remember, NEW k \in CategoryIds, NEW w \in Workspaces,
         CategoryCreate(k, w)
  PROVE  IInv'
<1>1. PICK row : row = [status |-> "present", workspace |-> w]
  OBVIOUS
<1>2. category'[k] = row /\ \A c \in CategoryIds : c # k => category'[c] = category[c]
  BY <1>1 DEF CategoryCreate, IInv, TypeOK
<1>3. category[k].status = "absent" /\ row.status = "present"
  BY <1>1, Shapes DEF CategoryCreate
<1>4. UNCHANGED <<partner, invoiced, req>>
  BY DEF CategoryCreate
<1>5. ASSUME NEW t \in Requests PROVE Sound(req[t])'
  <2> SUFFICES ASSUME req[t] # Idle PROVE Sound(req[t])'
    BY <1>4 DEF Sound
  <2>1. PICK q : q = req[t]
    OBVIOUS
  <2>2. Sound(q) /\ q \in Working
    BY <2>1, WorkingShape DEF IInv
  <2>3. \A c \in q.categories : c # k /\ category'[c] = category[c]
    BY <1>2, <1>3, <2>1, <2>2 DEF Sound, Working
  <2>4. Sound(q)'
    BY <1>4, <2>2, <2>3 DEF Sound, Remember, FindsPartner, InUse, HasCategory
  <2>5. QED
    BY <1>4, <2>1, <2>4
<1>6. InsertsApart'
  BY <1>4 DEF IInv, InsertsApart, About
<1>7. CategoriesAreLocal'
  <2> SUFFICES ASSUME NEW p \in PartnerIds, partner[p].status = "present",
                      NEW c \in partner[p].categories
               PROVE  /\ category'[c].status = "present"
                      /\ category'[c].workspace = partner[p].workspace
    BY <1>4 DEF CategoriesAreLocal, FindsCategory
  <2>1. FindsCategory(c, partner[p].workspace) /\ c \in CategoryIds
    BY RowShape DEF IInv, CategoriesAreLocal, PartnerRow
  <2>2. QED
    BY <1>2, <1>3, <2>1 DEF FindsCategory
<1>8. QED
  BY <1>5, <1>6, <1>7, RememberNotices DEF IInv

LEMMA InvoiceGoneIInv ==
  ASSUME IInv, TypeOK', Remember, NEW p \in PartnerIds, InvoiceGone(p)
  PROVE  IInv'
<1>1. UNCHANGED <<partner, category, req>> /\ invoiced' \subseteq invoiced
  BY DEF InvoiceGone
<1>2. ASSUME NEW t \in Requests PROVE Sound(req[t])'
  <2>1. PICK q : q = req[t]
    OBVIOUS
  <2>2. Sound(q)
    BY <2>1 DEF IInv
  <2>3. Sound(q)'
    BY <1>1, <2>2 DEF Sound, Remember, FindsPartner, InUse, HasCategory
  <2>4. QED
    BY <1>1, <2>1, <2>3
<1>3. InsertsApart' /\ CategoriesAreLocal'
  BY <1>1 DEF IInv, InsertsApart, About, CategoriesAreLocal, FindsCategory
<1>4. QED
  BY <1>2, <1>3, RememberNotices DEF IInv

\* Every step keeps IInv.
LEMMA StepIInv == IInv /\ [Next]_vars => IInv'
<1> SUFFICES ASSUME IInv, [Next]_vars PROVE IInv'
  OBVIOUS
<1>1. TypeOK'
  BY StepType
<1>2. CASE UNCHANGED vars
  <2>1. ASSUME NEW t \in Requests PROVE Sound(req[t])'
    BY <1>2 DEF vars, IInv, Sound, FindsPartner, InUse, HasCategory
  <2>2. QED
    BY <1>1, <1>2, <2>1
    DEF vars, IInv, InsertsApart, About, CategoriesAreLocal,
        FindsCategory, Noticed
<1>3. CASE Next
  <2>1. Remember
    BY <1>3 DEF Next
  <2>2. ASSUME NEW r \in Requests, PartnerStep(r) PROVE IInv'
    BY <1>1, <2>1, <2>2, CreateFindIInv, FindIInv, CreateWriteIInv, UpdateCheckIInv,
       UpdateWriteIInv, RemoveWriteIInv, InvoiceWriteIInv DEF PartnerStep
  <2>3. ASSUME NEW r \in Requests, CategoryStep(r) PROVE IInv'
    BY <1>1, <2>1, <2>3, CategoryRemoveFindIInv, CategoryRemoveWriteIInv DEF CategoryStep
  <2>4. ASSUME NEW r \in Requests, Abandon(r) PROVE IInv'
    BY <1>1, <2>1, <2>4, AbandonIInv
  <2>5. ASSUME NEW c \in CategoryIds, NEW w \in Workspaces, CategoryCreate(c, w)
        PROVE  IInv'
    BY <1>1, <2>1, <2>5, CategoryCreateIInv
  <2>6. ASSUME NEW p \in PartnerIds, InvoiceGone(p) PROVE IInv'
    BY <1>1, <2>1, <2>6, InvoiceGoneIInv
  <2>7. QED
    BY <1>3, <2>2, <2>3, <2>4, <2>5, <2>6 DEF Next
<1>4. QED
  BY <1>2, <1>3

LEMMA Invariance == Spec => []IInv
BY InitIInv, StepIInv, PTL DEF Spec

-----------------------------------------------------------------------------
(* The properties                                                           *)

\* Every reachable state is well typed.
THEOREM TypeCorrect == Spec => []TypeOK
<1>1. IInv => TypeOK
  BY DEF IInv
<1>2. QED
  BY <1>1, Invariance, PTL

\* A partner has only categories that exist, of its own workspace.
THEOREM CategoriesStayLocal == Spec => []CategoriesAreLocal
<1>1. IInv => CategoriesAreLocal
  BY DEF IInv
<1>2. QED
  BY <1>1, Invariance, PTL

\* A category in use is not deleted, unless two requests met on it.
THEOREM UsedCategoriesStay == Spec => UsedCategoriesStayUnlessMet
<1>1. IInv /\ [Next]_vars =>
        (\A c \in CategoryIds :
           /\ category'[c] # category[c]
           /\ \E p \in PartnerIds : HasCategory(p, c)
           => c \in met)
  <2> SUFFICES ASSUME IInv, [Next]_vars, NEW c \in CategoryIds,
                      category'[c] # category[c], InUse(c)
               PROVE  c \in met
    BY DEF InUse
  <2>1. category[c] # Absent
    BY Shapes DEF InUse, HasCategory, IInv, CategoriesAreLocal, FindsCategory
  <2>2. category' # category
    OBVIOUS
  <2>3. PICK r \in Requests : CategoryRemoveWrite(r) /\ req[r].id = c
    <3>1. ASSUME NEW k \in CategoryIds, NEW w \in Workspaces, CategoryCreate(k, w)
          PROVE  FALSE
      BY <2>1, <3>1 DEF CategoryCreate, IInv, TypeOK
    <3>2. ASSUME NEW r \in Requests, PartnerStep(r) PROVE FALSE
      BY <2>2, <3>2 DEF PartnerStep, CreateFind, UpdateFind, RemoveFind, InvoiceFind,
           CreateWrite, UpdateCheck, UpdateWrite, RemoveWrite, InvoiceWrite
    <3>3. PICK r \in Requests : CategoryRemoveWrite(r)
      BY <2>2, <3>1, <3>2
      DEF Next, vars, CategoryStep, CategoryRemoveFind, Abandon, InvoiceGone
    <3>4. req[r].id = c
      BY <3>3 DEF CategoryRemoveWrite, IInv, TypeOK
    <3>5. QED
      BY <3>3, <3>4
  <2>4. Sound(req[r]) /\ req[r] # Idle /\ req[r].at = "deleting"
    BY <2>3, Shapes DEF IInv, CategoryRemoveWrite
  <2>5. QED
    BY <2>3, <2>4 DEF Sound
<1>2. QED
  BY <1>1, Invariance, PTL DEF Spec, UsedCategoriesStayUnlessMet

\* A partner that is deactivated by remove has no invoices, unless it met
\* another request.
THEOREM InvoicedStayActive == Spec => InvoicedStayActiveUnlessMet
<1>1. IInv /\ [Next]_vars =>
        (\A r \in Requests :
           /\ req[r] # Idle
           /\ req[r].at = "deactivating"
           /\ partner'[req[r].id] # partner[req[r].id]
           => req[r].id \notin invoiced \/ req[r].id \in met)
  BY DEF IInv, Sound
<1>2. QED
  BY <1>1, Invariance, PTL DEF Spec, InvoicedStayActiveUnlessMet

=============================================================================
