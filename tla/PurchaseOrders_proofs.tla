------------------------- MODULE PurchaseOrders_proofs -------------------------
(***************************************************************************)
(* The numbering every implementation of GaplessNumbering inherits, and    *)
(* that of purchase orders, which implement it, for every set of           *)
(* workspaces, of orders and of concurrent requests.                       *)
(***************************************************************************)
EXTENDS PurchaseOrders, GaplessNumbering, TLAPS

(***************************************************************************)
(* GaplessNumbering, for every set of documents and series.                *)
(***************************************************************************)
\* The two halves of NoHole, element by element: every number carried has
\* been handed out, and every number handed out is carried.
NumbersInRange ==
  \A d \in Docs : held[d] # Unnumbered =>
    held[d][2] \in 1 .. last[held[d][1]]

NumbersCarried ==
  \A s \in Series : \A n \in 1 .. last[s] : \E d \in Docs : held[d] = <<s, n>>

NumberingInv == NumberingTypeOK /\ NumbersInRange /\ NumbersCarried /\ NoDuplicate

-----------------------------------------------------------------------------
LEMMA InitNumberingInv == NumberingInit => NumberingInv
<1> SUFFICES ASSUME NumberingInit PROVE NumberingInv
  OBVIOUS
<1>1. \A d \in Docs : held[d] = Unnumbered
  BY DEF NumberingInit
<1>2. \A s \in Series : \A n \in 1 .. last[s] : FALSE
  <2>1. \A s \in Series : last[s] = 0
    BY DEF NumberingInit
  <2>2. \A n \in 1 .. 0 : FALSE
    OBVIOUS
  <2>3. QED
    BY <2>1, <2>2
<1>3. NumberingTypeOK
  BY DEF NumberingInit, NumberingTypeOK
<1>4. QED
  BY <1>1, <1>2, <1>3 DEF NumberingInv, NumbersInRange, NumbersCarried, NoDuplicate

LEMMA StepNumberingInv == NumberingInv /\ [NumberingNext]_numberingVars => NumberingInv'
<1> SUFFICES ASSUME NumberingInv, [NumberingNext]_numberingVars PROVE NumberingInv'
  OBVIOUS
<1> USE DEF Unnumbered
<1>1. ASSUME NEW d \in Docs, NEW s \in Series, Assign(d, s)
      PROVE  NumberingInv'
  <2> DEFINE n == last[s] + 1
  <2>1. n \in Nat /\ last[s] \in Nat
    BY DEF NumberingInv, NumberingTypeOK
  <2>2. held' = [held EXCEPT ![d] = <<s, n>>] /\ held[d] = <<>>
    BY <1>1 DEF Assign
  <2>3. last' = [last EXCEPT ![s] = n]
    BY <1>1 DEF Assign
  <2>4. NumberingTypeOK'
    <3>1. <<s, n>> \in Series \X Nat
      BY <2>1
    <3>2. QED
      BY <2>1, <2>2, <2>3, <3>1 DEF NumberingInv, NumberingTypeOK
  <2>5. /\ held'[d] = <<s, n>>
        /\ \A e \in Docs : e # d => held'[e] = held[e]
        /\ last'[s] = n
        /\ \A t \in Series : t # s => last'[t] = last[t]
    BY <2>2, <2>3 DEF NumberingInv, NumberingTypeOK
  <2>6. \A e \in Docs : held[e] # <<>> =>
          /\ held[e] = <<held[e][1], held[e][2]>>
          /\ held[e][1] \in Series
          /\ held[e][2] \in Nat
          /\ held[e][2] \in 1 .. last[held[e][1]]
    BY DEF NumberingInv, NumberingTypeOK, NumbersInRange
  <2>7. \A t \in Series : last[t] \in Nat
    BY DEF NumberingInv, NumberingTypeOK
  <2>8. NumbersInRange'
    <3> SUFFICES ASSUME NEW e \in Docs, held'[e] # <<>>
                 PROVE  held'[e][2] \in 1 .. last'[held'[e][1]]
      BY DEF NumbersInRange
    <3>1. CASE e = d
      BY <3>1, <2>1, <2>5
    <3>2. CASE e # d
      <4>1. held'[e] = held[e] /\ held[e] # <<>>
        BY <3>2, <2>5
      <4>2. held[e][2] \in 1 .. last[held[e][1]] /\ held[e][1] \in Series
        BY <4>1, <2>6
      <4>3. last'[held[e][1]] >= last[held[e][1]] /\ last'[held[e][1]] \in Nat
        BY <4>2, <2>1, <2>5, <2>7
      <4>4. QED
        BY <4>1, <4>2, <4>3, <2>7
    <3>3. QED
      BY <3>1, <3>2
  <2>9. NumbersCarried'
    <3> SUFFICES ASSUME NEW t \in Series, NEW m \in 1 .. last'[t]
                 PROVE  \E e \in Docs : held'[e] = <<t, m>>
      BY DEF NumbersCarried
    <3>1. CASE t = s /\ m = n
      BY <3>1, <2>5
    <3>2. CASE ~(t = s /\ m = n)
      <4>1. m \in 1 .. last[t]
        BY <3>2, <2>1, <2>5, <2>7
      <4>2. PICK e \in Docs : held[e] = <<t, m>>
        BY <4>1 DEF NumberingInv, NumbersCarried
      <4>3. e # d
        BY <4>2, <2>2
      <4>4. QED
        BY <4>2, <4>3, <2>5
    <3>3. QED
      BY <3>1, <3>2
  <2>10. NoDuplicate'
    <3>1. \A e \in Docs : held[e] # <<s, n>>
      <4> SUFFICES ASSUME NEW e \in Docs, held[e] = <<s, n>> PROVE FALSE
        OBVIOUS
      <4>1. held[e] # <<>> /\ held[e][1] = s /\ held[e][2] = n
        OBVIOUS
      <4>2. held[e][2] \in 1 .. last[held[e][1]]
        BY <4>1, <2>6
      <4>3. n \in 1 .. last[s]
        BY <4>1, <4>2
      <4>4. QED
        BY <4>3, <2>1
    <3>2. QED
      BY <3>1, <2>5 DEF NumberingInv, NoDuplicate
  <2>11. QED
    BY <2>4, <2>8, <2>9, <2>10 DEF NumberingInv
<1>2. CASE UNCHANGED numberingVars
  BY <1>2 DEF NumberingInv, NumberingTypeOK, NumbersInRange, NumbersCarried, NoDuplicate, numberingVars
<1>3. QED
  BY <1>1, <1>2 DEF NumberingNext

LEMMA NoHoleFollows == NumberingInv => NoHole
<1> SUFFICES ASSUME NumberingInv, NEW s \in Series
             PROVE  {held[d][2] : d \in {e \in Docs : held[e] # Unnumbered
                                                      /\ held[e][1] = s}}
                      = 1 .. last[s]
  BY DEF NoHole
<1> USE DEF Unnumbered
<1>1. \A d \in Docs : held[d] # <<>> /\ held[d][1] = s
                        => held[d][2] \in 1 .. last[s]
  BY DEF NumberingInv, NumbersInRange
<1>2. \A n \in 1 .. last[s] :
        \E d \in Docs : held[d] # <<>> /\ held[d][1] = s /\ held[d][2] = n
  <2> SUFFICES ASSUME NEW n \in 1 .. last[s]
               PROVE  \E d \in Docs :
                        held[d] # <<>> /\ held[d][1] = s /\ held[d][2] = n
    OBVIOUS
  <2>1. PICK d \in Docs : held[d] = <<s, n>>
    BY DEF NumberingInv, NumbersCarried
  <2>2. held[d] # <<>> /\ held[d][1] = s /\ held[d][2] = n
    BY <2>1
  <2>3. QED
    BY <2>2
<1>3. QED
  BY <1>1, <1>2

-----------------------------------------------------------------------------
\* For every set of documents and series: the numbers of a series have no
\* hole and no document shares its number.
THEOREM NumberingHasNoHole == NumberingSpec => [](NoHole /\ NoDuplicate)
<1>1. NumberingInv => NoHole /\ NoDuplicate
  BY NoHoleFollows DEF NumberingInv
<1>2. QED
  BY InitNumberingInv, StepNumberingInv, <1>1, PTL DEF NumberingSpec

(***************************************************************************)
(* PurchaseOrders.                                                         *)
(***************************************************************************)
\* The row lock of a counter has at most one holder, and the number it took
\* is the one after the committed last_number.
LockInv ==
  /\ \A r \in Requests : req[r].at = "numbered" =>
       req[r].number = counter[req[r].workspace] + 1
  /\ \A r, s \in Requests :
       /\ req[r].at = "numbered" /\ req[s].at = "numbered"
       /\ req[r].workspace = req[s].workspace
       => r = s

\* The ids of the rows still to be created are new, each the id of one
\* request; an order a send has read is there.
IdInv ==
  /\ \A r \in Requests : InCreate(r) => ~Placed(req[r].id)
  /\ \A r, s \in Requests :
       InCreate(r) /\ InCreate(s) /\ req[r].id = req[s].id => r = s
  /\ \A r \in Requests : req[r].at = "sending" => Placed(req[r].id)

\* GaplessNumbers, element by element.
InRange ==
  \A o \in Orders : Placed(o) => order[o].number \in 1 .. counter[order[o].workspace]

Carried ==
  \A w \in Workspaces : \A n \in 1 .. counter[w] :
    \E o \in Orders : Placed(o) /\ order[o].workspace = w /\ order[o].number = n

IInv == TypeOK /\ LockInv /\ IdInv /\ InRange /\ Carried /\ UniqueNumbers

-----------------------------------------------------------------------------
(* What a request record is, by its "at".                                  *)

LEMMA RequestShape ==
  ASSUME TypeOK, NEW r \in Requests
  PROVE  /\ req[r] \in RequestState
         /\ req[r].at = "idle" => req[r] = Idle
         /\ req[r].at = "creating" => req[r] \in Creating
         /\ req[r].at = "numbered" => req[r] \in Numbered
         /\ req[r].at = "sending" => req[r] \in Sending
BY DEF TypeOK, RequestState, Idle, Creating, Numbered, Sending

LEMMA OrderShape ==
  ASSUME TypeOK, NEW o \in Orders
  PROVE  /\ Placed(o) <=> order[o] \in OrderRow
         /\ ~Placed(o) <=> order[o] = Absent
BY DEF TypeOK, Placed, OrderRow, Absent

LEMMA InitIInv == Init => IInv
<1> SUFFICES ASSUME Init PROVE IInv
  OBVIOUS
<1>1. \A r \in Requests : req[r] = Idle /\ req[r].at = "idle"
  BY DEF Init, Idle
<1>2. \A o \in Orders : order[o] = Absent /\ ~Placed(o)
  BY DEF Init, Absent, Placed
<1>3. \A w \in Workspaces : \A n \in 1 .. counter[w] : FALSE
  <2>1. \A w \in Workspaces : counter[w] = 0
    BY DEF Init
  <2>2. \A n \in 1 .. 0 : FALSE
    OBVIOUS
  <2>3. QED
    BY <2>1, <2>2
<1>4. TypeOK
  BY DEF Init, TypeOK, RequestState
<1>5. QED
  BY <1>1, <1>2, <1>3, <1>4
  DEF IInv, LockInv, IdInv, InCreate, InRange, Carried, UniqueNumbers

LEMMA CreateIInv ==
  ASSUME IInv, NEW r \in Requests, NEW w \in Workspaces, NEW s \in Suppliers,
         NEW o \in Orders, Create(r, w, s, o)
  PROVE  IInv'
<1> DEFINE c == [at |-> "creating", id |-> o, workspace |-> w, supplier |-> s]
<1>1. /\ req' = [req EXCEPT ![r] = c]
      /\ order' = order /\ counter' = counter
      /\ Fresh(o) /\ req[r] = Idle
  BY DEF Create
<1>2. c \in Creating
  BY DEF Creating
<1>3. TypeOK'
  BY <1>1, <1>2 DEF IInv, TypeOK, RequestState
<1> HIDE DEF c
<1>4. /\ req'[r] = c /\ c.at = "creating" /\ c.id = o
      /\ \A t \in Requests : t # r => req'[t] = req[t]
  BY <1>1 DEF IInv, TypeOK, c
<1>5. LockInv'
  BY <1>1, <1>4 DEF IInv, LockInv
<1>6. IdInv'
  BY <1>1, <1>4 DEF IInv, IdInv, InCreate, Fresh, Placed
<1>7. InRange' /\ Carried' /\ UniqueNumbers'
  BY <1>1 DEF IInv, InRange, Carried, UniqueNumbers, Placed
<1>8. QED
  BY <1>3, <1>5, <1>6, <1>7 DEF IInv

LEMMA TakeNumberIInv ==
  ASSUME IInv, NEW r \in Requests, TakeNumber(r)
  PROVE  IInv'
<1> DEFINE w == req[r].workspace
           c == [at |-> "numbered", id |-> req[r].id, workspace |-> w,
                 supplier |-> req[r].supplier, number |-> counter[w] + 1]
<1>1. /\ req' = [req EXCEPT ![r] = c]
      /\ order' = order /\ counter' = counter
      /\ req[r].at = "creating" /\ ~Locked(w)
  BY DEF TakeNumber
<1>2. req[r] \in Creating /\ w \in Workspaces
  BY <1>1, RequestShape DEF IInv, Creating
<1>3. c \in Numbered
  BY <1>2 DEF IInv, TypeOK, Creating, Numbered
<1>4. TypeOK'
  BY <1>1, <1>3 DEF IInv, TypeOK, RequestState
<1>5. c.at = "numbered" /\ c.id = req[r].id /\ c.workspace = w
        /\ c.number = counter[w] + 1
  OBVIOUS
<1> HIDE DEF c, w
<1>6. req'[r] = c /\ \A t \in Requests : t # r => req'[t] = req[t]
  BY <1>1 DEF IInv, TypeOK
<1>7. LockInv'
  BY <1>1, <1>5, <1>6 DEF IInv, LockInv, Locked
<1>8. IdInv'
  BY <1>1, <1>5, <1>6 DEF IInv, IdInv, InCreate, Placed
<1>9. InRange' /\ Carried' /\ UniqueNumbers'
  BY <1>1 DEF IInv, InRange, Carried, UniqueNumbers, Placed
<1>10. QED
  BY <1>4, <1>7, <1>8, <1>9 DEF IInv

LEMMA CommitOrderIInv ==
  ASSUME IInv, NEW r \in Requests, CommitOrder(r)
  PROVE  IInv'
<1> DEFINE w == req[r].workspace
           id == req[r].id
           n == req[r].number
           row == [status |-> "draft", workspace |-> w,
                   supplier |-> req[r].supplier, number |-> n]
<1>1. /\ req[r].at = "numbered"
      /\ order' = [order EXCEPT ![id] = row]
      /\ counter' = [counter EXCEPT ![w] = n]
      /\ req' = [req EXCEPT ![r] = Idle]
  BY DEF CommitOrder
<1>2. req[r] \in Numbered /\ w \in Workspaces /\ id \in Orders /\ n \in Nat
  BY <1>1, RequestShape DEF IInv, Numbered
<1>3. n = counter[w] + 1 /\ counter[w] \in Nat
  BY <1>1, <1>2 DEF IInv, LockInv, TypeOK
<1>4. ~Placed(id)
  BY <1>1 DEF IInv, IdInv, InCreate
<1>5. row \in OrderRow
  BY <1>2 DEF OrderRow, Numbered
<1>6. TypeOK'
  BY <1>1, <1>2, <1>5 DEF IInv, TypeOK, RequestState
<1>7. row.status = "draft" /\ row.workspace = w /\ row.number = n
  OBVIOUS
<1> HIDE DEF row, w, id, n
<1>8. /\ order'[id] = row /\ counter'[w] = n /\ req'[r] = Idle
      /\ \A o \in Orders : o # id => order'[o] = order[o]
      /\ \A v \in Workspaces : v # w => counter'[v] = counter[v]
      /\ \A t \in Requests : t # r => req'[t] = req[t]
  BY <1>1, <1>2 DEF IInv, TypeOK
<1>9. Idle.at = "idle"
  BY DEF Idle
<1>10. /\ order'[id].status # "absent"
       /\ \A o \in Orders : o # id => (Placed(o)' <=> Placed(o))
  BY <1>7, <1>8 DEF Placed
<1>11. LockInv'
  <2>1. ASSUME NEW t \in Requests, req'[t].at = "numbered"
        PROVE  t # r /\ req'[t] = req[t] /\ req[t].at = "numbered"
                 /\ req[t].workspace # w /\ req[t].workspace \in Workspaces
    <3>1. t # r /\ req'[t] = req[t]
      BY <2>1, <1>8, <1>9
    <3>2. req[t].workspace # w
      BY <2>1, <3>1, <1>1 DEF IInv, LockInv, w
    <3>3. req[t].workspace \in Workspaces
      BY <2>1, <3>1, RequestShape DEF IInv, Numbered
    <3>4. QED
      BY <2>1, <3>1, <3>2, <3>3
  <2>2. QED
    BY <2>1, <1>8 DEF IInv, LockInv
<1>12. IdInv'
  <2>1. \A t \in Requests : InCreate(t)' => t # r /\ req'[t] = req[t] /\ InCreate(t)
    BY <1>8, <1>9 DEF InCreate
  <2>2. \A t \in Requests : InCreate(t) /\ t # r => req[t].id # id
    BY <1>1 DEF IInv, IdInv, InCreate, id
  <2>3. \A t \in Requests : InCreate(t) => req[t].id \in Orders
    BY RequestShape DEF IInv, InCreate, Creating, Numbered
  <2>4. \A t \in Requests : InCreate(t)' => ~Placed(req[t].id)'
    BY <2>1, <2>2, <2>3, <1>10 DEF IInv, IdInv, Placed
  <2>5. \A t \in Requests : req'[t].at = "sending" => Placed(req[t].id)'
    <3> SUFFICES ASSUME NEW t \in Requests, req'[t].at = "sending"
                 PROVE  Placed(req[t].id)'
      OBVIOUS
    <3>1. req'[t] = req[t] /\ req[t].at = "sending"
      BY <1>8, <1>9
    <3>2. req[t].id \in Orders /\ Placed(req[t].id)
      BY <3>1, RequestShape DEF IInv, IdInv, Sending
    <3>3. QED
      BY <3>1, <3>2, <1>4, <1>8 DEF Placed
  <2>6. QED
    BY <2>1, <2>4, <2>5 DEF IInv, IdInv
<1>13. \A o \in Orders : Placed(o) =>
         /\ o # id
         /\ order[o].workspace \in Workspaces /\ order[o].number \in Nat
         /\ order[o].number \in 1 .. counter[order[o].workspace]
  BY <1>4, OrderShape DEF IInv, InRange, OrderRow
<1>14. \A v \in Workspaces : counter[v] \in Nat
  BY DEF IInv, TypeOK
<1>15. InRange'
  BY <1>3, <1>7, <1>8, <1>10, <1>13, <1>14 DEF InRange
<1>16. Carried'
  <2> SUFFICES ASSUME NEW v \in Workspaces, NEW m \in 1 .. counter'[v]
               PROVE  \E o \in Orders : /\ Placed(o)'
                                        /\ order'[o].workspace = v
                                        /\ order'[o].number = m
    BY DEF Carried
  <2>1. CASE v = w /\ m = n
    BY <2>1, <1>2, <1>7, <1>8, <1>10 DEF Placed
  <2>2. CASE ~(v = w /\ m = n)
    <3>1. m \in 1 .. counter[v]
      BY <2>2, <1>3, <1>8, <1>14
    <3>2. PICK o \in Orders : Placed(o) /\ order[o].workspace = v
                                 /\ order[o].number = m
      BY <3>1 DEF IInv, Carried
    <3>3. QED
      BY <3>2, <1>8, <1>10, <1>13
  <2>3. QED
    BY <2>1, <2>2
<1>17. UniqueNumbers'
  BY <1>3, <1>7, <1>8, <1>10, <1>13 DEF IInv, UniqueNumbers
<1>18. QED
  BY <1>6, <1>11, <1>12, <1>15, <1>16, <1>17 DEF IInv

LEMMA SendReadIInv ==
  ASSUME IInv, NEW r \in Requests, NEW w \in Workspaces, NEW o \in Orders,
         SendRead(r, w, o)
  PROVE  IInv'
<1> DEFINE c == [at |-> "sending", id |-> o]
<1>1. /\ req' = [req EXCEPT ![r] = c]
      /\ order' = order /\ counter' = counter
      /\ order[o].status = "draft"
  BY DEF SendRead
<1>2. c \in Sending /\ c.at = "sending" /\ c.id = o
  BY DEF Sending
<1> HIDE DEF c
<1>3. req'[r] = c /\ \A t \in Requests : t # r => req'[t] = req[t]
  BY <1>1 DEF IInv, TypeOK
<1>4. TypeOK'
  BY <1>1, <1>2 DEF IInv, TypeOK, RequestState
<1>5. LockInv'
  BY <1>1, <1>2, <1>3 DEF IInv, LockInv
<1>6. IdInv'
  BY <1>1, <1>2, <1>3 DEF IInv, IdInv, InCreate, Placed
<1>7. InRange' /\ Carried' /\ UniqueNumbers'
  BY <1>1 DEF IInv, InRange, Carried, UniqueNumbers, Placed
<1>8. QED
  BY <1>4, <1>5, <1>6, <1>7 DEF IInv

\* A request that ends without a commit takes its id and its lock with it.
LEMMA EndIInv ==
  ASSUME IInv, NEW r \in Requests, req' = [req EXCEPT ![r] = Idle],
         order' = order, counter' = counter
  PROVE  IInv'
<1>1. /\ req'[r] = Idle /\ Idle.at = "idle"
      /\ \A t \in Requests : t # r => req'[t] = req[t]
  BY DEF IInv, TypeOK, Idle
<1>2. TypeOK'
  BY DEF IInv, TypeOK, RequestState
<1>3. LockInv'
  BY <1>1 DEF IInv, LockInv
<1>4. IdInv'
  BY <1>1 DEF IInv, IdInv, InCreate, Placed
<1>5. InRange' /\ Carried' /\ UniqueNumbers'
  BY DEF IInv, InRange, Carried, UniqueNumbers, Placed
<1>6. QED
  BY <1>2, <1>3, <1>4, <1>5 DEF IInv

LEMMA SendWriteIInv ==
  ASSUME IInv, NEW r \in Requests, SendWrite(r)
  PROVE  IInv'
<1> DEFINE id == req[r].id
<1>1. /\ req[r].at = "sending"
      /\ order' = [order EXCEPT ![id].status = "sent"]
      /\ req' = [req EXCEPT ![r] = Idle]
      /\ counter' = counter
  BY DEF SendWrite
<1>2. id \in Orders /\ Placed(id) /\ order[id] \in OrderRow
  BY <1>1, RequestShape, OrderShape DEF IInv, IdInv, Sending
<1> HIDE DEF id
<1>3. /\ order'[id] = [order[id] EXCEPT !.status = "sent"]
      /\ \A o \in Orders : o # id => order'[o] = order[o]
  BY <1>1, <1>2 DEF IInv, TypeOK
<1>4. /\ order'[id] \in OrderRow /\ order'[id].status = "sent"
      /\ order'[id].workspace = order[id].workspace
      /\ order'[id].number = order[id].number
  BY <1>2, <1>3 DEF OrderRow
<1>5. \A o \in Orders :
        /\ Placed(o)' <=> Placed(o)
        /\ Placed(o) => /\ order'[o].workspace = order[o].workspace
                        /\ order'[o].number = order[o].number
  BY <1>2, <1>3, <1>4 DEF Placed
<1>6. /\ req'[r] = Idle /\ Idle.at = "idle"
      /\ \A t \in Requests : t # r => req'[t] = req[t]
  BY <1>1 DEF IInv, TypeOK, Idle
<1>7. TypeOK'
  BY <1>1, <1>2, <1>3, <1>4 DEF IInv, TypeOK, RequestState
<1>8. LockInv'
  BY <1>1, <1>6 DEF IInv, LockInv
<1>9. IdInv'
  <2>1. \A t \in Requests : InCreate(t) => req[t].id \in Orders
    BY RequestShape DEF IInv, InCreate, Creating, Numbered
  <2>2. \A t \in Requests : req[t].at = "sending" => req[t].id \in Orders
    BY RequestShape DEF IInv, Sending
  <2>3. \A t \in Requests : InCreate(t)' => InCreate(t) /\ req'[t] = req[t]
    BY <1>6 DEF InCreate
  <2>4. \A t \in Requests :
          req'[t].at = "sending" => req[t].at = "sending" /\ req'[t] = req[t]
    BY <1>6
  <2>5. \A t \in Requests : InCreate(t)' => ~Placed(req[t].id)'
    BY <2>1, <2>3, <1>5 DEF IInv, IdInv, Placed
  <2>6. \A t \in Requests : req'[t].at = "sending" => Placed(req[t].id)'
    BY <2>2, <2>4, <1>5 DEF IInv, IdInv, Placed
  <2>7. QED
    BY <2>3, <2>5, <2>6 DEF IInv, IdInv
<1>10. InRange' /\ Carried' /\ UniqueNumbers'
  BY <1>1, <1>5 DEF IInv, InRange, Carried, UniqueNumbers
<1>11. QED
  BY <1>7, <1>8, <1>9, <1>10 DEF IInv

LEMMA StepIInv == IInv /\ [Next]_vars => IInv'
<1> SUFFICES ASSUME IInv, [Next]_vars PROVE IInv'
  OBVIOUS
<1>1. ASSUME NEW r \in Requests, Abandon(r) PROVE IInv'
  BY <1>1, EndIInv DEF Abandon
<1>2. CASE UNCHANGED vars
  BY <1>2 DEF IInv, TypeOK, LockInv, IdInv, InRange, Carried, UniqueNumbers,
              Placed, InCreate, vars
<1>3. QED
  BY <1>1, <1>2, CreateIInv, TakeNumberIInv, CommitOrderIInv, SendReadIInv,
     SendWriteIInv DEF Next

-----------------------------------------------------------------------------
(* The theorems *)

\* Every reachable state is well typed.
THEOREM TypeCorrect == Spec => []TypeOK
<1>1. IInv => TypeOK
  BY DEF IInv
<1>2. QED
  BY InitIInv, StepIInv, <1>1, PTL DEF Spec

LEMMA IInvGivesGapless == IInv => GaplessNumbers
<1> SUFFICES ASSUME IInv, NEW w \in Workspaces
             PROVE  NumbersIn(w) = 1 .. counter[w]
  BY DEF GaplessNumbers
<1>1. \A o \in Orders : Placed(o) /\ order[o].workspace = w
                          => order[o].number \in 1 .. counter[w]
  BY DEF IInv, InRange
<1>2. \A n \in 1 .. counter[w] : \E o \in Orders :
        Placed(o) /\ order[o].workspace = w /\ order[o].number = n
  BY DEF IInv, Carried
<1>3. QED
  BY <1>1, <1>2 DEF NumbersIn

\* Concurrent creates that commit, roll back or crash number the orders of
\* every workspace 1, 2, ..., last_number.
THEOREM OrderNumbersAreGapless == Spec => []GaplessNumbers
BY InitIInv, StepIInv, IInvGivesGapless, PTL DEF Spec

\* No two orders of a workspace carry the same number.
THEOREM OrderNumbersAreUnique == Spec => []UniqueNumbers
<1>1. IInv => UniqueNumbers
  BY DEF IInv
<1>2. QED
  BY InitIInv, StepIInv, <1>1, PTL DEF Spec

-----------------------------------------------------------------------------
(* Refinement: a committed create is the abstract Assign, anything else a   *)
(* stuttering step.                                                         *)

Held ==
  [o \in Orders |->
     IF Placed(o) THEN <<order[o].workspace, order[o].number>> ELSE <<>>]

LEMMA CommitAssigns ==
  ASSUME IInv, NEW r \in Requests, CommitOrder(r)
  PROVE  Numbering!NumberingNext
<1> DEFINE w == req[r].workspace
           id == req[r].id
           n == req[r].number
           row == [status |-> "draft", workspace |-> w,
                   supplier |-> req[r].supplier, number |-> n]
<1>1. /\ req[r].at = "numbered"
      /\ order' = [order EXCEPT ![id] = row]
      /\ counter' = [counter EXCEPT ![w] = n]
  BY DEF CommitOrder
<1>2. w \in Workspaces /\ id \in Orders
  BY <1>1, RequestShape DEF IInv, Numbered
<1>3. n = counter[w] + 1
  BY <1>1 DEF IInv, LockInv
<1>4. ~Placed(id)
  BY <1>1 DEF IInv, IdInv, InCreate
<1>5. row.status = "draft" /\ row.workspace = w /\ row.number = n
  OBVIOUS
<1> HIDE DEF row, w, id, n
<1>6. order'[id] = row /\ \A o \in Orders : o # id => order'[o] = order[o]
  BY <1>1, <1>2 DEF IInv, TypeOK
<1>7. Held' = [Held EXCEPT ![id] = <<w, counter[w] + 1>>]
  BY <1>2, <1>3, <1>5, <1>6 DEF Held, Placed
<1>8. Held[id] = <<>>
  BY <1>2, <1>4 DEF Held
<1>9. counter' = [counter EXCEPT ![w] = counter[w] + 1]
  BY <1>1, <1>3
<1>10. \E o \in Orders, v \in Workspaces : Numbering!Assign(o, v)
  BY <1>2, <1>7, <1>8, <1>9 DEF Numbering!Assign, Numbering!Unnumbered, Held
<1>11. QED
  BY <1>10 DEF Numbering!NumberingNext

LEMMA SendWriteStutters ==
  ASSUME IInv, NEW r \in Requests, SendWrite(r)
  PROVE  UNCHANGED Numbering!numberingVars
<1> DEFINE id == req[r].id
<1>1. /\ req[r].at = "sending"
      /\ order' = [order EXCEPT ![id].status = "sent"]
      /\ counter' = counter
  BY DEF SendWrite
<1>2. id \in Orders /\ Placed(id) /\ order[id] \in OrderRow
  BY <1>1, RequestShape, OrderShape DEF IInv, IdInv, Sending
<1> HIDE DEF id
<1>3. \A o \in Orders : o # id => order'[o] = order[o]
  BY <1>1, <1>2 DEF IInv, TypeOK
<1>4. order'[id] = [order[id] EXCEPT !.status = "sent"]
  BY <1>1, <1>2 DEF IInv, TypeOK
<1>5. /\ order'[id].workspace = order[id].workspace
      /\ order'[id].number = order[id].number
      /\ order'[id].status = "sent"
  BY <1>2, <1>4 DEF OrderRow
<1>6. Held' = Held
  BY <1>2, <1>3, <1>5 DEF Held, Placed
<1>7. QED
  BY <1>1, <1>6 DEF Numbering!numberingVars, Held

\* Creating and sending purchase orders implements GaplessNumbering.
THEOREM OrdersImplementNumbering == Spec => ImplementsNumbering
<1>1. Init => Numbering!NumberingInit
  BY DEF Init, Numbering!NumberingInit, Numbering!Unnumbered, Placed, Absent
<1>2. IInv /\ [Next]_vars => [Numbering!NumberingNext]_(Numbering!numberingVars)
  <2> SUFFICES ASSUME IInv, [Next]_vars
               PROVE  Numbering!NumberingNext \/ UNCHANGED Numbering!numberingVars
    OBVIOUS
  <2>1. CASE order' = order /\ counter' = counter
    BY <2>1 DEF Numbering!numberingVars, Placed
  <2>2. CASE UNCHANGED vars
    BY <2>1, <2>2 DEF vars
  <2>3. QED
    BY <2>1, <2>2, CommitAssigns, SendWriteStutters
    DEF Next, Create, TakeNumber, SendRead, Abandon
<1>3. QED
  BY <1>1, <1>2, InitIInv, StepIInv, PTL
  DEF Spec, ImplementsNumbering, Numbering!NumberingSpec
=============================================================================
