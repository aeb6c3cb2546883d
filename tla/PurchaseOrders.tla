---------------------------- MODULE PurchaseOrders ----------------------------
(***************************************************************************)
(* PurchaseOrdersService (backend/src/purchase-orders): creating an order  *)
(* under the workspace's counter and sending it to the supplier.           *)
(*                                                                         *)
(* HTTP requests run concurrently; each is a process of Requests.  An      *)
(* action is what a request does between two awaits that other requests    *)
(* can interleave with: a read, the counter upsert, or the write that ends *)
(* the transaction together with its commit.                               *)
(*                                                                         *)
(* External (PostgreSQL under READ COMMITTED, Prisma): the upsert of a     *)
(* counter row locks it until the transaction ends, a transaction's writes *)
(* are seen by others only once it commits, and a transaction that fails,  *)
(* times out or loses its server leaves nothing behind.                    *)
(***************************************************************************)
EXTENDS Naturals

CONSTANTS
  Workspaces,   \* production, sandbox
  SuppliersOf,  \* SuppliersOf[w]: the partners of type supplier in w; rows
                \* of partners are never deleted nor change type or workspace
  Orders,       \* the row ids (uuids) an execution may use: bounds the model
  Requests      \* requests in flight at the same time: bounds the model

ASSUME SuppliersAssumption == DOMAIN SuppliersOf = Workspaces

VARIABLES
  order,        \* order[o]: the committed row of table purchase_orders, or Absent
  counter,      \* counter[w]: committed last_number of purchase_order_counters
  req           \* req[r]: where request r is and what it remembers

vars == <<order, counter, req>>

-----------------------------------------------------------------------------
(* Types *)

Suppliers == UNION {SuppliersOf[w] : w \in Workspaces}

Absent == [status |-> "absent"]

OrderRow ==
  [status : {"draft", "sent"}, workspace : Workspaces,
   supplier : Suppliers, number : Nat]

Idle == [at |-> "idle"]

Creating ==  \* in the transaction of create, waiting for the counter row
  [at : {"creating"}, id : Orders, workspace : Workspaces, supplier : Suppliers]

Numbered ==  \* has locked the counter row and knows its number
  [at : {"numbered"}, id : Orders, workspace : Workspaces,
   supplier : Suppliers, number : Nat]

Sending ==   \* send has read the order as a draft and not written it yet
  [at : {"sending"}, id : Orders]

RequestState == {Idle} \cup Creating \cup Numbered \cup Sending

TypeOK ==
  /\ order \in [Orders -> OrderRow \cup {Absent}]
  /\ counter \in [Workspaces -> Nat]
  /\ req \in [Requests -> RequestState]

-----------------------------------------------------------------------------
(* State predicates *)

Placed(o) == order[o].status # "absent"

InCreate(r) == req[r].at \in {"creating", "numbered"}

\* (A plausible bug: a lock that a transaction waiting for it counts as held.)
LockedByWaiters(w) ==
  \E r \in Requests : InCreate(r) /\ req[r].workspace = w

\* An open transaction holds the row lock of w's counter.
Locked(w) == \E r \in Requests : req[r].at = "numbered" /\ req[r].workspace = w

\* randomUUID(): an id no row and no open transaction has.
Fresh(o) == ~Placed(o) /\ \A r \in Requests : InCreate(r) => req[r].id # o

-----------------------------------------------------------------------------
(* Plausible bugs, each of the shape of a definition of this module; the    *)
(* runs' properties are shown to notice them.                              *)

\* Counting up outside the transaction, as a database sequence would.
TakeNumberFromSequence(r) ==
  /\ req[r].at = "creating"
  /\ ~Locked(req[r].workspace)
  /\ req' = [req EXCEPT ![r] =
               [at |-> "numbered", id |-> req[r].id,
                workspace |-> req[r].workspace, supplier |-> req[r].supplier,
                number |-> counter[req[r].workspace] + 1]]
  /\ counter' = [counter EXCEPT ![req[r].workspace] = @ + 1]
  /\ UNCHANGED order

\* Placing the order without saving the counter.
CommitOrderOnly(r) ==
  /\ req[r].at = "numbered"
  /\ order' = [order EXCEPT ![req[r].id] =
                 [status |-> "draft", workspace |-> req[r].workspace,
                  supplier |-> req[r].supplier, number |-> req[r].number]]
  /\ req' = [req EXCEPT ![r] = Idle]
  /\ UNCHANGED counter

\* Writing the row without its number, to be filled in later.
CommitUnnumbered(r) ==
  /\ req[r].at = "numbered"
  /\ order' = [order EXCEPT ![req[r].id] =
                 [status |-> "draft", workspace |-> req[r].workspace,
                  supplier |-> req[r].supplier]]
  /\ counter' = [counter EXCEPT ![req[r].workspace] = req[r].number]
  /\ req' = [req EXCEPT ![r] = Idle]

-----------------------------------------------------------------------------
Init ==
  /\ order = [o \in Orders |-> Absent]
  /\ counter = [w \in Workspaces |-> 0]
  /\ req = [r \in Requests |-> Idle]

\* create: validateSupplier has accepted supplier s of the user's workspace w
\* and the transaction is opened.
Create(r, w, s, o) ==
  /\ req[r] = Idle
  /\ s \in SuppliersOf[w]
  /\ Fresh(o)
  /\ req' = [req EXCEPT ![r] =
               [at |-> "creating", id |-> o, workspace |-> w, supplier |-> s]]
  /\ UNCHANGED <<order, counter>>

\* The INSERT ... ON CONFLICT DO UPDATE ... RETURNING last_number: waits for
\* the row lock, then computes the new value from the committed one.
TakeNumber(r) ==
  /\ req[r].at = "creating"
  /\ ~Locked(req[r].workspace)
  /\ req' = [req EXCEPT ![r] =
               [at |-> "numbered", id |-> req[r].id,
                workspace |-> req[r].workspace, supplier |-> req[r].supplier,
                number |-> counter[req[r].workspace] + 1]]
  /\ UNCHANGED <<order, counter>>

\* purchaseOrder.create and the commit: the row and the counter become
\* visible together.
CommitOrder(r) ==
  /\ req[r].at = "numbered"
  /\ order' = [order EXCEPT ![req[r].id] =
                 [status |-> "draft", workspace |-> req[r].workspace,
                  supplier |-> req[r].supplier, number |-> req[r].number]]
  /\ counter' = [counter EXCEPT ![req[r].workspace] = req[r].number]
  /\ req' = [req EXCEPT ![r] = Idle]

\* send, first await: the order exists in the user's workspace w, as a draft.
SendRead(r, w, o) ==
  /\ req[r] = Idle
  /\ order[o].status = "draft"
  /\ order[o].workspace = w
  /\ req' = [req EXCEPT ![r] = [at |-> "sending", id |-> o]]
  /\ UNCHANGED <<order, counter>>

\* send, second await: the update names the row by its id alone.
SendWrite(r) ==
  /\ req[r].at = "sending"
  /\ order' = [order EXCEPT ![req[r].id].status = "sent"]
  /\ req' = [req EXCEPT ![r] = Idle]
  /\ UNCHANGED counter

\* A transaction rolls back (5 s timeout, lost connection) or the server
\* stops before the request's next step.
Abandon(r) ==
  /\ req[r] # Idle
  /\ req' = [req EXCEPT ![r] = Idle]
  /\ UNCHANGED <<order, counter>>

Next ==
  \E r \in Requests :
    \/ \E w \in Workspaces, s \in Suppliers, o \in Orders : Create(r, w, s, o)
    \/ TakeNumber(r)
    \/ CommitOrder(r)
    \/ \E w \in Workspaces, o \in Orders : SendRead(r, w, o)
    \/ SendWrite(r)
    \/ Abandon(r)

Spec == Init /\ [][Next]_vars

\* A request that runs keeps running; PostgreSQL queues the waiters of a row
\* lock, so one that waits for a lock released again and again obtains it.
Fairness ==
  \A r \in Requests :
    /\ SF_vars(TakeNumber(r))
    /\ WF_vars(CommitOrder(r))
    /\ WF_vars(SendWrite(r))

FairSpec == Spec /\ Fairness

-----------------------------------------------------------------------------
(* Properties *)

NumbersIn(w) ==
  {order[o].number : o \in {p \in Orders : Placed(p) /\ order[p].workspace = w}}

\* Whatever transactions ran, overlapped and rolled back, the order numbers
\* of a workspace are 1, 2, ..., last_number.
GaplessNumbers == \A w \in Workspaces : NumbersIn(w) = 1 .. counter[w]

\* Two orders of a workspace never carry the same number, without the unique
\* constraint of the table ever being needed.
UniqueNumbers ==
  \A o, p \in Orders :
    /\ Placed(o) /\ Placed(p)
    /\ order[o].workspace = order[p].workspace
    /\ order[o].number = order[p].number
    => o = p

\* Every create and every send ends: the counter's row lock is always
\* released, and nobody waits for it for ever.
RequestsEnd == \A r \in Requests : req[r] # Idle ~> req[r] = Idle

-----------------------------------------------------------------------------
(* Purchase orders implement the numbering the documents promise.          *)

Numbering ==
  INSTANCE GaplessNumbering WITH
    Series <- Workspaces,
    Docs <- Orders,
    last <- counter,
    held <- [o \in Orders |->
               IF Placed(o) THEN <<order[o].workspace, order[o].number>>
                            ELSE <<>>]

\* Creating orders is an implementation of GaplessNumbering.
ImplementsNumbering == Numbering!NumberingSpec
=============================================================================
