------------------------------- MODULE Accounts -------------------------------
(***************************************************************************)
(* The table of users: UsersService (backend/src/users), the live check of *)
(* the caller before every handler (JwtStrategy, RolesGuard), and the      *)
(* password reset by mail of AuthService (backend/src/auth).               *)
(*                                                                         *)
(* HTTP requests run concurrently; each is a process of Requests, and an   *)
(* action is what it does between two awaits.  A handler names the row it  *)
(* writes by id alone: what it relies on was read before.                  *)
(*                                                                         *)
(* External (PostgreSQL under READ COMMITTED, Prisma): a call is atomic;   *)
(* foreign keys refuse or cascade as schema.prisma says.                   *)
(***************************************************************************)
EXTENDS Naturals, FiniteSets

CONSTANTS
  Workspaces,    \* production, sandbox
  UserIds,       \* the rows of table users an execution may use; a row stands
                 \* for its username and its email too, which are unique
  SeedAdmin,     \* SeedAdmin[w]: the administrator the seed puts in w
  Passwords,     \* the passwords that users choose
  Tokens,        \* the password reset tokens an execution may use
  Requests       \* requests in flight at the same time: bounds the model

ASSUME AccountsAssumption ==
  /\ SeedAdmin \in [Workspaces -> UserIds]
  /\ \A v, w \in Workspaces : SeedAdmin[v] = SeedAdmin[w] => v = w

VARIABLES
  user,          \* user[u]: the committed row of table users
  authors,       \* the users with invoices, quotes or purchase orders
  token,         \* token[t]: the committed row of password_reset_tokens
  req,           \* req[r]: where request r is and what it remembers
  met,           \* history: the users that two requests in flight concerned
                 \* at the same time
  redeemed,      \* history: the tokens that have set a password
  cut            \* history: those whose request then stopped before it
                 \* marked them used; no action reads the histories

vars == <<user, authors, token, req, met, redeemed, cut>>

-----------------------------------------------------------------------------
(* Types *)

Absent == [status |-> "absent"]     \* the id is not used yet

Deleted == [status |-> "deleted"]   \* the row was deleted; ids are not reused

Roles == {"admin", "staff"}         \* staff: every role but admin

\* A password an administrator or the seed gave: mustChangePassword is set in
\* the write that stores one, and cleared in the write of a chosen one.
Temporary == [chosen |-> FALSE]

UserRow ==
  [status : {"present"}, workspace : Workspaces, role : Roles,
   isActive : BOOLEAN, password : Passwords \cup {Temporary}]

TokenRow ==
  [status : {"present"}, of : UserIds, mailed : BOOLEAN,
   used : BOOLEAN, expired : BOOLEAN]

Idle == [at |-> "idle"]

\* Each request in flight acts for a user and concerns a user: itself until it
\* has found another.
Admitted ==   \* JwtStrategy.validate has returned AuthUser
  [at : {"admitted"}, by : UserIds, id : UserIds,
   workspace : Workspaces, role : Roles]

Managing ==   \* an administrator's handler has found a user of its workspace
  [at : {"updating", "resetting", "counting", "deleting"},
   by : UserIds, id : UserIds, workspace : Workspaces]

Changing ==   \* changeOwnPassword has verified the current password
  [at : {"changing"}, by : UserIds, id : UserIds,
   current : Passwords \cup {Temporary}]

Redeeming ==  \* forgotPassword before the mail, resetPassword at its writes
  [at : {"mailing", "redeeming", "marking"},
   by : UserIds, id : UserIds, token : Tokens]

RequestState == {Idle} \cup Admitted \cup Managing \cup Changing \cup Redeeming

TypeOK ==
  /\ user \in [UserIds -> UserRow \cup {Absent, Deleted}]
  /\ authors \in SUBSET UserIds
  /\ token \in [Tokens -> TokenRow \cup {Absent, Deleted}]
  /\ req \in [Requests -> RequestState]
  /\ met \in SUBSET UserIds
  /\ redeemed \in SUBSET Tokens /\ cut \in SUBSET Tokens

-----------------------------------------------------------------------------
(* State predicates *)

Present(u) == user[u].status = "present"

ActiveAdmin(u, w) ==
  Present(u) /\ user[u].isActive /\ user[u].role = "admin" /\ user[u].workspace = w

\* An administrator's handler finds user u: assertAdmin passes with the role
\* read at admission, and findUnique({ id, workspace }) finds the row.
Finds(q, u) ==
  /\ q.at = "admitted" /\ q.role = "admin"
  /\ Present(u) /\ user[u].workspace = q.workspace

\* (A plausible bug: expiry alone is looked at.)
UnexpiredOnly(t) ==
  token[t].status = "present" /\ token[t].mailed /\ ~token[t].expired

\* A link that was mailed is accepted.
Redeemable(t) ==
  /\ token[t].status = "present" /\ token[t].mailed
  /\ ~token[t].used /\ ~token[t].expired

\* The users request r concerns.
About(r) == IF req[r] = Idle THEN {} ELSE {req[r].by, req[r].id}

-----------------------------------------------------------------------------
(* Plausible bugs, each of the shape of an action below.                    *)

\* Taking the role from the claims of the token instead of the row: staff who
\* were administrators when they logged in are let in as administrators.
AdmitByClaims(r, u) ==
  /\ req[r] = Idle
  /\ Present(u) /\ user[u].isActive
  /\ \E role \in {"admin", user[u].role} :
       req' = [req EXCEPT ![r] =
         [at |-> "admitted", by |-> u, id |-> u,
          workspace |-> user[u].workspace, role |-> role]]
  /\ UNCHANGED <<user, authors, token, redeemed, cut>>

\* Deleting a user's documents with the user (ON DELETE CASCADE).
RemoveWriteCascading(r) ==
  /\ req[r].at = "deleting"
  /\ Present(req[r].id)
  /\ user' = [user EXCEPT ![req[r].id] = Deleted]
  /\ token' = [t \in Tokens |->
       IF token[t].status = "present" /\ token[t].of = req[r].id
       THEN Deleted ELSE token[t]]
  /\ req' = [req EXCEPT ![r] = Idle]
  /\ UNCHANGED <<authors, redeemed, cut>>

\* Comparing the new password with the stored one, but not the current one.
ChangeFindUnverified(r) ==
  /\ req[r].at = "admitted"
  /\ Present(req[r].by)
  /\ \E current \in Passwords \cup {Temporary} :
       req' = [req EXCEPT ![r] =
         [at |-> "changing", by |-> req[r].by, id |-> req[r].by, current |-> current]]
  /\ UNCHANGED <<user, authors, token, redeemed, cut>>

-----------------------------------------------------------------------------
Init ==
  /\ user = [u \in UserIds |->
       IF \E w \in Workspaces : SeedAdmin[w] = u
       THEN [status |-> "present", role |-> "admin", isActive |-> TRUE,
             workspace |-> CHOOSE w \in Workspaces : SeedAdmin[w] = u,
             password |-> Temporary]
       ELSE Absent]
  /\ authors = {}
  /\ token = [t \in Tokens |-> Absent]
  /\ req = [r \in Requests |-> Idle]
  /\ met = {} /\ redeemed = {} /\ cut = {}

\* The caller's row is read before the handler runs; it must be active.
Admit(r, u) ==
  /\ req[r] = Idle
  /\ Present(u) /\ user[u].isActive
  /\ req' = [req EXCEPT ![r] =
       [at |-> "admitted", by |-> u, id |-> u,
        workspace |-> user[u].workspace, role |-> user[u].role]]
  /\ UNCHANGED <<user, authors, token, redeemed, cut>>

\* create: the new row is in the workspace of its creator.  A username in use
\* is refused by the check or, after it, by the unique index.
Create(r, u, role) ==
  /\ req[r].at = "admitted" /\ req[r].role = "admin"
  /\ user[u] = Absent
  /\ user' = [user EXCEPT ![u] =
       [status |-> "present", workspace |-> req[r].workspace, role |-> role,
        isActive |-> TRUE, password |-> Temporary]]
  /\ req' = [req EXCEPT ![r] = Idle]
  /\ UNCHANGED <<authors, token, redeemed, cut>>

\* update, resetUserPassword and remove find the row of another or the same user.
Found(r, u, at) ==
  /\ req' = [req EXCEPT ![r] =
       [at |-> at, by |-> req[r].by, id |-> u, workspace |-> req[r].workspace]]
  /\ UNCHANGED <<user, authors, token, redeemed, cut>>

UpdateFind(r, u) == Finds(req[r], u) /\ Found(r, u, "updating")

\* update: role and isActive are written if the dto has them.
UpdateWrite(r, given, role, isActive) ==
  /\ req[r].at = "updating"
  /\ Present(req[r].id)
  /\ user' = [user EXCEPT
       ![req[r].id].role = IF "role" \in given THEN role ELSE @,
       ![req[r].id].isActive = IF "isActive" \in given THEN isActive ELSE @]
  /\ req' = [req EXCEPT ![r] = Idle]
  /\ UNCHANGED <<authors, token, redeemed, cut>>

ResetFind(r, u) == Finds(req[r], u) /\ Found(r, u, "resetting")

\* resetUserPassword: a temporary password is stored.
ResetWrite(r) ==
  /\ req[r].at = "resetting"
  /\ Present(req[r].id)
  /\ user' = [user EXCEPT ![req[r].id].password = Temporary]
  /\ req' = [req EXCEPT ![r] = Idle]
  /\ UNCHANGED <<authors, token, redeemed, cut>>

\* remove: the row is read with the counts of its documents; an active
\* administrator is deleted only after the active ones were counted.
RemoveFind(r, u) ==
  /\ Finds(req[r], u)
  /\ u # req[r].by
  /\ u \notin authors
  /\ Found(r, u, IF user[u].role = "admin" /\ user[u].isActive
                 THEN "counting" ELSE "deleting")

RemoveCount(r) ==
  /\ req[r].at = "counting"
  /\ Cardinality({u \in UserIds : ActiveAdmin(u, req[r].workspace)}) > 1
  /\ req' = [req EXCEPT ![r].at = "deleting"]
  /\ UNCHANGED <<user, authors, token, redeemed, cut>>

\* remove: the row is deleted, its tokens with it (ON DELETE CASCADE); the
\* documents of an author refuse it (ON DELETE RESTRICT).
RemoveWrite(r) ==
  /\ req[r].at = "deleting"
  /\ Present(req[r].id)
  /\ req[r].id \notin authors
  /\ user' = [user EXCEPT ![req[r].id] = Deleted]
  /\ token' = [t \in Tokens |->
       IF token[t].status = "present" /\ token[t].of = req[r].id
       THEN Deleted ELSE token[t]]
  /\ req' = [req EXCEPT ![r] = Idle]
  /\ UNCHANGED <<authors, redeemed, cut>>

\* changeOwnPassword: the row of the caller is read and compared with the
\* current password the caller has entered.
ChangeFind(r) ==
  /\ req[r].at = "admitted"
  /\ Present(req[r].by)
  /\ req' = [req EXCEPT ![r] =
       [at |-> "changing", by |-> req[r].by, id |-> req[r].by,
        current |-> user[req[r].by].password]]
  /\ UNCHANGED <<user, authors, token, redeemed, cut>>

ChangeWrite(r, password) ==
  /\ req[r].at = "changing"
  /\ password # req[r].current
  /\ Present(req[r].id)
  /\ user' = [user EXCEPT ![req[r].id].password = password]
  /\ req' = [req EXCEPT ![r] = Idle]
  /\ UNCHANGED <<authors, token, redeemed, cut>>

\* forgotPassword: the user is found by email (given to rows by hand: no
\* operation stores one) and a token is stored for it.
Forgot(r, u, t) ==
  /\ req[r] = Idle
  /\ Present(u)
  /\ token[t] = Absent
  /\ token' = [token EXCEPT ![t] =
       [status |-> "present", of |-> u, mailed |-> FALSE, used |-> FALSE,
        expired |-> FALSE]]
  /\ req' = [req EXCEPT ![r] = [at |-> "mailing", by |-> u, id |-> u, token |-> t]]
  /\ UNCHANGED <<user, authors, redeemed, cut>>

\* The link is mailed, perhaps after its row was deleted with the user.
Mail(r) ==
  /\ req[r].at = "mailing"
  /\ token' = [token EXCEPT ![req[r].token] =
       IF @.status = "present" THEN [@ EXCEPT !.mailed = TRUE] ELSE @]
  /\ req' = [req EXCEPT ![r] = Idle]
  /\ UNCHANGED <<user, authors, redeemed, cut>>

\* resetPassword: the token is found, not used and not expired.
RedeemFind(r, t) ==
  /\ req[r] = Idle
  /\ Redeemable(t)
  /\ req' = [req EXCEPT ![r] =
       [at |-> "redeeming", by |-> token[t].of, id |-> token[t].of, token |-> t]]
  /\ UNCHANGED <<user, authors, token, redeemed, cut>>

\* resetPassword: the first write sets the password ...
RedeemWrite(r, password) ==
  /\ req[r].at = "redeeming"
  /\ Present(req[r].id)
  /\ user' = [user EXCEPT ![req[r].id].password = password]
  /\ req' = [req EXCEPT ![r].at = "marking"]
  /\ redeemed' = redeemed \cup {req[r].token}
  /\ UNCHANGED <<authors, token, cut>>

\* ... and the second marks the token used.
MarkUsed(r) ==
  /\ req[r].at = "marking"
  /\ token[req[r].token].status = "present"
  /\ token' = [token EXCEPT ![req[r].token].used = TRUE]
  /\ req' = [req EXCEPT ![r] = Idle]
  /\ UNCHANGED <<user, authors, redeemed, cut>>

\* An operation is refused or throws, or the server stops before its next step.
Abandon(r) ==
  /\ req[r] # Idle
  /\ req' = [req EXCEPT ![r] = Idle]
  /\ cut' = IF req[r].at = "marking" THEN cut \cup {req[r].token} ELSE cut
  /\ UNCHANGED <<user, authors, token, redeemed>>

\* An hour passes.
Expire(t) ==
  /\ token[t].status = "present" /\ ~token[t].expired
  /\ token' = [token EXCEPT ![t].expired = TRUE]
  /\ UNCHANGED <<user, authors, req, redeemed, cut>>

\* A user's first document is inserted, or the last one, a draft, is deleted
\* (InvoicesService, QuotesService, PurchaseOrdersService).
Documents(u) ==
  /\ Present(u)
  /\ authors' \in {authors \cup {u}, authors \ {u}}
  /\ UNCHANGED <<user, token, req, redeemed, cut>>

ManageStep(r) ==
  \/ \E u \in UserIds : UpdateFind(r, u) \/ ResetFind(r, u) \/ RemoveFind(r, u)
  \/ \E u \in UserIds, role \in Roles : Create(r, u, role)
  \/ \E given \in SUBSET {"role", "isActive"}, role \in Roles, isActive \in BOOLEAN :
       UpdateWrite(r, given, role, isActive)
  \/ ResetWrite(r)
  \/ RemoveCount(r)
  \/ RemoveWrite(r)

PasswordStep(r) ==
  \/ ChangeFind(r)
  \/ \E password \in Passwords : ChangeWrite(r, password) \/ RedeemWrite(r, password)
  \/ \E u \in UserIds, t \in Tokens : Forgot(r, u, t)
  \/ Mail(r)
  \/ \E t \in Tokens : RedeemFind(r, t)
  \/ MarkUsed(r)

\* The users that two requests in flight concern.
Meeting ==
  {u \in UserIds : \E r, s \in Requests : r # s /\ u \in About(r) \cap About(s)}

Remember == met' = met \cup Meeting'

Next ==
  /\ \/ \E r \in Requests :
          \/ \E u \in UserIds : Admit(r, u)
          \/ ManageStep(r)
          \/ PasswordStep(r)
          \/ Abandon(r)
     \/ \E t \in Tokens : Expire(t)
     \/ \E u \in UserIds : Documents(u)
  /\ Remember

Spec == Init /\ [][Next]_vars

-----------------------------------------------------------------------------
(* Properties of every execution *)

\* What an administrator's request writes to a row, it writes as an active
\* administrator of the row's workspace, though the caller's row was read
\* several awaits before (jwt.strategy.ts:23: a change of role or a
\* deactivation takes effect immediately) -- unless another request in flight
\* concerned the caller.
ManagedByAdminsUnlessMet ==
  [][\A r \in Requests :
       /\ req[r] # Idle
       /\ req[r].at \in {"updating", "resetting", "deleting"}
       /\ req[r].by \notin met
       /\ user'[req[r].id] # user[req[r].id]
       => ActiveAdmin(req[r].by, user[req[r].id].workspace)]_vars

\* No workspace loses its last active administrator to a delete
\* (users.service.ts:233, tasks/plan-users.md:73).
LastAdminStays ==
  [][\A u \in UserIds, w \in Workspaces :
       /\ ActiveAdmin(u, w)
       /\ user'[u] = Deleted
       => \E v \in UserIds \ {u} : ActiveAdmin(v, w)]_vars

\* Documents keep their author: the documents counted before the delete may be
\* out of date, the foreign key is what holds.
AuthorsStay == \A u \in authors : Present(u)

\* A change of one's own password replaces the one that was verified -- unless
\* another request in flight concerned the user.
VerifiedIsReplacedUnlessMet ==
  [][\A r \in Requests :
       /\ req[r] # Idle
       /\ req[r].at = "changing"
       /\ req[r].id \notin met
       /\ user'[req[r].id] # user[req[r].id]
       => user[req[r].id].password = req[r].current]_vars

\* A token sets a password once (auth.service.ts:159), unless requests meet on
\* its user or one stops between its two writes.
OneUseUnlessCut ==
  [][\A t \in redeemed \ cut : \A r \in Requests :
       /\ req[r] # Idle
       /\ req[r].at = "redeeming" /\ req[r].token = t
       /\ user'[req[r].id] # user[req[r].id]
       => req[r].id \in met]_vars
=============================================================================
