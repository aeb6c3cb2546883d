---------------------------- MODULE Accounts_proofs ----------------------------
(***************************************************************************)
(* Accounts, for every set of workspaces, users, passwords, tokens and     *)
(* concurrent requests.                                                    *)
(***************************************************************************)
EXTENDS Accounts, TLAPS

ManageAts == {"updating", "resetting", "counting", "deleting"}

\* What a request may rely on of the rows of users: they were inserted, their
\* workspace is the one it remembers, and while no other request met it on
\* its caller or its user, that row is as it was read.
UsersSound(q) ==
  q # Idle =>
    /\ user[q.by].status # "absent" /\ user[q.id].status # "absent"
    /\ q.at \in ManageAts /\ Present(q.id) => user[q.id].workspace = q.workspace
    /\ (q.at = "admitted" /\ q.role = "admin") \/ q.at \in ManageAts
         => q.by \in met \/ ActiveAdmin(q.by, q.workspace)
    /\ q.at = "changing" => q.id \in met \/ user[q.id].password = q.current

\* What it may rely on of its token.
TokensSound(q) ==
  q # Idle /\ q.at \in {"mailing", "redeeming", "marking"} =>
    /\ token[q.token].status # "absent"
    /\ token[q.token].status = "present" => token[q.token].of = q.id
    /\ q.at # "mailing" /\ Present(q.id) => token[q.token].status = "present"
    /\ q.at # "mailing" => q.id \in met \/ Present(q.id)
    /\ q.at = "redeeming" => q.id \in met \/ q.token \notin redeemed \ cut

\* A token that has set a password is used, or about to be marked so.
Spent(t) ==
  t \in redeemed =>
    /\ token[t].status # "absent"
    /\ t \notin cut /\ token[t].status = "present" /\ token[t].of \notin met
         => \/ token[t].used
            \/ \E r \in Requests : req[r].at = "marking" /\ req[r].token = t

\* A token is deleted with its user.
Owned(t) == token[t].status = "present" => Present(token[t].of)

\* "met" has noticed every meeting.
Noticed ==
  \A r, s \in Requests : r # s => About(r) \cap About(s) \subseteq met

IInv ==
  /\ TypeOK
  /\ \A r \in Requests : UsersSound(req[r]) /\ TokensSound(req[r])
  /\ \A t \in Tokens : Spent(t) /\ Owned(t)
  /\ AuthorsStay
  /\ Noticed

-----------------------------------------------------------------------------
(* The shapes of records                                                    *)

LEMMA RequestShape ==
  ASSUME TypeOK, NEW r \in Requests
  PROVE  /\ req[r] \in RequestState
         /\ req[r].at = "admitted" <=> req[r] \in Admitted
         /\ req[r].at \in ManageAts <=> req[r] \in Managing
         /\ req[r].at = "changing" <=> req[r] \in Changing
         /\ req[r].at \in {"mailing", "redeeming", "marking"} <=> req[r] \in Redeeming
         /\ req[r].at = "idle" <=> req[r] = Idle
         /\ req[r] # Idle => req[r].by \in UserIds /\ req[r].id \in UserIds
BY DEF TypeOK, RequestState, Idle, Admitted, Managing, Changing, Redeeming, ManageAts

LEMMA UserShape ==
  ASSUME TypeOK, NEW u \in UserIds
  PROVE  /\ Present(u) <=> user[u] \in UserRow
         /\ ~Present(u) <=> user[u] \in {Absent, Deleted}
         /\ user[u].status = "absent" <=> user[u] = Absent
BY DEF TypeOK, Present, UserRow, Absent, Deleted

LEMMA TokenShape ==
  ASSUME TypeOK, NEW t \in Tokens
  PROVE  /\ token[t].status = "present" <=> token[t] \in TokenRow
         /\ token[t].status = "absent" <=> token[t] = Absent
BY DEF TypeOK, TokenRow, Absent, Deleted

LEMMA Shapes ==
  /\ Idle.at = "idle"
  /\ Absent.status = "absent" /\ Deleted.status = "deleted"
BY DEF Idle, Absent, Deleted

-----------------------------------------------------------------------------
(* Type correctness                                                         *)

LEMMA InitType == Init => TypeOK
<1> SUFFICES ASSUME Init PROVE TypeOK
  OBVIOUS
<1>1. ASSUME NEW u \in UserIds PROVE user[u] \in UserRow \cup {Absent, Deleted}
  <2>1. CASE \E w \in Workspaces : SeedAdmin[w] = u
    <3>1. (CHOOSE w \in Workspaces : SeedAdmin[w] = u) \in Workspaces
      BY <2>1
    <3>2. QED
      BY <2>1, <3>1 DEF Init, UserRow, Roles
  <2>2. CASE ~\E w \in Workspaces : SeedAdmin[w] = u
    BY <2>2 DEF Init
  <2>3. QED
    BY <2>1, <2>2
<1>2. user \in [UserIds -> UserRow \cup {Absent, Deleted}]
  BY <1>1 DEF Init
<1>3. QED
  BY <1>2 DEF Init, TypeOK, RequestState

LEMMA TypeOfRequestStep ==
  ASSUME TypeOK, NEW r \in Requests, NEW c \in RequestState,
         req' = [req EXCEPT ![r] = c]
  PROVE  req' \in [Requests -> RequestState]
BY DEF TypeOK

LEMMA TypeOfUserStep ==
  ASSUME TypeOK, NEW u \in UserIds, NEW row \in UserRow \cup {Absent, Deleted},
         user' = [user EXCEPT ![u] = row]
  PROVE  user' \in [UserIds -> UserRow \cup {Absent, Deleted}]
BY DEF TypeOK

LEMMA TypeOfTokenStep ==
  ASSUME TypeOK, NEW t \in Tokens, NEW row \in TokenRow \cup {Absent, Deleted},
         token' = [token EXCEPT ![t] = row]
  PROVE  token' \in [Tokens -> TokenRow \cup {Absent, Deleted}]
BY DEF TypeOK

\* The requests that come of the reads of UsersService.
LEMMA FoundType ==
  ASSUME TypeOK, NEW r \in Requests, NEW u \in UserIds, NEW at \in ManageAts,
         req[r].at = "admitted", Found(r, u, at)
  PROVE  req' \in [Requests -> RequestState]
<1>1. req[r] \in Admitted
  BY RequestShape
<1>2. [at |-> at, by |-> req[r].by, id |-> u, workspace |-> req[r].workspace]
        \in RequestState
  BY <1>1 DEF Admitted, Managing, RequestState, ManageAts
<1>3. QED
  BY <1>2, TypeOfRequestStep DEF Found

\* Each action leaves the state well typed.
LEMMA StepType == TypeOK /\ [Next]_vars => TypeOK'
<1> SUFFICES ASSUME TypeOK, [Next]_vars PROVE TypeOK'
  OBVIOUS
<1>1. CASE UNCHANGED vars
  BY <1>1 DEF TypeOK, vars
<1> SUFFICES ASSUME Next PROVE TypeOK'
  BY <1>1
<1>2. met' \in SUBSET UserIds
  BY DEF Next, Remember, Meeting, TypeOK
<1>3. Idle \in RequestState
  BY DEF RequestState
<1>4. ASSUME NEW r \in Requests, NEW u \in UserIds, Admit(r, u) PROVE TypeOK'
  <2>1. [at |-> "admitted", by |-> u, id |-> u, workspace |-> user[u].workspace,
         role |-> user[u].role] \in RequestState
    BY <1>4, UserShape DEF Admit, UserRow, RequestState, Admitted
  <2>2. QED
    BY <1>2, <1>4, <2>1, TypeOfRequestStep DEF Admit, TypeOK
<1>5. ASSUME NEW r \in Requests, NEW u \in UserIds, NEW role \in Roles,
             Create(r, u, role)
      PROVE  TypeOK'
  <2>1. [status |-> "present", workspace |-> req[r].workspace, role |-> role,
         isActive |-> TRUE, password |-> Temporary] \in UserRow
    BY <1>5, RequestShape DEF Create, Admitted, UserRow
  <2>2. QED
    BY <1>2, <1>3, <1>5, <2>1, TypeOfRequestStep, TypeOfUserStep DEF Create, TypeOK
<1>6. ASSUME NEW r \in Requests, NEW u \in UserIds,
             UpdateFind(r, u) \/ ResetFind(r, u) \/ RemoveFind(r, u)
      PROVE  TypeOK'
  <2>1. PICK at \in ManageAts : Found(r, u, at)
    BY <1>6 DEF UpdateFind, ResetFind, RemoveFind, ManageAts
  <2>2. req[r].at = "admitted"
    BY <1>6 DEF UpdateFind, ResetFind, RemoveFind, Finds
  <2>3. QED
    BY <1>2, <2>1, <2>2, FoundType DEF Found, TypeOK
<1>7. ASSUME NEW r \in Requests, NEW given \in SUBSET {"role", "isActive"},
             NEW role \in Roles, NEW isActive \in BOOLEAN,
             UpdateWrite(r, given, role, isActive)
      PROVE  TypeOK'
  <2>1. req[r] \in Managing /\ user[req[r].id] \in UserRow
    BY <1>7, RequestShape, UserShape DEF UpdateWrite, Managing, ManageAts
  <2>2. PICK u \in UserIds : u = req[r].id
    BY <2>1 DEF Managing
  <2>3. PICK row : row = [user[u] EXCEPT
          !.role = IF "role" \in given THEN role ELSE @,
          !.isActive = IF "isActive" \in given THEN isActive ELSE @]
    OBVIOUS
  <2>4. row \in UserRow
    BY <2>1, <2>2, <2>3 DEF UserRow
  <2>5. user' = [user EXCEPT ![u] = row]
    BY <1>7, <2>1, <2>2, <2>3 DEF UpdateWrite, UserRow, TypeOK
  <2>6. QED
    BY <1>2, <1>3, <1>7, <2>4, <2>5, TypeOfRequestStep, TypeOfUserStep
    DEF UpdateWrite, TypeOK
<1>8. ASSUME NEW r \in Requests, ResetWrite(r) PROVE TypeOK'
  <2>1. req[r] \in Managing /\ user[req[r].id] \in UserRow
    BY <1>8, RequestShape, UserShape DEF ResetWrite, Managing, ManageAts
  <2>2. [user[req[r].id] EXCEPT !.password = Temporary] \in UserRow
    BY <2>1 DEF UserRow
  <2>3. user' = [user EXCEPT ![req[r].id] = [user[req[r].id] EXCEPT !.password = Temporary]]
    BY <1>8 DEF ResetWrite
  <2>4. QED
    BY <1>2, <1>3, <1>8, <2>1, <2>2, <2>3, TypeOfRequestStep, TypeOfUserStep
    DEF ResetWrite, TypeOK, Managing
<1>9. ASSUME NEW r \in Requests, RemoveCount(r) PROVE TypeOK'
  <2>1. req[r] \in Managing
    BY <1>9, RequestShape DEF RemoveCount, ManageAts
  <2>2. [req[r] EXCEPT !.at = "deleting"] \in RequestState
    BY <2>1 DEF Managing, RequestState
  <2>3. QED
    BY <1>2, <1>9, <2>2, TypeOfRequestStep DEF RemoveCount, TypeOK
<1>10. ASSUME NEW r \in Requests, RemoveWrite(r) PROVE TypeOK'
  <2>1. req[r] \in Managing
    BY <1>10, RequestShape DEF RemoveWrite, ManageAts
  <2>2. QED
    BY <1>2, <1>3, <1>10, <2>1, TypeOfRequestStep, TypeOfUserStep
    DEF RemoveWrite, TypeOK, Managing
<1>11. ASSUME NEW r \in Requests, ChangeFind(r) PROVE TypeOK'
  <2>1. req[r] \in Admitted /\ user[req[r].by] \in UserRow
    BY <1>11, RequestShape, UserShape DEF ChangeFind, Admitted
  <2>2. [at |-> "changing", by |-> req[r].by, id |-> req[r].by,
         current |-> user[req[r].by].password] \in RequestState
    BY <2>1 DEF Admitted, UserRow, Changing, RequestState
  <2>3. QED
    BY <1>2, <1>11, <2>2, TypeOfRequestStep DEF ChangeFind, TypeOK
<1>12. ASSUME NEW r \in Requests, NEW password \in Passwords,
              ChangeWrite(r, password) \/ RedeemWrite(r, password)
       PROVE  TypeOK'
  <2>1. req[r] \in Changing \cup Redeeming /\ req[r].id \in UserIds
    BY <1>12, RequestShape DEF ChangeWrite, RedeemWrite, Changing, Redeeming
  <2>2. user[req[r].id] \in UserRow
    BY <1>12, <2>1, UserShape DEF ChangeWrite, RedeemWrite
  <2>3. [user[req[r].id] EXCEPT !.password = password] \in UserRow
    BY <2>2 DEF UserRow
  <2>4. user' = [user EXCEPT ![req[r].id] = [user[req[r].id] EXCEPT !.password = password]]
    BY <1>12 DEF ChangeWrite, RedeemWrite
  <2>5. user' \in [UserIds -> UserRow \cup {Absent, Deleted}]
    BY <2>1, <2>3, <2>4, TypeOfUserStep
  <2>6. CASE ChangeWrite(r, password)
    BY <1>2, <1>3, <2>5, <2>6, TypeOfRequestStep DEF ChangeWrite, TypeOK
  <2>7. CASE RedeemWrite(r, password)
    <3>1. req[r] \in Redeeming
      BY <2>7, RequestShape DEF RedeemWrite
    <3>2. [req[r] EXCEPT !.at = "marking"] \in RequestState
      BY <3>1 DEF Redeeming, RequestState
    <3>3. QED
      BY <1>2, <2>5, <2>7, <3>1, <3>2, TypeOfRequestStep
      DEF RedeemWrite, TypeOK, Redeeming
  <2>8. QED
    BY <1>12, <2>6, <2>7
<1>13. ASSUME NEW r \in Requests, NEW u \in UserIds, NEW t \in Tokens, Forgot(r, u, t)
       PROVE  TypeOK'
  <2>1. /\ [status |-> "present", of |-> u, mailed |-> FALSE, used |-> FALSE,
            expired |-> FALSE] \in TokenRow
        /\ [at |-> "mailing", by |-> u, id |-> u, token |-> t] \in RequestState
    BY DEF TokenRow, Redeeming, RequestState
  <2>2. QED
    BY <1>2, <1>13, <2>1, TypeOfRequestStep, TypeOfTokenStep DEF Forgot, TypeOK
<1>14. ASSUME NEW r \in Requests, Mail(r) PROVE TypeOK'
  <2>1. req[r] \in Redeeming
    BY <1>14, RequestShape DEF Mail
  <2>2. PICK t \in Tokens : t = req[r].token
    BY <2>1 DEF Redeeming
  <2>3. token[t].status = "present" => [token[t] EXCEPT !.mailed = TRUE] \in TokenRow
    BY TokenShape DEF TokenRow
  <2>4. token[t] \in TokenRow \cup {Absent, Deleted}
    BY DEF TypeOK
  <2>5. token' \in [Tokens -> TokenRow \cup {Absent, Deleted}]
    BY <1>14, <2>2, <2>3, <2>4, TypeOfTokenStep DEF Mail
  <2>6. QED
    BY <1>2, <1>3, <1>14, <2>5, TypeOfRequestStep DEF Mail, TypeOK
<1>15. ASSUME NEW r \in Requests, NEW t \in Tokens, RedeemFind(r, t) PROVE TypeOK'
  <2>1. token[t] \in TokenRow
    BY <1>15, TokenShape DEF RedeemFind, Redeemable
  <2>2. [at |-> "redeeming", by |-> token[t].of, id |-> token[t].of, token |-> t]
          \in RequestState
    BY <2>1 DEF TokenRow, Redeeming, RequestState
  <2>3. QED
    BY <1>2, <1>15, <2>2, TypeOfRequestStep DEF RedeemFind, TypeOK
<1>16. ASSUME NEW r \in Requests, MarkUsed(r) PROVE TypeOK'
  <2>1. req[r] \in Redeeming
    BY <1>16, RequestShape DEF MarkUsed
  <2>2. PICK t \in Tokens : t = req[r].token
    BY <2>1 DEF Redeeming
  <2>3. [token[t] EXCEPT !.used = TRUE] \in TokenRow
    BY <1>16, <2>2, TokenShape DEF MarkUsed, TokenRow
  <2>4. token' = [token EXCEPT ![t] = [token[t] EXCEPT !.used = TRUE]]
    BY <1>16, <2>2 DEF MarkUsed
  <2>5. QED
    BY <1>2, <1>3, <1>16, <2>3, <2>4, TypeOfRequestStep, TypeOfTokenStep
    DEF MarkUsed, TypeOK
<1>17. ASSUME NEW r \in Requests, Abandon(r) PROVE TypeOK'
  <2>1. cut' \in SUBSET Tokens
    BY <1>17, RequestShape DEF Abandon, TypeOK, Redeeming
  <2>2. QED
    BY <1>2, <1>3, <1>17, <2>1, TypeOfRequestStep DEF Abandon, TypeOK
<1>18. ASSUME NEW t \in Tokens, Expire(t) PROVE TypeOK'
  <2>1. [token[t] EXCEPT !.expired = TRUE] \in TokenRow
    BY <1>18, TokenShape DEF Expire, TokenRow
  <2>2. token' = [token EXCEPT ![t] = [token[t] EXCEPT !.expired = TRUE]]
    BY <1>18 DEF Expire
  <2>3. QED
    BY <1>2, <1>18, <2>1, <2>2, TypeOfTokenStep DEF Expire, TypeOK
<1>19. ASSUME NEW u \in UserIds, Documents(u) PROVE TypeOK'
  BY <1>2, <1>19 DEF Documents, TypeOK
<1>20. QED
  BY <1>4, <1>5, <1>6, <1>7, <1>8, <1>9, <1>10, <1>11, <1>12, <1>13, <1>14, <1>15,
     <1>16, <1>17, <1>18, <1>19
  DEF Next, ManageStep, PasswordStep

\* Every reachable state is well typed.
THEOREM TypeCorrect == Spec => []TypeOK
BY InitType, StepType, PTL DEF Spec

-----------------------------------------------------------------------------
(* The inductive invariant                                                  *)

LEMMA InitIInv == Init => IInv
<1> SUFFICES ASSUME Init PROVE IInv
  OBVIOUS
<1>1. \A r \in Requests : req[r] = Idle
  BY DEF Init
<1>2. redeemed = {} /\ authors = {} /\ \A t \in Tokens : token[t].status = "absent"
  BY Shapes DEF Init
<1>3. QED
  BY <1>1, <1>2, InitType
  DEF IInv, UsersSound, TokensSound, Spent, Owned, AuthorsStay, Noticed, About

\* Remembering the meetings of every new state notices them all.
LEMMA RememberNotices ==
  ASSUME TypeOK', Remember
  PROVE  Noticed'
<1>1. \A r \in Requests : req'[r] # Idle => req'[r].by \in UserIds /\ req'[r].id \in UserIds
  BY DEF TypeOK, RequestState, Idle, Admitted, Managing, Changing, Redeeming
<1>2. QED
  BY <1>1 DEF Noticed, Meeting, Remember, About

\* A request that writes a row of users concerns it, or inserts it: the others
\* that concern the row have met it.
LEMMA OthersKeepUsers ==
  ASSUME IInv, Remember, NEW r \in Requests, NEW t \in Requests, t # r,
         req'[t] = req[t],
         NEW x \in UserIds,
         \A u \in UserIds : u # x => user'[u] = user[u],
         user[x].status = "absent" \/ (req[r] # Idle /\ x = req[r].id),
         user'[x].status # "absent",
         user[x].status # "absent" /\ Present(x)' =>
           Present(x) /\ user'[x].workspace = user[x].workspace
  PROVE  UsersSound(req[t])'
<1> SUFFICES ASSUME req[t] # Idle PROVE UsersSound(req[t])'
  BY DEF UsersSound
<1>1. PICK q : q = req[t]
  OBVIOUS
<1>2. q.by \in UserIds /\ q.id \in UserIds /\ UsersSound(q)
  BY <1>1, RequestShape DEF IInv
<1>3. met \subseteq met'
  BY DEF Remember
<1>4. (x = q.by \/ x = q.id) => user[x].status # "absent" /\ x \in met
  BY <1>1, <1>2 DEF UsersSound, IInv, Noticed, About
<1>5. q.by # x => user'[q.by] = user[q.by]
  BY <1>2
<1>6. q.id # x => user'[q.id] = user[q.id]
  BY <1>2
<1>7. UsersSound(q)'
  BY <1>1, <1>2, <1>3, <1>4, <1>5, <1>6 DEF UsersSound, Present, ActiveAdmin
<1>8. QED
  BY <1>1, <1>7

\* A request stays sound while no row changes that it relies on.
LEMMA OthersKeepTokens ==
  ASSUME IInv, Remember, NEW r \in Requests, NEW t \in Requests, t # r,
         req'[t] = req[t],
         NEW x \in UserIds,
         \A u \in UserIds : u # x => user'[u] = user[u],
         user[x].status = "absent" \/ (req[r] # Idle /\ x = req[r].id),
         user[x].status # "absent" /\ Present(x)' => Present(x),
         \A k \in Tokens :
           /\ token[k].status # "absent" => token'[k].status # "absent"
           /\ token[k].status # "absent" /\ token'[k].status = "present" =>
                token[k].status = "present" /\ token'[k].of = token[k].of
           /\ token[k].status = "present" =>
                token'[k].status = "present" \/ (token[k].of = x /\ ~Present(x)'),
         req[t].at = "redeeming" =>
           req[t].id \in met' \/ req[t].token \notin redeemed' \ redeemed,
         cut \subseteq cut'
  PROVE  TokensSound(req[t])'
<1> SUFFICES ASSUME req[t] # Idle, req[t].at \in {"mailing", "redeeming", "marking"}
             PROVE  TokensSound(req[t])'
  BY DEF TokensSound
<1>1. PICK q : q = req[t]
  OBVIOUS
<1>2. q.by \in UserIds /\ q.id \in UserIds /\ UsersSound(q) /\ TokensSound(q)
  BY <1>1, RequestShape DEF IInv
<1>3. met \subseteq met'
  BY DEF Remember
<1>4. x = q.id => user[x].status # "absent" /\ x \in met
  BY <1>1, <1>2 DEF UsersSound, IInv, Noticed, About
<1>5. q.id # x => user'[q.id] = user[q.id]
  BY <1>2
<1>6. q.token \in Tokens
  BY <1>1, RequestShape DEF IInv, Redeeming
<1>7. Present(q.id)' => Present(q.id)
  BY <1>4, <1>5 DEF Present
<1>8. q.id \notin met' => Present(q.id)' \/ ~Present(q.id)
  BY <1>3, <1>4, <1>5 DEF Present
<1>9. PICK k \in Tokens : k = q.token
  BY <1>6
<1>10. /\ token[k].status # "absent" => token'[k].status # "absent"
       /\ token[k].status # "absent" /\ token'[k].status = "present" =>
            token[k].status = "present" /\ token'[k].of = token[k].of
       /\ token[k].status = "present" =>
            token'[k].status = "present" \/ (token[k].of = x /\ ~Present(x)')
  OBVIOUS
<1>11. TokensSound(q)'
  BY <1>1, <1>2, <1>3, <1>7, <1>8, <1>9, <1>10 DEF TokensSound, Present
<1>12. QED
  BY <1>1, <1>11

\* A step of request r that leaves tokens alone.
LEMMA NoTokenStepIInv ==
  ASSUME IInv, TypeOK', Remember, NEW r \in Requests, NEW c,
         req' = [req EXCEPT ![r] = c],
         req[r].at # "marking",
         UsersSound(c)', TokensSound(c)',
         NEW x \in UserIds,
         \A u \in UserIds : u # x => user'[u] = user[u],
         user[x].status = "absent" \/ (req[r] # Idle /\ x = req[r].id),
         user'[x].status # "absent",
         user[x].status # "absent" /\ Present(x)' =>
           Present(x) /\ user'[x].workspace = user[x].workspace,
         Present(x) => Present(x)',
         UNCHANGED <<token, authors, redeemed, cut>>
  PROVE  IInv'
<1>1. req'[r] = c /\ \A t \in Requests : t # r => req'[t] = req[t]
  BY DEF IInv, TypeOK
<1>2. ASSUME NEW t \in Requests PROVE UsersSound(req[t])' /\ TokensSound(req[t])'
  <2>1. CASE t = r
    BY <1>1, <2>1
  <2>2. CASE t # r
    <3>1. req'[t] = req[t]
      BY <1>1, <2>2
    <3>2. UsersSound(req[t])'
      BY <2>2, <3>1, OthersKeepUsers
    <3>3. \A k \in Tokens :
            /\ token[k].status # "absent" => token'[k].status # "absent"
            /\ token[k].status # "absent" /\ token'[k].status = "present" =>
                 token[k].status = "present" /\ token'[k].of = token[k].of
            /\ token[k].status = "present" =>
                 token'[k].status = "present" \/ (token[k].of = x /\ ~Present(x)')
      OBVIOUS
    <3>4. TokensSound(req[t])'
      BY <2>2, <3>1, <3>3, OthersKeepTokens
    <3>5. QED
      BY <3>2, <3>4
  <2>3. QED
    BY <2>1, <2>2
<1>3. ASSUME NEW k \in Tokens PROVE Spent(k)' /\ Owned(k)'
  <2>1. Spent(k) /\ Owned(k)
    BY DEF IInv
  <2>2. \A s \in Requests : req[s].at = "marking" => req'[s] = req[s]
    BY <1>1
  <2>3. Spent(k)'
    BY <2>1, <2>2 DEF Spent, Remember
  <2>4. Owned(k)'
    BY <2>1, TokenShape DEF Owned, Present, IInv, TokenRow
  <2>5. QED
    BY <2>3, <2>4
<1>4. AuthorsStay'
  BY DEF IInv, AuthorsStay, Present, TypeOK
<1>5. QED
  BY <1>2, <1>3, <1>4, RememberNotices DEF IInv

\* A step of request r that reads.
LEMMA ReadIInv ==
  ASSUME IInv, TypeOK', Remember, NEW r \in Requests, NEW c,
         req' = [req EXCEPT ![r] = c],
         req[r].at # "marking",
         UsersSound(c)', TokensSound(c)',
         UNCHANGED <<user, token, authors, redeemed, cut>>
  PROVE  IInv'
<1>1. req'[r] = c /\ \A t \in Requests : t # r => req'[t] = req[t]
  BY DEF IInv, TypeOK
<1>2. ASSUME NEW t \in Requests PROVE UsersSound(req[t])' /\ TokensSound(req[t])'
  <2>1. CASE t = r
    BY <1>1, <2>1
  <2>2. CASE t # r
    <3>1. PICK q : q = req[t]
      OBVIOUS
    <3>2. UsersSound(q) /\ TokensSound(q)
      BY <3>1 DEF IInv
    <3>3. UsersSound(q)'
      BY <3>2 DEF UsersSound, Remember, Present, ActiveAdmin
    <3>4. TokensSound(q)'
      BY <3>2 DEF TokensSound, Remember, Present
    <3>5. QED
      BY <1>1, <2>2, <3>1, <3>3, <3>4
  <2>3. QED
    BY <2>1, <2>2
<1>3. ASSUME NEW k \in Tokens PROVE Spent(k)' /\ Owned(k)'
  <2>1. Spent(k) /\ Owned(k)
    BY DEF IInv
  <2>2. \A s \in Requests : req[s].at = "marking" => req'[s] = req[s]
    BY <1>1
  <2>3. Spent(k)'
    BY <2>1, <2>2 DEF Spent, Remember
  <2>4. Owned(k)'
    BY <2>1, TokenShape DEF Owned, Present, IInv, TokenRow
  <2>5. QED
    BY <2>3, <2>4
<1>4. AuthorsStay'
  BY DEF IInv, AuthorsStay, Present
<1>5. QED
  BY <1>2, <1>3, <1>4, RememberNotices DEF IInv

LEMMA IdleSound == UsersSound(Idle) /\ TokensSound(Idle)
BY DEF UsersSound, TokensSound

-----------------------------------------------------------------------------
(* The actions, in the order of the module                                  *)

LEMMA AdmitIInv ==
  ASSUME IInv, TypeOK', Remember, NEW r \in Requests, NEW u \in UserIds, Admit(r, u)
  PROVE  IInv'
<1>1. PICK c : c = [at |-> "admitted", by |-> u, id |-> u,
                     workspace |-> user[u].workspace, role |-> user[u].role]
  OBVIOUS
<1>2. /\ c.at = "admitted" /\ c.by = u /\ c.id = u
      /\ c.workspace = user[u].workspace /\ c.role = user[u].role
  BY <1>1
<1>3. req' = [req EXCEPT ![r] = c] /\ UNCHANGED <<user, token, authors, redeemed, cut>>
  BY <1>1 DEF Admit
<1>4. UsersSound(c)'
  BY <1>2, <1>3, Shapes DEF UsersSound, ManageAts, ActiveAdmin, Admit, Present
<1>5. TokensSound(c)'
  BY <1>2 DEF TokensSound
<1>6. req[r].at # "marking"
  BY Shapes DEF Admit
<1>7. QED
  BY <1>3, <1>4, <1>5, <1>6, ReadIInv

LEMMA CreateIInv ==
  ASSUME IInv, TypeOK', Remember, NEW r \in Requests, NEW u \in UserIds,
         NEW role \in Roles, Create(r, u, role)
  PROVE  IInv'
<1>1. PICK row : row = [status |-> "present", workspace |-> req[r].workspace,
                        role |-> role, isActive |-> TRUE, password |-> Temporary]
  OBVIOUS
<1>2. user[u].status = "absent" /\ row.status = "present"
  BY <1>1, Shapes DEF Create
<1>3. user'[u] = row /\ \A v \in UserIds : v # u => user'[v] = user[v]
  BY <1>1 DEF Create, IInv, TypeOK
<1>4. /\ req' = [req EXCEPT ![r] = Idle] /\ req[r].at # "marking"
      /\ UNCHANGED <<token, authors, redeemed, cut>>
  BY DEF Create
<1>5. UsersSound(Idle)' /\ TokensSound(Idle)'
  BY DEF UsersSound, TokensSound
<1>6. user'[u].status # "absent" /\ (Present(u) => Present(u)')
  BY <1>2, <1>3 DEF Present
<1>7. QED
  BY <1>2, <1>3, <1>4, <1>5, <1>6, NoTokenStepIInv

\* The user found is of the administrator's workspace.
LEMMA FoundIInv ==
  ASSUME IInv, TypeOK', Remember, NEW r \in Requests, NEW u \in UserIds,
         NEW at \in ManageAts, Finds(req[r], u), Found(r, u, at)
  PROVE  IInv'
<1>1. PICK c : c = [at |-> at, by |-> req[r].by, id |-> u, workspace |-> req[r].workspace]
  OBVIOUS
<1>2. c.at = at /\ c.by = req[r].by /\ c.id = u /\ c.workspace = req[r].workspace
  BY <1>1
<1>3. req' = [req EXCEPT ![r] = c] /\ UNCHANGED <<user, token, authors, redeemed, cut>>
  BY <1>1 DEF Found
<1>4. req[r].at = "admitted" /\ req[r] # Idle /\ UsersSound(req[r])
  BY Shapes DEF Finds, IInv
<1>5. UsersSound(c)'
  BY <1>2, <1>3, <1>4, Shapes
  DEF UsersSound, ManageAts, ActiveAdmin, Finds, Present, Remember
<1>6. TokensSound(c)'
  BY <1>2 DEF TokensSound, ManageAts
<1>7. QED
  BY <1>3, <1>4, <1>5, <1>6, ReadIInv

LEMMA FindIInv ==
  ASSUME IInv, TypeOK', Remember, NEW r \in Requests, NEW u \in UserIds,
         UpdateFind(r, u) \/ ResetFind(r, u) \/ RemoveFind(r, u)
  PROVE  IInv'
<1>1. PICK at \in ManageAts : Found(r, u, at)
  BY DEF UpdateFind, ResetFind, RemoveFind, ManageAts
<1>2. Finds(req[r], u)
  BY DEF UpdateFind, ResetFind, RemoveFind
<1>3. QED
  BY <1>1, <1>2, FoundIInv

LEMMA RemoveCountIInv ==
  ASSUME IInv, TypeOK', Remember, NEW r \in Requests, RemoveCount(r)
  PROVE  IInv'
<1>1. PICK c : c = [req[r] EXCEPT !.at = "deleting"]
  OBVIOUS
<1>2. req[r] \in Managing /\ req[r] # Idle /\ UsersSound(req[r])
  BY RequestShape, Shapes DEF RemoveCount, IInv, ManageAts
<1>3. c.at = "deleting" /\ c.by = req[r].by /\ c.id = req[r].id
      /\ c.workspace = req[r].workspace
  BY <1>1, <1>2 DEF Managing
<1>4. /\ req' = [req EXCEPT ![r] = c] /\ req[r].at = "counting"
      /\ UNCHANGED <<user, token, authors, redeemed, cut>>
  BY <1>1 DEF RemoveCount
<1>5. UsersSound(c)'
  BY <1>2, <1>3, <1>4 DEF UsersSound, ManageAts, ActiveAdmin, Present, Remember
<1>6. TokensSound(c)'
  BY <1>3 DEF TokensSound
<1>7. QED
  BY <1>4, <1>5, <1>6, ReadIInv

\* A write to the row the request found.
LEMMA RowWriteIInv ==
  ASSUME IInv, TypeOK', Remember, NEW r \in Requests, req[r] # Idle,
         req[r].at # "marking",
         NEW x \in UserIds, x = req[r].id, Present(x),
         NEW row, row.status = "present", row.workspace = user[x].workspace,
         user' = [user EXCEPT ![x] = row],
         req' = [req EXCEPT ![r] = Idle],
         UNCHANGED <<token, authors, redeemed, cut>>
  PROVE  IInv'
<1>1. user'[x] = row /\ \A v \in UserIds : v # x => user'[v] = user[v]
  BY DEF IInv, TypeOK
<1>2. UsersSound(Idle)' /\ TokensSound(Idle)'
  BY DEF UsersSound, TokensSound
<1>3. Present(x)' /\ user'[x].status # "absent" /\ user'[x].workspace = user[x].workspace
  BY <1>1 DEF Present
<1>4. QED
  BY <1>1, <1>2, <1>3, NoTokenStepIInv

LEMMA UpdateWriteIInv ==
  ASSUME IInv, TypeOK', Remember, NEW r \in Requests,
         NEW given \in SUBSET {"role", "isActive"}, NEW role \in Roles,
         NEW isActive \in BOOLEAN, UpdateWrite(r, given, role, isActive)
  PROVE  IInv'
<1>1. req[r] \in Managing /\ req[r] # Idle
  BY RequestShape, Shapes DEF UpdateWrite, IInv, ManageAts
<1>2. PICK x \in UserIds : x = req[r].id
  BY <1>1 DEF Managing
<1>3. Present(x) /\ user[x] \in UserRow
  BY <1>2, UserShape DEF UpdateWrite, IInv
<1>4. PICK row : row = [user[x] EXCEPT
        !.role = IF "role" \in given THEN role ELSE @,
        !.isActive = IF "isActive" \in given THEN isActive ELSE @]
  OBVIOUS
<1>5. row.status = "present" /\ row.workspace = user[x].workspace
  BY <1>3, <1>4 DEF UserRow
<1>6. user' = [user EXCEPT ![x] = row]
  BY <1>2, <1>3, <1>4 DEF UpdateWrite, UserRow, IInv, TypeOK
<1>7. QED
  BY <1>1, <1>2, <1>3, <1>5, <1>6, RowWriteIInv DEF UpdateWrite

\* The three writes of a password.
LEMMA PasswordWriteRow ==
  ASSUME IInv, NEW x \in UserIds, Present(x),
         NEW password, NEW row, row = [user[x] EXCEPT !.password = password]
  PROVE  row.status = "present" /\ row.workspace = user[x].workspace
BY UserShape DEF IInv, UserRow

LEMMA ResetWriteIInv ==
  ASSUME IInv, TypeOK', Remember, NEW r \in Requests, ResetWrite(r)
  PROVE  IInv'
<1>1. req[r] \in Managing /\ req[r] # Idle
  BY RequestShape, Shapes DEF ResetWrite, IInv, ManageAts
<1>2. PICK x \in UserIds : x = req[r].id
  BY <1>1 DEF Managing
<1>3. PICK row : row = [user[x] EXCEPT !.password = Temporary]
  OBVIOUS
<1>4. row.status = "present" /\ row.workspace = user[x].workspace
  BY <1>2, <1>3, PasswordWriteRow DEF ResetWrite
<1>5. user' = [user EXCEPT ![x] = row]
  BY <1>2, <1>3 DEF ResetWrite
<1>6. QED
  BY <1>1, <1>2, <1>4, <1>5, RowWriteIInv DEF ResetWrite

LEMMA ChangeFindIInv ==
  ASSUME IInv, TypeOK', Remember, NEW r \in Requests, ChangeFind(r)
  PROVE  IInv'
<1>1. PICK c : c = [at |-> "changing", by |-> req[r].by, id |-> req[r].by,
                     current |-> user[req[r].by].password]
  OBVIOUS
<1>2. /\ c.at = "changing" /\ c.by = req[r].by /\ c.id = req[r].by
      /\ c.current = user[req[r].by].password
  BY <1>1
<1>3. req' = [req EXCEPT ![r] = c] /\ UNCHANGED <<user, token, authors, redeemed, cut>>
  BY <1>1 DEF ChangeFind
<1>4. UsersSound(c)'
  BY <1>2, <1>3, Shapes DEF UsersSound, ManageAts, ChangeFind, Present
<1>5. TokensSound(c)'
  BY <1>2 DEF TokensSound
<1>6. QED
  BY <1>3, <1>4, <1>5, ReadIInv DEF ChangeFind

LEMMA ChangeWriteIInv ==
  ASSUME IInv, TypeOK', Remember, NEW r \in Requests, NEW password \in Passwords,
         ChangeWrite(r, password)
  PROVE  IInv'
<1>1. req[r] \in Changing /\ req[r] # Idle
  BY RequestShape, Shapes DEF ChangeWrite, IInv
<1>2. PICK x \in UserIds : x = req[r].id
  BY <1>1 DEF Changing
<1>3. PICK row : row = [user[x] EXCEPT !.password = password]
  OBVIOUS
<1>4. row.status = "present" /\ row.workspace = user[x].workspace
  BY <1>2, <1>3, PasswordWriteRow DEF ChangeWrite
<1>5. user' = [user EXCEPT ![x] = row]
  BY <1>2, <1>3 DEF ChangeWrite
<1>6. QED
  BY <1>1, <1>2, <1>4, <1>5, RowWriteIInv DEF ChangeWrite

LEMMA RedeemFindIInv ==
  ASSUME IInv, TypeOK', Remember, NEW r \in Requests, NEW t \in Tokens,
         RedeemFind(r, t)
  PROVE  IInv'
<1>1. PICK u \in UserIds : u = token[t].of
  BY TokenShape DEF RedeemFind, Redeemable, IInv, TokenRow
<1>2. PICK c : c = [at |-> "redeeming", by |-> u, id |-> u, token |-> t]
  OBVIOUS
<1>3. c.at = "redeeming" /\ c.by = u /\ c.id = u /\ c.token = t
  BY <1>2
<1>4. /\ req' = [req EXCEPT ![r] = c] /\ req[r] = Idle
      /\ UNCHANGED <<user, token, authors, redeemed, cut>>
      /\ token[t].status = "present" /\ ~token[t].used
  BY <1>1, <1>2 DEF RedeemFind, Redeemable
<1>5. Present(u)
  BY <1>1, <1>4 DEF IInv, Owned
<1>6. UsersSound(c)'
  BY <1>3, <1>4, <1>5 DEF UsersSound, ManageAts, Present
<1>7. t \in redeemed \ cut => u \in met'
  <2> SUFFICES ASSUME t \in redeemed \ cut, u \notin met PROVE u \in met'
    BY DEF Remember
  <2>1. PICK s \in Requests : req[s].at = "marking" /\ req[s].token = t
    BY <1>1, <1>4 DEF IInv, Spent
  <2>2. req[s] # Idle /\ s # r
    BY <1>4, <2>1, Shapes
  <2>3. req[s].id = u
    BY <1>1, <1>4, <2>1, <2>2 DEF IInv, TokensSound
  <2>4. req'[s] = req[s] /\ req'[r] = c
    BY <1>4, <2>2 DEF IInv, TypeOK
  <2>5. c # Idle
    BY <1>3, Shapes
  <2>6. Noticed'
    BY RememberNotices
  <2>7. QED
    BY <1>3, <2>2, <2>3, <2>4, <2>5, <2>6 DEF Noticed, About
<1>8. TokensSound(c)'
  BY <1>1, <1>3, <1>4, <1>5, <1>7 DEF TokensSound, Present
<1>9. req[r].at # "marking"
  BY <1>4, Shapes
<1>10. QED
  BY <1>4, <1>6, <1>8, <1>9, ReadIInv

\* A step that leaves the users alone.
LEMMA UsersStayIInv ==
  ASSUME IInv, TypeOK', Remember, AuthorsStay', UNCHANGED <<user, redeemed>>,
         cut \subseteq cut',
         \A t \in Requests :
           req'[t] = req[t] \/ (UsersSound(req[t])' /\ TokensSound(req[t])'),
         \A k \in Tokens :
           /\ token[k].status # "absent" => token'[k].status = token[k].status
           /\ token[k].status = "present" =>
                token'[k].of = token[k].of /\ (token[k].used => token'[k].used)
           /\ Owned(k)',
         \A s \in Requests :
           req[s].at = "marking" /\ req'[s] # req[s] =>
             token'[req[s].token].used \/ req[s].token \in cut'
  PROVE  IInv'
<1>1. ASSUME NEW t \in Requests PROVE UsersSound(req[t])' /\ TokensSound(req[t])'
  <2>1. SUFFICES ASSUME req'[t] = req[t] PROVE UsersSound(req[t])' /\ TokensSound(req[t])'
    OBVIOUS
  <2>2. PICK q : q = req[t]
    OBVIOUS
  <2>3. UsersSound(q) /\ TokensSound(q)
    BY <2>2 DEF IInv
  <2>4. UsersSound(q)'
    BY <2>3 DEF UsersSound, Remember, Present, ActiveAdmin
  <2>5. q # Idle /\ q.at \in {"mailing", "redeeming", "marking"} => q.token \in Tokens
    BY <2>2, RequestShape DEF IInv, Redeeming
  <2>6. TokensSound(q)'
    BY <2>3, <2>5 DEF TokensSound, Remember, Present
  <2>7. QED
    BY <2>1, <2>2, <2>4, <2>6
<1>2. ASSUME NEW k \in Tokens PROVE Spent(k)'
  <2>1. Spent(k)
    BY DEF IInv
  <2>2. k \in redeemed => token[k].status # "absent" /\ token'[k].status = token[k].status
    BY <2>1 DEF Spent
  <2>3. SUFFICES ASSUME k \in redeemed, k \notin cut', token[k].status = "present",
                        token[k].of \notin met', ~token[k].used, ~token'[k].used
                 PROVE  \E s \in Requests : req'[s].at = "marking" /\ req'[s].token = k
    BY <2>2 DEF Spent
  <2>4. PICK s \in Requests : req[s].at = "marking" /\ req[s].token = k
    BY <2>1, <2>3 DEF Spent, Remember
  <2>5. QED
    BY <2>3, <2>4
<1>3. QED
  BY <1>1, <1>2, RememberNotices DEF IInv

LEMMA ForgotIInv ==
  ASSUME IInv, TypeOK', Remember, NEW r \in Requests, NEW u \in UserIds,
         NEW t \in Tokens, Forgot(r, u, t)
  PROVE  IInv'
<1>1. PICK c : c = [at |-> "mailing", by |-> u, id |-> u, token |-> t]
  OBVIOUS
<1>2. c.at = "mailing" /\ c.by = u /\ c.id = u /\ c.token = t
  BY <1>1
<1>3. PICK row : row = [status |-> "present", of |-> u, mailed |-> FALSE,
                        used |-> FALSE, expired |-> FALSE]
  OBVIOUS
<1>4. row.status = "present" /\ row.of = u
  BY <1>3
<1>5. /\ token' = [token EXCEPT ![t] = row] /\ token[t].status = "absent" /\ Present(u)
      /\ req' = [req EXCEPT ![r] = c] /\ req[r].at # "marking"
      /\ UNCHANGED <<user, authors, redeemed, cut>>
  BY <1>1, <1>3, Shapes DEF Forgot
<1>6. token'[t] = row /\ \A k \in Tokens : k # t => token'[k] = token[k]
  BY <1>5 DEF IInv, TypeOK
<1>7. UsersSound(c)'
  BY <1>2, <1>5 DEF UsersSound, ManageAts, Present
<1>8. TokensSound(c)'
  BY <1>2, <1>4, <1>6 DEF TokensSound
<1>9. req'[r] = c /\ \A s \in Requests : s # r => req'[s] = req[s]
  BY <1>5 DEF IInv, TypeOK
<1>10. \A s \in Requests : req'[s] = req[s] \/ (UsersSound(req[s])' /\ TokensSound(req[s])')
  BY <1>7, <1>8, <1>9
<1>11. \A k \in Tokens :
         /\ token[k].status # "absent" => token'[k].status = token[k].status
         /\ token[k].status = "present" =>
              token'[k].of = token[k].of /\ (token[k].used => token'[k].used)
         /\ Owned(k)'
  BY <1>4, <1>5, <1>6 DEF IInv, Owned, Present
<1>12. AuthorsStay'
  BY <1>5 DEF IInv, AuthorsStay, Present
<1>13. QED
  BY <1>5, <1>9, <1>10, <1>11, <1>12, UsersStayIInv

\* A step that ends request r and keeps what is known of the tokens.
LEMMA EndIInv ==
  ASSUME IInv, TypeOK', Remember, NEW r \in Requests,
         req' = [req EXCEPT ![r] = Idle],
         UNCHANGED <<user, authors, redeemed>>, cut \subseteq cut',
         \A k \in Tokens :
           /\ token'[k].status = token[k].status
           /\ token[k].status = "present" =>
                token'[k].of = token[k].of /\ (token[k].used => token'[k].used),
         req[r].at = "marking" => token'[req[r].token].used \/ req[r].token \in cut'
  PROVE  IInv'
<1>1. req'[r] = Idle /\ \A s \in Requests : s # r => req'[s] = req[s]
  BY DEF IInv, TypeOK
<1>2. UsersSound(Idle)' /\ TokensSound(Idle)'
  BY DEF UsersSound, TokensSound
<1>3. \A s \in Requests : req'[s] = req[s] \/ (UsersSound(req[s])' /\ TokensSound(req[s])')
  BY <1>1, <1>2
<1>4. \A k \in Tokens :
        /\ token[k].status # "absent" => token'[k].status = token[k].status
        /\ token[k].status = "present" =>
             token'[k].of = token[k].of /\ (token[k].used => token'[k].used)
        /\ Owned(k)'
  BY DEF IInv, Owned, Present
<1>5. AuthorsStay'
  BY DEF IInv, AuthorsStay, Present
<1>6. QED
  BY <1>1, <1>3, <1>4, <1>5, UsersStayIInv

LEMMA MailIInv ==
  ASSUME IInv, TypeOK', Remember, NEW r \in Requests, Mail(r)
  PROVE  IInv'
<1>1. PICK t \in Tokens : t = req[r].token
  BY RequestShape DEF Mail, IInv, Redeeming
<1>2. PICK row : row = IF token[t].status = "present"
                       THEN [token[t] EXCEPT !.mailed = TRUE] ELSE token[t]
  OBVIOUS
<1>3. /\ row.status = token[t].status
      /\ token[t].status = "present" => row.of = token[t].of /\ row.used = token[t].used
  BY <1>2, TokenShape DEF IInv, TokenRow
<1>4. token'[t] = row /\ \A k \in Tokens : k # t => token'[k] = token[k]
  BY <1>1, <1>2 DEF Mail, IInv, TypeOK
<1>5. QED
  BY <1>3, <1>4, EndIInv DEF Mail

LEMMA MarkUsedIInv ==
  ASSUME IInv, TypeOK', Remember, NEW r \in Requests, MarkUsed(r)
  PROVE  IInv'
<1>1. PICK t \in Tokens : t = req[r].token
  BY RequestShape DEF MarkUsed, IInv, Redeeming
<1>2. PICK row : row = [token[t] EXCEPT !.used = TRUE]
  OBVIOUS
<1>3. row.status = token[t].status /\ row.of = token[t].of /\ row.used
  BY <1>1, <1>2, TokenShape DEF IInv, TokenRow, MarkUsed
<1>4. token'[t] = row /\ \A k \in Tokens : k # t => token'[k] = token[k]
  BY <1>1, <1>2 DEF MarkUsed, IInv, TypeOK
<1>5. QED
  BY <1>1, <1>3, <1>4, EndIInv DEF MarkUsed

LEMMA AbandonIInv ==
  ASSUME IInv, TypeOK', Remember, NEW r \in Requests, Abandon(r)
  PROVE  IInv'
<1>1. cut \subseteq cut' /\ (req[r].at = "marking" => req[r].token \in cut')
  BY DEF Abandon
<1>2. QED
  BY <1>1, EndIInv DEF Abandon

LEMMA ExpireIInv ==
  ASSUME IInv, TypeOK', Remember, NEW t \in Tokens, Expire(t)
  PROVE  IInv'
<1>1. PICK row : row = [token[t] EXCEPT !.expired = TRUE]
  OBVIOUS
<1>2. row.status = token[t].status /\ row.of = token[t].of /\ row.used = token[t].used
  BY <1>1, TokenShape DEF IInv, TokenRow, Expire
<1>3. token'[t] = row /\ \A k \in Tokens : k # t => token'[k] = token[k]
  BY <1>1 DEF Expire, IInv, TypeOK
<1>4. \A k \in Tokens :
        /\ token[k].status # "absent" => token'[k].status = token[k].status
        /\ token[k].status = "present" =>
             token'[k].of = token[k].of /\ (token[k].used => token'[k].used)
        /\ Owned(k)'
  BY <1>2, <1>3 DEF IInv, Owned, Present, Expire
<1>5. AuthorsStay'
  BY DEF IInv, AuthorsStay, Present, Expire
<1>6. QED
  BY <1>4, <1>5, UsersStayIInv DEF Expire

LEMMA DocumentsIInv ==
  ASSUME IInv, TypeOK', Remember, NEW u \in UserIds, Documents(u)
  PROVE  IInv'
<1>1. \A k \in Tokens :
        /\ token[k].status # "absent" => token'[k].status = token[k].status
        /\ token[k].status = "present" =>
             token'[k].of = token[k].of /\ (token[k].used => token'[k].used)
        /\ Owned(k)'
  BY DEF IInv, Owned, Present, Documents
<1>2. AuthorsStay'
  BY DEF IInv, AuthorsStay, Present, Documents
<1>3. QED
  BY <1>1, <1>2, UsersStayIInv DEF Documents

LEMMA RemoveWriteIInv ==
  ASSUME IInv, TypeOK', Remember, NEW r \in Requests, RemoveWrite(r)
  PROVE  IInv'
<1>1. req[r] \in Managing /\ req[r] # Idle
  BY RequestShape, Shapes DEF RemoveWrite, IInv, ManageAts
<1>2. PICK x \in UserIds : x = req[r].id
  BY <1>1 DEF Managing
<1>3. /\ user'[x] = Deleted /\ \A u \in UserIds : u # x => user'[u] = user[u]
      /\ Present(x) /\ x \notin authors
  BY <1>2 DEF RemoveWrite, IInv, TypeOK
<1>4. ~Present(x)' /\ user'[x].status # "absent"
  BY <1>3, Shapes DEF Present
<1>5. /\ req' = [req EXCEPT ![r] = Idle] /\ req[r].at # "marking"
      /\ UNCHANGED <<authors, redeemed, cut>>
  BY DEF RemoveWrite
<1>6. req'[r] = Idle /\ \A s \in Requests : s # r => req'[s] = req[s]
  BY <1>5 DEF IInv, TypeOK
<1>7. \A k \in Tokens :
        token'[k] = IF token[k].status = "present" /\ token[k].of = x
                    THEN Deleted ELSE token[k]
  BY <1>2 DEF RemoveWrite
<1>8. \A k \in Tokens :
        /\ token[k].status # "absent" => token'[k].status # "absent"
        /\ token[k].status # "absent" /\ token'[k].status = "present" =>
             token[k].status = "present" /\ token'[k].of = token[k].of
        /\ token[k].status = "present" =>
             token'[k].status = "present" \/ (token[k].of = x /\ ~Present(x)')
  BY <1>4, <1>7, Shapes
<1>9. ASSUME NEW t \in Requests PROVE UsersSound(req[t])' /\ TokensSound(req[t])'
  <2>1. CASE t = r
    BY <1>6, <2>1 DEF UsersSound, TokensSound
  <2>2. CASE t # r
    <3>1. req'[t] = req[t]
      BY <1>6, <2>2
    <3>2. UsersSound(req[t])'
      BY <1>1, <1>2, <1>3, <1>4, <2>2, <3>1, OthersKeepUsers
    <3>3. TokensSound(req[t])'
      BY <1>1, <1>2, <1>3, <1>4, <1>5, <1>8, <2>2, <3>1, OthersKeepTokens
    <3>4. QED
      BY <3>2, <3>3
  <2>3. QED
    BY <2>1, <2>2
<1>10. ASSUME NEW k \in Tokens PROVE Spent(k)' /\ Owned(k)'
  <2>1. Spent(k) /\ Owned(k)
    BY DEF IInv
  <2>2. \A s \in Requests : req[s].at = "marking" => req'[s] = req[s]
    BY <1>5, <1>6
  <2>3. /\ token[k].status # "absent" => token'[k].status # "absent"
        /\ token'[k].status = "present" => token'[k] = token[k] /\ token[k].of # x
    BY <1>7, <1>8, Shapes
  <2>4. Spent(k)'
    BY <1>5, <2>1, <2>2, <2>3 DEF Spent, Remember
  <2>5. token'[k].status = "present" => token[k].of \in UserIds
    BY <2>3, TokenShape DEF IInv, TokenRow
  <2>6. Owned(k)'
    BY <1>3, <2>1, <2>3, <2>5 DEF Owned, Present
  <2>7. QED
    BY <2>4, <2>6
<1>11. AuthorsStay'
  BY <1>3, <1>5 DEF IInv, AuthorsStay, Present, TypeOK
<1>12. QED
  BY <1>9, <1>10, <1>11, RememberNotices DEF IInv

\* A second request with the same token has met this one on their user.
LEMMA RedeemWriteIInv ==
  ASSUME IInv, TypeOK', Remember, NEW r \in Requests, NEW password \in Passwords,
         RedeemWrite(r, password)
  PROVE  IInv'
<1>1. req[r] \in Redeeming /\ req[r] # Idle /\ UsersSound(req[r]) /\ TokensSound(req[r])
  BY RequestShape, Shapes DEF RedeemWrite, IInv
<1>2. PICK x \in UserIds, t \in Tokens : x = req[r].id /\ t = req[r].token
  BY <1>1 DEF Redeeming
<1>3. PICK row : row = [user[x] EXCEPT !.password = password]
  OBVIOUS
<1>4. row.status = "present" /\ row.workspace = user[x].workspace
  BY <1>2, <1>3, PasswordWriteRow DEF RedeemWrite
<1>5. /\ user'[x] = row /\ \A u \in UserIds : u # x => user'[u] = user[u]
      /\ Present(x) /\ Present(x)'
  BY <1>2, <1>3, <1>4 DEF RedeemWrite, IInv, TypeOK, Present
<1>6. PICK c : c = [req[r] EXCEPT !.at = "marking"]
  OBVIOUS
<1>7. c.at = "marking" /\ c.by = req[r].by /\ c.id = x /\ c.token = t
  BY <1>1, <1>2, <1>6 DEF Redeeming
<1>8. /\ req[r].at = "redeeming" /\ req' = [req EXCEPT ![r] = c]
      /\ redeemed' = redeemed \cup {t} /\ UNCHANGED <<authors, token, cut>>
  BY <1>2, <1>6 DEF RedeemWrite
<1>9. req'[r] = c /\ \A s \in Requests : s # r => req'[s] = req[s]
  BY <1>8 DEF IInv, TypeOK
<1>10. token[t].status = "present" /\ token[t].of = x
  BY <1>1, <1>2, <1>5, <1>8 DEF TokensSound
<1>11. user'[x].status # "absent" /\ user'[x].workspace = user[x].workspace
  BY <1>4, <1>5
<1>12. UsersSound(c)'
  <2>1. PICK y \in UserIds : y = req[r].by
    BY <1>1 DEF Redeeming
  <2>2. user'[y].status # "absent"
    BY <1>1, <1>5, <1>11, <2>1 DEF UsersSound
  <2>3. QED
    BY <1>7, <1>11, <2>1, <2>2 DEF UsersSound, ManageAts
<1>13. TokensSound(c)'
  BY <1>5, <1>7, <1>8, <1>10 DEF TokensSound
<1>14. \A k \in Tokens :
         /\ token[k].status # "absent" => token'[k].status # "absent"
         /\ token[k].status # "absent" /\ token'[k].status = "present" =>
              token[k].status = "present" /\ token'[k].of = token[k].of
         /\ token[k].status = "present" =>
              token'[k].status = "present" \/ (token[k].of = x /\ ~Present(x)')
  BY <1>8
<1>15. ASSUME NEW s \in Requests PROVE UsersSound(req[s])' /\ TokensSound(req[s])'
  <2>1. CASE s = r
    BY <1>9, <1>12, <1>13, <2>1
  <2>2. CASE s # r
    <3>1. req'[s] = req[s]
      BY <1>9, <2>2
    <3>2. UsersSound(req[s])'
      BY <1>1, <1>2, <1>5, <1>11, <2>2, <3>1, OthersKeepUsers
    <3>3. req[s].at = "redeeming" =>
            req[s].id \in met' \/ req[s].token \notin redeemed' \ redeemed
      <4> SUFFICES ASSUME req[s].at = "redeeming", req[s].token = t
                   PROVE  req[s].id \in met'
        BY <1>8
      <4>1. req[s] # Idle /\ TokensSound(req[s])
        BY Shapes DEF IInv
      <4>2. req[s].id = x
        BY <1>10, <4>1 DEF TokensSound
      <4>3. QED
        BY <1>1, <1>2, <2>2, <4>1, <4>2 DEF IInv, Noticed, About, Remember
    <3>4. TokensSound(req[s])'
      BY <1>1, <1>2, <1>5, <1>8, <1>14, <2>2, <3>1, <3>3, OthersKeepTokens
    <3>5. QED
      BY <3>2, <3>4
  <2>3. QED
    BY <2>1, <2>2
<1>16. ASSUME NEW k \in Tokens PROVE Spent(k)' /\ Owned(k)'
  <2>1. Spent(k) /\ Owned(k)
    BY DEF IInv
  <2>2. \A s \in Requests : req[s].at = "marking" => req'[s] = req[s]
    BY <1>8, <1>9
  <2>3. Spent(k)'
    BY <1>7, <1>8, <1>9, <1>10, <2>1, <2>2 DEF Spent, Remember
  <2>4. Owned(k)'
    BY <1>5, <1>8, <2>1, TokenShape DEF Owned, Present, IInv, TokenRow
  <2>5. QED
    BY <2>3, <2>4
<1>17. AuthorsStay'
  BY <1>5, <1>8 DEF IInv, AuthorsStay, Present, TypeOK
<1>18. QED
  BY <1>15, <1>16, <1>17, RememberNotices DEF IInv

\* Every step keeps IInv.
LEMMA StepIInv == IInv /\ [Next]_vars => IInv'
<1> SUFFICES ASSUME IInv, [Next]_vars PROVE IInv'
  OBVIOUS
<1>1. TypeOK'
  BY StepType DEF IInv
<1>2. CASE UNCHANGED vars
  BY <1>2 DEF vars, IInv, TypeOK, UsersSound, TokensSound, Spent, Owned, AuthorsStay,
              Noticed, About, Present, ActiveAdmin
<1>3. CASE Next
  <2>1. Remember
    BY <1>3 DEF Next
  <2>2. ASSUME NEW r \in Requests, ManageStep(r) PROVE IInv'
    BY <1>1, <2>1, <2>2, FindIInv, CreateIInv, UpdateWriteIInv, ResetWriteIInv,
       RemoveCountIInv, RemoveWriteIInv DEF ManageStep
  <2>3. ASSUME NEW r \in Requests, PasswordStep(r) PROVE IInv'
    BY <1>1, <2>1, <2>3, ChangeFindIInv, ChangeWriteIInv, ForgotIInv, MailIInv,
       RedeemFindIInv, RedeemWriteIInv, MarkUsedIInv DEF PasswordStep
  <2>4. ASSUME NEW r \in Requests, \E u \in UserIds : Admit(r, u) PROVE IInv'
    BY <1>1, <2>1, <2>4, AdmitIInv
  <2>5. ASSUME NEW r \in Requests, Abandon(r) PROVE IInv'
    BY <1>1, <2>1, <2>5, AbandonIInv
  <2>6. ASSUME NEW t \in Tokens, Expire(t) PROVE IInv'
    BY <1>1, <2>1, <2>6, ExpireIInv
  <2>7. ASSUME NEW u \in UserIds, Documents(u) PROVE IInv'
    BY <1>1, <2>1, <2>7, DocumentsIInv
  <2>8. QED
    BY <1>3, <2>2, <2>3, <2>4, <2>5, <2>6, <2>7 DEF Next
<1>4. QED
  BY <1>2, <1>3

LEMMA Invariance == Spec => []IInv
BY InitIInv, StepIInv, PTL DEF Spec

-----------------------------------------------------------------------------
(* The properties                                                           *)

\* The author of a document is never deleted (onDelete: Restrict).
THEOREM AuthorsAreKept == Spec => []AuthorsStay
<1>1. IInv => AuthorsStay
  BY DEF IInv
<1>2. QED
  BY <1>1, Invariance, PTL

LEMMA DeletedStay ==
  ASSUME IInv, [Next]_vars, NEW x \in UserIds, user[x] = Deleted
  PROVE  user'[x] = user[x]
<1>1. ~Present(x) /\ user[x] # Absent
  BY Shapes DEF Present
<1>2. ASSUME NEW r \in Requests, ManageStep(r) PROVE user'[x] = user[x]
  <2>1. CASE \E u \in UserIds : UpdateFind(r, u) \/ ResetFind(r, u) \/ RemoveFind(r, u)
    BY <2>1 DEF UpdateFind, ResetFind, RemoveFind, Found
  <2>2. CASE \E u \in UserIds, role \in Roles : Create(r, u, role)
    BY <1>1, <2>2 DEF Create, IInv, TypeOK
  <2>3. CASE \E given \in SUBSET {"role", "isActive"}, role \in Roles, isActive \in BOOLEAN :
               UpdateWrite(r, given, role, isActive)
    BY <1>1, <2>3 DEF UpdateWrite, IInv, TypeOK
  <2>4. CASE ResetWrite(r) \/ RemoveCount(r) \/ RemoveWrite(r)
    BY <1>1, <2>4 DEF ResetWrite, RemoveCount, RemoveWrite, IInv, TypeOK
  <2>5. QED
    BY <1>2, <2>1, <2>2, <2>3, <2>4 DEF ManageStep
<1>3. ASSUME NEW r \in Requests, PasswordStep(r) PROVE user'[x] = user[x]
  BY <1>1, <1>3 DEF PasswordStep, ChangeFind, ChangeWrite, RedeemWrite, Forgot, Mail,
                    RedeemFind, MarkUsed, IInv, TypeOK
<1>4. QED
  BY <1>2, <1>3 DEF Next, Admit, Abandon, Expire, Documents, vars

\* What an administrator's request writes to a row, it writes as an active
\* administrator of the row's workspace, unless it met another on the caller.
THEOREM RowsAreManagedByAdmins == Spec => ManagedByAdminsUnlessMet
<1>1. IInv /\ [Next]_vars =>
        (\A r \in Requests :
           /\ req[r] # Idle
           /\ req[r].at \in {"updating", "resetting", "deleting"}
           /\ req[r].by \notin met
           /\ user'[req[r].id] # user[req[r].id]
           => ActiveAdmin(req[r].by, user[req[r].id].workspace))
  <2> SUFFICES ASSUME IInv, [Next]_vars, NEW r \in Requests, req[r] # Idle,
                      req[r].at \in {"updating", "resetting", "deleting"},
                      req[r].by \notin met, user'[req[r].id] # user[req[r].id]
               PROVE  ActiveAdmin(req[r].by, user[req[r].id].workspace)
    OBVIOUS
  <2>1. UsersSound(req[r])
    BY DEF IInv
  <2>2. PICK x \in UserIds : x = req[r].id
    BY RequestShape DEF IInv
  <2>3. Present(x)
    BY <2>1, <2>2, DeletedStay, UserShape, Shapes DEF IInv, UsersSound
  <2>4. QED
    BY <2>1, <2>2, <2>3 DEF UsersSound, ManageAts
<1>2. QED
  BY <1>1, Invariance, PTL DEF Spec, ManagedByAdminsUnlessMet

\* The password that a change replaces is the one it verified, unless it met
\* another request on its user.
THEOREM VerifiedIsReplaced == Spec => VerifiedIsReplacedUnlessMet
<1>1. IInv /\ [Next]_vars =>
        (\A r \in Requests :
           /\ req[r] # Idle
           /\ req[r].at = "changing"
           /\ req[r].id \notin met
           /\ user'[req[r].id] # user[req[r].id]
           => user[req[r].id].password = req[r].current)
  BY DEF IInv, UsersSound
<1>2. QED
  BY <1>1, Invariance, PTL DEF Spec, VerifiedIsReplacedUnlessMet

\* A token sets a password once, unless requests meet on its user or one stops
\* between its two writes.
THEOREM TokensAreUsedOnce == Spec => OneUseUnlessCut
<1>1. IInv /\ [Next]_vars =>
        (\A t \in redeemed \ cut : \A r \in Requests :
           /\ req[r] # Idle
           /\ req[r].at = "redeeming" /\ req[r].token = t
           /\ user'[req[r].id] # user[req[r].id]
           => req[r].id \in met)
  BY DEF IInv, TokensSound
<1>2. QED
  BY <1>1, Invariance, PTL DEF Spec, OneUseUnlessCut

=============================================================================
