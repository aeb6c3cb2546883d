----------------------------- MODULE Client_proofs -----------------------------
(***************************************************************************)
(* Proofs about what a browser keeps, for any users, tabs, pages, versions *)
(* and bounds.                                                             *)
(* Session: what the tab in front shows once its refresh is answered is    *)
(* the user it acts as.                                                    *)
(* Company: a tab shows what it has saved; and the session is in it as it  *)
(* is alone.                                                               *)
(* ServiceWorker: a page opens without the network once there is a worker, *)
(* and one that loads undisturbed runs the script of its own version.      *)
(***************************************************************************)
EXTENDS Company, ServiceWorker, TLAPS

(***************************************************************************)
(* The session: its inductive invariant.                                   *)
(***************************************************************************)
(* A tab that has a token has asked for its profile. *)
TabsFit ==
  \A t \in Tabs : /\ tab[t].seen <= tab[t].sent
                  /\ tab[t].token # NoUser => tab[t].sent >= 1

CallsFit == \A c \in calls : c.n <= tab[c.tab].sent

(* The last refresh of the tab in front was asked for with the token that  *)
(* is still stored, and the account is no older than it was then.          *)
FrontFits ==
  tab[focused].token # NoUser /\ ~ tab[focused].behind =>
    /\ stored \in Users
    /\ account[stored].version >= tab[focused].asked
    /\ \A c \in calls : c.tab = focused /\ c.n = tab[focused].sent =>
         /\ c.as = stored
         /\ c.reply.is = "ok" => c.reply.version >= tab[focused].asked
    /\ tab[focused].seen = tab[focused].sent =>
         /\ tab[focused].profile.user = stored
         /\ tab[focused].profile.version >= tab[focused].asked

SInv == SessionTypeOK /\ TabsFit /\ CallsFit /\ FrontFits

(***************************************************************************)
(* The functions of AuthProvider.                                          *)
(***************************************************************************)
LEMMA SignedOutFits ==
  ASSUME NEW r \in TabStates
  PROVE  /\ SignedOut(r) \in TabStates
         /\ SignedOut(r).token = NoUser
         /\ SignedOut(r).sent = r.sent /\ SignedOut(r).seen = r.seen
  BY DEF SignedOut, TabStates, Profiles, NoProfile

LEMMA SignedInFits ==
  ASSUME NEW r \in TabStates, NEW u \in Users \cup {NoUser}
  PROVE  /\ SignedIn(r, u) \in TabStates
         /\ SignedIn(r, u).token = u
         /\ SignedIn(r, u).sent = r.sent /\ SignedIn(r, u).seen = r.seen
  BY DEF SignedIn, TabStates, Profiles, NoProfile

(* A refresh is asked for with the stored token, or ends the session. *)
LEMMA RefreshingFits ==
  ASSUME SessionTypeOK, NEW t \in Tabs, NEW r \in TabStates,
         NEW s \in Users \cup {NoUser}, s # NoUser => r.sent < MaxCalls
  PROVE  /\ Refreshing(r, s) \in TabStates
         /\ MeCall(t, r, s) \subseteq Calls
         /\ Refreshing(r, s).seen = r.seen
         /\ s = NoUser => /\ Refreshing(r, s).token = NoUser
                          /\ Refreshing(r, s).sent = r.sent
                          /\ MeCall(t, r, s) = {}
         /\ s # NoUser => /\ Refreshing(r, s).token = r.token
                          /\ Refreshing(r, s).sent = r.sent + 1
                          /\ Refreshing(r, s).asked = account[s].version
                          /\ ~ Refreshing(r, s).behind
                          /\ \A c \in MeCall(t, r, s) :
                               c.tab = t /\ c.n = r.sent + 1 /\ c.as = s /\ c.reply = Unanswered
<1>1. CASE s = NoUser
  <2>1. Refreshing(r, s) = SignedOut(r) /\ MeCall(t, r, s) = {}
    BY <1>1 DEF Refreshing, MeCall
  <2> QED BY <1>1, <2>1, SignedOutFits
<1>2. CASE s # NoUser
  <2>0. s \in Users /\ account[s].version \in 0 .. MaxVersion
    BY <1>2 DEF SessionTypeOK
  <2>1. r.sent \in 0 .. MaxCalls /\ r.sent + 1 \in 0 .. MaxCalls
    BY <1>2, BoundsAssumption DEF TabStates
  <2>2. Refreshing(r, s) = [r EXCEPT !.sent = r.sent + 1, !.asked = account[s].version,
                                     !.behind = FALSE]
    BY <1>2 DEF Refreshing
  <2>3. /\ Refreshing(r, s) \in TabStates
        /\ Refreshing(r, s).seen = r.seen
        /\ Refreshing(r, s).token = r.token
        /\ Refreshing(r, s).sent = r.sent + 1
        /\ Refreshing(r, s).asked = account[s].version
        /\ ~ Refreshing(r, s).behind
    BY <2>0, <2>1, <2>2 DEF TabStates
  <2>4. MeCall(t, r, s) = {[tab |-> t, n |-> r.sent + 1, as |-> s, reply |-> Unanswered]}
    BY <1>2 DEF MeCall
  <2>5. MeCall(t, r, s) \subseteq Calls
    BY <2>0, <2>1, <2>4 DEF Calls, Replies
  <2> QED BY <1>2, <2>3, <2>4, <2>5
<1> QED BY <1>1, <1>2

(***************************************************************************)
(* Steps.                                                                  *)
(***************************************************************************)
(* One tab, the one that is in front after it, refreshes. *)
LEMMA RefreshStep ==
  ASSUME SInv, NEW t \in Tabs, NEW r \in TabStates,
         NEW s \in Users \cup {NoUser}, s # NoUser => r.sent < MaxCalls,
         r.sent = tab[t].sent, r.seen = tab[t].seen,
         s # NoUser => r.token \in Users,
         focused' = t, stored' = s, account' = account,
         tab' \in [Tabs -> TabStates], tab'[t] = Refreshing(r, s),
         \A x \in Tabs \ {t} : /\ tab'[x].token = tab[x].token
                               /\ tab'[x].sent = tab[x].sent
                               /\ tab'[x].seen = tab[x].seen,
         NEW old \in SUBSET calls,
         calls' = old \cup MeCall(t, r, s)
  PROVE  SInv'
<1> USE DEF SInv
<1>1. /\ Refreshing(r, s) \in TabStates
      /\ MeCall(t, r, s) \subseteq Calls
      /\ Refreshing(r, s).seen = r.seen
      /\ s = NoUser => /\ Refreshing(r, s).token = NoUser
                       /\ Refreshing(r, s).sent = r.sent
                       /\ MeCall(t, r, s) = {}
      /\ s # NoUser => /\ Refreshing(r, s).token = r.token
                       /\ Refreshing(r, s).sent = r.sent + 1
                       /\ Refreshing(r, s).asked = account[s].version
                       /\ ~ Refreshing(r, s).behind
                       /\ \A c \in MeCall(t, r, s) :
                            c.tab = t /\ c.n = r.sent + 1 /\ c.as = s /\ c.reply = Unanswered
  BY RefreshingFits
<1>2. SessionTypeOK'
  BY <1>1 DEF SessionTypeOK
<1>3. /\ r.sent \in Nat /\ r.seen \in Nat /\ r.seen <= r.sent
      /\ \A x \in Tabs : tab[x].sent \in Nat /\ tab[x].seen \in Nat
  BY BoundsAssumption DEF SessionTypeOK, TabStates, TabsFit
<1>4. TabsFit'
  <2>1. tab'[t].seen <= tab'[t].sent /\ (tab'[t].token # NoUser => tab'[t].sent >= 1)
    BY <1>1, <1>3 DEF TabsFit
  <2> QED BY <2>1 DEF TabsFit
<1>5. \A c \in old : c.n \in Nat /\ c.tab \in Tabs /\ c.n <= tab[c.tab].sent
  BY BoundsAssumption DEF SessionTypeOK, Calls, CallsFit
<1>6. CallsFit'
  <2>1. ASSUME NEW c \in old PROVE c.n <= tab'[c.tab].sent
    <3>1. CASE c.tab = t
      BY <1>1, <1>3, <1>5, <2>1, <3>1
    <3>2. CASE c.tab # t
      BY <1>5, <2>1, <3>2
    <3> QED BY <3>1, <3>2
  <2>2. ASSUME NEW c \in MeCall(t, r, s) PROVE c.n <= tab'[c.tab].sent
    BY <1>1, <1>3, <2>2
  <2> QED BY <2>1, <2>2 DEF CallsFit
<1>7. FrontFits'
  <2>1. CASE s = NoUser
    BY <1>1, <2>1 DEF FrontFits
  <2>2. CASE s # NoUser
    <3>1. stored' \in Users /\ account'[stored'].version = tab'[focused'].asked
      BY <1>1, <2>2
    <3>2. account'[stored'].version \in Nat
      BY <3>1, BoundsAssumption DEF SessionTypeOK
    <3>3. \A c \in old : ~ (c.tab = t /\ c.n = tab'[t].sent)
      BY <1>1, <1>3, <1>5, <2>2
    <3>4. \A c \in MeCall(t, r, s) : c.as = stored' /\ c.reply.is # "ok"
      BY <1>1, <2>2 DEF Unanswered
    <3>5. tab'[t].seen # tab'[t].sent
      BY <1>1, <1>3, <2>2
    <3> QED BY <3>1, <3>2, <3>3, <3>4, <3>5 DEF FrontFits
  <2> QED BY <2>1, <2>2
<1> QED BY <1>2, <1>4, <1>6, <1>7

(* A step that leaves the tab in front as it is, or behind. *)
LEMMA FrontKept ==
  ASSUME SInv, focused' = focused, account' = account,
         /\ tab'[focused].token = tab[focused].token
         /\ tab'[focused].profile = tab[focused].profile
         /\ tab'[focused].sent = tab[focused].sent
         /\ tab'[focused].seen = tab[focused].seen
         /\ tab'[focused].asked = tab[focused].asked,
         ~ tab'[focused].behind => ~ tab[focused].behind /\ stored' = stored,
         \A c \in calls' : c \in calls \/ c.tab # focused
  PROVE  FrontFits'
  BY DEF SInv, FrontFits

LEMMA StepSubmit ==
  ASSUME SInv, NEW u \in Users, Submit(u)
  PROVE  SInv'
<1> USE DEF SInv
<1> DEFINE c == [tab |-> focused, n |-> 0, as |-> u, reply |-> Unanswered]
<1>1. c \in Calls /\ c.n = 0 /\ c.tab = focused
  BY BoundsAssumption DEF Calls, Replies, SessionTypeOK
<1>2. /\ calls' = calls \cup {c} /\ tab[focused].token = NoUser
      /\ UNCHANGED <<account, stored, focused, tab>>
  BY DEF Submit
<1> HIDE DEF c
<1>3. SessionTypeOK' /\ TabsFit'
  BY <1>1, <1>2 DEF SessionTypeOK, TabsFit
<1>4. CallsFit'
  BY <1>1, <1>2, BoundsAssumption DEF CallsFit, SessionTypeOK, TabStates
<1>5. FrontFits'
  BY <1>2 DEF FrontFits
<1> QED BY <1>3, <1>4, <1>5

LEMMA StepChangeAccount ==
  ASSUME SInv, NEW u \in Users, ChangeAccount(u)
  PROVE  SInv'
<1> USE DEF SInv
<1>1. PICK a \in BOOLEAN :
        account' = [account EXCEPT ![u] = [active |-> a, version |-> account[u].version + 1]]
  BY DEF ChangeAccount
<1>2. account[u].version \in 0 .. MaxVersion /\ account[u].version + 1 \in 0 .. MaxVersion
  BY BoundsAssumption DEF ChangeAccount, SessionTypeOK
<1>3. /\ account' \in [Users -> [active : BOOLEAN, version : 0 .. MaxVersion]]
      /\ \A x \in Users : account[x].version \in Nat /\ account'[x].version >= account[x].version
  BY <1>1, <1>2, BoundsAssumption DEF SessionTypeOK
<1>4. UNCHANGED <<stored, focused, tab, calls>>
  BY DEF ChangeAccount
<1>5. SessionTypeOK' /\ TabsFit' /\ CallsFit'
  BY <1>3, <1>4 DEF SessionTypeOK, TabsFit, CallsFit
<1>7. FrontFits'
  <2> SUFFICES ASSUME tab[focused].token # NoUser, ~ tab[focused].behind
               PROVE  FrontFits'
    BY <1>4 DEF FrontFits
  <2>1. /\ stored \in Users /\ account[stored].version >= tab[focused].asked
        /\ tab[focused].asked \in Nat /\ account[stored].version \in Nat
        /\ account'[stored].version \in Nat
        /\ account'[stored].version >= account[stored].version
    BY <1>3, BoundsAssumption DEF FrontFits, SessionTypeOK, TabStates
  <2>2. account'[stored].version >= tab[focused].asked
    BY <2>1
  <2> QED BY <1>4, <2>1, <2>2 DEF FrontFits
<1> QED BY <1>5, <1>7

LEMMA StepLogout ==
  ASSUME SInv, Logout
  PROVE  SInv'
<1> USE DEF SInv
<1> DEFINE r == SignedOut(tab[focused])
<1>0. focused \in Tabs /\ tab[focused] \in TabStates
  BY DEF SessionTypeOK
<1>1. r \in TabStates /\ r.token = NoUser /\ r.sent = tab[focused].sent /\ r.seen = tab[focused].seen
  BY <1>0, SignedOutFits
<1> HIDE DEF r
<1>2. /\ UNCHANGED <<account, focused, calls>> /\ stored' = NoUser
      /\ tab' = [x \in Tabs |-> IF x = focused THEN r
                                ELSE [tab[x] EXCEPT !.behind = tab[x].behind \/ (x = focused /\ NoUser # stored)]]
  BY DEF Logout, Stores, r
<1>3. \A x \in Tabs : /\ tab'[x] \in TabStates
                      /\ tab'[x].sent = tab[x].sent /\ tab'[x].seen = tab[x].seen
                      /\ tab'[x].token \in {tab[x].token, NoUser}
  BY <1>1, <1>2 DEF SessionTypeOK, TabStates
<1>4. SessionTypeOK' /\ TabsFit'
  BY <1>2, <1>3 DEF SessionTypeOK, TabsFit
<1>5. CallsFit'
  BY <1>2, <1>3 DEF CallsFit, SessionTypeOK, Calls
<1>6. FrontFits'
  BY <1>0, <1>1, <1>2 DEF FrontFits
<1> QED BY <1>4, <1>5, <1>6

LEMMA StepFocus ==
  ASSUME SInv, NEW t \in Tabs, Focus(t)
  PROVE  SInv'
<1>1. CASE tab[t].token = NoUser
  BY <1>1 DEF Focus, SInv, SessionTypeOK, TabsFit, CallsFit, FrontFits
<1>2. CASE tab[t].token # NoUser
  <2>1. /\ tab[t] \in TabStates /\ stored \in Users \cup {NoUser}
        /\ tab[t].token \in Users
        /\ tab[t].sent < MaxCalls
    BY <1>2, BoundsAssumption DEF SInv, SessionTypeOK, TabStates, Focus, MayCall
  <2>2. /\ focused' = t /\ stored' = stored /\ account' = account
        /\ tab' = [tab EXCEPT ![t] = Refreshing(tab[t], stored)]
        /\ calls' = calls \cup MeCall(t, tab[t], stored)
    BY <1>2 DEF Focus
  <2>3. Refreshing(tab[t], stored) \in TabStates
    BY <2>1, RefreshingFits DEF SInv
  <2>4. /\ tab' \in [Tabs -> TabStates] /\ tab'[t] = Refreshing(tab[t], stored)
        /\ \A x \in Tabs \ {t} : /\ tab'[x].token = tab[x].token
                                  /\ tab'[x].sent = tab[x].sent
                                  /\ tab'[x].seen = tab[x].seen
    BY <2>2, <2>3 DEF SInv, SessionTypeOK
  <2> QED BY <2>1, <2>2, <2>4, RefreshStep
<1> QED BY <1>1, <1>2

LEMMA StepReload ==
  ASSUME SInv, Reload
  PROVE  SInv'
<1> DEFINE r == [tab[focused] EXCEPT !.token = stored, !.profile = NoProfile]
           old == {c \in calls : c.tab # focused}
<1>1. /\ focused \in Tabs /\ stored \in Users \cup {NoUser} /\ tab[focused] \in TabStates
      /\ r \in TabStates /\ r.token = stored
      /\ r.sent = tab[focused].sent /\ r.seen = tab[focused].seen
  BY DEF SInv, SessionTypeOK, TabStates, Profiles
<1>2. stored # NoUser => r.sent < MaxCalls
  BY <1>1 DEF Reload, MayCall
<1>3. /\ focused' = focused /\ stored' = stored /\ account' = account
      /\ tab' = [tab EXCEPT ![focused] = Refreshing(r, stored)]
      /\ calls' = old \cup MeCall(focused, r, stored)
  BY DEF Reload
<1> HIDE DEF r
<1>4. Refreshing(r, stored) \in TabStates
  BY <1>1, <1>2, RefreshingFits DEF SInv
<1>5. /\ tab' \in [Tabs -> TabStates] /\ tab'[focused] = Refreshing(r, stored)
      /\ \A x \in Tabs \ {focused} : /\ tab'[x].token = tab[x].token
                                      /\ tab'[x].sent = tab[x].sent
                                      /\ tab'[x].seen = tab[x].seen
  BY <1>1, <1>3, <1>4 DEF SInv, SessionTypeOK
<1>6. old \in SUBSET calls /\ (stored # NoUser => r.token \in Users)
  BY <1>1
<1> HIDE DEF old
<1> QED BY <1>1, <1>2, <1>3, <1>5, <1>6, RefreshStep

(* The reply is of the account as it is, no older than when it was asked. *)
LEMMA StepServe ==
  ASSUME SInv, NEW c \in calls, Serve(c)
  PROVE  SInv'
<1> USE DEF SInv
<1>1. PICK reply : reply = IF c.n = 0 \/ account[c.as].active
                           THEN [is |-> "ok", version |-> account[c.as].version] ELSE Refused
  OBVIOUS
<1>2. /\ c \in Calls /\ account[c.as].version \in 0 .. MaxVersion
      /\ account[c.as].version \in Nat
  BY BoundsAssumption DEF SessionTypeOK, Calls
<1>3. reply \in Replies /\ (reply.is = "ok" => reply.version = account[c.as].version)
  BY <1>1, <1>2 DEF Replies, Refused
<1>4. PICK d : d = [c EXCEPT !.reply = reply]
  OBVIOUS
<1>5. d \in Calls /\ d.tab = c.tab /\ d.n = c.n /\ d.as = c.as /\ d.reply = reply
  BY <1>2, <1>3, <1>4 DEF Calls
<1>6. /\ UNCHANGED <<account, stored, focused, tab>>
      /\ calls' = (calls \ {c}) \cup {d}
  BY <1>1, <1>4 DEF Serve
<1>7. SessionTypeOK' /\ TabsFit' /\ CallsFit'
  BY <1>5, <1>6 DEF SessionTypeOK, TabsFit, CallsFit
<1>8. FrontFits'
  BY <1>3, <1>5, <1>6 DEF FrontFits
<1> QED BY <1>7, <1>8

LEMMA StepFails ==
  ASSUME SInv, NEW c \in calls, Fails(c)
  PROVE  SInv'
<1>1. calls' \subseteq calls /\ UNCHANGED <<account, stored, focused, tab>>
  BY DEF Fails
<1> QED BY <1>1 DEF SInv, SessionTypeOK, TabsFit, CallsFit, FrontFits

LEMMA StepProfileArrives ==
  ASSUME SInv, NEW c \in calls, ProfileArrives(c)
  PROVE  SInv'
<1> USE DEF SInv
<1> DEFINE profile == [user |-> c.as, version |-> c.reply.version]
           r == [tab[c.tab] EXCEPT !.profile = profile, !.seen = c.n]
<1>1. c \in Calls /\ c.reply \in Replies /\ c.reply.is = "ok" /\ tab[c.tab] \in TabStates
  BY DEF ProfileArrives, SessionTypeOK, Calls
<1>2. profile \in Profiles /\ profile.user = c.as /\ profile.version = c.reply.version
  BY <1>1 DEF Profiles, Calls, Replies, Unanswered, Refused
<1> HIDE DEF profile
<1>3. /\ r \in TabStates /\ r.token = tab[c.tab].token /\ r.sent = tab[c.tab].sent
      /\ r.seen = c.n /\ r.profile = profile /\ r.asked = tab[c.tab].asked
      /\ r.behind = tab[c.tab].behind
  BY <1>1, <1>2 DEF TabStates, Calls
<1>4. /\ UNCHANGED <<account, stored, focused>> /\ calls' \subseteq calls
      /\ tab' = [tab EXCEPT ![c.tab] = r]
  BY DEF ProfileArrives, profile
<1> HIDE DEF r
<1>5. c.tab \in Tabs /\ c.n <= tab[c.tab].sent
  BY <1>1 DEF Calls, CallsFit
<1>6. SessionTypeOK' /\ TabsFit' /\ CallsFit'
  BY <1>3, <1>4, <1>5 DEF SessionTypeOK, TabsFit, CallsFit
<1>7. CASE c.tab # focused
  <2>1. tab'[focused] = tab[focused]
    BY <1>4, <1>7 DEF SessionTypeOK
  <2>2. FrontFits'
    BY <1>4, <2>1 DEF FrontFits
  <2> QED BY <1>6, <2>2
<1>8. CASE c.tab = focused
  <2>1. tab'[focused] = r
    BY <1>4, <1>8 DEF SessionTypeOK
  <2>2. FrontFits'
    BY <1>1, <1>2, <1>3, <1>4, <1>8, <2>1 DEF FrontFits
  <2> QED BY <1>6, <2>2
<1> QED BY <1>7, <1>8

(* What Stores does to the other tabs. *)
LEMMA StoresFits ==
  ASSUME SInv, NEW t \in Tabs, NEW s \in Users \cup {NoUser}, NEW r \in TabStates,
         Stores(t, s, r)
  PROVE  /\ stored' = s /\ tab' \in [Tabs -> TabStates] /\ tab'[t] = r
         /\ \A x \in Tabs \ {t} :
              /\ tab'[x].token = tab[x].token /\ tab'[x].profile = tab[x].profile
              /\ tab'[x].sent = tab[x].sent /\ tab'[x].seen = tab[x].seen
              /\ tab'[x].asked = tab[x].asked
              /\ x = focused /\ ~ tab'[x].behind => ~ tab[x].behind /\ s = stored
<1>1. /\ stored' = s
      /\ tab' = [x \in Tabs |->
           IF x = t THEN r
           ELSE [tab[x] EXCEPT !.behind = tab[x].behind \/ (x = focused /\ s # stored)]]
  BY DEF Stores
<1>2. \A x \in Tabs : tab[x] \in TabStates
  BY DEF SInv, SessionTypeOK
<1>3. ASSUME NEW x \in Tabs, x # t
      PROVE  /\ tab'[x] \in TabStates
             /\ tab'[x].token = tab[x].token /\ tab'[x].profile = tab[x].profile
             /\ tab'[x].sent = tab[x].sent /\ tab'[x].seen = tab[x].seen
             /\ tab'[x].asked = tab[x].asked
             /\ tab'[x].behind = (tab[x].behind \/ (x = focused /\ s # stored))
  <2>1. PICK b \in BOOLEAN : b = (tab[x].behind \/ (x = focused /\ s # stored))
    BY <1>2 DEF TabStates
  <2>2. tab'[x] = [tab[x] EXCEPT !.behind = b]
    BY <1>1, <1>3, <2>1
  <2>3. tab[x] \in TabStates
    BY <1>2
  <2> QED BY <2>1, <2>2, <2>3 DEF TabStates
<1>4. tab'[t] = r
  BY <1>1
<1>5. tab' \in [Tabs -> TabStates]
  BY <1>1, <1>3, <1>4
<1> QED BY <1>1, <1>3, <1>4, <1>5

LEMMA StepRefusalArrives ==
  ASSUME SInv, NEW c \in calls, RefusalArrives(c)
  PROVE  SInv'
<1> USE DEF SInv
<1> DEFINE r == [SignedOut(tab[c.tab]) EXCEPT !.seen = c.n]
<1>1. c \in Calls /\ c.tab \in Tabs /\ tab[c.tab] \in TabStates /\ c.n <= tab[c.tab].sent
  BY DEF SessionTypeOK, Calls, CallsFit
<1>2. /\ r \in TabStates /\ r.token = NoUser /\ r.sent = tab[c.tab].sent /\ r.seen = c.n
  BY <1>1, SignedOutFits DEF TabStates, Calls
<1>3. /\ Stores(c.tab, NoUser, r) /\ calls' \subseteq calls
      /\ UNCHANGED <<account, focused>>
  BY DEF RefusalArrives
<1> HIDE DEF r, SInv
<1>4. /\ stored' = NoUser /\ tab' \in [Tabs -> TabStates] /\ tab'[c.tab] = r
      /\ \A x \in Tabs \ {c.tab} :
           /\ tab'[x].token = tab[x].token /\ tab'[x].profile = tab[x].profile
           /\ tab'[x].sent = tab[x].sent /\ tab'[x].seen = tab[x].seen
           /\ tab'[x].asked = tab[x].asked
           /\ x = focused /\ ~ tab'[x].behind => ~ tab[x].behind /\ NoUser = stored
  <2>1. PICK s \in Users \cup {NoUser} : s = NoUser
    OBVIOUS
  <2>2. Stores(c.tab, s, r)
    BY <1>3, <2>1
  <2>3. /\ stored' = s /\ tab' \in [Tabs -> TabStates] /\ tab'[c.tab] = r
        /\ \A x \in Tabs \ {c.tab} :
             /\ tab'[x].token = tab[x].token /\ tab'[x].profile = tab[x].profile
             /\ tab'[x].sent = tab[x].sent /\ tab'[x].seen = tab[x].seen
             /\ tab'[x].asked = tab[x].asked
             /\ x = focused /\ ~ tab'[x].behind => ~ tab[x].behind /\ s = stored
    BY <1>1, <1>2, <2>2, StoresFits
  <2> QED BY <2>1, <2>3
<1>5. SessionTypeOK'
  BY <1>3, <1>4 DEF SInv, SessionTypeOK
<1>6. TabsFit'
  BY <1>1, <1>2, <1>4 DEF SInv, TabsFit
<1>7. CallsFit'
  <2>1. \A d \in calls : d.tab \in Tabs /\ tab'[d.tab].sent = tab[d.tab].sent
    BY <1>2, <1>4 DEF SInv, SessionTypeOK, Calls
  <2> QED BY <1>3, <2>1 DEF SInv, CallsFit
<1>8. focused \in Tabs
  BY DEF SInv, SessionTypeOK
<1>9. FrontFits'
  <2>1. CASE c.tab = focused
    BY <1>2, <1>3, <1>4, <2>1 DEF FrontFits
  <2>2. CASE c.tab # focused
    BY <1>3, <1>4, <1>8, <2>2, FrontKept
  <2> QED BY <2>1, <2>2
<1> QED BY <1>5, <1>6, <1>7, <1>9 DEF SInv

LEMMA StepLoginArrives ==
  ASSUME SInv, NEW c \in calls, LoginArrives(c)
  PROVE  SInv'
<1> DEFINE r == SignedIn(tab[c.tab], c.as)
           new == Refreshing(r, c.as)
           me == MeCall(c.tab, r, c.as)
           old == calls \ {c}
<1>1. /\ c.tab \in Tabs /\ c.as \in Users /\ tab[c.tab] \in TabStates
      /\ focused \in Tabs /\ c.as # NoUser
  BY NoUserAssumption DEF SInv, SessionTypeOK, Calls
<1>2. r \in TabStates /\ r.token = c.as /\ r.sent = tab[c.tab].sent /\ r.seen = tab[c.tab].seen
  BY <1>1, SignedInFits
<1>3. r.sent < MaxCalls
  BY <1>2 DEF LoginArrives, MayCall
<1>4. /\ Stores(c.tab, c.as, new) /\ calls' = old \cup me
      /\ UNCHANGED <<account, focused>>
  BY DEF LoginArrives
<1> HIDE DEF r
<1>5. /\ new \in TabStates /\ me \subseteq Calls
      /\ new.seen = r.seen /\ new.token = c.as /\ new.sent = r.sent + 1
      /\ \A d \in me : d.tab = c.tab /\ d.n = r.sent + 1
  BY <1>1, <1>2, <1>3, RefreshingFits DEF SInv
<1>6. /\ stored' = c.as /\ tab' \in [Tabs -> TabStates] /\ tab'[c.tab] = new
      /\ \A x \in Tabs \ {c.tab} :
           /\ tab'[x].token = tab[x].token /\ tab'[x].profile = tab[x].profile
           /\ tab'[x].sent = tab[x].sent /\ tab'[x].seen = tab[x].seen
           /\ tab'[x].asked = tab[x].asked
           /\ x = focused /\ ~ tab'[x].behind => ~ tab[x].behind /\ c.as = stored
  BY <1>1, <1>4, <1>5, StoresFits
<1>7. CASE c.tab = focused
  <2>1. old \in SUBSET calls /\ focused' = focused /\ account' = account
    BY <1>4
  <2> HIDE DEF old
  <2> QED BY <1>1, <1>2, <1>3, <1>4, <1>6, <1>7, <2>1, RefreshStep
<1>8. CASE c.tab # focused
  <2>1. SessionTypeOK'
    BY <1>1, <1>4, <1>5, <1>6 DEF SInv, SessionTypeOK
  <2>2. \A x \in Tabs : tab[x].sent \in Nat /\ tab[x].seen \in Nat
    BY BoundsAssumption DEF SInv, SessionTypeOK, TabStates
  <2>3. TabsFit'
    <3>1. ASSUME NEW x \in Tabs
          PROVE  tab'[x].seen <= tab'[x].sent /\ (tab'[x].token # NoUser => tab'[x].sent >= 1)
      <4>1. CASE x = c.tab
        BY <1>2, <1>5, <1>6, <2>2, <4>1 DEF SInv, TabsFit
      <4>2. CASE x # c.tab
        BY <1>6, <4>2 DEF SInv, TabsFit
      <4> QED BY <4>1, <4>2
    <3> QED BY <3>1 DEF TabsFit
  <2>4. CallsFit'
    <3>1. ASSUME NEW d \in old PROVE d.n <= tab'[d.tab].sent
      <4>1. d.tab \in Tabs /\ d.n \in Nat /\ d.n <= tab[d.tab].sent
        BY BoundsAssumption DEF SInv, SessionTypeOK, Calls, CallsFit
      <4>2. CASE d.tab = c.tab
        BY <1>2, <1>5, <1>6, <2>2, <4>1, <4>2
      <4>3. CASE d.tab # c.tab
        BY <1>6, <4>1, <4>3
      <4> QED BY <4>2, <4>3
    <3>2. ASSUME NEW d \in me PROVE d.n <= tab'[d.tab].sent
      <4>1. d.tab = c.tab /\ d.n = r.sent + 1
        BY <1>5
      <4>2. tab'[c.tab].sent = r.sent + 1 /\ r.sent \in Nat
        BY <1>1, <1>2, <1>5, <1>6, <2>2
      <4> QED BY <4>1, <4>2
    <3> QED BY <1>4, <3>1, <3>2 DEF CallsFit
  <2>5. \A d \in calls' : d \in calls \/ d.tab # focused
    BY <1>4, <1>5, <1>8
  <2>6. FrontFits'
    BY <1>1, <1>4, <1>6, <1>8, <2>5, FrontKept
  <2> QED BY <2>1, <2>3, <2>4, <2>6 DEF SInv
<1> QED BY <1>7, <1>8

LEMMA StepSInv ==
  ASSUME SInv, [SessionNext]_sessionVars
  PROVE  SInv'
<1>1. CASE UNCHANGED sessionVars
  BY <1>1 DEF sessionVars, SInv, SessionTypeOK, TabsFit, CallsFit, FrontFits
<1>2. CASE \E u \in Users : Submit(u) \/ ChangeAccount(u)
  BY <1>2, StepSubmit, StepChangeAccount
<1>3. CASE Logout \/ Reload
  BY <1>3, StepLogout, StepReload
<1>4. CASE \E t \in Tabs : Focus(t)
  BY <1>4, StepFocus
<1>5. CASE \E c \in calls : Serve(c) \/ Fails(c)
  BY <1>5, StepServe, StepFails
<1>6. CASE \E c \in calls : LoginArrives(c) \/ ProfileArrives(c) \/ RefusalArrives(c)
  BY <1>6, StepLoginArrives, StepProfileArrives, StepRefusalArrives
<1> QED BY <1>1, <1>2, <1>3, <1>4, <1>5, <1>6 DEF SessionNext, Step

LEMMA InitSInv == SessionInit => SInv
<1> SUFFICES ASSUME SessionInit PROVE SInv
  OBVIOUS
<1>1. \A t \in Tabs : tab[t] = [token |-> NoUser, profile |-> NoProfile, sent |-> 0,
                               seen |-> 0, asked |-> 0, behind |-> FALSE]
  BY DEF SessionInit
<1>2. SessionTypeOK
  BY BoundsAssumption DEF SessionInit, SessionTypeOK, TabStates, Profiles
<1>3. TabsFit /\ CallsFit /\ FrontFits
  BY <1>1 DEF SessionInit, TabsFit, CallsFit, FrontFits
<1> QED BY <1>2, <1>3 DEF SInv

LEMMA SessionInvariance == SessionSpec => []SInv
<1>1. SInv /\ [SessionNext]_sessionVars => SInv'
  BY StepSInv
<1> QED BY <1>1, InitSInv, PTL DEF SessionSpec

(***************************************************************************)
(* Theorems.                                                               *)
(***************************************************************************)
(* Every reachable state of Session is well typed. *)
THEOREM SessionTypeCorrect == SessionSpec => []SessionTypeOK
<1>1. SInv => SessionTypeOK
  BY DEF SInv
<1> QED BY <1>1, SessionInvariance, PTL

(* The profile the tab in front shows after its refresh is of the user     *)
(* whose token it sends, and no older than when the refresh was asked for. *)
THEOREM FrontTabIsLive == SessionSpec => []ShownIsLive
<1>1. SInv => ShownIsLive
  BY NoUserAssumption DEF SInv, FrontFits, ShownIsLive
<1> QED BY <1>1, SessionInvariance, PTL

(***************************************************************************)
(* The company: its inductive invariant.                                   *)
(***************************************************************************)
(* A copy is of what the row was at some time. *)
InRow(copy) == copy # NoCopy => copy.version <= row[copy.workspace]

ClientFits(r) ==
  /\ InRow(r.saved) /\ InRow(r.since)
  /\ ~ r.crossed => NotOlder(r.cached, r.saved) /\ NotOlder(r.shown, r.since)

(* A get that is answered was sent after the last save was: else the save  *)
(* would have crossed it.                                                  *)
RequestFits(c, r) ==
  /\ InRow(c.reply)
  /\ c.kind = "get" /\ c.at = "answered" /\ c.of # "nobody" /\ ~ r.crossed
       => NotOlder(c.reply, r.saved) /\ NotOlder(c.reply, r.since)

ClientsFit == \A t \in Tabs : ClientFits(client[t])

RequestsFit == \A c \in requests : RequestFits(c, client[c.tab])

CInv == CompanyTypeOK /\ ClientsFit /\ RequestsFit

(***************************************************************************)
(* Lemmas.                                                                 *)
(***************************************************************************)
LEMMA NoCopyFits ==
  /\ NoCopy \in Copies /\ InRow(NoCopy)
  /\ \A copy \in Copies : NotOlder(NoCopy, copy)
  BY DEF Copies, NoCopy, InRow, NotOlder, Workspaces

(* The request about the company that a tab sends. *)
LEMMA RequestIsGood ==
  ASSUME NEW t \in Tabs, NEW kind \in {"get", "save"}, NEW r \in Clients,
         stored \in Users, NEW x \in Clients
  PROVE  \A c \in Request(t, kind, r) :
           /\ c \in Requests /\ c.tab = t /\ c.kind = kind /\ RequestFits(c, x)
           /\ c.at = "sent"
<1>1. Request(t, kind, r) =
        {[tab |-> t, id |-> r.next, kind |-> kind, as |-> stored, at |-> "sent",
          reply |-> NoCopy, of |-> "page"]}
  BY DEF Request
<1>2. r.next \in Nat
  BY DEF Clients
<1> QED BY <1>1, <1>2, NoCopyFits DEF Requests, RequestFits

LEMMA GetsAreGood ==
  ASSUME SessionTypeOK, NEW t \in Tabs, NEW r \in Clients, NEW x \in Clients
  PROVE  \A c \in Gets(t, r) :
           c \in Requests /\ c.tab = t /\ c.kind = "get" /\ RequestFits(c, x)
<1>1. CASE MustAsk(r)
  <2>1. stored \in Users
    BY <1>1 DEF MustAsk, SessionTypeOK
  <2> QED BY <1>1, <2>1, RequestIsGood DEF Gets
<1>2. CASE ~ MustAsk(r)
  BY <1>2 DEF Gets
<1> QED BY <1>1, <1>2

(* loadCompany shows at most the copy there is. *)
LEMMA LoadingFits ==
  ASSUME NEW r \in Clients
  PROVE  /\ Loading(r) \in Clients
         /\ Loading(r).saved = r.saved /\ Loading(r).since = r.since
         /\ Loading(r).crossed = r.crossed /\ Loading(r).cached = r.cached
         /\ Loading(r).shown \in {r.shown, r.cached}
<1>1. CASE r.cached # NoCopy
  <2>1. Loading(r) = [r EXCEPT !.shown = r.cached]
    BY <1>1 DEF Loading
  <2> QED BY <2>1 DEF Clients
<1>2. CASE r.cached = NoCopy /\ r.inflight # 0
  <2>1. Loading(r) = [r EXCEPT !.waits = r.waits \cup {r.inflight}]
    BY <1>2 DEF Loading
  <2>2. r.waits \cup {r.inflight} \in SUBSET Nat
    BY DEF Clients
  <2> QED BY <2>1, <2>2 DEF Clients
<1>3. CASE r.cached = NoCopy /\ r.inflight = 0 /\ MustAsk(r)
  <2>1. Loading(r) = [r EXCEPT !.inflight = r.next, !.next = r.next + 1,
                               !.waits = r.waits \cup {r.next}]
    BY <1>3 DEF Loading
  <2>2. r.next \in Nat /\ r.next + 1 \in Nat /\ r.waits \cup {r.next} \in SUBSET Nat
    BY DEF Clients
  <2> QED BY <2>1, <2>2 DEF Clients
<1>4. CASE r.cached = NoCopy /\ r.inflight = 0 /\ ~ MustAsk(r)
  <2>1. Loading(r) = r
    BY <1>4 DEF Loading
  <2> QED BY <2>1
<1> QED BY <1>1, <1>2, <1>3, <1>4

LEMMA UnmountedFits ==
  ASSUME NEW r \in Clients
  PROVE  /\ Unmounted(r) \in Clients
         /\ Unmounted(r).saved = r.saved /\ Unmounted(r).since = r.since
         /\ Unmounted(r).crossed = r.crossed /\ Unmounted(r).cached = r.cached
         /\ Unmounted(r).shown = NoCopy
  BY NoCopyFits DEF Unmounted, Clients, Pages

(* A request that only loses its page stays as good. *)
LEMMA OrphansFit ==
  ASSUME NEW c \in Requests, NEW of \in {"page", "script", "nobody"},
         of = "nobody" \/ c.of # "nobody", NEW r, RequestFits(c, r)
  PROVE  /\ [c EXCEPT !.of = of] \in Requests
         /\ [c EXCEPT !.of = of].tab = c.tab
         /\ RequestFits([c EXCEPT !.of = of], r)
<1>1. PICK d : d = [c EXCEPT !.of = of]
  OBVIOUS
<1>2. /\ d \in Requests /\ d.tab = c.tab /\ d.reply = c.reply /\ d.kind = c.kind
      /\ d.at = c.at /\ d.of = of
  BY <1>1 DEF Requests
<1>3. RequestFits(d, r)
  BY <1>2 DEF RequestFits
<1> QED BY <1>1, <1>2, <1>3

(* A step of the server for request c: the row only grows, and a get is    *)
(* answered with the row.                                                  *)
LEMMA ServerStep ==
  ASSUME CInv, NEW c \in requests, NEW d \in Requests,
         d.tab = c.tab /\ d.kind = c.kind,
         requests' \subseteq (requests \ {c}) \cup {d}, client' = client,
         row' \in [Workspaces -> Nat], \A w \in Workspaces : row'[w] >= row[w],
         InRow(d.reply)',
         d.kind = "get" /\ d.at = "answered" /\ d.of # "nobody" =>
           /\ d.reply.workspace \in Workspaces
           /\ d.reply.version = row'[d.reply.workspace]
  PROVE  CInv'
<1>1. CompanyTypeOK'
  BY DEF CInv, CompanyTypeOK
<1>2. ASSUME NEW copy \in Copies, InRow(copy)
      PROVE  InRow(copy)'
  <2>1. CASE copy = NoCopy
    BY <2>1 DEF InRow
  <2>2. CASE copy # NoCopy
    <3>1. /\ copy.workspace \in Workspaces /\ copy.version \in Nat
          /\ copy.version <= row[copy.workspace] /\ row[copy.workspace] \in Nat
          /\ row'[copy.workspace] \in Nat /\ row'[copy.workspace] >= row[copy.workspace]
      BY <1>2, <2>2 DEF Copies, InRow, CInv, CompanyTypeOK
    <3>2. copy.version <= row'[copy.workspace]
      BY <3>1
    <3> QED BY <3>2 DEF InRow
  <2> QED BY <2>1, <2>2
<1>3. \A t \in Tabs : client[t].saved \in Copies /\ client[t].since \in Copies
  BY DEF CInv, CompanyTypeOK, Clients
<1>4. ClientsFit'
  BY <1>2, <1>3 DEF CInv, ClientsFit, ClientFits
<1>5. ASSUME NEW e \in requests PROVE RequestFits(e, client[e.tab])'
  <2>1. e.reply \in Copies
    BY DEF CInv, CompanyTypeOK, Requests
  <2> QED BY <1>2, <2>1 DEF CInv, RequestsFit, RequestFits
<1>6. RequestFits(d, client[d.tab])'
  <2> DEFINE r == client[d.tab]
  <2>1. d.tab \in Tabs
    BY DEF Requests
  <2>2. InRow(r.saved)' /\ InRow(r.since)' /\ r.saved \in Copies /\ r.since \in Copies
    BY <1>3, <1>4, <2>1 DEF ClientsFit, ClientFits
  <2>3. ASSUME d.kind = "get", d.at = "answered", d.of # "nobody", NEW copy \in Copies, InRow(copy)'
        PROVE  NotOlder(d.reply, copy)
    <3>1. CASE copy = NoCopy
      BY <2>3, <3>1 DEF NotOlder, NoCopy, Workspaces
    <3>2. CASE copy # NoCopy
      BY <2>3, <3>2 DEF NotOlder, InRow
    <3> QED BY <3>1, <3>2
  <2> QED BY <2>2, <2>3 DEF RequestFits
<1>7. RequestsFit'
  BY <1>5, <1>6 DEF RequestsFit
<1> QED BY <1>1, <1>4, <1>7 DEF CInv

(***************************************************************************)
(* Steps.                                                                  *)
(***************************************************************************)
LEMMA StepFind ==
  ASSUME CInv, NEW c \in requests, Find(c)
  PROVE  CInv'
<1> DEFINE w == Workspace(c.as)
<1>1. w \in Workspaces /\ row \in [Workspaces -> Nat] /\ c \in Requests /\ row[w] \in Nat
  BY DEF Workspace, Workspaces, CInv, CompanyTypeOK
<1>2. PICK d : /\ d = IF ~ account[c.as].active THEN Failed(c)
                     ELSE IF row[w] = 0 THEN [c EXCEPT !.at = "create"]
                     ELSE Found(c, row[w])
               /\ Becomes(c, d)
  BY DEF Find
<1>3. InRow(c.reply)
  BY DEF CInv, RequestsFit, RequestFits
<1>4. UNCHANGED <<row, client>>
  BY DEF Find
<1>5. PICK copy : copy = [workspace |-> w, version |-> row[w]]
  OBVIOUS
<1>6. copy \in Copies /\ copy.workspace = w /\ copy.version = row[w] /\ InRow(copy)
  BY <1>1, <1>5 DEF Copies, InRow
<1>7. /\ d \in Requests /\ d.tab = c.tab /\ d.kind = c.kind
      /\ \/ d.reply = copy
         \/ d.reply = c.reply /\ ~ (d.kind = "get" /\ d.at = "answered")
  <2>1. CASE d = Failed(c)
    BY <1>1, <2>1 DEF Failed, Requests
  <2>2. CASE d = [c EXCEPT !.at = "create"]
    BY <1>1, <2>2 DEF Requests
  <2>3. CASE d = Found(c, row[w]) /\ c.kind = "get"
    <3>1. d = [c EXCEPT !.at = "answered", !.reply = copy]
      BY <1>5, <2>3 DEF Found, Answered
    <3> QED BY <1>1, <1>6, <3>1 DEF Requests
  <2>4. CASE d = Found(c, row[w]) /\ c.kind # "get"
    <3>1. d = [c EXCEPT !.at = "update"]
      BY <2>4 DEF Found
    <3> QED BY <1>1, <2>4, <3>1 DEF Requests
  <2> QED BY <1>2, <2>1, <2>2, <2>3, <2>4
<1>8. requests' \subseteq (requests \ {c}) \cup {d}
  BY <1>2 DEF Becomes
<1>9. InRow(d.reply)'
  BY <1>3, <1>4, <1>6, <1>7 DEF InRow
<1>10. \A x \in Workspaces : row'[x] >= row[x]
  BY <1>1, <1>4
<1> HIDE DEF w
<1> QED BY <1>1, <1>4, <1>6, <1>7, <1>8, <1>9, <1>10, ServerStep

LEMMA StepCreateRow ==
  ASSUME CInv, NEW c \in requests, CreateRow(c)
  PROVE  CInv'
<1> DEFINE w == Workspace(c.as)
<1>1. w \in Workspaces /\ row \in [Workspaces -> Nat] /\ c \in Requests /\ row[w] \in Nat
  BY DEF Workspace, Workspaces, CInv, CompanyTypeOK
<1>2. InRow(c.reply) /\ c.reply \in Copies /\ client' = client
  BY <1>1 DEF CInv, RequestsFit, RequestFits, Requests, CreateRow
<1>3. CASE row[w] # 0
  <2>1. PICK d : d = Failed(c) /\ Becomes(c, d) /\ row' = row
    BY <1>3 DEF CreateRow
  <2>2. d \in Requests /\ d.tab = c.tab /\ d.kind = c.kind /\ d.at # "answered" /\ d.reply = c.reply
    BY <1>1, <2>1 DEF Failed, Requests
  <2>3. requests' \subseteq (requests \ {c}) \cup {d}
    BY <2>1 DEF Becomes
  <2>4. InRow(d.reply)' /\ \A x \in Workspaces : row'[x] >= row[x]
    BY <1>1, <1>2, <2>1, <2>2 DEF InRow
  <2> QED BY <1>1, <1>2, <2>1, <2>2, <2>3, <2>4, ServerStep
<1>4. CASE row[w] = 0
  <2>1. PICK d : d = Found(c, 1) /\ Becomes(c, d) /\ row' = [row EXCEPT ![w] = 1]
    BY <1>4 DEF CreateRow
  <2>2. /\ row' \in [Workspaces -> Nat] /\ row'[w] = 1
        /\ \A x \in Workspaces : row'[x] >= row[x] /\ row[x] \in Nat
    BY <1>1, <1>4, <2>1
  <2>3. PICK copy : copy = [workspace |-> w, version |-> 1]
    OBVIOUS
  <2>4. copy \in Copies /\ copy.workspace = w /\ copy.version = 1 /\ InRow(copy)'
    BY <1>1, <2>2, <2>3 DEF Copies, InRow
  <2>5. /\ d \in Requests /\ d.tab = c.tab /\ d.kind = c.kind
        /\ \/ d.reply = copy
           \/ d.reply = c.reply /\ ~ (d.kind = "get" /\ d.at = "answered")
    <3>1. CASE c.kind = "get"
      <4>1. d = [c EXCEPT !.at = "answered", !.reply = copy]
        BY <2>1, <2>3, <3>1 DEF Found, Answered
      <4> QED BY <1>1, <2>4, <4>1 DEF Requests
    <3>2. CASE c.kind # "get"
      <4>1. d = [c EXCEPT !.at = "update"]
        BY <2>1, <3>2 DEF Found
      <4> QED BY <1>1, <3>2, <4>1 DEF Requests
    <3> QED BY <3>1, <3>2
  <2>6. InRow(c.reply)'
    <3>1. CASE c.reply = NoCopy
      BY <3>1 DEF InRow
    <3>2. CASE c.reply # NoCopy
      <4>1. /\ c.reply.workspace \in Workspaces /\ c.reply.version \in Nat
            /\ c.reply.version <= row[c.reply.workspace]
        BY <1>2, <3>2 DEF Copies, InRow
      <4>2. row'[c.reply.workspace] >= row[c.reply.workspace]
            /\ row'[c.reply.workspace] \in Nat /\ row[c.reply.workspace] \in Nat
        BY <2>2, <4>1
      <4>3. c.reply.version <= row'[c.reply.workspace]
        BY <4>1, <4>2
      <4> QED BY <4>3 DEF InRow
    <3> QED BY <3>1, <3>2
  <2>7. InRow(d.reply)'
    BY <2>4, <2>5, <2>6
  <2>8. requests' \subseteq (requests \ {c}) \cup {d}
    BY <2>1 DEF Becomes
  <2> HIDE DEF w
  <2> QED BY <1>1, <1>2, <2>2, <2>4, <2>5, <2>7, <2>8, ServerStep
<1> QED BY <1>1, <1>3, <1>4

LEMMA StepUpdateRow ==
  ASSUME CInv, NEW c \in requests, UpdateRow(c)
  PROVE  CInv'
<1> DEFINE w == Workspace(c.as)
<1>1. w \in Workspaces /\ row \in [Workspaces -> Nat] /\ c \in Requests /\ row[w] \in Nat
  BY DEF Workspace, Workspaces, CInv, CompanyTypeOK
<1>2. PICK d : d = Answered(c, row[w] + 1) /\ Becomes(c, d)
  BY DEF UpdateRow
<1>3. row' = [row EXCEPT ![w] = row[w] + 1] /\ client' = client
  BY DEF UpdateRow
<1>4. /\ row' \in [Workspaces -> Nat] /\ row'[w] = row[w] + 1
      /\ \A x \in Workspaces : row'[x] >= row[x]
  BY <1>1, <1>3
<1>5. PICK copy : copy = [workspace |-> w, version |-> row[w] + 1]
  OBVIOUS
<1>6. copy \in Copies /\ copy.workspace = w /\ copy.version = row'[w] /\ InRow(copy)'
  BY <1>1, <1>4, <1>5 DEF Copies, InRow
<1>7. d = [c EXCEPT !.at = "answered", !.reply = copy]
  BY <1>2, <1>5 DEF Answered
<1>8. d \in Requests /\ d.tab = c.tab /\ d.kind = c.kind /\ d.reply = copy
  BY <1>1, <1>6, <1>7 DEF Requests
<1>9. requests' \subseteq (requests \ {c}) \cup {d}
  BY <1>2 DEF Becomes
<1> HIDE DEF w
<1> QED BY <1>1, <1>3, <1>4, <1>6, <1>8, <1>9, ServerStep

(* A step of the script or the page of tab t. *)
LEMMA TabStep ==
  ASSUME CInv, NEW t \in Tabs, NEW r \in Clients, ClientFits(r),
         client' = [client EXCEPT ![t] = r], row' = row,
         \A c \in requests' :
           /\ c \in Requests
           /\ c.tab = t => RequestFits(c, r)
           /\ c.tab # t => RequestFits(c, client[c.tab])
  PROVE  CInv'
<1>1. CompanyTypeOK'
  BY DEF CInv, CompanyTypeOK
<1>2. \A x \in Tabs : client'[x] = IF x = t THEN r ELSE client[x]
  BY DEF CInv, CompanyTypeOK
<1>3. \A x \in Tabs : ClientFits(client'[x])
  BY <1>2 DEF CInv, ClientsFit
<1>4. ClientsFit'
  BY <1>3 DEF ClientsFit, ClientFits, InRow
<1>5. \A c \in requests' : RequestFits(c, client'[c.tab])
  BY <1>2 DEF Requests
<1>6. RequestsFit'
  BY <1>5 DEF RequestsFit, RequestFits, InRow
<1> QED BY <1>1, <1>4, <1>6 DEF CInv

(* The requests of the pages that go. *)
LEMMA OrphanedFits ==
  ASSUME CInv, NEW T \in SUBSET Tabs,
         NEW c \in {[d EXCEPT !.of = IF d.of = "page" /\ d.tab \in T THEN "script" ELSE d.of] :
                    d \in requests}
  PROVE  /\ c \in Requests
         /\ RequestFits(c, client[c.tab])
<1>1. PICK d \in requests :
        c = [d EXCEPT !.of = IF d.of = "page" /\ d.tab \in T THEN "script" ELSE d.of]
  OBVIOUS
<1>2. PICK of : of = IF d.of = "page" /\ d.tab \in T THEN "script" ELSE d.of
  OBVIOUS
<1>3. d \in Requests /\ RequestFits(d, client[d.tab])
  BY DEF CInv, CompanyTypeOK, RequestsFit
<1>4. of \in {"page", "script", "nobody"} /\ (of = "nobody" \/ d.of # "nobody")
  BY <1>2, <1>3 DEF Requests
<1>5. c = [d EXCEPT !.of = of]
  BY <1>1, <1>2
<1> QED BY <1>3, <1>4, <1>5, OrphansFit

LEMMA StepMount ==
  ASSUME CInv, SessionTypeOK, NEW t \in Tabs, NEW page \in Pages, Mount(t, page)
  PROVE  CInv'
<1> DEFINE u == Unmounted(client[t])
           r == [u EXCEPT !.page = page, !.shown = client[t].cached, !.since = client[t].saved]
           old == {[d EXCEPT !.of = IF d.of = "page" /\ d.tab \in {t} THEN "script" ELSE d.of] :
                     d \in requests}
<1>1. client[t] \in Clients /\ ClientFits(client[t])
  BY DEF CInv, CompanyTypeOK, ClientsFit
<1>2. u \in Clients /\ u.saved = client[t].saved /\ u.crossed = client[t].crossed
        /\ u.cached = client[t].cached
  BY <1>1, UnmountedFits
<1> HIDE DEF u
<1>3. /\ r \in Clients /\ r.saved = client[t].saved /\ r.since = client[t].saved
      /\ r.crossed = client[t].crossed /\ r.cached = client[t].cached /\ r.shown = client[t].cached
  BY <1>1, <1>2 DEF Clients
<1>4. client' = [client EXCEPT ![t] = Loading(r)] /\ row' = row
  BY DEF Mount, u
<1>5. requests' = old \cup Gets(t, r)
  BY DEF Mount, u, Orphaned
<1> HIDE DEF r
<1>6. PICK x \in Clients : x = Loading(r)
  BY <1>3, LoadingFits
<1>7. /\ x.saved = client[t].saved /\ x.since = client[t].saved /\ x.crossed = client[t].crossed
      /\ x.cached = client[t].cached /\ x.shown = client[t].cached
  BY <1>3, <1>6, LoadingFits
<1>8. ClientFits(x)
  BY <1>1, <1>7 DEF ClientFits
<1>9. ASSUME NEW c \in old
      PROVE  /\ c \in Requests
             /\ c.tab = t => RequestFits(c, x)
             /\ c.tab # t => RequestFits(c, client[c.tab])
  <2>1. c \in Requests /\ RequestFits(c, client[c.tab])
    BY OrphanedFits
  <2> HIDE DEF old
  <2> QED BY <1>7, <2>1 DEF RequestFits
<1>10. \A c \in Gets(t, r) : c \in Requests /\ c.tab = t /\ RequestFits(c, x)
  BY <1>3, GetsAreGood
<1> HIDE DEF old
<1> QED BY <1>4, <1>5, <1>6, <1>8, <1>9, <1>10, TabStep

LEMMA StepSave ==
  ASSUME CInv, SessionTypeOK, NEW t \in Tabs, Save(t)
  PROVE  CInv'
<1> DEFINE r == [client[t] EXCEPT !.saving = TRUE, !.next = client[t].next + 1]
<1>1. client[t] \in Clients /\ ClientFits(client[t]) /\ stored \in Users
  BY DEF CInv, CompanyTypeOK, ClientsFit, Save, SessionTypeOK
<1>2. /\ r \in Clients /\ r.saved = client[t].saved /\ r.since = client[t].since
      /\ r.crossed = client[t].crossed /\ r.cached = client[t].cached /\ r.shown = client[t].shown
  <2>1. client[t].next \in Nat /\ client[t].next + 1 \in Nat
    BY <1>1 DEF Clients
  <2> QED BY <1>1, <2>1 DEF Clients
<1>3. client' = [client EXCEPT ![t] = r] /\ row' = row
  BY DEF Save
<1>4. requests' = requests \cup Request(t, "save", client[t])
  BY DEF Save
<1> HIDE DEF r
<1>5. ClientFits(r)
  BY <1>1, <1>2 DEF ClientFits
<1>6. \A c \in Request(t, "save", client[t]) : c \in Requests /\ c.tab = t /\ RequestFits(c, r)
  BY <1>1, <1>2, RequestIsGood
<1>7. \A c \in requests :
        /\ c \in Requests
        /\ c.tab = t => RequestFits(c, r)
        /\ c.tab # t => RequestFits(c, client[c.tab])
  BY <1>2 DEF CInv, CompanyTypeOK, RequestsFit, RequestFits
<1> QED BY <1>2, <1>3, <1>4, <1>5, <1>6, <1>7, TabStep

LEMMA StepGetArrives ==
  ASSUME CInv, NEW c \in requests, GetArrives(c)
  PROVE  CInv'
<1> DEFINE t == c.tab
           shown == IF c.id \in client[t].waits THEN c.reply ELSE client[t].shown
           r == [client[t] EXCEPT !.cached = c.reply, !.inflight = 0, !.shown = shown,
                                  !.waits = client[t].waits \ {c.id}]
<1>1. /\ c \in Requests /\ t \in Tabs /\ c.reply \in Copies
      /\ client[t] \in Clients /\ ClientFits(client[t]) /\ RequestFits(c, client[t])
  BY DEF CInv, CompanyTypeOK, ClientsFit, RequestsFit, Requests
<1>2. shown \in Copies /\ shown \in {c.reply, client[t].shown}
  BY <1>1 DEF Clients
<1> HIDE DEF shown
<1>3. /\ r \in Clients /\ r.saved = client[t].saved /\ r.since = client[t].since
      /\ r.crossed = client[t].crossed /\ r.cached = c.reply /\ r.shown = shown
  BY <1>1, <1>2 DEF Clients
<1>4. client' = [client EXCEPT ![t] = r] /\ row' = row /\ requests' = requests \ {c}
  BY DEF GetArrives, shown
<1> HIDE DEF r
<1>5. ClientFits(r)
  BY <1>1, <1>2, <1>3 DEF ClientFits, RequestFits, GetArrives
<1>6. \A d \in requests' :
        /\ d \in Requests
        /\ d.tab = t => RequestFits(d, r)
        /\ d.tab # t => RequestFits(d, client[d.tab])
  BY <1>3, <1>4 DEF CInv, CompanyTypeOK, RequestsFit, RequestFits
<1> HIDE DEF t
<1> QED BY <1>1, <1>3, <1>4, <1>5, <1>6, TabStep DEF t

(* The save is the newest write the tab knows of, and no get is under way. *)
LEMMA StepSaveArrives ==
  ASSUME CInv, SessionTypeOK, NEW c \in requests, SaveArrives(c)
  PROVE  CInv'
<1> DEFINE t == c.tab
           o == client[t]
           crossing == \E d \in requests : d.tab = t /\ d.kind = "get" /\ d.of # "nobody"
           s == [o EXCEPT !.saved = c.reply, !.crossed = o.crossed \/ crossing]
           r == Forgotten(s)
           p == [r EXCEPT !.shown = NoCopy, !.saving = FALSE, !.since = c.reply]
           x == IF c.of = "page" THEN Loading(p)
                ELSE [Loading(r) EXCEPT !.waits = r.waits, !.shown = r.shown]
<1>1. /\ c \in Requests /\ t \in Tabs /\ c.reply \in Copies /\ InRow(c.reply)
      /\ o \in Clients /\ ClientFits(o)
  BY DEF CInv, CompanyTypeOK, ClientsFit, RequestsFit, RequestFits, Requests
<1>2. client' = [client EXCEPT ![t] = x] /\ row' = row
  BY DEF SaveArrives
<1>3. requests' = (requests \ {c}) \cup Gets(t, r)
  BY DEF SaveArrives
<1>4. PICK b \in BOOLEAN : b = (o.crossed \/ crossing)
  BY <1>1 DEF Clients
<1>5. /\ s \in Clients /\ s.saved = c.reply /\ s.crossed = b /\ s.since = o.since
      /\ s.shown = o.shown
  <2>1. s = [o EXCEPT !.saved = c.reply, !.crossed = b]
    BY <1>4
  <2> HIDE DEF s
  <2> QED BY <1>1, <2>1 DEF Clients
<1> HIDE DEF s
<1>6. /\ r \in Clients /\ r.saved = c.reply /\ r.crossed = b /\ r.since = o.since
      /\ r.shown = o.shown /\ r.cached = NoCopy
  BY <1>5, NoCopyFits DEF Forgotten, Clients
<1> HIDE DEF r
<1>7. /\ p \in Clients /\ p.saved = c.reply /\ p.crossed = b /\ p.since = c.reply
      /\ p.shown = NoCopy /\ p.cached = NoCopy
  BY <1>1, <1>6, NoCopyFits DEF Clients
<1> HIDE DEF p
<1>8. /\ x \in Clients /\ x.saved = c.reply /\ x.crossed = b /\ x.cached = NoCopy
      /\ \/ x.since = c.reply /\ x.shown = NoCopy
         \/ x.since = o.since /\ x.shown = o.shown
  <2>1. CASE c.of = "page"
    BY <1>7, <2>1, LoadingFits
  <2>2. CASE c.of # "page"
    <3>1. /\ Loading(r) \in Clients /\ Loading(r).saved = c.reply /\ Loading(r).crossed = b
          /\ Loading(r).cached = NoCopy /\ Loading(r).since = o.since
      BY <1>6, LoadingFits
    <3>2. x = [Loading(r) EXCEPT !.waits = r.waits, !.shown = r.shown]
      BY <2>2
    <3>3. r.waits \in SUBSET Nat /\ r.shown \in Copies
      BY <1>6 DEF Clients
    <3> HIDE DEF x
    <3> QED BY <1>6, <3>1, <3>2, <3>3 DEF Clients
  <2> QED BY <2>1, <2>2
<1> HIDE DEF x
<1>9. ClientFits(x)
  BY <1>1, <1>4, <1>8, NoCopyFits DEF ClientFits
<1>10. \A d \in Gets(t, r) : d \in Requests /\ d.tab = t /\ RequestFits(d, x)
  BY <1>1, <1>6, <1>8, GetsAreGood
<1>11. ASSUME NEW d \in requests
       PROVE  /\ d \in Requests
              /\ d.tab = t => RequestFits(d, x)
              /\ d.tab # t => RequestFits(d, client[d.tab])
  <2>1. d \in Requests /\ RequestFits(d, client[d.tab])
    BY DEF CInv, CompanyTypeOK, RequestsFit
  <2>2. d.tab = t /\ d.kind = "get" /\ d.of # "nobody" => x.crossed
    BY <1>4, <1>8
  <2> QED BY <2>1, <2>2 DEF RequestFits
<1> HIDE DEF t
<1> QED BY <1>1, <1>2, <1>3, <1>8, <1>9, <1>10, <1>11, TabStep DEF t

LEMMA StepAnswerFails ==
  ASSUME CInv, NEW c \in requests, AnswerFails(c)
  PROVE  CInv'
<1> DEFINE t == c.tab
           o == client[t]
<1>1. /\ c \in Requests /\ t \in Tabs /\ o \in Clients /\ ClientFits(o)
      /\ RequestFits(c, o)
  BY DEF CInv, CompanyTypeOK, ClientsFit, RequestsFit, Requests
<1>2. PICK inflight \in Nat : inflight = IF c.kind = "get" THEN 0 ELSE o.inflight
  BY <1>1 DEF Clients
<1>3. PICK saving \in BOOLEAN : saving = (o.saving /\ ~ (c.kind = "save" /\ c.of = "page"))
  BY <1>1 DEF Clients
<1>4. PICK r : r = [o EXCEPT !.inflight = inflight, !.waits = o.waits \ {c.id}, !.saving = saving]
  OBVIOUS
<1>5. /\ r \in Clients /\ r.saved = o.saved /\ r.since = o.since
      /\ r.crossed = o.crossed /\ r.cached = o.cached /\ r.shown = o.shown
  BY <1>1, <1>4 DEF Clients
<1>6. client' = [client EXCEPT ![t] = r] /\ row' = row
  BY <1>2, <1>3, <1>4 DEF AnswerFails, CInv, CompanyTypeOK
<1>7. ClientFits(r)
  BY <1>1, <1>5 DEF ClientFits
<1>8. PICK d : d = [c EXCEPT !.of = "nobody"]
  OBVIOUS
<1>9. d \in Requests /\ d.tab = t /\ RequestFits(d, o)
  BY <1>1, <1>8, OrphansFit
<1>10. requests' \subseteq requests \cup {d}
  BY <1>8 DEF AnswerFails, Becomes
<1>11. \A e \in requests \cup {d} : e \in Requests /\ RequestFits(e, client[e.tab])
  BY <1>9 DEF CInv, CompanyTypeOK, RequestsFit
<1>12. \A e \in requests' :
         /\ e \in Requests
         /\ e.tab = t => RequestFits(e, r)
         /\ e.tab # t => RequestFits(e, client[e.tab])
  BY <1>5, <1>10, <1>11 DEF RequestFits
<1> HIDE DEF t
<1> QED BY <1>1, <1>5, <1>6, <1>7, <1>12, TabStep DEF t

(* Tabs that are signed out lose their page, and nothing else. *)
LEMMA StepWithSession ==
  ASSUME CInv, WithSession
  PROVE  CInv'
<1> DEFINE T == {x \in Tabs : tab'[x].token = NoUser}
           old == {[d EXCEPT !.of = IF d.of = "page" /\ d.tab \in T THEN "script" ELSE d.of] :
                     d \in requests}
<1>1. \A t \in Tabs : client[t] \in Clients /\ ClientFits(client[t])
  BY DEF CInv, CompanyTypeOK, ClientsFit
<1>2. \A t \in Tabs : /\ client'[t] \in Clients
                      /\ client'[t].saved = client[t].saved /\ client'[t].since = client[t].since
                      /\ client'[t].crossed = client[t].crossed
                      /\ client'[t].cached = client[t].cached
                      /\ client'[t].shown \in {client[t].shown, NoCopy}
  BY <1>1, UnmountedFits DEF WithSession
<1>3. row' = row /\ client' \in [Tabs -> Clients]
  BY <1>2 DEF WithSession
<1>4. \A t \in Tabs : client[t].since \in Copies
  BY <1>1 DEF Clients
<1>5. \A t \in Tabs : ClientFits(client'[t])
  BY <1>1, <1>2, <1>4, NoCopyFits DEF ClientFits
<1>6. ClientsFit'
  BY <1>3, <1>5 DEF ClientsFit, ClientFits, InRow
<1>7. requests' = old
  <2>1. \A d \in requests : d.tab \in Tabs
    BY DEF CInv, CompanyTypeOK, Requests
  <2> QED BY <2>1 DEF WithSession, Orphaned
<1>8. ASSUME NEW c \in old PROVE c \in Requests /\ RequestFits(c, client[c.tab])
  <2>1. T \in SUBSET Tabs
    OBVIOUS
  <2> HIDE DEF T
  <2> QED BY <2>1, OrphanedFits
<1> HIDE DEF old
<1>9. \A c \in requests' : c \in Requests /\ RequestFits(c, client'[c.tab])
  BY <1>2, <1>7, <1>8 DEF RequestFits, Requests
<1>10. CompanyTypeOK'
  BY <1>3, <1>9 DEF CInv, CompanyTypeOK
<1>11. RequestsFit'
  BY <1>3, <1>9 DEF RequestsFit, RequestFits, InRow
<1> QED BY <1>6, <1>10, <1>11 DEF CInv

LEMMA FreshFits ==
  ASSUME NEW next \in Nat
  PROVE  /\ [Fresh EXCEPT !.next = next] \in Clients
         /\ ClientFits([Fresh EXCEPT !.next = next])
         /\ [Fresh EXCEPT !.next = next].saved = NoCopy
         /\ [Fresh EXCEPT !.next = next].since = NoCopy
<1>1. PICK r : r = [Fresh EXCEPT !.next = next]
  OBVIOUS
<1>2. /\ r \in Clients /\ r.saved = NoCopy /\ r.since = NoCopy
      /\ r.cached = NoCopy /\ r.shown = NoCopy
  BY <1>1, NoCopyFits DEF Fresh, Clients, Pages
<1>3. ClientFits(r)
  BY <1>2, NoCopyFits DEF ClientFits
<1> QED BY <1>1, <1>2, <1>3

(* A loaded page starts without copies; what was asked before is nobody's. *)
LEMMA StepReloaded ==
  ASSUME CInv, SessionTypeOK, Reloaded
  PROVE  CInv'
<1>1. focused \in Tabs /\ client[focused].next \in Nat
  BY DEF SessionTypeOK, CInv, CompanyTypeOK, Clients
<1>2. PICK r : r = [Fresh EXCEPT !.next = client[focused].next]
  OBVIOUS
<1>3. r \in Clients /\ ClientFits(r) /\ r.saved = NoCopy /\ r.since = NoCopy
  BY <1>1, <1>2, FreshFits
<1>4. client' = [client EXCEPT ![focused] = r] /\ row' = row
  BY <1>2 DEF Reloaded
<1>5. ASSUME NEW e \in requests'
      PROVE  /\ e \in Requests
             /\ e.tab = focused => RequestFits(e, r)
             /\ e.tab # focused => RequestFits(e, client[e.tab])
  <2>1. PICK c \in requests :
          e = IF c.tab = focused THEN [c EXCEPT !.of = "nobody"] ELSE c
    BY DEF Reloaded
  <2>2. c \in Requests /\ RequestFits(c, client[c.tab])
    BY DEF CInv, CompanyTypeOK, RequestsFit
  <2>3. CASE c.tab = focused
    <3>1. PICK d : d = [c EXCEPT !.of = "nobody"]
      OBVIOUS
    <3>2. d \in Requests /\ d.tab = focused /\ d.of = "nobody" /\ d.reply = c.reply
      BY <2>2, <2>3, <3>1 DEF Requests
    <3>3. RequestFits(d, r)
      BY <2>2, <3>2 DEF RequestFits
    <3> QED BY <2>1, <2>3, <3>1, <3>2, <3>3
  <2>4. CASE c.tab # focused
    BY <2>1, <2>2, <2>4
  <2> QED BY <2>3, <2>4
<1> QED BY <1>1, <1>3, <1>4, <1>5, TabStep

LEMMA StepCInv ==
  ASSUME CInv, SessionTypeOK, [CompanyNext]_<<sessionVars, companyVars>>
  PROVE  CInv'
<1>1. CASE UNCHANGED <<sessionVars, companyVars>>
  BY <1>1 DEF companyVars, CInv, CompanyTypeOK, ClientsFit, ClientFits, RequestsFit,
              RequestFits, InRow
<1>2. CASE CompanyStep
  <2>1. focused \in Tabs /\ {"document", "settings"} \subseteq Pages
    BY DEF SessionTypeOK, Pages
  <2> QED BY <1>2, <2>1, StepMount, StepSave, StepFind, StepCreateRow, StepUpdateRow,
             StepGetArrives, StepSaveArrives, StepAnswerFails DEF CompanyStep
<1>3. CASE WithSession \/ Reloaded
  BY <1>3, StepWithSession, StepReloaded
<1> QED BY <1>1, <1>2, <1>3 DEF CompanyNext

LEMMA InitCInv == CompanyInit => CInv
<1> SUFFICES ASSUME CompanyInit PROVE CInv
  OBVIOUS
<1>1. \A t \in Tabs : client[t] = Fresh
  BY DEF CompanyInit
<1>2. /\ Fresh \in Clients /\ Fresh.saved = NoCopy /\ Fresh.since = NoCopy
      /\ Fresh.cached = NoCopy /\ Fresh.shown = NoCopy
  BY NoCopyFits DEF Fresh, Clients, Pages
<1>3. CompanyTypeOK
  BY <1>2 DEF CompanyInit, CompanyTypeOK
<1>4. ClientsFit
  BY <1>1, <1>2, NoCopyFits DEF ClientsFit, ClientFits
<1>5. RequestsFit
  BY DEF CompanyInit, RequestsFit
<1> QED BY <1>3, <1>4, <1>5 DEF CInv

(***************************************************************************)
(* Theorems.                                                               *)
(***************************************************************************)
(* The company leaves the session as it is: what holds of Session alone    *)
(* holds of it here.                                                       *)
LEMMA CompanyKeepsSession == CompanySpec => SessionSpec
<1>1. [CompanyNext]_<<sessionVars, companyVars>> => [SessionNext]_sessionVars
  BY DEF CompanyNext, WithSession, Reloaded, SessionNext
<1> QED BY <1>1, PTL DEF CompanySpec, SessionSpec

LEMMA CompanyInvariance == CompanySpec => []CInv
<1>1. CInv /\ SessionTypeOK /\ [CompanyNext]_<<sessionVars, companyVars>> => CInv'
  BY StepCInv
<1> QED BY <1>1, InitCInv, CompanyKeepsSession, SessionTypeCorrect, PTL DEF CompanySpec

(* Neither the copy of a tab nor the page it shows is older than what the  *)
(* tab has saved, unless a save was answered while a get was under way.    *)
THEOREM SavesAreShown == CompanySpec => []SavedIsShown
<1>1. CInv => SavedIsShown
  BY DEF CInv, ClientsFit, ClientFits, SavedIsShown
<1> QED BY <1>1, CompanyInvariance, PTL

(***************************************************************************)
(* The worker: its inductive invariant.                                    *)
(***************************************************************************)
(* An entry holds what its path names: a shell, a script or nothing. *)
EntriesFit ==
  \A e \in caches \cup puts :
    IF e.path = Shell THEN e.of \in Versions ELSE e.of \in {e.path, Missing}

HasShell(cache) == \E e \in caches : e.cache = cache /\ e.path = Shell

(* The cache of the active worker and of a precached one has the shell. *)
ShellsKept ==
  /\ worker # None => HasShell(worker)
  /\ arriving.precached => HasShell(arriving.cache)

(* Between deployments the server has the script of its shell. *)
ServerWhole == ~ server.deploying => server.scripts = {server.shell}

(* A page that waits for its script has a shell; while nothing has changed *)
(* since it was asked for, that of the server.                             *)
WindowsFit ==
  \A p \in Windows : window[p].at \in {"shell", "asking"} =>
    /\ window[p].shell \in Versions
    /\ window[p].calm =>
         online /\ ~ server.deploying /\ window[p].shell = server.shell

WInv == WorkerTypeOK /\ EntriesFit /\ ShellsKept /\ ServerWhole /\ WindowsFit

(***************************************************************************)
(* Lemmas.                                                                 *)
(***************************************************************************)
LEMMA VersionsNotZero ==
  /\ Shell \notin Versions /\ None \notin Versions /\ Missing \notin Versions
  /\ 1 \in Versions
  BY VersionAssumption DEF Shell, None, Missing, Versions

(* What the network answers. *)
LEMMA FetchedFits ==
  ASSUME server.shell \in Versions, NEW path \in Versions \cup {Shell}
  PROVE  /\ path = Shell => Fetched(path) \in Versions
         /\ path # Shell => Fetched(path) \in {path, Missing}
         /\ Fetched(path) \in Versions \cup {Missing}
  BY DEF Fetched

(* Storing an entry keeps the shells there are. *)
LEMMA StoredKeepsShells ==
  ASSUME NEW e \in Entries, NEW cache, HasShell(cache), caches' = Stored(e)
  PROVE  HasShell(cache)'
<1>1. PICK d \in caches : d.cache = cache /\ d.path = Shell
  BY DEF HasShell
<1>2. CASE d.cache = e.cache /\ d.path = e.path
  BY <1>1, <1>2 DEF HasShell, Stored
<1>3. CASE d.cache # e.cache \/ d.path # e.path
  BY <1>1, <1>3 DEF HasShell, Stored
<1> QED BY <1>2, <1>3

LEMMA StepDeploy ==
  ASSUME WInv, NEW v \in Versions, Deploy(v)
  PROVE  WInv'
<1> USE DEF Deploy, WInv
<1>1. \A p \in Windows : ~ window'[p].calm
  BY DEF Uneasy, WorkerTypeOK, WindowStates
<1>2. WorkerTypeOK'
  BY DEF WorkerTypeOK, Uneasy, WindowStates, Entries
<1>3. \A p \in Windows : window'[p].at = window[p].at /\ window'[p].shell = window[p].shell
  BY DEF Uneasy, WorkerTypeOK, WindowStates
<1>4. EntriesFit' /\ ShellsKept'
  BY DEF EntriesFit, ShellsKept, HasShell
<1>5. ServerWhole'
  BY DEF ServerWhole, WorkerTypeOK
<1>6. WindowsFit'
  BY <1>1, <1>3 DEF WindowsFit
<1> QED BY <1>2, <1>4, <1>5, <1>6

LEMMA StepScriptsDeployed ==
  ASSUME WInv, ScriptsDeployed
  PROVE  WInv'
<1> USE DEF ScriptsDeployed, WInv
<1>1. WorkerTypeOK'
  BY DEF WorkerTypeOK
<1>2. EntriesFit' /\ ShellsKept'
  BY DEF EntriesFit, ShellsKept, HasShell
<1>3. ServerWhole' /\ WindowsFit'
  BY DEF ServerWhole, WindowsFit, WorkerTypeOK
<1> QED BY <1>1, <1>2, <1>3

LEMMA StepNetwork ==
  ASSUME WInv, Network
  PROVE  WInv'
<1> USE DEF Network, WInv
<1>1. \A p \in Windows : /\ ~ window'[p].calm
                         /\ window'[p].at = window[p].at
                         /\ window'[p].shell = window[p].shell
  BY DEF Uneasy, WorkerTypeOK, WindowStates
<1>2. WorkerTypeOK'
  BY DEF WorkerTypeOK, Uneasy, WindowStates
<1>3. EntriesFit' /\ ShellsKept' /\ ServerWhole'
  BY DEF EntriesFit, ShellsKept, HasShell, ServerWhole
<1>4. WindowsFit'
  BY <1>1 DEF WindowsFit
<1> QED BY <1>2, <1>3, <1>4

LEMMA StepFindWorker ==
  ASSUME WInv, FindWorker
  PROVE  WInv'
<1> USE DEF FindWorker, WInv
<1>1. WorkerTypeOK'
  BY DEF WorkerTypeOK
<1>2. EntriesFit' /\ ShellsKept' /\ ServerWhole' /\ WindowsFit'
  BY DEF EntriesFit, ShellsKept, HasShell, ServerWhole, WindowsFit
<1> QED BY <1>1, <1>2

LEMMA StepInstall ==
  ASSUME WInv, Install
  PROVE  WInv'
<1> USE DEF WInv
<1>1. server.shell \in Versions /\ arriving.cache \in Versions
  BY DEF Install, WorkerTypeOK
<1>2. ServerWhole' /\ WindowsFit'
  BY DEF Install, ServerWhole, WindowsFit
<1>3. CASE online
  <2> DEFINE e == Entry(arriving.cache, Shell, Fetched(Shell))
  <2>1. Fetched(Shell) \in Versions
    BY <1>1, FetchedFits
  <2>2. e \in Entries /\ e.cache = arriving.cache /\ e.path = Shell /\ e.of \in Versions
    BY <1>1, <2>1 DEF Entry, Entries
  <2>3. caches' = Stored(e) /\ arriving' = [arriving EXCEPT !.precached = TRUE]
    BY <1>3 DEF Install
  <2> HIDE DEF e
  <2>4. WorkerTypeOK'
    BY <2>2, <2>3 DEF Install, WorkerTypeOK, Stored
  <2>5. EntriesFit'
    BY <2>2, <2>3 DEF Install, EntriesFit, Stored
  <2>6. HasShell(arriving.cache)'
    BY <2>2, <2>3 DEF Install, HasShell, Stored, WorkerTypeOK
  <2>7. worker # None => HasShell(worker)'
    BY <2>2, <2>3, StoredKeepsShells DEF Install, ShellsKept, HasShell
  <2>8. ShellsKept'
    BY <2>6, <2>7 DEF Install, ShellsKept, HasShell
  <2> QED BY <1>2, <2>4, <2>5, <2>8
<1>4. CASE ~ online
  <2>1. WorkerTypeOK'
    BY <1>4 DEF Install, WorkerTypeOK
  <2>2. EntriesFit' /\ ShellsKept'
    BY <1>4 DEF Install, EntriesFit, ShellsKept, HasShell, WorkerTypeOK
  <2> QED BY <1>2, <2>1, <2>2
<1> QED BY <1>3, <1>4

LEMMA StepActivate ==
  ASSUME WInv, Activate
  PROVE  WInv'
<1> USE DEF Activate, WInv
<1>1. WorkerTypeOK'
  BY DEF WorkerTypeOK
<1>2. EntriesFit' /\ ServerWhole' /\ WindowsFit'
  BY DEF EntriesFit, ServerWhole, WindowsFit
<1>3. HasShell(worker)'
  BY DEF HasShell, ShellsKept
<1>4. ShellsKept'
  BY <1>3 DEF ShellsKept, HasShell
<1> QED BY <1>1, <1>2, <1>4

(* A step that only changes a page, and one that also puts. *)
LEMMA PageStep ==
  ASSUME WInv, NEW p \in Windows, NEW r \in WindowStates,
         window' = [window EXCEPT ![p] = r],
         r.at \in {"shell", "asking"} =>
           /\ r.shell \in Versions
           /\ r.calm => online /\ ~ server.deploying /\ r.shell = server.shell,
         UNCHANGED <<cacheOf, server, online, worker, arriving, caches>>,
         puts' \subseteq Entries,
         \A e \in puts' : IF e.path = Shell THEN e.of \in Versions
                          ELSE e.of \in {e.path, Missing}
  PROVE  WInv'
<1> USE DEF WInv
<1>1. WorkerTypeOK'
  BY DEF WorkerTypeOK
<1>2. EntriesFit'
  BY DEF EntriesFit
<1>3. ShellsKept' /\ ServerWhole'
  BY DEF ShellsKept, HasShell, ServerWhole
<1>4. WindowsFit'
  BY DEF WindowsFit, WorkerTypeOK
<1> QED BY <1>1, <1>2, <1>3, <1>4

LEMMA StepNavigate ==
  ASSUME WInv, NEW p \in Windows, Navigate(p)
  PROVE  WInv'
<1> USE DEF WInv
<1>1. \A e \in puts' : IF e.path = Shell THEN e.of \in Versions
                       ELSE e.of \in {e.path, Missing}
  BY DEF Navigate, EntriesFit
<1>2. puts' \subseteq Entries
  BY DEF Navigate, WorkerTypeOK
<1>3. CASE Shells = {} /\ window' = [window EXCEPT ![p] = NoAnswer]
  <2>1. NoAnswer \in WindowStates /\ NoAnswer.at = "refused"
    BY DEF NoAnswer, NoPage, WindowStates, None, Missing
  <2> HIDE DEF WInv
  <2> QED BY <1>1, <1>2, <1>3, <2>1, PageStep DEF Navigate
<1>4. ASSUME NEW v \in Shells,
             window' = [window EXCEPT
               ![p] = [NoPage EXCEPT !.at = "shell", !.shell = v,
                                     !.calm = online /\ ~ server.deploying]]
      PROVE  WInv'
  <2>1. v \in Versions
    BY <1>4, FetchedFits DEF Shells, Cached, EntriesFit, WorkerTypeOK
  <2>2. online => v = server.shell
    BY <1>4 DEF Shells, Fetched
  <2> DEFINE r == [NoPage EXCEPT !.at = "shell", !.shell = v,
                                 !.calm = online /\ ~ server.deploying]
  <2>3. r \in WindowStates /\ r.shell = v /\ r.calm = (online /\ ~ server.deploying)
    BY <2>1 DEF NoPage, WindowStates, WorkerTypeOK, None, Missing
  <2> HIDE DEF r, WInv
  <2>4. window' = [window EXCEPT ![p] = r]
    BY <1>4 DEF r
  <2> QED BY <1>1, <1>2, <2>1, <2>2, <2>3, <2>4, PageStep DEF Navigate
<1> QED BY <1>3, <1>4 DEF Navigate

LEMMA RunningFits ==
  ASSUME NEW r \in WindowStates, NEW script \in Versions \cup {Missing}
  PROVE  /\ Running(r, script) \in WindowStates
         /\ Running(r, script).at \in {"loaded", "failed"}
         /\ Running(r, script).script = script
         /\ script # Missing => Running(r, script).at = "loaded"
  BY DEF Running, WindowStates

LEMMA StepAskScript ==
  ASSUME WInv, NEW p \in Windows, AskScript(p)
  PROVE  WInv'
<1> USE DEF WInv
<1>0. window[p] \in WindowStates /\ window[p].shell \in Versions
  BY DEF AskScript, WorkerTypeOK, WindowsFit
<1>1. \A e \in puts' : IF e.path = Shell THEN e.of \in Versions
                       ELSE e.of \in {e.path, Missing}
  BY DEF AskScript, EntriesFit
<1>2. puts' \subseteq Entries
  BY DEF AskScript, WorkerTypeOK
<1>3. ASSUME NEW e \in Cached(window[p].shell),
             window' = [window EXCEPT ![p] = Running(window[p], e.of)]
      PROVE  WInv'
  <2>1. e.of \in Versions \cup {Missing}
    BY <1>0, VersionsNotZero DEF Cached, EntriesFit
  <2>2. /\ Running(window[p], e.of) \in WindowStates
        /\ Running(window[p], e.of).at \in {"loaded", "failed"}
    BY <1>0, <2>1, RunningFits
  <2> HIDE DEF WInv
  <2> QED BY <1>1, <1>2, <1>3, <2>2, PageStep DEF AskScript
<1>4. CASE window' = [window EXCEPT ![p].at = "asking", ![p].asker = worker]
  <2> DEFINE r == [window[p] EXCEPT !.at = "asking", !.asker = worker]
  <2>1. /\ r \in WindowStates /\ r.at = "asking"
        /\ r.shell = window[p].shell /\ r.calm = window[p].calm
    BY <1>0 DEF WindowStates, WorkerTypeOK
  <2>2. window' = [window EXCEPT ![p] = r]
    BY <1>4 DEF WorkerTypeOK
  <2>3. window[p].calm => online /\ ~ server.deploying /\ window[p].shell = server.shell
    BY DEF AskScript, WindowsFit
  <2> HIDE DEF r, WInv
  <2> QED BY <1>0, <1>1, <1>2, <2>1, <2>2, <2>3, PageStep DEF AskScript
<1> QED BY <1>3, <1>4 DEF AskScript

LEMMA StepScriptArrives ==
  ASSUME WInv, NEW p \in Windows, ScriptArrives(p)
  PROVE  WInv'
<1> USE DEF WInv
<1> DEFINE path == window[p].shell
           script == IF online THEN Fetched(path) ELSE Missing
           e == Entry(window[p].asker, path, script)
<1>0. window[p] \in WindowStates /\ path \in Versions /\ path # Shell
  BY VersionsNotZero DEF ScriptArrives, WorkerTypeOK, WindowsFit
<1>1. script \in Versions \cup {Missing} /\ script \in {path, Missing}
  BY <1>0, FetchedFits DEF WorkerTypeOK
<1>2. window[p].asker # None => e \in Entries /\ e.path = path /\ e.of = script
  BY <1>0, <1>1 DEF Entry, Entries, WindowStates
<1>3. /\ Running(window[p], script) \in WindowStates
      /\ Running(window[p], script).at \in {"loaded", "failed"}
  BY <1>0, <1>1, RunningFits
<1>4. /\ window' = [window EXCEPT ![p] = Running(window[p], script)]
      /\ puts' = IF online /\ window[p].asker # None THEN puts \cup {e} ELSE puts
      /\ UNCHANGED <<cacheOf, server, online, worker, arriving, caches>>
  BY DEF ScriptArrives
<1> HIDE DEF e, script
<1>5. puts' \subseteq Entries
  BY <1>2, <1>4 DEF WorkerTypeOK
<1>6. \A d \in puts' : IF d.path = Shell THEN d.of \in Versions
                       ELSE d.of \in {d.path, Missing}
  BY <1>0, <1>1, <1>2, <1>4 DEF EntriesFit
<1> HIDE DEF WInv
<1> QED BY <1>3, <1>4, <1>5, <1>6, PageStep

LEMMA StepPut ==
  ASSUME WInv, NEW e \in puts, Put(e)
  PROVE  WInv'
<1> USE DEF WInv
<1>1. e \in Entries
  BY DEF WorkerTypeOK
<1>2. WorkerTypeOK'
  BY <1>1 DEF Put, WorkerTypeOK, Stored
<1>3. EntriesFit'
  BY DEF Put, EntriesFit, Stored
<1>4. ServerWhole' /\ WindowsFit'
  BY DEF Put, ServerWhole, WindowsFit
<1>5. /\ worker # None => HasShell(worker)'
      /\ arriving.precached => HasShell(arriving.cache)'
  BY <1>1, StoredKeepsShells DEF Put, ShellsKept, HasShell
<1>6. ShellsKept'
  BY <1>5 DEF Put, ShellsKept, HasShell
<1> QED BY <1>2, <1>3, <1>4, <1>6

LEMMA StepWInv ==
  ASSUME WInv, [WorkerNext]_workerVars
  PROVE  WInv'
<1>1. CASE UNCHANGED workerVars
  BY <1>1 DEF workerVars, WInv, WorkerTypeOK, EntriesFit, ShellsKept, HasShell,
              ServerWhole, WindowsFit
<1>2. CASE \E v \in Versions : Deploy(v)
  BY <1>2, StepDeploy
<1>3. CASE ScriptsDeployed \/ Network \/ FindWorker \/ Install \/ Activate
  BY <1>3, StepScriptsDeployed, StepNetwork, StepFindWorker, StepInstall, StepActivate
<1>4. CASE \E p \in Windows : Navigate(p) \/ AskScript(p) \/ ScriptArrives(p)
  BY <1>4, StepNavigate, StepAskScript, StepScriptArrives
<1>5. CASE \E e \in puts : Put(e)
  BY <1>5, StepPut
<1> QED BY <1>1, <1>2, <1>3, <1>4, <1>5 DEF WorkerNext

LEMMA InitWInv == WorkerInit => WInv
<1> SUFFICES ASSUME WorkerInit PROVE WInv
  OBVIOUS
<1>1. WorkerTypeOK
  <2>1. NoPage \in WindowStates
    BY DEF WindowStates, NoPage, None, Missing
  <2>2. arriving \in [cache : Versions \cup {None}, precached : BOOLEAN]
    BY DEF WorkerInit
  <2>3. server \in [shell : Versions, scripts : SUBSET Versions, deploying : BOOLEAN]
    BY VersionsNotZero DEF WorkerInit
  <2> QED BY <2>1, <2>2, <2>3 DEF WorkerInit, WorkerTypeOK
<1>2. EntriesFit /\ ShellsKept /\ ServerWhole /\ WindowsFit
  BY DEF WorkerInit, EntriesFit, ShellsKept, ServerWhole, WindowsFit, NoPage
<1> QED BY <1>1, <1>2 DEF WInv

LEMMA WorkerInvariance == WorkerSpec => []WInv
<1>1. WInv /\ [WorkerNext]_workerVars => WInv'
  BY StepWInv
<1> QED BY <1>1, InitWInv, PTL DEF WorkerSpec

(***************************************************************************)
(* Theorems.                                                               *)
(***************************************************************************)
(* Every reachable state of ServiceWorker is well typed. *)
THEOREM WorkerTypeCorrect == WorkerSpec => []WorkerTypeOK
<1>1. WInv => WorkerTypeOK
  BY DEF WInv
<1> QED BY <1>1, WorkerInvariance, PTL

(* Once there is a worker, whichever versions were installed, replaced or  *)
(* failed to install since, some cache holds the shell.                    *)
THEOREM AppOpensOffline == WorkerSpec => []OpensOffline
<1>1. WInv => OpensOffline
  BY DEF WInv, ShellsKept, HasShell, OpensOffline, Cached
<1> QED BY <1>1, WorkerInvariance, PTL

(* A page that loads undisturbed is given the script of its own shell,     *)
(* from any cache or from the server.                                      *)
LEMMA LoadsWhole ==
  ASSUME WInv, [WorkerNext]_workerVars, NEW p \in Windows,
         window[p].at \in {"shell", "asking"}, window[p].calm,
         window'[p].at \in {"loaded", "failed"},
         \A e \in caches \cup puts : e.path = window[p].shell => e.of # Missing
  PROVE  window'[p].at = "loaded" /\ window'[p].script = server.shell
<1> DEFINE path == window[p].shell
<1>1. /\ window \in [Windows -> WindowStates]
      /\ path \in Versions /\ path # Shell /\ path # Missing /\ online
      /\ path = server.shell /\ server.scripts = {path}
  BY VersionsNotZero DEF WInv, WorkerTypeOK, WindowsFit, ServerWhole
<1>2. window'[p] = Running(window[p], path)
      => window'[p].at = "loaded" /\ window'[p].script = server.shell
  BY <1>1, RunningFits
<1>3. CASE \E q \in Windows : AskScript(q)
  <2>1. PICK q \in Windows : AskScript(q)
    BY <1>3
  <2>2. q = p
    BY <1>1, <2>1 DEF AskScript
  <2>3. PICK e \in Cached(path) : window' = [window EXCEPT ![p] = Running(window[p], e.of)]
    BY <1>1, <2>1, <2>2 DEF AskScript, WindowStates
  <2>4. e.of = path
    BY <1>1, <2>3 DEF Cached, WInv, EntriesFit
  <2> QED BY <1>1, <1>2, <2>3, <2>4
<1>4. CASE \E q \in Windows : ScriptArrives(q)
  <2>1. PICK q \in Windows : ScriptArrives(q)
    BY <1>4
  <2>2. q = p
    BY <1>1, <2>1 DEF ScriptArrives
  <2>3. Fetched(path) = path
    BY <1>1 DEF Fetched
  <2>4. window' = [window EXCEPT ![p] = Running(window[p], path)]
    BY <1>1, <2>1, <2>2, <2>3 DEF ScriptArrives
  <2> QED BY <1>1, <1>2, <2>4
<1>5. CASE \E q \in Windows : Navigate(q)
  <2>1. PICK q \in Windows : Navigate(q)
    BY <1>5
  <2>2. window'[p].at = window[p].at \/ window'[p].at \in {"shell", "refused"}
    <3>1. CASE window' = [window EXCEPT ![q] = NoAnswer]
      BY <1>1, <3>1 DEF NoAnswer, NoPage
    <3>2. ASSUME NEW v \in Shells,
                 window' = [window EXCEPT
                   ![q] = [NoPage EXCEPT !.at = "shell", !.shell = v,
                                         !.calm = online /\ ~ server.deploying]]
          PROVE  window'[p].at = window[p].at \/ window'[p].at = "shell"
      <4> DEFINE r == [NoPage EXCEPT !.at = "shell", !.shell = v,
                                     !.calm = online /\ ~ server.deploying]
      <4>1. r.at = "shell"
        BY DEF NoPage
      <4> HIDE DEF r
      <4>2. window' = [window EXCEPT ![q] = r]
        BY <3>2 DEF r
      <4> QED BY <1>1, <4>1, <4>2
    <3> QED BY <2>1, <3>1, <3>2 DEF Navigate
  <2> QED BY <2>2
<1>6. CASE \/ \E v \in Versions : Deploy(v)
           \/ ScriptsDeployed \/ Network \/ FindWorker \/ Install \/ Activate
           \/ \E e \in puts : Put(e)
           \/ UNCHANGED workerVars
  <2>1. window' = Uneasy \/ window' = window
    BY <1>6 DEF Deploy, ScriptsDeployed, Network, FindWorker, Install, Activate,
                Put, workerVars
  <2>2. window'[p].at = window[p].at
    BY <1>1, <2>1 DEF Uneasy, WindowStates
  <2> QED BY <2>2
<1> QED BY <1>3, <1>4, <1>5, <1>6 DEF WorkerNext

(* A page that is asked for and loaded while the network is there and no   *)
(* deployment runs, runs the script of its own version, however many older *)
(* versions the caches hold.                                               *)
THEOREM PagesRunWhole == WorkerSpec => RunsWhole
<1>1. WInv /\ [WorkerNext]_workerVars =>
        (\A p \in Windows : LET r == window[p] IN
           /\ r.at \in {"shell", "asking"} /\ r.calm
           /\ window'[p].at \in {"loaded", "failed"}
           /\ \A e \in caches \cup puts : e.path = r.shell => e.of # Missing
           => window'[p].at = "loaded" /\ window'[p].script = server.shell)
  BY LoadsWhole
<1> QED BY <1>1, WorkerInvariance, PTL DEF WorkerSpec, RunsWhole
=============================================================================
