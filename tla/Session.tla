------------------------------- MODULE Session -------------------------------
(***************************************************************************)
(* The session of a browser, frontend/src/contexts/AuthContext.tsx.  The   *)
(* token of the session is in localStorage, which the tabs of the browser  *)
(* share; each tab keeps the token it started with and the profile         *)
(* GET /auth/me answered last in its React state.  No tab listens to       *)
(* changes of the storage: it asks for its profile again when it gets the  *)
(* focus, and nothing cancels a call or compares its answer with the       *)
(* session it was asked for.                                               *)
(*                                                                         *)
(* A token stands for the user who signed in with it.                      *)
(***************************************************************************)
EXTENDS Naturals, FiniteSets

CONSTANTS Users, Tabs,
          NoUser,       \* no token
          MaxCalls,     \* bound on the calls of refreshMe of a tab
          MaxVersion    \* bound on the changes of an account

ASSUME NoUserAssumption == NoUser \notin Users
ASSUME BoundsAssumption == MaxCalls \in Nat /\ MaxVersion \in Nat

VARIABLES
  account,   \* of the server: active or not, and how often it was changed
  stored,    \* localStorage: the owner of the token, or NoUser
  focused,   \* the tab that has the focus
  tab,       \* the state of AuthProvider in each tab
  calls      \* calls without an answer applied; number 0 is POST /auth/login
sessionVars == <<account, stored, focused, tab, calls>>

NoProfile == [user |-> NoUser, version |-> 0]
Profiles == [user : Users, version : 0 .. MaxVersion] \cup {NoProfile}

(* token and profile are the state of AuthProvider; sent and seen are the  *)
(* numbers of the last call of refreshMe and of the one answered last.     *)
(* asked and behind are history: the version of the account when the last  *)
(* call was sent, and whether another tab changed the storage while this   *)
(* one had the focus, and no refresh followed.                             *)
TabStates ==
  [token : Users \cup {NoUser}, profile : Profiles, sent : 0 .. MaxCalls,
   seen : 0 .. MaxCalls, asked : 0 .. MaxVersion, behind : BOOLEAN]

Unanswered == [is |-> "unanswered", version |-> 0]
Refused == [is |-> "refused", version |-> 0]
Replies ==
  {Unanswered, Refused} \cup [is : {"ok"}, version : 0 .. MaxVersion]
Calls == [tab : Tabs, n : 0 .. MaxCalls, as : Users, reply : Replies]

SessionInit ==
  /\ account = [u \in Users |-> [active |-> TRUE, version |-> 0]]
  /\ stored = NoUser
  /\ focused \in Tabs
  /\ tab = [t \in Tabs |->
       [token |-> NoUser, profile |-> NoProfile, sent |-> 0, seen |-> 0,
        asked |-> 0, behind |-> FALSE]]
  /\ calls = {}

(***************************************************************************)
(* The functions of AuthProvider, each as the state of the tab after it.   *)
(***************************************************************************)
(* clearSession, setToken(null), setCurrentUser(null). *)
SignedOut(r) == [r EXCEPT !.token = NoUser, !.profile = NoProfile]

(* login: the profile of an earlier session is forgotten with its token. *)
SignedIn(r, u) == [r EXCEPT !.token = u, !.profile = NoProfile]

(* refreshMe up to its call.  request reads the token of the storage: with  *)
(* none it throws a 401 of its own, and the session of the tab ends.       *)
Refreshing(r, s) ==
  IF s = NoUser THEN SignedOut(r)
  ELSE [r EXCEPT !.sent = @ + 1, !.asked = account[s].version,
                 !.behind = FALSE]

MeCall(t, r, s) ==
  IF s = NoUser THEN {}
  ELSE {[tab |-> t, n |-> r.sent + 1, as |-> s, reply |-> Unanswered]}

MayCall(t) == tab[t].sent < MaxCalls

(* The storage becomes s, by tab t: the other tabs do not hear of it, and  *)
(* only the one that has the focus gets no event of its own any more.      *)
Stores(t, s, r) ==
  /\ stored' = s
  /\ tab' = [x \in Tabs |->
       IF x = t THEN r
       ELSE [tab[x] EXCEPT !.behind = @ \/ (x = focused /\ s # stored)]]

(***************************************************************************)
(* The user at the tab that has the focus.                                 *)
(***************************************************************************)
(* handleSubmit of LoginForm, up to its call; its button waits for it. *)
Submit(u) ==
  LET t == focused
  IN /\ tab[t].token = NoUser
     /\ \A c \in calls : ~ (c.tab = t /\ c.n = 0)
     /\ calls' = calls \cup
          {[tab |-> t, n |-> 0, as |-> u, reply |-> Unanswered]}
     /\ UNCHANGED <<account, stored, focused, tab>>

(* handleLogout of DashboardLayout. *)
Logout ==
  /\ tab[focused].token # NoUser
  /\ Stores(focused, NoUser, SignedOut(tab[focused]))
  /\ UNCHANGED <<account, focused, calls>>

(* Mutant: nothing listens to the focus. *)
FocusUnheard(t) ==
  /\ focused' = t
  /\ tab' = [tab EXCEPT ![t].behind = FALSE]
  /\ UNCHANGED <<account, stored, calls>>

(* The focus event, to which AppContent listens while authenticated. *)
Focus(t) ==
  /\ focused' = t
  /\ IF tab[t].token = NoUser
     THEN t # focused /\ UNCHANGED <<tab, calls>>
     ELSE /\ MayCall(t)
          /\ tab' = [tab EXCEPT ![t] = Refreshing(@, stored)]
          /\ calls' = calls \cup MeCall(t, tab[t], stored)
  /\ UNCHANGED <<account, stored>>

(* The page is loaded again: the state of the tab is read from the         *)
(* storage, its calls are gone, and the effect of AppContent refreshes.    *)
Reload ==
  LET t == focused
      r == [tab[t] EXCEPT !.token = stored, !.profile = NoProfile]
  IN /\ stored # NoUser => MayCall(t)
     /\ tab' = [tab EXCEPT ![t] = Refreshing(r, stored)]
     /\ calls' = {c \in calls : c.tab # t} \cup MeCall(t, r, stored)
     /\ UNCHANGED <<account, stored, focused>>

(***************************************************************************)
(* The server.                                                             *)
(***************************************************************************)
(* An administrator deactivates the account, activates it again, or gives  *)
(* it another role.                                                        *)
ChangeAccount(u) ==
  /\ account[u].version < MaxVersion
  /\ \E active \in BOOLEAN :
       account' = [account EXCEPT
         ![u] = [active |-> active, version |-> @.version + 1]]
  /\ UNCHANGED <<stored, focused, tab, calls>>

(* login checks the credentials only, so an account that is not active may *)
(* sign in; me is behind JwtStrategy.validate, where only an active one    *)
(* passes.                                                                 *)
Serve(c) ==
  LET a == account[c.as]
      reply == IF c.n = 0 \/ a.active THEN [is |-> "ok", version |-> a.version]
               ELSE Refused
  IN /\ c.reply = Unanswered
     /\ calls' = (calls \ {c}) \cup {[c EXCEPT !.reply = reply]}
     /\ UNCHANGED <<account, stored, focused, tab>>

(***************************************************************************)
(* Answers, in any order and whatever became of the session meanwhile.     *)
(***************************************************************************)
(* login(data.access_token); the effect of AppContent then refreshes. *)
LoginArrives(c) ==
  LET t == c.tab
      r == SignedIn(tab[t], c.as)
  IN /\ c.n = 0 /\ c.reply.is = "ok"
     /\ MayCall(t)
     /\ Stores(t, c.as, Refreshing(r, c.as))
     /\ calls' = (calls \ {c}) \cup MeCall(t, r, c.as)
     /\ UNCHANGED <<account, focused>>

(* setCurrentUser(await fetchMe()). *)
ProfileArrives(c) ==
  /\ c.n > 0 /\ c.reply.is = "ok"
  /\ tab' = [tab EXCEPT
       ![c.tab].profile = [user |-> c.as, version |-> c.reply.version],
       ![c.tab].seen = c.n]
  /\ calls' = calls \ {c}
  /\ UNCHANGED <<account, stored, focused>>

(* A 401 to refreshMe ends the session, whichever it is by now. *)
RefusalArrives(c) ==
  /\ c.n > 0 /\ c.reply = Refused
  /\ Stores(c.tab, NoUser, [SignedOut(tab[c.tab]) EXCEPT !.seen = c.n])
  /\ calls' = calls \ {c}
  /\ UNCHANGED <<account, focused>>

(* Wrong credentials, an unreachable server or any other error: the login  *)
(* form shows it, refreshMe keeps what it has.                             *)
Fails(c) ==
  /\ c.reply # Refused
  /\ calls' = calls \ {c}
  /\ UNCHANGED <<account, stored, focused, tab>>

Step ==
  \/ \E u \in Users : Submit(u) \/ ChangeAccount(u)
  \/ Logout
  \/ \E t \in Tabs : Focus(t)
  \/ \E c \in calls : \/ Serve(c) \/ Fails(c)
                      \/ LoginArrives(c) \/ ProfileArrives(c)
                      \/ RefusalArrives(c)

SessionNext == Step \/ Reload

SessionSpec == SessionInit /\ [][SessionNext]_sessionVars

(***************************************************************************)
(* Properties.                                                             *)
(***************************************************************************)
(* The state of the session is well typed. *)
SessionTypeOK ==
  /\ account \in [Users -> [active : BOOLEAN, version : 0 .. MaxVersion]]
  /\ stored \in Users \cup {NoUser}
  /\ focused \in Tabs
  /\ tab \in [Tabs -> TabStates]
  /\ calls \subseteq Calls

(* Once the last refresh of the tab in front is answered, the tab shows    *)
(* the user it acts as, active and with a role no older than when that     *)
(* refresh was asked for, whatever sessions began and ended in the other   *)
(* tabs while it was behind them.                                          *)
(* This is what the refresh on focus is for: "the session must end         *)
(* immediately rather than keep showing stale UI/access" (AuthContext).    *)
(* While a refresh is under way, after one failed or an older answer came  *)
(* after a newer one, or when an answer to another tab changes the session *)
(* under the one in front, the tab may show another user's profile.        *)
ShownIsLive ==
  LET r == tab[focused]
  IN r.token # NoUser /\ r.seen = r.sent /\ ~ r.behind
       => /\ stored # NoUser
          /\ r.profile.user = stored
          /\ r.profile.version >= r.asked
=============================================================================
