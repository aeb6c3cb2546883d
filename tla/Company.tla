------------------------------- MODULE Company -------------------------------
(***************************************************************************)
(* The letterhead of a workspace: CompanyService on the server, and the    *)
(* hook useCompany through which the documents and the settings page share *)
(* one copy of it.  cached and inflight are variables of a script, one for *)
(* each loaded page of the browser: they live through sign-outs and go     *)
(* when the page is loaded again.  The session decides with whose token,   *)
(* so of which workspace, the row is asked for.                            *)
(***************************************************************************)
EXTENDS Session

CONSTANTS Sandboxed,     \* the users of workspace sandbox
          MaxRequests    \* bound on the requests about the company of a tab

VARIABLES
  row,       \* of the server: how often a workspace's row was written; 0: none
  client,    \* the script variables and the mounted page of each tab
  requests   \* requests about the company whose answer is not applied yet
companyVars == <<row, client, requests>>

Workspaces == {"production", "sandbox"}
Workspace(u) == IF u \in Sandboxed THEN "sandbox" ELSE "production"

NoCopy == [workspace |-> "none", version |-> 0]
Pages == {"none", "document", "settings"}

(* saved, since and crossed are history: the last save of the tab, the one *)
(* the mounted page must know of, and whether a save was answered while a  *)
(* get was still under way.                                                *)
Fresh ==
  [cached |-> NoCopy, inflight |-> 0, next |-> 1,
   page |-> "none", shown |-> NoCopy, waits |-> {}, saving |-> FALSE,
   saved |-> NoCopy, since |-> NoCopy, crossed |-> FALSE]

CompanyInit ==
  /\ row = [w \in Workspaces |-> 0]
  /\ client = [t \in Tabs |-> Fresh]
  /\ requests = {}

(***************************************************************************)
(* useCompany.                                                             *)
(***************************************************************************)
Request(t, kind, r) ==
  {[tab |-> t, id |-> r.next, kind |-> kind, as |-> stored, at |-> "sent",
    reply |-> NoCopy, of |-> "page"]}

(* loadCompany needs a request, and request finds a token to send. *)
MustAsk(r) == r.cached = NoCopy /\ r.inflight = 0 /\ stored # NoUser

(* loadCompany, and what the page does with its promise. *)
Loading(r) ==
  IF r.cached # NoCopy THEN [r EXCEPT !.shown = r.cached]
  ELSE IF r.inflight # 0 THEN [r EXCEPT !.waits = @ \cup {r.inflight}]
  ELSE IF MustAsk(r) THEN [r EXCEPT !.inflight = r.next, !.next = @ + 1,
                                    !.waits = @ \cup {r.next}]
  ELSE r

Gets(t, r) == IF MustAsk(r) THEN Request(t, "get", r) ELSE {}

(* Mutant: refresh loads again without forgetting the copy. *)
ForgottenOnlyInFlight(r) == [r EXCEPT !.inflight = 0]

(* refresh up to loadCompany: cached and inflight are forgotten. *)
Forgotten(r) == [r EXCEPT !.cached = NoCopy, !.inflight = 0]

(* The page that was mounted goes: its promises are cancelled. *)
Unmounted(r) ==
  [r EXCEPT !.page = "none", !.shown = NoCopy, !.waits = {}, !.saving = FALSE]

(* A request is of a mounted page, of its script once the page went, and   *)
(* of nobody once the script went or has given it up.                      *)
Orphaned(gone(_)) ==
  {[c EXCEPT !.of = IF @ = "page" /\ gone(c.tab) THEN "script" ELSE @] :
     c \in requests}

(***************************************************************************)
(* The pages.                                                              *)
(***************************************************************************)
(* A page with the letterhead is mounted: useState(cached), then the       *)
(* effect with loadCompany.                                                *)
Mount(t, page) ==
  LET r == [Unmounted(client[t]) EXCEPT
              !.page = page, !.shown = client[t].cached,
              !.since = client[t].saved]
  IN /\ tab[t].token # NoUser
     /\ MustAsk(r) => r.next < MaxRequests
     /\ client' = [client EXCEPT ![t] = Loading(r)]
     /\ requests' = Orphaned(LAMBDA x : x = t) \cup Gets(t, r)
     /\ UNCHANGED row

(* handleSave of CompanySettingsPage up to its call.  The form is there    *)
(* once the company is loaded, or could not be.                            *)
Save(t) ==
  LET r == client[t]
  IN /\ r.page = "settings" /\ ~ r.saving
     /\ r.waits = {} \/ r.shown # NoCopy
     /\ stored # NoUser
     /\ r.next < MaxRequests
     /\ client' = [client EXCEPT ![t].saving = TRUE, ![t].next = @ + 1]
     /\ requests' = requests \cup Request(t, "save", r)
     /\ UNCHANGED row

(***************************************************************************)
(* CompanyService; JwtStrategy.validate admits the active user first.      *)
(***************************************************************************)
Becomes(c, d) ==
  requests' = (requests \ {c}) \cup
    (IF d.of = "nobody" /\ d.at \in {"answered", "failed"} THEN {} ELSE {d})
Answered(c, version) ==
  [c EXCEPT !.at = "answered",
            !.reply = [workspace |-> Workspace(c.as), version |-> version]]
Failed(c) == [c EXCEPT !.at = "failed"]

(* What get returns is the answer, or the row that update then writes. *)
Found(c, version) ==
  IF c.kind = "get" THEN Answered(c, version) ELSE [c EXCEPT !.at = "update"]

(* get: findUnique. *)
Find(c) ==
  LET w == Workspace(c.as)
  IN /\ c.at = "sent"
     /\ Becomes(c,
          IF ~ account[c.as].active THEN Failed(c)
          ELSE IF row[w] = 0 THEN [c EXCEPT !.at = "create"]
          ELSE Found(c, row[w]))
     /\ UNCHANGED <<row, client>>

(* get: create, which the unique index refuses when another request was    *)
(* faster.                                                                 *)
CreateRow(c) ==
  LET w == Workspace(c.as)
  IN /\ c.at = "create"
     /\ IF row[w] # 0 THEN Becomes(c, Failed(c)) /\ UNCHANGED row
        ELSE /\ row' = [row EXCEPT ![w] = 1]
             /\ Becomes(c, Found(c, 1))
     /\ UNCHANGED client

(* update: prisma.company.update. *)
UpdateRow(c) ==
  LET w == Workspace(c.as)
  IN /\ c.at = "update"
     /\ row' = [row EXCEPT ![w] = @ + 1]
     /\ Becomes(c, Answered(c, row[w] + 1))
     /\ UNCHANGED client

(***************************************************************************)
(* Answers.                                                                *)
(***************************************************************************)
(* getCompany().then(cached = data).finally(inflight = null), and the      *)
(* pages that wait for it.                                                 *)
GetArrives(c) ==
  LET t == c.tab
      r == client[t]
  IN /\ c.kind = "get" /\ c.at = "answered" /\ c.of # "nobody"
     /\ client' = [client EXCEPT
          ![t].cached = c.reply,
          ![t].inflight = 0,
          ![t].shown = IF c.id \in r.waits THEN c.reply ELSE @,
          ![t].waits = @ \ {c.id}]
     /\ requests' = requests \ {c}
     /\ UNCHANGED row

(* handleSave after its call: refresh, also for a page that is gone. *)
SaveArrives(c) ==
  LET t == c.tab
      r == Forgotten([client[t] EXCEPT
             !.saved = c.reply,
             !.crossed = @ \/ \E d \in requests :
                                d.tab = t /\ d.kind = "get" /\ d.of # "nobody"])
      after == IF c.of = "page"
               THEN Loading([r EXCEPT !.shown = NoCopy, !.saving = FALSE,
                                      !.since = c.reply])
               ELSE [Loading(r) EXCEPT !.waits = r.waits, !.shown = r.shown]
  IN /\ c.kind = "save" /\ c.at = "answered" /\ c.of # "nobody"
     /\ MustAsk(r) => r.next < MaxRequests
     /\ client' = [client EXCEPT ![t] = after]
     /\ requests' = (requests \ {c}) \cup Gets(t, r)
     /\ UNCHANGED row

(* An error, of the server or on the way; a request under way may reach    *)
(* the row all the same.                                                   *)
AnswerFails(c) ==
  /\ c.of # "nobody"
  /\ client' = [client EXCEPT
       ![c.tab].inflight = IF c.kind = "get" THEN 0 ELSE @,
       ![c.tab].waits = @ \ {c.id},
       ![c.tab].saving = @ /\ ~ (c.kind = "save" /\ c.of = "page")]
  /\ \/ requests' = requests \ {c}
     \/ c.at \in {"sent", "create", "update"}
        /\ Becomes(c, [c EXCEPT !.of = "nobody"])
  /\ UNCHANGED row

CompanyStep ==
  \/ \E page \in {"document", "settings"} : Mount(focused, page)
  \/ Save(focused)
  \/ \E c \in requests :
       \/ Find(c) \/ CreateRow(c) \/ UpdateRow(c)
       \/ GetArrives(c) \/ SaveArrives(c) \/ AnswerFails(c)

(***************************************************************************)
(* Together with the session: a tab that is signed out shows the login     *)
(* form and no page; only a loaded page starts with fresh variables.       *)
(***************************************************************************)
WithSession ==
  /\ Step
  /\ client' = [t \in Tabs |->
       IF tab'[t].token = NoUser THEN Unmounted(client[t]) ELSE client[t]]
  /\ requests' = Orphaned(LAMBDA x : tab'[x].token = NoUser)
  /\ UNCHANGED row

Reloaded ==
  /\ Reload
  /\ client' = [client EXCEPT
       ![focused] = [Fresh EXCEPT !.next = client[focused].next]]
  /\ requests' =
       {IF c.tab = focused THEN [c EXCEPT !.of = "nobody"] ELSE c :
          c \in {d \in requests : d.tab = focused =>
                    d.at \in {"sent", "create", "update"}}}
  /\ UNCHANGED row

CompanyNext ==
  \/ CompanyStep /\ UNCHANGED sessionVars
  \/ WithSession
  \/ Reloaded

CompanySpec ==
  SessionInit /\ CompanyInit /\ [][CompanyNext]_<<sessionVars, companyVars>>

(***************************************************************************)
(* Properties.                                                             *)
(***************************************************************************)
(* The state of the company is well typed. *)
Copies == [workspace : Workspaces, version : Nat] \cup {NoCopy}
Clients ==
  [cached : Copies, inflight : Nat, next : Nat, page : Pages, shown : Copies,
   waits : SUBSET Nat, saving : BOOLEAN, saved : Copies, since : Copies,
   crossed : BOOLEAN]
Requests ==
  [tab : Tabs, id : Nat, kind : {"get", "save"}, as : Users,
   at : {"sent", "create", "update", "answered", "failed"}, reply : Copies,
   of : {"page", "script", "nobody"}]
CompanyTypeOK ==
  /\ row \in [Workspaces -> Nat]
  /\ client \in [Tabs -> Clients]
  /\ requests \subseteq Requests

NotOlder(copy, than) ==
  copy.workspace = than.workspace => copy.version >= than.version

(* What a tab has saved it shows: neither its copy nor a page that was     *)
(* mounted since, or that saved, has a letterhead older than the one the   *)
(* tab saved last, whatever pages came and went and whatever failed        *)
(* meanwhile - unless a save was answered while the tab was still asking   *)
(* for the company, for then an older answer may come last.                *)
SavedIsShown ==
  \A t \in Tabs : LET r == client[t] IN
    ~ r.crossed => NotOlder(r.cached, r.saved) /\ NotOlder(r.shown, r.since)

(* A page shows the letterhead of the workspace of its session, as "each   *)
(* root account gets its own company identity" (migration                  *)
(* 20260921000000_add_company_workspace_isolation) has it.                 *)
CompanyOfSession ==
  \A t \in Tabs :
    client[t].page # "none" /\ client[t].shown # NoCopy
      => client[t].shown.workspace = Workspace(tab[t].token)
=============================================================================
