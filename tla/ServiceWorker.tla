---------------------------- MODULE ServiceWorker ----------------------------
(***************************************************************************)
(* The service worker of frontend/public/sw.js, between the pages of the   *)
(* browser and the files a deployment puts on the server.  Navigations     *)
(* are answered by the network first, the other files by any cache first.  *)
(* A file answered by the network is put into the cache of the worker that *)
(* asked for it, after the page has it, and whatever the answer was.       *)
(*                                                                         *)
(* A version of the web client is its shell ('/') and its script, which    *)
(* has a path of its own (a hashed name); the icons and the manifest go    *)
(* with the shell.  Calls under /api/ pass the worker by (line 57), and    *)
(* so do they here.                                                        *)
(***************************************************************************)
EXTENDS Naturals, FiniteSets

CONSTANTS Windows,       \* the pages that may be open
          MaxRelease     \* versions of the web client are 1 .. MaxRelease

ASSUME VersionAssumption == MaxRelease \in Nat \ {0}

VARIABLES
  cacheOf,   \* the CACHE_VERSION in sw.js of each version of the client
  server,    \* its shell, its sw.js and its scripts, and whether rsync runs
  online,
  worker,    \* CACHE_VERSION of the active worker, or None
  arriving,  \* a newer worker: found, precached
  caches,    \* what is in the caches, by the name of the cache
  puts,      \* answers on their way into a cache
  window     \* the shell and the script of each page
workerVars ==
  <<cacheOf, server, online, worker, arriving, caches, puts, window>>

Versions == 1 .. MaxRelease
None == 0
Shell == 0        \* the path '/'; the path of a script is its version
Missing == 0      \* what the server answers for a path it does not have

Entry(cache, path, of) == [cache |-> cache, path |-> path, of |-> of]
Entries ==
  [cache : Versions, path : Versions \cup {Shell},
   of : Versions \cup {Missing}]

(* at: where the page is; asker: the worker its request for the script     *)
(* went through.  calm is history: no deployment and no loss of the        *)
(* network since the page was asked for.                                   *)
NoPage == [at |-> "closed", shell |-> None, script |-> None,
           asker |-> None, calm |-> FALSE]
WindowStates ==
  [at : {"closed", "refused", "shell", "asking", "loaded", "failed"},
   shell : Versions \cup {None}, script : Versions \cup {Missing},
   asker : Versions \cup {None}, calm : BOOLEAN]

(* "Bump CACHE_VERSION when deploying" is left to the author of a version. *)
WorkerInit ==
  /\ cacheOf \in {f \in [Versions -> Versions] :
       /\ f[1] = 1
       /\ \A v \in Versions \ {1} : f[v] \in {f[v - 1], v}}
  /\ server = [shell |-> 1, scripts |-> {1}, deploying |-> FALSE]
  /\ online = TRUE
  /\ worker = None
  /\ arriving = [cache |-> None, precached |-> FALSE]
  /\ caches = {} /\ puts = {}
  /\ window = [p \in Windows |-> NoPage]

(***************************************************************************)
(* The server and the network.                                             *)
(***************************************************************************)
Uneasy == [p \in Windows |-> [window[p] EXCEPT !.calm = FALSE]]

(* rsync -a --delete of a new version or, with rollback.yml, an older one: *)
(* the files at the top come before the directory of the scripts.          *)
Deploy(v) ==
  /\ ~ server.deploying /\ v # server.shell
  /\ server' = [server EXCEPT !.shell = v, !.deploying = TRUE]
  /\ window' = Uneasy
  /\ UNCHANGED <<cacheOf, online, worker, arriving, caches, puts>>

ScriptsDeployed ==
  /\ server.deploying
  /\ server' = [server EXCEPT !.scripts = {server.shell}, !.deploying = FALSE]
  /\ UNCHANGED <<cacheOf, online, worker, arriving, caches, puts, window>>

Network ==
  /\ online' = ~ online
  /\ window' = Uneasy
  /\ UNCHANGED <<cacheOf, server, worker, arriving, caches, puts>>

Fetched(path) ==
  IF path = Shell THEN server.shell
  ELSE IF path \in server.scripts THEN path ELSE Missing

(***************************************************************************)
(* The life of a worker.                                                   *)
(***************************************************************************)
(* register('/sw.js') after a page has loaded, or the browser's look for   *)
(* another sw.js.                                                          *)
FindWorker ==
  /\ online /\ arriving.cache = None
  /\ \E p \in Windows : window[p].at = "loaded"
  /\ cacheOf[server.shell] # worker
  /\ arriving' = [cache |-> cacheOf[server.shell], precached |-> FALSE]
  /\ UNCHANGED <<cacheOf, server, online, worker, caches, puts, window>>

Stored(e) == {d \in caches : d.cache # e.cache \/ d.path # e.path} \cup {e}

(* install: the shell is put into the cache of the new version, or the     *)
(* install fails and the worker is dropped.                                *)
Install ==
  /\ arriving.cache # None /\ ~ arriving.precached
  /\ IF online
     THEN /\ arriving' = [arriving EXCEPT !.precached = TRUE]
          /\ caches' = Stored(Entry(arriving.cache, Shell, Fetched(Shell)))
     ELSE /\ arriving' = [arriving EXCEPT !.cache = None]
          /\ UNCHANGED caches
  /\ UNCHANGED <<cacheOf, server, online, worker, puts, window>>

(* Mutant: skipWaiting does not wait for the precache. *)
ActivateUnprepared ==
  /\ arriving.cache # None
  /\ worker' = arriving.cache
  /\ arriving' = [cache |-> None, precached |-> FALSE]
  /\ caches' = {e \in caches : e.cache = worker'}
  /\ UNCHANGED <<cacheOf, server, online, puts, window>>

(* skipWaiting; activate: the other caches are deleted, the pages claimed. *)
Activate ==
  /\ arriving.cache # None /\ arriving.precached
  /\ worker' = arriving.cache
  /\ arriving' = [cache |-> None, precached |-> FALSE]
  /\ caches' = {e \in caches : e.cache = worker'}
  /\ UNCHANGED <<cacheOf, server, online, puts, window>>

(***************************************************************************)
(* The pages, and the fetch handler.                                       *)
(***************************************************************************)
Cached(path) == {e \in caches : e.path = path}

(* Mutant: navigations are answered by the cache first, too. *)
ShellsCachedFirst ==
  IF worker # None /\ Cached(Shell) # {} THEN {e.of : e \in Cached(Shell)}
  ELSE IF online THEN {Fetched(Shell)} ELSE {}

(* The shells a navigation may be answered with: the server's, or that of  *)
(* any cache when there is a worker and no network.                        *)
Shells ==
  IF online THEN {Fetched(Shell)}
  ELSE IF worker # None THEN {e.of : e \in Cached(Shell)} ELSE {}

NoAnswer == [NoPage EXCEPT !.at = "refused"]

Navigate(p) ==
  /\ \/ \E v \in Shells :
          window' = [window EXCEPT
            ![p] = [NoPage EXCEPT !.at = "shell", !.shell = v,
                                  !.calm = online /\ ~ server.deploying]]
     \/ Shells = {} /\ window' = [window EXCEPT ![p] = NoAnswer]
  /\ UNCHANGED <<cacheOf, server, online, worker, arriving, caches, puts>>

(* A page runs the script it is given; what is not one fails it. *)
Running(r, script) ==
  [r EXCEPT !.script = script,
            !.at = IF script = Missing THEN "failed" ELSE "loaded"]

(* caches.match looks into every cache. *)
AskScript(p) ==
  LET r == window[p]
  IN /\ r.at = "shell"
     /\ IF worker # None /\ Cached(r.shell) # {}
        THEN \E e \in Cached(r.shell) :
               window' = [window EXCEPT ![p] = Running(r, e.of)]
        ELSE window' = [window EXCEPT ![p].at = "asking",
                                      ![p].asker = worker]
     /\ UNCHANGED <<cacheOf, server, online, worker, arriving, caches, puts>>

ScriptArrives(p) ==
  LET r == window[p]
      script == IF online THEN Fetched(r.shell) ELSE Missing
  IN /\ r.at = "asking"
     /\ window' = [window EXCEPT ![p] = Running(r, script)]
     /\ puts' = IF online /\ r.asker # None
                THEN puts \cup {Entry(r.asker, r.shell, script)} ELSE puts
     /\ UNCHANGED <<cacheOf, server, online, worker, arriving, caches>>

(* caches.open(STATIC_CACHE).then(put), by a worker replaced meanwhile too. *)
Put(e) ==
  /\ caches' = Stored(e)
  /\ puts' = puts \ {e}
  /\ UNCHANGED <<cacheOf, server, online, worker, arriving, window>>

WorkerNext ==
  \/ \E v \in Versions : Deploy(v)
  \/ ScriptsDeployed \/ Network
  \/ FindWorker \/ Install \/ Activate
  \/ \E p \in Windows : Navigate(p) \/ AskScript(p) \/ ScriptArrives(p)
  \/ \E e \in puts : Put(e)

WorkerSpec == WorkerInit /\ [][WorkerNext]_workerVars

(***************************************************************************)
(* Properties.                                                             *)
(***************************************************************************)
(* The state of the worker is well typed. *)
WorkerTypeOK ==
  /\ cacheOf \in [Versions -> Versions]
  /\ server \in [shell : Versions, scripts : SUBSET Versions,
                 deploying : BOOLEAN]
  /\ online \in BOOLEAN
  /\ worker \in Versions \cup {None}
  /\ arriving \in [cache : Versions \cup {None}, precached : BOOLEAN]
  /\ caches \subseteq Entries /\ puts \subseteq Entries
  /\ window \in [Windows -> WindowStates]

(* Once there is a worker a page opens without the network, "so the        *)
(* installed app opens deterministically" (sw.js:60): through updates,     *)
(* roll-backs and failed installs some cache holds a shell.  Whether its   *)
(* script is cached too is another matter: nothing precaches it.           *)
OpensOffline == worker # None => Cached(Shell) # {}

(* A page asked for while the network is there and no deployment runs, and *)
(* loaded before either changes, runs the script of its own version, among *)
(* whatever older versions the caches hold, and however late they were     *)
(* put there - unless the answer "missing" was put there for it during a   *)
(* deployment, for the worker does not look at the status of an answer.    *)
RunsWhole ==
  [][\A p \in Windows : LET r == window[p] IN
       /\ r.at \in {"shell", "asking"} /\ r.calm
       /\ window'[p].at \in {"loaded", "failed"}
       /\ \A e \in caches \cup puts : e.path = r.shell => e.of # Missing
       => window'[p].at = "loaded" /\ window'[p].script = server.shell
    ]_workerVars
=============================================================================
