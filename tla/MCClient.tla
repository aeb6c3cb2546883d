------------------------------- MODULE MCClient -------------------------------
(* Instances of Company, with Session, and of ServiceWorker for TLC. *)
EXTENDS Company, ServiceWorker, TLC

Init == SessionInit /\ CompanyInit /\ WorkerInit
Next ==
  \/ CompanyNext /\ UNCHANGED workerVars
  \/ WorkerNext /\ UNCHANGED <<sessionVars, companyVars>>
Spec == Init /\ [][Next]_<<sessionVars, companyVars, workerVars>>

SessionAtRest ==
  /\ stored = NoUser /\ calls = {}
  /\ \A t \in Tabs : tab[t].sent = 0
  /\ \A u \in Users : account[u].version = 0
WorkerAtRest ==
  /\ online /\ server = [shell |-> 1, scripts |-> {1}, deploying |-> FALSE]
  /\ \A p \in Windows : window[p] = NoPage
CompanyAtRest == \A t \in Tabs : client[t].next = 1
Accounts == {u \in Users : account[u].version > 0}
Refreshed == {t \in Tabs : tab[t].sent > 0}

(* The worker and the session do not share state: one of them is at rest.  *)
(* The company is looked at in one tab, with accounts that do not change,  *)
(* and after its third request in one session.  The accounts change while  *)
(* one tab is in use.                                                      *)
Apart ==
  /\ SessionAtRest \/ WorkerAtRest
  /\ CompanyAtRest \/ (Refreshed = {focused} /\ Accounts = {})
  /\ \A t \in Tabs : client[t].next > 4 => tab[t].sent = 1 /\ calls = {}
  /\ Cardinality(calls) <= IF CompanyAtRest THEN 2 ELSE 1
  /\ Cardinality(requests) <= 2
  /\ Cardinality(puts) <= 1
  /\ \/ Accounts = {}
     \/ Cardinality(Accounts) = 1 /\ Cardinality(Refreshed) <= 1

AnyTab == Permutations(Tabs)
=============================================================================
