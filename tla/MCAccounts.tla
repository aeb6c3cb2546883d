------------------------------ MODULE MCAccounts ------------------------------
(* Instances of Accounts for TLC. *)
EXTENDS Accounts, TLC

CONSTANTS production, sandbox, adminBietmi, devTest

\* The administrators of prisma/seed.ts that the instance has.
MCSeedAdmin ==
  [w \in Workspaces |-> IF w = production THEN adminBietmi ELSE devTest]

\* One look is at the management of users in both workspaces, the other at the
\* passwords of the production's users: no execution needs both.
Apart ==
  \/ /\ \A t \in Tokens : token[t] = Absent
     /\ \A u \in UserIds : Present(u) => user[u].password = Temporary
  \/ /\ authors = {} /\ devTest \notin met \cup UNION {About(r) : r \in Requests}
     /\ ActiveAdmin(devTest, sandbox) /\ user[devTest].password = Temporary
     /\ \A u \in UserIds \ {devTest} : Present(u) => user[u].workspace = production

\* Users without a part by name, tokens, passwords and requests are interchangeable.
Symmetry ==
  Permutations(UserIds \ {adminBietmi, devTest}) \cup Permutations(Tokens)
    \cup Permutations(Passwords) \cup Permutations(Requests)
=============================================================================
