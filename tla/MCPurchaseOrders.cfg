\* Three concurrent requests over two workspaces, up to three orders. No symmetry:
\* a liveness property is checked.
CONSTANTS
  production = production
  sandbox = sandbox
  acme = acme
  sbx = sbx
  Workspaces = {production, sandbox}
  SuppliersOf <- MCSuppliersOf
  Orders = {o1, o2, o3}
  Requests = {r1, r2, r3}
SPECIFICATION FairSpec
INVARIANTS
  TypeOK
  GaplessNumbers
PROPERTIES
  ImplementsNumbering
  RequestsEnd
\* Idle once every order is sent: the ids, which bound the model, are used up.
CHECK_DEADLOCK FALSE
