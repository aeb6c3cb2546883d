\* Two requests that may meet on the same quote, two workspaces, a year end.
CONSTANTS
  production = production
  sandbox = sandbox
  acme = acme
  sbx = sbx
  Workspaces = {production, sandbox}
  CustomersOf <- MCCustomersOf
  Lines = {l1, l2}
  Discounts = {d1}
  FirstYear = 2026
  LastYear = 2027
  QuoteIds = {q1, q2}
  InvoiceIds = {}
  StatusBodies = {"accepted", "rejected", "revision_requested"}
  Requests = {r1, r2}
SPECIFICATION Spec
SYMMETRY Symmetry
INVARIANTS
  UniqueNumbers
  RevisionsAreLater
PROPERTIES
  StateMachineUnlessMet
  SentFrozenUnlessMet
  RevisionsCopyUnlessMet
\* Idle once every document is final: the ids, which bound the model, are used up.
CHECK_DEADLOCK FALSE
