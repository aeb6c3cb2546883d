\* Three requests that may meet on the same invoice, two workspaces, a year end.
CONSTANTS
  production = production
  sandbox = sandbox
  acme = acme
  sbx = sbx
  Workspaces = {production, sandbox}
  CustomersOf <- MCCustomersOf
  Lines = {l1, l2}
  Discounts = {d1}
  FirstYear = 2026
  LastYear = 2027
  InvoiceIds = {i1, i2}
  QuoteIds = {}
  Requests = {r1, r2, r3}
SPECIFICATION Spec
SYMMETRY Symmetry
INVARIANTS
  TypeOK
  PartnersAreLocal
  GaplessUnlessMet
PROPERTIES
  NumbersAreNew
  IssuedLockedUnlessMet
\* Idle once every document is final: the ids, which bound the model, are used up.
CHECK_DEADLOCK FALSE
