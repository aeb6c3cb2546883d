\* Two requests about one draft, one of them an issue.
CONSTANTS
  production = production
  sandbox = sandbox
  acme = acme
  sbx = sbx
  Workspaces = {production}
  CustomersOf <- OneCustomer
  Lines = {l1}
  Discounts = {d1}
  FirstYear = 2026
  LastYear = 2026
  InvoiceIds = {i1, i2}
  QuoteIds = {}
  Requests = {r1, r2}
SPECIFICATION Spec
PROPERTIES
  IssuedLocked
\* Idle once every document is final: the ids, which bound the model, are used up.
CHECK_DEADLOCK FALSE
