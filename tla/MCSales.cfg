\* Two requests to quotes and one to invoices that may all meet; two invoices of two
\* quotes, or of one whose content changes.
CONSTANTS
  production = production
  sandbox = sandbox
  acme = acme
  sbx = sbx
  l1 = l1
  Workspaces = {production}
  CustomersOf <- OneCustomer
  Lines = {l1, l2}
  Discounts = {d1}
  FirstYear = 2026
  LastYear = 2026
  QuoteIds = {q1, q2}
  InvoiceIds = {i1, i2}
  StatusBodies = {"accepted", "rejected", "revision_requested"}
  QuoteRequests = {r1, r2}
  InvoiceRequests = {s1}
SPECIFICATION Spec
CONSTRAINT Apart
SYMMETRY Symmetry
INVARIANTS
  LinksAgree
  TotalsMatchUnlessMet
  BilledOnce
  SupersededNotBilledUnlessMet
PROPERTIES
  ConvertedAsAcceptedUnlessMet
\* Idle once every document is final: the ids, which bound the model, are used up.
CHECK_DEADLOCK FALSE
