\* Two requests, two partners and two categories in two workspaces.
CONSTANTS
  Workspaces = {production, sandbox}
  PartnerIds = {p1, p2}
  CategoryIds = {c1, c2}
  Requests = {r1, r2}
SPECIFICATION Spec
SYMMETRY Symmetry
INVARIANTS
  CategoriesAreLocal
PROPERTIES
  UsedCategoriesStayUnlessMet
  InvoicedStayActiveUnlessMet
