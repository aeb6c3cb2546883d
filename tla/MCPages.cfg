CONSTANTS
  Screens = {"invoices", "quotes", "orders", "overdue", "customers", "suppliers",
    "users", "categories", "invoiceDetail", "quoteDetail", "orderDetail",
    "customerDetail", "supplierDetail"}
  RowIds = {1, 2}
  PageSize = 1
  FewPages = 1
  MaxCalls = 2
SPECIFICATION Spec
CONSTRAINT Astray
INVARIANTS
  QuietRowsAreChosen
  SpinnerIsAwaited
  ActsOnOpened
PROPERTIES
  DialogsCloseForTheirOwn
  RefusedOnlyIfChanged
CHECK_DEADLOCK FALSE
