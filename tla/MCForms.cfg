CONSTANTS
  FormKinds = {"invoice", "quote", "order", "supplier", "customer", "category",
    "user", "company"}
  MaxEdits = 1
  MaxPresses = 2
  MaxOthers = 1
SPECIFICATION FormSpec
INVARIANTS
  OneRowPerForm
PROPERTIES
  StoredIsShown
  IssuedIsSaved
  TypedIsKept
  ButtonsComeBack
CHECK_DEADLOCK FALSE
