SPECIFICATION Spec
CONSTANTS
  a = a
  b = b
  c = c
  unroutable = unroutable
  n1 = n1
  n2 = n2
  other = other
  Recipients = {a, b, c, unroutable}
  NumberOf <- Numbers
  Garbled = other
  Orders <- AllLists
  Unroutable = {unroutable}
  MaxDestinations = 2
  Policy = "reemit"
  StoreFails = TRUE
  MaxCalls = 2
INVARIANTS
  ReportIsTrue
PROPERTIES
  DuplicatesCounted
  KeepsMessageContract
CHECK_DEADLOCK FALSE
