\* Two browsers, three buttons and the hub's three tasks.
SPECIFICATION Spec
CONSTANTS
  Browsers = {b1, b2}
  Buttons = {p, q, r}
  MaxObserved = 2
  Parts = 1
  MaxChanges = 3
  Garbled = Garbled
  None = None
INVARIANTS
  SettledViews
  ObservedLatest
SYMMETRY Symmetry
CHECK_DEADLOCK FALSE
