\* 2 pages of 3 slots.
CONSTANTS
  Pages = {p1, p2}
  Slots = 3
SPECIFICATION Spec
INVARIANTS
  FreeListOK
  PagesOK
  NoFalseAlarm
PROPERTIES
  FreshObject
\* A failed assertion stops the machine.
CHECK_DEADLOCK FALSE
