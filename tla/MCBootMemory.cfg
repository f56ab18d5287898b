\* Tables of five entries, pages of two bytes; the procedure ends.
SPECIFICATION Spec
CONSTANTS
    PageSize = 2
    Len4 = 5
    Minimum = 4
    Wrap = 200
    Maps <- MCMaps
INVARIANTS MapOK TablesOK
CHECK_DEADLOCK FALSE
