\* Twelve pages under three directories, three free-list nodes; a panic stops the machine.
SPECIFICATION Spec
CONSTANTS
    PageSize = 2
    PtLen = 2
    PdLen = 2
    Pdpts = 3
    Nodes = 3
    Requests <- MCRequests
INVARIANTS FreeListOK MapsRight NoFalseAlarm
CHECK_DEADLOCK FALSE
