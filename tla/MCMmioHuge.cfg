\* The instance of MCMmio.cfg.
SPECIFICATION Spec
CONSTANTS
    PageSize = 2
    PtLen = 2
    PdLen = 2
    Pdpts = 3
    Nodes = 3
    Requests <- MCRequests
INVARIANT HugeAligned
CHECK_DEADLOCK FALSE
