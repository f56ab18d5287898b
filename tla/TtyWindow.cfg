\* Two lines of two characters; at the bound on text nothing is left to do.
SPECIFICATION Spec
CONSTANTS
    TtywWidth = 2
    TtywHeight = 2
    Chars = {"a", "b"}
    MaxPuts = 3
    MaxText = 5
INVARIANTS LastLines ChangesPainted
CHECK_DEADLOCK FALSE
