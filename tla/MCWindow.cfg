\* A screen smaller than a window with border, title and client area.
SPECIFICATION Spec
CONSTANTS
    Width = 2
    Height = 4
    Border = 1
    Title = 1
    Mouse = 1
    Radius = 1
    Start <- MCStart
    Moves <- MCMoves
    MaxBatch = 2
INVARIANTS ScreenOK DragOK Reachable
