\* Four acts: a key torn by a loss and whole ones after it; a key with two modifiers.
CONSTANTS
  Keys <- MCKeys
  Moves <- MCMoves
  MaxActs = 4
  MaxLost = 3
SPECIFICATION Spec
INVARIANTS
  Faithful
  Typed
  Resync
  MousePhase
CHECK_DEADLOCK FALSE
