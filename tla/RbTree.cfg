\* 11 nodes: trees of up to 5 levels, every case of both balancings.
CONSTANT K = 11
SPECIFICATION SpecKept
INVARIANTS
  InOrder
  Balanced
  FindOK
