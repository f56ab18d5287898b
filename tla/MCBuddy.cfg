\* 7 units: bitmaps of 7, 3 and 1 blocks, each with a last block that has no
\* buddy; units of 2 bytes.
CONSTANTS
  Unit = 2
  Units = 7
  Levels = 3
  MaxLen = 9
  BlockLen <- MCBlockLen
  BlockCount <- MCBlockCount
SPECIFICATION FairSpec
INVARIANTS
  TypeOK
  NoOverlap
  NoLeak
  CountsAgree
  Coalesced
  MergeAssertHolds
  FreshWhenEmpty
PROPERTIES
  AbsSpec
  Returns
