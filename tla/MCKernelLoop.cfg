\* A queue of 2 messages that 6 bytes from two devices overrun.
CONSTANTS
  QueueSize = 2
  MaxBytes = 6
SPECIFICATION FairSpec
INVARIANTS
  TypeOK
  Fifo
  OwnByte
  Intact
  NoSleepWithWork
PROPERTIES
  AbsSpec
  Answered
\* The machine may sleep for ever when no device sends anything.
CHECK_DEADLOCK FALSE
