SPECIFICATION Spec
CONSTANTS
  Frame <- MCFrame
  Capacity = 2
  Modulus = 4
  SlotCapacity = 3
  HEADER_SIZE = 1
  Mixed = Mixed
  Unread = Unread
  MaxSent = 5
INVARIANTS
  PendingIntact
  BorrowIntactUntilLapped
PROPERTIES
  HeadersAreFifo
  PromisesKept
