SPECIFICATION FairSpec
CONSTANTS
  Msg <- MCMsg
  Capacity = 2
  MaxPayload = 2
  MaxSent = 5
INVARIANTS
  SlotOwnership
PROPERTIES
  RingIsFifo
  RefusalsAreReal
  EventuallyDelivered
  CallsEnd
