SPECIFICATION FairSpec
CONSTANTS
  Capacity = 2
  MaxSegments = 2
  MaxSent = 3
INVARIANTS
  SegmentIsFifo
PROPERTIES
  AttachEnds
