SPECIFICATION FairSpec
CONSTANTS
  Capacity = 2
  MaxSegments = 2
  MaxSent = 3
PROPERTIES
  UsedByteOwners
