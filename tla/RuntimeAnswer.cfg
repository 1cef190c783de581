SPECIFICATION MCSpec
CONSTANTS
  Sid = {1, 2}
  MaxCaps = 1
  ChannelCap = 2
  MaxRequests = 3
  MaxJunk = 1
  Msg = {m1, m2}
  Capacity = 2
  MaxSent = 4
INVARIANTS
  AnswersMatch
