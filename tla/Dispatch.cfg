SPECIFICATION DispatchSpec
CONSTANTS
  Cap = {c1, c2}
  None = None
  Capacities = {0, 3, 6}
  MAX_CAPABILITY = 5
  Operand <- MCOperand
  Shown <- MCShown
  max_operand_count = 2
  max_string_length = 1
  max_bytes_length = 3
  max_nesting_depth = 1
  MaxCaps = 2
  RefLists <- MCRefLists
  Caps = {1, 2}
  max_inflight = 2
  CursorModulus = 64
  MaxHandlers = 3
  MaxPackets = 4
INVARIANTS
  StableIfFullOrEmpty
  PolicyExact
  DrainAccounts
  StrategyKept
PROPERTIES
  OverflowIsReal
