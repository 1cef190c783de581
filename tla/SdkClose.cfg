SPECIFICATION Spec
CONSTANTS
  Threads = {t1}
  None = None
  Callbacks = {c1, c2}
  Reentrant = {c2}
  Queries = {"reasoning", "draw"}
  Capabilities <- MCCapabilities
  Matches <- MCMatches
  Instructions = {40}
  MaxOps = 4
INVARIANT
  CloseClosesModels
CHECK_DEADLOCK FALSE
