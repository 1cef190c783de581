SPECIFICATION Spec
CONSTANTS
  Threads = {t1, t2}
  None = None
  Callbacks = {c1, c2}
  Reentrant = {c2}
  Queries = {"reasoning", "draw"}
  Capabilities <- MCCapabilities
  Matches <- MCMatches
  Instructions = {40}
  MaxOps = 4
INVARIANT
  NativeCallAnswers
CHECK_DEADLOCK FALSE
