SPECIFICATION FairHandlers
CONSTANTS
  Reqs = {r1}
  HeadReqs = {}
  MaxChunks = 1
  IDs = {i1}
  Calls = {s1, s2}
  CancelErrors = {}
  None = None
PROPERTIES KeepsItsPromise EveryCallIsAnswered
CHECK_DEADLOCK FALSE
