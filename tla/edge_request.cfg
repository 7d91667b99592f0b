SPECIFICATION EdgeSpec
CONSTANTS
  Reqs = {r1}
  HeadReqs = {}
  MaxChunks = 2
  IDs = {i1}
  Calls = {s1, s2}
  CancelErrors = {"canceled", "expired", "stream", "clientGone", "deadline", "setup", "publish"}
  None = None
SYMMETRY Symmetry
INVARIANTS SingleAnswerOncePublished NeverSilent OnlyTheDeadlineFails NothingLeftBehind AckIsTrue SuccessIsWhole
CHECK_DEADLOCK FALSE
