SPECIFICATION Spec
CONSTANTS
  Reqs = {r1, r2}
  HeadReqs = {r2}
  MaxChunks = 2
  IDs = {i1}
  Calls = {s1, s2}
  CancelErrors = {"nil", "deadline"}
  None = None
SYMMETRY CallSymmetry
INVARIANTS OneStreamPerRequest ClosedIsForgotten SuccessIsAgreed CancelStopsWrites
PROPERTY CanceledIsUnavailable
CHECK_DEADLOCK FALSE
