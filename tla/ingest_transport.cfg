SPECIFICATION FairSpec
CONSTANTS
  c1 = c1
  c2 = c2
  Calls = {c1, c2}
  Jobs <- MCJobs
  Window = 1
  MaxFaults = 1
INVARIANTS AckedIsWhole FinishedIsWhole
PROPERTIES FailureIsNoticed SendsReturn
CHECK_DEADLOCK FALSE
