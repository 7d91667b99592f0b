SPECIFICATION FairSpec
CONSTANTS
  Sends = {c1, c2, c3}
  MaxDials = 3
  NumSlots = 1
  MaxStreams = 1
  MaxFaults = 1
  None = None
INVARIANTS NoOrphans ClosedForGood StaleIsRetried QuicUndisturbed
PROPERTIES SendsAndCloseReturn
CHECK_DEADLOCK FALSE
