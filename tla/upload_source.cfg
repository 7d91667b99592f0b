SPECIFICATION FairSpec
CONSTANTS
  Sources = {u1}
  Calls = {c1, c2}
  MaxChunks = 1
  None = None
INVARIANTS BodyClosedOnce CopiedIsWhole ReturnedIsUnlinked
PROPERTIES DoomedIsUnavailable UploadsEnd
CHECK_DEADLOCK FALSE
