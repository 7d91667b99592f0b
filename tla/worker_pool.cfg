SPECIFICATION FairSpec
CONSTANTS
  Tickets = {t1, t2, t3, t4, t5}
  Workers = {w1, w2}
  None = None
INVARIANTS NoSendOnClosed HandledOnce DrainedIsQuiet
PROPERTIES AcceptedIsHandled HandleAndCloseReturn
CHECK_DEADLOCK FALSE
