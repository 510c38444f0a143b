SPECIFICATION FairSpec
CONSTANTS
  NoData = NoData
  Tickets = {t1, t2}
  Statuses = {"assigned", "resolved"}
  MaxEdits = 2
  MaxOther = 1
  MaxVisits = 1
  MaxFails = 1
CHECK_DEADLOCK FALSE
INVARIANTS
  OverlapNeedsAnother
PROPERTIES
  ImplementsBoard
  ViewConverges
