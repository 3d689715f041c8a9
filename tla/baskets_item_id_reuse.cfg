SPECIFICATION Spec
CONSTANTS
  Thread = {t1}
  Tab = {p1}
  NoTab = NoTab
  MaxBooking = 1
  MaxItem = 1
  MaxBirth = 2
  MaxQuantity = 1
  MaxRevision = 2
  LastDay = 0
PROPERTY SaveReachesTheShownItem
CHECK_DEADLOCK FALSE
