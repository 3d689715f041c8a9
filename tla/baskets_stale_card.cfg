SPECIFICATION Spec
CONSTANTS
  Thread = {t1}
  Tab = {p1}
  NoTab = NoTab
  MaxBooking = 1
  MaxItem = 2
  MaxBirth = 1
  MaxQuantity = 1
  MaxRevision = 3
  LastDay = 0
PROPERTY NoSilentOverwrite
CHECK_DEADLOCK FALSE
