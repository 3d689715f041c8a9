SPECIFICATION Spec
CONSTANTS
  Thread = {t1, t2}
  Tab = {p1}
  NoTab = NoTab
  MaxBooking = 1
  MaxItem = 1
  MaxBirth = 2
  MaxQuantity = 1
  MaxRevision = 2
  LastDay = 1
SYMMETRY Symmetry
INVARIANT TypeOK
INVARIANT SelectionsJoinLiveRows
INVARIANT CurrentRevisionShowsCurrentBasket
PROPERTY CustomersStayWithinCatalog
PROPERTY DeletionSparesCurrentBookings
PROPERTY HandlersAreAtomic
CHECK_DEADLOCK FALSE
