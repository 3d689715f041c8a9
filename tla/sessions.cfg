SPECIFICATION Spec
CONSTANTS
  Request = {r1, r2}
  Browser = {w1}
  MaxBooking = 2
  MaxToken = 2
  LastDay = 1
  CustomerDays = 1
  AdminDays = 1
  Admin = Admin
  Nobody = Nobody
  NoRow = NoRow
SYMMETRY Symmetry
INVARIANT TypeOK
INVARIANT SessionsJoinLiveBookings
INVARIANT FormsActForTheirPage
INVARIANT SignedOutStaysOut
PROPERTY SessionsPersist
CHECK_DEADLOCK FALSE
