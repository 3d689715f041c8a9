SPECIFICATION Spec
CONSTANTS
  Item = {a, b}
  NoItem = NoItem
  BasketOnly = TRUE
  MaxQuantity = 1
  MaxTyping = 2
  MaxChange = 1
INVARIANT TypeOK
INVARIANT NoForgottenDraft
INVARIANT SavedIsTrue
PROPERTY DraftsAcceptedInOrder
PROPERTY DraftsAreSettled
CHECK_DEADLOCK FALSE
