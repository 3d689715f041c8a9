SPECIFICATION Spec
CONSTANTS
  Item = {a, b}
  NoItem = NoItem
  BasketOnly = FALSE
  MaxQuantity = 2
  MaxTyping = 2
  MaxChange = 1
PROPERTY DraftsYieldToNewerEdits
CHECK_DEADLOCK FALSE
