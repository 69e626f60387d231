SPECIFICATION Spec
CONSTANTS
  MaxPreviews = 2
  WishlistPreviews = {2}
  MaxAuthorizations = 1
  MaxReceipts = 2
  MaxAttempts = 2
  MaxChanges = 2
  None = None
PROPERTIES
  RefusedStartReservesNothing
CHECK_DEADLOCK FALSE
