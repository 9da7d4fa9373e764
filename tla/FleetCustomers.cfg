SPECIFICATION Spec
CONSTANTS
  Customers <- MCCustomers
  Names <- MCNames
  Emails = {e1}
  PageSize = 2
  MaxFlight = 2
  None = None
  Empty = ""
  Cut <- MCCut
  Unreadable = Unreadable
  Null = Null
INVARIANTS
  
  LoadMoreIsAwaited
