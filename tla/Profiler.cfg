SPECIFICATION FairSpec
CONSTANTS
  r1 = r1
  r2 = r2
  r3 = r3
  orders = orders
  users = users
  AnyRoute = AnyRoute
  Requests <- ThreeRequests
  Routes <- TwoRoutes
  RouteOf <- OneOfUsers
  MaxConcurrent = 2
  Sampling = TRUE
  MaxArmed = 2
INVARIANTS CapKept BudgetExact FastRequestKept
PROPERTIES SlotReturns
CHECK_DEADLOCK FALSE
