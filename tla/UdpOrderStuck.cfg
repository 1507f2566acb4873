CONSTANTS
  MaxOrders = 2
  MaxReports = 2
  PerOrder = {1}
  StoreCap = 2
  Window = 2
  MaxRestarts = 0
SPECIFICATION FairSpec
PROPERTIES
  EveryOrderHandled
CHECK_DEADLOCK FALSE
