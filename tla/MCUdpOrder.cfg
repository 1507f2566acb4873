CONSTANTS
  MaxOrders = 3
  MaxReports = 3
  PerOrder = {1, 2}
  StoreCap = 2
  Window = 2
  MaxRestarts = 1
  MaxNet = 3
  MaxGatewayNet = 3
SPECIFICATION PartSpec
CONSTRAINT NetBound
INVARIANTS
    InOrder
    OkMeansHandled
    GatewayExact
CHECK_DEADLOCK FALSE
