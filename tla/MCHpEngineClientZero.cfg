CONSTANTS
  Ticks = {1, 2}
  Lots = {0, 1, 2}
  Clients = {0, 7}
  MaxFills = {{}, {1}}
  MaxOrders = 3
  LevelPoolCap = 1
SPECIFICATION Spec
PROPERTIES
  RevokeNamesOwner
