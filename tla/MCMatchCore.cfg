CONSTANTS
  OrderNos = {1, 2, 3}
  Prices = {1, 2}
  Qtys = {1, 2}
  Times = {1, 2}
  Gears = {2}
  MarketBuyTrustPrice = 9
  Replicas = {r1, r2}
  Keys = {k1, k2}
  MaxLog = 4
  MaxRestarts = 1
SPECIFICATION PartSpec
ACTION_CONSTRAINT FewLater
INVARIANTS
    Uncrossed
    TakerIsIncoming
    EventsExplainBook
    ImmediateNeverRests
    TradesAsPromised
    ReplicasFollowLog
PROPERTIES
    LoopsAdvance
