CONSTANTS
  Publishers = {p, q}
  Cap = 2
  BatchSizes = {2}
  MaxRequest = 2
  Wrap = 16
  MaxMsgs = 3
  MaxHeartbeats = 0
  MaxLost = 0
  MaxRepeats = 0
  MaxTruncated = 0
SPECIFICATION Spec
INVARIANTS
    DeliveredAsAssigned
CHECK_DEADLOCK FALSE
