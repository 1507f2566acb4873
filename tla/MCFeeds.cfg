CONSTANTS
  Publishers = {p}
  Cap = 2
  BatchSizes = {2}
  MaxRequest = 2
  Wrap = 16
  MaxMsgs = 5
  MaxHeartbeats = 1
  MaxLost = 2
  MaxRepeats = 1
  MaxTruncated = 1
SPECIFICATION PartSpec
INVARIANTS
    RingSound
    LossHandled
    CountIsExact
    PortSound
    CodecsExact
PROPERTIES
    CatchesUp
    ReplayEnds
CHECK_DEADLOCK FALSE
