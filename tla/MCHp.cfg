SPECIFICATION PartSpec
CONSTANTS
    Cap = 4
    IndexSpace = 8
    Numbers = 9
    BatchMax = {1, 4}
INVARIANTS
    RingSafe
    TreeSound
    StructuresAgree
PROPERTIES
    ImplementsFifo
    AcceptedIsApplied
    ImplementsMap
    ImplementsQueue
