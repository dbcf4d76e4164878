\* Any calls in any order, a block that cannot be loaded.
SPECIFICATION Spec
CONSTANTS
    a = a
    b = b
    Clients <- TwoClients
    NLayers = 2
    NMatrices = 2
    NSlots = 2
    Missing <- SomeMissing
    MaxQueue = 2
INVARIANTS TypeOK SlotReserved NoLostWakeup WorkerAwake
PROPERTIES NoOverwrite StopEnds
