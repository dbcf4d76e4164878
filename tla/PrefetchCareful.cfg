\* Clients that stay within the buffer.
SPECIFICATION CarefulSpec
CONSTANTS
    a = a
    b = b
    Clients <- TwoClients
    NLayers = 2
    NMatrices = 2
    NSlots = 3
    Missing <- NoneMissing
    MaxQueue = 4
INVARIANTS NoRequestDropped
PROPERTIES WaitsEnd
