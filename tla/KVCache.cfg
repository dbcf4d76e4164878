\* Stores at any position, one cell, two generations.
SPECIFICATION CacheSpec
CONSTANTS
    c1 = c1
    c2 = c2
    Cells <- OneCell
    SinkSize = 2
    SinkRows = 1
    WindowSize = 2
    PoolBlock = 2
    MaxContext = 7
    MaxStored = 7
    MaxGen = 2
INVARIANTS CacheTypeOK FifoTiers ScoresPairWithValues SinkRowsFresh
PROPERTY ImplementsLog
\* The bounds end the run.
CHECK_DEADLOCK FALSE
