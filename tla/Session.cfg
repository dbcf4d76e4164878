\* Requests of up to three prompt tokens and rounds of up to three passes.
SPECIFICATION Spec
CONSTANTS
    SinkSize = 2
    SinkRows = 2
    WindowSize = 2
    PoolBlock = 2
    MaxContext = 7
    NLayers = 4
    NKvHeads = 2
    KvCacheSize = 2
    ScoreSlack = 3
    MemoryBlocks = 1
    MaxPrompt = 3
    MaxRound = 3
    MaxTokens = 12
INVARIANTS TypeOK LayersRemember ScoresFit RoundsFitMemory
PROPERTY StarvedForGood
