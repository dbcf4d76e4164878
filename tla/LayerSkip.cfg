\* Every pass is announced; thresholds change between passes.
SPECIFICATION CallerSpec
CONSTANTS
    NLayers = 7
    Interval = 2
    Thresholds <- WeakAndStrong
    Hiddens <- SomeHiddens
INVARIANTS ControllerTypeOK SkippedAfterRun RecomputedWithinInterval
