SPECIFICATION FairSpec
CONSTANTS
    Workers = {w1, w2}
    MaxWindows = 4
    ABORT = 2
    Burners = {b1, b2, b3}
    MaxSamples = 3
    Callers = {c1, c2}
    MaxClock = 3
    MaxCompilers = 2
    Room = 2
    MaxUnits = 4
    Rounds = 3
    MaxFast = 4
    MaxSlow = 3
    SlowRates = {40, 75}
    LastRates = {58, 66, 100}
    LinearPercent = 70
    HybridPercent = 65
    KneeTolerance = 1
    CoreCounts = {4, 8}
    Threshold = 250
    MaxTests = 2
    MaxQuarters = 4
    Selections <- SomeSelections
    Budgets = {16, 96}
    Attempts = 2
    Seconds = 2
    Replies = {0, 200}
    Speeds = {80, 200, 400}
    Noise = {90, 130}
    ENGAGE = 150
CHECK_DEADLOCK FALSE
INVARIANTS
    AbortCostsNothing
    PowerSaysWhatItIs
    FiguresAreOfWhatTheyName
    OneFailureCostsOne
    TrafficIsCapped
    TimedIsHandedOver
    BlameIsFounded
PROPERTIES
    WhatIsStartedEnds
