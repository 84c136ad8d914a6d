\* The trend strategy on two symbols, without slippage.
CONSTANTS
    s1 = s1
    s2 = s2
    Symbols = {s1, s2}
    One = 10
    FeeRate = 1
    SlowPeriod = 1
    Confirmation = 1
    ExitConfirmation = 1
    FixedStop = 3
    TrailingStop = 4
    TakeProfit = 6
    EntryAllocation = 10
    Cooldown = 1
    RsiPeriod = 1
    BollingerPeriod = 1
    StagedEntries = 2
    StagedDistance = 2
    MaxHolding = 2
    StopLoss = 5
    ReversionProfit = 6
    MinimumProfit = 0
    LowerBound = 8
    UpperBound = 12
    GridCount = 2
    CapitalPerGrid = 4
    MaximumInventory = 6
    CloseOutOfRange = FALSE
    GridStop = 3
    Universes <- Halves
    Candles <- SwingFallRiseDip
    Kinds = {"trend"}
    Slippages = {0}
    Capitals = {100000}
    Window = 1002
SPECIFICATION ReplaySpec
INVARIANTS
    FundedInTime
