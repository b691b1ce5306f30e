CONSTANTS
    Callers = {"agent"}
    DecisionIds = {"buy", "sell"}
    Proposal <- MC_Proposal
    Prices = {2, 4}
    InitialCash = 10
    RebaseCash = 10
    DailyLossLimit = 4
    DrawdownPercent = 25
    MaxPosition = 2
    MaxTradesPerDay = 1
    MaxAge = 0
    Bar = 1
    TicksPerDay = 2
    ClosedTicks = {1}
    MaxTime = 2
SPECIFICATION Spec
INVARIANTS
    FilledOnce
    AccountIsSound
    LedgerIsSound
PROPERTIES
    GatesCompose
    StopHoldsUntilExplicitStart
    ImplementsContract
