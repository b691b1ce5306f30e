CONSTANTS
    DecisionIds = {"buy", "sell", "twin"}
    Signed <- MC_Signed
    Runners = {"runner"}
    Agents = {}
    Operators = {}
    VolumePerUnit = 2
    BrokerId <- MC_TwinIds
    NoId = "no_id"
    MaxFailures = 2
    MaxFaults = 1
    MaxRebases = 1
SPECIFICATION FairSpec
PROPERTIES
    RunnerHolds
    MirroredOrStopped
