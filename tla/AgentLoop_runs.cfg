CONSTANTS
    Agents = {"a", "b"}
    EngineProcs = {"e"}
    MaxSteps = 1
    MaxBar = 1
    MaxCalls = 2
    MaxRuns = 1
SPECIFICATION Spec
INVARIANTS
    RunsAreReported
PROPERTIES
    AgentProgresses
CHECK_DEADLOCK FALSE
