CONSTANTS
    Procs = {"a", "b"}
    ActionIds = {"x"}
    Commands = {"c"}
    MaxSteps = 1
    FailureLimit = 1
    JobLimit = 1
    AnswerLimit = 0
    WorkflowLimit = 0
    StaleAfter = 2
    Keep = 1
    MaxCycles = 2
    MaxFaults = 2
SPECIFICATION Spec
PROPERTIES
    
    NoSilentStall
CHECK_DEADLOCK FALSE
