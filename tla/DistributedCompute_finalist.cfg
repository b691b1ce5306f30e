CONSTANTS
    Experiments = {1}
    Priority <- MC_Priority
    WorkerIds <- MC_WorkerIds
    Processes <- MC_Processes
    Main = main
    Threads = {t1}
    Crowned = {}
    Pids = {1}
    Overlapping = {}
    Nobody = Nobody
    MaxScore = 1
    MaxRetries = 2
    MaxFailures = 2
    MaxSlow = 0
    MaxFaults = 0
    ReadCommitted = FALSE
SPECIFICATION Spec
INVARIANTS
    FinalistsDoNotFail
