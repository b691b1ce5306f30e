CONSTANTS
    Experiments = {1, 2}
    Priority <- MC_Priority
    WorkerIds <- MC_WorkerIds
    Processes <- MC_Processes
    Main = main
    Threads = {t1, t2}
    Crowned = {}
    Pids = {1}
    Overlapping = {}
    Nobody = Nobody
    MaxScore = 0
    MaxRetries = 2
    MaxFailures = 1
    MaxSlow = 1
    MaxFaults = 1
    ReadCommitted = TRUE
SPECIFICATION FairSpec
PROPERTIES
    PoolProgresses
