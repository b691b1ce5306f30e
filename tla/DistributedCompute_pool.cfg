CONSTANTS
    Experiments = {1, 2}
    Priority <- MC_Priority
    WorkerIds <- MC_WorkerIds
    Processes <- MC_Processes
    Main = main
    Threads = {t1, t2}
    Crowned = {1}
    Pids = {1, 2}
    Overlapping = {}
    Nobody = Nobody
    MaxScore = 2
    MaxRetries = 2
    MaxFailures = 1
    MaxSlow = 1
    MaxFaults = 0
    ReadCommitted = FALSE
SPECIFICATION Spec

    
PROPERTIES
    ImplementsLifecycle
SYMMETRY MC_Symmetry
