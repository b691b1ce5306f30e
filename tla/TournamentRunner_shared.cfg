CONSTANTS
    Experiments = {1, 2}
    Priority <- MC_Priority
    WorkerIds = {"s1", "c1"}
    Processes = {"s1", "c1"}
    Services = {"s1"}
    Clis = {"c1"}
    Nobody = Nobody
    MaxScore = 2
    Fragile = {1}
    ReadCommitted = FALSE
SPECIFICATION FairSpec

    
PROPERTIES
    ImplementsLifecycle
    EveryExperimentSettles
