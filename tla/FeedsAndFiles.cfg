CONSTANTS
    Experiments = {1, 2}
    Priority <- ServicePriority
    WorkerIds = {"s1", "s2"}
    Processes = {"s1", "s2"}
    Services = {"s1", "s2"}
    Clis = {}
    Nobody = Nobody
    MaxScore = 2
    Fragile = {}
    ReadCommitted = TRUE
    Freezers = {"p", "q"}
    Evaluations = {"a"}
    MaxVersion = 2
    Downloads = {"p", "q", "r"}
    MaxToken = 3
    Orders = {"o1", "o2"}
    Outside = "outside"
    MaxLinks = 2
    MaxOutside = 1
    Local = {"a", "b"}
    Remote = {"p", "q"}
    MaxId = 2
    KeptLocal = 1
    KeptTournament = 1
    Feeds = {"p", "q"}
    MaxSecond = 3
    Retained = 2
    Attempts = {"a", "b", "c"}
    MaxDigest = 2
    MaxValidation = 2
    Accounts = 2
    MaxMinute = 3
    MaxUpdates = 2
    MaxAge = 2
    MaxDrops = 1
    Files = {"f", "g"}
    MaxReleases = 1
    KeptReleases = 0
SPECIFICATION PartsSpec
INVARIANTS
    ActiveIsWhole
    StoredTokenWorks
    SessionIsTrusted
    ArtifactsAreTrue
PROPERTIES
    
    
    ReleasesAreUndone
    BackupsHold
    ChampionsStand
    
VIEW PartView
CHECK_DEADLOCK FALSE
