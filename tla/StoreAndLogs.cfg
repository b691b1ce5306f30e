CONSTANTS
    MaxMinute = 3
    Quiet = {2}
    PageSize = 2
    Overlap = 1
    MaxDepth = 1
    MaxRefs = 1
SPECIFICATION PartsSpec
PROPERTIES
    BarsAreKept
    EvidenceIsKept
CHECK_DEADLOCK FALSE
