SPECIFICATION FairSpec
CONSTANTS
    Capabilities <- OnlyTranslation
    QueueSize = 1
    Pendings <- ZeroOrMore
    MaxSegments = 2
    MaxPerChunk = 1
    MaxStarts = 3
    MaxForeign = 0
PROPERTIES StopAlwaysJoins
CHECK_DEADLOCK FALSE
