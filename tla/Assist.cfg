\* A session with two capabilities over a FIFO of one place that overflows.
SPECIFICATION FairSpec
CONSTANTS
    Capabilities <- Mixed
    QueueSize = 1
    Pendings <- ZeroOrMore
    MaxSegments = 3
    MaxPerChunk = 2
    MaxStarts = 3
    MaxForeign = 1
INVARIANT Inv
PROPERTIES DisplaySpec ProcessingResolves NewestIsTranslated StopJoins TranslatesNewestWhenIdle
CHECK_DEADLOCK FALSE
