SPECIFICATION SteadySpec
CONSTANTS
    s1 = s1
    s2 = s2
    Sessions <- OneSession
    Estimates <- TwoEstimates
    History = 2
    MaxInterval = 4
    MaxStarts = 6
    MaxActive = 2
INVARIANT Inv
CHECK_DEADLOCK FALSE
