\* Two sessions on the gate's one activity event.
SPECIFICATION FairSpec
CONSTANTS
    s1 = s1
    s2 = s2
    Sessions <- TwoSessions
    Estimates <- OneEstimate
    History = 1
    MaxInterval = 1
    MaxStarts = 2
    MaxActive = 1
INVARIANT Wakeups
PROPERTIES DeferredOncePerStart PreemptionComes EveryoneAdmitted
CHECK_DEADLOCK FALSE
