SPECIFICATION Spec
CONSTANTS
    MaxLoads = 1
    MaxLimits = 1
    Kinds = {"file"}
INVARIANT
    PolicyReachesScheduler
\* the inputs of an instance are bounded
CHECK_DEADLOCK FALSE
