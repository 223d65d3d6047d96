SPECIFICATION Spec
CONSTANTS
    MaxLoads = 2
    MaxLimits = 0
    Kinds = {"file"}
INVARIANT
    ReadsOwnStorage
\* the inputs of an instance are bounded
CHECK_DEADLOCK FALSE
