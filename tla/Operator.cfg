CONSTANTS
    strict = strict
    psr = psr
    crit = crit
    None = None
    Finding <- MCFinding
    Severity <- MCSeverity
    PinFinding = {}
    Policy <- MCPolicy
    Threshold <- MCThreshold
    Enforcement <- MCEnforcement
    Neighbours <- MCNeighbours
    Selector <- MCSelector
    Report <- MCReport
    LabelOf <- MCLabelOf
    Source <- MCSource
    Resource <- MCResource
    Workload = {}
    Version = {1, 2, 3, 4}
    MaxAge = 1
    MaxDisturbances = 2
SPECIFICATION FairOpSpec
INVARIANT NoSelfConflict
PROPERTIES
    BadPipelineSuspended
    FixedPipelineRestored
