CONSTANTS
    strict = strict
    psr = psr
    deploy = deploy
    crit = crit
    med = med
    None = None
    Finding <- MCFinding
    Severity <- MCSeverity
    PinFinding = {}
    Policy <- MCPolicy
    Threshold <- MCThreshold
    Enforcement <- MCEnforcement
    Neighbours <- MCNeighbours
    Selector <- MCSelector
    Report <- MCReport
    LabelOf <- MCLabelOf
    Source <- MCSource
    Resource <- MCResource
    Workload <- MCWorkload
    Version = {1, 2, 3, 4}
    MaxAge = 2
    MaxDisturbances = 0
SPECIFICATION FairSpec
PROPERTY ViolationSuspends
