CONSTANTS
    strict = strict
    lenient = lenient
    psr = psr
    crit = crit
    med = med
    None = None
    Finding <- MCFinding
    Severity <- MCSeverity
    PinFinding = {}
    Policy <- MCPolicy
    Threshold <- MCThreshold
    Enforcement <- MCEnforcement
    Neighbours <- MCNeighbours
    Selector <- MCSelector
    Report <- MCReport
    LabelOf <- MCLabelOf
    Source <- MCSource
    Resource <- MCResource
    Workload <- MCWorkload
    Version = {1, 2, 3, 4}
    MaxAge = 2
    MaxDisturbances = 0
SPECIFICATION Spec
PROPERTY ResumedWhenCompliant
