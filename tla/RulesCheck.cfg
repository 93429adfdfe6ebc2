CONSTANTS
    crit = crit
    high1 = high1
    high2 = high2
    unpinned = unpinned
    unpinnedHigh = unpinnedHigh
    note = note
    odd = odd
    Finding <- MCFinding
    Severity <- MCSeverity
    PinFinding <- MCPinFinding
    Limits <- MCLimits
SPECIFICATION Spec
INVARIANTS
    LevelIsWorstBreach
    ZeroToleranceAgrees
PROPERTIES
    NewFindingsNeverRelax
    LooserLimitsNeverTighten
