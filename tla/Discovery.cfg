CONSTANTS
    None = None
    MaxChanges = 2
    CrdSets <- MCCrdSets
    Manifests <- MCManifests
SPECIFICATION FairSpec
INVARIANTS
    TypeOK
    QuietRoundRegisters
PROPERTIES
    EventuallyRegistered
    EventuallyUpToDate
