CONSTANTS
    app = app
    kust = kust
    main = main
    dev = dev
    psr = psr
    crit = crit
    None = None
    Finding <- MCFinding
    Severity <- MCSeverity
    PinFinding = {}
    Source <- MCSource
    Ref <- MCRef
    RefOf <- MCRefOf
    Report <- MCReport
    ReportOf <- MCReportOf
    Version = {1, 2, 3, 4, 5}
    MaxDisturbances = 1
SPECIFICATION Spec
INVARIANTS
    TypeOK
    NoForeignFindings
    VersionsIdentify
    NoWakeUpLost
    AnalysisGoesOn
PROPERTIES
    ReporterOnlyNormalises
    RefinesRegister
\* The bound on disturbances and the empty work queue of a fresh cluster
\* both let the system come to rest.
CHECK_DEADLOCK FALSE
