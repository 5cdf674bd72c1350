SPECIFICATION Spec
CONSTANTS
    Device = {"P1", "P2"}
    Initial = {"P1"}
    Commissioned = {"P1", "P2"}
    Script <- MCScript
    Reading <- MCReading
    FaultPlan <- MCFaultPlan
    MaxSlices = 3
    MaxReports = 2
    MaxMissed = 1
CHECK_DEADLOCK FALSE
INVARIANT
    EvidenceIsNewer
    GapsEndInARebirth
