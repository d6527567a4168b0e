SPECIFICATION Spec
CONSTANTS
    NONE = NONE
    Errnos = {2, 22}
    FwdOpts <- MCFwdOpts
    PdrOpts <- MCPdrOpts
INVARIANTS TypeOK Understood FamilyFound NoFalseAlarm LinkReportTrue
PROPERTY EveryRunEnds
