SPECIFICATION Spec
CONSTANTS
    NONE = NONE
    Errnos = {2, 22}
    FwdOpts <- MCFwdOpts
    PdrOpts <- MCPdrOpts
INVARIANTS AddedMeansAccepted
