SPECIFICATION QerSpec
CONSTANTS
    c1 = c1  c2 = c2  NONE = NONE  AllCPUs = AllCPUs
    CPUs = {c1, c2}
    SharedLock = FALSE
    Mbrs = {0, 2, 3}
    Bursts = {1, 3}
    Lens = {1, 2}
    Word = 5
    Cap = 2
    Div = 2
    MaxTime = 4
SYMMETRY Symmetry
INVARIANTS QerTypeOK WithinCredit MbrEnforced
