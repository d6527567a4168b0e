SPECIFICATION QerSpec
CONSTANTS
    c1 = c1  c2 = c2  NONE = NONE  AllCPUs = AllCPUs
    CPUs = {c1, c2}
    SharedLock = TRUE
    Mbrs = {2}
    Bursts = {1}
    Lens = {1}
    Word = 1024
    Cap = 3
    Div = 2
    MaxTime = 6
SYMMETRY Symmetry
INVARIANTS MbrEnforced
