SPECIFICATION Spec
CONSTANTS
    c1 = c1  c2 = c2  u1 = u1  u2 = u2  NONE = NONE
    CPUs = {c1, c2}
    Urrs = {u1, u2}
    Lens = {1, 3}
    MaxUrrs = 1
    MaxPkts = 4
SYMMETRY Symmetry
INVARIANTS TypeOK PresentLosesOne ReportBounded
