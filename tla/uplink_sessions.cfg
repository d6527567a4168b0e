SPECIFICATION Spec
CONSTANTS
    s1 = s1  s2 = s2  s3 = s3  p1 = p1  p2 = p2  c1 = c1  c2 = c2  NONE = NONE
    Sessions = {s1, s2, s3}
    Procs = {p1, p2}
    Harness = {p2}
    Owner <- MCOwner
    CPUs = {c1}
    MaxPdrs = 2
    MaxTeids = 2
    Fars <- MCFars
SYMMETRY Symmetry
INVARIANTS TypeOK SessionComplete MissOnlyIfChanged
PROPERTY NoEviction
