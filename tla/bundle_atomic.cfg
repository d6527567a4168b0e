SPECIFICATION Spec
CONSTANTS
    w1 = w1  w2 = w2  c1 = c1  c2 = c2  e1 = e1  e2 = e2  e3 = e3  e4 = e4
    NONE = NONE
    Writers = {w1}
    CPUs = {c1}
    Elems = {e1, e2, e3}
    Fields <- OneField
    Ids = {1}
    Recycling = FALSE
    Reinstalls = TRUE
    OtherKeys = TRUE
    MaxGen = 3
SYMMETRY Symmetry
INVARIANT TypeOK
PROPERTY IsAtomicRule
