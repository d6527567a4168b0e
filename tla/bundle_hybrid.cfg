SPECIFICATION Spec
CONSTANTS
    w1 = w1  w2 = w2  c1 = c1  c2 = c2  e1 = e1  e2 = e2  e3 = e3  e4 = e4
    NONE = NONE
    Writers = {w1}
    CPUs = {c1}
    Elems = {e1, e2}
    Fields <- TwoFields
    Ids <- MCIds
    Recycling = TRUE
    Reinstalls = FALSE
    OtherKeys = FALSE
    MaxGen = 1
SYMMETRY Symmetry
INVARIANT NoHybrid
