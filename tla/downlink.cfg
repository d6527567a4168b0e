SPECIFICATION Spec
CONSTANTS
    c1 = c1  e1 = e1  e2 = e2  e3 = e3  NONE = NONE
    Pulled = 90
    CPUs = {c1}
    Elems = {e1, e2, e3}
    Ues <- MCUes
    N3s <- MCN3s
    Frames <- MCFrames
SYMMETRY Symmetry
INVARIANTS TypeOK TunnelWhole HeaderValid TunnelRecognised
