CONSTANTS
    c1 = c1  c2 = c2
    Caller <- TwoCallers
    None = None
    Size = 2
    MayFail = FALSE
    MaySeek = TRUE
    MayCancel = TRUE
SPECIFICATION Spec
SYMMETRY Symmetry
INVARIANTS TypeOK StreamWhole WaitersServed
