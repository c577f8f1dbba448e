CONSTANTS
    p1 = p1  p2 = p2  p3 = p3
    n1 = n1  n2 = n2
    i1 = i1  i2 = i2
    Proc <- TwoProcs
    Namespace <- TwoNamespaces
    Inode = {i1, i2}
    None = None
    Ops = {"Add", "Adopt", "Erase"}
    Verify = TRUE
    NlinkKnown = FALSE
    Attempts = 5
    MayFail = TRUE
    MayCrash = TRUE
SYMMETRY Symmetry
SPECIFICATION Spec
INVARIANT RightContent
