CONSTANTS
    p1 = p1  p2 = p2  p3 = p3
    n1 = n1  n2 = n2
    i1 = i1  i2 = i2
    Proc <- ThreeProcs
    Namespace <- TwoNamespaces
    Inode = {i1, i2}
    None = None
    Ops = {"Add", "Link", "Erase", "Label"}
    Verify = TRUE
    NlinkKnown = TRUE
    Attempts = 5
    MayFail = FALSE
    MayCrash = FALSE
SYMMETRY Symmetry
SPECIFICATION Spec
INVARIANT OneInode
PROPERTIES OnlyEraseRemoves ImplementsBlobStore
