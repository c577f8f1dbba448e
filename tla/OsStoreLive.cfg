CONSTANTS
    p1 = p1  p2 = p2  p3 = p3
    n1 = n1  n2 = n2
    i1 = i1  i2 = i2
    Proc <- TwoProcs
    Namespace <- OneNamespace
    Inode = {i1, i2}
    None = None
    Ops = {"Add", "Link", "Erase", "Label", "Open", "Reclaim"}
    Verify = TRUE
    NlinkKnown = TRUE
    Attempts = 5
    MayFail = TRUE
    MayCrash = FALSE
SPECIFICATION FairSpec
PROPERTIES LockReleased CallsProgress
