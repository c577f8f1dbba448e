CONSTANTS
    p1 = p1  p2 = p2
    n1 = n1  n2 = n2
    Proc <- TwoProcs
    Namespace <- TwoNamespaces
    None = None
    Ops = {"Add", "Link", "Erase"}
    Grace = 1
    SweepGap = 2
    MayFail = FALSE
SYMMETRY Symmetry
SPECIFICATION Spec
INVARIANT NoLoss
