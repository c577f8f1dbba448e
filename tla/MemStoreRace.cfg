CONSTANTS
    p1 = p1  p2 = p2
    n1 = n1  n2 = n2
    Proc <- TwoProcs
    Namespace <- TwoNamespaces
    Blob <- Blobs
    None = None
    Ops = {"Add", "Link", "Erase", "Label", "Open"}
    UintMod = 8
    Owner = n1
    Chunks = 2
SYMMETRY Symmetry
SPECIFICATION StageSpec
INVARIANTS RefsExact OneBlob NoDeadBlob StageTypeOK StageWhole
PROPERTIES ImplementsBlobStore CommitsStand PrunedFinal
