CONSTANTS
    c1 = c1  c2 = c2
    Caller <- TwoCallers
    None = None
    Size = 1
    MayFail = TRUE
    MayCorrupt = TRUE
    MaySeek = TRUE
    MayCancel = TRUE
    Others = TRUE
SPECIFICATION Spec
SYMMETRY Symmetry
INVARIANTS TypeOK CountsExact OneFill NoLostWakeup  KeptForReaders
