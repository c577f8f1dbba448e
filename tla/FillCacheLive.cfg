CONSTANTS
    c1 = c1  c2 = c2
    Caller <- TwoCallers
    None = None
    Size = 1
    MayFail = FALSE
    MayCorrupt = FALSE
    MaySeek = FALSE
    MayCancel = TRUE
    Others = FALSE
SPECIFICATION FairSpec
PROPERTIES FlightsEnd FillsReleased
