CONSTANTS
    c1 = c1  c2 = c2
    Caller <- TwoCallers
    None = None
    Size = 1
    MayFail = TRUE
    MaySeek = FALSE
    MayCancel = FALSE
SPECIFICATION FairSpec
PROPERTIES  ReadsReturn 
\* Each caller makes one call: the system stops when all have returned.
CHECK_DEADLOCK FALSE
