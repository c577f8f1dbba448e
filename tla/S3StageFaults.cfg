CONSTANTS
    c1 = c1  host = host
    Proc = {c1, host}
    Hosts = {host}
    None = None
    MaxLen = 2
    PartSize = 2
    Nonce = {1, 2, 3, 4, 5}
    Upload = {1, 2, 3}
    MaxCalls = 2
    MaxFaults = 1
    MaxOthers = 2
SPECIFICATION FairSpec
 
INVARIANTS TypeOK StageKept ChunksKept ReceiptTrue
