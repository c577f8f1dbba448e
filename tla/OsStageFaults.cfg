CONSTANTS
    c1 = c1  host = host  a = a
    Proc = {c1, host}
    Hosts = {host}
    None = None
    Chunk = {a}
    MaxLen = 1
    MaxCalls = 2
    MaxFaults = 2
    MaxOthers = 1
SPECIFICATION FairSpec
PROPERTIES StagesFinish
INVARIANTS TypeOK StageKept  
