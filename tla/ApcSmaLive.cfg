SPECIFICATION LiveSpec
CONSTANTS
    Procs = {p1, p2}
    NumSeg = 2
    SegSize = 7
    HeaderSize = 1
    BlockSize = 1
    Requests = {1}
PROPERTY MallocReturns

