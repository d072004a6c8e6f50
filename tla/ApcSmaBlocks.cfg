SPECIFICATION Spec
CONSTANTS
    Procs = {p1}
    NumSeg = 1
    SegSize = 17
    HeaderSize = 1
    BlockSize = 1
    Requests = {1, 2, 4}
INVARIANT TypeOK
INVARIANT SegmentExact
INVARIANT Coalesced
