SPECIFICATION FairSpec
CONSTANTS
    Workers = {w1, w2}
    Pages = {b1}
    None = None
    Empty = Empty
    Broken = Broken
    Questions = {1, 2}
    MaxPosts = 2
    MaxStarts = 1
INVARIANTS TypeOK LogKept UnreadableOnly
PROPERTIES CatchesUp ShutdownEnds
CHECK_DEADLOCK FALSE
