SPECIFICATION Spec
CONSTANTS
    Workers = {w1, w2}
    NULL = NULL
INVARIANTS TypeOK ParsedAloneIsOwn
CHECK_DEADLOCK FALSE
