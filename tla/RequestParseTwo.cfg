SPECIFICATION Spec
CONSTANTS
    Workers = {w1, w2}
    NULL = NULL
INVARIANT ParsedIsOwn
CHECK_DEADLOCK FALSE
