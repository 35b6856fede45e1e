CONSTANTS
    Q = 1
    MAX_OPENING_ATTEMPTS = 1
    MAX_CLOSING_ATTEMPTS = 1
SPECIFICATION Spec
PROPERTIES NoOverlap
CHECK_DEADLOCK FALSE
