CONSTANTS
    Messages <- MCMessages
    MAX_UNREAD_BYTES = 4
    MaxSockets = 3
    MaxAttempts = 1
SPECIFICATION Spec
INVARIANT HeldBounded
INVARIANT WholeMessages
PROPERTY SessionIsItsSocket
PROPERTY DeafnessEnds
CHECK_DEADLOCK FALSE
