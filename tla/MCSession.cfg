SPECIFICATION Spec
CONSTANTS
    heartbeat_ms = 3
    EXTENSIONS_INVITATION_WAIT_MS = 2
    linger = 2
    limit = 5
    Uses <- MCUses
    CallbackMax = 1
    CallMax = 1
    MaxTime = 10
    MaxInbox = 2
INVARIANT UnansweredMeansSilence
INVARIANT DeafnessNoticed
INVARIANT SilenceBounded
INVARIANT WindowKept
