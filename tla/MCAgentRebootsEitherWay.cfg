CONSTANTS
    factory = factory
    release = release
    broken = broken
    Images = {factory, release, broken}
    Working <- MCWorking
    Updates <- MCUpdates
    FileLen = 2
    Lengths = {1}
    Statuses = {403}
    RetryAfters = {}
    progress_step_percent = 5
    MaxLen = 3
    ReconnectBackoff <- MCBackoff
    Decisions = {"Apply", "Ignore"}
    MaxInbox = 2
    MaxFaults = 3
SPECIFICATION Spec
INVARIANT RebootsEitherWay
