CONSTANTS
    factory = factory
    release = release
    Images = {factory, release}
    Updates <- MCUpdates
    FileLen = 3
    Lengths = {2, 4}
    Statuses = {403, 503}
    RetryAfters = {0, 200}
    progress_step_percent = 50
    MaxLen = 5
SPECIFICATION InstallSpec
INVARIANT StagedIsVerified
INVARIANT RetriesCostOnlyTime
INVARIANT ProgressTold
PROPERTY InstallEnds
