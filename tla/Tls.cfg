SPECIFICATION FairSpec
CONSTANTS
    Fds = {1, 2}
    Protocols = {"TLSv1.2", "TLSv1.3"}
    Sleeps = TRUE
    MaxConnects = 3
INVARIANT OthersUntouched
INVARIANT NothingLostOrDangling
INVARIANT NotOfferedAgain
INVARIANT ExportedOnce
PROPERTY DropEnds
