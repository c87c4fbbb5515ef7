SPECIFICATION Spec
CONSTANTS
    Fds = {1, 2}
    Protocols = {"TLSv1.2", "TLSv1.3"}
    Sleeps = TRUE
    MaxConnects = 3
INVARIANT StartsClean
