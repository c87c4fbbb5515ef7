SPECIFICATION Spec
CONSTANTS
    EPOCH = 20
    PLAUSIBLE = 10
    Errors <- ErrorsUsed
    MICROS = 4
    max_lines = 2
    BYTE = 4
    MS = 6
    MaxNow = 5
    MaxSets = 2
    MaxLines = 3
INVARIANT TicketAgeKept
INVARIANT LoggedTimesKept
INVARIANT SignatureReadable
