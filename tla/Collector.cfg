CONSTANTS
    Sub = 4
    Binades = 3
    StatusCode = {200, 500}
    Duration = {3, 16, 29, 32}
    TTFB = {0, 9}
    MaxStoredErrors = 2
    MaxResults = 4
SPECIFICATION Spec
CHECK_DEADLOCK FALSE
INVARIANTS StreamingIsBatch PercentilesAreClose
