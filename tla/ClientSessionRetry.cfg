\* Two connections, two packets each.
SPECIFICATION FairSpec
CONSTANTS
    Codes = {k1}
    NoCode = NoCode
    MaxAttempts = 2
    MaxAsked = 2
PROPERTY BlockedIsRetried
CHECK_DEADLOCK FALSE
