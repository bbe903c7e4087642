CONSTANTS
    Calls = {c1, c2}
    Targets = {t1}
    None = None
    MaxAttempt = 3
    MaxRetries = 3
    Timeout = 1
    BlockTimeout = 3
SPECIFICATION SerialSpec
INVARIANT GuessesAreLimited
INVARIANT SendsAreLimited
INVARIANT VerifiedWasAccepted
PROPERTY BlockLasts
