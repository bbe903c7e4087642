CONSTANTS
    Calls = {c1, c2}
    Targets = {t1}
    None = None
    MaxAttempt = 2
    MaxRetries = 2
    Timeout = 1
    BlockTimeout = 3
SPECIFICATION Spec
INVARIANT GuessesAreLimited
