SPECIFICATION Spec
CONSTANTS
    Transfers = {t1, t2}
    MaxConcurrency = 1
INVARIANT ConcurrencyBounded
