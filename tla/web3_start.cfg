\* Every service starts and stops once, with the Redis client as it is.
SPECIFICATION ServiceSpec
CONSTANTS
    NilErrors = TRUE
    Losses = 0
    Slips = 0
    None = None
CHECK_DEADLOCK FALSE
INVARIANT
    RefusesForCause
