\* One event, one message that does not decode, one fault, one retry.
SPECIFICATION FairSpec
CONSTANTS
    Events = {e1}
    Poison = {p1}
    Misfits = {}
    Slots <- MCSlots
    MaxRetries = 1
    Prefetch = 2
    Faults = 1
    Nobody = Nobody
CHECK_DEADLOCK FALSE
INVARIANT
    OneRow
    DeadLetterEarned
PROPERTY
    ImplementsLedger
    SessionsKept
    EverySettles
    PublishReturns
