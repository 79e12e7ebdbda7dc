\* A request that midnight overtakes, without faults.
SPECIFICATION Spec
CONSTANTS
    Requests <- MCRequests
    Instances <- MCInstances
    Addresses = {a1, a2}
    Spenders = {s1, s2}
    Entries = {s1, s2, other}
    Listing <- MCListing
    Days <- MCDays
    QueryLimit = 2
    AddressLimit = 1
    UpstreamLimit = 5
    Faults = 0
    PageSize = 2
    MaxPages = 2
    MaxSpenders = 1
    Nobody = Nobody
    a1 = a1
    a2 = a2
    s1 = s1
    s2 = s2
    other = other
CHECK_DEADLOCK FALSE
INVARIANT
    RefusedOnlyWhenSpent
