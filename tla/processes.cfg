\* Two handlers, one service, a maintenance that the agent keeps busy; two
\* instances, one with an unusable address; two good configurations and a bad one.
SPECIFICATION FairSpec
CONSTANTS
    Callers = {c1, c2}
    Services = {s1}
    Conns = {n1, n2}
    Calls = 2
    Faults = 1
    NoConn = NoConn
    Losses = 1
    Slips = 1
    None = None
    Instances = {i1, i2, bogus}
    Usable = {i1, i2}
    MaxIndex = 3
    Restores = 1
    Errors = 1
    MaxDelay = 2
    Configs = {good1, good2, bad}
    Good = {good1, good2}
    MaxWrite = 4
    Outages = 2
    Absent = Absent
    good1 = good1
    NilErrors = FALSE
CHECK_DEADLOCK FALSE
INVARIANTS
    NothingLeaks
    OneConnection
    NothingLeftBehind
    NoStray
    ClosedUnused
PROPERTIES
    StaysRegistered
    NobodyHangs
    AddressesCatchUp
    ConfigCatchesUp
    WindsDown
