\* The owner and two connections to an API that takes one; the server is started up to
\* twice.
CONSTANTS
    Owner = Owner
    Connections = {c1, c2}
    MaxConnections = 1
    MaxStarts = 2
SPECIFICATION Spec
INVARIANTS
    TypeOK
    OneStopPerStart
    MembersOutliveHandlers
PROPERTY
    EveryStopReturns
    IsOneSwitch
\* The engine is destroyed and every thread has ended.
CHECK_DEADLOCK FALSE
