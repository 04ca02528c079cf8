\* The owner and two connections to an API that takes one; the server is started up to
\* twice.
CONSTANTS
    Owner = Owner
    Connections = {c1}
    MaxConnections = 1
    MaxStarts = 1
SPECIFICATION Spec
INVARIANT
    TickFindsTimer
\* The engine is destroyed and every thread has ended.
CHECK_DEADLOCK FALSE
