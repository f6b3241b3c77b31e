\* Safety and liveness of the TCPCL listener with two concurrent clients.
CONSTANTS
    c1 = c1
    c2 = c2
    Conn <- MCConn
    MaxData = 1
SPECIFICATION Spec
INVARIANTS
    TypeOK
    StreamIntegrity
PROPERTIES
    HandlerReleasesTransport
\* The sink process ends: once every client is done and the loop closed,
\* no step remains.
CHECK_DEADLOCK FALSE
