\* A handler task cancelled before its first step never runs its finally
\* block: the accepted connection is left open without termination.
CONSTANTS
    c1 = c1
    c2 = c2
    Conn <- MCConnOne
    MaxData = 1
SPECIFICATION Spec
INVARIANTS
    HandlerExitClosesTransport
CHECK_DEADLOCK FALSE
