\* close() cancels only the tasks listed at that moment, and the loop may
\* stop with a handler still pending.
CONSTANTS
    c1 = c1
    c2 = c2
    Conn <- MCConnOne
    MaxData = 1
SPECIFICATION Spec
PROPERTIES
    CloseFinishesHandlers
CHECK_DEADLOCK FALSE
