\* The three framings with the lengths that reach every header form.
CONSTANTS
    CLAs <- MCClasses
    Lengths <- MCLengths
    DataBytes <- MCDataBytes
    MaxBundles = 2
    Timeout = TRUE
    EidLen = 3
    Ancillary = 0
    UseCrcs = {FALSE, TRUE}
    SinkCount = 2
SPECIFICATION Spec
INVARIANTS
    TypeOK
    RecvFailsOnlyAtStreamEnd
    ToolCodecCopyAgrees
    ToolSppCopyAgrees
PROPERTIES
    ImplementsCLAChannel
    SinkEndsWhenServed
CHECK_DEADLOCK FALSE
