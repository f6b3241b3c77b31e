\* A zero-length bundle, as send_bundle(b"") of the peer frames it.
CONSTANTS
    CLAs = {"tcpcl", "mtcp"}
    Lengths = {0}
    DataBytes <- MCDataBytes
    MaxBundles = 2
    Timeout = FALSE
    EidLen = 3
    Ancillary = 0
    UseCrcs = {FALSE}
    SinkCount = 0
SPECIFICATION Spec
INVARIANTS
    RecvFailsOnlyAtStreamEnd
CHECK_DEADLOCK FALSE
