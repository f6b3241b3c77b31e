\* The TCPCL contact-header exchange of connect against a peer that sends bundles.
CONSTANTS
    CLAs = {"tcpcl"}
    Lengths = {2}
    DataBytes <- MCDataBytes
    MaxBundles = 2
    Timeout = FALSE
    EidLen = 3
    Ancillary = 0
    UseCrcs = {FALSE}
    SinkCount = 0
SPECIFICATION Spec
INVARIANTS
    ContactHeaderExchange
CHECK_DEADLOCK FALSE
