\* The four AAP tools against a daemon that welcomes, answers, delivers one
\* bundle and may close at any moment.
CONSTANTS
    Tools <- MCTools
    Eids <- MCEids
    Payloads <- MCPayloads
    BundleIds <- MCBundleIds
    ConfigEids <- MCConfigEids
    ClaAddresses <- MCClaAddresses
    ReachableLists <- MCReachableLists
    ContactArgs <- MCContactArgs
    Clocks <- MCClocks
    MaxCount = 1
    MaxDeliver = 1
SPECIFICATION Spec
INVARIANTS
    TypeOK
    AgentReadsDaemonStream
    AgentWritesWireFormat
    ConfigRoundTrip
    ConfigCopyAgrees
PROPERTIES
    ToolEndsWhenServed
\* A tool ends, and the daemon may stop writing: the system may halt.
CHECK_DEADLOCK FALSE
