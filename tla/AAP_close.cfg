\* aap_send against a daemon that may close the connection.
CONSTANTS
    Tools = {"aap_send"}
    Eids <- MCEids
    Payloads <- MCPayloads
    BundleIds <- MCBundleIds
    ConfigEids <- MCConfigEids
    ClaAddresses <- MCClaAddresses
    ReachableLists <- MCReachableLists
    ContactArgs <- MCContactArgs
    Clocks <- MCClocks
    MaxCount = 1
    MaxDeliver = 0
SPECIFICATION Spec
PROPERTIES
    AgentEndsOnClose
CHECK_DEADLOCK FALSE
