\* The bundles a CLA test tool builds, with either serializer: BPv7 bundles
\* from the constructor, create_bundle7 and any sequence of add calls;
\* BPv6 bundles from serialize_bundle6 over its argument space, with the
\* thread-local counter and its reset; bundles of the older generator in
\* tools/bundle7, from serialize_bundle7 of tcpcl_test_common, its
\* constructor and its status reports.
CONSTANTS
    Numbers <- MCCreatorNumbers
    PayloadNumbers = {1}
    MaxBlocks = 3
    Primaries <- MCPrimaries
    CrcTypes = {0, 1}
    PayloadData <- MCPayloadData
    PreviousNode <- MCPreviousNode
    ReportInfos = {9}
    ReportReasons = {0}
    ReportTimes <- MCReportTimes
    Sources <- MCSources
    Destinations <- MCDestinations
    ReportTos <- MCReportTos
    Custodians <- MCCustodians
    TimestampArgs <- MCTimestampArgs
    SequenceArgs <- MCSequenceArgs
    Lifetimes = {300}
    FlagArgs <- MCFlagArgs
    FragmentArgs <- MCFragmentArgs
    Payloads <- MCPayloads
    UnixTimes <- MCUnixTimes
    MaxSeq = 3
    SourcesD <- MCSourcesD
    DestinationsD <- MCDestinationsD
    PreviousNodesD <- MCPreviousNodesD
    DraftPrimaries <- MCDraftPrimaries
    ExtBlocks <- MCExtBlocks
    MaxExt = 3
    DraftPayloads <- MCDraftPayloads
    Clock <- MCClock
    FlagArgsD = {0, 1}
    OffsetArgs <- MCOffsetArgs
    InfoArgs = {1, 9}
    Reasons = {0}
SPECIFICATION ToolSpec
INVARIANTS
    ToolTypeOK
    ExtensionBlockLayout
    RoundTrip
    CrcCoversEncodedBlock
    ReportCorrelatesBundle
    RoundTrip6
    DraftBlocksVerifiable
CHECK_DEADLOCK FALSE
