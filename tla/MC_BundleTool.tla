----------------------------- MODULE MC_BundleTool -----------------------------
(* Instances of both serializers for TLC.                                  *)
EXTENDS BundleTool

\* BPv7: the instances of MC_Bundle7Blocks.  Block numbers a creator
\* chooses beyond the payload's.
MCCreatorNumbers == {2, 3}

\* Primary blocks: one created at the DTN epoch with a CRC-32, a fragment
\* with a CRC-16 that asks for status times, and one without CRC.
MCPrimaries ==
    { PrimaryBlock(0, CRC32, Dtn(<<97>>), Ipn(1, 300), DtnNone,
                      <<0, 0>>, 300, None, None),
      PrimaryBlock(IS_FRAGMENT + REPORT_STATUS_TIME, CRC16, Ipn(2, 1), Dtn(<<97>>),
                      Dtn(<<97>>), <<600000000, 5>>, 1, 0, 2),
      PrimaryBlock(0, CRC_NONE, DtnNone, Dtn(<<98>>), DtnNone,
                      <<600000000, 0>>, 0, None, None) }

MCPayloadData == <<104, 105>>

\* Status reports: the time of __main__'s report in tools/bundle7 (ten
\* seconds after 2019-01-01).
MCReportTimes == {1546300810}

MCPreviousNode == Ipn(7, 0)

\* BPv6: ASCII EIDs.  The tool's own source "dtn:2" and destination
\* "dtn:1", an SSP holding a second colon, an EID without a colon, an
\* empty scheme, and the null EID.
DTN_2 == <<100, 116, 110, 58, 50>>
DTN_1 == <<100, 116, 110, 58, 49>>
DTN_A_B == <<100, 116, 110, 58, 97, 58, 98>>
NO_COLON == <<120>>
EMPTY_SCHEME == <<58, 97>>
NULL_EID == <<100, 116, 110, 58, 110, 111, 110, 101>>

MCSources == {DTN_2}
MCDestinations == {DTN_1, DTN_A_B, NO_COLON}
MCReportTos == {NULL_EID}
MCCustodians == {NULL_EID, EMPTY_SCHEME}

\* The defaults of serialize_bundle6 (None), and an explicit sequence
\* number that the counter also hands out.
MCTimestampArgs == {None6}
MCSequenceArgs == {None6, 0}

\* DEFAULT_OUTGOING (0x90) with and without IS_FRAGMENT; fragment fields
\* absent, present (a 2-byte SDNV total), or only one of them given.
MCFlagArgs == {144, 145}
MCFragmentArgs ==
    { [offset |-> None6, total |-> None6],
      [offset |-> 0, total |-> 200],
      [offset |-> 0, total |-> None6] }

MCPayloads == {<<52, 50>>}

\* Two clock readings (2019-01-01), so the clock may stall or step back.
MCUnixTimes == {1546300800, 1546300801}

\* The draft in tools/bundle7.  serialize_bundle7 of tcpcl_test_common is
\* called with the tools' source "dtn:2"; destinations are the tools'
\* "dtn:1" and config EID (shortened to "dtn://c"), an ipn EID, an ipn
\* EID without a service number and one with two colons.
DTN_CONFIG == <<100, 116, 110, 58, 47, 47, 99>>
IPN_1_2 == <<105, 112, 110, 58, 49, 46, 50>>
IPN_1 == <<105, 112, 110, 58, 49>>
DTN_G == <<100, 116, 110, 58, 71>>

MCSourcesD == {DTN_2}
MCDestinationsD == {DTN_1, DTN_CONFIG, IPN_1_2, IPN_1, DTN_A_B}
MCPreviousNodesD == {NULL_EID, DTN_G}

\* fragment_offset: None, 0 (falsy, so serialize draws a random offset)
\* and a true offset.
MCOffsetArgs == {NoneD, 0, 5}

\* Primary blocks a caller of the package builds: __main__'s (flags
\* MUST_NOT_BE_FRAGMENTED | CONTAINS_MANIFEST | REPORT_DELIVERY |
\* REPORT_STATUS_TIME, created at dtn_start, default CRC-16 and
\* lifetime), a fragment at offset 0 with a CRC-32, and one without CRC
\* that asks for status times.
MCDraftPrimaries ==
    { PrimaryBlockDraft(2244, CRC16_D, EidDraft(DTN_G).item, DtnNoneDraft,
                        DtnNoneDraft, <<0, 0>>, NoneD, 86400),
      PrimaryBlockDraft(IS_FRAGMENT_D, CRC32_D, EidDraft(IPN_1_2).item,
                        EidDraft(DTN_2).item, EidDraft(DTN_1).item,
                        <<600000000, 3>>, 0, 300),
      PrimaryBlockDraft(REPORT_STATUS_TIME_D, CRC_NONE_D, EidDraft(DTN_1).item,
                        EidDraft(IPN_1_2).item, EidDraft(DTN_2).item,
                        <<600000000, 0>>, NoneD, 300) }

\* Extension blocks of __main__ (Previous-Node "dtn:G", Hop-Count (30, 0),
\* Bundle-Age 0) with several CRC types, and a Hop-Count block the
\* caller numbered 1.
MCExtBlocks ==
    { PreviousNodeBlockDraft(EidDraft(DTN_G).item, CRC32_D),
      HopCountBlockDraft(30, 0, CRC32_D),
      BundleAgeBlockDraft(0, CRC16_D),
      [HopCountBlockDraft(30, 0, CRC_NONE_D) EXCEPT !.number = 1] }

\* Two clock readings ten seconds apart (2019-01-01).
MCClock == {1546300800, 1546300810}

\* One payload: its bytes are not looked at.
MCDraftPayloads == {MCPayloadData}
==============================================================================
