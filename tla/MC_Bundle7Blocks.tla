--------------------------- MODULE MC_Bundle7Blocks ---------------------------
(* Instances of the BPbis bundle for TLC.                                  *)
EXTENDS Bundle7Blocks

\* Block numbers a creator chooses beyond the payload's.
MCCreatorNumbers == {2, 3}

\* Block numbers Bundle.parse takes from the wire, for extension blocks
\* and for the payload block.
MCWireNumbers == {1, 2}

\* Primary blocks: one created at the DTN epoch with a CRC-32, a fragment
\* with a CRC-16, and one without CRC.  EIDs cover the dtn and ipn
\* schemes, 'dtn:none' and a service number past one head byte; the
\* lifetime of create_bundle7 (300 s) needs a 4-byte CBOR head.
MCPrimaries ==
    { PrimaryBlock(0, CRC32, Dtn(<<97>>), Ipn(1, 300), DtnNone,
                   <<0, 0>>, 300, None, None),
      PrimaryBlock(IS_FRAGMENT, CRC16, Ipn(2, 1), Dtn(<<97>>), Dtn(<<97>>),
                   <<600000000, 5>>, 1, 0, 2),
      PrimaryBlock(0, CRC_NONE, DtnNone, Dtn(<<98>>), DtnNone,
                   <<600000000, 0>>, 0, None, None) }

MCPayloadData == <<104, 105>>

MCPreviousNode == Ipn(7, 0)
==============================================================================
