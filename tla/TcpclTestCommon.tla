--------------------------- MODULE TcpclTestCommon ---------------------------
(***************************************************************************)
(* The TCPCL codec that the stand-alone test scripts tools/tcpcl_test/     *)
(* tcpcl_test.py and tcpspp_test.py import from tcpcl_test_common.py in    *)
(* place of pyupcn's: copies of sdnv_encode, of the contact header and of  *)
(* the data segment, and sdnv_read, which replaces sdnv_decode.  The names *)
(* carry "_copy" where pyupcn's operator of the same name is in scope.     *)
(***************************************************************************)
EXTENDS Integers, Sequences, SequencesExt

\* The while loop of the copied sdnv_encode: low 7 bits | 0x80, least
\* significant first.
RECURSIVE SdnvEncodeLoopCopy(_)
SdnvEncodeLoopCopy(value) ==
    IF value = 0 THEN <<>>
    ELSE <<(value % 128) + 128>> \o SdnvEncodeLoopCopy(value \div 128)

\* sdnv_encode: b"\0" for zero, else the loop, result[0] &= 0x7F, reversed.
sdnv_encode_copy(value) ==
    IF value = 0 THEN <<0>>
    ELSE LET result == SdnvEncodeLoopCopy(value)
         IN  Reverse([result EXCEPT ![1] = @ - 128])

\* The loop of sdnv_read(buffer, offset), offset 0-based as in Python: ok is
\* FALSE for the IndexError of buffer[offset] past the end (where pyupcn's
\* sdnv_decode raises ValueError).
RECURSIVE SdnvReadLoop(_, _, _)
SdnvReadLoop(buffer, offset, result) ==
    IF offset >= Len(buffer) THEN [ok |-> FALSE, n |-> 0, offset |-> offset]
    ELSE LET cur == buffer[offset + 1]
             n   == result * 128 + (cur % 128)
         IN  IF cur >= 128 THEN SdnvReadLoop(buffer, offset + 1, n)
             ELSE [ok |-> TRUE, n |-> n, offset |-> offset + 1]

sdnv_read(buffer, offset) == SdnvReadLoop(buffer, offset, 0)

\* TCPCLConnectionFlag.DEFAULT of the copy.
TCPCL_FLAGS_DEFAULT == 0

\* serialize_tcpcl_contact_header(source_eid) with the default flags and
\* keepalive_interval 0, eid the ASCII bytes of source_eid.
serialize_tcpcl_contact_header_copy(eid) ==
    <<100, 116, 110, 33>> \o <<3, TCPCL_FLAGS_DEFAULT>> \o <<0, 0>>
        \o sdnv_encode_copy(Len(eid)) \o eid

\* Mutant of decode_tcpcl_contact_header_copy: the length check of pyupcn's
\* decoder (offset relative to byte 8) kept with the absolute offset of
\* sdnv_read.
DecodeContactHeaderRelative(header) ==
    /\ Len(header) >= 4 /\ SubSeq(header, 1, 4) = <<100, 116, 110, 33>>
    /\ Len(header) >= 5 /\ header[5] = 3
    /\ Len(header) >= 9
    /\ LET r == sdnv_read(header, 8) IN r.ok /\ Len(header) = 8 + r.offset + r.n

\* TRUE iff decode_tcpcl_contact_header(header) returns: header[0:4] is a
\* slice, so a short header fails the magic assertion; header[4] raises
\* IndexError on four bytes; the EID length is read by sdnv_read from
\* offset 8, and end_offset is absolute.
decode_tcpcl_contact_header_copy(header) ==
    /\ Len(header) >= 4 /\ SubSeq(header, 1, 4) = <<100, 116, 110, 33>>
    /\ Len(header) >= 5 /\ header[5] = 3
    /\ Len(header) >= 9
    /\ LET r == sdnv_read(header, 8) IN r.ok /\ Len(header) = r.offset + r.n

\* serialize_tcpcl_single_bundle_segment: DATA_SEGMENT with S and E set,
\* the SDNV length, the bundle.
serialize_tcpcl_single_bundle_segment_copy(data) ==
    <<1 * 16 + 3>> \o sdnv_encode_copy(Len(data)) \o data

\* What the scripts write on one connection: the contact header, one segment
\* per bundle, and b"\x50" before the shutdown.
ToolStream(eid, bundles, shut) ==
    serialize_tcpcl_contact_header_copy(eid)
        \o FlattenSeq([i \in DOMAIN bundles |->
                         serialize_tcpcl_single_bundle_segment_copy(bundles[i])])
        \o (IF shut THEN <<80>> ELSE <<>>)
==============================================================================
