---------------------------- MODULE SppTestTools ----------------------------
(***************************************************************************)
(* The Space Packet side of the TCPSPP test scripts.                       *)
(*  - src/tools/tcpcl_test/tcpspp_test.py frames its bundles with its own  *)
(*    wrap_spp and reads uPCN's packets in a loop with its own             *)
(*    parse_spp_header and decode_secondary_header, not with pyupcn.spp.   *)
(*  - src/tools/cla/tcpspp_test.py frames with pyupcn's SPPPacket and      *)
(*    reads one packet with two single sock.recv calls and                 *)
(*    SPPPacket.parse, without checking the CRC.                           *)
(* The reads are modelled whole: sock.recv(n) returns the next n bytes, or *)
(* what is left of the stream.                                             *)
(***************************************************************************)
EXTENDS CLAStream

\* recv_debug(sock, n) with a whole read: the next n bytes from offset i
\* (0-based) of the stream s, fewer only where s ends.
RecvWhole(s, i, n) == PySlice(s, i, i + n)

\* wrap_spp(payload): the secondary header (preamble 0b0_001_11_00 and the
\* seconds since the CCSDS epoch in 4 bytes), part1 0b000_0_1_00000000001
\* (secondary header flag, APID 1), part2 0b11 << 14 (unsegmented) and
\* len(payload) + len(secondary_header) - 1; ok is FALSE for `assert
\* payload` and for the OverflowError of to_bytes(2) on a longer packet.
wrap_spp(payload) ==
    LET secondary_header == <<28>> \o BigEndian(SppNow.secs, 4)
        hdr_len == Len(payload) + Len(secondary_header) - 1
    IN  [ok    |-> Len(payload) > 0 /\ hdr_len < 65536,
         bytes |-> BigEndian(2049, 2) \o BigEndian(3 * 2^14, 2)
                     \o BigEndian(hdr_len, 2) \o secondary_header \o payload]

\* Mutant of parse_spp_header: the length field taken as the length,
\* without the + 1 of the CCSDS encoding.
ParseSppHeaderRaw(data) ==
    LET hdr_p1 == FromBigEndian(PySlice(data, 0, 2))
    IN  [ok |-> Len(data) = 6 /\ hdr_p1 \div 8192 = 0,
         has_secondary_header |-> (hdr_p1 \div 2048) % 2 = 1,
         length |-> FromBigEndian(PySlice(data, 4, 6))]

\* parse_spp_header(data): `assert len(data) == 6`, the version bits zero;
\* the secondary header flag, and length = hdr_len + 1.  (is_request, apid
\* and the sequence fields are only printed.)
parse_spp_header(data) ==
    LET hdr_p1 == FromBigEndian(PySlice(data, 0, 2))
    IN  [ok |-> Len(data) = 6 /\ hdr_p1 \div 8192 = 0,
         has_secondary_header |-> (hdr_p1 \div 2048) % 2 = 1,
         length |-> FromBigEndian(PySlice(data, 4, 6)) + 1]

\* decode_secondary_header(buf): `assert buf[0] == 0x1c` (an IndexError on
\* an empty buf); the time it returns is only printed.
decode_secondary_header(buf) == Len(buf) > 0 /\ buf[1] = 28

\* The `while True` loop of main() from offset i: a packet header, the
\* 5-byte secondary header if flagged, then length - 5 payload bytes.  It
\* ends with the assertion that fails at the end of the stream (recv
\* returns b"").  payloads: what the loop printed as payloads, in order.
RECURSIVE SppCopyReadLoop(_, _, _)
SppCopyReadLoop(s, i, payloads) ==
    LET hdr == parse_spp_header(RecvWhole(s, i, 6))
        sec == RecvWhole(s, i + 6, 5)
        j   == IF hdr.has_secondary_header THEN i + 11 ELSE i + 6
        length == IF hdr.has_secondary_header THEN hdr.length - 5 ELSE hdr.length
        payload == RecvWhole(s, j, length)
    IN  IF ~hdr.ok \/ (hdr.has_secondary_header /\ ~decode_secondary_header(sec))
           \/ length < 0
        THEN payloads
        ELSE SppCopyReadLoop(s, j + Len(payload), Append(payloads, payload))

\* tools/cla/tcpspp_test.py after sending: hdr_raw = recv(6); the
\* struct.unpack of preparse_data_length fails on fewer than 6 bytes;
\* recv(data_length); SPPPacket.parse with timecode_used=True and
\* has_crc=args.with_crc, whose payload is printed.  The CRC field is
\* split off (struct.unpack fails on fewer than two bytes) but never
\* compared with packet.crc().
ClaToolSppRead(s, crc) ==
    LET hdr_raw == RecvWhole(s, 0, 6)
        data    == hdr_raw \o RecvWhole(s, 6, FromBigEndian(PySlice(hdr_raw, 4, 6)) + 1)
        hp      == SppHeaderParse(data)
        payload == PySlice(data, hp.end, hp.end + hp.h.payload_length)
    IN  IF Len(hdr_raw) < 6 \/ ~hp.ok \/ (crc /\ Len(payload) < 2) THEN Fail
        ELSE Ok(IF crc THEN PySlice(payload, 0, Len(payload) - 2) ELSE payload)

-----------------------------------------------------------------------------
(* Properties                                                              *)

\* Both TCPSPP test scripts speak the Space Packet framing of pyupcn.spp
\* (which uPCN's TCPSPP link speaks).
\*  - The stand-alone script's reader, fed the packets TCPSPPConnection's
\*    send_bundle wrote without CRC, prints exactly the bundles sent, in
\*    order: its fixed 5-byte secondary header and the length's + 1 agree
\*    with SPPTimecode and SPPPacketHeader.
\*  - Every packet its wrap_spp builds around a sent bundle is accepted by
\*    pyupcn's SPPPacket.parse as that bundle.
\*  - tools/cla/tcpspp_test.py, reading the first packet with its own
\*    use of the CRC option, prints the first bundle sent.
ToolSppCopyAgrees ==
    cla = "tcpspp" =>
        /\ ~use_crc => SppCopyReadLoop(wire, 0, <<>>) = sent
        /\ \A i \in DOMAIN sent :
             /\ wrap_spp(sent[i]).ok
             /\ SppPacketParse(wrap_spp(sent[i]).bytes, FALSE) = Ok(sent[i])
        /\ sent # <<>> => ClaToolSppRead(wire, use_crc) = Ok(sent[1])
==============================================================================
