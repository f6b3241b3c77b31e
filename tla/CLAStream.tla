------------------------------ MODULE CLAStream ------------------------------
(***************************************************************************)
(* The client side of the three convergence layers of pyupcn over one TCP *)
(* connection: TCPCLConnection (src/pyupcn/tcpcl.py), MTCPConnection       *)
(* (src/pyupcn/mtcp.py) and TCPSPPConnection (src/pyupcn/spp.py).  The     *)
(* peer frames bundles with the repository's own send_bundle; the client   *)
(* receives them with recv_bundle, whose every read is a call of           *)
(* sock_recv_raw (src/pyupcn/helpers.py).  TCP may hand the bytes to each  *)
(* sock.recv() in any chunking.  Bytes are integers 0..255; a bundle is    *)
(* LEN copies of one byte value.                                           *)
(***************************************************************************)
EXTENDS Integers, Sequences, SequencesExt, FiniteSets, SDNV, TcpclTestCommon

CONSTANTS
    CLAs,        \* connection classes: subset of {"tcpcl", "mtcp", "tcpspp"}
    Lengths,     \* lengths of the bundles the peer sends
    DataBytes,   \* byte values the bundles are made of
    MaxBundles,  \* bound on the bundles the peer sends
    Timeout,     \* TRUE iff recv_bundle is given a timeout (select may expire)
    EidLen,      \* length of the EID in the peer's TCPCL contact header
    Ancillary,   \* length of the SPP ancillary data field the peer adds, 0: none
    UseCrcs,     \* the use_crc values a TCPSPPConnection may be built with
    SinkCount    \* --count of tools/cla/mtcp_sink.py, which reads the MTCP
                 \* client's bundles; 0 for the default None

ASSUME CLAs \subseteq {"tcpcl", "mtcp", "tcpspp"}
ASSUME Lengths \subseteq 0..65535 /\ DataBytes \subseteq 0..255
ASSUME MaxBundles \in Nat /\ Timeout \in BOOLEAN /\ EidLen \in 1..127
ASSUME Ancillary \in Nat /\ UseCrcs \subseteq BOOLEAN /\ SinkCount \in Nat

-----------------------------------------------------------------------------
(* Byte strings                                                            *)

\* Mutant of BigEndian: the bytes not masked to 8 bits.
BigEndianUnmasked(n, w) == [i \in 1..w |-> n \div 2^(8 * (w - i))]

\* int.to_bytes(w, "big") / struct.pack("!H"), for 0 <= n < 256^w.
BigEndian(n, w) == [i \in 1..w |-> (n \div 2^(8 * (w - i))) % 256]

\* int.from_bytes(s, "big") / struct.unpack("!H").
RECURSIVE FromBigEndian(_)
FromBigEndian(s) == IF s = <<>> THEN 0 ELSE FromBigEndian(Front(s)) * 256 + Last(s)

\* The Python slice s[a:b] for 0 <= a, b: clipped at the end, empty if b <= a.
PySlice(s, a, b) == IF b <= a \/ a >= Len(s) THEN <<>>
                    ELSE SubSeq(s, a + 1, IF b < Len(s) THEN b ELSE Len(s))

Bundle(n, byte) == [j \in 1..n |-> byte]

\* Result of a decoder: a value, or the exception it raises.
Ok(n) == [ok |-> TRUE, n |-> n]
Fail == [ok |-> FALSE, n |-> 0]

-----------------------------------------------------------------------------
(* TCPCL framing (src/pyupcn/tcpcl.py)                                     *)

TCPCL_MAGIC == <<100, 116, 110, 33>>   \* b"dtn!"
TCPCL_SHUTDOWN == 80                   \* b"\x50" of disconnect()

\* The peer's contact header: v3, no flags, keepalive 0, an EidLen-byte EID.
serialize_tcpcl_contact_header ==
    TCPCL_MAGIC \o <<3, 0>> \o BigEndian(0, 2) \o sdnv_encode(EidLen)
        \o Bundle(EidLen, 97)

\* TRUE iff decode_tcpcl_contact_header(header) returns without an exception.
decode_tcpcl_contact_header(header) ==
    /\ Len(header) >= 5 /\ SubSeq(header, 1, 4) = TCPCL_MAGIC
    /\ header[5] = 3
    /\ Len(header) >= 9
    /\ LET r == sdnv_decode(SubSeq(header, 9, Len(header)))
       IN  r.ok /\ Len(header) = 8 + r.i + r.n

serialize_tcpcl_single_bundle_segment(data) ==
    <<1 * 16 + 3>> \o sdnv_encode(Len(data)) \o data

decode_tcpcl_bundle_segment_header(bindata) ==
    IF bindata[1] \div 16 # 1 \/ bindata[1] % 16 # 3 THEN Fail
    ELSE LET r == sdnv_decode(Tail(bindata)) IN IF r.ok THEN Ok(r.n) ELSE Fail

\* The reads of TCPCLConnection.recv_bundle after the header bytes hdr_raw:
\* one more byte while the last has its continuation bit set and fewer
\* than 10 were added (c = Len(hdr_raw) - 2), else the data of the length.
TcpclNextRead(hdr_raw) ==
    LET more == Last(hdr_raw) >= 128
        c == Len(hdr_raw) - 2
    IN  IF more /\ c < 10 THEN [next |-> "hdr", count |-> 1]
        ELSE IF more THEN [next |-> "error", count |-> 0]
        ELSE LET r == decode_tcpcl_bundle_segment_header(hdr_raw)
             IN  IF r.ok THEN [next |-> "data", count |-> r.n]
                 ELSE [next |-> "error", count |-> 0]

-----------------------------------------------------------------------------
(* MTCP framing (src/pyupcn/mtcp.py)                                       *)

\* cbor.dumps(bundle) of a byte string: major type 2, the length inline or
\* in 1, 2 or 4 big-endian bytes (additional information 24, 25, 26).
MtcpFrame(data) ==
    LET n == Len(data)
        head == IF n < 24 THEN <<64 + n>>
                ELSE IF n < 256 THEN <<64 + 24, n>>
                ELSE IF n < 65536 THEN <<64 + 25>> \o BigEndian(n, 2)
                ELSE <<64 + 26>> \o BigEndian(n, 4)
    IN  head \o data

\* Mutant of MtcpExtensionBytes: 1 << (ai - 23).
MtcpExtensionBytesShifted(ai) == 2^(ai - 23)

\* additional_bytes = 1 << (additional_information - 24).
MtcpExtensionBytes(ai) == 2^(ai - 24)

\* The reads of MTCPSocket.recv_bundle after the header bytes hdr: the
\* 1 << (ai - 24) extension bytes, then the data.  The length is
\* cbor.loads of the header with bit 0x40 cleared; a header of another
\* major type than 0 or 2 does not load as a length (abstracted to an error).
MtcpNextRead(hdr) ==
    LET ai == hdr[1] % 32 IN
    IF ai > 27 THEN [next |-> "error", count |-> 0]
    ELSE IF Len(hdr) = 1 /\ ai >= 24 THEN [next |-> "hdr", count |-> MtcpExtensionBytes(ai)]
    ELSE LET b0 == IF (hdr[1] \div 64) % 2 = 1 THEN hdr[1] - 64 ELSE hdr[1]
         IN  IF b0 \div 32 # 0 THEN [next |-> "error", count |-> 0]
             ELSE [next |-> "data",
                   count |-> IF ai < 24 THEN ai ELSE FromBigEndian(Tail(hdr))]

-----------------------------------------------------------------------------
(* Space Packet framing (src/pyupcn/spp.py)                                *)

\* SPPTimecode.__bytes__ of an unsegmented CCSDS-epoch timecode with its
\* preamble (the only form it accepts): type 1, base_unit_octets - 1 and
\* fractional_octets in the preamble, then the seconds and the fraction.
SppTimecodeBytes(tc) ==
    <<1 * 16 + (tc.base - 1) * 4 + tc.frac>> \o BigEndian(tc.secs, tc.base)
        \o (IF tc.frac > 0 THEN BigEndian(tc.fractional, tc.frac) ELSE <<>>)

\* SPPTimecode(): now (seconds since 1958), 4 base octets, no fraction.
SppNow == [secs |-> 2000000000, base |-> 4, frac |-> 0, fractional |-> 0]

\* SPPTimecode.length()
TimecodeLength(tc) == 1 + tc.base + tc.frac

\* SPPTimecode.parse(data): the fields the preamble announces, and the
\* number of bytes they take.
SppTimecodeParse(data) ==
    LET preamble == data[1]
        base == ((preamble \div 4) % 4) + 1
        frac == preamble % 4
    IN  [type |-> (preamble \div 16) % 8,
         tc   |-> [secs |-> FromBigEndian(PySlice(data, 1, 1 + base)),
                   base |-> base, frac |-> frac,
                   fractional |-> FromBigEndian(PySlice(data, 1 + base, 1 + base + frac))],
         len  |-> 1 + base + frac]

\* SPPPacketHeader fields.  tc is {} for no timecode, {t} for timecode t;
\* anc is the ancillary data, <<>> standing for None (the peer passes none,
\* and parse returns none when told of no ancillary data).
SppHeader(payload_length, tc, anc) ==
    [is_request |-> FALSE, apid |-> 1, segment_status |-> 3, segment_number |-> 0,
     payload_length |-> payload_length, tc |-> tc, anc |-> anc]

\* SPPPacketHeader.secondary_header_length(): the conditional expressions
\* bind as  len(anc) if anc else (0 + (tc.length() if tc else 0)), so with
\* ancillary data the timecode's length is dropped.
secondary_header_length(h) ==
    IF h.anc # <<>> THEN Len(h.anc)
    ELSE 0 + (IF h.tc # {} THEN TimecodeLength(CHOOSE t \in h.tc : TRUE) ELSE 0)

SppDataLength(h) == h.payload_length + secondary_header_length(h)

\* SPPPacketHeader.__bytes__: part1 (APID, type, secondary-header flag),
\* part2 (sequence flags and count), data_length() - 1, the timecode, the
\* ancillary data.
SppHeaderBytes(h) ==
    BigEndian(h.apid + (IF h.is_request THEN 4096 ELSE 0)
                     + (IF h.tc # {} \/ h.anc # <<>> THEN 2048 ELSE 0), 2)
      \o BigEndian(h.segment_status * 2^14 + h.segment_number, 2)
      \o BigEndian(SppDataLength(h) - 1, 2)
      \o (IF h.tc # {} THEN SppTimecodeBytes(CHOOSE t \in h.tc : TRUE) ELSE <<>>)
      \o h.anc

\* crc16_ccitt_false, abstracted to a 16-bit function of the bytes that
\* depends on every byte and its position: the sum of i * s[i] mod 2^16,
\* split in halves so that the recursion stays shallow.
RECURSIVE WeightedSum(_, _, _)
WeightedSum(s, lo, hi) ==
    IF lo > hi THEN 0 ELSE IF lo = hi THEN (lo * s[lo]) % 65536
    ELSE LET mid == (lo + hi) \div 2
         IN  (WeightedSum(s, lo, mid) + WeightedSum(s, mid + 1, hi)) % 65536
\* (s is bound to a value once: TLC re-evaluates an operator argument at
\* every use when it evaluates ENABLED for the client's fairness.)
SppCrc(s) == CHOOSE c \in {WeightedSum(v, 1, Len(v)) : v \in {s}} : TRUE

\* The header of send_bundle: SPPPacketHeader(timecode=SPPTimecode()), with
\* the Ancillary bytes of a peer using the library API; SPPPacket.__init__
\* sets payload_length to len(payload), plus 2 with a CRC.
SppSendHeader(data, crc) ==
    SppHeader(Len(data) + (IF crc THEN 2 ELSE 0), {SppNow}, Bundle(Ancillary, 85))

\* bytes(SPPPacket(header, data, has_crc=crc)): the header, the payload, and
\* with a CRC the big-endian crc16 of both.
\* The assertions of SPPPacketHeader.__bytes__: a payload of at least
\* minimum_payload_length(), and data_length() <= SPP_MAX_DATA_LENGTH.
SppSendable(data, crc) ==
    LET h == SppSendHeader(data, crc)
    IN  /\ h.payload_length >= (IF secondary_header_length(h) > 0 THEN 0 ELSE 1)
        /\ SppDataLength(h) <= 65536

SppPacket(data, crc) ==
    LET packet == SppHeaderBytes(SppSendHeader(data, crc)) \o data
    IN  IF crc THEN packet \o BigEndian(SppCrc(packet), 2) ELSE packet

\* The reads of TCPSPPConnection.recv_bundle after the 6 header bytes:
\* preparse_data_length, data_length + 1 bytes.
SppNextRead(hdr_raw) ==
    [next |-> "data", count |-> FromBigEndian(SubSeq(hdr_raw, 5, 6)) + 1]

\* SPPPacketHeader.parse(data, timecode_used=True), as recv_bundle calls it
\* (ancillary_data_length keeps its default 0, so no ancillary data is
\* split off): the header and payload_offset; ok is FALSE when its
\* assertion on part1, or SPPTimecode.parse on the bytes after the primary
\* header, fails.
SppHeaderParse(data) ==
    LET part1 == FromBigEndian(SubSeq(data, 1, 2))
        part2 == FromBigEndian(SubSeq(data, 3, 4))
        has_secondary_header == (part1 \div 2048) % 2 = 1
        t == SppTimecodeParse(PySlice(data, 6, Len(data)))
        payload_offset == IF has_secondary_header THEN 6 + t.len ELSE 6
        data_length == FromBigEndian(SubSeq(data, 5, 6)) + 1
    IN  [ok  |-> /\ part1 \div 8192 = 0
                 /\ has_secondary_header => Len(data) >= 7 /\ t.type = 1,
         h   |-> [is_request |-> (part1 \div 4096) % 2 = 1, apid |-> part1 % 2048,
                  segment_status |-> part2 \div 2^14, segment_number |-> part2 % 2^14,
                  payload_length |-> data_length - (payload_offset - 6),
                  tc |-> IF has_secondary_header THEN {t.tc} ELSE {},
                  anc |-> <<>>],
         end |-> payload_offset]

\* SPPPacket.parse(data, has_crc=crc) for the parsed header hp, then
\* recv_bundle's `assert packet.crc_provided == packet.crc()`: the payload,
\* or Fail for a failed assertion or a CRC field of fewer than two bytes.
\* SPPPacket.__init__ resets the header's payload_length, and crc()
\* serializes that header again.
SppPacketOf(data, crc, hp) ==
    LET payload == PySlice(data, hp.end, hp.end + hp.h.payload_length)
        body == IF crc THEN PySlice(payload, 0, Len(payload) - 2) ELSE payload
        crc_provided == FromBigEndian(PySlice(payload, Len(payload) - 2, Len(payload)))
        header == [hp.h EXCEPT !.payload_length = Len(body) + 2]
    IN  IF ~hp.ok THEN Fail
        ELSE IF crc /\ Len(payload) < 2 THEN Fail
        ELSE IF crc /\ crc_provided # SppCrc(SppHeaderBytes(header) \o body) THEN Fail
        ELSE Ok(body)

\* The decoding in recv_bundle, the parsed header bound once (see SppCrc).
SppPacketParse(data, crc) ==
    CHOOSE r \in {SppPacketOf(data, crc, hp) : hp \in {SppHeaderParse(data)}} : TRUE

-----------------------------------------------------------------------------
(* The connection                                                          *)

\* What the peer writes: per class, the framing of send_bundle.
Frame(c, crc, data) ==
    CASE c = "tcpcl"  -> serialize_tcpcl_single_bundle_segment(data)
      [] c = "mtcp"   -> MtcpFrame(data)
      [] c = "tcpspp" -> SppPacket(data, crc)

\* sock_recv_raw(sock, n) of the first read of recv_bundle.
FirstRead(c) == CASE c = "tcpcl" -> 2 [] c = "mtcp" -> 1 [] c = "tcpspp" -> 6

NextRead(c, hdr) ==
    CASE c = "tcpcl"  -> TcpclNextRead(hdr)
      [] c = "mtcp"   -> MtcpNextRead(hdr)
      [] c = "tcpspp" -> SppNextRead(hdr)

\* The value recv_bundle returns for the header and data bytes it read.
Deliver(c, crc, hdr, data) ==
    IF c = "tcpspp" THEN SppPacketParse(hdr \o data, crc) ELSE Ok(data)

VARIABLES
    cla,       \* the connection class in use
    use_crc,   \* TCPSPPConnection's use_crc, the same at both ends
    sent,      \* the bundles the peer has sent, in order
    wire,      \* the bytes the peer has written to the connection
    closed,    \* the peer has closed its side (after 0x50 for TCPCL)
    stage,     \* "connect", "idle" (between recv_bundle calls), "hdr",
               \* "data" (inside a sock_recv_raw call), "failed", "done"
               \* (mtcp_sink left its loop)
    start,     \* stream offset where the current recv_bundle began
    hdrLen,    \* header bytes this recv_bundle has read so far
    want,      \* count of the current sock_recv_raw call
    got,       \* len(buf) of the current sock_recv_raw call
    received,  \* the bundles recv_bundle returned, in order
    cause      \* why the client failed

vars == <<cla, use_crc, sent, wire, closed, stage, start, hdrLen, want, got, received, cause>>

\* Bytes in the kernel buffer, not yet returned by sock.recv().
avail == Len(wire) - (start + hdrLen + got)

TypeOK ==
    /\ cla \in CLAs
    /\ use_crc \in BOOLEAN
    /\ sent \in Seq(Seq(DataBytes)) /\ Len(sent) <= MaxBundles
    /\ wire \in Seq(0..255)
    /\ closed \in BOOLEAN
    /\ stage \in {"connect", "idle", "hdr", "data", "failed", "done"}
    /\ {start, hdrLen, want, got} \subseteq Nat
    /\ start + hdrLen + got <= Len(wire)
    /\ received \in Seq(Seq(0..255))
    /\ cause \in {"none", "eof", "timeout", "assert", "connect_eof", "connect_assert"}

Init ==
    /\ cla \in CLAs
    /\ use_crc \in IF cla = "tcpspp" THEN UseCrcs ELSE {FALSE}
    /\ sent = <<>>
    /\ wire = IF cla = "tcpcl" THEN serialize_tcpcl_contact_header ELSE <<>>
    /\ closed = FALSE
    /\ stage = IF cla = "tcpcl" THEN "connect" ELSE "idle"
    /\ start = 0 /\ hdrLen = 0 /\ want = 0 /\ got = 0
    /\ received = <<>>
    /\ cause = "none"

-----------------------------------------------------------------------------
(* The peer                                                                *)

\* send_bundle(data) of the peer's connection object.
PeerSendBundle ==
    /\ ~closed /\ Len(sent) < MaxBundles
    /\ \E n \in Lengths, b \in DataBytes :
         /\ cla = "tcpspp" => SppSendable(Bundle(n, b), use_crc)
         /\ sent' = Append(sent, Bundle(n, b))
         /\ wire' = wire \o Frame(cla, use_crc, Bundle(n, b))
    /\ UNCHANGED <<cla, use_crc, closed, stage, start, hdrLen, want, got, received, cause>>

\* disconnect() of the peer: 0x50 for TCPCL, then shutdown and close.
PeerDisconnect ==
    /\ ~closed /\ closed' = TRUE
    /\ wire' = IF cla = "tcpcl" THEN Append(wire, TCPCL_SHUTDOWN) ELSE wire
    /\ UNCHANGED <<cla, use_crc, sent, stage, start, hdrLen, want, got, received, cause>>

-----------------------------------------------------------------------------
(* The client                                                              *)

Failed(why) == stage' = "failed" /\ cause' = why

\* TCPCLConnection.connect, after sending its own header: one
\* sock.recv(1024), which returns what the kernel holds (b"" at EOF), and
\* decode_tcpcl_contact_header of it.
ConnectRecvHeader ==
    /\ stage = "connect"
    /\ avail > 0 \/ closed
    /\ \E k \in IF avail = 0 THEN {0} ELSE 1..Min({1024, avail}) :
         IF decode_tcpcl_contact_header(SubSeq(wire, 1, k))
         THEN /\ stage' = "idle" /\ start' = k
              /\ UNCHANGED cause
         ELSE /\ Failed(IF k = 0 THEN "connect_eof" ELSE "connect_assert")
              /\ UNCHANGED start
    /\ UNCHANGED <<cla, use_crc, sent, wire, closed, hdrLen, want, got, received>>

\* The next sock_recv_raw(sock, count) of recv_bundle, for the outcome r of
\* its decoding so far: a failed assertion of the decoder, or of
\* sock_recv_raw's `assert count` for a zero count.
BeginRead(r) ==
    IF r.next = "error" \/ r.count = 0
    THEN Failed("assert") /\ UNCHANGED <<want, got>>
    ELSE stage' = r.next /\ want' = r.count /\ got' = 0 /\ UNCHANGED cause

\* A call of recv_bundle: its first sock_recv_raw.
RecvBundle ==
    /\ stage = "idle"
    /\ hdrLen' = 0
    /\ BeginRead([next |-> "hdr", count |-> FirstRead(cla)])
    /\ UNCHANGED <<cla, use_crc, sent, wire, closed, start, received>>

\* Mutant of RecvCount: sock.recv(count), ignoring what buf holds.
RecvCountWhole == want

\* The argument of sock.recv in the loop of sock_recv_raw.
RecvCount == want - got

\* What one sock.recv may return once select reports the socket readable:
\* one byte or as many as it may.  Every length of buf stays reachable
\* (through one-byte returns), so no state of the loop is lost.
Chunks == {1, Min({RecvCount, avail})}

\* A pass of the loop of sock_recv_raw that leaves buf short of count.
SockRecvPart ==
    /\ stage \in {"hdr", "data"} /\ avail > 0
    /\ \E k \in Chunks : got + k < want /\ got' = got + k
    /\ UNCHANGED <<cla, use_crc, sent, wire, closed, stage, start, hdrLen, want, received, cause>>

\* The pass that completes a header read; recv_bundle decodes the header
\* bytes so far and issues its next read.
HeaderRead ==
    /\ stage = "hdr" /\ avail > 0
    /\ \E k \in Chunks :
         LET n == hdrLen + got + k
         IN  /\ got + k >= want
             /\ hdrLen' = n
             /\ BeginRead(NextRead(cla, SubSeq(wire, start + 1, start + n)))
    /\ UNCHANGED <<cla, use_crc, sent, wire, closed, start, received>>

\* Mutant of SinkServed: the loop left only after one bundle more.
SinkServedLate(count) == cla = "mtcp" /\ SinkCount > 0 /\ count > SinkCount

\* The loop of mtcp_sink after a bundle: count += 1, and break (which
\* closes the socket in MTCPSocket.__exit__) once `args.count and count >=
\* args.count`.
SinkServed(count) == cla = "mtcp" /\ SinkCount > 0 /\ count >= SinkCount

\* The pass that completes the data read: recv_bundle returns the bundle,
\* and mtcp_sink counts it.
DataRead ==
    /\ stage = "data" /\ avail > 0
    /\ \E k \in Chunks :
         LET n == got + k
             r == Deliver(cla, use_crc, SubSeq(wire, start + 1, start + hdrLen),
                          SubSeq(wire, start + hdrLen + 1, start + hdrLen + n))
         IN  /\ n >= want
             /\ IF r.ok
                THEN /\ received' = Append(received, r.n)
                     /\ stage' = IF SinkServed(Len(received) + 1) THEN "done" ELSE "idle"
                     /\ start' = start + hdrLen + n
                     /\ hdrLen' = 0 /\ want' = 0 /\ got' = 0
                     /\ UNCHANGED cause
                ELSE Failed("assert") /\ UNCHANGED <<received, start, hdrLen, want, got>>
    /\ UNCHANGED <<cla, use_crc, sent, wire, closed>>

\* Mutant of PeerClosedDrained: an empty kernel buffer taken for EOF.
Drained == avail = 0

\* sock.recv returns b"" only once the peer closed and all is read.
PeerClosedDrained == closed /\ avail = 0

\* sock_recv_raw's `assert len(r)`: EOF inside a read.
SockRecvEof ==
    /\ stage \in {"hdr", "data"} /\ PeerClosedDrained
    /\ Failed("eof")
    /\ UNCHANGED <<cla, use_crc, sent, wire, closed, start, hdrLen, want, got, received>>

\* select() with the timeout returns no readable socket.
SockRecvTimeout ==
    /\ Timeout /\ stage \in {"hdr", "data"} /\ avail = 0 /\ ~closed
    /\ Failed("timeout")
    /\ UNCHANGED <<cla, use_crc, sent, wire, closed, start, hdrLen, want, got, received>>

ClientStep ==
    \/ ConnectRecvHeader \/ RecvBundle
    \/ SockRecvPart \/ HeaderRead \/ DataRead \/ SockRecvEof

Next == PeerSendBundle \/ PeerDisconnect \/ ClientStep \/ SockRecvTimeout

\* The client's process runs whenever it can: the tools call recv_bundle
\* in a loop, and the kernel hands available bytes to a blocked recv.
\* The peer and the timeout get no fairness.
Spec == Init /\ [][Next]_vars /\ WF_vars(ClientStep)

-----------------------------------------------------------------------------
(* Properties                                                              *)

\* recv_bundle raises only because the peer closed the connection and every
\* byte it sent has been read, or because the timeout expired; never on a
\* stream of frames written by send_bundle.
RecvFailsOnlyAtStreamEnd ==
    stage = "failed" /\ cause \notin {"connect_eof", "connect_assert"} =>
        \/ cause = "eof" /\ closed /\ avail = 0
        \/ cause = "timeout"

\* tools/cla/mtcp_sink.py with --count N ends (or raises) once the peer
\* has sent N bundles: its loop needs no bundle beyond the N-th.
SinkEndsWhenServed ==
    (cla = "mtcp" /\ SinkCount > 0 /\ Len(sent) >= SinkCount) ~> stage \in {"done", "failed"}

\* TCPCLConnection.connect never fails against a peer that sent its
\* complete contact header before anything else.
ContactHeaderExchange == cause \notin {"connect_eof", "connect_assert"}

\* The stand-alone test scripts (tools/tcpcl_test) speak TCPCL through their
\* own copies of the codec.  For the same EID and bundles they write the
\* stream TCPCLConnection writes, byte for byte, and while connect waits for
\* the contact header, their decoder accepts exactly the reads of recv(1024)
\* that decode_tcpcl_contact_header accepts.
ToolCodecCopyAgrees ==
    cla = "tcpcl" =>
        /\ wire = ToolStream(Bundle(EidLen, 97), sent, closed)
        /\ stage = "connect" =>
             \A k \in 0..Min({1024, avail}) :
                 decode_tcpcl_contact_header_copy(SubSeq(wire, 1, k))
                     = decode_tcpcl_contact_header(SubSeq(wire, 1, k))

(***************************************************************************)
(* Refinement of CLAChannel.  The client is in the handshake until         *)
(* connect() has returned (TCPCL only), open afterwards, and failed once   *)
(* recv_bundle or connect raised.                                          *)
(***************************************************************************)
ChannelPhase ==
    CASE stage = "failed" -> "failed"
      [] stage = "connect" -> "connecting"
      [] OTHER -> "open"

Channel == INSTANCE CLAChannel
               WITH Bundles <- {Bundle(n, b) : n \in Lengths, b \in DataBytes},
                    phase <- ChannelPhase

\* The client implements the bundle channel: recv_bundle returns the peer's
\* bundles one at a time, each exactly and in the order sent, whatever the
\* chunking of the stream; after the handshake it raises only once it has
\* returned every bundle sent; and every bundle sent is eventually returned
\* (a read never waits for bytes the peer does not owe it).
ImplementsCLAChannel == Channel!Spec

==============================================================================
