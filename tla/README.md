# TLA+ models of pyupcn

This directory holds TLA+ models of the Python side of uPCN (`src/pyupcn`
and the tools under `src/tools`), the TLC configurations that check them,
and `PROJECT.json`, which lists the components, the runs, the mutants, the
map from every definition to the source lines it models, the findings and
the hazards.

## The system

`pyupcn` is the host-side library that talks to a uPCN node:

| Part | Source | What it does |
|---|---|---|
| TCPCL listener | `pyupcn/tcpcl.py` `TCPCLServer`, driven by `tools/cla/tcpcl_sink.py` | asyncio server: one handler task per connection exchanges TCPCL v3 contact headers, hands every read chunk to `received_message`, and terminates with `0x50` in its `finally` block; `close()` cancels the listed handler tasks and closes the listening socket |
| TCPCL clients | `TCPCLConnection`, `AsyncTCPCLConnection` | connect, exchange headers, send single-segment data messages, receive bundles with an incrementally read SDNV length, disconnect with `0x50` |
| Codecs | `sdnv.py`, `crc.py`, the header/segment functions of `tcpcl.py` | SDNV, CRC (bitwise, table and reflected-table algorithms with catalogue presets) |
| Bundle formats | `bundle7.py`, `bundle6.py`, `tools/bundle7` | BPv7 blocks with `Bundle.add`'s numbering and uniqueness rules, CBOR encoding with per-block CRCs and decoding, BPv6 serialization, a thread-local creation sequence counter |
| Other CLAs | `mtcp.py`, `spp.py`, `tools/cla/*` | MTCP (CBOR length framing) and CCSDS Space Packets over TCP, an STM32 serial proxy |
| TCPCL test scripts | `tools/tcpcl_test/*` | raw-socket scripts that talk to a node through their own copies of the SDNV and TCPCL codec, the BPv6 and BPv7 serializers (the BPv7 one built on `tools/bundle7`) and the config message serializer |
| Older BPbis generator | `tools/bundle7` | an earlier draft's bundle classes (EIDs, primary and canonical blocks with CRCs, `Bundle.add`, administrative records and status reports) and a script that builds an example bundle |
| AAP | `aap.py`, `tools/aap/*` | application agent protocol messages, incrementally parsed |
| RRND test harness | `tools/rrnd_test/nd`, `tools/rrnd_test/__main__.py` | replays a generated contact plan against one RRND instance per satellite over ZMQ REQ sockets: resets and initialises the instances, requests predictions, queries and verifies the ground-station view, sends the beacons of every contact |
| Tooling | `tools/rrnd_test` (evaluation), `install.py`, `test/integration` | evaluation scripts and tests against an external node |

The parts interact over byte streams.
- The clients and the listener meet on TCP connections.
- The codecs are called by every framing layer.
- The only concurrency is the listener's asyncio event loop, which serves many connections, together with the client processes on the other end of those connections.
- The RRND harness is one thread; its concurrency is with the RRND instances (external processes) it talks to, whose replies may come late or never.

## Modules

### `TCPCLSession` (with `MC_TCPCLSession`)

This module models the listener as the sink tool runs it: `listen()` enters `async with TCPCLServer`, registers `close` for SIGINT, and awaits `wait_closed()`. The other end of every connection runs the repository's own `TCPCLConnection`.

**State.**
- The server is `srv` (idle, serving, closed, stopped) together with `handlers` (the list `self.handlers`).
- Each connection `c` has:
  - the handler's position `task[c]`: queued in the backlog, refused, client_connected scheduled, handler created but not started, awaiting the header read, awaiting a message read, done;
  - a pending `cancel()` (`cancelReq`) and the pending done callback (`doneCb`);
  - its transport: attached to the asyncio `Server` (`active`), `is_closing()` (`closing`), the reader's exception (`rxErr`), the kernel bytes not yet read (`net`), the reader buffer `rx` and `eof`;
  - what the client has not yet received (`tx`, `fin`);
  - the chunks passed to `received_message` (`delivered`);
  - the client's state `cl`, and the history `sent` of what it wrote.

**Data abstraction.** Bytes are tokens:
- the contact header `Hdr`;
- the termination byte `Term`;
- one token per bundle segment, numbered by the client;
- the TCP `Eof` and `Rst`.

A read returns the whole reader buffer. Chunks are token sequences, so TCP coalescing is fully represented, but splitting of a single token across reads is not (see below).

**Actions.**
- The lifecycle actions are `Start`, `Close` and `WaitClosedReturns`.
- The loop steps, one callback or one task step between two awaits each, are:
  - `LoopAccept` (accept and `connection_made`) and `ClientConnected` (`client_connected`);
  - the handler steps: `HandlerStart`, `HeaderRead`, `MessageRead` and `HandlerLeaves`, whose finally block is `Finish`;
  - `HandlerCancelledUnstarted` (asyncio throws `CancelledError` into an unstarted coroutine) and `DoneCallback`;
  - the transport callbacks `LoopRecvData`, `LoopRecvEof`, `LoopRecvReset` and `LoopConnLost`. They model asyncio's selector transport and `StreamReaderProtocol` (`_read_ready`, `data_received`, `eof_received`, the forced close on ECONNRESET, `connection_lost`), which are Python's standard library, not this repository; `PROJECT.json` marks them as modelled from asyncio's documented behaviour rather than mapping them to `handle_connection`.
- The client actions are `ClientConnect`, `ClientRefused`, `ClientRecvHeader`, `ClientSendBundle`, `ClientDisconnect`, `ClientExit` (the process ends without `disconnect`) and `PeerReset`.

**Loop ordering.** `RecvAllowed` and `Runnable` encode the FIFO ready queue of the loop:
- No `recv()` of a connection precedes its `client_connected` step.
- At most one `recv()` precedes the handler's first step.
- A task woken by a read runs before the next `recv()` of its connection.
- Task steps scheduled before `wait_closed`'s wakeup run before the loop stops.

`Close` may run between any two loop steps, because a signal handler's callback can be queued anywhere.

Python 3.8/3.9 asyncio is assumed: the `loop=` arguments were removed in 3.10, and `Server.close()` leaves accepted connections open.

### `CRC` (with `MC_CRC`)

This module models a `CRC` object of `pyupcn/crc.py`.

**State.**
- `model`: the constructor parameters, one of the presets in `Catalog`.
- `table` and `reflected_table`: the two lazily built tables. `None` until first use.
- `last`: a history variable holding the last call's input and result.

**Actions.** `Init` is `__init__`. There is one action per branch of `__call__`:
- `CallFast` builds the reflected table if needed and runs `fast_reflected`.
- `CallDirect` builds the MSB-first table if needed and runs the byte loop.

**Translated code.** The operators `reflect`, `calculate_crc_table`, `calculate_crc_table_reflected`, `CallByte`/`CallLoop` and `FastByte`/`FastLoop` translate the Python loops one for one. `&` with the all-ones `cast_mask` and `>>` are written as `%` and `\div`, which are equivalent for non-negative integers. XOR is `^^` from the community `Bitwise` module.

**Reference.** `LongDivision` is the defining algorithm: a bit-at-a-time division of the message (bytes reflected when `refin`) with the register preset to the initial value, then the output reflection and the final XOR. It follows the spec's statement (section 4.2) that both algorithms must equal long division.

### `Bundle7Blocks` (with `MC_Bundle7Blocks`)

This module models a `Bundle` of `pyupcn/bundle7.py`: how it is built, how `add` grows it, how it is encoded, and how `Bundle.parse` reads it back.

**State.**
- `primary`: the `PrimaryBlock` fields (flags, CRC type, the three EIDs, creation timestamp, lifetime in seconds, fragment fields). `Primaries` gives the choices.
- `payload`: the payload block. `PayloadBlock` sets number 1. `Bundle.parse` takes whatever number the last CBOR element carries.
- `blocks`: `self.blocks`, the extension blocks in encoding order, as `CanonicalBlock` records (type, number, flags, CRC type, data).
- `request` and `outcome`: history variables holding the last `add` call and how it ended.

**Actions.**
- `Init` is the constructor. It also covers `Bundle.parse`, whose blocks then arrive through `add`.
- `Add(new)` is `Bundle.add`. `AddScan` translates its loop in the code's order:
  1. the number assertion;
  2. `num = max(num, block_number)`;
  3. the same-type checks.

  It is followed by the numbering (`NumberFrom`) and the insertion (`Insert`).
- `CreateBundle7` is `create_bundle7`: a payload block, then an optional Previous-Node block, a Hop-Count block and a Bundle-Age block, all with the one `crc_type_canonical` and all added to a fresh bundle.

**Codec operators.**
- `PrimaryAsArray` and `CanonicalAsArray` are the `as_array` methods.
- `CalculateCrc` is `calculate_crc`. It builds its input by hand: the array head `0x80 | len + 1`, each field, and the literal empty CRC field (`EmptyCrc`).
- `WithCrc`, `PrimaryItem` and `CanonicalItem` are `__bytes__`, and `BundleItems` and `BundleBytes` are `Bundle.__iter__` and `Bundle.__bytes__`.
- `PrimaryFromCbor`, `CanonicalFromCbor` and `CreationFromCbor` are the `from_cbor` methods. `ParseBundle` is `Bundle.parse`, which runs the decoded blocks through the constructor and so through `add` again (`AddAll`).

**Data abstraction.**
- The `cbor` package is not part of the repository. It is modelled by the items it reads and writes (`UInt`, `ByteStr`, `TextStr`, `Array`, `Null`), and `Dumps` gives the bytes of the shortest-head encoding.
- `crc16_x25` and `crc32_c` are a digest that tells every input apart (`Checksum`). The CRC engine itself is the subject of `CRC`.
- Block data is one value per block type: the Hop-Count and Bundle-Age values of `create_bundle7`, and one previous-node EID. Block flags are NONE.
- Lifetimes are whole seconds, as the tools pass them.
- Numbers come from a small set, and `None` is `-1`.

### `SDNV`, `Bundle6` and `BundleTool` (with `MC_BundleTool`)

`SDNV` holds `sdnv_encode` and `sdnv_decode` of `pyupcn/sdnv.py` as RECURSIVE operators. `CLAStream` and `Bundle6` both use them.

`Bundle6` models `pyupcn/bundle6.py`.

**State.**
- `seqnum`: the thread-local counter `_th_local.__dict__["seqnum"]`. An absent entry reads as 0.
- `result`: the outcome of the last `serialize_bundle6` call: `ValueError`, `AssertionError`, or `ok` with the arguments, the timestamp and sequence number used, and the bytes.

**Actions.**
- `SerializeBundle6(a, unix)` is one call with the arguments `a` and the clock reading `unix`. It keeps the code's order:
  1. The dictionary loop splits every EID at its first colon. An EID without one raises `ValueError` before the counter is touched.
  2. The default timestamp is `int(unix2dtn(time.time()))`.
  3. The default sequence number comes from `next_sequence_number`.
  4. The fragment-flag assertion runs after the counter has advanced.
  5. The bytes are built.
- `ResetSequenceNumber` is `reset_sequence_number`.

`Serialize` builds the bytes as the code does: the dictionary of NUL-terminated schemes and SSPs with their offsets (`DictStep`, `Dictionary`), every integer through `sdnv_encode`, the primary block length prefix, and the single payload block.

**Reference reader.** `ReadBundle6` reads the RFC 5050 primary and payload blocks (section 4.5 of the RFC) independently of the encoder. It takes the EIDs from the dictionary offsets, reads the fragment fields iff the flag is set, and checks both length fields against the bytes.

**`BundleTool`** composes `Bundle7Blocks`, `Bundle6` and `Bundle7Draft` as a CLA test tool uses them (`tools/cla/tcpspp_test.py`; `mtcp_test.py` and `tcpcl_test.py` do the same). `--bundle-version` picks one serializer once (`version`), and every later step is a step of that serializer. The other serializer's state stays as it is. The modules share no names (the draft's carry `Draft`, `_D` or `_copy`), so `BundleTool` EXTENDS all three, with `Bundle7Draft` below.

A second dimension, `tool`, says which copy of the BPv6 serializer the tool calls. `"cla"` is `pyupcn/bundle6.py`, used by the `tools/cla` scripts. `"tcpcl_test"` is the private copy in `tools/tcpcl_test/tcpcl_test_common.py` (`SerializeBundle6Copy`), used by `tools/tcpcl_test/tcpcl_test.py`. The copy has no counter: a default sequence number is 0, so every bundle it builds within one second carries the same ID. The hazard list records this; the copy leaves `seqnum` untouched. With `--protocol 7` the same script calls the copy of `serialize_bundle7`, built on `tools/bundle7` (`Bundle7Draft.SerializeBundle7Copy`). The third tool, `"bundle7"`, is `tools/bundle7/__main__.py` with the package's classes: it builds bundles from a primary block and a list of blocks (`ConstructDraft`) and status reports about them (`StatusReportDraft`).

**Bounds (`MC_BundleTool`).**
- EIDs: the tool's own `dtn:2` and `dtn:1`, an SSP holding a second colon, an EID without a colon, an empty scheme, and `dtn:none`.
- Sequence numbers: the default, and an explicit 0 that the counter also hands out.
- Flags: 0x90, with and without IS_FRAGMENT.
- Fragment fields: absent, both given, or only one given.
- Clock: two readings, so it may stall or step back.
- Counter: at most three numbers between resets (`MaxSeq`).

### `Cbor`

`Cbor` holds the CBOR items both BPbis generators hand to the `cbor` package (`UInt`, `ByteStr`, `TextStr`, `Array`, `Bool`, `Null`) and `Dumps`, the definite-length, shortest-head encoding `cbor.dumps` gives them. The package is not part of the repository, so nothing in it is mapped.

`Loads` is a reader of definite-length CBOR written from the format (RFC 7049, section 2) and not from `Dumps`: it reads the head byte's major type and argument, follows 1, 2 or 4-byte arguments and nested arrays, and says whether one item takes up all of the bytes. Properties use it to look at bytes the way a consumer of them would.

### `Bundle7Report` (composed into `BundleTool`)

This module models the administrative records of `pyupcn/bundle7.py` (`AdministrativeRecord`, `BundleStatusReport`), about the bundle `Bundle7Blocks` builds.

- `StatusInfo` is the status-info list: one entry per `StatusCode`, `[infos & code != 0]`, with the DTN time of the report appended to every set entry when the subject's primary block has REPORT_STATUS_TIME.
- `AdministrativeRecord` appends the subject's source EID and creation timestamp to the record data, and its fragment offset and total payload length (`None` written as null) when it is a fragment; the result is the payload block (number 1, CRC-32) with data `cbor.dumps([type, record_data])`.
- **State.** `report`: the last report built, with its arguments, or `<<>>`. `StatusReport` builds one about the current bundle and leaves the bundle alone; every step of the bundle forgets it (`BundleStep`), so the history stays small.

### `Bundle7Draft` (composed into `BundleTool`)

This module models `tools/bundle7`, an older BPbis generator that predates `pyupcn/bundle7.py` and differs from it: other block type codes (Previous Node 7, Bundle Age 8, Hop Count 9), the payload numbered 0, block numbering from 0, CBOR items as block data instead of pre-encoded bytes, and a canonical block whose length field is `max(1, len(cbor.dumps(data)))`.

**State.**
- `dbundle`: the last `Bundle` built (primary block, extension blocks in order, payload block).
- `doutcome`: how the last call ended: `ok`, or the `AssertionError`, `ValueError`, `TypeError` or `AttributeError` it raised.
- `dcall`: which entry point ran (`bundle`, `copy`, `report`); `dreported`: the bundle the last status report was about.

**Actions.**
- `ConstructDraft` is `Bundle([primary, *blocks, payload])`: `AddDraft` for each extension block in order, stopping at the first exception (`AddScanDraft`, `NumberFromDraft`, `InsertDraft`). The number assertion runs before `num = max(...)`; a second Previous-Node or Hop-Count block raises `ValueError`; a second Bundle-Age block computes `dtn_time(int)`, which is a `TypeError`.
- `SerializeBundle7Copy` is `serialize_bundle7` of `tcpcl_test_common.py`: a CRC-16 primary block, an optional Previous-Node block, Hop-Count (30, 0) and Bundle-Age 0, all CRC-32. A malformed EID raises `ValueError` in `EID.__new__` (`EidDraft`).
- `StatusReportDraft` is the status-report part of `__main__.py`: `BundleStatusReport(infos, reason, bundle, time)` and the administrative-record bundle addressed to the bundle's report-to EID. `AdministrativeRecord` reads `primary_block.total_payload_length`, which the draft's `PrimaryBlock` never sets, so a report about a fragment raises `AttributeError`.

**Codec.** `PrimaryItemDraft` and `CanonicalItemDraft` are the `serialize` methods: the CRC input is built by hand (array head `0x80 | len + 1` for the primary block, the constant `0x80 | 7` for canonical blocks, the empty CRC field) and `ChecksumDraft` is the same collision-free digest as in `Bundle7Blocks`. A fragment with offset `None` or 0 gets `int(random() * 10)`; `OffsetDraws` gives every draw, and the properties hold for each. `SerializeDraft` is `Bundle.serialize`, an indefinite array.

**Missing import.** `tools/bundle7/__init__.py` imports `crc16_x25` and `crc32` from `.crc`, a module that is not in the repository, so the package does not import as it stands. The model takes the two functions as the digest.

### `CLAStream` (with `MC_CLAStream`)

This module models the blocking client side of the three stream convergence layers: `TCPCLConnection` (`tcpcl.py`), `MTCPSocket` (`mtcp.py`) and `TCPSPPConnection` (`spp.py`), all reading through `sock_recv_raw` (`helpers.py`). The constant `CLAs` picks the layer. The peer runs the same class's `send_bundle`.

**State.**
- `sent` is the bundles the peer framed, and `wire` the bytes it wrote: the contact header for TCPCL, then one frame per bundle, then `0x50` for TCPCL when it disconnects. `closed` says the peer has closed its socket.
- The client's position is `stage`: awaiting the contact header, `idle` between bundles, reading the header (`hdr`) or the payload (`data`), or `failed` with the exception's `cause`.
- `start`, `hdrLen`, `want` and `got` locate the current read in the stream. `avail` is the number of bytes the kernel holds for the client.
- `received` is the bundles `recv_bundle` returned.
- For MTCP the caller is `tools/cla/mtcp_sink.py`: after each bundle it counts, and with `--count N` (`SinkCount`, 0 for the default `None`) it leaves its loop at the N-th (`SinkServed`), which closes the socket. `stage` is then `done`, which `ChannelPhase` maps to open.
- `use_crc` is `TCPSPPConnection`'s `use_crc`, the same at both ends (`UseCrcs` gives the choices; always FALSE for the other layers).

**Codecs as operators.** Translated from the code:
- `sdnv_encode` and `sdnv_decode` (RECURSIVE);
- the TCPCL contact header and data segment functions;
- `cbor.dumps` of a byte string (`MtcpFrame`);
- the SPP codec, split as the code splits it: `SPPTimecode.__bytes__`/`parse`/`length`, `SPPPacketHeader.__bytes__` (`SppHeaderBytes`, with the assertions in `SppSendable`), `secondary_header_length`, `SPPPacketHeader.parse` (`SppHeaderParse`), `SPPPacket.__bytes__` (`SppPacket`), `SPPPacket.parse` and the CRC assertion of `recv_bundle` (`SppPacketOf`);
- `crc16_ccitt_false` as `WeightedSum`, a 16-bit sum of `i * s[i]` that depends on every byte and its position. The CRC engine itself is the subject of `CRC`. What matters here is what the CRC is computed over: the sender's header bytes, or the header the receiver parsed and serialized again;
- `BigEndian` (`struct.pack(">H")`) and `FromBigEndian` (`int.from_bytes`).

Bytes are integers; payloads are sequences of a single byte value (`DataBytes`) of the lengths in `Lengths`.

**Actions.**
- Peer: `PeerSendBundle`, `PeerDisconnect`.
- Client: `ConnectRecvHeader` (the `recv(1024)` of `connect` and the decode of its result), `RecvBundle` (the first `sock_recv_raw` of `recv_bundle`), `SockRecvPart` (one `sock.recv` of the loop), `HeaderRead` (the code's next read after a complete header: one more SDNV byte for TCPCL, the CBOR extension bytes for MTCP, or the payload), `DataRead` (the payload is complete and returned, after `SPPPacket.parse` for SPP), `SockRecvEof` (`assert len(r)` at EOF) and `SockRecvTimeout` (`select` expires).
- `sock.recv` returns any chunk the kernel holds. The model lets it return one byte or all it may (`Chunks`). Every intermediate position of the buffer is still reached through one-byte steps, so every split of a frame is covered.

### Runs of `CLAStream`

- **`ImplementsCLAChannel`** (refinement). `CLAChannel` is the abstract specification of what a convergence layer promises the caller of `recv_bundle` (section 4.5):
  - a handshake (`connecting`) that may fail;
  - then whole bundles, received one at a time in the order sent, none lost, cut or merged;
  - failure only once every bundle sent has been received (`StreamEnd`);
  - `WF(Receive)`: a bundle sent is eventually received.

  `CLAStream` instantiates it with `INSTANCE CLAChannel WITH`. `sent` and `received` map to themselves. `phase` maps to `ChannelPhase`: `stage = "connect"` is connecting, `failed` is failed, and everything else is open. TLC checks `Channel!Spec` as a PROPERTY, fairness included.
- **`SinkEndsWhenServed`** (*cla_recv*, liveness). Once the peer has sent `--count` bundles, `mtcp_sink` ends, or raises. It never waits for a bundle beyond the N-th. The run has `SinkCount = MaxBundles = 2`. *Mutant:* leaving the loop only at `count > args.count`, where the sink blocks in `recv` for a third bundle that never comes.
- **`RecvFailsOnlyAtStreamEnd`.** After the handshake, `recv_bundle` raises only when the peer has closed and every byte has been read, or when `select` times out.
- **`ToolCodecCopyAgrees`.** For TCPCL, the stream `TCPCLConnection` wrote equals `ToolStream` of the same EID and bundles: the test scripts' copies write the same bytes. While `connect` waits, the copied decoder accepts exactly the reads of `recv(1024)` that `decode_tcpcl_contact_header` accepts, so the scripts share `connect`'s single-read flaw (*cla_connect_split*). *Mutant:* the copied decoder checking the length with pyupcn's relative offset while `sdnv_read` returns an absolute one.
- **`ToolSppCopyAgrees`** (*cla_recv*). Both TCPSPP test scripts speak the framing of `pyupcn.spp`:
  - The stand-alone script's read loop, fed the packets `TCPSPPConnection.send_bundle` wrote without CRC, returns exactly the bundles sent, in order. Its fixed 5-byte secondary header and the `+ 1` of the length field agree with `SPPTimecode` and `SPPPacketHeader`.
  - Each packet its `wrap_spp` builds around a sent bundle is read by pyupcn's `SPPPacket.parse` as that bundle.
  - `tools/cla/tcpspp_test.py` reads the first bundle sent, with and without `--crc`.
  *Mutant:* `parse_spp_header` without the `+ 1`. (Leaving out the `- 1` in `wrap_spp` goes unnoticed: `SPPPacket.parse` slices the payload and never compares the length field with the bytes present.)
- **Short reads in the TCPSPP scripts.** Both read a packet with single `sock.recv` calls, which TCP may answer with part of it. A short header read fails in `struct.unpack`. A short data read is worse: `SPPPacket.parse` returns the truncated payload without complaint, and with `--crc` takes its last two bytes as an unchecked CRC. The stand-alone loop then reads the rest of the packet as the next header. The model reads whole, so `ToolSppCopyAgrees` checks the framing; the hazard list records the defect.
- *cla_recv* passes for all three layers, with payloads of 2, 130 and 256 bytes. 2 is a one-byte SDNV and an immediate CBOR length. 130 is a two-byte SDNV and a one-byte CBOR extension. 256 is a two-byte CBOR extension. Two bundles are sent, and the peer may disconnect at any point. SPP runs with and without the CRC. The run has 23,652 distinct states and takes about 40 s.
  - *Mutants:* `recv` asking for `count` rather than `count - len(buf)` breaks the refinement, as a step that is no `Receive`, and so does an MTCP extension length off by a power of two. An EOF error on an empty kernel buffer before the peer has closed breaks `RecvFailsOnlyAtStreamEnd`. A `struct.pack` without masking breaks `TypeOK`.
- **cla_zero_length** (violation, finding). `send_bundle(b"")` frames an empty bundle, and `recv_bundle` calls `sock_recv_raw(sock, 0)`, whose `assert count` fails on an intact stream.
- **cla_connect_split** (violation, finding). `connect` decodes a single `recv(1024)`. When TCP delivers the 12-byte contact header in two parts, the length assertions fail (`ContactHeaderExchange`). The same happens when the first data segment arrives together with the header.
- **SPP with ancillary data.** With `Ancillary = 2`, `Lengths = {2, 130}` and `CLAs = {"tcpspp"}`, TLC finds the refinement violated: the received bundle is not the one sent. `secondary_header_length` (`spp.py:167`) omits the timecode when ancillary data is present, because of a conditional-expression precedence error. The data length field is then 5 bytes short. `recv_bundle` parses with the timecode and no ancillary data (its default), takes the 5-byte timecode out of the 4 bytes the length announces, and returns `<<>>` for a 2-byte bundle. With `use_crc` the cut payload ends in the wrong two bytes, and the CRC assertion of `recv_bundle` fails on an intact stream. `TCPSPPConnection` itself passes no ancillary data, so only the library API reaches it. It has no run of its own here, and the hazard list records it.

**Fairness.** `ClientStep` (every client action except the timeout) is weakly fair: the client process loops on `recv_bundle`, and the kernel delivers bytes it holds. The peer and the timeout get no fairness.

`SppCrc` and `SppPacketParse` bind their input once, as the element of a one-element set. TLC evaluates `ENABLED ClientStep` for the fairness condition without caching LET values or operator arguments. Without the binding, the packet parse is recomputed at every use, and one `DataRead` state takes minutes.

### `TcpclTestCommon`

This module models the TCPCL codec that the stand-alone scripts in `tools/tcpcl_test` import from `tcpcl_test_common.py` instead of pyupcn's: `sdnv_encode`, `sdnv_read` (which replaces `sdnv_decode` and indexes past the end where `sdnv_decode` raises), the contact header with its decoder, and the data segment. `ToolStream` is what `tcpcl_test.py`'s `run_simple_forwarding_test` writes on one connection: the contact header, one segment per bundle, and `0x50`. Names that pyupcn's codec also uses carry `_copy`, so that `CLAStream` can EXTEND both.

### `SppTestTools` (composed into `MC_CLAStream`)

This module models the Space Packet side of the two TCPSPP test scripts. It EXTENDS `CLAStream`, and `MC_CLAStream` EXTENDS it.
- `tools/tcpcl_test/tcpspp_test.py` does not use `pyupcn.spp`. Its `wrap_spp` writes a fixed header by hand: APID 1, the secondary-header flag, unsegmented, and a 5-byte secondary header with preamble `0x1c` and the CCSDS seconds. Its read loop (`SppCopyReadLoop`) reads 6 header bytes (`parse_spp_header`), then the 5-byte secondary header if flagged (`decode_secondary_header`), then `length - 5` payload bytes, until an assertion ends it at the end of the stream.
- `tools/cla/tcpspp_test.py` reads one packet (`ClaToolSppRead`): `recv(6)`, `preparse_data_length`, `recv(data_length)` and `SPPPacket.parse`. It splits off the CRC field but never compares it.
- Both scripts read with single `sock.recv` calls, which the module models as whole reads (`RecvWhole`). A short read is a defect, described below.

### `AAP` (with `MC_AAP`)

This module models the Application Agent Protocol as the four tools under `tools/aap` speak it: `aap_send`, `aap_receive`, `aap_test` and `aap_config`, each using `AAPMessage` from `pyupcn/aap.py`.

**Codec as operators.**
- `serialize` translates `AAPMessage.serialize`. `len()` of a `None` field raises `TypeError`, and so does `len()` of the integer `bundle_id` of SENDCONFIRM and CANCELBUNDLE.
- `parse` translates `AAPMessage.parse`, using a cursor through the EID, payload and bundle-id sections. Each section either asks for `bytes_needed` (`Need`) or moves the index on. An unknown version, a non-ASCII EID or a type above PING is `Malformed` (`ValueError`).
- `Wire` is the wire format of section 6 of the specification: the reference that serialize and the daemon are held to.
- Optional fields are sets: `{}` is `None`, and `{x}` holds `x`.

**State.**
- Agent: `tool`, its position `pc` in `Script(tool)`, `recv_aap`'s `buf`, `aap_receive`'s `counter`, and `stage`/`cause`. The history variables are `up` (the requests sent), `wrote` (the bytes written) and `got` (the messages `recv_aap` returned).
- Daemon: `down` (the bytes the agent has not read), `sentDown` (the messages written), and `welcomed`, `answered`, `registered`, `delivered` and `closed`.

**Actions.**
- `SendRequest` is one `sock.send(AAPMessage(...).serialize())`.
- `RecvAap` is one iteration of `recv_aap`: `sock.recv(1)`, then `parse`. When the parse completes, `Accept` applies the tool's `assert msg.msg_type == ...`, then moves to the next step or, in `aap_receive`'s loop, decodes the payload as UTF-8 (`Utf8At`, a `UnicodeDecodeError` ends the tool) and counts against `--count`.
- `ConfigureContact` is `aap_config`'s main before it connects. Without `-s` it exits with status 1. Otherwise it builds `bytes(ConfigMessage(...))` through `Agents` (below), which may raise `AssertionError`. Only with a message does the tool connect (`Connected`), and its SENDBUNDLE then carries those bytes (`ToolPayloads`).
- `RecvAapEof` is `aap_receive`'s `if not data: return None`. Inside the loop the tool returns; before it, `msg.msg_type` raises `AttributeError`.
- The other three tools append `b""` at EOF and parse the same buffer again. That step changes nothing: it is stuttering, so it is not an action.
- The daemon is not in this repository. It is modelled as any peer that writes whole messages in the wire format:
  - `DaemonWelcome`;
  - `DaemonAnswer`: ACK or NACK to REGISTER and PING, and SENDCONFIRM or NACK to SENDBUNDLE, in request order;
  - `DaemonDeliver`: RECVBUNDLE once the agent has registered, up to `MaxDeliver`;
  - `DaemonClose`, at any time.

**Fairness.** `AgentStep` is weakly fair, because the tool is a process that runs whenever it can. The daemon gets no fairness.

### `Agents`

This module models the contact configuration messages of `pyupcn/agents.py`. AAP EXTENDS it, and `config` is `aap_config`'s message.
- `make_contact` reads the clock once per contact. It turns the reading into DTN time and rounds the start and the end separately with Python's half-even `round()` (`RoundHalfEven`). A clock reading is whole seconds plus an optional half second, because only a half gives `round()` a choice.
- `PartsUnescaped` is `__str__`'s assertions: no parenthesis in the EID, the CLA address or a reachable EID.
- `ConfigStr` is the rest of `__str__` and `__bytes__`: the decimal type, the parenthesised EID and CLA address, and the bracketed reachable-EID and contact lists (`Bracketed`), where an empty list is written as nothing.
- `ParseConfig` is a reference reader written from the message grammar, not from the serializer. A parenthesised field ends at its first `)`, and a number at its delimiter. The node's parser is not in the repository.
- `serialize_upcn_config_message` is the copy in `tools/tcpcl_test/tcpcl_test_common.py` that the TCPCL test scripts send, translated on its own: contacts as tuples, the type as `RouterCommand`'s string value, the assertions on the joined names.
- Not modelled: `serialize_set_time_cmd`, called only by integration tests that need a running node; the copy's `make_contact` (see "What is not modelled").

### `NDScenario` (with `MC_NDScenario`)

This module models one invocation of `tools/rrnd_test`: `TestScenario.run` with its runs, `_single_run`, `_replay_contact_list`, `_replay_contact` and `_query_and_check_gs_info`, the `NDClient` of each satellite, and the `GroundStation` bookkeeping. The RRND instances (`rrnd_proxy` or uPCN) are not in the repository; each is a server that answers its oldest request with any reply the protocol allows, or never answers.

**State.**
- `pc`: where the harness is (stage, run, contact or satellite index, beacon time, and the exception a crash raised).
- `waiting`, `sock`: the request `recv_string` waits for, and each REQ socket's state (`send` or `recv`).
- `inbox`, `outbox`: the requests queued to each instance and the replies queued back.
- `gsState`: per station and satellite, `verified_once`, `prediction_succeeded_once`, `last_prediction_in_the_future` and whether `data["contacts"]` has an entry. `seqnum` is `beacon_seqnum`.
- `lastBeacon`, `taken`, `lost`, `regress`: history of what each instance saw and what `_request` handed back.

**Actions.** Each step of the harness runs from one return of `_request` to the next call of it, which the code does without interruption.
- `SendRequest`: `send_json` on a socket in its send state. `SendRefused`: `send_json` on a socket left in its receive state raises `ZMQError` (EFSM), and `_request` returns `{}`.
- `Recv`: `recv_string` takes the queued reply. `Timeout`: RCVTIMEO expires, `_request` returns `{}`, and the socket stays in its receive state.
- `Return` applies the reply to the harness: `AfterConnect`, `AfterResetPerf` (`Exception`), `AfterReset`, `AfterInit` (`RuntimeError`), `AfterPredict` (the uncaught `hex(ret["result"])`), `AfterQuery` (verification, `add_contact`, the random miss, the first beacon time), `AfterBeacon` (the `while cur_time <= end` loop) and `AfterStorePerf` (the next satellite, the next run with fresh `GroundStation`s, or the end).
- `SkipPredict` and `SkipReset`: no request when the last prediction is still in the future, or with `--skiprestart`.
- `Serve(s)`: instance `s` answers; a reset forgets its beacons.

**Data abstraction.** Replies are a result code (0 or FAILED, or none) and, for `get_gs`, what the verification makes of it: an assertion failure, no prediction, a prediction more than 1800 s early, or a later one. TLEs, bit rates, coordinates and availability are data the harness never branches on.

**Bounds.** Two satellites and two stations (periods 10 and 15), up to two runs, `--skiprestart` only with one run (`__main__` exits otherwise). The plan, in generator order: gs1/sat1 at −5..32, 40..52 (probability 50 %) and 65..72; gs2/sat1 at 8..20; gs2/sat2 at 30..44. gs1's first contact overlaps gs2's, so sorted replay sends sat1 a beacon at 30 and then one at 15; the third gs1 contact asks for a prediction again after one succeeded; the 50 % contact may be missed. 67,044 distinct states in about 10 s.

**Fairness.** The harness gets weak fairness: it is one thread, and every wait is bounded by RCVTIMEO. The instances get none, since an instance may hang or die.

## Runs

| Run | Config | Expect | Properties |
|---|---|---|---|
| session | `TCPCLSession_safety.cfg` | pass | `TypeOK`, `StreamIntegrity`, `HandlerReleasesTransport` |
| session_cancel_unstarted | `TCPCLSession_cancel_unstarted.cfg` | violation | `HandlerExitClosesTransport` |
| session_close_late | `TCPCLSession_close_late.cfg` | violation | `CloseFinishesHandlers` |
| crc_sound | `CRC_sound.cfg` | pass | `TypeOK`, `ChecksumIsLongDivision` |
| crc_presets | `CRC_presets.cfg` | violation | `ChecksumIsLongDivision` |
| bundle_build | `BundleTool_build.cfg` | pass | `ToolTypeOK`, `ExtensionBlockLayout`, `RoundTrip`, `CrcCoversEncodedBlock`, `RoundTrip6`, `DraftBlocksVerifiable`, `ReportCorrelatesBundle` |
| cla_recv | `CLAStream_recv.cfg` | pass | `TypeOK`, `RecvFailsOnlyAtStreamEnd`, `ToolCodecCopyAgrees`, `ToolSppCopyAgrees`, `ImplementsCLAChannel`, `SinkEndsWhenServed` |
| cla_zero_length | `CLAStream_zero.cfg` | violation | `RecvFailsOnlyAtStreamEnd` |
| cla_connect_split | `CLAStream_connect.cfg` | violation | `ContactHeaderExchange` |
| aap_agents | `AAP_agents.cfg` | pass | `TypeOK`, `AgentReadsDaemonStream`, `AgentWritesWireFormat`, `ConfigRoundTrip`, `ConfigCopyAgrees`, `ToolEndsWhenServed` |
| aap_close | `AAP_close.cfg` | violation | `AgentEndsOnClose` |
| rrnd_replay | `NDScenario_replay.cfg` | pass | `TypeOK`, `ReplyMatchesRequest`, `CrashOnlyAfterLostReply`, `BeaconTimeRegressOnlyOnOverlap`, `ScenarioEnds` |

- **`StreamIntegrity`.** What the listener hands to `received_message`, concatenated, is a prefix of what that client wrote after its contact header. The run uses two connections and one bundle each, so it covers:
  - a header coalesced with data;
  - data arriving before the handler starts;
  - EOF and reset at every point;
  - a close interleaved with everything.

  It passes, with about 260,000 distinct states, in about a minute. Its mutant drops the decoder's exact-length assertion. With that change the header chunk's trailing segment is silently discarded, and the property fails.
- **`HandlerReleasesTransport`.** A started handler whose task is cancelled, or whose client has closed or reset, eventually closes its transport. It is checked in the same run. No symmetry is declared there, since symmetry reduction is unsound for liveness checking. Its mutant lets a suspended read ignore `cancel()`.
- **`HandlerExitClosesTransport`** (violation, finding). `close()` can cancel a handler task created by `client_connected` before that task's first step has run. The task then ends without running `handle_connection` at all, so no `0x50` is sent and the transport is never closed. The counterexample is: start, connect, accept, `client_connected`, SIGINT, and the cancelled first step.
- **`CloseFinishesHandlers`** (violation, finding). `close()` cancels the snapshot of `self.handlers`. A `client_connected` already queued runs after it, and creates a handler that nobody cancels and that keeps serving its client after the server was closed.

- **`ChecksumIsLongDivision`.** Every call returns the long-division checksum of its input.
  - *crc_sound* covers:
    - every preset with unreflected input;
    - every reflected preset whose initial value is a bit palindrome, such as x25, modbus and kermit;
    - every input of up to two bytes over {0x00, 0x01, 0x31, 0x80, 0xff}, repeated, so both the first call (which builds the table) and later calls are checked.

    It passes, with 1,088 distinct states.
  - *Mutants:* dropping the mask after the shift breaks `TypeOK`; a reflected table built from unreflected indices breaks the checksum.
  - *crc_presets* runs all presets and finds the finding's defect: `fast_reflected` starts from the unreflected `initial_value`. So crc16_riello, crc16_tms37157 and crc16_a return wrong checksums; for tms37157 the empty input gives 0x89ec instead of 0x3791. Python confirms the catalogue check values fail: crc16_a("123456789") is 0x1480, not 0xbf05.
  - The 32-bit presets do not fit TLC's signed 32-bit integers. Inputs of more than three bytes exhaust TLC's evaluation stack. Two bytes already show both the table indexing and the carry of the register between bytes.

- **`ExtensionBlockLayout`** (*bundle_build*). The payload is number 1, and a creator may choose the numbers 2 and 3. Up to three extension blocks of every type are added, numbered or not, in any order, and `create_bundle7` runs with and without a previous node. Previous-Node blocks stay first, and no type that must be unique appears twice. *Mutant:* Previous-Node blocks appended.
- **`RoundTrip`** (*bundle_build*). This is the BPv7 round trip of spec section 8. `Bundle.parse` of the encoding of every bundle the run builds succeeds. It gives back the same primary-block fields, payload and extension blocks, in order. Every CRC read from the wire equals what `calculate_crc` computes on the decoded block.
  - The primary blocks are: one at the DTN epoch with CRC-32; a fragment with CRC-16; and one without CRC.
  - The EIDs cover `dtn:none`, a `dtn` name, and `ipn` numbers of one and two head bytes. The lifetime of 300 s needs a 4-byte head.
  - Canonical blocks carry CRC type NONE or CRC-16. CRC-32 on canonical blocks takes the same path as on the primary block, and with it the run would take over three minutes.
  - *Mutant:* `from_cbor` reading the CRC right after the eight mandatory fields, which only the fragment's extra fields tell apart.
- **`CrcCoversEncodedBlock`** (*bundle_build*). The CRC of every block is the checksum of that block's own encoding, with the CRC field in place and zeroed at its type's width, as spec section 4.4 says and a receiver recomputes. `calculate_crc` builds that input by hand, next to the `__bytes__` path. *Mutant:* an array head that does not count the CRC field.
- **`RoundTrip6`** (*bundle_build*). Every bundle `serialize_bundle6` returns reads back through `ReadBundle6` as the bundle the caller asked for:
  - the four EIDs, found from the dictionary offsets;
  - the creation timestamp and sequence number actually used, and the lifetime;
  - a primary block length that covers exactly the fields after it;
  - the payload as the last block.

  The fragment fields are compared where flag and fields agree, since RFC 5050 ties one to the other. *Mutant:* an SSP offset that forgets the scheme's NUL.
- **`DraftBlocksVerifiable`** (*bundle_build*). For every bundle `tools/bundle7` builds, and every draw of the random fragment offset, each block's CRC is the checksum of that block's own encoding with the CRC field zeroed, and each canonical block's length field is the length of its encoded data. `serialize` builds the CRC input beside the encoding, with a constant array head. *Mutant:* a byte string's length field taken from the data instead of its encoding.
- **`ReportCorrelatesBundle`** (*bundle_build*). Spec section 4 says a status report's tail must match the original bundle exactly, so that a consumer can correlate them. A consumer that decodes a report of `pyupcn/bundle7.py` from its bytes (`from_cbor`, then `cbor.loads`) finds the status-report tag, one entry per status code true exactly for the codes in `infos`, the DTN time exactly on set entries of a subject that asked for it, the reason, and the source and creation timestamp of the subject as decoded from the subject's own bytes, followed by its fragment offset and total length exactly when the subject is a fragment. The run's fragment asks for status times. *Mutant:* `AdministrativeRecord` without the fragment fields.
- The `bundle7` bounds: the `__main__` primary block (flags 0x8c4, CRC-16, creation at the epoch), a fragment with offset 0 and CRC-32, and one with REPORT_STATUS_TIME and no CRC; up to three extension blocks from {Previous Node CRC-32, Hop Count CRC-32, Bundle Age CRC-16, Hop Count numbered 1 without CRC}, which reaches every exception of `add`; EIDs `dtn:none`, `dtn:...`, two `ipn` forms, and ones with two colons or an unknown scheme.
- The report bounds: `infos` 9 (RECEIVED and DELIVERED), reason 0, one report time.
- The run passes, with 44,343 distinct states, in about 70 s.
- **Draft fragment offset 0.** `not self.fragment_offset` treats the first fragment's offset 0 as missing and writes a random offset instead (`tools/bundle7/__init__.py:281`). The model reaches it; the hazard list records it.
- **BPv6 fragment flag without fields.** With IS_FRAGMENT set and a fragment argument `None`, the encoder writes no fragment fields. A reader then takes the payload block header for them. No caller sets the flag for BPv6.
- **Explicit sequence numbers.** They do not advance the counter. A caller that mixes them with default ones can repeat an ID within one second, and the run reaches that state with an explicit 0. The spec leaves this to the caller.
- **Lifetime precision.** `from_cbor` stores the lifetime as `cbor_data[7] / 1000000` seconds, and `as_array` writes `int(lifetime * 1000000)` back. Python shows that 23,103 of the first two million microsecond values lose one microsecond on the way (249 is the first). So re-encoding a parsed bundle can change its lifetime and its CRC. The model keeps whole seconds; IEEE rounding is outside TLC's integers.
- **Block numbers of parsed bundles.** `add` never looks at the payload block. With `Numbers` and `PayloadNumbers` set to the wire numbers {1, 2} (`MCWireNumbers`), a payload numbered 2 followed by an unnumbered block gives two blocks numbered 2, and a given block numbered 1 sits beside a payload numbered 1 (`bundle7.py:669`). Any bound that allows the collision makes a uniqueness invariant fail, and the run's bounds exclude it, so the project states no block-number uniqueness property; it would need a violation run of its own. The hazard list records the defect.
- **Draft block numbers.** `tools/bundle7`'s `add` starts its search at the payload's 0 and asserts against every extension block, so only a caller-given 0 can collide with the payload; no caller does, and the project states no property about it.
- **Sequence counter.** Every default BPv6 bundle takes its number from the counter, which stores its successor, so counter-numbered IDs are distinct whatever the clock does. The project does not state that as a property: only explicit numbers (`bundle6.py:105`) or the copy without a counter (`tcpcl_test.py:51`) repeat an ID, and the spec leaves both to the caller.
- **Second Bundle-Age block.** The message in `add` and the spec (section 4.4) say a second Bundle-Age block is rejected with `ValueError` only when the creation time is 0. The code computes `int - DTN_EPOCH` (`bundle7.py:694`), which raises `TypeError` every time; `Add` models that outcome, and the *bundle_build* run reaches it. It has no run of its own.

- **`AgentReadsDaemonStream`** (*aap_agents*). Every message the daemon wrote comes out of `recv_aap` whole, in order, and never as `ValueError`. Feeding the wire format to `parse` one byte at a time, every proper prefix asks for more bytes and the last byte yields the message. The run covers empty and non-empty EIDs and payloads, and bundle ids of one and two bytes. *Mutant:* the bundle id unpacked from a slice one byte short.
- **`AgentWritesWireFormat`** (*aap_agents*). The bytes the tools write are the section-6 encoding of the requests they built. *Mutant:* the EID length packed in one byte.
- **`ToolEndsWhenServed`** (*aap_agents*, liveness). Once the daemon has written as many messages as the tool's script reads, the tool returns or raises. *Mutant:* `counter > max_count`, which makes `aap_receive` wait for one bundle too many.
- **`ConfigRoundTrip`** (*aap_agents*). The payload of every SENDBUNDLE `aap_config` wrote reads back through `ParseConfig` as the type, EID, CLA address, reachable EIDs and contacts of the ConfigMessage it built. The serializer does no escaping, so this rests on the assertions. The run's fields hold commas, colons and brackets, and one EID holds a `)`. *Mutant:* `__str__` without the `")"` assertion.
- **`ConfigCopyAgrees`** (*aap_agents*). For every message `aap_config` built, the copy in `tools/tcpcl_test` raises exactly when `ConfigMessage`'s assertions fail and otherwise writes the same bytes, so the config agent reads both tools alike. *Mutant:* `__str__` writing `[]` for an empty list.
- **Contact rounding.** The run's clock reads 7.5 s after the DTN epoch, and the first contact (offset 2, duration 3) becomes 10 to 12: two seconds, not three. Half-even rounding of start and end separately loses or gains a second when the reading is exactly on a half and the duration is odd. Nothing promises an exact duration, and the hazard list records it.
- *aap_agents* passes with all four tools, `--count 1` and one delivered bundle: 35,645 distinct states in about 100 s. A `struct.pack` without masking breaks `TypeOK`.
- **`AgentEndsOnClose`** (*aap_close*, violation, finding). After the daemon closes, the tool should eventually end. In `aap_send`, the daemon closes before WELCOME, and `recv_aap` then spins forever on `sock.recv(1)` returning `b""`. The copies in `aap_test` and `aap_config` behave the same way. Only `aap_receive` checks for EOF.

- **`ReplyMatchesRequest`** (*rrnd_replay*). Every reply `_request` hands back is the instance's answer to the request it just sent, or the default `{}`. After a timeout the reply may still arrive; a REQ socket refuses to send again, so the late reply is never taken for the answer to a later request. The cost is that the client returns `{}` for the rest of the run (hazard list). *Mutant:* a relaxed REQ socket (`ZMQ_REQ_RELAXED` without correlation) that may send after a timed-out receive.
- **`CrashOnlyAfterLostReply`** (*rrnd_replay*). The scenario ends in a `KeyError` or `AssertionError` only after that satellite's client lost a reply. With instances that always answer, the first query of every pair (whose `data["contacts"]` entry is still missing) and every failed verification are caught. After a lost reply, the prediction log's `hex(ret["result"])` raises `KeyError` outside any `try` (`test_scenario.py:185`) once a prediction for the pair succeeded: a timed-out instance ends the whole scenario. *Mutant:* `except AssertionError` only.
- **`BeaconTimeRegressOnlyOnOverlap`** (*rrnd_replay*). An instance sees one beacon time after a later one only when the two beacons belong to overlapping contacts of its satellite with two stations, as the TODO at `test_scenario.py:229` anticipates. The run reaches such a regress. *Mutant:* contacts replayed in generator order, without the sort.
- **`ScenarioEnds`** (*rrnd_replay*, liveness). The script ends, done or crashed, whatever the instances do. *Mutant:* `rcvtimeo=-1`, where a hung instance blocks the harness forever.
- *rrnd_replay*'s `TypeOK` includes the run counter within `runs`. *Mutant:* the run loop going one run too far.

**Bounds of the session runs.** Two connections are enough for every cross-connection interleaving the code has: handlers share only `self.handlers` and the server state. One bundle per client already puts a chunk boundary between header and data and lets the header coalesce with data. Two bundles add no new control path to the handler but take the combined safety and liveness run to over four minutes. The violation runs need a single connection.

**Fairness of the session runs.**
- Each connection's loop steps are weakly fair, and so is `WaitClosedReturns`. The asyncio loop runs every ready callback in FIFO order and polls every registered reader, so an enabled step is eventually taken.
- Clients and the operator (start, SIGINT) get no fairness. A client may stay connected forever.

**Deadlock.** Checking is off in every TCPCLSession config. The sink process really does stop: once listen() returns, no step remains.

## What is not modelled, and why

- **Token granularity.** Bytes are not split below a token. A contact header split over two reads is rejected by the decoder just like a coalesced one, so it adds no new control path to the listener.
- **`drain()`.** It is treated as non-suspending, because the handler never writes enough to pause the transport.
- **AAP data.** EIDs are at most one character. The uuid4 agent ids, the printed output and `--verify-pl` are left out. No tool serializes SENDCONFIRM or CANCELBUNDLE, so `serialize`'s `TypeError` for them is modelled but never reached. The run's payloads are ASCII, so the UTF-8 failure of `aap_receive` and the non-ASCII EID failure of `parse` (which comes before the payload length is read) are modelled but not reached either.
- **Logging.** `received_message` only logs, so the model records the chunk and nothing else.
- **`AsyncTCPCLConnection`.** It cannot be constructed: its `__init__` calls `super().__init__(eid)` without the host and port that `TCPCLConnection.__init__` requires, so it raises `TypeError` (`tcpcl.py:192`). Its `__aenter__` also calls the synchronous `__enter__`, which calls the overridden coroutine `connect` without awaiting it. No caller uses the class, so there is no reachable state to model.
- **The rest of `tools/tcpcl_test`.** Its BPv6 serializer, TCPCL codec and config serializer copies are modelled (`SerializeBundle6Copy`, `TcpclTestCommon`, `serialize_upcn_config_message`). Its `make_contact` takes an end offset and truncates the clock, so it has no rounding edge; its contacts go to a node outside the repository. Its BPv7 serializer is modelled with the older draft it is built on (`Bundle7Draft`).
- **SPP timecode value and the CRC polynomial.** The timecode is a fixed value (four base octets, no fraction), whose fields do not affect the framing. The CRC is abstracted to a position-weighted sum (see `CLAStream`); the polynomial arithmetic is checked in `CRC`.
- **The stand-alone `tcpcl_sink.py`.** Its accept loop is not modelled. It catches only `AssertionError` from the copied header decoder. A first read of exactly `dtn!`, or a header cut inside its SDNV, raises `IndexError` instead, and that ends the sink process (hazard list). `TcpclTestCommon` does not tell the two exceptions apart.
- **Timeout units.** `mtcp_sink` and `mtcp_test` document `--timeout` in milliseconds (default 3000) and pass it unchanged to `select()`, which counts seconds. `CLAStream` abstracts the length of a wait (`Timeout`), so the model is indifferent to it (hazard list).
- **The STM32 serial proxy.** `stm32_mtcp_proxy.py` relays bytes between one TCP client and the USB serial device, with no framing of its own. Two defects are recorded in the hazard list. First, after a serial error it reopens the port but keeps the TCP connection, so a client reading MTCP behind it sees a torn frame. Second, a connection reset from the client is not caught and ends the process. Each would need a violation run of its own, and the model has none to spare.
- **RRND tooling outside the harness.** The contact plan generator propagates orbits in floating point; `NDScenario` takes its output as a constant plan. The metric exchange (`--metricsexchange`, off by default), the statistics, the result output, `ecef2lla`, `eval.py`, the comparators, the plotting scripts and `spawn_rrnd_processes.py` compute over numbers or launch processes and hold no protocol state. The RRND instance itself is not in the repository.
- **Not modelled, no protocol state:** the installer, the CLI wrappers and the integration tests.

## Plan

The modules to add, in order:

1. `CRC` is done (above).
2. **`CLAStream`** is done (above). It covers the SDNV codec, TCPCL, MTCP and TCPSPP framing, and `sock_recv_raw`.
3. **`Bundle7Blocks`** is done (above), with the codec and the round trip. **`Bundle6`** and the `BundleTool` composition are done. The older copy in `tools/bundle7` is done (`Bundle7Draft`). `bundle7.py`'s administrative records are done (`Bundle7Report`). Next: `bundle7.py`'s own sequence counter (a second thread-local, separate from `bundle6.py`'s).
4. **`AAP`** is done (above).
5. **`NDScenario`** is done (above) for the RRND harness. Next: a second request per contact of the metric exchange.
6. **Abstract channel.** `CLAChannel` is done for the client side (`CLAStream`). Next: `TCPCLSession`'s listener side against the same channel, mapping each connection's delivered chunks to bundles.
