---------------------------- MODULE Bundle7Draft ----------------------------
(***************************************************************************)
(* The older BPbis bundle generator in src/tools/bundle7/__init__.py, on   *)
(* which tools/tcpcl_test/tcpcl_test_common.py builds its                  *)
(* serialize_bundle7 and which tools/bundle7/__main__.py drives.  It       *)
(* follows an earlier draft than src/pyupcn/bundle7.py: other block type  *)
(* codes, a payload block numbered 0, a block-data-length field, block    *)
(* data written as a CBOR item, no total ADU length, and Bundle.serialize *)
(* in place of __bytes__.  A Bundle object is built by its constructor    *)
(* (which calls add for every extension block), serialized, and reported  *)
(* on by BundleStatusReport.  Names Bundle7Blocks or Bundle6 also define  *)
(* carry the suffix Draft (operators) or _D (constants), so that           *)
(* BundleTool can EXTEND all three.                                        *)
(***************************************************************************)
EXTENDS Integers, Sequences, SequencesExt, FiniteSets, Cbor

CONSTANTS
    SourcesD,       \* source_eid strings (ASCII bytes) of serialize_bundle7
    DestinationsD,  \* its destination_eid strings
    PreviousNodesD, \* its previous_node_eid strings
    DraftPrimaries, \* primary blocks a caller builds with PrimaryBlock(...)
    ExtBlocks,      \* extension blocks a caller hands the constructor
    MaxExt,         \* bound on the extension blocks of one constructor call
    DraftPayloads,  \* payload byte strings
    Clock,          \* readings of time.time() and datetime.now, Unix seconds
    FlagArgsD,      \* bundle_proc_flags of serialize_bundle7
    OffsetArgs,     \* fragment_offset arguments: NoneD or a number
    InfoArgs,       \* the infos of BundleStatusReport (StatusCode bits)
    Reasons         \* the ReasonCode values reported

\* Python's None where a number is expected.
NoneD == -1

\* BundleProcFlag values the module tests.
IS_FRAGMENT_D == 1
ADMINISTRATIVE_RECORD_D == 2
REPORT_STATUS_TIME_D == 64

\* CRCType.
CRC_NONE_D == 0
CRC16_D == 1
CRC32_D == 2

\* BlockType of this draft.
PAYLOAD_D == 1
PREVIOUS_NODE_D == 7
BUNDLE_AGE_D == 8
HOP_COUNT_D == 9

\* StatusCode, in the order of status_info, and RecordType.
StatusCodes == <<1, 4, 8, 16>>
BUNDLE_STATUS_REPORT_D == 1

-----------------------------------------------------------------------------
(* EIDs and DTN time                                                       *)

ColonByte == 58
DotByte == 46
NULL_EID_D == <<100, 116, 110, 58, 110, 111, 110, 101>>     \* "dtn:none"

Positions(s, c) == {i \in DOMAIN s : s[i] = c}

\* int() of the ASCII digits the EIDs hold; anything else raises ValueError.
IsDecimal(s) == Len(s) > 0 /\ \A i \in DOMAIN s : s[i] \in 48..57
DecimalValue(s) == FoldLeft(LAMBDA acc, c : acc * 10 + (c - 48), 0, s)

\* EID(None), and EID of an EID object, which copies it.
DtnNoneDraft == Array(<<UInt(1), UInt(0)>>)

\* EID(eid) of a string: 'dtn:none' is (1, 0); eid.split(":") must give
\* two parts; 'dtn' gives (1, ssp); 'ipn' splits the SSP at '.' into two
\* parts and int()s both; every failure, and any other scheme, raises
\* ValueError (ok FALSE).
EidDraft(s) ==
    IF s = NULL_EID_D THEN [ok |-> TRUE, item |-> DtnNoneDraft]
    ELSE LET cs == Positions(s, ColonByte)
             i == CHOOSE x \in cs : \A y \in cs : x <= y
             schema == SubSeq(s, 1, i - 1)
             ssp == SubSeq(s, i + 1, Len(s))
             ds == Positions(ssp, DotByte)
             j == CHOOSE x \in ds : TRUE
             node == SubSeq(ssp, 1, j - 1)
             service == SubSeq(ssp, j + 1, Len(ssp))
         IN  CASE Cardinality(cs) # 1 -> [ok |-> FALSE, item |-> Null]
               [] schema = <<100, 116, 110>> ->
                    [ok |-> TRUE, item |-> Array(<<UInt(1), TextStr(ssp)>>)]
               [] schema = <<105, 112, 110>> ->
                    IF Cardinality(ds) = 1 /\ IsDecimal(node) /\ IsDecimal(service)
                    THEN [ok |-> TRUE,
                          item |-> Array(<<UInt(2), Array(<<UInt(DecimalValue(node)),
                                                         UInt(DecimalValue(service))>>)>>)]
                    ELSE [ok |-> FALSE, item |-> Null]
               [] OTHER -> [ok |-> FALSE, item |-> Null]

\* dtn_time(dt): whole seconds since dtn_start; times are whole seconds
\* after 2000 here, so int()'s truncation changes nothing.
dtn_time(unix) == unix - 946684800

\* CreationTimestamp(time, sequence_number): [dtn_time(time), seq].
CreationTimestampDraft(unix, seq) == <<dtn_time(unix), seq>>

-----------------------------------------------------------------------------
(* Blocks                                                                  *)

\* PrimaryBlock(...): the EIDs already passed through EID().
PrimaryBlockDraft(flags, crc_type, destination, source, report_to, creation, fragment_offset, lifetime) ==
    [flags |-> flags, crc_type |-> crc_type, destination |-> destination,
     source |-> source, report_to |-> report_to, creation |-> creation,
     fragment_offset |-> fragment_offset, lifetime |-> lifetime]

\* has_flag(required) for a single-bit flag.
HasFlagDraft(flags, f) == (flags \div f) % 2 = 1

\* CanonicalBlock(block_type, data, block_number, crc_type): data is the
\* Python value the block carries, as the CBOR item cbor.dumps makes of it.
BlockDraft(t, data, n, c) ==
    [type |-> t, number |-> n, flags |-> 0, crc_type |-> c, data |-> data]

\* PayloadBlock(data): block number 0.
PayloadBlockDraft(data, c) == BlockDraft(PAYLOAD_D, data, 0, c)

\* PreviousNodeBlock(eid), BundleAgeBlock(age), HopCountBlock(limit, count).
PreviousNodeBlockDraft(eid, c) == BlockDraft(PREVIOUS_NODE_D, eid, NoneD, c)
BundleAgeBlockDraft(age, c) == BlockDraft(BUNDLE_AGE_D, UInt(age), NoneD, c)
HopCountBlockDraft(limit, count, c) ==
    BlockDraft(HOP_COUNT_D, Array(<<UInt(limit), UInt(count)>>), NoneD, c)

-----------------------------------------------------------------------------
(* Bundle.serialize                                                        *)

\* int(random() * 10): the offset PrimaryBlock.serialize writes for a
\* fragment whose fragment_offset is falsy (None, and also 0).
RandomOffsets == 0..9

\* The offsets serialize may write for p.
OffsetDraws(p) ==
    IF HasFlagDraft(p.flags, IS_FRAGMENT_D) /\ p.fragment_offset \in {NoneD, 0}
    THEN RandomOffsets ELSE {0}

\* The list PrimaryBlock.serialize builds before the CRC, with r the draw
\* of random(): eight fields, then the fragment offset if IS_FRAGMENT.
PrimaryFieldsDraft(p, r) ==
    <<UInt(7), UInt(p.flags), UInt(p.crc_type), p.destination, p.source,
      p.report_to, Array(<<UInt(p.creation[1]), UInt(p.creation[2])>>),
      UInt(p.lifetime)>>
    \o IF ~HasFlagDraft(p.flags, IS_FRAGMENT_D) THEN <<>>
       ELSE IF p.fragment_offset \in {NoneD, 0} THEN <<UInt(r)>>
       ELSE <<UInt(p.fragment_offset)>>

\* The empty CRC field: a CBOR byte string of 4 or 2 zero bytes.
EmptyCrcDraft(t) == IF t = CRC32_D THEN <<68, 0, 0, 0, 0>> ELSE <<66, 0, 0>>

\* crc32 and crc16_x25 of the package's crc module, abstracted to a digest
\* that tells every input apart and keeps the type; struct.pack of it is
\* the digest.
ChecksumDraft(t, bytes) == <<t>> \o bytes

\* The primary block's CRC: the array head 0x80 | len + 1, every field
\* through cbor.dumps, the empty CRC field.
PrimaryCrcDraft(t, fields) ==
    ChecksumDraft(t, <<128 + (Len(fields) + 1)>> \o DumpsAll(fields) \o EmptyCrcDraft(t))

\* PrimaryBlock.serialize as the item cbor.dumps encodes.
PrimaryItemDraft(p, r) ==
    LET f == PrimaryFieldsDraft(p, r)
    IN  Array(IF p.crc_type = CRC_NONE_D THEN f
              ELSE Append(f, ByteStr(PrimaryCrcDraft(p.crc_type, f))))

\* Mutant of CanonicalFieldsDraft: a byte string's length taken from the
\* data, not from its encoding.
CanonicalFieldsDataLen(b) ==
    LET n == IF b.data.k = "bytes" THEN Len(b.data.v) ELSE Len(Dumps(b.data))
    IN  <<UInt(b.type), IF b.number = NoneD THEN Null ELSE UInt(b.number),
          UInt(b.flags), UInt(b.crc_type), UInt(IF n < 1 THEN 1 ELSE n), b.data>>

\* The six fields of CanonicalBlock.serialize: the block data length is
\* max(1, len(cbor.dumps(data))), and the data follows as a CBOR item.
CanonicalFieldsDraft(b) ==
    LET n == Len(Dumps(b.data))
    IN  <<UInt(b.type), IF b.number = NoneD THEN Null ELSE UInt(b.number),
          UInt(b.flags), UInt(b.crc_type), UInt(IF n < 1 THEN 1 ELSE n), b.data>>

\* A canonical block's CRC: the head 0x80 | 7 written as a constant, the
\* six fields, the empty CRC field.
CanonicalCrcDraft(t, fields) ==
    ChecksumDraft(t, <<128 + 7>> \o DumpsAll(fields) \o EmptyCrcDraft(t))

CanonicalItemDraft(b) ==
    LET f == CanonicalFieldsDraft(b)
    IN  Array(IF b.crc_type = CRC_NONE_D THEN f
              ELSE Append(f, ByteStr(CanonicalCrcDraft(b.crc_type, f))))

\* Bundle.serialize: primary block, extension blocks, payload block, in an
\* indefinite array (0x9f ... 0xff).
BundleItemsDraft(bd, r) ==
    <<PrimaryItemDraft(bd.primary, r)>>
    \o [i \in DOMAIN bd.blocks |-> CanonicalItemDraft(bd.blocks[i])]
    \o <<CanonicalItemDraft(bd.payload)>>

SerializeDraft(bd, r) == <<159>> \o DumpsAll(BundleItemsDraft(bd, r)) \o <<255>>

-----------------------------------------------------------------------------
(* Bundle and Bundle.add                                                    *)

\* The loop of add over self.blocks from block i on, num the largest
\* number so far (from 0): the number assertion, num = max(num, number),
\* then the block type.  A second Bundle-Age block evaluates
\* dtn_time(creation_time) on the int unpacked from the CreationTimestamp:
\* int minus datetime raises TypeError.
RECURSIVE AddScanDraft(_, _, _, _)
AddScanDraft(bl, new, i, num) ==
    IF i > Len(bl) THEN [raised |-> "ok", num |-> num]
    ELSE LET b == bl[i]
             n == IF b.number > num THEN b.number ELSE num
         IN  IF b.number = new.number THEN [raised |-> "AssertionError", num |-> num]
             ELSE IF b.type = new.type /\ b.type \in {PREVIOUS_NODE_D, HOP_COUNT_D}
                  THEN [raised |-> "ValueError", num |-> n]
             ELSE IF b.type = new.type /\ b.type = BUNDLE_AGE_D
                  THEN [raised |-> "TypeError", num |-> n]
             ELSE AddScanDraft(bl, new, i + 1, n)

\* The number the block ends up with: its own, or num + 1.
NumberFromDraft(num, new) == IF new.number = NoneD THEN num + 1 ELSE new.number

\* Previous-Node blocks are inserted at the front, all others appended.
InsertDraft(bl, blk) ==
    IF blk.type = PREVIOUS_NODE_D THEN <<blk>> \o bl ELSE Append(bl, blk)

\* add(new_block) on the extension blocks bl.
AddDraft(bl, new) ==
    LET s == AddScanDraft(bl, new, 1, 0)
    IN  [raised |-> s.raised,
         blocks |-> IF s.raised # "ok" THEN bl
                    ELSE InsertDraft(bl, [new EXCEPT !.number = NumberFromDraft(s.num, new)])]

\* Bundle([primary, ext..., payload]): primary_block[0], [-1] and [1:-1],
\* then add for every extension block, up to the first that raises.
BundleDraft(pb, ext, pl) ==
    LET r == FoldLeft(LAMBDA acc, new :
                         IF acc.raised # "ok" THEN acc ELSE AddDraft(acc.blocks, new),
                      [raised |-> "ok", blocks |-> <<>>], ext)
    IN  [raised |-> r.raised,
         bundle |-> [primary |-> pb, payload |-> pl, blocks |-> r.blocks]]

\* Bundle.is_fragmented.
is_fragmented(bd) == HasFlagDraft(bd.primary.flags, IS_FRAGMENT_D)

-----------------------------------------------------------------------------
(* Administrative records                                                  *)

\* status_info of BundleStatusReport: [infos & code != 0] per status code,
\* and, if the bundle asks for REPORT_STATUS_TIME, dtn_time(time) appended
\* to every entry whose flag is set.
StatusInfoDraft(infos, bd, t) ==
    [i \in 1..4 |->
        LET set == (infos \div StatusCodes[i]) % 2 = 1
        IN  Array(<<Bool(set)>> \o
                  IF set /\ HasFlagDraft(bd.primary.flags, REPORT_STATUS_TIME_D)
                  THEN <<UInt(dtn_time(t))>> ELSE <<>>)]

\* AdministrativeRecord(bundle, type, record_data): source and creation
\* time appended to record_data; a fragmented bundle raises
\* AttributeError at primary_block.total_payload_length, which this
\* draft's PrimaryBlock lacks.  The payload block's data is the list
\* [record_type_code, record_data], CRC-32 by default.
AdministrativeRecordDraft(bd, type, data) ==
    [ok |-> ~is_fragmented(bd),
     block |-> PayloadBlockDraft(
                 Array(<<UInt(type),
                         Array(data \o <<bd.primary.source,
                                         Array(<<UInt(bd.primary.creation[1]),
                                                 UInt(bd.primary.creation[2])>>)>>)>>),
                 CRC32_D)]

\* BundleStatusReport(infos, reason, bundle, time).
BundleStatusReportDraft(infos, reason, bd, t) ==
    AdministrativeRecordDraft(bd, BUNDLE_STATUS_REPORT_D,
                              <<Array(StatusInfoDraft(infos, bd, t)), UInt(reason)>>)

-----------------------------------------------------------------------------
(* The callers                                                             *)

VARIABLES
    dbundle,        \* the Bundle object the caller holds (<<>> before one)
    doutcome,       \* how the last call ended
    dcall,          \* history: which call that was
    dreported       \* history: the bundle the last status report is about

dvars == <<dbundle, doutcome, dcall, dreported>>

OutcomesD == {"ok", "AssertionError", "ValueError", "TypeError", "AttributeError"}

DraftInit ==
    /\ dbundle = <<>>
    /\ doutcome = "ok"
    /\ dcall = "none"
    /\ dreported = <<>>

\* The outcome of a call that raised leaves the caller without a new
\* object: dbundle keeps the one it had.
Built(raised, bd) ==
    /\ doutcome' = raised
    /\ dbundle' = IF raised = "ok" THEN bd ELSE dbundle

\* Bundle([primary, ext..., payload]) with the blocks a caller built.
ConstructDraft ==
    /\ \E pb \in DraftPrimaries, ext \in BoundedSeq(ExtBlocks, MaxExt),
          pl \in DraftPayloads :
         LET r == BundleDraft(pb, ext, PayloadBlockDraft(ByteStr(pl), CRC32_D))
         IN  Built(r.raised, r.bundle)
    /\ dcall' = "bundle"
    /\ dreported' = <<>>

\* serialize_bundle7 of tcpcl_test_common.py: creation time from
\* time.time(), sequence number 0, lifetime 300, report_to NULL_EID, the
\* PrimaryBlock and CanonicalBlock default CRC types, a Previous-Node block
\* if previous_node_eid is not NULL_EID, then Hop-Count (30, 0) and
\* Bundle-Age 0, all through Bundle(bundle_array).  EID() raises
\* ValueError for the first EID it cannot parse.
serialize_bundle7_copy(src, dst, payload, unix, flags, offset, prev) ==
    LET d  == EidDraft(dst)
        s  == EidDraft(src)
        rt == EidDraft(NULL_EID_D)
        pn == EidDraft(prev)
        pb == PrimaryBlockDraft(flags, CRC16_D, d.item, s.item, rt.item,
                                CreationTimestampDraft(unix, 0), offset, 300)
        ext == (IF prev # NULL_EID_D THEN <<PreviousNodeBlockDraft(pn.item, CRC32_D)>>
                ELSE <<>>)
               \o <<HopCountBlockDraft(30, 0, CRC32_D), BundleAgeBlockDraft(0, CRC32_D)>>
        r  == BundleDraft(pb, ext, PayloadBlockDraft(ByteStr(payload), CRC32_D))
    IN  [raised |-> IF d.ok /\ s.ok /\ rt.ok /\ pn.ok THEN r.raised ELSE "ValueError",
         bundle |-> r.bundle]

SerializeBundle7Copy ==
    /\ \E src \in SourcesD, dst \in DestinationsD, prev \in PreviousNodesD,
          payload \in DraftPayloads,
          unix \in Clock, flags \in FlagArgsD, offset \in OffsetArgs :
         LET r == serialize_bundle7_copy(src, dst, payload, unix, flags, offset, prev)
         IN  Built(r.raised, r.bundle)
    /\ dcall' = "copy"
    /\ dreported' = <<>>

\* tools/bundle7/__main__.py: a BundleStatusReport on the bundle held, and
\* the administrative-record bundle that carries it: PrimaryBlock with
\* ADMINISTRATIVE_RECORD, destination the bundle's report_to, source and
\* report_to None, creation time now with sequence number 0.
StatusReportDraft ==
    /\ dbundle # <<>>
    /\ \E infos \in InfoArgs, reason \in Reasons, t \in Clock, now \in Clock :
         LET rep == BundleStatusReportDraft(infos, reason, dbundle, t)
             pb  == PrimaryBlockDraft(ADMINISTRATIVE_RECORD_D, CRC16_D,
                        dbundle.primary.report_to, DtnNoneDraft, DtnNoneDraft,
                        CreationTimestampDraft(now, 0), NoneD, 86400)
             r   == BundleDraft(pb, <<>>, rep.block)
         IN  Built(IF rep.ok THEN r.raised ELSE "AttributeError", r.bundle)
    /\ dcall' = "report"
    /\ dreported' = dbundle

DraftNext == ConstructDraft \/ SerializeBundle7Copy \/ StatusReportDraft

DraftSpec == DraftInit /\ [][DraftNext]_dvars

-----------------------------------------------------------------------------
(* Properties                                                              *)

\* CBOR items as Cbor.tla builds them.
IsItem(x) == DOMAIN x = {"k", "v"} /\ x.k \in {"uint", "bytes", "text", "bool", "null", "array"}

DraftTypeOK ==
    /\ doutcome \in OutcomesD
    /\ dcall \in {"none", "bundle", "copy", "report"}
    /\ dbundle # <<>> =>
         /\ DOMAIN dbundle = {"primary", "payload", "blocks"}
         /\ dbundle.blocks \in Seq([type : {PREVIOUS_NODE_D, HOP_COUNT_D, BUNDLE_AGE_D},
                                    number : Nat, flags : {0},
                                    crc_type : {CRC_NONE_D, CRC16_D, CRC32_D},
                                    data : {x \in {b.data : b \in Range(dbundle.blocks)} : IsItem(x)}])
         /\ dbundle.payload.type = PAYLOAD_D /\ IsItem(dbundle.payload.data)
         /\ dbundle.primary.creation \in Nat \X Nat

\* A receiver's check of the CRC of one encoded block a with CRC type t:
\* the last field is the checksum of the block's own encoding with that
\* field zeroed at the width of t.
CrcVerifies(a, t) ==
    t # CRC_NONE_D =>
        LET w == IF t = CRC32_D THEN 4 ELSE 2
        IN  a[Len(a)] = ByteStr(ChecksumDraft(t, Dumps(Array(ReplaceAt(a, Len(a),
                                                    ByteStr([j \in 1..w |-> 0]))))))

\* Every block of every encoding Bundle.serialize may write for the bundle
\* a caller holds (any draw of random() for a fragment offset) can be
\* checked by its receiver: the CRC of the primary and of each canonical
\* block is the checksum over that block's own bytes with the CRC zeroed,
\* although serialize builds the CRC input by hand beside cbor.dumps (a
\* head of 0x80 | len + 1 for the primary block, a constant 0x80 | 7 for
\* the others); and the block-data-length field of each canonical block
\* is the length of the encoded data that follows it.
DraftBlocksVerifiable ==
    dbundle # <<>> =>
        \A r \in OffsetDraws(dbundle.primary) :
            LET items == BundleItemsDraft(dbundle, r)
            IN  /\ CrcVerifies(items[1].v, items[1].v[3].v[1])
                /\ \A i \in 2..Len(items) :
                     LET a == items[i].v
                     IN  /\ CrcVerifies(a, a[4].v[1])
                         /\ a[5] = UInt(Len(Dumps(a[6])))

==============================================================================
