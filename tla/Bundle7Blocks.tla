---------------------------- MODULE Bundle7Blocks ----------------------------
(***************************************************************************)
(* A BPbis bundle in src/pyupcn/bundle7.py: a Bundle object built by its  *)
(* constructor, by Bundle.parse or by create_bundle7, grown by Bundle.add, *)
(* encoded by the __bytes__ methods and decoded again by Bundle.parse.    *)
(* Block data is one fixed value per block type; the flags of canonical   *)
(* blocks are NONE, as every constructor of the module leaves them.       *)
(***************************************************************************)
EXTENDS Integers, Sequences, SequencesExt, FiniteSets, Cbor

CONSTANTS
    Numbers,        \* block numbers a caller or a parsed bundle may carry
    PayloadNumbers, \* numbers the payload block may carry
    MaxBlocks,      \* bound on the extension blocks of one bundle
    Primaries,      \* primary blocks the bundles are built with
    CrcTypes,       \* CRC types chosen for the canonical blocks
    PayloadData,    \* the payload bytes
    PreviousNode    \* the EID of the Previous-Node blocks

\* BlockType values of the canonical blocks CanonicalBlock.from_cbor accepts.
PAYLOAD == 1
PREVIOUS_NODE == 6
BUNDLE_AGE == 7
HOP_COUNT == 10
BlockTypes == {PAYLOAD, PREVIOUS_NODE, BUNDLE_AGE, HOP_COUNT}

\* CRCType and the BundleProcFlag this module distinguishes.
CRC_NONE == 0
CRC16 == 1
CRC32 == 2
IS_FRAGMENT == 1

\* None of block_number, fragment_offset and total_payload_length.
None == -1

\* The primary block is number 0 (PrimaryBlock.block_number).
PRIMARY_NUMBER == 0

\* Outcomes of a call of Bundle.add.
Outcomes == {"ok", "AssertionError", "ValueError", "TypeError"}

ASSUME Numbers \subseteq Nat /\ PayloadNumbers \subseteq Nat
ASSUME MaxBlocks \in Nat
ASSUME CrcTypes \subseteq {CRC_NONE, CRC16, CRC32}

-----------------------------------------------------------------------------
(* EIDs, creation timestamps and block data                               *)

\* EID(eid): 'dtn:none' is (1, 0), 'dtn:<ssp>' is (1, ssp), and
\* 'ipn:<node>.<service>' is (2, (node, service)); cbor writes a tuple as
\* an array.  EID.from_cbor copies the two elements back into a tuple.
DtnNone == Array(<<UInt(1), UInt(0)>>)
Dtn(ssp) == Array(<<UInt(1), TextStr(ssp)>>)
Ipn(node, service) == Array(<<UInt(2), Array(<<UInt(node), UInt(service)>>)>>)

UNIX_TO_DTN_OFFSET == 946684800

\* dtn2unix of helpers.py.
DtnToUnix(t) == t + UNIX_TO_DTN_OFFSET

\* CreationTimestamp(time, sequence_number) of a Unix timestamp: the DTN
\* seconds of the time, rounded, and the sequence number.
CreationTimestamp(unix, seq) == <<unix - UNIX_TO_DTN_OFFSET, seq>>

\* CreationTimestamp.from_cbor: the decoded DTN seconds go through
\* dtn2unix and the constructor again.
CreationFromCbor(x) == CreationTimestamp(DtnToUnix(x.v[1].v[1]), x.v[2].v[1])

\* The data of the blocks the module's constructors build: a CBORBlock
\* stores cbor.dumps of its value; create_bundle7 passes hop_limit=30,
\* hop_count=0 and bundle_age=0 (in microseconds: int(age * 1000000)).
BlockData(t) ==
    CASE t = PAYLOAD       -> PayloadData
      [] t = PREVIOUS_NODE -> Dumps(PreviousNode)
      [] t = BUNDLE_AGE    -> Dumps(UInt(0 * 1000000))
      [] t = HOP_COUNT     -> Dumps(Array(<<UInt(30), UInt(0)>>))

\* CanonicalBlock(block_type, data, block_number, crc_type=...).
Block(t, n, c) == [type |-> t, number |-> n, flags |-> 0, crc_type |-> c,
                   data |-> BlockData(t), crc_provided |-> <<>>]

\* PayloadBlock(data, crc_type=...) has number 1; Bundle.parse builds the
\* payload block with the number it reads.
PayloadBlock(n, c) == Block(PAYLOAD, n, c)

\* PrimaryBlock(...): the fields this module keeps.
PrimaryBlock(flags, crc_type, destination, source, report_to, creation, lifetime, fragment_offset, total_payload_length) ==
    [flags |-> flags, crc_type |-> crc_type, destination |-> destination,
     source |-> source, report_to |-> report_to, creation |-> creation,
     lifetime |-> lifetime, fragment_offset |-> fragment_offset,
     total_payload_length |-> total_payload_length, crc_provided |-> <<>>]

\* PrimaryBlock.has_flag for a single-bit flag.
HasFlag(flags, f) == (flags \div f) % 2 = 1

-----------------------------------------------------------------------------
(* Encoding: as_array, calculate_crc and __bytes__                        *)

\* PrimaryBlock.as_array: the eight mandatory fields, lifetime in
\* microseconds, then the fragment fields if IS_FRAGMENT is set.
PrimaryAsArray(p) ==
    LET base == <<UInt(7), UInt(p.flags), UInt(p.crc_type), p.destination,
                  p.source, p.report_to,
                  Array(<<UInt(p.creation[1]), UInt(p.creation[2])>>),
                  UInt(p.lifetime * 1000000)>>
    IN  IF HasFlag(p.flags, IS_FRAGMENT)
        THEN base \o <<UInt(p.fragment_offset), UInt(p.total_payload_length)>>
        ELSE base

\* The two assertions of as_array on a fragment.
FragmentFieldsPresent(p) ==
    HasFlag(p.flags, IS_FRAGMENT) =>
        p.fragment_offset # None /\ p.total_payload_length # None

\* CanonicalBlock.as_array.
CanonicalAsArray(b) ==
    <<UInt(b.type), IF b.number = None THEN Null ELSE UInt(b.number),
      UInt(b.flags), UInt(b.crc_type), ByteStr(b.data)>>

\* The empty CRC field calculate_crc appends: a byte string of 4 or 2 zeros.
EmptyCrc(t) == IF t = CRC32 THEN <<68, 0, 0, 0, 0>> ELSE <<66, 0, 0>>

\* crc32_c and crc16_x25, abstracted to a digest that tells every input
\* apart and keeps the type; the CRC engine itself is the subject of
\* CRC.tla.  struct.pack('!I' or '!H') of the digest is the digest.
Checksum(t, bytes) == <<t>> \o bytes

\* Mutant of CalculateCrc: the array head counts the fields without the
\* CRC field.
CalculateCrcShortHead(t, arr) ==
    Checksum(t, <<128 + Len(arr)>> \o DumpsAll(arr) \o EmptyCrc(t))

\* calculate_crc of a block whose as_array is arr: the array head
\* 0x80 | len + 1 (len + 1 < 24 here), every field, the empty CRC field.
CalculateCrc(t, arr) ==
    Checksum(t, <<128 + (Len(arr) + 1)>> \o DumpsAll(arr) \o EmptyCrc(t))

\* __bytes__: as_array, with the CRC field appended unless the type is NONE.
WithCrc(t, arr) ==
    IF t = CRC_NONE THEN arr ELSE Append(arr, ByteStr(CalculateCrc(t, arr)))

PrimaryItem(p) == Array(WithCrc(p.crc_type, PrimaryAsArray(p)))
CanonicalItem(b) == Array(WithCrc(b.crc_type, CanonicalAsArray(b)))

\* Bundle.__bytes__: the blocks in __iter__ order, primary block, extension
\* blocks, payload block, inside an indefinite array (0x9f ... 0xff).
BundleItems(p, pl, bl) ==
    <<PrimaryItem(p)>> \o [i \in DOMAIN bl |-> CanonicalItem(bl[i])]
                      \o <<CanonicalItem(pl)>>

BundleBytes(p, pl, bl) == <<159>> \o DumpsAll(BundleItems(p, pl, bl)) \o <<255>>

-----------------------------------------------------------------------------
(* Decoding: from_cbor                                                    *)

\* Mutant of PrimaryFromCbor: the CRC is read after the eight mandatory
\* fields whether or not the fragment fields follow them.
PrimaryFromCborCrcAfterEight(d) ==
    LET flags    == d[2].v[1]
        crc_type == d[3].v[1]
        frag     == HasFlag(flags, IS_FRAGMENT)
        fields   == PrimaryBlock(flags, crc_type, d[4], d[5], d[6],
                        CreationFromCbor(d[7]), d[8].v[1] \div 1000000,
                        IF frag THEN d[9].v[1] ELSE None,
                        IF frag THEN d[10].v[1] ELSE None)
    IN  [version |-> d[1].v[1],
         block |-> [fields EXCEPT !.crc_provided =
                        IF crc_type # CRC_NONE THEN d[9].v ELSE <<>>]]

\* PrimaryBlock.from_cbor on the decoded array d: the fragment fields
\* and the expected position of the CRC field follow IS_FRAGMENT.
PrimaryFromCbor(d) ==
    LET flags    == d[2].v[1]
        crc_type == d[3].v[1]
        frag     == HasFlag(flags, IS_FRAGMENT)
        expected == IF frag THEN 10 ELSE 8
        fields   == PrimaryBlock(flags, crc_type, d[4], d[5], d[6],
                        CreationFromCbor(d[7]), d[8].v[1] \div 1000000,
                        IF frag THEN d[9].v[1] ELSE None,
                        IF frag THEN d[10].v[1] ELSE None)
    IN  [version |-> d[1].v[1],
         \* crc_provided: struct.unpack of the field after the others
         block |-> [fields EXCEPT !.crc_provided =
                        IF crc_type # CRC_NONE THEN d[expected + 1].v ELSE <<>>]]

\* CanonicalBlock.from_cbor: the array length the CRC type asks for, then
\* the fields by position.
CanonicalFromCbor(d) ==
    LET crc_type == d[4].v[1]
    IN  [ok |-> Len(d) = IF crc_type = CRC_NONE THEN 5 ELSE 6,
         block |-> [type |-> d[1].v[1],
                    number |-> IF d[2].k = "null" THEN None ELSE d[2].v[1],
                    flags |-> d[3].v[1], crc_type |-> crc_type,
                    data |-> d[5].v,
                    crc_provided |-> IF crc_type = CRC_NONE THEN <<>>
                                     ELSE d[6].v]]

VARIABLES
    primary,        \* Bundle.primary_block
    payload,        \* Bundle.payload_block
    blocks,         \* Bundle.blocks: the extension blocks in encoding order
    request,        \* history: the block of the last add (number as given)
    outcome         \* history: how the last add ended

vars == <<primary, payload, blocks, request, outcome>>

BlockRecords == [type : BlockTypes, number : Nat, flags : {0},
                 crc_type : CrcTypes, data : Seq(Nat), crc_provided : {<<>>}]

TypeOK ==
    /\ primary \in Primaries
    /\ payload \in {PayloadBlock(n, c) : n \in PayloadNumbers, c \in CrcTypes}
    /\ blocks \in Seq(BlockRecords) /\ Len(blocks) <= MaxBlocks
    /\ \A i \in DOMAIN blocks : blocks[i].data = BlockData(blocks[i].type)
    /\ request \in {<<>>} \cup {Block(t, n, c) : t \in BlockTypes,
                                 n \in Numbers \cup {None}, c \in CrcTypes}
    /\ outcome \in Outcomes

-----------------------------------------------------------------------------
(* Bundle.add                                                              *)

\* The loop of Bundle.add over self.blocks, from block i on, with num the
\* largest block number seen so far.  Per block: the number assertion,
\* then num = max(num, block_number), then the check of the block type.
\* The Bundle-Age branch evaluates `creation_time - DTN_EPOCH` on the int
\* unpacked from the CreationTimestamp tuple: int minus datetime raises
\* TypeError before creation_time_dtn is compared with 0.
RECURSIVE AddScan(_, _, _, _)
AddScan(bl, new, i, num) ==
    IF i > Len(bl) THEN [raised |-> "ok", num |-> num]
    ELSE LET b == bl[i] IN
         IF b.number = new.number THEN [raised |-> "AssertionError", num |-> num]
         ELSE IF b.type = new.type /\ b.type \in {PREVIOUS_NODE, HOP_COUNT}
              THEN [raised |-> "ValueError", num |-> num]
         ELSE IF b.type = new.type /\ b.type = BUNDLE_AGE
              THEN [raised |-> "TypeError", num |-> num]
         ELSE AddScan(bl, new, i + 1, IF b.number > num THEN b.number ELSE num)

\* The number the added block ends up with: its own, or num + 1.
NumberFrom(bl, new) ==
    IF new.number = None THEN AddScan(bl, new, 1, 1).num + 1 ELSE new.number

\* Mutant of Insert: Previous-Node blocks appended like all others.
InsertAppending(bl, blk) == Append(bl, blk)

\* Previous-Node blocks go to the front, all others to the end.
Insert(bl, blk) ==
    IF blk.type = PREVIOUS_NODE THEN <<blk>> \o bl ELSE Append(bl, blk)

\* Mutant of AddResult: the block keeps block_number None.
AddResultUnnumbered(bl, new) == Insert(bl, new)

\* The block list after a successful add of new.
AddResult(bl, new) ==
    Insert(bl, [new EXCEPT !.number = NumberFrom(bl, new)])

\* Bundle.add(new_block) on this bundle.
Add(new) ==
    /\ Len(blocks) < MaxBlocks
    /\ LET raised == AddScan(blocks, new, 1, 1).raised
       IN  /\ outcome' = raised
           /\ blocks' = IF raised = "ok" THEN AddResult(blocks, new) ELSE blocks
    /\ request' = new
    /\ UNCHANGED <<primary, payload>>

\* Bundle(primary_block, payload_block, blocks): add for every block in
\* order, stopping at the first that raises.
AddAll(bl) ==
    FoldLeft(LAMBDA acc, new :
                IF acc.raised # "ok" THEN acc
                ELSE LET raised == AddScan(acc.blocks, new, 1, 1).raised
                     IN  [raised |-> raised,
                          blocks |-> IF raised = "ok"
                                     THEN AddResult(acc.blocks, new)
                                     ELSE acc.blocks],
             [raised |-> "ok", blocks |-> <<>>], bl)

\* Bundle.parse on the list cbor.loads returns: at least two elements, the
\* first decoded as the primary block, the last as the payload block and
\* those between as canonical blocks, which the constructor adds in order.
ParseBundle(d) ==
    LET n   == Len(d)
        pb  == PrimaryFromCbor(d[1].v)
        pl  == CanonicalFromCbor(d[n].v)
        ext == [i \in 1..(n - 2) |-> CanonicalFromCbor(d[i + 1].v)]
        bundle == AddAll([i \in DOMAIN ext |-> ext[i].block])
    IN  [ok |-> /\ n >= 2 /\ pb.version = 7 /\ pl.ok
                /\ \A i \in DOMAIN ext : ext[i].ok
                /\ bundle.raised = "ok",
         primary |-> pb.block, payload |-> pl.block, blocks |-> bundle.blocks]

-----------------------------------------------------------------------------
(* How a bundle comes to exist                                             *)

\* Bundle(primary_block, payload_block): no extension blocks yet.  The
\* payload is a PayloadBlock (number 1) or, from Bundle.parse, the last
\* element of the CBOR array decoded by CanonicalBlock.from_cbor, whose
\* number is whatever the wire says.  The primary block's creation time
\* may be the DTN epoch itself.
Init ==
    /\ primary \in Primaries
    /\ payload \in {PayloadBlock(n, c) : n \in PayloadNumbers, c \in CrcTypes}
    /\ blocks = <<>>
    /\ request = <<>>
    /\ outcome = "ok"

\* create_bundle7 on a fresh bundle: the payload block and, with the one
\* crc_type_canonical, an optional Previous-Node block, then a Hop-Count
\* and a Bundle-Age block, all numbered by add.  The primary block is the
\* one its arguments give.
CreateBundle7 ==
    /\ blocks = <<>> /\ request = <<>>
    /\ \E previous_node \in BOOLEAN, c \in CrcTypes :
         LET hc == Block(HOP_COUNT, None, c)
             ba == Block(BUNDLE_AGE, None, c)
             pn == Block(PREVIOUS_NODE, None, c)
             b0 == IF previous_node THEN AddResult(<<>>, pn) ELSE <<>>
         IN  /\ payload' = PayloadBlock(1, c)
             /\ blocks' = AddResult(AddResult(b0, hc), ba)
             /\ request' = ba
    /\ outcome' = "ok"
    /\ UNCHANGED primary

Next ==
    \/ CreateBundle7
    \/ \E t \in BlockTypes, n \in Numbers \cup {None}, c \in CrcTypes :
         Add(Block(t, n, c))

Spec == Init /\ [][Next]_vars

-----------------------------------------------------------------------------
(* Properties                                                              *)

\* The encoded bundle, as cbor.loads hands it to Bundle.parse.
Wire == BundleItems(primary, payload, blocks)

NoCrc(b) == [b EXCEPT !.crc_provided = <<>>]

\* The BPv7 round trip of spec section 8: Bundle.parse of the bytes of
\* any bundle the constructors and add can build (whose fragment fields
\* as_array accepts) succeeds and gives back the same primary-block fields
\* and the same payload and extension blocks, in order, and every CRC read
\* from the wire equals the one calculate_crc computes on the decoded block.
RoundTrip ==
    FragmentFieldsPresent(primary) =>
        LET dec == ParseBundle(Wire)
        IN  /\ dec.ok
            /\ NoCrc(dec.primary) = primary
            /\ NoCrc(dec.payload) = payload
            /\ [i \in DOMAIN dec.blocks |-> NoCrc(dec.blocks[i])] = blocks
            /\ dec.primary.crc_type # CRC_NONE =>
                 dec.primary.crc_provided
                   = CalculateCrc(dec.primary.crc_type, PrimaryAsArray(dec.primary))
            /\ \A b \in {dec.payload} \cup Range(dec.blocks) :
                 b.crc_type # CRC_NONE =>
                   b.crc_provided = CalculateCrc(b.crc_type, CanonicalAsArray(b))

\* Spec section 4.4: the CRC of every block is computed over the block's
\* own encoding with the CRC field in place, zeroed at the width of its
\* type, which is what a receiver recomputes from the bytes; calculate_crc
\* builds that input by hand, field by field, beside the __bytes__ path.
CrcCoversEncodedBlock ==
    FragmentFieldsPresent(primary) =>
        \A i \in DOMAIN Wire :
            LET a == Wire[i].v
                t == a[IF i = 1 THEN 3 ELSE 4].v[1]
                w == IF t = CRC32 THEN 4 ELSE 2
            IN  t # CRC_NONE =>
                  a[Len(a)].v = Checksum(t, Dumps(Array(ReplaceAt(a, Len(a),
                                                  ByteStr([j \in 1..w |-> 0])))))

Numbered(t) == {i \in DOMAIN blocks : blocks[i].type = t}

\* The extension-block layout Bundle.add maintains across any sequence of
\* calls: at most one Previous-Node block, and it is the first block after
\* the primary block; at most one Hop-Count and one Bundle-Age block.
ExtensionBlockLayout ==
    /\ \A t \in {PREVIOUS_NODE, HOP_COUNT, BUNDLE_AGE} : Cardinality(Numbered(t)) <= 1
    /\ \A i \in Numbered(PREVIOUS_NODE) : i = 1

==============================================================================
