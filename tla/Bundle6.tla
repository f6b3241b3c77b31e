------------------------------- MODULE Bundle6 -------------------------------
(***************************************************************************)
(* The RFC 5050 serializer of src/pyupcn/bundle6.py: serialize_bundle6 as *)
(* one action, with the thread-local sequence counter that supplies       *)
(* default sequence numbers (next_sequence_number, reset_sequence_number).*)
(* EIDs are ASCII byte sequences, so that the split at the first ':' and  *)
(* the dictionary offsets are modelled by what they do; every integer     *)
(* field goes through the SDNV operators.  An RFC 5050 reader, written   *)
(* from the bundle format (section 4.5 of the RFC), is the reference the  *)
(* encoder is checked against.                                            *)
(***************************************************************************)
EXTENDS Integers, Sequences, SequencesExt, SDNV

CONSTANTS
    Sources, Destinations,  \* EIDs the caller passes (byte sequences)
    ReportTos, Custodians,  \* report_to_eid and custodian_eid arguments
    TimestampArgs,          \* creation_timestamp arguments; None6 = default
    SequenceArgs,           \* sequence_number arguments; None6 = default
    Lifetimes,              \* lifetime arguments
    FlagArgs,               \* flags arguments
    FragmentArgs,           \* [offset, total] records, either may be None6
    Payloads,               \* payload byte sequences
    UnixTimes,              \* values time.time() may return (whole seconds)
    MaxSeq                  \* bound on the thread-local counter

None6 == -1
COLON == 58                         \* b":"
IS_FRAGMENT6 == 1                   \* RFC5050Flag.IS_FRAGMENT
PAYLOAD6 == 1                       \* BlockType.PAYLOAD
LAST_BLOCK == 8                     \* BlockFlag.LAST_BLOCK
UNIX_TO_DTN == 946684800            \* helpers.UNIX_TO_DTN_OFFSET

\* int(unix2dtn(time.time())) for a clock reading in whole seconds.
DefaultTimestamp(unix) == unix - UNIX_TO_DTN

\* eid.encode("ascii").split(b":", 1): the scheme and the SSP around the
\* first colon; an EID without a colon does not unpack (ValueError).
HasScheme(eid) == SelectInSeq(eid, LAMBDA c : c = COLON) # 0
Split(eid) ==
    LET i == SelectInSeq(eid, LAMBDA c : c = COLON)
    IN  [scheme |-> SubSeq(eid, 1, i - 1), ssp |-> SubSeq(eid, i + 1, Len(eid))]

\* One pass of the dictionary loop: both strings NUL-terminated into the
\* dictionary, each one's offset as an SDNV reference field.
DictStepOffByOne(acc, eid) ==
    LET p == Split(eid) IN
    [dict |-> acc.dict \o p.scheme \o <<0>> \o p.ssp \o <<0>>,
     refs |-> acc.refs \o sdnv_encode(acc.off) \o sdnv_encode(acc.off + Len(p.scheme)),
     off  |-> acc.off + Len(p.scheme) + Len(p.ssp) + 1]
DictStep(acc, eid) ==
    LET p == Split(eid) IN
    [dict |-> acc.dict \o p.scheme \o <<0>> \o p.ssp \o <<0>>,
     refs |-> acc.refs \o sdnv_encode(acc.off) \o sdnv_encode(acc.off + Len(p.scheme) + 1),
     off  |-> acc.off + Len(p.scheme) + 1 + Len(p.ssp) + 1]

\* The loop over (destination, source, report-to, custodian).
Dictionary(a) ==
    FoldLeft(DictStep, [dict |-> <<>>, refs |-> <<>>, off |-> 0],
             <<a.destination, a.source, a.report_to, a.custodian>>)

\* fragment_offset is not None and total_adu_length is not None.
HasFragmentFields(a) == a.fragment.offset # None6 /\ a.fragment.total # None6

\* The bytes of serialize_bundle6 once the timestamp and the sequence
\* number are fixed: primary block, then the single payload block.
Serialize(a, ts, seq) ==
    LET d     == Dictionary(a)
        frag  == IF ~HasFragmentFields(a) THEN <<>>
                 ELSE sdnv_encode(a.fragment.offset) \o sdnv_encode(a.fragment.total)
        part2 == d.refs \o sdnv_encode(ts) \o sdnv_encode(seq)
                   \o sdnv_encode(a.lifetime) \o sdnv_encode(Len(d.dict)) \o d.dict \o frag
        header == <<6>> \o sdnv_encode(a.flags) \o sdnv_encode(Len(part2)) \o part2
    IN  header \o <<PAYLOAD6>> \o sdnv_encode(LAST_BLOCK)
               \o sdnv_encode(Len(a.payload)) \o a.payload

Args == [source : Sources, destination : Destinations, report_to : ReportTos,
         custodian : Custodians, timestamp : TimestampArgs, sequence : SequenceArgs,
         lifetime : Lifetimes, flags : FlagArgs, fragment : FragmentArgs,
         payload : Payloads]

VARIABLES
    seqnum,    \* _th_local.__dict__["seqnum"] (absent reads as 0)
    result     \* outcome of the last serialize_bundle6 call

vars6 == <<seqnum, result>>

Outcomes6 == {"none", "ValueError", "AssertionError", "ok"}

Init6 ==
    /\ seqnum = 0
    /\ result = [outcome |-> "none"]

\* next_sequence_number: read with default 0, store the successor.
next_sequence_number(n) == n + 1

\* serialize_bundle6 with the arguments a and the clock reading unix.  The
\* dictionary loop runs first, so a bad EID leaves the counter alone; the
\* assertion on the fragment flag runs after the counter has advanced.
SerializeBundle6(a, unix) ==
    LET drawn == a.sequence = None6
        ts    == IF a.timestamp = None6 THEN DefaultTimestamp(unix) ELSE a.timestamp
        seq   == IF drawn THEN seqnum ELSE a.sequence
        fragAssertFails == HasFragmentFields(a) /\ a.flags % 2 # IS_FRAGMENT6
    IN
    \/ /\ \E e \in {a.destination, a.source, a.report_to, a.custodian} : ~HasScheme(e)
       /\ result' = [outcome |-> "ValueError"]
       /\ UNCHANGED seqnum
    \/ /\ \A e \in {a.destination, a.source, a.report_to, a.custodian} : HasScheme(e)
       /\ drawn => seqnum < MaxSeq
       /\ seqnum' = IF drawn THEN next_sequence_number(seqnum) ELSE seqnum
       /\ result' = IF fragAssertFails THEN [outcome |-> "AssertionError"]
                     ELSE [outcome |-> "ok", args |-> a, timestamp |-> ts,
                           sequence |-> seq, bytes |-> Serialize(a, ts, seq)]

\* The copy of serialize_bundle6 in tools/tcpcl_test/tcpcl_test_common.py,
\* which the stand-alone TCPCL tools use.  It builds the same bytes, but
\* its sequence_number defaults to 0 and it has no counter; its float
\* timestamp is truncated by its own sdnv_encode (int(value)).
SerializeBundle6Copy(a, unix) ==
    LET ts   == IF a.timestamp = None6 THEN DefaultTimestamp(unix) ELSE a.timestamp
        seq  == IF a.sequence = None6 THEN 0 ELSE a.sequence
        eids == {a.destination, a.source, a.report_to, a.custodian}
        fragAssertFails == HasFragmentFields(a) /\ a.flags % 2 # IS_FRAGMENT6
    IN
    /\ \/ \E e \in eids : ~HasScheme(e) /\ result' = [outcome |-> "ValueError"]
       \/ /\ \A e \in eids : HasScheme(e)
          /\ fragAssertFails
          /\ result' = [outcome |-> "AssertionError"]
       \/ /\ \A e \in eids : HasScheme(e)
          /\ ~fragAssertFails
          /\ result' = [outcome |-> "ok", args |-> a, timestamp |-> ts,
                        sequence |-> seq, bytes |-> Serialize(a, ts, seq)]
    /\ UNCHANGED seqnum

\* reset_sequence_number.
ResetSequenceNumber ==
    /\ seqnum' = 0
    /\ UNCHANGED result

Next6 ==
    \/ \E a \in Args, unix \in UnixTimes : SerializeBundle6(a, unix)
    \/ ResetSequenceNumber

Spec6 == Init6 /\ [][Next6]_vars6

-----------------------------------------------------------------------------
(* A reader of the RFC 5050 format (section 4.5), independent of the      *)
(* encoder: the fields in wire order, the dictionary strings found from   *)
(* their offsets, the fragment fields read iff the flag is set.           *)

\* k SDNVs read from position i on: their values and the next position.
RECURSIVE ReadSdnvs(_, _, _)
ReadSdnvs(b, i, k) ==
    IF k = 0 THEN [ok |-> TRUE, vals |-> <<>>, next |-> i]
    ELSE LET r    == SdnvDecodeLoop(b, i, 0)
             rest == ReadSdnvs(b, r.i + 1, k - 1)
         IN  IF r.ok THEN [rest EXCEPT !.vals = <<r.n>> \o @]
             ELSE [ok |-> FALSE, vals |-> <<>>, next |-> i]

\* The NUL-terminated string at dictionary offset off.
CString(dict, off) ==
    LET z == SelectInSubSeq(dict, off + 1, Len(dict), LAMBDA c : c = 0)
    IN  SubSeq(dict, off + 1, z - 1)

EidAt(dict, refs, k) ==
    CString(dict, refs[2 * k - 1]) \o <<COLON>> \o CString(dict, refs[2 * k])

ReadBundle6(b) ==
    LET h    == ReadSdnvs(b, 2, 2)
        p    == ReadSdnvs(b, h.next, 12)
        dlen == p.vals[12]
        dict == SubSeq(b, p.next, p.next + dlen - 1)
        frag == h.vals[1] % 2 = IS_FRAGMENT6
        f    == IF frag THEN ReadSdnvs(b, p.next + dlen, 2)
                ELSE [ok |-> TRUE, vals |-> <<>>, next |-> p.next + dlen]
        pb   == ReadSdnvs(b, f.next + 1, 2)
    IN  [ok          |-> /\ b[1] = 6 /\ h.ok /\ p.ok /\ f.ok /\ pb.ok
                         /\ f.next - h.next = h.vals[2]          \* block length
                         /\ \A r \in 1..8 : p.vals[r] < dlen
                         /\ f.next <= Len(b) /\ b[f.next] = PAYLOAD6
                         /\ Len(b) - pb.next + 1 = pb.vals[2],   \* payload length
         flags       |-> h.vals[1],
         destination |-> EidAt(dict, p.vals, 1),
         source      |-> EidAt(dict, p.vals, 2),
         report_to   |-> EidAt(dict, p.vals, 3),
         custodian   |-> EidAt(dict, p.vals, 4),
         timestamp   |-> p.vals[9],
         sequence    |-> p.vals[10],
         lifetime    |-> p.vals[11],
         fragment    |-> IF frag THEN [offset |-> f.vals[1], total |-> f.vals[2]]
                         ELSE [offset |-> None6, total |-> None6],
         block_flags |-> pb.vals[1],
         payload     |-> SubSeq(b, pb.next, Len(b))]

-----------------------------------------------------------------------------
(* Properties                                                             *)

TypeOK6 ==
    /\ seqnum \in 0..MaxSeq
    /\ result.outcome \in Outcomes6
    /\ result.outcome = "ok" => result.args \in Args

\* Whatever serialize_bundle6 returns reads back, by the RFC 5050 layout,
\* as the bundle the caller asked for: the four EIDs through the
\* dictionary offsets (split at the first colon), the creation timestamp
\* and sequence number actually used, the lifetime, the primary block
\* length covering exactly the fields after it, and the payload as the
\* last block.  The fragment fields are compared where the caller's flag
\* and fields agree (RFC 5050 ties one to the other).
RoundTrip6 ==
    result.outcome = "ok" =>
      LET a == result.args
          r == ReadBundle6(result.bytes)
      IN  (a.flags % 2 = IS_FRAGMENT6) = HasFragmentFields(a) =>
            /\ r.ok
            /\ r.flags = a.flags
            /\ r.destination = a.destination /\ r.source = a.source
            /\ r.report_to = a.report_to /\ r.custodian = a.custodian
            /\ r.timestamp = result.timestamp /\ r.sequence = result.sequence
            /\ r.lifetime = a.lifetime
            /\ HasFragmentFields(a) => r.fragment = a.fragment
            /\ r.block_flags = LAST_BLOCK /\ r.payload = a.payload
==============================================================================
