---------------------------- MODULE Bundle7Report ----------------------------
(***************************************************************************)
(* Bundle status reports of src/pyupcn/bundle7.py: BundleStatusReport     *)
(* builds the status-info list and hands it to AdministrativeRecord, which *)
(* appends the subject bundle's source EID and creation timestamp (and     *)
(* its fragment fields if it is a fragment) and stores cbor.dumps of the   *)
(* record as the data of a PayloadBlock.  The subject is the bundle of     *)
(* Bundle7Blocks.                                                          *)
(***************************************************************************)
EXTENDS Bundle7Blocks

CONSTANTS
    ReportInfos,    \* infos arguments: sums of StatusCode values
    ReportReasons,  \* ReasonCode values
    ReportTimes     \* the time argument, as a Unix timestamp

\* BundleProcFlag.REPORT_STATUS_TIME and RecordType.BUNDLE_STATUS_REPORT.
REPORT_STATUS_TIME == 64
BUNDLE_STATUS_REPORT == 1

\* StatusCode: RECEIVED, FORWARDED, DELIVERED, DELETED, in list order.
StatusCodeValues == <<1, 4, 8, 16>>

\* An optional integer field: cbor writes None as null.
OptUInt(x) == IF x = None THEN Null ELSE UInt(x)

\* The CreationTimestamp tuple as cbor writes it.
CreationItem(c) == Array(<<UInt(c[1]), UInt(c[2])>>)

\* status_info: [infos & code != 0] per status code; if the subject asks
\* for REPORT_STATUS_TIME, int(round((time - DTN_EPOCH).total_seconds()))
\* is appended to every entry whose flag is set.
StatusInfo(infos, p, unix) ==
    [i \in 1..4 |->
        LET set == (infos \div StatusCodeValues[i]) % 2 = 1
        IN  Array(<<Bool(set)>>
                  \o IF set /\ HasFlag(p.flags, REPORT_STATUS_TIME)
                     THEN <<UInt(unix - UNIX_TO_DTN_OFFSET)>> ELSE <<>>)]

\* Mutant of AdministrativeRecord: the fragment fields left out.
AdministrativeRecordUnfragmented(p, type, data) ==
    [PayloadBlock(1, CRC32) EXCEPT
        !.data = Dumps(Array(<<UInt(type),
                               Array(data \o <<p.source, CreationItem(p.creation)>>)>>))]

\* AdministrativeRecord(bundle, record_type_code, record_data): the tail
\* appended to record_data, then PayloadBlock(data=cbor.dumps([type,
\* record_data])), which is number 1 with the default CRC-32.
AdministrativeRecord(p, type, data) ==
    LET tail == <<p.source, CreationItem(p.creation)>>
                \o IF HasFlag(p.flags, IS_FRAGMENT)
                   THEN <<OptUInt(p.fragment_offset), OptUInt(p.total_payload_length)>>
                   ELSE <<>>
    IN  [PayloadBlock(1, CRC32) EXCEPT
            !.data = Dumps(Array(<<UInt(type), Array(data \o tail)>>))]

\* BundleStatusReport(infos, reason, bundle, time).
BundleStatusReport(infos, reason, p, unix) ==
    AdministrativeRecord(p, BUNDLE_STATUS_REPORT,
                         <<Array(StatusInfo(infos, p, unix)), UInt(reason)>>)

VARIABLE
    report      \* the last status report built, with its arguments, or <<>>

rvars == <<report>>

ReportInit == report = <<>>

\* A report about the bundle as it is now; the bundle is left alone.
StatusReport ==
    /\ \E infos \in ReportInfos, reason \in ReportReasons, unix \in ReportTimes :
         report' = [block |-> BundleStatusReport(infos, reason, primary, unix),
                    infos |-> infos, reason |-> reason, time |-> unix]
    /\ UNCHANGED vars

\* A step of the bundle forgets the last report.
BundleStep == Next /\ report' = <<>>

ReportNext == BundleStep \/ StatusReport

ReportSpec == Init /\ ReportInit /\ [][ReportNext]_<<vars, rvars>>

-----------------------------------------------------------------------------
(* Properties                                                              *)

ReportTypeOK ==
    report = <<>> \/ /\ report.infos \in ReportInfos
                     /\ report.reason \in ReportReasons
                     /\ report.time \in ReportTimes
                     /\ report.block.type = PAYLOAD

\* The subject bundle as a consumer sees it: its primary block decoded from
\* the bundle's own bytes.
Subject == PrimaryFromCbor(Wire[1].v).block

\* Spec section 4 (BundleStatusReport): the report's tail must match the
\* original bundle exactly, so that a consumer can correlate them.  A
\* consumer decodes the report block from its bytes (from_cbor) and its
\* data with cbor.loads, and finds: the status-report tag; one entry per
\* status code, true exactly for the codes in infos, with the DTN time of
\* the report exactly when the code is set and the subject asked for
\* status times; the reason; and the subject's source EID and creation
\* timestamp, followed by its fragment offset and total length exactly
\* when the subject is a fragment.
ReportCorrelatesBundle ==
    report # <<>> /\ FragmentFieldsPresent(primary) =>
        LET blk  == CanonicalFromCbor(CanonicalItem(report.block).v).block
            rec  == Loads(blk.data)
            body == rec.item.v[2].v
            s    == Subject
            frag == HasFlag(s.flags, IS_FRAGMENT)
        IN  /\ rec.ok
            /\ rec.item.v[1] = UInt(BUNDLE_STATUS_REPORT)
            /\ Len(body) = 4 + (IF frag THEN 2 ELSE 0)
            /\ \A i \in 1..4 :
                 LET e   == body[1].v[i].v
                     set == (report.infos \div StatusCodeValues[i]) % 2 = 1
                 IN  /\ e[1] = Bool(set)
                     /\ IF set /\ HasFlag(s.flags, REPORT_STATUS_TIME)
                        THEN e = <<Bool(TRUE), UInt(report.time - UNIX_TO_DTN_OFFSET)>>
                        ELSE Len(e) = 1
            /\ body[2] = UInt(report.reason)
            /\ body[3] = s.source
            /\ body[4] = CreationItem(s.creation)
            /\ frag => SubSeq(body, 5, 6) = <<UInt(s.fragment_offset),
                                              UInt(s.total_payload_length)>>
==============================================================================
