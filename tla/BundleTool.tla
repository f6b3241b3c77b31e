------------------------------ MODULE BundleTool ------------------------------
(***************************************************************************)
(* The bundle side of the CLA test tools (src/tools/cla/tcpspp_test.py,   *)
(* mtcp_test.py, tcpcl_test.py, and tools/tcpcl_test/tcpcl_test.py and    *)
(* tcpspp_test.py): --bundle-version (--protocol) picks serialize_bundle6 *)
(* or serialize_bundle7 once, and every bundle the tool sends is built by *)
(* that serializer; and the generator tools/bundle7 run as a script.  The *)
(* serializers are composed by EXTENDS; each keeps its own state, and a   *)
(* step of one leaves the others' alone.                                  *)
(***************************************************************************)
EXTENDS Integers, Bundle7Report, Bundle6, Bundle7Draft

\* The three modules share no names: their constants and variables are the
\* composition's, and each one's actions leave the other's variables alone.
VARIABLES
    version,        \* args.bundle_version (args.protocol)
    tool            \* which tools: those of tools/cla, on pyupcn, or the
                    \* stand-alone ones of tools/tcpcl_test, on their copies,
                    \* or python3 -m tools.bundle7

toolVars == <<version, tool, vars, rvars, vars6, dvars>>

Versions == {6, 7}      \* choices="67"

\* tools/cla/*_test.py import pyupcn; tools/tcpcl_test/*.py import
\* tcpcl_test_common, whose serialize_bundle7 builds on the older draft
\* in tools/bundle7 (Bundle7Draft); "bundle7" is that package's
\* __main__, which builds draft bundles and status reports.
Tools == {"cla", "tcpcl_test", "bundle7"}

\* A run that never builds a pyupcn BPv7 bundle keeps one fixed initial
\* BPv7 state, not every one.
Idle7 == CHOOSE s \in {<<p, l>> : p \in Primaries,
                                  l \in {PayloadBlock(n, c) : n \in PayloadNumbers,
                                                             c \in CrcTypes}} : TRUE

ToolInit ==
    /\ version \in Versions
    /\ tool \in Tools
    /\ tool = "bundle7" => version = 7
    /\ Init
    /\ ReportInit
    /\ Init6
    /\ DraftInit
    /\ (version = 6 \/ tool # "cla") => <<primary, payload>> = Idle7

\* serialize_bundle = {"6": serialize_bundle6, "7": serialize_bundle7}[...]
ToolNext ==
    \/ version = 7 /\ tool = "cla" /\ ReportNext /\ UNCHANGED <<version, tool, vars6, dvars>>
    \/ version = 6 /\ tool = "cla" /\ Next6 /\ UNCHANGED <<version, tool, vars, rvars, dvars>>
    \/ /\ version = 6 /\ tool = "tcpcl_test"
       /\ \E a \in Args, unix \in UnixTimes : SerializeBundle6Copy(a, unix)
       /\ UNCHANGED <<version, tool, vars, rvars, dvars>>
    \/ /\ version = 7 /\ tool = "tcpcl_test" /\ SerializeBundle7Copy
       /\ UNCHANGED <<version, tool, vars, rvars, vars6>>
    \/ /\ tool = "bundle7" /\ (ConstructDraft \/ StatusReportDraft)
       /\ UNCHANGED <<version, tool, vars, rvars, vars6>>

ToolSpec == ToolInit /\ [][ToolNext]_toolVars

-----------------------------------------------------------------------------
(* The properties are those of Bundle7Blocks (ExtensionBlockLayout,       *)
(* RoundTrip, CrcCoversEncodedBlock), of Bundle7Report                    *)
(* (ReportCorrelatesBundle), of Bundle6 (RoundTrip6) and of Bundle7Draft  *)
(* (DraftBlocksVerifiable), checked on the composition.                   *)

ToolTypeOK ==
    /\ version \in Versions /\ tool \in Tools
    /\ TypeOK /\ ReportTypeOK /\ TypeOK6 /\ DraftTypeOK
==============================================================================
