-------------------------------- MODULE SDNV --------------------------------
(***************************************************************************)
(* The SDNV codec of src/pyupcn/sdnv.py (RFC 6256): sdnv_encode and       *)
(* sdnv_decode as operators, used by the TCPCL framing (CLAStream) and by  *)
(* the BPv6 encoder (Bundle6).                                            *)
(***************************************************************************)
EXTENDS Integers, Sequences, SequencesExt

\* The while loop of sdnv_encode: low 7 bits | 0x80, least significant first.
RECURSIVE SdnvLoop(_)
SdnvLoop(value) ==
    IF value = 0 THEN <<>> ELSE <<(value % 128) + 128>> \o SdnvLoop(value \div 128)

\* result[0] &= 0x7f, then network byte order.
sdnv_encode(value) ==
    IF value = 0 THEN <<0>>
    ELSE LET result == SdnvLoop(value) IN Reverse([result EXCEPT ![1] = @ - 128])

\* The loop of sdnv_decode from the i-th byte, n accumulated so far.
RECURSIVE SdnvDecodeLoop(_, _, _)
SdnvDecodeLoop(buffer, i, n) ==
    IF i > Len(buffer) THEN [ok |-> FALSE, n |-> 0, i |-> 0]
    ELSE LET m == n * 128 + (buffer[i] % 128)
         IN  IF buffer[i] < 128 THEN [ok |-> TRUE, n |-> m, i |-> i]
             ELSE SdnvDecodeLoop(buffer, i + 1, m)

sdnv_decode(buffer) == SdnvDecodeLoop(buffer, 1, 0)
==============================================================================
