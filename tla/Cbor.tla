--------------------------------- MODULE Cbor ---------------------------------
(***************************************************************************)
(* CBOR items.  The cbor package, which is not part of the repository,    *)
(* turns the Python lists, tuples, ints, bytes, strings, booleans and None *)
(* the bundle generators hand it into bytes.  An item is an unsigned      *)
(* integer, a byte or text string, a boolean, null or an array of items;  *)
(* Dumps is the encoding cbor.dumps gives it (definite length, shortest   *)
(* head).  Both BPbis generators, src/pyupcn/bundle7.py and the older     *)
(* src/tools/bundle7, build their bundles from these items.               *)
(***************************************************************************)
EXTENDS Integers, Sequences, SequencesExt

UInt(n) == [k |-> "uint", v |-> <<n>>]
ByteStr(s) == [k |-> "bytes", v |-> s]
TextStr(s) == [k |-> "text", v |-> s]
Array(s) == [k |-> "array", v |-> s]
Bool(b) == [k |-> "bool", v |-> <<b>>]
Null == [k |-> "null", v |-> <<>>]

\* n as w big-endian bytes (struct.pack with '!').
RECURSIVE BE(_, _)
BE(n, w) == IF w = 0 THEN <<>> ELSE BE(n \div 256, w - 1) \o <<n % 256>>

\* The head of an item of a major type whose argument is n < 2^31.
CborHead(major, n) ==
    CASE n < 24    -> <<major * 32 + n>>
      [] n < 256   -> <<major * 32 + 24, n>>
      [] n < 65536 -> <<major * 32 + 25>> \o BE(n, 2)
      [] OTHER     -> <<major * 32 + 26>> \o BE(n, 4)

\* False and True are the simple values 20 and 21 (0xf4, 0xf5).
RECURSIVE Dumps(_)
Dumps(x) ==
    CASE x.k = "uint"  -> CborHead(0, x.v[1])
      [] x.k = "bytes" -> CborHead(2, Len(x.v)) \o x.v
      [] x.k = "text"  -> CborHead(3, Len(x.v)) \o x.v
      [] x.k = "bool"  -> <<IF x.v[1] THEN 245 ELSE 244>>
      [] x.k = "null"  -> <<246>>
      [] x.k = "array" -> CborHead(4, Len(x.v))
                          \o FlattenSeq([i \in DOMAIN x.v |-> Dumps(x.v[i])])

DumpsAll(s) == FlattenSeq([i \in DOMAIN s |-> Dumps(s[i])])

-----------------------------------------------------------------------------
(* A reader of definite-length CBOR (RFC 7049, section 2), written from    *)
(* the format and not from Dumps: what a consumer of the bytes sees.  The  *)
(* head byte at position i holds the major type (high 3 bits) and the      *)
(* additional information (low 5 bits); 24, 25 and 26 announce a 1, 2 or   *)
(* 4-byte big-endian argument.                                             *)

ArgBytes(ai) == CASE ai < 24 -> 0 [] ai = 24 -> 1 [] ai = 25 -> 2 [] ai = 26 -> 4

ArgAt(b, i) ==
    LET ai == b[i] % 32
    IN  IF ai < 24 THEN ai
        ELSE FoldLeft(LAMBDA acc, x : acc * 256 + x, 0,
                      SubSeq(b, i + 1, i + ArgBytes(ai)))

\* The item whose head is at position i, and the position after it.
RECURSIVE CborRead(_, _), CborReadArray(_, _, _, _)
CborRead(b, i) ==
    LET major == b[i] \div 32
        n     == ArgAt(b, i)
        j     == i + 1 + ArgBytes(b[i] % 32)
    IN  CASE major = 0 -> [item |-> UInt(n), next |-> j]
          [] major = 2 -> [item |-> ByteStr(SubSeq(b, j, j + n - 1)), next |-> j + n]
          [] major = 3 -> [item |-> TextStr(SubSeq(b, j, j + n - 1)), next |-> j + n]
          [] major = 4 -> CborReadArray(b, j, n, <<>>)
          [] major = 7 /\ n = 20 -> [item |-> Bool(FALSE), next |-> j]
          [] major = 7 /\ n = 21 -> [item |-> Bool(TRUE), next |-> j]
          [] major = 7 /\ n = 22 -> [item |-> Null, next |-> j]

CborReadArray(b, j, n, acc) ==
    IF n = 0 THEN [item |-> Array(acc), next |-> j]
    ELSE LET r == CborRead(b, j)
         IN  CborReadArray(b, r.next, n - 1, Append(acc, r.item))

\* cbor.loads: one item that takes up all of the bytes.
Loads(b) == LET r == CborRead(b, 1) IN [ok |-> r.next = Len(b) + 1, item |-> r.item]
==============================================================================
