--------------------------------- MODULE CRC ---------------------------------
(***************************************************************************)
(* The generic CRC engine of src/pyupcn/crc.py: a CRC object with its     *)
(* model parameters and its two lazily built lookup tables, called on     *)
(* byte strings.  The calls of __call__, fast_reflected and the table      *)
(* constructions are translated as operators over the bitwise operators   *)
(* of the community module Bitwise; every call is one step of the object. *)
(* The result is compared with the defining long division of the message  *)
(* by the generator polynomial (RFC-style "direct" register algorithm).   *)
(***************************************************************************)
EXTENDS Integers, Sequences, SequencesExt, Bitwise

CONSTANTS
    Models,     \* the CRC(...) instances under check (records of Catalog)
    Bytes,      \* byte values input strings are made of
    MaxLen      \* longest input string

\* The preset instances of crc.py, as parameter records.  The 32-bit
\* presets are left out: their values exceed TLC's 32-bit signed integers.
Catalog == {
  [name |-> "crc8", width |-> 8, poly |-> \h07, init |-> \h00, xorout |-> \h00, refin |-> FALSE, refout |-> FALSE],
  [name |-> "crc8_sae_j1850", width |-> 8, poly |-> \h1d, init |-> \hff, xorout |-> \hff, refin |-> FALSE, refout |-> FALSE],
  [name |-> "crc8_sae_j1850_zero", width |-> 8, poly |-> \h1d, init |-> \h00, xorout |-> \h00, refin |-> FALSE, refout |-> FALSE],
  [name |-> "crc8_8h2f", width |-> 8, poly |-> \h2f, init |-> \hff, xorout |-> \hff, refin |-> FALSE, refout |-> FALSE],
  [name |-> "crc8_cdma2000", width |-> 8, poly |-> \h9b, init |-> \hff, xorout |-> \h00, refin |-> FALSE, refout |-> FALSE],
  [name |-> "crc8_darc", width |-> 8, poly |-> \h39, init |-> \h00, xorout |-> \h00, refin |-> TRUE, refout |-> TRUE],
  [name |-> "crc8_dvb_s2", width |-> 8, poly |-> \hd5, init |-> \h00, xorout |-> \h00, refin |-> FALSE, refout |-> FALSE],
  [name |-> "crc8_ebu", width |-> 8, poly |-> \h1d, init |-> \hff, xorout |-> \h00, refin |-> TRUE, refout |-> TRUE],
  [name |-> "crc8_icode", width |-> 8, poly |-> \h1d, init |-> \hfd, xorout |-> \h00, refin |-> FALSE, refout |-> FALSE],
  [name |-> "crc8_itu", width |-> 8, poly |-> \h07, init |-> \h00, xorout |-> \h55, refin |-> FALSE, refout |-> FALSE],
  [name |-> "crc8_maxim", width |-> 8, poly |-> \h31, init |-> \h00, xorout |-> \h00, refin |-> TRUE, refout |-> TRUE],
  [name |-> "crc8_rohc", width |-> 8, poly |-> \h07, init |-> \hff, xorout |-> \h00, refin |-> TRUE, refout |-> TRUE],
  [name |-> "crc8_wcdma", width |-> 8, poly |-> \h9b, init |-> \h00, xorout |-> \h00, refin |-> TRUE, refout |-> TRUE],
  [name |-> "crc16_ccit_zero", width |-> 16, poly |-> \h1021, init |-> \h0000, xorout |-> \h0000, refin |-> FALSE, refout |-> FALSE],
  [name |-> "crc16_arc", width |-> 16, poly |-> \h8005, init |-> \h0000, xorout |-> \h0000, refin |-> TRUE, refout |-> TRUE],
  [name |-> "crc16_aug_ccitt", width |-> 16, poly |-> \h1021, init |-> \h1d0f, xorout |-> \h0000, refin |-> FALSE, refout |-> FALSE],
  [name |-> "crc16_buypass", width |-> 16, poly |-> \h8005, init |-> \h0000, xorout |-> \h0000, refin |-> FALSE, refout |-> FALSE],
  [name |-> "crc16_ccitt_false", width |-> 16, poly |-> \h1021, init |-> \hffff, xorout |-> \h0000, refin |-> FALSE, refout |-> FALSE],
  [name |-> "crc16_cdma2000", width |-> 16, poly |-> \hc867, init |-> \hffff, xorout |-> \h0000, refin |-> FALSE, refout |-> FALSE],
  [name |-> "crc16_dds_110", width |-> 16, poly |-> \h8005, init |-> \h800d, xorout |-> \h0000, refin |-> FALSE, refout |-> FALSE],
  [name |-> "crc16_dect_r", width |-> 16, poly |-> \h0589, init |-> \h0000, xorout |-> \h0001, refin |-> FALSE, refout |-> FALSE],
  [name |-> "crc16_dect_x", width |-> 16, poly |-> \h0589, init |-> \h0000, xorout |-> \h0000, refin |-> FALSE, refout |-> FALSE],
  [name |-> "crc16_dnp", width |-> 16, poly |-> \h3d65, init |-> \h0000, xorout |-> \hffff, refin |-> TRUE, refout |-> TRUE],
  [name |-> "crc16_en_13757", width |-> 16, poly |-> \h3d65, init |-> \h0000, xorout |-> \hffff, refin |-> FALSE, refout |-> FALSE],
  [name |-> "crc16_genibus", width |-> 16, poly |-> \h1021, init |-> \hffff, xorout |-> \hffff, refin |-> FALSE, refout |-> FALSE],
  [name |-> "crc16_maxim", width |-> 16, poly |-> \h8005, init |-> \h0000, xorout |-> \hffff, refin |-> TRUE, refout |-> TRUE],
  [name |-> "crc16_mcrf4xx", width |-> 16, poly |-> \h1021, init |-> \hffff, xorout |-> \h0000, refin |-> TRUE, refout |-> TRUE],
  [name |-> "crc16_riello", width |-> 16, poly |-> \h1021, init |-> \hb2aa, xorout |-> \h0000, refin |-> TRUE, refout |-> TRUE],
  [name |-> "crc16_t10_dif", width |-> 16, poly |-> \h8bb7, init |-> \h0000, xorout |-> \h0000, refin |-> FALSE, refout |-> FALSE],
  [name |-> "crc16_teledisk", width |-> 16, poly |-> \ha097, init |-> \h0000, xorout |-> \h0000, refin |-> FALSE, refout |-> FALSE],
  [name |-> "crc16_tms37157", width |-> 16, poly |-> \h1021, init |-> \h89ec, xorout |-> \h0000, refin |-> TRUE, refout |-> TRUE],
  [name |-> "crc16_usb", width |-> 16, poly |-> \h8005, init |-> \hffff, xorout |-> \hffff, refin |-> TRUE, refout |-> TRUE],
  [name |-> "crc16_a", width |-> 16, poly |-> \h1021, init |-> \hc6c6, xorout |-> \h0000, refin |-> TRUE, refout |-> TRUE],
  [name |-> "crc16_kermit", width |-> 16, poly |-> \h1021, init |-> \h0000, xorout |-> \h0000, refin |-> TRUE, refout |-> TRUE],
  [name |-> "crc16_modbus", width |-> 16, poly |-> \h8005, init |-> \hffff, xorout |-> \h0000, refin |-> TRUE, refout |-> TRUE],
  [name |-> "crc16_x25", width |-> 16, poly |-> \h1021, init |-> \hffff, xorout |-> \hffff, refin |-> TRUE, refout |-> TRUE],
  [name |-> "crc16_xmodem", width |-> 16, poly |-> \h1021, init |-> \h0000, xorout |-> \h0000, refin |-> FALSE, refout |-> FALSE]}

ASSUME Models \subseteq Catalog /\ Bytes \subseteq 0..255 /\ MaxLen \in Nat

Inputs == SeqOf(Bytes, MaxLen)

\* Python's None for a table not built yet, as the empty function so that
\* it compares with tables.
None == <<>>

-----------------------------------------------------------------------------
(* The algorithms of crc.py                                                *)

RECURSIVE ReflectLoop(_, _, _)
ReflectLoop(num, width, i) ==
    IF i = width THEN 0
    ELSE (IF (num \div 2^i) % 2 # 0 THEN 2^(width - 1 - i) ELSE 0)
         + ReflectLoop(num, width, i + 1)

\* reflect(num, width): the low `width` bits of num in reverse order.
reflect(num, width) == ReflectLoop(num, width, 0)

\* x & cast_mask and x & msb_mask, and x >> n, written arithmetically (the
\* masks are contiguous low bits and a single bit).
Cast(m, x) == x % 2^m.width
MsbSet(m, x) == (x \div 2^(m.width - 1)) % 2 = 1
Shr(x, n) == x \div 2^n

\* The inner loop of the table constructions: eight shifts of cur_byte,
\* XOR-ing the polynomial whenever the bit under msb_mask was set.  As in
\* Python, cur_byte is not masked inside the loop.
RECURSIVE DivideByte(_, _, _)
DivideByte(m, cur_byte, bit) ==
    IF bit = 8 THEN cur_byte
    ELSE DivideByte(m, IF MsbSet(m, cur_byte)
                       THEN (cur_byte * 2) ^^ m.poly
                       ELSE cur_byte * 2,
                    bit + 1)

\* calculate_crc_table
calculate_crc_table(m) ==
    [divident \in 0..255 |->
        Cast(m, DivideByte(m, Cast(m, divident * 2^(m.width - 8)), 0))]

\* Mutant of calculate_crc_table_reflected: the table index is not
\* reflected before the division.
TableReflectedUnreflectedIndex(m) ==
    [divident \in 0..255 |->
        Cast(m, reflect(DivideByte(m, Cast(m, divident * 2^(m.width - 8)), 0),
                        m.width))]

\* calculate_crc_table_reflected
calculate_crc_table_reflected(m) ==
    [divident \in 0..255 |->
        Cast(m, reflect(DivideByte(m, Cast(m, reflect(divident, 8)
                                                  * 2^(m.width - 8)), 0),
                        m.width))]

\* Mutant of CallByte: the shifted remainder is not masked to the width.
CallByteUnmasked(m, t, crc, byte) ==
    LET cur_byte == IF m.refin THEN reflect(byte, 8) ELSE byte
        c1 == Cast(m, crc ^^ (cur_byte * 2^(m.width - 8)))
        index == Shr(c1, m.width - 8) % 256
    IN  (c1 * 2^8) ^^ t[index]

\* One iteration of the byte loop of __call__ with lookup table t.
CallByte(m, t, crc, byte) ==
    LET cur_byte == IF m.refin THEN reflect(byte, 8) ELSE byte
        c1 == Cast(m, crc ^^ (cur_byte * 2^(m.width - 8)))
        index == Shr(c1, m.width - 8) % 256
        c2 == Cast(m, c1 * 2^8)
    IN  c2 ^^ t[index]

\* The byte loop of __call__.
RECURSIVE CallLoop(_, _, _, _)
CallLoop(m, t, crc, value) ==
    IF value = <<>> THEN crc
    ELSE CallLoop(m, t, CallByte(m, t, crc, Head(value)), Tail(value))

\* The table algorithm of __call__ after the lazy initialization.
CallTable(m, t, value) ==
    LET crc == CallLoop(m, t, m.init, value)
    IN  (IF m.refout THEN reflect(crc, m.width) ELSE crc) ^^ m.xorout

\* One iteration of the byte loop of fast_reflected with table rt.
FastByte(m, rt, crc, cur_byte) ==
    LET index == (crc % 256) ^^ cur_byte
    IN  Cast(m, Shr(crc, 8)) ^^ rt[index]

\* The byte loop of fast_reflected.
RECURSIVE FastLoop(_, _, _, _)
FastLoop(m, rt, crc, value) ==
    IF value = <<>> THEN crc
    ELSE FastLoop(m, rt, FastByte(m, rt, crc, Head(value)), Tail(value))

\* fast_reflected after the lazy initialization: the loop starts from
\* initial_value as given.
fast_reflected(m, rt, value) == FastLoop(m, rt, m.init, value) ^^ m.xorout

-----------------------------------------------------------------------------
(* The defining algorithm                                                  *)

\* Long division of the message bits by the polynomial, most significant
\* bit of each (input-reflected) byte first, the register preset to the
\* initial value.
RECURSIVE DivideBits(_, _, _, _)
DivideBits(m, reg, byte, bit) ==
    IF bit < 0 THEN reg
    ELSE LET top == MsbSet(m, reg) # (Shr(byte, bit) % 2 = 1)
             sh  == Cast(m, reg * 2)
         IN  DivideBits(m, IF top THEN sh ^^ m.poly ELSE sh, byte, bit - 1)

RECURSIVE DivideMessage(_, _, _)
DivideMessage(m, reg, value) ==
    IF value = <<>> THEN reg
    ELSE DivideMessage(m, DivideBits(m, reg, IF m.refin
                                             THEN reflect(Head(value), 8)
                                             ELSE Head(value), 7),
                       Tail(value))

LongDivision(m, value) ==
    LET rem == DivideMessage(m, m.init, value)
    IN  (IF m.refout THEN reflect(rem, m.width) ELSE rem) ^^ m.xorout

-----------------------------------------------------------------------------
(* The CRC object                                                          *)

VARIABLES
    model,            \* the constructor parameters of the instance
    table,            \* self.table: None until the first table-path call
    reflected_table,  \* self.reflected_table: None until the first fast call
    last              \* history: the last call's input and returned checksum

vars == <<model, table, reflected_table, last>>

NoCall == [value |-> <<>>, result |-> -1]

TypeOK ==
    /\ model \in Models
    /\ table \in {None} \cup [0..255 -> 0..(2^model.width - 1)]
    /\ reflected_table \in {None} \cup [0..255 -> 0..(2^model.width - 1)]
    /\ last \in {NoCall} \cup [value : Inputs, result : 0..(2^model.width - 1)]

\* CRC.__init__: the tables are initialized lazily.
Init ==
    /\ model \in Models
    /\ table = None
    /\ reflected_table = None
    /\ last = NoCall

\* __call__ on a model with reflected input and result: build the reflected
\* table if needed, then fast_reflected.
CallFast(value) ==
    /\ model.refin /\ model.refout
    /\ reflected_table' = IF reflected_table = None
                          THEN calculate_crc_table_reflected(model)
                          ELSE reflected_table
    /\ last' = [value |-> value,
                result |-> fast_reflected(model, reflected_table', value)]
    /\ UNCHANGED <<model, table>>

\* __call__ on any other model: build the table if needed, then the
\* MSB-first table algorithm.
CallDirect(value) ==
    /\ ~(model.refin /\ model.refout)
    /\ table' = IF table = None THEN calculate_crc_table(model) ELSE table
    /\ last' = [value |-> value, result |-> CallTable(model, table', value)]
    /\ UNCHANGED <<model, reflected_table>>

Next == \E value \in Inputs : CallFast(value) \/ CallDirect(value)

Spec == Init /\ [][Next]_vars

-----------------------------------------------------------------------------
(* Properties                                                              *)

\* The correctness contract of the engine: whichever algorithm __call__
\* picks, with its table built on this call or an earlier one, the checksum
\* equals the long division of the (reflected) message by the polynomial
\* with the register preset to the initial value.
ChecksumIsLongDivision ==
    last # NoCall => last.result = LongDivision(model, last.value)

==============================================================================
