------------------------------- MODULE Agents -------------------------------
(***************************************************************************)
(* The contact configuration messages the test tools send to uPCN's config *)
(* agent: ConfigMessage and make_contact of pyupcn/agents.py, of which     *)
(* tools/aap/aap_config.py builds and sends one.  Strings are ASCII byte   *)
(* sequences; a clock reading is whole Unix seconds plus a half second or  *)
(* not, the one fraction at which Python's round() has a choice to make.   *)
(***************************************************************************)
EXTENDS Integers, Sequences, SequencesExt

CONSTANTS
    ConfigEids,      \* EIDs of the contact and of reachable nodes
    ClaAddresses,    \* CLA addresses
    ReachableLists,  \* sequences of EIDs
    ContactArgs,     \* sequences of <<start_offset, duration, bitrate>>
    Clocks           \* readings of time.time(): [sec |-> unix seconds, half |-> 0 or 1]

LPAREN == 40   RPAREN == 41   COMMA == 44   AMINUS == 45   ACOLON == 58
SEMI == 59   LBRACK == 91   RBRACK == 93   LBRACE == 123   RBRACE == 125

RouterCommand == [ADD |-> 1, UPDATE |-> 2, DELETE |-> 3, QUERY |-> 4]

\* helpers.unix2dtn
DTN_EPOCH == 946684800

\* "{}".format(n) of an int: its decimal digits, '-' first when negative.
RECURSIVE Decimal(_)
Decimal(n) ==
    IF n < 0 THEN <<AMINUS>> \o Decimal(-n)
    ELSE IF n < 10 THEN <<48 + n>> ELSE Decimal(n \div 10) \o <<48 + (n % 10)>>

\* sep.join(parts)
Join(parts, sep) ==
    FlattenSeq([i \in DOMAIN parts |-> IF i = 1 THEN parts[i] ELSE <<sep>> \o parts[i]])

\* int(round(x)) for x = v + half/2: Python rounds a half to the even neighbour.
RoundHalfEven(v, half) == IF half = 0 \/ v % 2 = 0 THEN v ELSE v + 1

\* make_contact(start_offset, duration, bitrate) reading the clock c
make_contact(arg, c) ==
    LET start == c.sec + arg[1] - DTN_EPOCH
    IN  [start   |-> RoundHalfEven(start, c.half),
         end     |-> RoundHalfEven(start + arg[2], c.half),
         bitrate |-> arg[3]]

\* ConfigMessage.__init__; None for a list is the empty sequence.
ConfigMessage(eid, cla, reach, contacts, type) ==
    [type |-> type, eid |-> eid, cla_address |-> cla, reachable_eids |-> reach,
     contacts |-> contacts]

\* The assertions of __str__: no part may hold a parenthesis.
HasParen(part) == \E i \in DOMAIN part : part[i] \in {LPAREN, RPAREN}
PartsUnescapedNoRparen(m) ==
    \A p \in {m.eid, m.cla_address} \cup ToSet(m.reachable_eids) :
        \A i \in DOMAIN p : p[i] # LPAREN
PartsUnescaped(m) ==
    \A p \in {m.eid, m.cla_address} \cup ToSet(m.reachable_eids) : ~HasParen(p)

\* Mutant of Bracketed: "[]" for an empty list.
BracketedAlways(items) == <<LBRACK>> \o Join(items, COMMA) \o <<RBRACK>>

\* An empty list is written as nothing at all.
Bracketed(items) == IF items = <<>> THEN <<>> ELSE <<LBRACK>> \o Join(items, COMMA) \o <<RBRACK>>
ContactStr(ct) ==
    <<LBRACE>> \o Decimal(ct.start) \o <<COMMA>> \o Decimal(ct.end)
               \o <<COMMA>> \o Decimal(ct.bitrate) \o <<RBRACE>>

\* ConfigMessage.__str__ / __bytes__ after the assertions passed
ConfigStr(m) ==
    Decimal(m.type) \o <<LPAREN>> \o m.eid \o <<RPAREN, ACOLON, LPAREN>>
      \o m.cla_address \o <<RPAREN, ACOLON>>
      \o Bracketed([i \in DOMAIN m.reachable_eids |->
                      <<LPAREN>> \o m.reachable_eids[i] \o <<RPAREN>>])
      \o <<ACOLON>>
      \o Bracketed([i \in DOMAIN m.contacts |-> ContactStr(m.contacts[i])])
      \o <<SEMI>>

\* serialize_upcn_config_message of tools/tcpcl_test/tcpcl_test_common.py,
\* the copy the TCPCL test scripts send: contacts are (start, end, bitrate)
\* tuples, the type is written as RouterCommand's string value, and ok is
\* FALSE when one of its two assertions on the joined names fails.
serialize_upcn_config_message(eid, cla, reach, contacts, type) ==
    LET joined == FlattenSeq(<<eid, cla>> \o reach)
        eid_list ==
            IF reach = <<>> THEN <<>>
            ELSE <<LBRACK>> \o Join([i \in DOMAIN reach |->
                                       <<LPAREN>> \o reach[i] \o <<RPAREN>>], COMMA)
                            \o <<RBRACK>>
        contact_list ==
            IF contacts = <<>> THEN <<>>
            ELSE <<LBRACK>> \o Join([i \in DOMAIN contacts |->
                                       <<LBRACE>> \o Join([j \in 1..3 |-> Decimal(contacts[i][j])], COMMA)
                                                  \o <<RBRACE>>], COMMA)
                            \o <<RBRACK>>
    IN  IF LPAREN \in ToSet(joined) \/ RPAREN \in ToSet(joined) THEN [ok |-> FALSE]
        ELSE [ok |-> TRUE,
              bytes |-> Decimal(type) \o <<LPAREN>> \o eid \o <<RPAREN, ACOLON, LPAREN>> \o cla
                        \o <<RPAREN, ACOLON>> \o eid_list \o <<ACOLON>> \o contact_list \o <<SEMI>>]

VARIABLE config

AgentsInit == config = [outcome |-> "none"]

\* bytes(ConfigMessage(eid, cla, reachable_eids=reach,
\*       contacts=[make_contact(*a) for a in args], type=type)):
\* every make_contact reads the clock anew, contact i at cs[i].
BuildConfig(eid, cla, reach, args, type, cs) ==
    LET m == ConfigMessage(eid, cla, reach,
                           [i \in DOMAIN args |-> make_contact(args[i], cs[i])], type)
    IN  config' = IF PartsUnescaped(m)
                  THEN [outcome |-> "ok", msg |-> m, bytes |-> ConfigStr(m)]
                  ELSE [outcome |-> "AssertionError", msg |-> m]

(***************************************************************************)
(* Reference reader of the message grammar the config agent parses,        *)
(*   type "(" eid ")" ":" "(" cla ")" ":" [ "[" "(" eid ")" {"," ...} "]" ]*)
(*   ":" [ "[" "{" start "," end "," bitrate "}" {"," ...} "]" ] ";"      *)
(* written from the grammar, not from the serializer: a field in           *)
(* parentheses ends at the first ")", a number at its delimiter.           *)
(***************************************************************************)
At(b, i) == IF i \in 1..Len(b) THEN b[i] ELSE 0
\* The first index from i on holding one of chs, 0 if there is none.
RECURSIVE NextOf(_, _, _)
NextOf(b, i, chs) ==
    IF i > Len(b) THEN 0 ELSE IF b[i] \in chs THEN i ELSE NextOf(b, i + 1, chs)
NextAt(b, i, ch) == NextOf(b, i, {ch})

IsNumber(s) ==
    LET d == IF At(s, 1) = AMINUS THEN Tail(s) ELSE s
    IN  d # <<>> /\ \A i \in DOMAIN d : d[i] \in 48..57
NumberOf(s) ==
    IF At(s, 1) = AMINUS THEN -FoldLeft(LAMBDA a, x : 10 * a + x - 48, 0, Tail(s))
    ELSE FoldLeft(LAMBDA a, x : 10 * a + x - 48, 0, s)

ReadFail(i) == [ok |-> FALSE, vals |-> <<>>, next |-> i]

\* "(" x ")" items separated by "," and closed by "]", from index i
RECURSIVE ReadEidItems(_, _, _)
ReadEidItems(b, i, acc) ==
    LET j == NextAt(b, i + 1, RPAREN)
        v == acc \o <<SubSeq(b, i + 1, j - 1)>>
    IN  IF At(b, i) # LPAREN \/ j = 0 THEN ReadFail(i)
        ELSE IF At(b, j + 1) = COMMA THEN ReadEidItems(b, j + 2, v)
        ELSE IF At(b, j + 1) = RBRACK THEN [ok |-> TRUE, vals |-> v, next |-> j + 2]
        ELSE ReadFail(j + 1)

\* "{" start "," end "," bitrate "}" items separated by "," and closed by "]"
RECURSIVE ReadContactItems(_, _, _)
ReadContactItems(b, i, acc) ==
    LET j1 == NextOf(b, i + 1, {COMMA, RBRACE})
        j2 == NextOf(b, j1 + 1, {COMMA, RBRACE})
        j3 == NextOf(b, j2 + 1, {COMMA, RBRACE})
        f  == <<SubSeq(b, i + 1, j1 - 1), SubSeq(b, j1 + 1, j2 - 1), SubSeq(b, j2 + 1, j3 - 1)>>
        v  == acc \o <<[start |-> NumberOf(f[1]), end |-> NumberOf(f[2]),
                        bitrate |-> NumberOf(f[3])]>>
    IN  IF At(b, i) # LBRACE \/ j1 = 0 \/ j2 = 0 \/ j3 = 0 \/ At(b, j1) # COMMA
           \/ At(b, j2) # COMMA \/ At(b, j3) # RBRACE \/ ~\A k \in 1..3 : IsNumber(f[k])
        THEN ReadFail(i)
        ELSE IF At(b, j3 + 1) = COMMA THEN ReadContactItems(b, j3 + 2, v)
        ELSE IF At(b, j3 + 1) = RBRACK THEN [ok |-> TRUE, vals |-> v, next |-> j3 + 2]
        ELSE ReadFail(j3 + 1)

\* An optional bracketed list at i, read by Items(b, i + 1, <<>>).
OptionalList(b, i, r) ==
    IF At(b, i) = LBRACK THEN r ELSE [ok |-> TRUE, vals |-> <<>>, next |-> i]

ParseConfig(b) ==
    LET p1 == NextAt(b, 1, LPAREN)
        q1 == NextAt(b, p1 + 1, RPAREN)
        q2 == NextAt(b, q1 + 3, RPAREN)
        r  == OptionalList(b, q2 + 2, ReadEidItems(b, q2 + 3, <<>>))
        c  == OptionalList(b, r.next + 1, ReadContactItems(b, r.next + 2, <<>>))
    IN  IF /\ p1 > 1 /\ IsNumber(SubSeq(b, 1, p1 - 1))
           /\ q1 > 0 /\ At(b, q1 + 1) = ACOLON /\ At(b, q1 + 2) = LPAREN
           /\ q2 > 0 /\ At(b, q2 + 1) = ACOLON
           /\ r.ok /\ At(b, r.next) = ACOLON
           /\ c.ok /\ At(b, c.next) = SEMI /\ c.next = Len(b)
        THEN [ok |-> TRUE,
              msg |-> ConfigMessage(SubSeq(b, p1 + 1, q1 - 1), SubSeq(b, q1 + 3, q2 - 1),
                                    r.vals, c.vals, NumberOf(SubSeq(b, 1, p1 - 1)))]
        ELSE [ok |-> FALSE]

=============================================================================
