-------------------------------- MODULE AAP --------------------------------
(***************************************************************************)
(* The Application Agent Protocol as the tools under tools/aap speak it:   *)
(* AAPMessage.serialize and AAPMessage.parse of pyupcn/aap.py, and the     *)
(* four agents (aap_send, aap_receive, aap_test, aap_config), each running *)
(* its fixed script of requests and expected replies over one TCP          *)
(* connection, reading every reply with its own recv_aap loop: one byte    *)
(* per sock.recv, parse retried until it stops asking for more.            *)
(*                                                                         *)
(* The other end is the uPCN daemon, which is not part of this repository. *)
(* It is modelled as any peer that follows the wire format: it welcomes    *)
(* the agent, answers each request in order with ACK/NACK or SENDCONFIRM,  *)
(* may deliver bundles once the agent is registered, and may close the     *)
(* connection at any moment (a crash, a restart, an operator).             *)
(*                                                                         *)
(* aap_config sends as its bundle the contact configuration message it    *)
(* built before connecting (module Agents).                               *)
(***************************************************************************)
EXTENDS Integers, Sequences, SequencesExt, Agents

CONSTANTS
    Tools,        \* the agents that may run: subset of the four tools
    Eids,         \* EID strings, as byte sequences
    Payloads,     \* bundle payloads, as byte sequences
    BundleIds,    \* bundle identifiers the daemon may confirm
    MaxCount,     \* aap_receive's --count (0 is None: loop until EOF)
    MaxDeliver    \* bound on the bundles the daemon delivers

ASSUME Tools \subseteq {"aap_send", "aap_receive", "aap_test", "aap_config"}
ASSUME MaxCount \in Nat /\ MaxDeliver \in Nat

(* AAPMessageType *)
ACK == 0
NACK == 1
REGISTER == 2
SENDBUNDLE == 3
RECVBUNDLE == 4
SENDCONFIRM == 5
CANCELBUNDLE == 6
WELCOME == 7
PING == 8

\* The message kinds carrying an EID, a payload, a bundle id.
EidTypes == {REGISTER, SENDBUNDLE, RECVBUNDLE, WELCOME}
PayloadTypes == {SENDBUNDLE, RECVBUNDLE}
IdTypes == {SENDCONFIRM, CANCELBUNDLE}

\* A Python attribute that may be None: {} is None, {x} holds x.
None == {}
Val(o) == CHOOSE x \in o : TRUE

Msg(t, eid, payload, id) ==
    [msg_type |-> t, eid |-> eid, payload |-> payload, bundle_id |-> id]

(***************************************************************************)
(* Byte helpers: struct.pack("!H"/"!Q") and struct.unpack.                 *)
(***************************************************************************)
RECURSIVE ToBigEndianUnmasked(_, _)
ToBigEndianUnmasked(n, w) ==
    IF w = 0 THEN <<>> ELSE ToBigEndianUnmasked(n \div 256, w - 1) \o << n >>

RECURSIVE ToBigEndian(_, _)
ToBigEndian(n, w) ==
    IF w = 0 THEN <<>> ELSE ToBigEndian(n \div 256, w - 1) \o << n % 256 >>

FromBigEndian(s) == FoldLeft(LAMBDA acc, b : acc * 256 + b, 0, s)

(***************************************************************************)
(* AAPMessage.serialize.  len() of a None field, or of the integer         *)
(* bundle_id of SENDCONFIRM/CANCELBUNDLE, raises TypeError.                *)
(***************************************************************************)
SerializeEidOneByte(eid) == << Len(eid) >> \o eid

SerializeEid(eid) == ToBigEndian(Len(eid), 2) \o eid

serialize(m) ==
    LET t == m.msg_type
    IN  IF \/ t \in EidTypes /\ m.eid = None
           \/ t \in PayloadTypes /\ m.payload = None
           \/ t \in IdTypes
        THEN [ok |-> FALSE]
        ELSE [ok |-> TRUE,
              bytes |-> << 16 + (t % 16) >>
                        \o (IF t \in EidTypes THEN SerializeEid(Val(m.eid))
                                              ELSE <<>>)
                        \o (IF t \in PayloadTypes
                              THEN ToBigEndian(Len(Val(m.payload)), 8)
                                   \o Val(m.payload)
                              ELSE <<>>)]

(***************************************************************************)
(* AAPMessage.parse.  A cursor c is the parse so far: st = "ok" with the   *)
(* index reached and the field read, or st = "need" carrying the           *)
(* bytes_needed of InsufficientAAPDataError.                               *)
(***************************************************************************)
Need(n) == [st |-> "need", n |-> n]

Malformed == [st |-> "malformed"]

\* A field of w length bytes and then that many bytes (EID, payload).
ReadPrefixed(data, c, w) ==
    IF c.st # "ok" THEN c
    ELSE IF Len(data) - c.index < w THEN Need(c.index + w)
    ELSE LET n == FromBigEndian(SubSeq(data, c.index + 1, c.index + w))
             i == c.index + w
         IN  IF Len(data) - i < n THEN Need(i + n)
             ELSE [st |-> "ok", index |-> i + n,
                   val |-> {SubSeq(data, i + 1, i + n)}]

ReadFixedShortSlice(data, c, w) ==
    IF c.st # "ok" THEN c
    ELSE IF Len(data) - c.index < w THEN Need(c.index + w)
    ELSE [st |-> "ok", index |-> c.index + w,
          val |-> {FromBigEndian(SubSeq(data, c.index + 1, c.index + w - 1))}]

\* A big-endian integer of w bytes (the bundle id).
ReadFixed(data, c, w) ==
    IF c.st # "ok" THEN c
    ELSE IF Len(data) - c.index < w THEN Need(c.index + w)
    ELSE [st |-> "ok", index |-> c.index + w,
          val |-> {FromBigEndian(SubSeq(data, c.index + 1, c.index + w))}]

\* eid.decode("ascii") raises UnicodeDecodeError, a ValueError.
NotAscii(o) == \E s \in o : \E i \in DOMAIN s : s[i] >= 128

\* AAPMessage.parse: the EID is decoded as soon as it is complete, before
\* the payload length is read; AAPMessage's constructor rejects an unknown
\* type last.
parse(data) ==
    IF data = <<>> THEN Need(1)
    ELSE IF (data[1] \div 16) % 16 # 1 THEN Malformed
    ELSE
      LET t == data[1] % 16
          c0 == [st |-> "ok", index |-> 1, val |-> None]
          e == IF t \in EidTypes THEN ReadPrefixed(data, c0, 2) ELSE c0
          p == IF t \in PayloadTypes THEN ReadPrefixed(data, e, 8) ELSE e
          b == IF t \in IdTypes THEN ReadFixed(data, p, 8) ELSE p
          eid == IF t \in EidTypes THEN e.val ELSE None
      IN  IF e.st # "ok" THEN e
          ELSE IF NotAscii(eid) THEN Malformed
          ELSE IF b.st # "ok" THEN b
          ELSE IF t > PING THEN Malformed
          ELSE [st |-> "ok",
                msg |-> Msg(t, eid,
                            IF t \in PayloadTypes THEN p.val ELSE None,
                            IF t \in IdTypes THEN b.val ELSE None)]

(***************************************************************************)
(* The wire format of section 6 of the specification, the reference both   *)
(* sides are held to.                                                      *)
(***************************************************************************)
Wire(m) ==
    << 16 + m.msg_type >>
    \o (IF m.msg_type \in EidTypes
          THEN ToBigEndian(Len(Val(m.eid)), 2) \o Val(m.eid) ELSE <<>>)
    \o (IF m.msg_type \in PayloadTypes
          THEN ToBigEndian(Len(Val(m.payload)), 8) \o Val(m.payload) ELSE <<>>)
    \o (IF m.msg_type \in IdTypes
          THEN ToBigEndian(Val(m.bundle_id), 8) ELSE <<>>)

(***************************************************************************)
(* The agents' scripts.  Each step sends one request or waits for one      *)
(* reply, whose type the tool asserts.  aap_receive ends in a loop of      *)
(* RECVBUNDLE replies counted against --count.                             *)
(***************************************************************************)
S(t) == [op |-> "send", type |-> t, loop |-> FALSE]
R(t) == [op |-> "recv", type |-> t, loop |-> FALSE]

Script(agent) ==
    CASE agent \in {"aap_send", "aap_config"} ->
            << R(WELCOME), S(REGISTER), R(ACK), S(SENDBUNDLE), R(SENDCONFIRM) >>
      [] agent = "aap_test" ->
            << R(WELCOME), S(PING), R(ACK), S(REGISTER), R(ACK),
               S(SENDBUNDLE), R(SENDCONFIRM), R(RECVBUNDLE) >>
      [] agent = "aap_receive" ->
            << R(WELCOME), S(REGISTER), R(ACK),
               [op |-> "recv", type |-> RECVBUNDLE, loop |-> TRUE] >>

\* The tools whose recv_aap checks for EOF: only aap_receive's.
EofChecked(agent) == agent = "aap_receive"

VARIABLES
    tool,       \* the agent that runs
    pc,         \* its position in Script(tool)
    buf,        \* recv_aap's buffer
    counter,    \* aap_receive's bundle counter
    stage,      \* "run", "done" (shutdown), or "failed" with cause
    cause,
    up,         \* the requests the agent sent, in order
    wrote,      \* the bytes the agent wrote
    got,        \* the messages recv_aap returned, in order
    down,       \* the daemon's bytes not yet read by the agent
    sentDown,   \* the messages the daemon sent, in order
    welcomed, answered, registered, delivered, closed
\* and config, aap_config's configuration message, declared by Agents

agentVars == <<tool, pc, buf, counter, stage, cause, up, wrote, got, config>>
daemonVars == <<sentDown, welcomed, answered, registered, delivered, closed>>
vars == <<agentVars, down, daemonVars>>

Causes == {"none", "TypeError", "ValueError", "AssertionError",
           "AttributeError", "SystemExit", "UnicodeDecodeError"}

Messages == [msg_type : 0..15, eid : SUBSET Seq(0..255),
             payload : SUBSET Seq(0..255), bundle_id : SUBSET Nat]

TypeOK ==
    /\ tool \in Tools
    /\ pc \in 1..Len(Script(tool))
    /\ buf \in Seq(0..255)
    /\ counter \in 0..MaxDeliver
    /\ stage \in {"run", "done", "failed"}
    /\ cause \in Causes
    /\ up \in Seq(Messages) /\ got \in Seq(Messages)
    /\ sentDown \in Seq(Messages)
    /\ wrote \in Seq(0..255) /\ down \in Seq(0..255)
    /\ welcomed \in BOOLEAN /\ registered \in BOOLEAN /\ closed \in BOOLEAN
    /\ answered \in 0..Len(up) /\ delivered \in 0..MaxDeliver
    /\ config.outcome \in {"none", "ok", "AssertionError"}

\* sock.connect has returned: the agent waits for WELCOME.  aap_config
\* connects only once it has built its message (ConfigureContact).
Init ==
    /\ tool \in Tools
    /\ pc = 1 /\ buf = <<>> /\ counter = 0
    /\ stage = "run" /\ cause = "none"
    /\ up = <<>> /\ wrote = <<>> /\ got = <<>>
    /\ down = <<>> /\ sentDown = <<>>
    /\ welcomed = FALSE /\ answered = 0 /\ registered = FALSE
    /\ delivered = 0 /\ closed = FALSE
    /\ AgentsInit

Step == Script(tool)[pc]

Fail(why) == stage' = "failed" /\ cause' = why

\* Past the last step the tool shuts the socket down and returns.
Advance ==
    IF pc = Len(Script(tool))
    THEN stage' = "done" /\ UNCHANGED <<pc, cause>>
    ELSE pc' = pc + 1 /\ UNCHANGED <<stage, cause>>

\* The requests a tool may build for a step: its agent id or destination
\* EID and payload are inputs (uuid4, argv); aap_config's payload is the
\* configuration message it built.
ToolPayloads == IF tool = "aap_config" THEN {config.bytes} ELSE Payloads
ToolMessages(t) ==
    { Msg(t, IF t \in EidTypes THEN {e} ELSE None,
             IF t \in PayloadTypes THEN {p} ELSE None, None) :
      e \in Eids, p \in ToolPayloads }

\* sock.send(AAPMessage(...).serialize()).
SendRequest ==
    /\ stage = "run" /\ Step.op = "send"
    /\ \E m \in ToolMessages(Step.type) :
         LET s == serialize(m)
         IN  IF ~s.ok
             THEN Fail("TypeError") /\ UNCHANGED <<pc, up, wrote>>
             ELSE up' = Append(up, m) /\ wrote' = wrote \o s.bytes /\ Advance
    /\ UNCHANGED <<tool, buf, counter, got, down, config, daemonVars>>

ReceiveLoopDoneAfterExtra(n) == MaxCount > 0 /\ n > MaxCount

ReceiveLoopDoneAfter(n) == MaxCount > 0 /\ n >= MaxCount

\* The continuation bytes bytes.decode("utf-8") accepts after lead byte b
\* (RFC 3629: no overlong forms, no surrogates, nothing past U+10FFFF).
SecondByte(b) ==
    CASE b = 224 -> 160..191 [] b = 237 -> 128..159
      [] b = 240 -> 144..191 [] b = 244 -> 128..143 [] OTHER -> 128..191

\* s[i..] decodes as UTF-8.
RECURSIVE Utf8At(_, _)
Utf8At(s, i) ==
    IF i > Len(s) THEN TRUE
    ELSE LET b == s[i]
             n == CASE b <= 127 -> 0 [] b \in 194..223 -> 1 [] b \in 224..239 -> 2
                    [] b \in 240..244 -> 3 [] OTHER -> -1
         IN  /\ n >= 0 /\ i + n <= Len(s)
             /\ n >= 1 => s[i + 1] \in SecondByte(b)
             /\ \A k \in 2..n : s[i + k] \in 128..191
             /\ Utf8At(s, i + n + 1)

\* The checks after recv_aap returned m: the type assertion, then the next
\* step, or in aap_receive's loop msg.payload.decode("utf-8"), the counter
\* and the --count test.  (--verify-pl is not modelled.)
Accept(m) ==
    IF m.msg_type # Step.type
    THEN Fail("AssertionError") /\ UNCHANGED <<pc, counter>>
    ELSE IF Step.loop /\ ~Utf8At(Val(m.payload), 1)
    THEN Fail("UnicodeDecodeError") /\ UNCHANGED <<pc, counter>>
    ELSE IF Step.loop
    THEN /\ counter' = counter + 1
         /\ IF ReceiveLoopDoneAfter(counter + 1)
            THEN stage' = "done" ELSE UNCHANGED stage
         /\ UNCHANGED <<pc, cause>>
    ELSE Advance /\ UNCHANGED counter

\* One iteration of recv_aap: sock.recv(1) returns a byte, parse is tried.
RecvAap ==
    /\ stage = "run" /\ Step.op = "recv" /\ down # <<>>
    /\ down' = Tail(down)
    /\ LET data == Append(buf, Head(down))
           r == parse(data)
       IN  CASE r.st = "need" ->
                  buf' = data /\ UNCHANGED <<pc, counter, stage, cause, got>>
             [] r.st = "malformed" ->
                  Fail("ValueError") /\ buf' = data
                  /\ UNCHANGED <<pc, counter, got>>
             [] OTHER ->
                  buf' = <<>> /\ got' = Append(got, r.msg) /\ Accept(r.msg)
    /\ UNCHANGED <<tool, up, wrote, config, daemonVars>>

(***************************************************************************)
(* sock.recv(1) returns b"" once the daemon has closed and every byte was  *)
(* read.  aap_receive's recv_aap returns None: in the bundle loop the tool *)
(* prints "Disconnected." and returns; before it, msg.msg_type raises      *)
(* AttributeError.  The other tools' recv_aap appends b"" and parses the   *)
(* same buffer again, forever: a step that changes nothing, which is a     *)
(* stuttering step and so has no action here.                              *)
(***************************************************************************)
RecvAapEof ==
    /\ stage = "run" /\ Step.op = "recv" /\ down = <<>> /\ closed
    /\ EofChecked(tool)
    /\ IF Step.loop THEN stage' = "done" /\ UNCHANGED cause
                    ELSE Fail("AttributeError")
    /\ UNCHANGED <<tool, pc, buf, counter, up, wrote, got, down, config,
                   daemonVars>>

(***************************************************************************)
(* The daemon.  It writes whole messages in the wire format.               *)
(***************************************************************************)
DaemonSend(m) == down' = down \o Wire(m) /\ sentDown' = Append(sentDown, m)

DaemonWelcome ==
    /\ ~closed /\ ~welcomed
    /\ \E e \in Eids : DaemonSend(Msg(WELCOME, {e}, None, None))
    /\ welcomed' = TRUE
    /\ UNCHANGED <<agentVars, answered, registered, delivered, closed>>

Replies(t) ==
    IF t = SENDBUNDLE
    THEN {Msg(NACK, None, None, None)}
         \cup {Msg(SENDCONFIRM, None, None, {i}) : i \in BundleIds}
    ELSE {Msg(ACK, None, None, None), Msg(NACK, None, None, None)}

DaemonAnswer ==
    /\ ~closed /\ welcomed /\ answered < Len(up)
    /\ \E m \in Replies(up[answered + 1].msg_type) :
         /\ DaemonSend(m)
         /\ registered' = (registered \/ (up[answered + 1].msg_type = REGISTER
                                           /\ m.msg_type = ACK))
    /\ answered' = answered + 1
    /\ UNCHANGED <<agentVars, welcomed, delivered, closed>>

DaemonDeliver ==
    /\ ~closed /\ registered /\ delivered < MaxDeliver
    /\ \E e \in Eids, p \in Payloads : DaemonSend(Msg(RECVBUNDLE, {e}, {p}, None))
    /\ delivered' = delivered + 1
    /\ UNCHANGED <<agentVars, welcomed, answered, registered, closed>>

DaemonClose ==
    /\ ~closed /\ closed' = TRUE
    /\ UNCHANGED <<agentVars, down, sentDown, welcomed, answered, registered,
                   delivered>>

(***************************************************************************)
(* aap_config's main: without a -s/--schedule it exits with status 1;     *)
(* otherwise bytes(ConfigMessage(eid, cla_address, contacts=one           *)
(* make_contact per schedule entry, reachable_eids=reaches)), which raises *)
(* AssertionError for a parenthesis in a field, and only then              *)
(* send_bundle_via_aap connects.                                           *)
(***************************************************************************)
ConfigureContact ==
    /\ tool = "aap_config" /\ stage = "run" /\ config.outcome = "none"
    /\ \E e \in ConfigEids, cla \in ClaAddresses, reach \in ReachableLists,
          sched \in ContactArgs :
         IF sched = <<>>
         THEN Fail("SystemExit") /\ UNCHANGED config
         ELSE /\ \E cs \in [DOMAIN sched -> Clocks] :
                   BuildConfig(e, cla, reach, sched, RouterCommand.ADD, cs)
              /\ IF config'.outcome = "ok" THEN UNCHANGED <<stage, cause>>
                 ELSE Fail("AssertionError")
    /\ UNCHANGED <<tool, pc, buf, counter, up, wrote, got, down, daemonVars>>

\* There is a connection once aap_config has its message.
Connected == tool # "aap_config" \/ config.outcome = "ok"

AgentStep == ConfigureContact \/ (Connected /\ (SendRequest \/ RecvAap \/ RecvAapEof))

DaemonStep ==
    Connected /\ (DaemonWelcome \/ DaemonAnswer \/ DaemonDeliver \/ DaemonClose)

Next == AgentStep \/ DaemonStep

\* The agent is a process that runs whenever it can; the daemon is owed
\* nothing: it may stay silent or close.
Spec == Init /\ [][Next]_vars /\ WF_vars(AgentStep)

(***************************************************************************)
(* Properties                                                              *)
(***************************************************************************)

\* Every message the daemon wrote comes out of recv_aap whole, in order,
\* and never as ValueError: fed the wire format one byte at a time,
\* AAPMessage.parse asks for more bytes at every proper prefix of a message
\* and returns exactly that message at its last byte, with nothing left in
\* the buffer for the next call.
AgentReadsDaemonStream ==
    /\ IsPrefix(got, sentDown)
    /\ stage = "failed" => cause # "ValueError"

\* The bytes the tools write with AAPMessage.serialize are, request after
\* request, the wire format of section 6 of the requests they built.
AgentWritesWireFormat ==
    wrote = FlattenSeq([i \in DOMAIN up |-> Wire(up[i])])

\* The replies a tool's script waits for; aap_receive's loop waits for
\* --count bundles.
ExpectedReplies(agent) ==
    Len(SelectSeq(Script(agent), LAMBDA st : st.op = "recv" /\ ~st.loop))
    + (IF \E i \in DOMAIN Script(agent) : Script(agent)[i].loop
         THEN MaxCount ELSE 0)

\* Once the daemon has written as many messages as the tool's script reads
\* (aap_send and aap_config: WELCOME, ACK, SENDCONFIRM; aap_receive: also
\* --count bundles), the tool eventually returns or raises: recv_aap never
\* waits for a byte the daemon does not owe, and aap_receive's --count test
\* stops the loop at the count.
ToolEndsWhenServed ==
    MaxCount > 0 =>
        ((Len(sentDown) >= ExpectedReplies(tool)) ~> (stage # "run"))

\* The configuration aap_config sends is the one it built: the payload of
\* every SENDBUNDLE it wrote reads back through the config agent's grammar
\* as the type, EID, CLA address, reachable EIDs and contacts of its
\* ConfigMessage.  ConfigMessage.__str__ does no escaping, so this rests on
\* its assertions keeping parentheses out of the free-text fields.
ConfigRoundTrip ==
    tool = "aap_config" =>
        \A i \in DOMAIN up :
            up[i].msg_type = SENDBUNDLE =>
                \A p \in up[i].payload :
                    ParseConfig(p) = [ok |-> TRUE, msg |-> config.msg]

\* The TCPCL test scripts (tools/tcpcl_test) build the config message with
\* their own copy of the serializer.  For the contact aap_config built, the
\* copy raises exactly when ConfigMessage's assertions fail and otherwise
\* writes the same bytes, so the config agent reads both tools alike.
ConfigCopyAgrees ==
    config.outcome # "none" =>
        LET m == config.msg
            r == serialize_upcn_config_message(
                     m.eid, m.cla_address, m.reachable_eids,
                     [i \in DOMAIN m.contacts |->
                        <<m.contacts[i].start, m.contacts[i].end, m.contacts[i].bitrate>>],
                     m.type)
        IN  IF config.outcome = "ok" THEN r = [ok |-> TRUE, bytes |-> config.bytes]
            ELSE ~r.ok

\* After the daemon closes the connection the tool eventually returns or
\* raises, as the raw-byte read of section 6 fails on a closed connection.
AgentEndsOnClose == closed ~> (stage # "run")

====
