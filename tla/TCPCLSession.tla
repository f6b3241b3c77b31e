---------------------------- MODULE TCPCLSession ----------------------------
(***************************************************************************)
(* The TCPCL v3 listener of src/pyupcn/tcpcl.py (TCPCLServer, an asyncio  *)
(* server with one handler task per connection), driven as the sink tool  *)
(* src/tools/cla/tcpcl_sink.py drives it, together with the repository's  *)
(* own client TCPCLConnection on the other end of every connection.       *)
(*                                                                         *)
(* The event loop is single threaded: every loop action below is one      *)
(* callback or one task step between two await points.  The clients run   *)
(* in other processes and interleave freely with the loop.  Bytes are     *)
(* abstracted to tokens: the contact header, one token per bundle segment, *)
(* the termination byte 0x50, and the FIN / RST of the TCP connection.    *)
(***************************************************************************)
EXTENDS Integers, Sequences, SequencesExt, FiniteSets

CONSTANTS
    Conn,       \* the TCP connections that clients may open (model values)
    MaxData     \* bundles a client sends on one connection

ASSUME MaxData \in Nat /\ IsFiniteSet(Conn)

\* Tokens of the byte streams.  Bundle segments are numbered 1..MaxData in
\* the order the client sends them.
Hdr  == 0     \* serialize_tcpcl_contact_header(...)
Term == -1    \* b"\x50"
Eof  == -2    \* orderly TCP close (FIN) in the kernel stream
Rst  == -3    \* TCP reset in the kernel stream
Tok  == {Hdr, Term} \cup (1..MaxData)
Wire == Tok \cup {Eof, Rst}

\* Where a handler task is: not connected, in the listen backlog, refused
\* by server.close(), client_connected task scheduled, handler task created
\* but not started, awaiting the contact header read, awaiting a message
\* read, finished.
TaskState == {"none", "queued", "refused", "cb", "created",
              "hdrwait", "msgwait", "done"}
ClientState == {"idle", "connecting", "up", "failed", "closed"}

VARIABLES
    srv,        \* TCPCLServer: "idle" before start(), "serving", "closed"
                \* after close(), "stopped" once wait_closed() returned
    handlers,   \* TCPCLServer.handlers: connections whose task is listed
    task,       \* the handler of each connection
    cancelReq,  \* task.cancel() requested and not yet delivered
    doneCb,     \* the task's done callback (handlers.remove) is scheduled
    active,     \* transports attached to the asyncio Server
    closing,    \* writer.transport.is_closing()
    rxErr,      \* the StreamReader holds a connection-reset exception
    net,        \* client -> server bytes not yet read by the loop
    rx,         \* StreamReader buffer
    eof,        \* StreamReader saw end of stream
    tx,         \* server -> client bytes not yet received by the client
    fin,        \* server socket closed: the client sees end of stream
    delivered,  \* chunks handed to received_message, in order
    cl,         \* the TCPCLConnection client of each connection
    sent        \* history: tokens the client wrote, in order

vars == <<srv, handlers, task, cancelReq, doneCb, active, closing, rxErr,
          net, rx, eof, tx, fin, delivered, cl, sent>>

TypeOK ==
    /\ srv \in {"idle", "serving", "closed", "stopped"}
    /\ handlers \subseteq Conn
    /\ task \in [Conn -> TaskState]
    /\ cancelReq \in [Conn -> BOOLEAN]
    /\ doneCb \in [Conn -> BOOLEAN]
    /\ active \subseteq Conn
    /\ closing \in [Conn -> BOOLEAN]
    /\ rxErr \in [Conn -> BOOLEAN]
    /\ net \in [Conn -> Seq(Wire)]
    /\ rx \in [Conn -> Seq(Tok)]
    /\ eof \in [Conn -> BOOLEAN]
    /\ tx \in [Conn -> Seq(Tok)]
    /\ fin \in [Conn -> BOOLEAN]
    /\ delivered \in [Conn -> Seq(Seq(Tok))]
    /\ cl \in [Conn -> ClientState]
    /\ sent \in [Conn -> Seq(Tok)]

Init ==
    /\ srv = "idle"
    /\ handlers = {}
    /\ task = [c \in Conn |-> "none"]
    /\ cancelReq = [c \in Conn |-> FALSE]
    /\ doneCb = [c \in Conn |-> FALSE]
    /\ active = {}
    /\ closing = [c \in Conn |-> FALSE]
    /\ rxErr = [c \in Conn |-> FALSE]
    /\ net = [c \in Conn |-> <<>>]
    /\ rx = [c \in Conn |-> <<>>]
    /\ eof = [c \in Conn |-> FALSE]
    /\ tx = [c \in Conn |-> <<>>]
    /\ fin = [c \in Conn |-> FALSE]
    /\ delivered = [c \in Conn |-> <<>>]
    /\ cl = [c \in Conn |-> "idle"]
    /\ sent = [c \in Conn |-> <<>>]

-----------------------------------------------------------------------------
(* Helpers                                                                 *)

\* Mutant of ValidContactHeader: a decoder without the length assertion,
\* which ignores bytes following the header.
ValidContactHeaderPrefix(chunk) == chunk # <<>> /\ Head(chunk) = Hdr

\* decode_tcpcl_contact_header accepts a read chunk only when it is exactly
\* one contact header: the length assertion rejects anything appended.
ValidContactHeader(chunk) == chunk = <<Hdr>>

\* The loop only runs while listen() has not returned.
LoopRuns == srv \in {"serving", "closed"}

Waiting(c) == task[c] \in {"hdrwait", "msgwait"}

\* Whether the loop may run a _read_ready callback for the connection now.
\* The ready queue is FIFO: connection_made schedules client_connected
\* before the transport's reader is registered, so no recv() precedes it;
\* client_connected schedules the handler's first step, so at most one
\* recv() runs before that step; and a recv() that wakes the awaiting task
\* is followed by the task's step before the next select.
RecvAllowed(c) ==
    /\ task[c] # "cb"
    /\ task[c] = "created" => rx[c] = <<>> /\ ~eof[c] /\ ~rxErr[c]
    /\ ~(Waiting(c) /\ (rx[c] # <<>> \/ eof[c] \/ rxErr[c]))

\* Mutant of ReadEnds: a handler whose read is not interrupted by cancel().
ReadEndsIgnoringCancel(c) == rxErr[c] \/ (rx[c] = <<>> /\ eof[c])

\* The awaited read ends the message loop: CancelledError, the reader's
\* reset exception (raised before any buffered bytes), or b"" at end of
\* stream.
ReadEnds(c) == cancelReq[c] \/ rxErr[c] \/ (rx[c] = <<>> /\ eof[c])

NumData(s) == Len(SelectSeq(s, LAMBDA t : t > 0))

\* The finally block of handle_connection: unless the transport is already
\* closing, write b"\x50", drain and close; the task then completes and its
\* done callback is scheduled.  drain() does not suspend here: nothing the
\* handler writes reaches the transport's high-water mark.
Finish(c) ==
    /\ tx' = IF closing[c] THEN tx
             ELSE [tx EXCEPT ![c] = Append(@, Term)]
    /\ closing' = [closing EXCEPT ![c] = TRUE]
    /\ task' = [task EXCEPT ![c] = "done"]
    /\ doneCb' = [doneCb EXCEPT ![c] = TRUE]

-----------------------------------------------------------------------------
(* The server lifecycle (tcpcl_sink.listen)                                *)

\* async with TCPCLServer(...): start() listens; listen() then awaits
\* wait_closed().
Start ==
    /\ srv = "idle"
    /\ srv' = "serving"
    /\ UNCHANGED <<handlers, task, cancelReq, doneCb, active, closing, rxErr,
                   net, rx, eof, tx, fin, delivered, cl, sent>>

\* SIGINT runs TCPCLServer.close(): cancel every task in self.handlers,
\* then server.close() stops listening; connections still in the backlog
\* are refused.  A second SIGINT cancels the tasks listed by then again.
Close ==
    /\ srv \in {"serving", "closed"}
    /\ srv' = "closed"
    /\ cancelReq' = [c \in Conn |->
                        cancelReq[c] \/ (c \in handlers /\ task[c] # "done")]
    /\ task' = [c \in Conn |-> IF task[c] = "queued" THEN "refused"
                               ELSE task[c]]
    /\ UNCHANGED <<handlers, doneCb, active, closing, rxErr, net, rx, eof,
                   tx, fin, delivered, cl, sent>>

\* A step of the connection's coroutine is in the ready queue.
Runnable(c) ==
    \/ task[c] \in {"cb", "created"}
    \/ Waiting(c) /\ (ReadEnds(c) \/ rx[c] # <<>>)

\* Server.wait_closed() returns once the server is closed and no transport
\* is attached; listen() returns and run_until_complete stops the loop.
\* Task steps scheduled before the waiter's wakeup (every wakeup caused by
\* a cancel() or a lost connection) still run first.
WaitClosedReturns ==
    /\ srv = "closed"
    /\ active = {}
    /\ \A c \in Conn : ~Runnable(c)
    /\ srv' = "stopped"
    /\ UNCHANGED <<handlers, task, cancelReq, doneCb, active, closing, rxErr,
                   net, rx, eof, tx, fin, delivered, cl, sent>>

-----------------------------------------------------------------------------
(* Event-loop steps of one connection                                      *)

\* The loop accepts a backlog connection: the transport attaches to the
\* server and connection_made schedules the client_connected coroutine.
LoopAccept(c) ==
    /\ srv = "serving"
    /\ task[c] = "queued"
    /\ task' = [task EXCEPT ![c] = "cb"]
    /\ active' = active \cup {c}
    /\ UNCHANGED <<srv, handlers, cancelReq, doneCb, closing, rxErr, net, rx,
                   eof, tx, fin, delivered, cl, sent>>

\* client_connected: create the handler task, register its done callback
\* and append it to self.handlers.
ClientConnected(c) ==
    /\ LoopRuns
    /\ task[c] = "cb"
    /\ task' = [task EXCEPT ![c] = "created"]
    /\ handlers' = handlers \cup {c}
    /\ UNCHANGED <<srv, cancelReq, doneCb, active, closing, rxErr, net, rx,
                   eof, tx, fin, delivered, cl, sent>>

\* First step of handle_connection: write the contact header, drain, and
\* await reader.read(1024).  The one recv() that may precede this step
\* returns the client's contact header or b"" (a reset is reported only by
\* a later recv()), so the transport is open and drain() does not raise.
HandlerStart(c) ==
    /\ LoopRuns
    /\ task[c] = "created"
    /\ ~cancelReq[c]
    /\ tx' = [tx EXCEPT ![c] = Append(@, Hdr)]
    /\ task' = [task EXCEPT ![c] = "hdrwait"]
    /\ UNCHANGED <<srv, handlers, cancelReq, doneCb, active, closing, rxErr,
                   net, rx, eof, fin, delivered, cl, sent>>

\* A task cancelled before its first step: asyncio throws CancelledError
\* into the unstarted coroutine, so no line of handle_connection, its
\* finally block included, ever runs.
HandlerCancelledUnstarted(c) ==
    /\ LoopRuns
    /\ task[c] = "created"
    /\ cancelReq[c]
    /\ task' = [task EXCEPT ![c] = "done"]
    /\ cancelReq' = [cancelReq EXCEPT ![c] = FALSE]
    /\ doneCb' = [doneCb EXCEPT ![c] = TRUE]
    /\ UNCHANGED <<srv, handlers, active, closing, rxErr, net, rx, eof, tx,
                   fin, delivered, cl, sent>>

\* A suspended read resumes with CancelledError, with the reader's reset
\* exception, or with b"" at end of stream: the handler leaves its loop
\* and runs the finally block.
HandlerLeaves(c) ==
    /\ LoopRuns
    /\ Waiting(c)
    /\ ReadEnds(c)
    /\ Finish(c)
    /\ cancelReq' = [cancelReq EXCEPT ![c] = FALSE]
    /\ UNCHANGED <<srv, handlers, active, rxErr, net, rx, eof, fin, delivered,
                   cl, sent>>

\* The contact header read returns the whole reader buffer; it is decoded.
HeaderRead(c) ==
    /\ LoopRuns
    /\ task[c] = "hdrwait"
    /\ ~cancelReq[c] /\ ~rxErr[c] /\ rx[c] # <<>>
    /\ rx' = [rx EXCEPT ![c] = <<>>]
    /\ IF ValidContactHeader(rx[c])
         THEN /\ task' = [task EXCEPT ![c] = "msgwait"]
              /\ UNCHANGED <<tx, closing, doneCb>>
         ELSE Finish(c)
    /\ UNCHANGED <<srv, handlers, cancelReq, active, rxErr, net, eof, fin,
                   delivered, cl, sent>>

\* A message read returns the whole reader buffer, which is handed to
\* received_message (it only logs) before the next read.
MessageRead(c) ==
    /\ LoopRuns
    /\ task[c] = "msgwait"
    /\ ~cancelReq[c] /\ ~rxErr[c] /\ rx[c] # <<>>
    /\ delivered' = [delivered EXCEPT ![c] = Append(@, rx[c])]
    /\ rx' = [rx EXCEPT ![c] = <<>>]
    /\ UNCHANGED <<srv, handlers, task, cancelReq, doneCb, active, closing,
                   rxErr, net, eof, tx, fin, cl, sent>>

\* The done callback removes the finished task from self.handlers.
DoneCallback(c) ==
    /\ LoopRuns
    /\ doneCb[c]
    /\ handlers' = handlers \ {c}
    /\ doneCb' = [doneCb EXCEPT ![c] = FALSE]
    /\ UNCHANGED <<srv, task, cancelReq, active, closing, rxErr, net, rx, eof,
                   tx, fin, delivered, cl, sent>>

-----------------------------------------------------------------------------
(* Transport callbacks of the loop                                         *)

\* Mutant of DataPrefixLen: an off-by-one that also copies the FIN or RST
\* marker into the reader buffer.
DataPrefixLenPastEnd(s) ==
    LET i == SelectInSeq(s, LAMBDA t : t \notin Tok)
    IN  IF i = 0 THEN Len(s) ELSE i

\* Number of leading bundle-stream tokens of a kernel buffer, before any
\* FIN or RST.
DataPrefixLen(s) ==
    LET i == SelectInSeq(s, LAMBDA t : t \notin Tok)
    IN  IF i = 0 THEN Len(s) ELSE i - 1

\* _read_ready: one recv() moves every byte the kernel holds into the
\* StreamReader buffer (data_received), waking a task awaiting read.
LoopRecvData(c) ==
    /\ LoopRuns
    /\ c \in active /\ ~closing[c]
    /\ RecvAllowed(c)
    /\ DataPrefixLen(net[c]) > 0
    /\ LET n == DataPrefixLen(net[c])
       IN  /\ rx' = [rx EXCEPT ![c] = @ \o SubSeq(net[c], 1, n)]
           /\ net' = [net EXCEPT ![c] = SubSeq(@, n + 1, Len(@))]
    /\ UNCHANGED <<srv, handlers, task, cancelReq, doneCb, active, closing,
                   rxErr, eof, tx, fin, delivered, cl, sent>>

\* recv() returns b"": eof_received feeds EOF to the reader and keeps the
\* transport open (half-closed), so is_closing() stays false.
LoopRecvEof(c) ==
    /\ LoopRuns
    /\ c \in active /\ ~closing[c]
    /\ RecvAllowed(c)
    /\ net[c] # <<>> /\ Head(net[c]) = Eof
    /\ eof' = [eof EXCEPT ![c] = TRUE]
    /\ net' = [net EXCEPT ![c] = Tail(@)]
    /\ UNCHANGED <<srv, handlers, task, cancelReq, doneCb, active, closing,
                   rxErr, rx, tx, fin, delivered, cl, sent>>

\* recv() fails with ECONNRESET: the transport force-closes (is_closing()
\* becomes true) and connection_lost sets the exception on the reader.
LoopRecvReset(c) ==
    /\ LoopRuns
    /\ c \in active /\ ~closing[c]
    /\ RecvAllowed(c)
    /\ net[c] # <<>> /\ Head(net[c]) = Rst
    /\ closing' = [closing EXCEPT ![c] = TRUE]
    /\ rxErr' = [rxErr EXCEPT ![c] = TRUE]
    /\ net' = [net EXCEPT ![c] = <<>>]
    /\ UNCHANGED <<srv, handlers, task, cancelReq, doneCb, active, eof, rx, tx,
                   fin, delivered, cl, sent>>

\* _call_connection_lost of a closing transport: the socket is closed (the
\* client sees end of stream) and the transport detaches from the server.
LoopConnLost(c) ==
    /\ LoopRuns
    /\ c \in active /\ closing[c]
    /\ active' = active \ {c}
    /\ fin' = [fin EXCEPT ![c] = TRUE]
    /\ UNCHANGED <<srv, handlers, task, cancelReq, doneCb, closing, rxErr, net,
                   rx, eof, tx, delivered, cl, sent>>

-----------------------------------------------------------------------------
(* The client TCPCLConnection (another process)                            *)

\* connect(): the kernel completes the TCP handshake into the listen
\* backlog, and sendall() writes the client's contact header.
ClientConnect(c) ==
    /\ cl[c] = "idle" /\ task[c] = "none"
    /\ srv = "serving"
    /\ task' = [task EXCEPT ![c] = "queued"]
    /\ net' = [net EXCEPT ![c] = <<Hdr>>]
    /\ sent' = [sent EXCEPT ![c] = <<Hdr>>]
    /\ cl' = [cl EXCEPT ![c] = "connecting"]
    /\ UNCHANGED <<srv, handlers, cancelReq, doneCb, active, closing, rxErr,
                   rx, eof, tx, fin, delivered>>

\* connect() to a port nobody listens on raises ConnectionRefusedError.
ClientRefused(c) ==
    /\ cl[c] = "idle" /\ task[c] = "none"
    /\ srv # "serving"
    /\ cl' = [cl EXCEPT ![c] = "failed"]
    /\ UNCHANGED <<srv, handlers, task, cancelReq, doneCb, active, closing,
                   rxErr, net, rx, eof, tx, fin, delivered, sent>>

\* connect(): recv(1024) returns what has arrived and decodes it as the
\* server's contact header; an AssertionError (or a reset from a refused
\* backlog connection) propagates out of __enter__, leaving the socket open.
ClientRecvHeader(c) ==
    /\ cl[c] = "connecting"
    /\ tx[c] # <<>> \/ fin[c] \/ task[c] = "refused"
    /\ cl' = [cl EXCEPT ![c] = IF ValidContactHeader(tx[c]) THEN "up"
                                ELSE "failed"]
    /\ tx' = [tx EXCEPT ![c] = <<>>]
    /\ UNCHANGED <<srv, handlers, task, cancelReq, doneCb, active, closing,
                   rxErr, net, rx, eof, fin, delivered, sent>>

\* send_bundle(): one single-segment data message.
ClientSendBundle(c) ==
    /\ cl[c] = "up"
    /\ NumData(sent[c]) < MaxData
    /\ LET b == NumData(sent[c]) + 1
       IN  /\ net' = [net EXCEPT ![c] = Append(@, b)]
           /\ sent' = [sent EXCEPT ![c] = Append(@, b)]
    /\ UNCHANGED <<srv, handlers, task, cancelReq, doneCb, active, closing,
                   rxErr, rx, eof, tx, fin, delivered, cl>>

\* disconnect() (from __exit__): sendall(b"\x50"), shutdown, close.
ClientDisconnect(c) ==
    /\ cl[c] = "up"
    /\ net' = [net EXCEPT ![c] = @ \o <<Term, Eof>>]
    /\ sent' = [sent EXCEPT ![c] = Append(@, Term)]
    /\ cl' = [cl EXCEPT ![c] = "closed"]
    /\ UNCHANGED <<srv, handlers, task, cancelReq, doneCb, active, closing,
                   rxErr, rx, eof, tx, fin, delivered>>

\* The client process ends without disconnect() (an exception escaped
\* __enter__, or it was killed): the kernel closes the socket with a FIN.
ClientExit(c) ==
    /\ cl[c] \in {"connecting", "up", "failed"}
    /\ net' = [net EXCEPT ![c] = Append(@, Eof)]
    /\ cl' = [cl EXCEPT ![c] = "closed"]
    /\ UNCHANGED <<srv, handlers, task, cancelReq, doneCb, active, closing,
                   rxErr, rx, eof, tx, fin, delivered, sent>>

\* The connection is reset (peer host failure, or a close with unread data).
PeerReset(c) ==
    /\ cl[c] \in {"connecting", "up"}
    /\ net' = [net EXCEPT ![c] = Append(@, Rst)]
    /\ cl' = [cl EXCEPT ![c] = "closed"]
    /\ UNCHANGED <<srv, handlers, task, cancelReq, doneCb, active, closing,
                   rxErr, rx, eof, tx, fin, delivered, sent>>

-----------------------------------------------------------------------------
(* The specification                                                       *)

LoopStep(c) ==
    \/ LoopAccept(c)
    \/ ClientConnected(c)
    \/ HandlerStart(c)
    \/ HandlerCancelledUnstarted(c)
    \/ HandlerLeaves(c)
    \/ HeaderRead(c)
    \/ MessageRead(c)
    \/ DoneCallback(c)
    \/ LoopRecvData(c)
    \/ LoopRecvEof(c)
    \/ LoopRecvReset(c)
    \/ LoopConnLost(c)

ClientStep(c) ==
    \/ ClientConnect(c)
    \/ ClientRefused(c)
    \/ ClientRecvHeader(c)
    \/ ClientSendBundle(c)
    \/ ClientDisconnect(c)
    \/ ClientExit(c)
    \/ PeerReset(c)

Next ==
    \/ Start
    \/ Close
    \/ WaitClosedReturns
    \/ \E c \in Conn : LoopStep(c) \/ ClientStep(c)

\* asyncio runs every ready callback in FIFO order, so a loop step that
\* stays enabled is eventually taken.  Clients and the operator (start,
\* SIGINT) owe nothing.
Fairness ==
    /\ WF_vars(WaitClosedReturns)
    /\ \A c \in Conn : WF_vars(LoopStep(c))

Spec == Init /\ [][Next]_vars /\ Fairness

-----------------------------------------------------------------------------
(* Properties                                                              *)

\* The chunks the server hands to received_message, concatenated, are a
\* prefix of what the client wrote after its contact header: a session's
\* data is accepted only after a read that held the client's contact header
\* and nothing else, and the read loop never drops, repeats or reorders
\* bytes, whatever the coalescing of TCP segments.
StreamIntegrity ==
    \A c \in Conn :
        delivered[c] # <<>> =>
            /\ sent[c] # <<>> /\ Head(sent[c]) = Hdr
            /\ IsPrefix(FlattenSeq(delivered[c]), Tail(sent[c]))

\* handle_connection releases its transport: a started handler whose task
\* is cancelled by close(), or whose client has gone away, eventually
\* leaves its read loop and closes the transport (finally block).
HandlerReleasesTransport ==
    \A c \in Conn :
        (Waiting(c) /\ (cancelReq[c] \/ cl[c] = "closed")) ~> closing[c]

\* Every handler task that has finished has closed its transport, so no
\* accepted connection is left open without the TCPCL termination: the
\* finally block of handle_connection runs on every exit path (spec 4.5).
HandlerExitClosesTransport ==
    \A c \in Conn : task[c] = "done" => closing[c]

\* Closing the listener ends every per-connection handler: once close()
\* has run, every accepted connection's task eventually finishes (spec 5).
CloseFinishesHandlers ==
    srv = "closed" ~> \A c \in Conn : task[c] \in {"none", "refused", "done"}
=============================================================================
