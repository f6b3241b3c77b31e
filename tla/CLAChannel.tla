----------------------------- MODULE CLAChannel -----------------------------
(***************************************************************************)
(* What a convergence layer promises the code that calls recv_bundle: a    *)
(* channel of whole bundles.  The peer sends bundles; the receiver gets    *)
(* them one at a time, in the order sent, none lost, duplicated, cut or    *)
(* merged; for a session layer a handshake comes first and may fail; after *)
(* it the receiver fails only at the end of the stream, when it has got    *)
(* every bundle sent; and a bundle sent is eventually received.            *)
(* Section 4.5 of the specification states this contract for TCPCL, MTCP  *)
(* and the Space Packet framing alike.                                     *)
(***************************************************************************)
EXTENDS Naturals, Sequences

CONSTANT Bundles    \* the bundles the peer may send

VARIABLES
    sent,       \* the bundles the peer has sent, in order
    received,   \* the bundles the receiver has got, in order
    phase       \* "connecting", "open" or "failed"

cvars == <<sent, received, phase>>

Init ==
    /\ sent = <<>> /\ received = <<>>
    /\ phase \in {"connecting", "open"}

Send == \E b \in Bundles : sent' = Append(sent, b) /\ UNCHANGED <<received, phase>>

Connect == phase = "connecting" /\ phase' = "open" /\ UNCHANGED <<sent, received>>

HandshakeFail ==
    phase = "connecting" /\ phase' = "failed" /\ UNCHANGED <<sent, received>>

\* The next bundle in send order reaches the receiver whole.
Receive ==
    /\ phase = "open" /\ Len(received) < Len(sent)
    /\ received' = Append(received, sent[Len(received) + 1])
    /\ UNCHANGED <<sent, phase>>

\* The stream ended (or the wait for it timed out) with nothing undelivered.
StreamEnd ==
    phase = "open" /\ received = sent /\ phase' = "failed" /\ UNCHANGED <<sent, received>>

Next == Send \/ Connect \/ HandshakeFail \/ Receive \/ StreamEnd

Spec == Init /\ [][Next]_cvars /\ WF_cvars(Receive)

====
