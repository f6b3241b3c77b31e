----------------------------- MODULE MC_CLAStream -----------------------------
(* Instances of the convergence-layer streams for TLC.                     *)
EXTENDS SppTestTools

\* All three connection classes.
MCClasses == {"tcpcl", "mtcp", "tcpspp"}

\* Lengths that take every header form the peer's framing reaches: a one-byte
\* SDNV and an inline CBOR length (2), a two-byte SDNV and a one-byte CBOR
\* extension (130), a two-byte CBOR extension (256).
MCLengths == {2, 130, 256}

\* One byte value: 0xAA, not a valid header byte of any of the framings.
MCDataBytes == {170}
==============================================================================
