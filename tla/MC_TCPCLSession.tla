-------------------------- MODULE MC_TCPCLSession --------------------------
(* Model-checking instance of TCPCLSession: two connections.               *)
EXTENDS TCPCLSession, TLC

CONSTANTS c1, c2

MCConn == {c1, c2}
MCConnOne == {c1}

\* Connections are interchangeable (safety-only runs).
ConnSymmetry == Permutations(MCConn)
=============================================================================
