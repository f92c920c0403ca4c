----------------------------- MODULE MCPollLoop -----------------------------
(* Small instances of PollLoop for TLC.                                     *)
EXTENDS PollLoop, TLC

Symmetry == Permutations(Conn)
=============================================================================
