------------------------- MODULE MCPollMultiplexing -------------------------
(* A small instance of PollMultiplexing for TLC.                            *)
EXTENDS PollMultiplexing, TLC

Symmetry == Permutations(Conn)
=============================================================================
