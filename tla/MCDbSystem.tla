----------------------------- MODULE MCDbSystem -----------------------------
(* Small instances of DbSystem for TLC.                                     *)
EXTENDS DbSystemInvariant, TLC

Nothing == {}
SplitOnly == {"split"}
KillAndCrash == {"kill", "crash"}
Everything == {"split", "kill", "crash"}
=============================================================================
