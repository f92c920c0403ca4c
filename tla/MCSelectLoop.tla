---------------------------- MODULE MCSelectLoop ----------------------------
(* A small instance of SelectLoop for TLC.                                  *)
EXTENDS SelectLoop
=============================================================================
