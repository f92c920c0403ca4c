-------------------------- MODULE MCThreadLessons --------------------------
(* A small instance of ThreadLessons for TLC.                               *)
EXTENDS ThreadLessons
=============================================================================
