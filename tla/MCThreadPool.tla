---------------------------- MODULE MCThreadPool ----------------------------
(* A small instance of ThreadPool for TLC.                                  *)
EXTENDS ThreadPool
=============================================================================
