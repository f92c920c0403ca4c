-------------------------- MODULE MCEmployeeStore --------------------------
(* A small instance of EmployeeStore for TLC, in which every call may fail. *)
EXTENDS EmployeeStore, TLC

AllFaults == {"disk full", "read error"}
=============================================================================
