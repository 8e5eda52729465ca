----------------------------- MODULE MCDrivePut -----------------------------
(* Calls and accounts for the run of DrivePut.                             *)
EXTENDS DrivePut

CONSTANTS p1, p2, a1, a2
=============================================================================
