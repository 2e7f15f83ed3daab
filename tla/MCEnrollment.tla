---------------------------- MODULE MCEnrollment ----------------------------
(* Instance of Enrollment for TLC. *)
EXTENDS Enrollment
=============================================================================
