-------------------------- MODULE MCLoginThrottle --------------------------
(* Instance of LoginThrottle for TLC. *)
EXTENDS LoginThrottle
=============================================================================
