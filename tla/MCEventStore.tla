---------------------------- MODULE MCEventStore ----------------------------
(* Instance of EventStore for TLC. *)
EXTENDS EventStore
=============================================================================
