---------------------------- MODULE MCDoorSensor ----------------------------
(* Instance of DoorSensor for TLC. *)
EXTENDS DoorSensor
=============================================================================
