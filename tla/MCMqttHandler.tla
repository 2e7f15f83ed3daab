--------------------------- MODULE MCMqttHandler ---------------------------
(* Instance of MqttHandler for TLC. *)
EXTENDS MqttHandler
=============================================================================
