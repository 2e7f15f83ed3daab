-------------------------- MODULE MCControlSocket --------------------------
(* Instance of ControlSocket for TLC. *)
EXTENDS ControlSocket
=============================================================================
