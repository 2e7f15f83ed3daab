---------------------------- MODULE MCNfcReader ----------------------------
(* Instance of NfcReader for TLC. *)
EXTENDS NfcReader
=============================================================================
