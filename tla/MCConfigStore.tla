--------------------------- MODULE MCConfigStore ---------------------------
(* Instance of ConfigStore for TLC: two tags, one setting, two names. *)
EXTENDS ConfigStore, TLC

Symmetry == Permutations(Uids) \cup Permutations(Texts)
=============================================================================
