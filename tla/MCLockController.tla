-------------------------- MODULE MCLockController --------------------------
(* Instance of LockController for TLC.  One unlock event stands for the three: *)
(* they call unlock() alike.                                                   *)
EXTENDS LockController

MCDurations == {1, 2}
MCPosted == {"BUTTON_PRESS", "lock", "set_lock_polarity", "set_unlock_duration", "other"}
=============================================================================
