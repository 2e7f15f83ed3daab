---------------------------- MODULE AtomicChange ----------------------------
(***************************************************************************)
(* What a command that changes the configuration promises its caller: the  *)
(* change takes effect in one step or not at all, "ok" is answered only    *)
(* after it took effect and "error" only if it did not.  The caller of a   *)
(* service that goes down in between gets no answer and does not know.     *)
(* A power loss may bring back what was stored before, never a mixture.    *)
(***************************************************************************)
CONSTANTS Values, Nothing

VARIABLES
    value,          \* what is stored
    recoverable,    \* what a power loss may leave stored
    wanted,         \* what the pending command asked for
    answer          \* "none", "pending", "applied", "ok", "error"

avars == <<value, recoverable, wanted, answer>>

Open == answer \in {"pending", "applied"}

Init ==
    /\ value \in Values
    /\ recoverable = {value}
    /\ wanted = Nothing
    /\ answer = "none"

\* A command asks for v.
Ask(v) ==
    /\ ~Open
    /\ wanted' = v
    /\ answer' = "pending"
    /\ UNCHANGED <<value, recoverable>>

\* A command is refused outright.
Refuse ==
    /\ ~Open
    /\ answer' = "error"
    /\ UNCHANGED <<value, recoverable, wanted>>

\* A command asks for what is stored already.
Confirm ==
    /\ ~Open
    /\ answer' = "ok"
    /\ UNCHANGED <<value, recoverable, wanted>>

Apply ==
    /\ answer = "pending"
    /\ value' = wanted
    /\ recoverable' = recoverable \cup {wanted}
    /\ answer' = "applied"
    /\ UNCHANGED wanted

Answer ==
    /\ Open
    /\ answer' = IF answer = "applied" THEN "ok" ELSE "error"
    /\ wanted' = Nothing
    /\ UNCHANGED <<value, recoverable>>

\* The service goes down, with or without a command pending.
GoDown ==
    /\ answer' = "none"
    /\ wanted' = Nothing
    /\ UNCHANGED <<value, recoverable>>

Settle ==
    /\ recoverable' = {value}
    /\ UNCHANGED <<value, wanted, answer>>

LosePower ==
    /\ value' \in recoverable
    /\ recoverable' = {value'}
    /\ answer' = "none"
    /\ wanted' = Nothing

Next ==
    \/ \E v \in Values : Ask(v)
    \/ Refuse \/ Confirm \/ Apply \/ Answer \/ GoDown \/ Settle \/ LosePower

Spec == Init /\ [][Next]_avars

=============================================================================
