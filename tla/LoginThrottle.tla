--------------------------- MODULE LoginThrottle ---------------------------
(***************************************************************************)
(* The login route of the web admin (web_admin.py, login) on gunicorn's    *)
(* threads, with the lockout of LoginThrottle.  Each method of the         *)
(* throttle holds its lock, the route does not: locked_for is asked before *)
(* PAM, which is slow, and the failure is recorded after it.               *)
(* One client: the entries of _failures are independent of each other.     *)
(***************************************************************************)
EXTENDS Integers, FiniteSets

CONSTANTS
    Threads,        \* of the one worker (door_admin.service)
    MaxAttempts,    \* max_login_attempts
    Lockout         \* lockout_minutes, in ticks

ASSUME LoginAssumption ==
    /\ IsFiniteSet(Threads) /\ Threads # {}
    /\ MaxAttempts \in Nat \ {0}
    /\ Lockout \in Nat \ {0}

VARIABLES
    count,          \* failures in the client's entry, 0 when there is none
    age,            \* time since the entry was written, Lockout when that or more
    response            \* each thread: "asking" (between locked_for and its outcome), or
                    \* the status it sent last

loginvars == <<count, age, response>>

Asking == {t \in Threads : response[t] = "asking"}
Locked == count >= MaxAttempts /\ age < Lockout

Send(t, status) == response' = [response EXCEPT ![t] = status]

\* record_failure and reset.
RecordFailure ==
    /\ count' = count + 1
    /\ age' = 0
Clear ==
    /\ count' = 0
    /\ age' = Lockout

----------------------------------------------------------------------------
(* A POST to /login, up to PAM *)

\* locked_for says how long to wait: 429, and the entry is left alone.
RefuseAndRecord(t) ==
    /\ response[t] # "asking"
    /\ Locked
    /\ Send(t, "429")
    /\ age' = 0
    /\ UNCHANGED count
Refuse(t) ==
    /\ response[t] # "asking"
    /\ Locked
    /\ Send(t, "429")
    /\ UNCHANGED <<count, age>>

\* locked_for drops an entry that is due.
AdmitAtLimit(t) ==
    /\ response[t] # "asking"
    /\ count > MaxAttempts => age >= Lockout
    /\ Send(t, "asking")
    /\ IF count > MaxAttempts THEN Clear ELSE UNCHANGED <<count, age>>
Admit(t) ==
    /\ response[t] # "asking"
    /\ ~Locked
    /\ Send(t, "asking")
    /\ IF count >= MaxAttempts THEN Clear ELSE UNCHANGED <<count, age>>

----------------------------------------------------------------------------
(* The rest of the request *)

\* A name no account can have, which is not put to PAM, a wrong password, or an account
\* that is not in the group of admins.
Fail(t) ==
    /\ response[t] = "asking"
    /\ \E status \in {"401", "403"} : Send(t, status)
    /\ RecordFailure

Succeed(t) ==
    /\ response[t] = "asking"
    /\ Send(t, "302")
    /\ Clear

\* PAMUnavailable counts as nothing.
Unavailable(t) ==
    /\ response[t] = "asking"
    /\ Send(t, "500")
    /\ UNCHANGED <<count, age>>

----------------------------------------------------------------------------
Tick ==
    /\ age < Lockout
    /\ age' = age + 1
    /\ UNCHANGED <<count, response>>

\* The failures are kept in memory.
Restart ==
    /\ count' = 0
    /\ age' = Lockout
    /\ response' = [t \in Threads |-> "none"]

LoginInit ==
    /\ count = 0
    /\ age = Lockout
    /\ response = [t \in Threads |-> "none"]

Post(t) == Refuse(t) \/ Admit(t)
Answer(t) == Fail(t) \/ Succeed(t) \/ Unavailable(t)
LoginNext == (\E t \in Threads : Post(t) \/ Answer(t)) \/ Tick \/ Restart

LoginSpec == LoginInit /\ [][LoginNext]_loginvars

\* Time passes, PAM answers in the end, and the client does not give up.
LoginFairSpec ==
    /\ LoginSpec
    /\ WF_loginvars(Tick)
    /\ \A t \in Threads : WF_loginvars(Answer(t)) /\ WF_loginvars(Post(t))

----------------------------------------------------------------------------
(* Properties *)

\* Every variable keeps its type.
LoginTypeOK ==
    /\ count \in Nat
    /\ age \in 0..Lockout
    /\ response \in [Threads -> {"none", "asking", "302", "401", "403", "429", "500"}]

\* The limit with threads that ask PAM at the same time: a client has at most
\* MaxAttempts - 1 failures and one for every thread before it is locked out, and what
\* is still being asked is part of that sum.
FailuresBounded ==
    LET Limit == MaxAttempts + Cardinality(Threads) IN
    /\ count >= MaxAttempts => count + Cardinality(Asking) < Limit
    /\ count < Limit

\* A lockout ends although the client goes on trying: a refused attempt does not extend
\* it, and the failures that come in after it began are as many as were being asked.
LockoutEnds == Locked ~> ~Locked

=============================================================================
