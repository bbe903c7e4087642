-------------------------------- MODULE Retry --------------------------------
(***************************************************************************)
(* The loops of UtilsService that call a function again: rerunnable (so    *)
(* many times), retryable (until it succeeds), occrunnable (while a record *)
(* is not found, P2025) and waitUntilValue, which waits for a value.  One  *)
(* loop at a time; what the function does is free.                         *)
(*                                                                         *)
(* A definition marked SLIP is not the code's: it is the one after it with *)
(* a mistake such code invites, kept to see that a property notices it.    *)
(***************************************************************************)
EXTENDS Naturals

CONSTANTS MaxRetries,      \* of rerunnable
          HalfDelay,       \* half of backoff.delay
          Timeout,         \* of waitUntilValue, 0 for none; in intervals
          MaxCalls         \* bound on what the endless loops are followed for

ASSUME RetryAssumption == /\ MaxRetries \in Nat /\ Timeout \in Nat
                          /\ HalfDelay \in Nat \ {0} /\ MaxCalls \in Nat

Loops == {"rerunnable", "retryable", "occrunnable", "waitUntilValue"}

VARIABLES
    loop,      \* which one runs
    type,      \* of backoff
    attempt,
    stage,     \* "call", "sleep", "returned" or "threw"
    calls,     \* calls of the function so far, or intervals waited
    error,     \* what the last call threw
    slept      \* the delays so far, together

retryVars == <<loop, type, attempt, stage, calls, error, slept>>

RetryInit == /\ loop \in Loops
             /\ type \in {"fixed", "exponential"}
             /\ attempt = 0 /\ stage = "call" /\ calls = 0
             /\ error = "none" /\ slept = 0

Retrying == loop \in {"rerunnable", "retryable"}

\* Math.pow(2, n)
Power[n \in Nat] == IF n = 0 THEN 1 ELSE 2 * Power[n - 1]

\* backoff.delay * Math.pow(2, attempt - 2): half the delay the first time.
ExponentialDelay(n) == HalfDelay * Power[n - 1]
Delay(n) == IF type = "fixed" THEN 2 * HalfDelay ELSE ExponentialDelay(n)

Sleep == /\ stage = "sleep"
         /\ slept' = IF Retrying THEN slept + Delay(attempt) ELSE slept
         /\ stage' = "call"
         /\ UNCHANGED <<loop, type, attempt, calls, error>>

Succeed == /\ stage = "call" /\ loop # "waitUntilValue"
           /\ calls < MaxCalls
           /\ calls' = calls + 1
           /\ stage' = "returned" /\ error' = "none"
           /\ UNCHANGED <<loop, type, attempt, slept>>

IsLate(n) == n > MaxRetries                                       \* SLIP
IsLast(n) == n = MaxRetries

GivesUp(e) == CASE loop = "rerunnable" -> IsLast(attempt)
                [] loop = "retryable" -> FALSE
                [] loop = "occrunnable" -> e # "P2025"

\* occrunnable calls again at once, the others sleep first.
FailCall(e) ==
    /\ stage = "call" /\ loop # "waitUntilValue"
    /\ calls < MaxCalls
    /\ calls' = calls + 1
    /\ error' = e
    /\ IF GivesUp(e) THEN stage' = "threw" /\ UNCHANGED attempt
       ELSE IF loop = "occrunnable" THEN UNCHANGED <<stage, attempt>>
       ELSE stage' = "sleep" /\ attempt' = attempt + 1
    /\ UNCHANGED <<loop, type, slept>>

\* The value to wait for is a parameter, which nothing in the loop changes: it
\* is equal at first or never.  After Timeout intervals the clock may be past it
\* or still at it.
WaitForValue ==
    /\ stage = "call" /\ loop = "waitUntilValue"
    /\ \/ calls = 0 /\ stage' = "returned" /\ UNCHANGED <<calls, error>>
       \/ /\ Timeout # 0 /\ calls >= Timeout
          /\ stage' = "threw" /\ error' = "timeout" /\ UNCHANGED calls
       \/ /\ Timeout = 0 \/ calls <= Timeout
          /\ calls < MaxCalls
          /\ stage' = "sleep" /\ calls' = calls + 1 /\ UNCHANGED error
    /\ UNCHANGED <<loop, type, attempt, slept>>

RetryNext == \/ Sleep \/ Succeed \/ WaitForValue
             \/ \E e \in {"P2025", "other"} : FailCall(e)

RetrySpec == RetryInit /\ [][RetryNext]_retryVars

-----------------------------------------------------------------------------
(* Properties.                                                             *)

RetryTypeOK == /\ loop \in Loops /\ type \in {"fixed", "exponential"}
               /\ attempt \in Nat /\ calls \in 0..MaxCalls /\ slept \in Nat
               /\ stage \in {"call", "sleep", "returned", "threw"}
               /\ error \in {"none", "P2025", "other", "timeout"}

\* rerunnable calls MaxRetries + 1 times and no more, and throws after the last
\* of these only; retryable never throws; occrunnable throws what is not P2025.
\* Together, n calls that failed were waited for n times the given delay, and
\* with exponential backoff half of it less than the delay doubled n - 1 times.
LoopsEndRight ==
    /\ loop = "rerunnable" => calls <= MaxRetries + 1
    /\ loop = "rerunnable" /\ stage = "threw" => calls = MaxRetries + 1
    /\ loop = "retryable" => stage # "threw"
    /\ loop = "occrunnable" => (stage = "threw") = (error = "other")
    /\ Retrying /\ stage # "sleep" =>
          slept = IF type = "fixed" THEN 2 * HalfDelay * attempt
                                    ELSE HalfDelay * Power[attempt] - HalfDelay

=============================================================================
