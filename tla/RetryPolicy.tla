----------------------------- MODULE RetryPolicy -----------------------------
(***************************************************************************)
(* app/retry.py: call_with_retry(fn, is_retryable, max_attempts, ...).     *)
(*                                                                         *)
(* A call of fn ends in one of three ways: it returns a value, it raises   *)
(* an exception is_retryable accepts, or it raises another one.  Delays    *)
(* are whole units of time; jitter is any fraction of the backoff.         *)
(*                                                                         *)
(* The specification AgentCall implements; its claims are checked there.   *)
(***************************************************************************)
EXTENDS Naturals, Sequences

CONSTANTS
  MaxAttempts,   \* bound: values of max_attempts
  BaseDelay,     \* base_delay_s
  MaxDelay       \* max_delay_s

VARIABLES
  max_attempts,  \* the argument, fixed when the call starts
  attempt,       \* the loop variable
  outcomes,      \* how the calls of fn ended so far, in order: "value",
                 \* "retryable" or "fatal"
  slept,         \* the delays slept so far, in order
  pc,            \* "start", "calling" fn, "sleeping", "done"
  result         \* how call_with_retry ended

vars == << max_attempts, attempt, outcomes, slept, pc, result >>

\* The k-th backoff, k from 0: exponential and capped.
Backoff(k) ==
  LET d == BaseDelay * 2 ^ k IN IF d < MaxDelay THEN d ELSE MaxDelay

Init ==
  /\ max_attempts \in 0 .. MaxAttempts
  /\ attempt = 0
  /\ outcomes = << >> /\ slept = << >>
  /\ pc = "start" /\ result = "none"

\* max_attempts < 1 is a ValueError, and fn is never called.
Start ==
  /\ pc = "start"
  /\ IF max_attempts < 1
     THEN pc' = "done" /\ result' = "rejected"
     ELSE pc' = "calling" /\ UNCHANGED result
  /\ UNCHANGED << max_attempts, attempt, outcomes, slept >>

Finish(outcome, r) ==
  /\ pc' = "done"
  /\ result' = r
  /\ outcomes' = Append(outcomes, outcome)
  /\ UNCHANGED << max_attempts, attempt, slept >>

Return == pc = "calling" /\ Finish("value", "returned")

Raise == pc = "calling" /\ Finish("fatal", "raised")

\* The last attempt failed: RetriesExhaustedError, and no sleep before it.
Exhaust ==
  /\ pc = "calling" /\ attempt = max_attempts - 1
  /\ Finish("retryable", "exhausted")

BackOff(delay) ==
  /\ pc = "calling" /\ attempt < max_attempts - 1
  /\ outcomes' = Append(outcomes, "retryable")
  /\ slept' = Append(slept, delay)
  /\ pc' = "sleeping"
  /\ UNCHANGED << max_attempts, attempt, result >>

Wake ==
  /\ pc = "sleeping"
  /\ attempt' = attempt + 1
  /\ pc' = "calling"
  /\ UNCHANGED << max_attempts, outcomes, slept, result >>

\* rand() < 1: the delay stays below the backoff.
Next ==
  \/ Start \/ Return \/ Raise \/ Exhaust \/ Wake
  \/ \E delay \in 0 .. Backoff(attempt) - 1 : BackOff(delay)

Spec     == Init /\ [][Next]_vars
FairSpec == Spec /\ WF_vars(Next)

-----------------------------------------------------------------------------
\* "Retryable failures get backoff up to a max attempt count; non-retryable
\* failures fail immediately": fn is called at most max_attempts times, only a
\* retryable failure is followed by another call, and the caller is told what
\* the last call said.  RetriesExhaustedError means that every attempt was made
\* and failed.
OutcomeIsJustified ==
  LET n == Len(outcomes) IN
  /\ n <= max_attempts
  /\ \A i \in 1 .. n - 1 : outcomes[i] = "retryable"
  /\ result = "none"      => \A i \in 1 .. n : outcomes[i] = "retryable"
  /\ result = "rejected"  => n = 0 /\ max_attempts = 0
  /\ result = "returned"  => n > 0 /\ outcomes[n] = "value"
  /\ result = "raised"    => n > 0 /\ outcomes[n] = "fatal"
  /\ result = "exhausted" => n = max_attempts /\ n > 0 /\ outcomes[n] = "retryable"
=============================================================================
